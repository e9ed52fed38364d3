--------------------------- MODULE DeliveryProofs ---------------------------
(***************************************************************************)
(* Theorems about Delivery, for every value of its constants.               *)
(***************************************************************************)
EXTENDS Delivery, FiniteSetTheorems, TLAPS

\* Only sessions dispatch cards, so that a worker's bookkeeping is about events.
WorkersEvents == \A w \in Workers : actor[w].todo \subseteq Events

\* What is waiting to be dispatched and is no plain event carries the founder's yes.
Carried ==
    /\ \A e \in event : e[2] # "emitted" => e[1] \in consented
    /\ \A a \in Actors : \A j \in actor[a].todo : j[2] # "emitted" => j[1] \in consented

\* The inductive invariant: HeldBack alone forgets why a card or a resent event may go.
Inv == TypeOK /\ WorkersEvents /\ Carried /\ HeldBack

-----------------------------------------------------------------------------
(* Types.                                                                   *)

\* A process has at most one job of each kind for a deliverable.
LEMMA JobsOfOne ==
    ASSUME NEW S \in SUBSET Jobs, NEW d
    PROVE  Cardinality({j \in S : j[1] = d}) \in Nat
<1>1. IsFiniteSet({<<d, "emitted">>, <<d, "resent">>, <<d, "card">>})
  <2>1. IsFiniteSet({<<d, "emitted">>})
    BY FS_Singleton
  <2>2. IsFiniteSet({<<d, "emitted">>} \union {<<d, "resent">>})
    BY <2>1, FS_AddElement
  <2>3. IsFiniteSet(({<<d, "emitted">>} \union {<<d, "resent">>}) \union {<<d, "card">>})
    BY <2>2, FS_AddElement
  <2>4. QED
    BY <2>3
<1>2. {j \in S : j[1] = d} \subseteq {<<d, "emitted">>, <<d, "resent">>, <<d, "card">>}
  BY DEF Jobs, Events
<1>3. QED
  BY <1>1, <1>2, FS_Subset, FS_CardinalityType

LEMMA IdleType == Idle \in ActorStates
BY DEF Idle, ActorStates, Pcs, Ops

\* The jobs of a process are about deliverables.
LEMMA JobParts ==
    ASSUME NEW j \in Jobs
    PROVE  /\ j[1] \in Dels
           /\ j[2] \in {"emitted", "resent", "card"}
           /\ j[2] # "card" => j \in Events
           /\ j \in Events => j[2] # "card"
BY DEF Jobs, Events

LEMMA SettledType ==
    ASSUME TypeOK, NEW a \in Actors, NEW j \in Jobs
    PROVE  Settled(a, j) \in ActorStates
<1> DEFINE s == actor[a]
<1>1. s \in ActorStates
  BY DEF TypeOK
<1>2. [s EXCEPT !.pc = "work", !.cur = {}, !.todo = s.todo \ {j}, !.made = s.made \union {j}]
        \in ActorStates
  <2> HIDE DEF s
  <2>1. QED
    BY <1>1 DEF ActorStates, Pcs
<1>3. QED
  BY <1>2 DEF Settled

\* A step changes one process at most, and keeps it well formed.
LEMMA Becomes ==
    ASSUME TypeOK, NEW a \in Actors, NEW s \in ActorStates, actor' = [actor EXCEPT ![a] = s]
    PROVE  actor' \in [Actors -> ActorStates]
BY DEF TypeOK

LEMMA OweType ==
    ASSUME TypeOK, NEW D, Owe(D)
    PROVE  owed' \in [Dels -> Int]
BY DEF TypeOK, Owe

LEMMA ShipType ==
    ASSUME TypeOK, NEW R \in SUBSET Runs, NEW ev, ShipDelivered(R, ev)
    PROVE  status' \in [Runs -> Statuses] /\ marked' \subseteq Runs
BY DEF TypeOK, ShipDelivered, Statuses, Terminal

LEMMA ResolveType ==
    ASSUME TypeOK, NEW r \in Runs, AutoResolve(r)
    PROVE  status' \in [Runs -> Statuses] /\ marked' \subseteq Runs /\ review' \subseteq Runs
BY DEF TypeOK, AutoResolve, Statuses, Terminal

LEMMA ForgetType ==
    ASSUME TypeOK, NEW a \in Actors, NEW j \in Jobs, Forget(a, j)
    PROVE  tries' \in [Workers -> [Events -> 0..(MaxAttempts - 1)]]
<1>1. 0 \in 0..(MaxAttempts - 1)
  BY DeliveryBounds
<1>2. CASE a \in Workers /\ j \in Events
  <2>1. [tries[a] EXCEPT ![j] = 0] \in [Events -> 0..(MaxAttempts - 1)]
    BY <1>1, <1>2 DEF TypeOK
  <2>2. QED
    BY <2>1, <1>2 DEF TypeOK, Forget
<1>3. CASE ~(a \in Workers /\ j \in Events)
  BY <1>3 DEF TypeOK, Forget
<1>4. QED
  BY <1>2, <1>3

\* A step that queues nothing but plain events or deliverables with a yes, and sends
\* nothing, keeps the rest of the invariant.
LEMMA QuietStep ==
    ASSUME Inv, TypeOK', consented \subseteq consented', gone' = gone, origin' = origin,
           \A e \in event' \ event : e[2] # "emitted" => e[1] \in consented',
           \A a \in Actors : actor'[a].todo \subseteq actor[a].todo
    PROVE  Inv'
<1>1. WorkersEvents'
  BY DEF Inv, WorkersEvents, Actors
<1>2. Carried'
  BY DEF Inv, Carried
<1>3. HeldBack'
  BY DEF Inv, HeldBack
<1>4. QED
  BY <1>1, <1>2, <1>3 DEF Inv

-----------------------------------------------------------------------------
(* One lemma per group of actions: every conjunct of Inv survives a step.   *)

LEMMA DispatchStep ==
    ASSUME Inv, NEW a \in Actors, NEW j \in actor[a].todo,
           Lands(a, j) \/ Refused(a, j) \/ Raises(a, j)
    PROVE  Inv'
<1>1. j \in Jobs /\ j[1] \in Dels /\ RunOf[j[1]] \in Runs /\ (a \in Workers => j \in Events)
  BY JobParts, RunOfAssumption DEF Inv, TypeOK, WorkersEvents, ActorStates
<1>2. origin[RunOf[j[1]]] = "autonomous" => j[1] \in consented
  BY <1>1, JobParts DEF Inv, Carried, MayDispatch, Lands, Refused, Raises, resolve_output_mode_gate
<1>3. HeldBack'
  BY <1>2 DEF Inv, HeldBack, Lands, Refused, Raises, Sent, settings
<1>4. CASE Lands(a, j)
  <2>1. [actor[a] EXCEPT !.pc = "mark", !.cur = {j}] \in ActorStates
    BY <1>1, ZenonT(60) DEF Inv, TypeOK, ActorStates, Pcs
  <2>2. actor' = [actor EXCEPT ![a] = [actor[a] EXCEPT !.pc = "mark", !.cur = {j}]]
    BY <1>4 DEF Lands, Inv, TypeOK
  <2>3. TypeOK'
    BY <1>1, <1>4, <2>1, <2>2, Becomes DEF Inv, TypeOK, Lands, Sent, settings
  <2>4. \A b \in Actors : actor'[b].todo = actor[b].todo
    BY <2>2 DEF Inv, TypeOK, ActorStates
  <2>5. WorkersEvents' /\ Carried'
    BY <1>4, <2>4 DEF Inv, WorkersEvents, Carried, Lands, Actors
  <2>6. QED
    BY <1>3, <2>3, <2>5 DEF Inv
<1>5. CASE Refused(a, j)
  <2>1. Settled(a, j) \in ActorStates
    BY <1>1, SettledType DEF Inv
  <2>2. tries' \in [Workers -> [Events -> 0..(MaxAttempts - 1)]]
    BY <1>1, <1>5, ForgetType DEF Inv, Refused
  <2>3. TypeOK'
    BY <1>1, <1>5, <2>1, <2>2, Becomes DEF Inv, TypeOK, Refused, Sent, settings
  <2>4. \A b \in Actors : actor'[b].todo \subseteq actor[b].todo
    BY <1>5, <2>1 DEF Inv, TypeOK, Refused, Settled, ActorStates
  <2>5. WorkersEvents' /\ Carried'
    BY <1>5, <2>4 DEF Inv, WorkersEvents, Carried, Refused, Actors
  <2>6. QED
    BY <1>3, <2>3, <2>5 DEF Inv
<1>6. CASE Raises(a, j)
  <2>1. Settled(a, j) \in ActorStates
    BY <1>1, SettledType DEF Inv
  <2>2. a \notin Sessions => a \in Workers
    BY DEF Actors
  <2>3. /\ [actor[a] EXCEPT !.todo = @ \ {j}] \in ActorStates
        /\ a \notin Sessions => [actor[a] EXCEPT !.todo = @ \ {j}, !.dropped = @ \union {j}]
                                    \in ActorStates
    BY <1>1, <2>2 DEF Inv, TypeOK, ActorStates
  <2>4. PICK s \in ActorStates : actor' = [actor EXCEPT ![a] = s] /\ s.todo = actor[a].todo \ {j}
    <3>1. CASE a \in Sessions
      BY <1>6, <2>1, <3>1 DEF Raises, Settled, Inv, TypeOK, ActorStates
    <3>2. CASE a \notin Sessions
      BY <1>6, <2>3, <3>2 DEF Raises, Inv, TypeOK, ActorStates
    <3>3. QED
      BY <3>1, <3>2
  <2>5. tries' \in [Workers -> [Events -> 0..(MaxAttempts - 1)]]
    <3>1. CASE a \in Sessions
      BY <1>6, <3>1 DEF Raises, Inv, TypeOK
    <3>2. CASE a \notin Sessions
      <4>1. tries[a][j] \in 0..(MaxAttempts - 1) /\ a \in Workers /\ j \in Events
        BY <1>1, <2>2, <3>2 DEF Inv, TypeOK
      <4>2. \A n \in 0..(MaxAttempts - 1) :
                [tries EXCEPT ![a][j] = n] \in [Workers -> [Events -> 0..(MaxAttempts - 1)]]
        BY <4>1 DEF Inv, TypeOK
      <4>3. 0 \in 0..(MaxAttempts - 1)
        BY DeliveryBounds
      <4>4. CASE tries[a][j] + 1 >= MaxAttempts
        BY <1>6, <3>2, <4>2, <4>3, <4>4 DEF Raises
      <4>5. CASE ~(tries[a][j] + 1 >= MaxAttempts)
        <5>1. tries[a][j] + 1 \in 0..(MaxAttempts - 1)
          BY <4>1, <4>5, DeliveryBounds
        <5>2. tries' = [tries EXCEPT ![a][j] = tries[a][j] + 1]
          BY <1>6, <3>2, <4>5 DEF Raises
        <5>3. QED
          BY <4>2, <5>1, <5>2
      <4>6. QED
        BY <4>4, <4>5
    <3>3. QED
      BY <3>1, <3>2
  <2>6. TypeOK'
    <3>1. actor' \in [Actors -> ActorStates]
      BY <2>4, Becomes DEF Inv
    <3>2. QED
      BY <1>1, <1>6, <2>5, <3>1 DEF Inv, TypeOK, Raises, settings, runVars
  <2>7. \A b \in Actors : actor'[b].todo \subseteq actor[b].todo
    BY <2>4 DEF Inv, TypeOK, ActorStates
  <2>8. WorkersEvents' /\ Carried'
    BY <1>6, <2>7 DEF Inv, WorkersEvents, Carried, Raises, Actors
  <2>9. QED
    BY <1>3, <2>6, <2>8 DEF Inv
<1>7. QED
  BY <1>4, <1>5, <1>6

LEMMA BooksStep ==
    ASSUME Inv, NEW a \in Actors, Mark(a) \/ Resolve(a) \/ BooksFail(a)
    PROVE  Inv'
<1>1. PICK j \in actor[a].cur : TRUE
  BY DEF Mark, Resolve, BooksFail
<1>2. \A k \in actor[a].cur : k \in Jobs /\ k[1] \in Dels /\ RunOf[k[1]] \in Runs
  BY JobParts, RunOfAssumption DEF Inv, TypeOK, ActorStates
<1>3. \A k \in actor[a].cur : Settled(a, k) \in ActorStates
                              /\ Settled(a, k).todo \subseteq actor[a].todo
  <2>1. \A k \in actor[a].cur : Settled(a, k) \in ActorStates
    BY <1>2, SettledType DEF Inv
  <2>2. QED
    BY <2>1 DEF Inv, TypeOK, ActorStates, Settled
<1>4. CASE Mark(a)
  <2>1. [actor[a] EXCEPT !.pc = "resolve"] \in ActorStates
    BY ZenonT(60) DEF Inv, TypeOK, ActorStates, Pcs
  <2>2. actor' = [actor EXCEPT ![a] = [actor[a] EXCEPT !.pc = "resolve"]]
    BY <1>4 DEF Mark, Inv, TypeOK
  <2>3. actor' \in [Actors -> ActorStates]
    BY <2>1, <2>2, Becomes DEF Inv
  <2>4. TypeOK'
    BY <1>2, <1>4, <2>3 DEF Inv, TypeOK, Mark, Cards, runVars, settings, past
  <2>5. \A b \in Actors : actor'[b].todo \subseteq actor[b].todo
    BY <2>2 DEF Inv, TypeOK, ActorStates
  <2>6. QED
    BY <1>4, <2>4, <2>5, QuietStep DEF Mark, settings, past
<1>5. CASE Resolve(a)
  <2>1. PICK k \in actor[a].cur : /\ AutoResolve(RunOf[k[1]])
                                  /\ Forget(a, k)
                                  /\ actor' = [actor EXCEPT ![a] = Settled(a, k)]
    BY <1>5 DEF Resolve
  <2>2. /\ status' \in [Runs -> Statuses] /\ marked' \subseteq Runs /\ review' \subseteq Runs
        /\ tries' \in [Workers -> [Events -> 0..(MaxAttempts - 1)]]
        /\ actor' \in [Actors -> ActorStates]
    BY <1>2, <1>3, <2>1, ResolveType, ForgetType, Becomes DEF Inv
  <2>3. TypeOK'
    BY <1>5, <2>2 DEF Inv, TypeOK, Resolve, settings, past
  <2>4. \A b \in Actors : actor'[b].todo \subseteq actor[b].todo
    BY <1>3, <2>1 DEF Inv, TypeOK
  <2>5. QED
    BY <1>5, <2>3, <2>4, QuietStep DEF Resolve, settings, past
<1>6. CASE BooksFail(a)
  <2>1. PICK k \in actor[a].cur : Forget(a, k) /\ actor' = [actor EXCEPT ![a] = Settled(a, k)]
    BY <1>6 DEF BooksFail
  <2>2. /\ tries' \in [Workers -> [Events -> 0..(MaxAttempts - 1)]]
        /\ actor' \in [Actors -> ActorStates]
    BY <1>2, <1>3, <2>1, ForgetType, Becomes DEF Inv
  <2>3. TypeOK'
    BY <1>6, <2>2 DEF Inv, TypeOK, BooksFail, runVars, settings, past
  <2>4. \A b \in Actors : actor'[b].todo \subseteq actor[b].todo
    BY <1>3, <2>1 DEF Inv, TypeOK
  <2>5. QED
    BY <1>6, <2>3, <2>4, QuietStep DEF BooksFail, settings, past
<1>7. QED
  BY <1>4, <1>5, <1>6

LEMMA ClaimStep ==
    ASSUME Inv, NEW w \in Workers, Claim(w)
    PROVE  Inv'
<1> DEFINE s == actor'[w]
<1>1. w \in Actors
  BY DEF Actors
<1>2. /\ actor' = [actor EXCEPT ![w] = s]
      /\ s \in ActorStates /\ s.todo \subseteq event
  BY <1>1 DEF Inv, TypeOK, Claim, Idle, ActorStates, Pcs, Ops, Jobs
<1>3. TypeOK'
  <2>1. actor' \in [Actors -> ActorStates]
    BY <1>1, <1>2, Becomes DEF Inv
  <2>2. QED
    BY <2>1 DEF Inv, TypeOK, Claim, runVars, settings, past
<1>4. \A a \in Actors : actor'[a].todo \subseteq actor[a].todo \/ actor'[a].todo \subseteq event
  BY <1>2 DEF Inv, TypeOK
<1>5. WorkersEvents' /\ Carried' /\ HeldBack'
  BY <1>4 DEF Inv, TypeOK, WorkersEvents, Carried, HeldBack, Actors, Claim, settings, past
<1>6. QED
  BY <1>3, <1>5 DEF Inv

LEMMA HoldStep ==
    ASSUME Inv, NEW w \in Workers, NEW e \in actor[w].todo, Hold(w, e)
    PROVE  Inv'
<1>1. w \in Actors /\ e \in Events
  BY DEF Actors, Inv, WorkersEvents
<1>2. [actor[w] EXCEPT !.todo = @ \ {e}, !.kept = @ \union {e}] \in ActorStates
  BY <1>1, ZenonT(60) DEF Inv, TypeOK, ActorStates
<1>3. actor' = [actor EXCEPT ![w] = [actor[w] EXCEPT !.todo = @ \ {e}, !.kept = @ \union {e}]]
  BY <1>1 DEF Hold, Inv, TypeOK, ActorStates
<1>4. actor' \in [Actors -> ActorStates]
  BY <1>1, <1>2, <1>3, Becomes DEF Inv
<1>5. tries' \in [Workers -> [Events -> 0..(MaxAttempts - 1)]]
  <2>1. [tries[w] EXCEPT ![e] = 0] \in [Events -> 0..(MaxAttempts - 1)]
    BY <1>1, DeliveryBounds DEF Inv, TypeOK
  <2>2. QED
    BY <2>1 DEF Inv, TypeOK, Hold
<1>6. TypeOK'
  BY <1>4, <1>5 DEF Inv, TypeOK, Hold, runVars, settings, past
<1>7. \A b \in Actors : actor'[b].todo \subseteq actor[b].todo
  BY <1>1, <1>3 DEF Inv, TypeOK, ActorStates
<1>8. QED
  BY <1>6, <1>7, QuietStep DEF Hold, settings, past

LEMMA CommitStep ==
    ASSUME Inv, NEW w \in Workers, Commit(w)
    PROVE  Inv'
<1>1. w \in Actors
  BY DEF Actors
<1>2. [Idle EXCEPT !.op = "drain", !.pc = "ship"] \in ActorStates
  BY DEF Idle, ActorStates, Pcs, Ops
<1>3. actor' \in [Actors -> ActorStates]
  BY <1>1, <1>2, Becomes DEF Inv, Commit
<1>4. item' \in [Dels -> Cards] /\ owed' \in [Dels -> Int] /\ event' \subseteq event
  BY DEF Inv, TypeOK, Commit, Cards
<1>5. TypeOK'
  BY <1>3, <1>4 DEF Inv, TypeOK, Commit, runVars, settings
<1>6. \A b \in Actors : actor'[b].todo \subseteq actor[b].todo
  BY <1>1 DEF Inv, TypeOK, Commit, Idle
<1>7. QED
  BY <1>4, <1>5, <1>6, QuietStep DEF Commit, settings

LEMMA SweepStep ==
    ASSUME Inv, NEW w \in Workers, Sweep(w)
    PROVE  Inv'
<1>1. w \in Actors /\ actor' = [actor EXCEPT ![w] = Idle]
  BY DEF Actors, Sweep
<1>2. actor' \in [Actors -> ActorStates]
  BY <1>1, IdleType, Becomes DEF Inv
<1>3. status' \in [Runs -> Statuses] /\ marked' \subseteq Runs
  BY ShipType DEF Inv, Sweep
<1>4. TypeOK'
  BY <1>2, <1>3 DEF Inv, TypeOK, Sweep, settings, past
<1>5. \A b \in Actors : actor'[b].todo \subseteq actor[b].todo
  BY <1>1 DEF Inv, TypeOK, Idle
<1>6. QED
  BY <1>4, <1>5, QuietStep DEF Sweep, settings, past

LEMMA CrashStep ==
    ASSUME Inv, NEW a \in Actors, Crash(a)
    PROVE  Inv'
<1>1. actor' = [actor EXCEPT ![a] = Idle] /\ actor' \in [Actors -> ActorStates]
  BY IdleType, Becomes DEF Inv, Crash
<1>2. tries' \in [Workers -> [Events -> 0..(MaxAttempts - 1)]]
  BY DeliveryBounds DEF Inv, TypeOK, Crash
<1>3. owed' \in [Dels -> Int]
  <2>1. \A d \in Dels : Cardinality({j \in actor[a].made \union actor[a].cur : j[1] = d}) \in Nat
    <3>1. actor[a].made \union actor[a].cur \in SUBSET Jobs
      BY DEF Inv, TypeOK, ActorStates
    <3>2. QED
      BY <3>1, JobsOfOne
  <2> DEFINE again(d) == Cardinality({j \in actor[a].made \union actor[a].cur : j[1] = d})
  <2>2. owed' = owed \/ owed' = [d \in Dels |-> owed[d] + again(d)]
    BY DEF Crash
  <2>3. owed \in [Dels -> Int] /\ \A d \in Dels : again(d) \in Int
    BY <2>1 DEF Inv, TypeOK
  <2> HIDE DEF again
  <2>4. QED
    BY <2>2, <2>3
<1>4. TypeOK'
  BY <1>1, <1>2, <1>3, DeliveryBounds DEF Inv, TypeOK, Crash, runVars, settings
<1>5. \A b \in Actors : actor'[b].todo \subseteq actor[b].todo
  BY <1>1 DEF Inv, TypeOK, Idle
<1>6. QED
  BY <1>4, <1>5, QuietStep DEF Crash, settings

LEMMA QueueStep ==
    ASSUME Inv, NEW s \in Sessions,
           ApproveDone(s) \/ CheckLeft(s) \/ Deny(s) \/ Reject(s)
             \/ \E op \in Ops \ {"none", "drain"}, D \in SUBSET Pending(Dels) : ReadCards(s, op, D)
    PROVE  Inv'
<1>1. s \in Actors
  BY DEF Actors
<1>2. actor[s] \in ActorStates
  BY <1>1 DEF Inv, TypeOK
<1>3. PICK x \in ActorStates : actor' = [actor EXCEPT ![s] = x] /\ x.todo \subseteq actor[s].todo
  <2>1. CASE ApproveDone(s) \/ Deny(s) \/ Reject(s)
    BY <2>1, IdleType DEF ApproveDone, Deny, Reject, Idle
  <2>2. CASE CheckLeft(s)
    <3> DEFINE F == {r \in Runs \ marked :
                         /\ status[r] = "review_ready"
                         /\ \E d \in actor[s].held : RunOf[d] = r
                         /\ ~\E d \in Of(r) \ actor[s].held : LiveCard(d)}
    <3>1. F \in SUBSET Runs
      OBVIOUS
    <3>2. actor' = [actor EXCEPT ![s] = [actor[s] EXCEPT !.pc = "checked", !.freed = F]]
      BY <1>1, <2>2 DEF CheckLeft, Inv, TypeOK
    <3> HIDE DEF F
    <3>3. [actor[s] EXCEPT !.pc = "checked", !.freed = F] \in ActorStates
      BY <1>2, <3>1 DEF ActorStates, Pcs
    <3>4. QED
      BY <1>2, <3>2, <3>3 DEF ActorStates
  <2>3. ASSUME NEW op \in Ops, NEW D \in SUBSET Pending(Dels), ReadCards(s, op, D)
        PROVE  \E x \in ActorStates : actor' = [actor EXCEPT ![s] = x] /\ x.todo \subseteq actor[s].todo
    <3>1. [Idle EXCEPT !.pc = "read", !.op = op, !.held = D] \in ActorStates
      BY DEF Idle, ActorStates, Pcs, Pending
    <3>2. QED
      BY <2>3, <3>1 DEF ReadCards, Idle
  <2>4. QED
    BY <2>1, <2>2, <2>3
<1>4. actor' \in [Actors -> ActorStates]
  BY <1>1, <1>3, Becomes DEF Inv
<1>5. status' \in [Runs -> Statuses] /\ item' \in [Dels -> Cards]
  BY DEF Inv, TypeOK, ApproveDone, CheckLeft, Deny, Reject, ReadCards, SetCards, Statuses,
         Terminal, Cards, runVars
<1>6. TypeOK'
  BY <1>4, <1>5 DEF Inv, TypeOK, ApproveDone, CheckLeft, Deny, Reject, ReadCards, runVars,
                    settings, past
<1>7. \A b \in Actors : actor'[b].todo \subseteq actor[b].todo
  BY <1>1, <1>3 DEF Inv, TypeOK
<1>8. QED
  BY <1>6, <1>7, QuietStep
     DEF ApproveDone, CheckLeft, Deny, Reject, ReadCards, settings, past

LEMMA ApproveStep ==
    ASSUME Inv, NEW s \in Sessions, Approve(s)
    PROVE  Inv'
<1>1. s \in Actors /\ s \notin Workers
  BY ActorAssumption DEF Actors
<1> DEFINE D == actor[s].held
           x == [actor[s] EXCEPT !.pc = "work", !.todo = D \X {"card"}]
<1>2. D \subseteq Dels /\ D \X {"card"} \subseteq Jobs
  BY <1>1 DEF Inv, TypeOK, ActorStates, Jobs
<1>3. x \in ActorStates /\ x.todo = D \X {"card"}
  BY <1>1, <1>2, ZenonT(60) DEF Inv, TypeOK, ActorStates, Pcs
<1>4. actor' = [actor EXCEPT ![s] = x]
  BY <1>1 DEF Approve, Inv, TypeOK
<1>5. owed' \in [Dels -> Int]
  BY OweType DEF Inv, Approve
<1> HIDE DEF D
<1>6. item' \in [Dels -> Cards] /\ consented' = consented \union D /\ event' = event
      /\ gone' = gone /\ origin' = origin
  BY DEF Inv, TypeOK, Approve, SetCards, Cards, settings, D
<1> HIDE DEF x
<1>7. TypeOK'
  <2>1. actor' \in [Actors -> ActorStates]
    BY <1>1, <1>3, <1>4, Becomes DEF Inv
  <2>2. QED
    BY <1>2, <1>5, <1>6, <2>1 DEF Inv, TypeOK, Approve, runVars, settings
<1>8. \A a \in Actors : actor'[a].todo = IF a = s THEN D \X {"card"} ELSE actor[a].todo
  BY <1>1, <1>3, <1>4 DEF Inv, TypeOK
<1>9. WorkersEvents'
  BY <1>1, <1>8 DEF Inv, WorkersEvents, Actors
<1>10. Carried'
  BY <1>6, <1>8 DEF Inv, Carried
<1>11. HeldBack'
  BY <1>6 DEF Inv, HeldBack
<1>12. QED
  BY <1>7, <1>9, <1>10, <1>11 DEF Inv

\* The run, the founder's other decisions and the merge watch leave the processes alone.
LEMMA OtherStep ==
    ASSUME Inv, RunSteps \/ Founder \/ Concludes
    PROVE  Inv'
<1>1. actor' = actor /\ tries' = tries /\ gone' = gone /\ origin' = origin /\ crashes' = crashes
  BY DEF RunSteps, Founder, Concludes, Pick, Finish, PauseForReview, EmitPartial, SetSafeMode,
         CancelRun, Reopen, ShipDecision, Redeliver, PrConcluded, settings, past
<1>2. CASE \/ \E r \in Runs : Pick(r) \/ PauseForReview(r) \/ CancelRun(r) \/ Reopen(r)
           \/ SetSafeMode \/ Concludes
  <2>1. /\ status' \in [Runs -> Statuses] /\ review' \subseteq Runs /\ marked' \subseteq Runs
        /\ watch' \subseteq Runs /\ asking' \subseteq Dels /\ safeMode' \in BOOLEAN
        /\ item' \in [Dels -> Cards]
    BY <1>2 DEF Pick, PauseForReview, CancelRun, Reopen, SetSafeMode, Concludes, PrConcluded,
                Inv, TypeOK, Statuses, Terminal, Cards, SetCards, runVars, settings
  <2>2. UNCHANGED <<event, consented, born, delivered, resends, owed>>
    BY <1>2 DEF Pick, PauseForReview, CancelRun, Reopen, SetSafeMode, Concludes, PrConcluded, past
  <2>3. TypeOK'
    BY <1>1, <2>1, <2>2 DEF Inv, TypeOK
  <2>4. QED
    BY <1>1, <2>2, <2>3, QuietStep
<1>3. ASSUME NEW D \in SUBSET Dels, Emitted(D)
      PROVE  /\ born' \subseteq Dels /\ event' \subseteq Events /\ owed' \in [Dels -> Int]
             /\ \A e \in event' \ event : e[2] = "emitted"
  <2>1. owed' \in [Dels -> Int]
    BY <1>3, OweType DEF Inv, Emitted
  <2>2. QED
    BY <1>3, <2>1 DEF Inv, TypeOK, Emitted, Events
<1>4. ASSUME NEW d \in Dels, EmitPartial(d)
      PROVE  Inv'
  <2>1. TypeOK'
    BY <1>1, <1>3, <1>4 DEF EmitPartial, Inv, TypeOK, runVars, settings
  <2>2. QED
    BY <1>1, <1>3, <1>4, <2>1, QuietStep DEF EmitPartial
<1>5. ASSUME NEW r \in Runs, Finish(r)
      PROVE  Inv'
  <2>1. PICK d \in Dels : Emitted({d})
    BY <1>5 DEF Finish, Of
  <2>2. status' \in [Runs -> Statuses] /\ marked' \subseteq Runs
    BY <1>5, ShipType DEF Inv, Finish
  <2>3. TypeOK'
    BY <1>1, <1>3, <1>5, <2>1, <2>2 DEF Finish, Inv, TypeOK, settings
  <2>4. QED
    BY <1>1, <1>3, <1>5, <2>1, <2>3, QuietStep DEF Finish
<1>6. ASSUME NEW r \in Runs, ShipDecision(r)
      PROVE  Inv'
  <2>1. PICK D \in SUBSET Dels :
            /\ review' = review \ {r}
            /\ born' \subseteq born \union Dels
            /\ event' = event \union (D \X {"resent"})
            /\ consented' = consented \union D
            /\ Owe(D)
    BY <1>6 DEF ShipDecision, Of, Inv, TypeOK
  <2>2. status' \in [Runs -> Statuses] /\ marked' \subseteq Runs
    BY <1>6 DEF ShipDecision, Inv, TypeOK, Statuses, Terminal
  <2>3. owed' \in [Dels -> Int]
    BY <2>1, OweType DEF Inv
  <2>4. event' \subseteq Events
    BY <2>1 DEF Inv, TypeOK, Events
  <2>5. TypeOK'
    BY <1>1, <1>6, <2>1, <2>2, <2>3, <2>4 DEF ShipDecision, Inv, TypeOK, settings
  <2>6. QED
    BY <1>1, <2>1, <2>5, QuietStep
<1>7. ASSUME NEW d \in Dels, Redeliver(d)
      PROVE  Inv'
  <2>1. owed' \in [Dels -> Int]
    BY <1>7, OweType DEF Inv, Redeliver
  <2>2. event' \subseteq Events /\ resends' \in 0..MaxResends
    BY <1>7, DeliveryBounds DEF Inv, TypeOK, Events, Redeliver
  <2>3. TypeOK'
    BY <1>1, <1>7, <2>1, <2>2 DEF Redeliver, Inv, TypeOK, settings
  <2>4. QED
    BY <1>1, <1>7, <2>3, QuietStep DEF Redeliver
<1>8. QED
  BY <1>2, <1>4, <1>5, <1>6, <1>7 DEF RunSteps, Founder

-----------------------------------------------------------------------------
(* The theorems.                                                            *)

LEMMA Inductive == Inv /\ [Next]_vars => Inv'
<1> SUFFICES ASSUME Inv, [Next]_vars
             PROVE  Inv'
  OBVIOUS
<1>1. CASE Next
  BY <1>1, DispatchStep, BooksStep, ClaimStep, HoldStep, CommitStep, SweepStep, CrashStep,
     QueueStep, ApproveStep, OtherStep
     DEF Next, Dispatches, Books, Drains, Queue, Crashes
<1>2. CASE UNCHANGED vars
  <2>1. TypeOK'
    BY <1>2 DEF vars, Inv, TypeOK
  <2>2. QED
    BY <1>2, <2>1, QuietStep DEF vars
<1>3. QED
  BY <1>1, <1>2

LEMMA Initially == Init => Inv
<1> SUFFICES ASSUME Init
             PROVE  Inv
  OBVIOUS
<1>1. TypeOK
  BY IdleType, DeliveryBounds DEF Init, TypeOK, Statuses, Cards
<1>2. WorkersEvents /\ Carried /\ HeldBack
  BY DEF Init, WorkersEvents, Carried, HeldBack, Idle, Actors
<1>3. QED
  BY <1>1, <1>2 DEF Inv

LEMMA Invariance == Spec => []Inv
BY Initially, Inductive, PTL DEF Spec

\* Runs, events, cards and processes stay well formed whatever fails, and a worker's
\* count of failed attempts never reaches max_attempts: at the limit the event is dropped
\* and the count forgotten (DeliveryWorker._failures).
THEOREM DeliveryTypes == Spec => []TypeOK
<1>1. Inv => TypeOK
  BY DEF Inv
<1>2. QED
  BY <1>1, Invariance, PTL

\* Nothing of an autonomous run is sent without the founder's yes, for any number of
\* workers, sessions, crashes and resends (resolve_output_mode_gate).
THEOREM DeliveryHeldBack == Spec => []HeldBack
<1>1. Inv => HeldBack
  BY DEF Inv
<1>2. QED
  BY <1>1, Invariance, PTL
=============================================================================
