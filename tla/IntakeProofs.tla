---------------------------- MODULE IntakeProofs ----------------------------
(***************************************************************************)
(* What holds of Intake for every set of deliveries and messages, every     *)
(* schedule, cap and batch size: its types, OneFate, FateStays, WithinCap.  *)
(***************************************************************************)
EXTENDS Intake, FiniteSetTheorems, TLAPS

-----------------------------------------------------------------------------
(* The inductive invariant.                                                 *)

\* What a tick has claimed is undrained, as it sees it; what it has written was open to it.
Claimed == \A t \in tx.todo : Seen(t) = "new" /\ req[t] = "none" /\ t \notin tx.minted
Written == \A t \in Triggers :
              tx.marks[t] # "none" \/ t \in tx.minted =>
                  req[t] = "none" /\ row[t] \in {"new", "held"}

\* Nothing is claimed or minted before the claim, and windows have no row ahead of time.
Begun   == tx.pc \in {"idle", "release", "claim"} => tx.minted = {} /\ tx.todo = {}
Ahead   == \A w \in Windows : w > due => row[w] = "none"
Budgets == agains + Cardinality(tx.woken) <= MaxAgain

\* The open Requests are no more than the tick has counted: only it makes new ones.
Counted == tx.pc = "room" =>
              Cardinality({t \in Triggers : req[t] = "open" \/ t \in tx.minted}) <= tx.open

Inv == /\ TypeOK /\ OneFate /\ WithinCap
       /\ Claimed /\ Written /\ Begun /\ Ahead /\ Budgets /\ Counted

-----------------------------------------------------------------------------
(* Facts about finite sets.                                                 *)

\* There are finitely many events.
LEMMA TriggersFinite == IsFiniteSet(Triggers)
<1>1. IsFiniteSet(Windows)
  BY IntakeBounds, FS_Interval DEF Windows
<1>2. IsFiniteSet(Hooks \union Orders)
  BY IntakeNames, FS_Union
<1> QED
  BY <1>1, <1>2, FS_Union DEF Triggers

\* A set of events can be counted.
LEMMA SomeTriggers ==
  ASSUME NEW S \in SUBSET Triggers
  PROVE  IsFiniteSet(S) /\ Cardinality(S) \in Nat
  BY TriggersFinite, FS_Subset, FS_CardinalityType

\* Fewer events count less.
LEMMA Fewer ==
  ASSUME NEW S \in SUBSET Triggers, NEW T \in SUBSET S
  PROVE  Cardinality(T) <= Cardinality(S)
  BY SomeTriggers, FS_Subset

\* Two sets and one event more.
LEMMA TogetherAndOne ==
  ASSUME NEW S \in SUBSET Triggers, NEW T \in SUBSET Triggers, NEW t \in Triggers,
         NEW U \in SUBSET (S \union T \union {t})
  PROVE  Cardinality(U) <= Cardinality(S) + Cardinality(T) + 1
<1>1. Cardinality(S \union T) <= Cardinality(S) + Cardinality(T)
  <2>1. Cardinality(S \union T) = Cardinality(S) + Cardinality(T) - Cardinality(S \intersect T)
    BY SomeTriggers, FS_Union
  <2>2. Cardinality(S \intersect T) \in Nat
    BY SomeTriggers
  <2> QED
    BY <2>1, <2>2, SomeTriggers
<1>2. Cardinality((S \union T) \union {t}) <= Cardinality(S \union T) + 1
  <2> DEFINE B == S \union T
  <2>1. IsFiniteSet(B) /\ Cardinality(B) \in Nat
    BY SomeTriggers
  <2> HIDE DEF B
  <2>2. Cardinality(B \union {t}) = IF t \in B THEN Cardinality(B) ELSE Cardinality(B) + 1
    BY <2>1, FS_AddElement
  <2>3. Cardinality(B \union {t}) <= Cardinality(B) + 1
    BY <2>1, <2>2
  <2> QED
    BY <2>3 DEF B
<1>3. Cardinality(U) <= Cardinality((S \union T) \union {t})
  BY Fewer
<1>4. /\ Cardinality(U) \in Nat /\ Cardinality(S \union T) \in Nat
      /\ Cardinality((S \union T) \union {t}) \in Nat
      /\ Cardinality(S) \in Nat /\ Cardinality(T) \in Nat
  BY SomeTriggers
<1> QED
  BY <1>1, <1>2, <1>3, <1>4

\* What the counting operators return.
LEMMA Counts == count_held_runs \in Nat /\ Pending \in Nat /\ Now \in Nat
<1>1. /\ Cardinality({t \in Triggers : run[t] \in {"live", "again"}}) \in Nat
      /\ Cardinality({t \in Triggers : req[t] = "open" \/ t \in tx.minted}) \in Nat
      /\ Cardinality({t \in Triggers : at[t] > 0}) \in Nat
  BY SomeTriggers
<1> QED
  BY <1>1 DEF count_held_runs, Pending, Now

\* The oldest of some events are some of them.
LEMMA FirstOfThem == ASSUME NEW S, NEW n PROVE First(S, n) \subseteq S
  BY DEF First

\* The initial state satisfies the invariant.
LEMMA Initially == Init => Inv
<1> SUFFICES ASSUME Init PROVE Inv
  OBVIOUS
<1>1. TypeOK
  <2>1. sched \in [state : {"on", "off"}, next : 1..(LastWindow + 1)] /\ due \in 0..LastWindow
    BY IntakeBounds DEF Init
  <2>2. tx \in Txs
    BY DEF Init, Idle, Txs, Marks
  <2>3. agains \in 0..MaxAgain /\ faults \in 0..MaxFaults
    BY IntakeBounds DEF Init
  <2> QED
    BY <2>1, <2>2, <2>3 DEF Init, TypeOK, Marks, RunStates
<1>2. OneFate /\ Claimed /\ Written /\ Begun /\ Ahead /\ Counted
  BY DEF Init, Idle, OneFate, Claimed, Written, Begun, Ahead, Counted, Windows, Triggers
<1>3. WithinCap
  <2>1. Busy = {}
    BY DEF Init, Idle, Triggers, Busy
  <2> QED
    BY <2>1, FS_EmptySet, IntakeLimits DEF WithinCap
<1>4. Budgets
  BY FS_EmptySet, IntakeBounds DEF Init, Idle, Budgets
<1> QED
  BY <1>1, <1>2, <1>3, <1>4 DEF Inv

-----------------------------------------------------------------------------
(* The steps of the tick.                                                   *)

\* Slots are not filled by a step that makes no webhook busy.
LEMMA LessBusy ==
  ASSUME Inv, Busy' \subseteq Busy
  PROVE  WithinCap'
<1>1. Busy \in SUBSET Triggers
  BY DEF Busy, Triggers
<1>2. Cardinality(Busy') <= Cardinality(Busy)
  BY <1>1, Fewer
<1>3. Cardinality(Busy') \in Nat /\ Cardinality(Busy) \in Nat
  BY <1>1, SomeTriggers
<1> QED
  BY <1>2, <1>3, IntakeLimits DEF Inv, WithinCap

\* A step that leaves the tables and the tick's marks and Requests alone.
LEMMA StartStep ==
  ASSUME Inv, StartTick
  PROVE  Inv'
<1> USE DEF StartTick
<1>1. /\ tx'.pc = "release" /\ tx'.marks = tx.marks /\ tx'.minted = tx.minted
      /\ tx'.woken = tx.woken /\ tx'.todo = tx.todo /\ tx' \in Txs
  BY Counts DEF Inv, TypeOK, Txs
<1>2. TypeOK'
  BY <1>1 DEF Inv, TypeOK
<1>3. OneFate' /\ Claimed' /\ Written' /\ Begun' /\ Ahead' /\ Budgets' /\ Counted'
  BY <1>1 DEF Inv, OneFate, Claimed, Written, Begun, Ahead, Budgets, Counted, Seen
<1>4. Busy' = Busy
  BY <1>1 DEF Busy
<1> QED
  BY <1>2, <1>3, <1>4, LessBusy DEF Inv

\* Parked rows lose their marker in the tick's own view.
LEMMA ReleaseStep ==
  ASSUME Inv, Release
  PROVE  Inv'
<1> DEFINE held == First({t \in Triggers : row[t] = "held"}, Batch)
           free == First(held, room_for_new_work(tx.open))
<1>1. \A t \in free : t \in Triggers /\ row[t] = "held"
  BY FirstOfThem
<1>2. /\ tx.pc = "release" /\ tx' = [tx EXCEPT !.pc = "claim", !.open = 0,
                      !.marks = [t \in Triggers |-> IF t \in free THEN "new" ELSE @[t]]]
      /\ UNCHANGED <<row, at, req, run, door, sched, due, spent, agains, faults>>
  BY DEF Release
<1> HIDE DEF free, held
<1>3. /\ tx'.pc = "claim" /\ tx'.minted = tx.minted /\ tx'.woken = tx.woken
      /\ tx'.todo = tx.todo /\ tx' \in Txs
      /\ tx'.marks = [t \in Triggers |-> IF t \in free THEN "new" ELSE tx.marks[t]]
  BY <1>2 DEF Inv, TypeOK, Txs, Marks
<1>4. tx.minted = {} /\ tx.todo = {}
  BY <1>2 DEF Inv, Begun
<1>5. TypeOK'
  BY <1>2, <1>3 DEF Inv, TypeOK
<1>6. OneFate' /\ Claimed' /\ Begun' /\ Ahead' /\ Budgets' /\ Counted'
  BY <1>2, <1>3, <1>4 DEF Inv, OneFate, Claimed, Begun, Ahead, Budgets, Counted
<1>7. Written'
  BY <1>1, <1>2, <1>3, <1>4 DEF Inv, OneFate, Written
<1>8. Busy' = Busy
  BY <1>2, <1>3 DEF Busy
<1> QED
  BY <1>5, <1>6, <1>7, <1>8, LessBusy DEF Inv

\* The claim takes undrained rows.
LEMMA ClaimStep ==
  ASSUME Inv, Claim
  PROVE  Inv'
<1>1. \A t \in list_undrained : t \in Triggers /\ Seen(t) = "new" /\ req[t] = "none"
  BY FirstOfThem DEF list_undrained
<1>2. /\ tx.pc = "claim" /\ tx' = [tx EXCEPT !.pc = "next", !.todo = list_undrained]
      /\ UNCHANGED <<row, at, req, run, door, sched, due, spent, agains, faults>>
  BY DEF Claim
<1>3. /\ tx'.pc = "next" /\ tx'.minted = tx.minted /\ tx'.woken = tx.woken
      /\ tx'.todo = list_undrained /\ tx'.marks = tx.marks /\ tx' \in Txs
  BY <1>1, <1>2 DEF Inv, TypeOK, Txs
<1>4. tx.minted = {}
  BY <1>2 DEF Inv, Begun
<1>5. TypeOK'
  BY <1>2, <1>3 DEF Inv, TypeOK
<1>6. OneFate' /\ Claimed' /\ Written' /\ Begun' /\ Ahead' /\ Budgets' /\ Counted'
  BY <1>1, <1>2, <1>3, <1>4
     DEF Inv, OneFate, Claimed, Written, Begun, Ahead, Budgets, Counted, Seen
<1>7. Busy' = Busy
  BY <1>2, <1>3 DEF Busy
<1> QED
  BY <1>5, <1>6, <1>7, LessBusy DEF Inv

\* What every way of handling a claimed row leaves alone.
Handles == UNCHANGED <<row, at, req, run, door, sched, due, spent, agains, faults>>

\* A claimed row is set aside, or sent to a run.
LEMMA MarkedStep ==
  ASSUME Inv, NEW t \in tx.todo, NEW m \in Closed \union {"held"}, NEW S \in SUBSET Triggers,
         tx' = [Marked(t, m) EXCEPT !.woken = S], agains + Cardinality(S) <= MaxAgain,
         tx.pc \in {"next", "room"}, Handles
  PROVE  Inv'
<1> USE DEF Handles
<1>1. /\ tx'.pc = "next" /\ tx'.minted = tx.minted /\ tx'.woken = S
      /\ tx'.todo = tx.todo \ {t} /\ tx'.marks = [tx.marks EXCEPT ![t] = m] /\ tx' \in Txs
  BY DEF Inv, TypeOK, Txs, Marked, Marks, Closed
<1>2. t \in Triggers /\ Seen(t) = "new" /\ req[t] = "none" /\ t \notin tx.minted
  BY DEF Inv, TypeOK, Txs, Claimed
<1>3. row[t] \in {"new", "held"}
  BY <1>2 DEF Inv, Written, Seen
<1>4. \A u \in Triggers \ {t} : tx'.marks[u] = tx.marks[u]
  BY <1>1 DEF Inv, TypeOK, Txs
<1>5. TypeOK'
  BY <1>1 DEF Inv, TypeOK
<1>6. OneFate'
  BY <1>1, <1>2, <1>4 DEF Inv, OneFate, Seen
<1>7. Claimed'
  BY <1>1, <1>2, <1>4 DEF Inv, TypeOK, Txs, Claimed, Seen
<1>8. Written'
  BY <1>1, <1>2, <1>3, <1>4 DEF Inv, Written
<1>9. Begun' /\ Ahead' /\ Budgets' /\ Counted'
  BY <1>1 DEF Inv, Begun, Ahead, Budgets, Counted
<1>10. Busy' = Busy
  BY <1>1 DEF Busy
<1> QED
  BY <1>5, <1>6, <1>7, <1>8, <1>9, <1>10, LessBusy DEF Inv

\* A claimed row is answered with a Request; a webhook only while the cap has room.
LEMMA MintedStep ==
  ASSUME Inv, NEW t \in tx.todo, tx' = Minted(t), tx.pc \in {"next", "room"}, Handles,
         t \in Hooks => tx.pc = "room" /\ room_for_new_work(tx.open) > 0
  PROVE  Inv'
<1> USE DEF Handles
<1>1. /\ tx'.pc = "next" /\ tx'.minted = tx.minted \union {t} /\ tx'.woken = tx.woken
      /\ tx'.todo = tx.todo \ {t} /\ tx'.marks = tx.marks /\ tx' \in Txs
  BY DEF Inv, TypeOK, Txs, Minted
<1>2. t \in Triggers /\ Seen(t) = "new" /\ req[t] = "none"
  BY DEF Inv, TypeOK, Txs, Claimed
<1>3. row[t] \in {"new", "held"}
  BY <1>2 DEF Inv, Written, Seen
<1>4. TypeOK'
  BY <1>1 DEF Inv, TypeOK
<1>5. OneFate' /\ Claimed' /\ Written'
  BY <1>1, <1>2, <1>3 DEF Inv, OneFate, Claimed, Written, Seen
<1>6. Begun' /\ Ahead' /\ Budgets' /\ Counted'
  BY <1>1 DEF Inv, Begun, Ahead, Budgets, Counted
<1>7. WithinCap'
  <2>1. CASE t \notin Hooks
    BY <1>1, <2>1, LessBusy DEF Busy
  <2>2. CASE t \in Hooks
    <3> DEFINE P == {u \in Triggers : req[u] = "open" \/ u \in tx.minted}
               H == {u \in Triggers : run[u] \in {"live", "again"}}
    <3>1. Cardinality(P) <= tx.open /\ Cap - tx.open - Cardinality(H) > 0
      BY <2>2 DEF Inv, Counted, room_for_new_work, count_held_runs
    <3>2. Busy' \in SUBSET (P \union H \union {t})
      BY <1>1 DEF Busy, Triggers
    <3>3. Cardinality(Busy') <= Cardinality(P) + Cardinality(H) + 1
      <4>1. P \in SUBSET Triggers /\ H \in SUBSET Triggers
        OBVIOUS
      <4> HIDE DEF P, H
      <4> QED
        BY <1>2, <3>2, <4>1, TogetherAndOne
    <3>4. Cardinality(P) \in Nat /\ Cardinality(H) \in Nat /\ Cardinality(Busy') \in Nat
      BY SomeTriggers DEF Busy, Triggers
    <3>5. tx.open \in Nat
      BY DEF Inv, TypeOK, Txs
    <3> HIDE DEF P, H
    <3> QED
      BY <3>1, <3>3, <3>4, <3>5, IntakeLimits DEF WithinCap
  <2> QED
    BY <2>1, <2>2
<1> QED
  BY <1>4, <1>5, <1>6, <1>7 DEF Inv

\* The next claimed row meets the filter and the budget, or its open Requests are counted.
LEMMA TakeStep ==
  ASSUME Inv, NEW t \in tx.todo, Take(t)
  PROVE  Inv'
<1> USE DEF Take
<1>1. tx.pc = "next" /\ Handles
  BY DEF Handles
<1>2. agains + Cardinality(tx.woken) <= MaxAgain /\ tx.woken \in SUBSET Triggers
  BY DEF Inv, Budgets, TypeOK, Txs
<1>3. CASE t \notin Hooks /\ tx' = Minted(t)
  BY <1>1, <1>3, MintedStep
<1>4. ASSUME NEW m \in {"filtered", "refused"}, tx' = Marked(t, m)
      PROVE  Inv'
  <2>1. tx' = [Marked(t, m) EXCEPT !.woken = tx.woken]
    BY <1>4 DEF Marked, Inv, TypeOK, Txs
  <2> QED
    BY <1>1, <1>2, <2>1, MarkedStep DEF Closed
<1>5. CASE tx' = [tx EXCEPT !.pc = "room", !.open = Pending]
  <2>1. /\ tx'.pc = "room" /\ tx'.marks = tx.marks /\ tx'.minted = tx.minted
        /\ tx'.woken = tx.woken /\ tx'.todo = tx.todo /\ tx'.open = Pending /\ tx' \in Txs
    BY <1>5, Counts DEF Inv, TypeOK, Txs
  <2>2. TypeOK'
    BY <2>1 DEF Inv, TypeOK
  <2>3. OneFate' /\ Claimed' /\ Written' /\ Begun' /\ Ahead' /\ Budgets'
    BY <2>1 DEF Inv, OneFate, Claimed, Written, Begun, Ahead, Budgets, Seen
  <2>4. Counted'
    <3>1. Pending \in Nat
      BY Counts
    <3> QED
      BY <2>1, <3>1 DEF Counted, Pending
  <2>5. Busy' = Busy
    BY <2>1 DEF Busy
  <2> QED
    BY <2>2, <2>3, <2>4, <2>5, LessBusy DEF Inv
<1> QED
  BY <1>3, <1>4, <1>5

\* A webhook meets the cap.
LEMMA GateStep ==
  ASSUME Inv, NEW t \in tx.todo, Gate(t)
  PROVE  Inv'
<1> USE DEF Gate
<1>1. tx.pc = "room" /\ Handles
  BY DEF Handles
<1>2. /\ agains + Cardinality(tx.woken) <= MaxAgain /\ tx.woken \in SUBSET Triggers
      /\ agains \in Nat /\ MaxAgain \in Nat
  BY IntakeBounds DEF Inv, Budgets, TypeOK, Txs
<1>3. CASE tx' = Marked(t, "held")
  <2>1. tx' = [Marked(t, "held") EXCEPT !.woken = tx.woken]
    BY <1>3 DEF Marked, Inv, TypeOK, Txs
  <2> QED
    BY <1>1, <1>2, <2>1, MarkedStep
<1>4. CASE room_for_new_work(tx.open) > 0 /\ tx' = Minted(t)
  BY <1>1, <1>4, MintedStep
<1>5. ASSUME NEW r \in Triggers,
             \/ run[r] \in {"live", "again"}
             \/ run[r] = "away" /\ agains + Cardinality(tx.woken) < MaxAgain,
             tx' = [Marked(t, "routed") EXCEPT
                       !.woken = IF run[r] = "away" THEN @ \union {r} ELSE @]
      PROVE  Inv'
  <2> DEFINE S == IF run[r] = "away" THEN tx.woken \union {r} ELSE tx.woken
  <2>1. S \in SUBSET Triggers
    BY <1>2
  <2>2. tx' = [Marked(t, "routed") EXCEPT !.woken = S]
    BY <1>5 DEF Marked, Inv, TypeOK, Txs
  <2>3. agains + Cardinality(S) <= MaxAgain
    <3>1. IsFiniteSet(tx.woken) /\ Cardinality(tx.woken) \in Nat
      BY <1>2, SomeTriggers
    <3>2. Cardinality(tx.woken \union {r}) \in Nat
      BY <1>2, SomeTriggers
    <3>3. Cardinality(tx.woken \union {r}) <= Cardinality(tx.woken) + 1
      BY <3>1, FS_AddElement, SMTT(30)
    <3>4. CASE run[r] = "away"
      BY <1>2, <1>5, <3>1, <3>2, <3>3, <3>4
    <3>5. CASE run[r] # "away"
      BY <1>2, <3>5
    <3> QED
      BY <3>4, <3>5
  <2> HIDE DEF S
  <2> QED
    BY <1>1, <2>1, <2>2, <2>3, MarkedStep DEF Closed
<1> QED
  BY <1>3, <1>4, <1>5

\* The tick becomes what everybody sees.
LEMMA CommitStep ==
  ASSUME Inv, Commit
  PROVE  Inv'
<1> USE DEF Commit
<1>1. /\ tx'.pc = "idle" /\ tx'.minted = {} /\ tx'.woken = {} /\ tx'.todo = {}
      /\ tx'.marks = [t \in Triggers |-> "none"] /\ tx' \in Txs
  BY DEF Idle, Txs, Marks
<1>2. \A t \in Triggers : /\ row'[t] = Seen(t)
                          /\ req'[t] = IF t \in tx.minted THEN "open" ELSE req[t]
                          /\ run'[t] = IF t \in tx.woken THEN "again" ELSE run[t]
  OBVIOUS
<1>3. tx.woken \in SUBSET Triggers /\ agains \in Nat /\ MaxAgain \in Nat
  BY IntakeBounds DEF Inv, TypeOK, Txs
<1>4. Cardinality(tx.woken) \in Nat /\ agains' <= MaxAgain /\ agains' \in Nat
  BY <1>3, SomeTriggers DEF Inv, Budgets
<1>5. TypeOK'
  <2>1. row' \in [Triggers -> Marks]
    BY DEF Inv, TypeOK, Txs, Seen
  <2>2. req' \in [Triggers -> {"none", "open", "running"}] /\ run' \in [Triggers -> RunStates]
    BY DEF Inv, TypeOK, RunStates
  <2> QED
    BY <1>1, <1>3, <1>4, <2>1, <2>2 DEF Inv, TypeOK
<1>6. OneFate'
  BY <1>1, <1>2 DEF Inv, OneFate, Written, Seen
<1>7. Claimed' /\ Written' /\ Begun' /\ Counted'
  BY <1>1 DEF Claimed, Written, Begun, Counted
<1>8. Ahead'
  BY <1>2 DEF Inv, Ahead, Written, Seen, Triggers
<1>9. Budgets'
  BY <1>1, <1>4, <1>3, FS_EmptySet DEF Budgets
<1>10. Busy' \subseteq Busy
  BY <1>1, <1>2 DEF Busy, Triggers
<1> QED
  BY <1>5, <1>6, <1>7, <1>8, <1>9, <1>10, LessBusy DEF Inv

\* The tick is undone.
LEMMA FailStep ==
  ASSUME Inv, Fail
  PROVE  Inv'
<1> USE DEF Fail
<1>1. /\ tx'.pc = "idle" /\ tx'.minted = {} /\ tx'.woken = {} /\ tx'.todo = {}
      /\ tx'.marks = [t \in Triggers |-> "none"] /\ tx' \in Txs
  BY DEF Idle, Txs, Marks
<1>2. TypeOK'
  BY <1>1, IntakeBounds DEF Inv, TypeOK
<1>3. OneFate'
  BY <1>1 DEF Inv, OneFate, Written, Seen
<1>4. Claimed' /\ Written' /\ Begun' /\ Counted' /\ Ahead'
  BY <1>1 DEF Inv, Claimed, Written, Begun, Counted, Ahead
<1>5. Budgets'
  BY <1>1, IntakeBounds, FS_EmptySet DEF Inv, TypeOK, Budgets
<1>6. Busy' \subseteq Busy
  BY <1>1 DEF Busy
<1> QED
  BY <1>2, <1>3, <1>4, <1>5, <1>6, LessBusy DEF Inv

-----------------------------------------------------------------------------
(* The steps of everybody else.                                             *)

\* A row appears where there was none, or a window's becomes an event: the tick under way
\* has not touched it.
LEMMA RowStep ==
  ASSUME Inv, NEW k \in Triggers, NEW m \in {"new", "due"}, row[k] \in {"none", "due"},
         row' = [row EXCEPT ![k] = m], UNCHANGED <<req, run, tx, agains>>
  PROVE  OneFate' /\ WithinCap' /\ Claimed' /\ Written' /\ Begun' /\ Budgets' /\ Counted'
<1>1. \A t \in Triggers \ {k} : row'[t] = row[t]
  BY DEF Inv, TypeOK
<1>2. req[k] = "none" /\ k \notin tx.minted /\ tx.marks[k] = "none" /\ k \notin tx.todo
  BY DEF Inv, OneFate, Written, Claimed, Seen
<1>3. OneFate' /\ Claimed' /\ Written'
  BY <1>1, <1>2 DEF Inv, TypeOK, Txs, OneFate, Claimed, Written, Seen
<1>4. Begun' /\ Budgets' /\ Counted'
  BY DEF Inv, Begun, Budgets, Counted
<1>5. Busy' = Busy
  BY DEF Busy
<1> QED
  BY <1>3, <1>4, <1>5, LessBusy

\* The doors and the schedule.
LEMMA DoorStep ==
  ASSUME Inv, Doors
  PROVE  Inv'
<1>1. ASSUME UNCHANGED <<row, req, run, tx, agains, due>>, TypeOK'
      PROVE  Inv'
  <2>1. Busy' = Busy
    BY <1>1 DEF Busy
  <2>2. OneFate' /\ Claimed' /\ Written' /\ Begun' /\ Ahead' /\ Budgets' /\ Counted'
    BY <1>1 DEF Inv, OneFate, Claimed, Written, Begun, Ahead, Budgets, Counted, Seen
  <2> QED
    BY <1>1, <2>1, <2>2, LessBusy DEF Inv
<1>2. ASSUME NEW h \in Hooks, Deliver(h) PROVE Inv'
  BY <1>1, <1>2 DEF Deliver, Inv, TypeOK
<1>3. ASSUME NEW o \in Orders, Submit(o) PROVE Inv'
  BY <1>1, <1>3 DEF Submit, Inv, TypeOK
<1>4. ASSUME NEW k \in Hooks \union Orders, Record(k) PROVE Inv'
  <2>1. CASE row[k] # "none"
    BY <1>1, <1>4, <2>1 DEF Record, Inv, TypeOK
  <2>2. CASE row[k] = "none"
    <3>1. k \in Triggers /\ k \notin Windows
      BY IntakeNames DEF Triggers
    <3>2. /\ row' = [row EXCEPT ![k] = "new"] /\ at' = [at EXCEPT ![k] = Now]
          /\ UNCHANGED <<req, run, door, sched, due, spent, tx, agains, faults>>
      BY <1>4, <2>2 DEF Record
    <3>3. TypeOK'
      BY <3>1, <3>2, Counts DEF Inv, TypeOK, Marks
    <3>4. Ahead'
      BY <3>1, <3>2 DEF Inv, Ahead, TypeOK
    <3> QED
      BY <2>2, <3>1, <3>2, <3>3, <3>4, RowStep DEF Inv
  <2> QED
    BY <2>1, <2>2
<1>5. CASE Tick
  <2> DEFINE w == due + 1
  <2>1. w \in Windows /\ w \in Triggers /\ row[w] = "none" /\ due \in Nat
    BY <1>5, IntakeBounds DEF Tick, Inv, TypeOK, Ahead, Windows, Triggers
  <2>2. /\ due' = w /\ row' = [row EXCEPT ![w] = "due"] /\ at' = [at EXCEPT ![w] = Now]
        /\ UNCHANGED <<req, run, door, sched, spent, tx, agains, faults>>
    BY <1>5 DEF Tick
  <2>3. TypeOK'
    BY <2>1, <2>2, Counts, IntakeBounds DEF Inv, TypeOK, Marks, Windows
  <2>4. Ahead'
    BY <2>1, <2>2, IntakeBounds DEF Inv, Ahead, TypeOK, Windows
  <2> HIDE DEF w
  <2> QED
    BY <2>1, <2>2, <2>3, <2>4, RowStep DEF Inv
<1>6. CASE fire_due
  <2> DEFINE w == sched.next
  <2>1. /\ w \in Windows /\ w \in Triggers /\ w <= due
        /\ sched.state \in {"on", "off"} /\ LastWindow \in Nat
    BY <1>6, IntakeBounds DEF fire_due, Inv, TypeOK, Windows, Triggers
  <2>2. /\ row' = [row EXCEPT ![w] = IF row[w] = "due" THEN "new" ELSE row[w]]
        /\ sched' = [sched EXCEPT !.next = w + 1]
        /\ UNCHANGED <<at, req, run, door, due, spent, tx, agains, faults>>
    BY <1>6 DEF fire_due
  <2>3. sched' \in [state : {"on", "off"}, next : 1..(LastWindow + 1)]
    BY <2>1, <2>2 DEF Inv, TypeOK, Windows
  <2>4. TypeOK'
    BY <2>1, <2>2, <2>3 DEF Inv, TypeOK, Marks
  <2>5. CASE row[w] = "due"
    <3>1. row' = [row EXCEPT ![w] = "new"]
      BY <2>2, <2>5
    <3>2. Ahead'
      BY <2>1, <2>2, <3>1 DEF Inv, Ahead, TypeOK, Windows
    <3> HIDE DEF w
    <3> QED
      BY <2>1, <2>2, <2>4, <2>5, <3>1, <3>2, RowStep DEF Inv
  <2>6. CASE row[w] # "due"
    <3>1. row' = row
      BY <2>1, <2>2, <2>6 DEF Inv, TypeOK
    <3> QED
      BY <1>1, <2>2, <2>4, <3>1
  <2> QED
    BY <2>5, <2>6
<1>7. ASSUME NEW s \in {"on", "off"}, SetSchedule(s) PROVE Inv'
  BY <1>1, <1>7 DEF SetSchedule, Inv, TypeOK
<1> QED
  BY <1>2, <1>3, <1>4, <1>5, <1>6, <1>7 DEF Doors

\* The agent worker, the runs and the month.
LEMMA WorldStep ==
  ASSUME Inv, World
  PROVE  Inv'
<1>1. CASE claim_once
  <2> USE <1>1 DEF claim_once
  <2>1. TypeOK'
    BY DEF Inv, TypeOK, RunStates
  <2>2. OneFate' /\ Claimed' /\ Written' /\ Begun' /\ Ahead' /\ Budgets'
    BY DEF Inv, TypeOK, Txs, OneFate, Claimed, Written, Begun, Ahead, Budgets, Seen
  <2>3. Counted'
    <3> DEFINE P == {t \in Triggers : req[t] = "open" \/ t \in tx.minted}
               Q == {t \in Triggers : req'[t] = "open" \/ t \in tx.minted}
    <3>1. Q \in SUBSET P /\ P \in SUBSET Triggers
      OBVIOUS
    <3>2. Cardinality(Q) <= Cardinality(P)
      BY <3>1, Fewer
    <3>3. Cardinality(Q) \in Nat /\ Cardinality(P) \in Nat
      BY SomeTriggers
    <3>4. tx.open \in Nat /\ tx' = tx
      BY DEF Inv, TypeOK, Txs
    <3>5. tx.pc = "room" => Cardinality(P) <= tx.open
      BY DEF Inv, Counted
    <3> HIDE DEF P, Q
    <3>6. tx.pc = "room" => Cardinality(Q) <= tx.open
      BY <3>2, <3>3, <3>4, <3>5
    <3> QED
      BY <3>4, <3>6 DEF Counted, Q
  <2>4. Busy' \subseteq Busy
    BY DEF Busy, Triggers
  <2> QED
    BY <2>1, <2>2, <2>3, <2>4, LessBusy DEF Inv
<1>2. CASE Budget
  <2> USE <1>2 DEF Budget
  <2>1. TypeOK'
    BY DEF Inv, TypeOK
  <2>2. OneFate' /\ Claimed' /\ Written' /\ Begun' /\ Ahead' /\ Budgets' /\ Counted'
    BY DEF Inv, OneFate, Claimed, Written, Begun, Ahead, Budgets, Counted, Seen
  <2>3. Busy' = Busy
    BY DEF Busy
  <2> QED
    BY <2>1, <2>2, <2>3, LessBusy DEF Inv
<1>3. ASSUME NEW t \in Triggers, NEW s \in {"again", "away", "closed"}, RunGoes(t, s),
             agains' \in 0..MaxAgain, agains' + Cardinality(tx.woken) <= MaxAgain
      PROVE  Inv'
  <2> USE <1>3 DEF RunGoes
  <2>1. TypeOK'
    BY DEF Inv, TypeOK, RunStates
  <2>2. OneFate' /\ Claimed' /\ Written' /\ Begun' /\ Ahead' /\ Budgets' /\ Counted'
    BY DEF Inv, OneFate, Claimed, Written, Begun, Ahead, Budgets, Counted, Seen
  <2>3. Busy' \subseteq Busy
    BY DEF Inv, TypeOK, Busy
  <2> QED
    BY <2>1, <2>2, <2>3, LessBusy DEF Inv
<1>4. ASSUME NEW t \in Triggers, RunEnds(t) PROVE Inv'
  BY <1>3, <1>4 DEF RunEnds, Inv, TypeOK, Budgets
<1>5. ASSUME NEW t \in Triggers, RunAgain(t) PROVE Inv'
  <2>1. tx.woken \in SUBSET Triggers
    BY DEF Inv, TypeOK, Txs
  <2>2. Cardinality(tx.woken) \in Nat
    BY <2>1, SomeTriggers
  <2>3. agains' \in 0..MaxAgain /\ agains' + Cardinality(tx.woken) <= MaxAgain
    BY <1>5, <2>2, IntakeBounds DEF RunAgain, Inv, TypeOK
  <2> QED
    BY <1>3, <1>5, <2>3 DEF RunAgain
<1> QED
  BY <1>1, <1>2, <1>4, <1>5 DEF World

\* The invariant is inductive.
LEMMA Inductive == Inv /\ [Next]_vars => Inv'
<1> SUFFICES ASSUME Inv, [Next]_vars PROVE Inv'
  OBVIOUS
<1>1. CASE Worker
  BY <1>1, StartStep, ReleaseStep, ClaimStep, CommitStep, TakeStep, GateStep DEF Worker
<1>2. CASE Fail
  BY <1>2, FailStep
<1>3. CASE Doors
  BY <1>3, DoorStep
<1>4. CASE World
  BY <1>4, WorldStep
<1>5. CASE UNCHANGED vars
  <2> USE <1>5 DEF vars
  <2>1. TypeOK' /\ OneFate' /\ Claimed' /\ Written' /\ Begun' /\ Ahead' /\ Budgets' /\ Counted'
    BY DEF Inv, TypeOK, OneFate, Claimed, Written, Begun, Ahead, Budgets, Counted, Seen
  <2>2. Busy' = Busy
    BY DEF Busy
  <2> QED
    BY <2>1, <2>2, LessBusy DEF Inv
<1> QED
  BY <1>1, <1>2, <1>3, <1>4, <1>5 DEF Next

-----------------------------------------------------------------------------
(* The theorems.                                                            *)

\* The invariant holds of every reachable state.
LEMMA Always == Spec => []Inv
  BY Initially, Inductive, PTL DEF Spec

\* TypeOK: every row, Request, run and transaction has a value the code can give it.
THEOREM IntakeTypes == Spec => []TypeOK
<1>1. Inv => TypeOK
  BY DEF Inv
<1> QED
  BY <1>1, Always, PTL

\* OneFate: no event both becomes a Request and is set aside, and none is asked for twice.
THEOREM IntakeOneFate == Spec => []OneFate
<1>1. Inv => OneFate
  BY DEF Inv
<1> QED
  BY <1>1, Always, PTL

\* WithinCap: gated webhooks never fill more slots than the workspace has, whatever the
\* agent worker, the founder and the schedule do between the tick's reads.
THEOREM IntakeWithinCap == Spec => []WithinCap
<1>1. Inv => WithinCap
  BY DEF Inv
<1> QED
  BY <1>1, Always, PTL

\* FateStays: nothing brings an event back once it has a Request or is set aside for good.
THEOREM IntakeFateStays == Spec => FateStays
<1>1. Inv /\ [Next]_vars => [KeepsFate]_vars
  <2> SUFFICES ASSUME Inv, Next PROVE KeepsFate
    OBVIOUS
  <2>1. CASE Worker \/ Fail
    <3>1. CASE UNCHANGED <<row, req>>
      BY <3>1 DEF KeepsFate
    <3>2. CASE Commit
      BY <3>2 DEF KeepsFate, Commit, Inv, Written, Seen, Closed
    <3> QED
      BY <2>1, <3>1, <3>2 DEF Worker, Fail, StartTick, Release, Claim, Take, Gate
  <2>2. CASE Doors
    <3>1. \A k \in Hooks \union Orders : Record(k) => KeepsFate
      BY DEF KeepsFate, Record, Inv, TypeOK, Closed
    <3>2. Tick => KeepsFate
      <4> SUFFICES ASSUME Tick PROVE KeepsFate
        OBVIOUS
      <4>1. due + 1 \in Windows /\ row[due + 1] = "none"
        BY IntakeBounds DEF Tick, Inv, TypeOK, Ahead, Windows
      <4>2. \A t \in Triggers : t # due + 1 => row'[t] = row[t]
        BY DEF Tick, Inv, TypeOK
      <4> QED
        BY <4>1, <4>2 DEF KeepsFate, Tick, Closed
    <3>3. fire_due => KeepsFate
      BY DEF KeepsFate, fire_due, Inv, TypeOK, Closed
    <3>4. UNCHANGED <<row, req>> => KeepsFate
      BY DEF KeepsFate
    <3> QED
      BY <2>2, <3>1, <3>2, <3>3, <3>4 DEF Doors, Deliver, Submit, SetSchedule
  <2>3. CASE World
    BY <2>3 DEF KeepsFate, World, claim_once, Budget, RunEnds, RunAgain, RunGoes
  <2> QED
    BY <2>1, <2>2, <2>3 DEF Next
<1> QED
  BY <1>1, Always, PTL DEF Spec, FateStays
=============================================================================
