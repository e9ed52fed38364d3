------------------------------ MODULE Delivery ------------------------------
(***************************************************************************)
(* How a run's deliverables leave the system                               *)
(* (workflow/infrastructure/workers/delivery_worker.py and                  *)
(* workflow/application/{safe_mode_queue,safe_mode_approval,                *)
(* safe_mode_expiry,run_delivery_resolution}.py).                           *)
(*                                                                         *)
(* A run emits delivery events.  Delivery workers, one per server, claim    *)
(* them with row locks, and either hold a deliverable for the founder (a    *)
(* Safe Mode card) or dispatch it; one transaction then removes the events  *)
(* and inserts the cards.  Founder sessions approve, deny or let cards      *)
(* expire; an approval dispatches in its own session.  A dispatch that      *)
(* lands marks the deliverable delivered and may ship its run.  The drive   *)
(* of the run is RunLifecycle's; here it is reduced to what it emits.       *)
(***************************************************************************)
EXTENDS Integers, FiniteSets

CONSTANTS
    Runs,
    Dels,            \* deliverables
    RunOf,           \* [Dels -> Runs]
    Final,           \* the deliverables written with the verified verdict, the others are partials
    Workers,         \* delivery worker processes
    Sessions,        \* founder requests (REST, MCP, chat tap) and the expiry sweep
    Remote,          \* product runs recorded with delivers_via_local_product_repo = False
    MaxAttempts,     \* DeliveryWorkerConfig.max_attempts
    MaxCrashes,      \* bound: processes that die
    MaxResends       \* bound: "Send again" clicks

ASSUME RunOfAssumption   == RunOf \in [Dels -> Runs] /\ Final \subseteq Dels
ASSUME RemoteAssumption  == Remote \subseteq Runs
ASSUME ActorAssumption   == Workers \intersect Sessions = {}
ASSUME DeliveryBounds    == MaxAttempts \in Nat \ {0} /\ MaxCrashes \in Nat /\ MaxResends \in Nat

VARIABLES
    status,      \* [Runs]: execution_runs.status
    review,      \* runs with a pending review Decision
    asking,      \* deliverables with a pending delivery_failed Decision
    marked,      \* runs with payload["awaiting_merge"]
    watch,       \* runs whose PR has a live merge watch
    safeMode,    \* the workspace's Safe Mode flag
    origin,      \* [Runs]: what started the run, as its payload and binding say
    born,        \* deliverables that exist
    event,       \* the delivery_events table
    item,        \* [Dels]: the status of the deliverable's Safe Mode card
    delivered,   \* deliverables with delivered_at
    actor,       \* [Workers \union Sessions]: what the process is in the middle of
    tries,       \* [Workers][Events]: DeliveryWorker._failures
    crashes,     \* processes that died so far
    resends,     \* "Send again" clicks so far
    owed,        \* [Dels]: dispatches asked for and not made yet (history only)
    gone,        \* deliverables something was sent of (history only)
    consented    \* deliverables the founder said yes to (history only)

runVars  == <<status, review, asking, marked, watch>>
settings == <<safeMode, origin>>
past     == <<owed, gone, consented>>
vars == <<status, review, asking, marked, watch, safeMode, origin, born, event, item, delivered,
          actor, tries, crashes, resends, owed, gone, consented>>

Actors   == Workers \union Sessions
Terminal == {"shipped", "failed", "cancelled"}
Statuses == {"open", "running", "review_ready"} \union Terminal
\* "autonomous": BSVibe decided to do it by itself; "direct": a schedule the founder marked
\* direct; "safe": its binding says output_mode = "safe"; "plain": anything else.
Origins  == {"autonomous", "direct", "safe", "plain"}
Cards    == {"none", "pending", "approved", "denied", "expired", "delivered"}

\* What can be dispatched: an emitted event, one that carries the founder's approval,
\* or an approved card.
Events == Dels \X {"emitted", "resent"}
Jobs   == Events \union (Dels \X {"card"})

\* One process: the cards it read (held), the runs it will release, the rows it locked
\* (batch), the jobs left (todo), those it dispatched (made), queued (kept) or gave up on
\* (dropped) and the one whose books it is doing (cur).
Ops == {"none", "drain", "approve", "deny", "reject", "expire"}
Pcs == {"idle", "read", "checked", "work", "mark", "resolve", "ship"}
ActorStates ==
    [pc : Pcs, op : Ops, held : SUBSET Dels, freed : SUBSET Runs, batch : SUBSET Events,
     todo : SUBSET Jobs, made : SUBSET Jobs, kept : SUBSET Events, dropped : SUBSET Events,
     cur : SUBSET Jobs]
Idle == [pc |-> "idle", op |-> "none", held |-> {}, freed |-> {}, batch |-> {}, todo |-> {},
         made |-> {}, kept |-> {}, dropped |-> {}, cur |-> {}]

TypeOK ==
    /\ status \in [Runs -> Statuses]
    /\ review \subseteq Runs /\ marked \subseteq Runs /\ watch \subseteq Runs
    /\ asking \subseteq Dels /\ born \subseteq Dels /\ delivered \subseteq Dels
    /\ safeMode \in BOOLEAN /\ origin \in [Runs -> Origins]
    /\ event \subseteq Events
    /\ item \in [Dels -> Cards]
    /\ actor \in [Actors -> ActorStates]
    /\ tries \in [Workers -> [Events -> 0..(MaxAttempts - 1)]]
    /\ crashes \in 0..MaxCrashes /\ resends \in 0..MaxResends
    /\ owed \in [Dels -> Int]
    /\ gone \subseteq Dels /\ consented \subseteq Dels

Init ==
    /\ status = [r \in Runs |-> "open"]
    /\ review = {} /\ asking = {} /\ marked = {} /\ watch = {}
    /\ safeMode \in BOOLEAN /\ origin \in [Runs -> Origins]
    /\ born = {} /\ event = {} /\ delivered = {}
    /\ item = [d \in Dels |-> "none"]
    /\ actor = [a \in Actors |-> Idle]
    /\ tries = [w \in Workers |-> [e \in Events |-> 0]]
    /\ crashes = 0 /\ resends = 0
    /\ owed = [d \in Dels |-> 0] /\ gone = {} /\ consented = {}

Of(r) == {d \in Dels : RunOf[d] = r}
Owe(D) == owed' = [d \in Dels |-> IF d \in D THEN owed[d] + 1 ELSE owed[d]]

\* Mutant: the workspace flag decides before the run's origin does.
GateFlagOnly(r) == origin[r] # "direct" /\ (safeMode \/ origin[r] = "safe")

\* resolve_output_mode_gate: TRUE queues the delivery.
resolve_output_mode_gate(r) ==
    \/ origin[r] = "autonomous"
    \/ origin[r] # "direct" /\ (safeMode \/ origin[r] = "safe")
-----------------------------------------------------------------------------
(* What completes a run.                                                    *)

\* ship_if_delivered's facts: something is out and nothing of the run still waits.
Waiting(r, ev, cards) ==
    \/ \E e \in ev : RunOf[e[1]] = r
    \/ \E d \in Of(r) : cards[d] = "pending" \/ d \in asking
    \/ r \in review
ShipsNow(r, ev) ==
    r \in Remote /\ r \notin marked /\ Of(r) \intersect delivered # {} /\ ~Waiting(r, ev, item)

\* ship_if_delivered on the runs R, which are review_ready: a watched PR only marks.
ShipDelivered(R, ev) ==
    LET done == {r \in R : ShipsNow(r, ev)} IN
    /\ marked' = marked \union (done \intersect watch)
    /\ status' = [r \in Runs |-> IF r \in done \ watch THEN "shipped"
                                 ELSE IF r \in R THEN "review_ready" ELSE status[r]]

\* auto_resolve_run_on_delivery
AutoResolve(r) ==
    LET acts == /\ status[r] \notin Terminal
                /\ r \in review \/ (status[r] = "review_ready" /\ r \in Remote)
    IN
    /\ review' = IF acts THEN review \ {r} ELSE review
    /\ marked' = IF acts /\ r \in watch THEN marked \union {r} ELSE marked
    /\ status' = IF ~acts THEN status
                 ELSE [status EXCEPT ![r] = IF r \in watch THEN "review_ready" ELSE "shipped"]
-----------------------------------------------------------------------------
(* The run, as far as deliveries see it.                                    *)

Pick(r) ==
    /\ status[r] = "open"
    /\ status' = [status EXCEPT ![r] = "running"]
    /\ UNCHANGED <<review, asking, marked, watch, settings, born, event, item, delivered,
                   actor, tries, crashes, resends, past>>

Emitted(D) ==
    /\ born' = born \union D
    /\ event' = event \union (D \X {"emitted"})
    /\ Owe(D)

\* write_partial_deliverable: while the run is being driven.
EmitPartial(d) ==
    /\ status[RunOf[d]] = "running" /\ RunOf[d] \notin review
    /\ d \notin born \union Final
    /\ Emitted({d})
    /\ UNCHANGED <<runVars, settings, item, delivered, actor, tries, crashes, resends,
                   gone, consented>>

\* A verified run: write_verified_deliverable and the REVIEW_READY transition, one commit.
\* (The runs that are not Remote are shipped by the local auto-ship, outside this module.)
\* Bound: a run ends verified as often as it has Final deliverables.
Finish(r) ==
    /\ status[r] = "running" /\ r \notin review
    /\ \E d \in (Of(r) \intersect Final) \ born : Emitted({d})
    /\ ShipDelivered({r}, event')
    /\ UNCHANGED <<review, asking, watch, settings, item, delivered, actor, tries, crashes,
                   resends, gone, consented>>

\* The loop pauses the run, RUNNING, on human_review_required or verification_failed.
PauseForReview(r) ==
    /\ status[r] = "running" /\ r \notin review
    /\ review' = review \union {r}
    /\ UNCHANGED <<status, asking, marked, watch, settings, born, event, item, delivered,
                   actor, tries, crashes, resends, past>>
-----------------------------------------------------------------------------
(* dispatch_delivery: the one outbound path of workers and sessions.        *)

\* The job's turn is over: a worker will delete its event, a session goes on.
Settled(a, j) ==
    [actor[a] EXCEPT !.pc = "work", !.cur = {}, !.todo = @ \ {j}, !.made = @ \union {j}]

\* A worker never dispatches a gated event; an approval's jobs are cards.
MayDispatch(a, j) ==
    /\ actor[a].pc = "work" /\ j \in actor[a].todo
    /\ j[2] = "emitted" => ~resolve_output_mode_gate(RunOf[j[1]])

Forget(a, j) == tries' = IF a \in Workers /\ j \in Events
                         THEN [tries EXCEPT ![a][j] = 0] ELSE tries
Sent(d)      == gone' = gone \union {d} /\ owed' = [owed EXCEPT ![d] = @ - 1]

\* Every action succeeded; opening a PR may enqueue its merge watch.
Lands(a, j) ==
    /\ MayDispatch(a, j)
    /\ Sent(j[1])
    /\ watch' \in {watch, watch \union ({RunOf[j[1]]} \intersect Remote)}
    /\ actor' = [actor EXCEPT ![a].pc = "mark", ![a].cur = {j}]
    /\ UNCHANGED <<status, review, asking, marked, settings, born, event, item, delivered,
                   tries, crashes, resends, consented>>

\* A failed result does not raise: _escalate_failed_delivery asks the founder once
\* (nothing attempted asks nothing) and the job counts as handled.
Refused(a, j) ==
    /\ MayDispatch(a, j)
    /\ \/ asking' = asking \union {j[1]} /\ Sent(j[1])
       \/ UNCHANGED <<asking, gone, owed>>
    /\ Forget(a, j)
    /\ actor' = [actor EXCEPT ![a] = Settled(a, j)]
    /\ UNCHANGED <<status, review, marked, watch, settings, born, event, item, delivered,
                   crashes, resends, consented>>

\* Mutant: an event that keeps raising is kept for ever.
RaisesForever(a, j) ==
    /\ MayDispatch(a, j)
    /\ gone' = gone \union {j[1]}
    /\ IF a \in Sessions
       THEN actor' = [actor EXCEPT ![a] = Settled(a, j)] /\ UNCHANGED tries
       ELSE /\ actor' = [actor EXCEPT ![a].todo = @ \ {j}]
            /\ tries' = [tries EXCEPT ![a][j] = IF @ < MaxAttempts THEN @ + 1 ELSE @]
    /\ UNCHANGED <<runVars, settings, born, event, item, delivered, crashes, resends,
                   owed, consented>>

\* The dispatcher raises, before or after something went out.  A worker keeps the event
\* for its next tick, or drops it at max_attempts; an approval gives up.
Raises(a, j) ==
    /\ MayDispatch(a, j)
    /\ gone' = gone \union {j[1]}
    /\ IF a \in Sessions
       THEN actor' = [actor EXCEPT ![a] = Settled(a, j)] /\ UNCHANGED tries
       ELSE IF tries[a][j] + 1 >= MaxAttempts
       THEN /\ actor' = [actor EXCEPT ![a].todo = @ \ {j}, ![a].dropped = @ \union {j}]
            /\ tries' = [tries EXCEPT ![a][j] = 0]
       ELSE /\ actor' = [actor EXCEPT ![a].todo = @ \ {j}]
            /\ tries' = [tries EXCEPT ![a][j] = @ + 1]
    /\ UNCHANGED <<runVars, settings, born, event, item, delivered, crashes, resends,
                   owed, consented>>

\* _mark_delivered, committed at once.
Mark(a) ==
    /\ actor[a].pc = "mark"
    /\ \E j \in actor[a].cur :
         /\ delivered' = delivered \union {j[1]}
         /\ item' = [item EXCEPT ![j[1]] = IF @ = "approved" THEN "delivered" ELSE @]
    /\ actor' = [actor EXCEPT ![a].pc = "resolve"]
    /\ UNCHANGED <<runVars, settings, born, event, tries, crashes, resends, past>>

Resolve(a) ==
    /\ actor[a].pc = "resolve"
    /\ \E j \in actor[a].cur :
         /\ AutoResolve(RunOf[j[1]])
         /\ Forget(a, j)
         /\ actor' = [actor EXCEPT ![a] = Settled(a, j)]
    /\ UNCHANGED <<asking, watch, settings, born, event, item, delivered, crashes, resends,
                   past>>

\* An error in the book-keeping is swallowed: the send is not repeated.
BooksFail(a) ==
    /\ actor[a].pc \in {"mark", "resolve"}
    /\ \E j \in actor[a].cur :
         /\ Forget(a, j)
         /\ actor' = [actor EXCEPT ![a] = Settled(a, j)]
    /\ UNCHANGED <<runVars, settings, born, event, item, delivered, crashes, resends, past>>
-----------------------------------------------------------------------------
(* The delivery worker.                                                     *)

Locked == UNION {actor[w].batch : w \in Workers}

\* Mutant: the claim does not skip the rows another worker has locked.
ClaimLocked(w) ==
    /\ actor[w].pc = "idle"
    /\ actor' = [actor EXCEPT ![w] =
                    [Idle EXCEPT !.pc = IF event = {} THEN "ship" ELSE "work",
                                 !.op = "drain", !.batch = event, !.todo = event]]
    /\ UNCHANGED <<runVars, settings, born, event, item, delivered, tries, crashes, resends,
                   past>>

\* build_delivery_claim_stmt: FOR UPDATE SKIP LOCKED.
Claim(w) ==
    /\ actor[w].pc = "idle"
    /\ LET rows == event \ Locked IN
       actor' = [actor EXCEPT ![w] =
                    [Idle EXCEPT !.pc = IF rows = {} THEN "ship" ELSE "work",
                                 !.op = "drain", !.batch = rows, !.todo = rows]]
    /\ UNCHANGED <<runVars, settings, born, event, item, delivered, tries, crashes, resends,
                   past>>

\* The gate says queue: SafeModeQueue.enqueue, flushed into the drain's transaction.
Hold(w, e) ==
    /\ actor[w].pc = "work" /\ e \in actor[w].todo
    /\ e[2] = "emitted" /\ resolve_output_mode_gate(RunOf[e[1]])
    /\ actor' = [actor EXCEPT ![w].todo = @ \ {e}, ![w].kept = @ \union {e}]
    /\ tries' = [tries EXCEPT ![w][e] = 0]
    /\ UNCHANGED <<runVars, settings, born, event, item, delivered, crashes, resends, past>>

\* The one commit of drain_once: handled and dropped events go, cards appear, the locks
\* are released.  The tick goes on to its ship sweep.
Commit(w) ==
    LET a == actor[w]
        cards == {e[1] : e \in a.kept}
    IN
    /\ a.op = "drain" /\ a.pc = "work" /\ a.todo = {}
    /\ event' = event \ (a.made \union a.kept \union a.dropped)
    /\ item' = [d \in Dels |-> IF d \in cards THEN "pending" ELSE item[d]]
    /\ owed' = [d \in Dels |-> IF d \in cards THEN owed[d] - 1 ELSE owed[d]]
    /\ actor' = [actor EXCEPT ![w] = [Idle EXCEPT !.op = "drain", !.pc = "ship"]]
    /\ UNCHANGED <<runVars, settings, born, delivered, tries, crashes, resends,
                   gone, consented>>

\* Mutant: the sweep takes up only the runs all of whose deliverables are out.
SweepWhole(w) ==
    /\ actor[w].pc = "ship"
    /\ ShipDelivered({r \in Runs : status[r] = "review_ready"
                                    /\ Of(r) \intersect born \subseteq delivered}, event)
    /\ actor' = [actor EXCEPT ![w] = Idle]
    /\ UNCHANGED <<review, asking, watch, settings, born, event, item, delivered, tries,
                   crashes, resends, past>>

\* ship_delivered_review_ready_runs
Sweep(w) ==
    /\ actor[w].pc = "ship"
    /\ ShipDelivered({r \in Runs : status[r] = "review_ready"}, event)
    /\ actor' = [actor EXCEPT ![w] = Idle]
    /\ UNCHANGED <<review, asking, watch, settings, born, event, item, delivered, tries,
                   crashes, resends, past>>

\* The process dies: its transaction is undone, so that what it dispatched in this batch
\* is dispatched again.
Crash(a) ==
    /\ actor[a].pc # "idle" /\ crashes < MaxCrashes
    /\ crashes' = crashes + 1
    /\ actor' = [actor EXCEPT ![a] = Idle]
    /\ IF a \in Workers
       THEN /\ tries' = [tries EXCEPT ![a] = [e \in Events |-> 0]]
            /\ owed' = [d \in Dels |-> owed[d] + Cardinality(
                            {j \in actor[a].made \union actor[a].cur : j[1] = d})]
       ELSE UNCHANGED <<tries, owed>>
    /\ UNCHANGED <<runVars, settings, born, event, item, delivered, resends, gone, consented>>
-----------------------------------------------------------------------------
(* The Safe Mode queue.                                                     *)

Pending(D) == {d \in D : item[d] = "pending"}

\* A session reads pending cards and works on its copies from then on: nothing is
\* re-read or compared.  A single approval lists the workspace, which leaves out the
\* cards of shipped runs; the per-run forms and the sweep do not.
ReadCards(s, op, D) ==
    /\ actor[s].pc = "idle"
    /\ D # {} /\ D \subseteq Pending(Dels)
    /\ \/ \E d \in Dels : D = {d} /\ (op = "approve" => status[RunOf[d]] # "shipped")
       \/ \E r \in Runs : D = Pending(Of(r)) /\ op # "expire"
       \/ op = "expire"
    /\ actor' = [actor EXCEPT ![s] = [Idle EXCEPT !.pc = "read", !.op = op, !.held = D]]
    /\ UNCHANGED <<runVars, settings, born, event, item, delivered, tries, crashes, resends,
                   past>>

SetCards(D, to) == item' = [d \in Dels |-> IF d \in D THEN to ELSE item[d]]

\* approve_and_dispatch / approve_run_and_dispatch: approve all, commit, then dispatch.
Approve(s) ==
    LET D == actor[s].held IN
    /\ actor[s].pc = "read" /\ actor[s].op = "approve"
    /\ SetCards(D, "approved")
    /\ consented' = consented \union D
    /\ Owe(D)
    /\ actor' = [actor EXCEPT ![s].pc = "work", ![s].todo = D \X {"card"}]
    /\ UNCHANGED <<runVars, settings, born, event, delivered, tries, crashes, resends, gone>>

\* The request returns; what was not dispatched stays approved.
ApproveDone(s) ==
    /\ actor[s].op = "approve" /\ actor[s].pc = "work" /\ actor[s].todo = {}
    /\ actor' = [actor EXCEPT ![s] = Idle]
    /\ UNCHANGED <<runVars, settings, born, event, item, delivered, tries, crashes, resends,
                   past>>

\* _release_run_if_nothing_left looks at the committed cards of others while its own
\* are flushed but not committed.
LiveCard(d) == item[d] = "pending" \/ (item[d] = "approved" /\ d \notin delivered)
CheckLeft(s) ==
    LET D == actor[s].held IN
    /\ actor[s].pc = "read" /\ actor[s].op \in {"deny", "expire"}
    /\ actor' = [actor EXCEPT ![s].pc = "checked",
                              ![s].freed = {r \in Runs \ marked :
                                              /\ status[r] = "review_ready"
                                              /\ \E d \in D : RunOf[d] = r
                                              /\ ~\E d \in Of(r) \ D : LiveCard(d)}]
    /\ UNCHANGED <<runVars, settings, born, event, item, delivered, tries, crashes, resends,
                   past>>

\* The commit of a deny or of an expiry batch; the release is a compare-and-set.
Deny(s) ==
    /\ actor[s].pc = "checked"
    /\ SetCards(actor[s].held, IF actor[s].op = "deny" THEN "denied" ELSE "expired")
    /\ status' = [r \in Runs |-> IF r \in actor[s].freed /\ status[r] = "review_ready"
                                 THEN "cancelled" ELSE status[r]]
    /\ actor' = [actor EXCEPT ![s] = Idle]
    /\ UNCHANGED <<review, asking, marked, watch, settings, born, event, delivered, tries,
                   crashes, resends, past>>

\* Denied with a reason: the run is sent back, unless it ended.
Reject(s) ==
    LET back == {r \in Runs : (\E d \in actor[s].held : RunOf[d] = r) /\ status[r] \notin Terminal}
    IN
    /\ actor[s].pc = "read" /\ actor[s].op = "reject"
    /\ SetCards(actor[s].held, "denied")
    /\ status' = [r \in Runs |-> IF r \in back THEN "open" ELSE status[r]]
    /\ actor' = [actor EXCEPT ![s] = Idle]
    /\ UNCHANGED <<review, asking, marked, watch, settings, born, event, delivered, tries,
                   crashes, resends, past>>
-----------------------------------------------------------------------------
(* The founder and the merge watch.                                         *)

SetSafeMode ==
    /\ safeMode' = ~safeMode
    /\ UNCHANGED <<runVars, origin, born, event, item, delivered, actor, tries, crashes,
                   resends, past>>

\* cancel_run and _discard_decision_run: the run's Decisions and pending cards close too.
CancelRun(r) ==
    /\ status[r] \notin Terminal
    /\ status' = [status EXCEPT ![r] = "cancelled"]
    /\ review' = review \ {r} /\ asking' = asking \ Of(r)
    /\ SetCards(Pending(Of(r)), "denied")
    /\ UNCHANGED <<marked, watch, settings, born, event, delivered, actor, tries, crashes,
                   resends, past>>

\* reopen_run: a message for a review_ready run supersedes its pending cards.
Reopen(r) ==
    /\ status[r] = "review_ready"
    /\ status' = [status EXCEPT ![r] = "open"]
    /\ SetCards(Pending(Of(r)), "denied")
    /\ UNCHANGED <<review, asking, marked, watch, settings, born, event, delivered, actor,
                   tries, crashes, resends, past>>

\* _ship_decision_run: "Approve & ship" past a review.  Without a deliverable one is
\* minted, and for a Remote run its event carries the approval.
ShipDecision(r) ==
  \E minted \in IF Of(r) \intersect born = {} THEN {{d} : d \in Of(r) \intersect Final} ELSE {{}} :
    LET sends == IF r \in Remote THEN minted ELSE {} IN
    /\ r \in review /\ status[r] = "running"
    /\ review' = review \ {r}
    /\ born' = born \union minted
    /\ event' = event \union (sends \X {"resent"})
    /\ consented' = consented \union sends
    /\ Owe(sends)
    /\ marked' = IF ShipsNow(r, event') /\ r \in watch THEN marked \union {r} ELSE marked
    /\ status' = [status EXCEPT ![r] =
                    IF r \notin Remote \/ (ShipsNow(r, event') /\ r \notin watch)
                    THEN "shipped" ELSE "review_ready"]
    /\ UNCHANGED <<asking, watch, settings, item, delivered, actor, tries, crashes, resends,
                   gone>>

\* _redeliver: "Send again" on a delivery_failed Decision.  Bound: one such event of a
\* deliverable is queued at a time.
Redeliver(d) ==
    /\ d \in asking /\ <<d, "resent">> \notin event /\ resends < MaxResends
    /\ asking' = asking \ {d}
    /\ resends' = resends + 1
    /\ event' = event \union {<<d, "resent">>}
    /\ consented' = consented \union {d}
    /\ Owe({d})
    /\ UNCHANGED <<status, review, marked, watch, settings, born, item, delivered, actor,
                   tries, crashes, gone>>

\* build_merge_watch_pr_concluded: merged ships, closed cancels, what ended stays.
PrConcluded(r, to) ==
    /\ r \in watch
    /\ watch' = watch \ {r}
    /\ IF status[r] \notin Terminal
       THEN status' = [status EXCEPT ![r] = to] /\ marked' = marked \ {r}
       ELSE UNCHANGED <<status, marked>>
    /\ UNCHANGED <<review, asking, settings, born, event, item, delivered, actor, tries,
                   crashes, resends, past>>
-----------------------------------------------------------------------------
Dispatches == \E a \in Actors : \E j \in actor[a].todo :
                  Lands(a, j) \/ Refused(a, j) \/ Raises(a, j)
Books      == \E a \in Actors : Mark(a) \/ Resolve(a) \/ BooksFail(a)
Drains     == \E w \in Workers : \/ Claim(w) \/ Commit(w) \/ Sweep(w)
                                 \/ \E e \in actor[w].todo : Hold(w, e)
Queue      == \E s \in Sessions :
                  \/ Approve(s) \/ ApproveDone(s) \/ CheckLeft(s) \/ Deny(s) \/ Reject(s)
                  \/ \E op \in Ops \ {"none", "drain"} : \E D \in SUBSET Pending(Dels) :
                        ReadCards(s, op, D)
RunSteps   == \/ \E r \in Runs : Pick(r) \/ Finish(r) \/ PauseForReview(r)
              \/ \E d \in Dels : EmitPartial(d)
Founder    == \/ SetSafeMode
              \/ \E r \in Runs : CancelRun(r) \/ Reopen(r) \/ ShipDecision(r)
              \/ \E d \in Dels : Redeliver(d)
Crashes    == \E a \in Actors : Crash(a)
Concludes  == \E r \in Runs : PrConcluded(r, "shipped") \/ PrConcluded(r, "cancelled")

Next == \/ Dispatches \/ Books \/ Drains \/ Queue
        \/ RunSteps \/ Founder \/ Crashes \/ Concludes

Spec == Init /\ [][Next]_vars

\* A worker that is up goes on with its tick and then starts the next one.
WorkerStep(w) ==
    \/ Claim(w) \/ Commit(w) \/ Sweep(w) \/ Mark(w) \/ Resolve(w) \/ BooksFail(w)
    \/ \E j \in actor[w].todo : Lands(w, j) \/ Refused(w, j) \/ Raises(w, j) \/ Hold(w, j)

FairSpec == Spec /\ \A w \in Workers : WF_vars(WorkerStep(w))
-----------------------------------------------------------------------------
(* Properties.                                                              *)

\* Nothing of a run BSVibe started by itself leaves without the founder's yes: not
\* through a flipped Safe Mode flag, a repeated drain or a second event
\* (resolve_output_mode_gate, "nothing outranks it").
HeldBack == \A d \in gone : origin[RunOf[d]] = "autonomous" => d \in consented

\* Nothing is dispatched more often than it was asked for: once for an event, an
\* approval or a "Send again", and again only for a dispatch that raised or whose worker
\* died before its commit ("exactly one drain pass per row, no double-dispatch").
AskedFor == \A d \in Dels : owed[d] >= 0
=============================================================================
