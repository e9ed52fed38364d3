----------------------------- MODULE MergeWatch -----------------------------
(***************************************************************************)
(* The merge watch: the worker that waits for a pull request's CI, freshens *)
(* and merges it, hands red CI and conflicts back to the run that opened it,*)
(* and tells the founder when it gives up                                   *)
(* (workflow/infrastructure/workers/merge_watch_worker.py with the callbacks*)
(* of application/runtime/merge_watch_{redispatch,runtime}.py).             *)
(*                                                                         *)
(* One pull request is watched by any number of pollers.  A poll claims the *)
(* row and reserves it for a while, works from the snapshot it took, acts   *)
(* through callbacks that commit on their own, and writes the row by id     *)
(* without looking at it again.  Other pull requests of the repository      *)
(* appear as a base that moves and as a lock that is taken.                 *)
(***************************************************************************)
EXTENDS Integers

CONSTANTS
    Pollers,         \* poll passes that may be under way
    FixMax,          \* ci_fix_max_redispatch
    ConflictMax,     \* conflict_max_redispatch
    MaxHead,         \* bound: heads the branch goes through
    MaxFaults,       \* bound: crashes, GitHub errors, busy locks, failed callbacks
    MaxMessages      \* bound: review comments and answers that send the PR back

ASSUME WatchLimits == FixMax \in Nat /\ ConflictMax \in Nat \ {0}
ASSUME WatchBounds == MaxHead \in Nat \ {0} /\ MaxFaults \in Nat /\ MaxMessages \in Nat

VARIABLES
    pr,         \* the pull request as GitHub has it
    row,        \* its github_merge_watch row
    run,        \* the status of the run that opened it
    comment,    \* a review comment no delivery has followed
    card,       \* the run's latest artifact waits in Safe Mode
    asked,      \* the Decisions about this watch the founder has not answered
    told,       \* the founder was told that the watch is over (history only)
    target,     \* the product's GitHub binding resolves
    poll,       \* [Pollers]: the poll under way
    faults,     \* faults so far
    messages    \* comments and answers so far

vars == <<pr, row, run, comment, card, asked, told, target, poll, faults, messages>>

\* "open" is a run that is driven, "paused" one that is RUNNING on a pending Decision.
Over  == {"shipped", "failed", "cancelled"}
RunStatuses == {"open", "paused", "review_ready"} \union Over
Heads == 0..MaxHead                                  \* 0: no head recorded
\* mergeable is GitHub's mergeable_state, "blocked" told apart by the check-runs of the
\* head.  "behind" and "conflict" hide the checks, which start over on any way out.
PullRequests == [state : {"open", "merged", "closed"}, head : Heads \ {0},
                 mergeable : {"pending", "red", "clean", "behind", "conflict"}]

\* The row.  age is deadline_at against now, up to the horizon after which a failed watch
\* is not looked at; late is conflict_dispatched_at against its deadline.  next_poll_at is
\* left out: a reservation or a backoff may run out at any time, also under a slow poll.
Live == {"pending_ci", "needs_resolution"}
Rows == [status : Live \union {"failed", "merged", "abandoned"}, head : Heads, red : Heads,
         fix : Heads, fixN : Nat, conflict : Heads, conflictN : Nat, late : BOOLEAN,
         age : {"young", "late", "old"}]

\* What a poll concludes: the mark_status call it ends with.
Outcomes == {"none", "merged", "closed", "orphan", "look", "again", "defer", "red_once",
             "ci_sent", "awaiting", "conflict", "conflict_retry", "escalated", "freshened",
             "stalled", "unaddressed"}
Pcs   == {"idle", "claimed", "read", "merge", "freshen", "act", "write", "report"}

\* A poll: the snapshot and what GitHub answered, until it decides; from then on the
\* outcome, the head it saw, whether that head is news, and the attempt it is making.
Polls == [pc : Pcs, snap : Rows, pull : PullRequests, out : Outcomes, head : Heads,
          moved : BOOLEAN, nth : Nat]

TypeOK ==
    /\ pr \in PullRequests /\ row \in Rows
    /\ row.fixN <= FixMax /\ row.conflictN <= ConflictMax
    /\ run \in RunStatuses /\ comment \in BOOLEAN /\ card \in BOOLEAN
    /\ asked \subseteq {"stalled", "unaddressed", "escalated"}
    /\ told \in BOOLEAN /\ target \in BOOLEAN
    /\ poll \in [Pollers -> Polls]
    /\ faults \in 0..MaxFaults /\ messages \in 0..MaxMessages

Opened  == [state |-> "open", head |-> 1, mergeable |-> "pending"]
Watched == [status |-> "pending_ci", head |-> 0, red |-> 0, fix |-> 0, fixN |-> 0,
            conflict |-> 0, conflictN |-> 0, late |-> FALSE, age |-> "young"]
Idle    == [pc |-> "idle", snap |-> Watched, pull |-> Opened, out |-> "none",
            head |-> 0, moved |-> FALSE, nth |-> 0]

\* enqueue_merge_watch has run and the delivery left the run waiting.
Init ==
    /\ pr = Opened /\ row = Watched /\ run = "review_ready"
    /\ comment = FALSE /\ card = FALSE /\ asked = {} /\ told = FALSE /\ target = TRUE
    /\ poll = [w \in Pollers |-> Idle]
    /\ faults = 0 /\ messages = 0

Goto(w, pc, out) == poll' = [poll EXCEPT ![w].pc = pc, ![w].out = out]

\* _run_still_fixing, _failed_without_the_fix
StillFixing == run \in {"open", "paused"} \/ card
FailedWithoutFix == run = "failed" /\ comment
-----------------------------------------------------------------------------
(* A poll.                                                                  *)

\* claim_due
Claim(w) ==
    /\ poll[w].pc = "idle"
    /\ row.status \in Live \/ (row.status = "failed" /\ row.age # "old")
    /\ poll' = [poll EXCEPT ![w] = [Idle EXCEPT !.pc = "claimed", !.snap = row]]
    /\ UNCHANGED <<pr, row, run, comment, card, asked, told, target, faults, messages>>

\* No GitHub target: a failed watch is kept for later, a live one is given up.
NoClient(w) ==
    /\ poll[w].pc = "claimed" /\ ~target
    /\ poll' = [poll EXCEPT ![w] = IF @.snap.status = "failed"
                                   THEN [Idle EXCEPT !.pc = "write", !.out = "look"]
                                   ELSE [Idle EXCEPT !.pc = "act", !.out = "stalled"]]
    /\ UNCHANGED <<pr, row, run, comment, card, asked, told, target, faults, messages>>

\* The run was cancelled: _close_orphaned_pr, best effort, unless the watch had failed.
Orphaned(w) ==
    /\ poll[w].pc = "claimed" /\ target /\ run = "cancelled"
    /\ \/ poll[w].snap.status # "failed" /\ pr.state = "open" /\ pr' = [pr EXCEPT !.state = "closed"]
       \/ UNCHANGED pr
    /\ poll' = [poll EXCEPT ![w] = [Idle EXCEPT !.pc = "write", !.out = "orphan"]]
    /\ UNCHANGED <<row, run, comment, card, asked, told, target, faults, messages>>

\* Mutant: the poll does not look whether the run was cancelled.
GetPrAnyway(w) ==
    /\ poll[w].pc = "claimed" /\ target
    /\ poll' = [poll EXCEPT ![w].pc = "read", ![w].pull = pr]
    /\ UNCHANGED <<pr, row, run, comment, card, asked, told, target, faults, messages>>

GetPr(w) ==
    /\ poll[w].pc = "claimed" /\ target /\ run # "cancelled"
    /\ poll' = [poll EXCEPT ![w].pc = "read", ![w].pull = pr]
    /\ UNCHANGED <<pr, row, run, comment, card, asked, told, target, faults, messages>>

\* Mutant: the conflict is handed over again and again.
RecoverForever(s) ==
    IF ~s.late THEN [pc |-> "write", out |-> "awaiting"] ELSE [pc |-> "act", out |-> "conflict"]

\* _freshness_step's guard and _await_or_recover_conflict: the conflict was handed over
\* on this head and nothing was pushed since.
Recover(s) ==
    IF ~s.late THEN [pc |-> "write", out |-> "awaiting"]
    ELSE IF s.conflictN >= ConflictMax THEN [pc |-> "act", out |-> "escalated"]
    ELSE [pc |-> "act", out |-> "conflict_retry"]

\* A deadline that has passed: no giving up while the run is still fixing.
Overdue == IF StillFixing THEN [pc |-> "write", out |-> "defer"]
                          ELSE [pc |-> "act", out |-> "stalled"]

\* CI still pending.  late: the CI deadline of this head has passed.
Pending(late) == IF late THEN Overdue ELSE [pc |-> "write", out |-> "again"]

\* Mutant: one hand-back more than the budget.
RedChecksMore(s, head, late) ==
    IF s.red # head THEN [pc |-> "write", out |-> "red_once"]
    ELSE IF s.fix = head THEN Pending(late)
    ELSE IF s.fixN <= FixMax THEN [pc |-> "act", out |-> "ci_sent"]
    ELSE [pc |-> "act", out |-> "stalled"]

\* The checks of the head failed: look twice, hand back, wait for the push, give up.
RedChecks(s, head, late) ==
    IF s.red # head THEN [pc |-> "write", out |-> "red_once"]
    ELSE IF s.fix = head THEN Pending(late)
    ELSE IF s.fixN < FixMax THEN [pc |-> "act", out |-> "ci_sent"]
    ELSE [pc |-> "act", out |-> "stalled"]

\* The mergeability gate, with what the database says of the run now.  Check-runs that
\* cannot be read say nothing: red then counts as pending.
Gate(s, pull, late) ==
    IF pull.mergeable \in {"behind", "conflict"}
    THEN {IF s.conflict = pull.head THEN Recover(s) ELSE [pc |-> "freshen", out |-> "none"]}
    ELSE IF pull.mergeable = "clean"
    THEN {IF StillFixing THEN [pc |-> "write", out |-> "defer"]
          ELSE IF FailedWithoutFix THEN [pc |-> "act", out |-> "unaddressed"]
          ELSE [pc |-> "merge", out |-> "none"]}
    ELSE {Pending(late)} \union
         (IF pull.mergeable = "red" THEN {RedChecks(s, pull.head, late)} ELSE {})

\* _process from the PR it read on.  A head that moved restarts the deadline.
Decide(w) ==
    LET s     == poll[w].snap
        pull  == poll[w].pull
        moved == pull.head # s.head
        to    == IF pull.state # "open" THEN {[pc |-> "write", out |-> pull.state]}
                 ELSE IF s.status = "failed" THEN {[pc |-> "write", out |-> "look"]}
                 ELSE Gate(s, pull, s.age # "young" /\ ~moved)
    IN
    /\ poll[w].pc = "read"
    /\ \E g \in to :
         poll' = [poll EXCEPT ![w] =
                    [Idle EXCEPT !.pc = g.pc, !.out = g.out, !.head = pull.head,
                                 !.moved = moved /\ g.out \notin {"merged", "closed", "look"},
                                 !.nth = IF g.out = "ci_sent" THEN s.fixN + 1
                                         ELSE IF g.out = "conflict_retry" THEN s.conflictN + 1
                                         ELSE 0]]
    /\ UNCHANGED <<pr, row, run, comment, card, asked, told, target, faults, messages>>

\* _merge_step, under the repository's lock: still clean, or back to pending_ci.
Merge(w) ==
    /\ poll[w].pc = "merge"
    /\ IF pr.state = "open" /\ pr.mergeable = "clean"
       THEN pr' = [pr EXCEPT !.state = "merged"] /\ Goto(w, "write", "merged")
       ELSE Goto(w, "write", "again") /\ UNCHANGED pr
    /\ UNCHANGED <<row, run, comment, card, asked, told, target, faults, messages>>

\* GitHub refuses the merge (405, 409), or the freshening could not complete.
NotNow(w) ==
    /\ poll[w].pc \in {"merge", "freshen"} /\ faults < MaxFaults
    /\ faults' = faults + 1
    /\ Goto(w, "write", "again")
    /\ UNCHANGED <<pr, row, run, comment, card, asked, told, target, messages>>

\* The local merge of the base into the branch, under the lock: pushed, or a conflict.
Freshen(w) ==
    /\ poll[w].pc = "freshen"
    /\ IF ~target THEN Goto(w, "act", "stalled") /\ UNCHANGED pr
       ELSE IF pr.mergeable = "conflict" THEN Goto(w, "act", "conflict") /\ UNCHANGED pr
       ELSE /\ IF pr.state = "open" /\ pr.mergeable = "behind"
               THEN pr' = [pr EXCEPT !.head = @ + 1, !.mergeable = "pending"]
               ELSE UNCHANGED pr
            /\ Goto(w, "write", "freshened")
    /\ UNCHANGED <<row, run, comment, card, asked, told, target, faults, messages>>

\* The callbacks.  ci_redispatch re-opens a run that waits or failed; the conflict
\* redispatch writes OPEN over everything but SHIPPED (AgentRunner.transition);
\* conflict_escalate pauses the run where the table allows it; the last two ask.
Called(out) ==
    CASE out = "ci_sent" -> IF run \in {"review_ready", "failed"} THEN "open" ELSE run
      [] out \in {"conflict", "conflict_retry"} -> IF run # "shipped" THEN "open" ELSE run
      [] out = "escalated" -> IF run \notin Over THEN "paused" ELSE run
      [] OTHER -> run

\* Mutant: the row is marked before the founder is told.
ActLater(w) ==
    LET out == poll[w].out IN
    /\ poll[w].pc = "act"
    /\ run' = Called(out)
    /\ Goto(w, "write", out)
    /\ UNCHANGED <<pr, row, comment, card, asked, told, target, faults, messages>>

\* A callback, committed in a transaction of its own before the row is written.
Act(w) ==
    LET out == poll[w].out IN
    /\ poll[w].pc = "act"
    /\ run' = Called(out)
    /\ asked' = asked \union ({out} \intersect {"stalled", "unaddressed", "escalated"})
    /\ told' = (told \/ out \in {"stalled", "unaddressed", "escalated"})
    /\ Goto(w, "write", out)
    /\ UNCHANGED <<pr, row, comment, card, target, faults, messages>>

\* mark_status: the columns each outcome sets, computed from the snapshot; a head that
\* moved is recorded with its fresh deadline in the same transaction.
Marked(p) ==
    LET r     == IF p.moved THEN [row EXCEPT !.head = p.head, !.age = "young"] ELSE row
        later == [r EXCEPT !.status = "pending_ci"]
        parks == [r EXCEPT !.status = "needs_resolution"]
    IN
    CASE p.out = "merged" -> [r EXCEPT !.status = "merged"]
      [] p.out \in {"closed", "orphan"} -> [r EXCEPT !.status = "abandoned"]
      [] p.out \in {"stalled", "unaddressed", "escalated", "look"} -> [r EXCEPT !.status = "failed"]
      [] p.out \in {"defer", "freshened"} -> [later EXCEPT !.age = "young"]
      [] p.out = "red_once" -> [later EXCEPT !.red = p.head]
      [] p.out = "ci_sent"  -> [later EXCEPT !.fix = p.head, !.fixN = p.nth, !.age = "young"]
      [] p.out = "awaiting" -> parks
      [] p.out = "conflict" -> [parks EXCEPT !.conflict = p.head, !.conflictN = 1, !.late = FALSE]
      [] p.out = "conflict_retry" -> [parks EXCEPT !.conflictN = p.nth, !.late = FALSE]
      [] OTHER -> later

Write(w) ==
    /\ poll[w].pc = "write"
    /\ row' = Marked(poll[w])
    /\ poll' = [poll EXCEPT ![w] = IF @.out \in {"merged", "closed"} THEN [@ EXCEPT !.pc = "report"]
                                                                     ELSE Idle]
    /\ UNCHANGED <<pr, run, comment, card, asked, told, target, faults, messages>>

\* Mutant: whatever the conclusion was, the run is told that its PR merged.
ReportMerged(w) ==
    /\ poll[w].pc = "report"
    /\ run' = IF run \in Over THEN run ELSE "shipped"
    /\ poll' = [poll EXCEPT ![w] = Idle]
    /\ UNCHANGED <<pr, row, comment, card, asked, told, target, faults, messages>>

\* Mutant: a run that was reopened does not hear.
ReportWaiting(w) ==
    /\ poll[w].pc = "report"
    /\ run' = IF run # "review_ready" THEN run
              ELSE IF poll[w].out = "merged" THEN "shipped" ELSE "cancelled"
    /\ poll' = [poll EXCEPT ![w] = Idle]
    /\ UNCHANGED <<pr, row, comment, card, asked, told, target, faults, messages>>

\* build_merge_watch_pr_concluded, after the commit; the transition table holds.
Report(w) ==
    /\ poll[w].pc = "report"
    /\ run' = IF run \in Over THEN run
              ELSE IF poll[w].out = "merged" THEN "shipped" ELSE "cancelled"
    /\ poll' = [poll EXCEPT ![w] = Idle]
    /\ UNCHANGED <<pr, row, comment, card, asked, told, target, faults, messages>>

\* The process dies, GitHub or a callback raises, or the repository's lock is taken: the
\* transaction is undone and the reservation stands.
Fail(w) ==
    /\ poll[w].pc # "idle" /\ faults < MaxFaults
    /\ faults' = faults + 1
    /\ poll' = [poll EXCEPT ![w] = Idle]
    /\ UNCHANGED <<pr, row, run, comment, card, asked, told, target, messages>>
-----------------------------------------------------------------------------
(* Time.                                                                    *)

DeadlinePasses == row.age = "young" /\ row' = [row EXCEPT !.age = "late"]

ConflictDeadlinePasses == row.conflict # 0 /\ ~row.late /\ row' = [row EXCEPT !.late = TRUE]

\* FAILED_WATCH_HORIZON; it only matters to a failed watch.
HorizonPasses ==
    row.status = "failed" /\ row.age = "late" /\ row' = [row EXCEPT !.age = "old"]

Time ==
    /\ DeadlinePasses \/ ConflictDeadlinePasses \/ HorizonPasses
    /\ UNCHANGED <<pr, run, comment, card, asked, told, target, poll, faults, messages>>
-----------------------------------------------------------------------------
(* GitHub, the run and the founder.                                         *)

\* Bound: a branch that is behind keeps a head for its freshening.
Room == pr.head + (IF pr.mergeable = "behind" THEN 1 ELSE 0) < MaxHead

\* CI finishes, or a failed check is re-run.
CiFinishes ==
    /\ pr.state = "open" /\ pr.mergeable \in {"pending", "red"}
    /\ \E c \in {"clean", "red"} \ {pr.mergeable} : pr' = [pr EXCEPT !.mergeable = c]
    /\ UNCHANGED <<row, run, comment, card, asked, told, target, poll, faults, messages>>

BaseMoves ==
    /\ pr.state = "open" /\ pr.head < MaxHead /\ pr.mergeable # "conflict"
    /\ \E b \in {"behind", "conflict"} \ {pr.mergeable} : pr' = [pr EXCEPT !.mergeable = b]
    /\ UNCHANGED <<row, run, comment, card, asked, told, target, poll, faults, messages>>

ByHand ==
    /\ pr.state = "open"
    /\ \E s \in {"merged", "closed"} : pr' = [pr EXCEPT !.state = s]
    /\ UNCHANGED <<row, run, comment, card, asked, told, target, poll, faults, messages>>

\* A delivery reaches the branch; it may resolve a conflict.
Push ==
    /\ pr.state = "open" /\ Room
    /\ \E b \in IF pr.mergeable = "conflict" THEN {"pending", "conflict"}
               ELSE IF pr.mergeable = "behind" THEN {"behind"} ELSE {"pending"} :
         pr' = [pr EXCEPT !.head = @ + 1, !.mergeable = b]
    /\ comment' = FALSE

\* The drive ends: delivered, held in Safe Mode, or with nothing for the PR.
RunEnds ==
    /\ run = "open"
    /\ \/ Push /\ run' = "review_ready" /\ UNCHANGED card
       \/ run' = "review_ready" /\ card' = TRUE /\ UNCHANGED <<pr, comment>>
       \/ run' \in {"review_ready", "failed", "paused"} /\ UNCHANGED <<pr, comment, card>>
    /\ UNCHANGED <<row, asked, told, target, poll, faults, messages>>

\* The founder approves the card (or denies it).
CardAnswered ==
    /\ card /\ card' = FALSE
    /\ Push \/ UNCHANGED <<pr, comment>>
    /\ UNCHANGED <<row, run, asked, told, target, poll, faults, messages>>

\* Any answer that resumes a paused run; for an escalated conflict it leaves the watch.
Resume ==
    /\ run = "paused" /\ run' = "open"
    /\ asked' \in {asked, asked \ {"escalated"}}
    /\ UNCHANGED <<pr, row, comment, card, told, target, poll, faults, messages>>

\* route_pr_comment: the watch is live or failed; reopen_run clears the card.
Comment ==
    /\ messages < MaxMessages /\ messages' = messages + 1
    /\ pr.state = "open" /\ row.status \in Live \union {"failed"}
    /\ run \notin {"shipped", "cancelled"}
    /\ comment' = TRUE
    /\ IF run \in {"review_ready", "failed"} THEN run' = "open" /\ card' = FALSE
                                             ELSE UNCHANGED <<run, card>>
    /\ UNCHANGED <<pr, row, asked, told, target, poll, faults>>

\* "Send it back to be fixed": the run takes it and revive_merge_watch starts over.
SendBack(why) ==
    /\ messages < MaxMessages /\ messages' = messages + 1
    /\ why \in asked /\ asked' = asked \ {why}
    /\ \/ why = "stalled" /\ run \notin {"shipped", "cancelled"} /\ UNCHANGED card
       \/ why = "unaddressed" /\ run = "failed" /\ comment /\ card' = FALSE
    /\ run' = IF run = "paused" THEN run ELSE "open"
    /\ row' = IF row.status # "failed" THEN row
              ELSE [row EXCEPT !.status = "pending_ci", !.age = "young",
                               !.fix = 0, !.fixN = 0, !.red = 0]
    /\ UNCHANGED <<pr, comment, told, target, poll, faults>>

\* cancel_run, or "discard" on one of the Decisions.
Cancel ==
    /\ run \notin Over /\ run' = "cancelled" /\ card' = FALSE
    /\ UNCHANGED <<pr, row, comment, asked, told, target, poll, faults, messages>>

RemoveTarget ==
    /\ target /\ target' = FALSE
    /\ UNCHANGED <<pr, row, run, comment, card, asked, told, poll, faults, messages>>
-----------------------------------------------------------------------------
Step(w) == \/ Claim(w) \/ NoClient(w) \/ Orphaned(w) \/ GetPr(w) \/ Decide(w) \/ Merge(w)
           \/ Freshen(w) \/ Act(w) \/ Write(w) \/ Report(w)
Faults  == \E w \in Pollers : NotNow(w) \/ Fail(w)
Founder == \/ CardAnswered \/ Resume \/ Comment \/ Cancel \/ RemoveTarget
           \/ \E why \in {"stalled", "unaddressed"} : SendBack(why)
Next == \/ \E w \in Pollers : Step(w)
        \/ Faults \/ Time \/ CiFinishes \/ BaseMoves \/ ByHand \/ RunEnds \/ Founder

Spec == Init /\ [][Next]_vars

\* Pollers go on, time passes and a drive ends; neither CI nor people have to do anything.
FairSpec == /\ Spec
            /\ \A w \in Pollers : WF_vars(Step(w))
            /\ WF_vars(DeadlinePasses /\ Time)
            /\ WF_vars(ConflictDeadlinePasses /\ Time)
            /\ WF_vars(RunEnds)
-----------------------------------------------------------------------------
(* Properties.                                                              *)

\* A watch never gives up silently: whatever fails between the telling and the marking,
\* a failed row has been reported (_gave_up, "Called BEFORE the row is marked terminal").
FounderKnows == row.status = "failed" => told

\* The row says merged, and the run shipped, only of a PR that GitHub merged
\* (run_status.py: shipped "means the work landed — merged, for a GitHub-delivered run").
LandedIsMerged == row.status = "merged" \/ run = "shipped" => pr.state = "merged"

\* A cancel that no poll has overtaken lasts: no later poll re-dispatches the run, merges
\* its PR or freshens its branch.  A poll that had looked before the cancel still may
\* ("Checked before the merge state machine so a cancelled run never gets its conflicted
\* PR merged or re-dispatched").
CancelLasts ==
    [](run = "cancelled" /\ (\A w \in Pollers : poll[w].pc \in {"idle", "claimed"})
       => [](run = "cancelled" /\ \A w \in Pollers : poll[w].pc \notin {"merge", "freshen"}))
=============================================================================
