---------------------------- MODULE RunLifecycle ----------------------------
(***************************************************************************)
(* The life of an ExecutionRun row: the agent worker processes that claim,  *)
(* drive and give back runs (infrastructure/workers/agent_worker.py), the   *)
(* drive loop's turns (application/_drive_loop.py, _loop_turn.py), and the  *)
(* other sessions that move the same row meanwhile: founder cancel, retry,  *)
(* discard and checkpoint answers, Safe Mode denials, deliveries, and the   *)
(* merge watch.                                                            *)
(*                                                                         *)
(* A session reads the run once and keeps that copy (SQLAlchemy identity    *)
(* map); what it does later is decided on the copy and applied by a         *)
(* compare-and-set against the row (move_run_status).  So reading and       *)
(* writing are separate steps here, and every step in between can belong    *)
(* to someone else.                                                        *)
(***************************************************************************)
EXTENDS Naturals, FiniteSets

CONSTANTS
    Runs,          \* execution runs
    Procs,         \* agent worker processes, one worker_id each
    Slots,         \* drive slots of a process (drive_concurrency)
    Sessions,      \* concurrent request / callback sessions
    MachineOf,     \* machine a process runs on (settings.machine_id)
    NoProc,        \* NULL in claimed_by
    NoMachine,     \* NULL in home_machine
    MaxFailures,   \* settings.agent_max_drive_failures
    MaxRounds,     \* the round ceiling of one drive (orch._max_cycles)
    MaxReopens,    \* bound: re-opening requests per run
    Offered,       \* bound: the operations the sessions may ask for
    ReopenWaits,   \* environment: nobody re-opens a run while a drive of it is alive
    ShortSessions, \* environment: what a session read does not change before it commits
    LeaseHolds     \* environment: a live drive always heartbeats within the lease

\* What a session may have been opened for.
Ops == {"idle", "cancel", "discard", "retry", "resume", "ship", "abandon",
        "reopen", "deny", "deliver", "redispatch", "conflict", "stall", "merged", "closed"}

ASSUME RunAssumption     == Runs # {}
ASSUME ProcAssumption    == NoProc \notin Procs
ASSUME MachineAssumption == DOMAIN MachineOf = Procs
ASSUME BoundAssumption   == /\ MaxFailures \in Nat \ {0} /\ MaxRounds \in Nat \ {0}
                            /\ MaxReopens \in Nat /\ Offered \subseteq Ops \ {"idle"}
ASSUME EnvAssumption     == ReopenWaits \in BOOLEAN /\ ShortSessions \in BOOLEAN /\ LeaseHolds \in BOOLEAN

VARIABLES
    status,     \* [Runs]: execution_runs.status
    claim,      \* [Runs]: claimed_at / claimed_by / home_machine
    pending,    \* [Runs]: kinds of the run's PENDING Decisions
    failures,   \* [Runs]: payload["drive_failures"]
    output,     \* [Runs]: the run has a Deliverable that is not retracted
    reopens,    \* [Runs]: re-opening requests so far (the bound's counter)
    proc,       \* [Procs]: life of a worker process
    swept,      \* [Procs]: _orphans_released
    drive,      \* [Procs \X Slots]: the drive tasks
    sess        \* [Sessions]: a session between its read and its commit

vars == <<status, claim, pending, failures, output, reopens, proc, swept, drive, sess>>
rowVars == <<status, claim, pending, failures, output, reopens>>

Table == INSTANCE RunStatus

Drives == Procs \X Slots

\* A run's status, or "absent" before open_run.
RowStatuses == Table!Statuses \union {"absent"}

\* Decision kinds by what their answer may do: a question is answered in words
\* (resume); a review may be shipped, retried or discarded; a blocked run may be
\* retried or discarded (run_drive_failed, no_model_account, run_token_cap_reached,
\* merge_conflict_review); a report asks nothing of the run (merge_watch_stalled).
Kinds == {"question", "review", "blocked", "report"}

Machines == {MachineOf[p] : p \in Procs} \union {NoMachine}
NoClaim == [at |-> "null", by |-> NoProc, home |-> NoMachine]
Claims  == [at : {"null", "fresh", "stale"}, by : Procs \union {NoProc},
            home : Machines]

\* The columns a drive's clean-up sets to NULL or zero.
Columns == {"at", "by", "home", "failures"}

\* Where a drive task is.  "idle": no task in the slot.
DrivePcs == {"idle", "claimed", "framing", "boundary", "turn", "verify", "finish",
             "exit", "clear", "raised", "escalate", "park", "release", "giveback"}
\* "attached": verified, with nothing written for the founder to approve.
Outcomes == {"none", "verified", "attached", "system_error", "saturated"}

DriveRecords == [pc : DrivePcs, run : Runs, held : RowStatuses,
                 saw : SUBSET Columns, out : Outcomes, round : 0..MaxRounds]
SessRecords  == [op : Ops, run : Runs, held : RowStatuses, kind : Kinds]

TypeOK ==
    /\ status   \in [Runs -> RowStatuses]
    /\ claim    \in [Runs -> Claims]
    /\ pending  \in [Runs -> SUBSET Kinds]
    /\ failures \in [Runs -> Nat]
    /\ output   \in [Runs -> BOOLEAN]
    /\ reopens  \in [Runs -> 0..MaxReopens]
    /\ proc     \in [Procs -> {"off", "up", "stopping", "gone"}]
    /\ swept    \in [Procs -> BOOLEAN]
    /\ drive    \in [Drives -> DriveRecords]
    /\ sess     \in [Sessions -> SessRecords]

Live(d)      == drive[d].pc # "idle"
LiveOn(d, r) == Live(d) /\ drive[d].run = r
Holds(s, r)  == sess[s].op # "idle" /\ sess[s].run = r
Quiet(r)     == ShortSessions => \A s \in Sessions : ~Holds(s, r)

AnyRun == CHOOSE r \in Runs : TRUE
IdleDrive == [pc |-> "idle", run |-> AnyRun, held |-> "absent", saw |-> {},
              out |-> "none", round |-> 0]
IdleSess  == [op |-> "idle", run |-> AnyRun, held |-> "absent", kind |-> "question"]

Init ==
    /\ status   = [r \in Runs |-> "absent"]
    /\ claim    = [r \in Runs |-> NoClaim]
    /\ pending  = [r \in Runs |-> {}]
    /\ failures = [r \in Runs |-> 0]
    /\ output   = [r \in Runs |-> FALSE]
    /\ reopens  = [r \in Runs |-> 0]
    /\ proc     = [p \in Procs |-> "off"]
    /\ swept    = [p \in Procs |-> FALSE]
    /\ drive    = [d \in Drives |-> IdleDrive]
    /\ sess     = [s \in Sessions |-> IdleSess]

-----------------------------------------------------------------------------
(* move_run_status: the one way a session's copy reaches the row.           *)

\* Fault for the mutants: an UPDATE without its status condition.
LandsBlind(r, held, to) == held # to /\ Table!is_allowed_move(held, to)

\* The conditional UPDATE lands: the table allows the move from the held status
\* and the row still holds it.
Lands(r, held, to) ==
    /\ held # to
    /\ Table!is_allowed_move(held, to)
    /\ status[r] = held

\* The row's status afterwards.
moved(r, held, to) == IF Lands(r, held, to) THEN to ELSE status[r]

\* The copy's status afterwards: mirrored when it landed, refreshed when the race
\* was lost, untouched when nothing was tried.
heldAfter(r, held, to) ==
    IF held = to \/ ~Table!is_allowed_move(held, to) THEN held ELSE moved(r, held, to)

-----------------------------------------------------------------------------
(* Worker processes and their tick.                                         *)

\* claim_once -> AgentRunner.open_run: an OPEN request becomes an OPEN run.
OpenRun(p, r) ==
    /\ proc[p] = "up"
    /\ status[r] = "absent"
    /\ status' = [status EXCEPT ![r] = "open"]
    /\ UNCHANGED <<claim, pending, failures, output, reopens, proc, swept, drive, sess>>

\* Drive d at pc; leaving the loop forgets the copy it worked on.
At(d, pc) == IF pc \in {"exit", "raised", "release"}
             THEN [IdleDrive EXCEPT !.pc = pc, !.run = drive[d].run]
             ELSE [drive[d] EXCEPT !.pc = pc]

\* One agent worker process runs per machine.
Start(p) ==
    /\ proc[p] = "off"
    /\ \A q \in Procs \ {p} : MachineOf[q] = MachineOf[p] => proc[q] \in {"off", "gone"}
    /\ proc' = [proc EXCEPT ![p] = "up"]
    /\ UNCHANGED <<rowVars, swept, drive, sess>>

\* Killed: its tasks vanish, its claims stay.  Some successor remains to be started.
Crash(p) ==
    /\ proc[p] \in {"up", "stopping"}
    /\ \E q \in Procs : proc[q] = "off"
    /\ proc'  = [proc EXCEPT ![p] = "gone"]
    /\ drive' = [d \in Drives |-> IF d[1] = p THEN IdleDrive ELSE drive[d]]
    /\ UNCHANGED <<rowVars, swept, sess>>

\* stop(): every drive in flight is cancelled and takes its release path; a task
\* that never ran has no such path.
Stop(p) ==
    /\ proc[p] = "up"
    /\ \E q \in Procs : proc[q] = "off"
    /\ proc'  = [proc EXCEPT ![p] = "stopping"]
    /\ drive' = [d \in Drives |->
                   CASE d[1] # p \/ ~Live(d)       -> drive[d]
                     [] drive[d].pc = "claimed"    -> IdleDrive
                     [] OTHER                      -> At(d, "release")]
    /\ UNCHANGED <<rowVars, swept, sess>>

\* _reset_claims_to_open over the runs S: RUNNING, claimed, nothing pending.
Resettable(r) == status[r] = "running" /\ claim[r].at # "null" /\ pending[r] = {}
ResetClaims(S) ==
    LET reset == {r \in S : Resettable(r)}
    IN  /\ status' = [r \in Runs |-> IF r \in reset THEN "open" ELSE status[r]]
        /\ claim'  = [r \in Runs |-> IF r \in reset THEN NoClaim ELSE claim[r]]
        /\ UNCHANGED <<pending, failures, output, reopens>>

\* The end of stop(), after the cancelled drives were gathered.
StopReleases(p) ==
    /\ proc[p] = "stopping"
    /\ \A d \in Drives : d[1] = p => ~Live(d)
    /\ ResetClaims({r \in Runs : claim[r].by = p})
    /\ proc' = [proc EXCEPT ![p] = "gone"]
    /\ UNCHANGED <<swept, drive, sess>>

\* Fault: a sweep that takes back every other process's claims.
ReleaseAllClaims(p) ==
    /\ proc[p] = "up" /\ ~swept[p]
    /\ swept' = [swept EXCEPT ![p] = TRUE]
    /\ ResetClaims({r \in Runs : claim[r].by # p})
    /\ UNCHANGED <<proc, drive, sess>>

\* _release_orphaned_claims: once per process, before its first claim.
ReleaseOrphans(p) ==
    /\ proc[p] = "up" /\ ~swept[p]
    /\ swept' = [swept EXCEPT ![p] = TRUE]
    /\ ResetClaims({r \in Runs : claim[r].by # p /\ claim[r].home = MachineOf[p]})
    /\ UNCHANGED <<proc, drive, sess>>

\* Fault: a reaper that looks only at its own machine's claims.
ReapOwnMachine(p) ==
    /\ proc[p] = "up" /\ swept[p]
    /\ ResetClaims({r \in Runs : claim[r].at = "stale" /\ claim[r].home = MachineOf[p]})
    /\ UNCHANGED <<proc, swept, drive, sess>>

\* _reap_stale_claims
ReapStale(p) ==
    /\ proc[p] = "up" /\ swept[p]
    /\ ResetClaims({r \in Runs : claim[r].at = "stale"})
    /\ UNCHANGED <<proc, swept, drive, sess>>

\* Time: a claim nobody refreshes outlives the lease (2 x executor_task_timeout_s).
LeaseExpires(r) ==
    /\ claim[r].at = "fresh"
    /\ LeaseHolds => \A d \in Drives : ~LiveOn(d, r)
    /\ claim' = [claim EXCEPT ![r].at = "stale"]
    /\ UNCHANGED <<status, pending, failures, output, reopens, proc, swept, drive, sess>>

\* _claim_runs_for_drive + _start_drives: OPEN -> RUNNING under the row lock, the
\* claim stamped, one task started in a free slot.
Claim(p, k, r) ==
    LET d == <<p, k>>
    IN  /\ proc[p] = "up" /\ swept[p]
        /\ ~Live(d)
        /\ status[r] = "open"
        /\ Quiet(r)
        /\ status' = [status EXCEPT ![r] = "running"]
        /\ claim'  = [claim EXCEPT ![r] = [at |-> "fresh", by |-> p, home |-> MachineOf[p]]]
        /\ drive'  = [drive EXCEPT ![d] = [IdleDrive EXCEPT !.pc = "claimed", !.run = r]]
        /\ UNCHANGED <<pending, failures, output, reopens, proc, swept, sess>>

-----------------------------------------------------------------------------
(* One drive.                                                              *)

\* Drive d moves to pc, the row untouched.
Goto(d, pc) ==
    /\ drive' = [drive EXCEPT ![d] = At(d, pc)]
    /\ UNCHANGED <<rowVars, proc, swept, sess>>

\* _frame_and_drive_run: session.get, the copy every later move is decided on.
LoadRun(d) ==
    /\ drive[d].pc = "claimed"
    /\ drive' = [drive EXCEPT ![d].pc = "framing", ![d].held = status[drive[d].run]]
    /\ UNCHANGED <<rowVars, proc, swept, sess>>

\* Framing or provisioning raised: the session is rolled back.
FrameRaises(d) == drive[d].pc = "framing" /\ Goto(d, "raised")

\* ExecutorCapacitySaturated while framing: yielded back.
FrameSaturated(d) == drive[d].pc = "framing" /\ Goto(d, "release")

\* A Decision k is written and the drive ends paused on it, in one commit.
PauseOn(d, k) ==
    /\ pending' = [pending EXCEPT ![drive[d].run] = @ \union {k}]
    /\ drive' = [drive EXCEPT ![d] = At(d, "exit")]
    /\ UNCHANGED <<status, claim, failures, output, reopens, proc, swept, sess>>

\* No model account resolves: a Decision, and the run parked RUNNING.
FramePauses(d) ==
    LET r == drive[d].run
    IN  /\ drive[d].pc = "framing"
        /\ status'  = [status EXCEPT ![r] = moved(r, drive[d].held, "running")]
        /\ pending' = [pending EXCEPT ![r] = @ \union {"blocked"}]
        /\ drive'   = [drive EXCEPT ![d] = At(d, "exit")]
        /\ UNCHANGED <<claim, failures, output, reopens, proc, swept, sess>>

\* AgentRunner.drive: transition to RUNNING, then the loop's first commit.
EnterLoop(d) ==
    LET r == drive[d].run
    IN  /\ drive[d].pc = "framing"
        /\ status' = [status EXCEPT ![r] = moved(r, drive[d].held, "running")]
        /\ drive'  = [drive EXCEPT ![d].pc = "boundary",
                                   ![d].held = heldAfter(r, drive[d].held, "running")]
        /\ UNCHANGED <<claim, pending, failures, output, reopens, proc, swept, sess>>

\* take_turn / stop_if_cancelled read the status fresh; a cancelled run ends the drive.
Cancelled(d) == status[drive[d].run] = "cancelled"
StopCancelled(d) ==
    /\ drive[d].pc \in {"boundary", "turn", "verify"}
    /\ Cancelled(d)
    /\ Goto(d, "exit")

\* Faults: a turn the ceiling does not stop, and one that is not counted.
TakeTurnUncapped(d) ==
    /\ drive[d].pc = "boundary" /\ ~Cancelled(d)
    /\ claim' = [claim EXCEPT ![drive[d].run].at = "fresh"]
    /\ drive' = [drive EXCEPT ![d].pc = "turn", ![d].round = @ + 1]
    /\ UNCHANGED <<status, pending, failures, output, reopens, proc, swept, sess>>
TakeTurnUncounted(d) ==
    /\ drive[d].pc = "boundary" /\ ~Cancelled(d)
    /\ claim' = [claim EXCEPT ![drive[d].run].at = "fresh"]
    /\ drive' = [drive EXCEPT ![d].pc = "turn"]
    /\ UNCHANGED <<status, pending, failures, output, reopens, proc, swept, sess>>

\* A turn starts: the claimed_at heartbeat is committed before the executor is asked.
TakeTurn(d) ==
    /\ drive[d].pc = "boundary" /\ ~Cancelled(d)
    /\ drive[d].round < MaxRounds
    /\ claim' = [claim EXCEPT ![drive[d].run].at = "fresh"]
    /\ drive' = [drive EXCEPT ![d].pc = "turn", ![d].round = @ + 1]
    /\ UNCHANGED <<status, pending, failures, output, reopens, proc, swept, sess>>

\* The round budget is spent: the ceiling, or a lower one the agent declared.
RoundCap(d) ==
    /\ drive[d].pc = "boundary" /\ drive[d].round > 0
    /\ \E k \in {"question", "review"} : PauseOn(d, k)

\* The executor's CLI asks through the MCP work tool, from another session.
AskOutOfBand(d) ==
    LET r == drive[d].run
    IN  /\ drive[d].pc = "turn"
        /\ status[r] \notin Table!Terminal
        /\ pending' = [pending EXCEPT ![r] = @ \union {"question"}]
        /\ UNCHANGED <<status, claim, failures, output, reopens, proc, swept, drive, sess>>

Asked(d) == "question" \in pending[drive[d].run]

\* After a turn, in the loop's order: token ceiling, out-of-band question,
\* ask_user_question, tool calls (which may emit a partial deliverable), or done.
TurnCaps(d)      == drive[d].pc = "turn" /\ PauseOn(d, "blocked")
TurnOutOfBand(d) == drive[d].pc = "turn" /\ Asked(d) /\ Goto(d, "exit")
TurnAsks(d)      == drive[d].pc = "turn" /\ ~Asked(d) /\ PauseOn(d, "question")
TurnWorks(d) ==
    /\ drive[d].pc = "turn" /\ ~Asked(d)
    /\ \E emitted \in BOOLEAN :
          output' = [output EXCEPT ![drive[d].run] = @ \/ emitted]
    /\ drive' = [drive EXCEPT ![d].pc = "boundary"]
    /\ UNCHANGED <<status, claim, pending, failures, reopens, proc, swept, sess>>
TurnDone(d) ==
    /\ drive[d].pc = "turn" /\ ~Asked(d)
    /\ claim' = [claim EXCEPT ![drive[d].run].at = "fresh"]
    /\ drive' = [drive EXCEPT ![d].pc = "verify"]
    /\ UNCHANGED <<status, pending, failures, output, reopens, proc, swept, sess>>

\* RunOrchestrator.run catches every Exception of the loop -> system_error, an
\* executor that has no capacity included.
LoopEnds(d, out) ==
    /\ drive' = [drive EXCEPT ![d].pc = "finish", ![d].out = out]
    /\ UNCHANGED <<rowVars, proc, swept, sess>>
LoopCrashes(d)   == drive[d].pc \in {"boundary", "turn", "verify"} /\ LoopEnds(d, "system_error")
TurnSaturated(d) == drive[d].pc = "turn" /\ LoopEnds(d, "saturated")

\* settle_client_attach: work on the founder's own machine ends with the turn; only
\* its artifact is withheld from a cancelled run.
TurnSettles(d) ==
    /\ drive[d].pc = "turn" /\ ~Asked(d)
    /\ (~Cancelled(d) /\ LoopEnds(d, "verified")) \/ LoopEnds(d, "attached")

VerifyPasses(d) == drive[d].pc = "verify" /\ ~Cancelled(d) /\ LoopEnds(d, "verified")
VerifyFails(d)  == drive[d].pc = "verify" /\ ~Cancelled(d) /\ Goto(d, "boundary")
VerifyPauses(d) == /\ drive[d].pc = "verify" /\ ~Cancelled(d)
                   /\ \E k \in {"question", "review"} : PauseOn(d, k)

\* AgentRunner.drive's terminal transition, committed with the loop's Deliverable.
\* A REVIEW_READY that landed goes on to SHIPPED when it is shipped locally or its
\* output is already out (_auto_ship_product_run, ship_if_delivered).
Finish(d) ==
    LET r  == drive[d].run
        ok == drive[d].out \in {"verified", "attached"}
        to == IF ok THEN "review_ready" ELSE "failed"
    IN  /\ drive[d].pc = "finish"
        /\ \E end \in IF ok /\ Lands(r, drive[d].held, to) THEN {to, "shipped"}
                                                          ELSE {moved(r, drive[d].held, to)} :
              status' = [status EXCEPT ![r] = end]
        /\ output' = [output EXCEPT ![r] = @ \/ drive[d].out = "verified"]
        /\ drive'  = [drive EXCEPT ![d] = At(d, "exit")]
        /\ UNCHANGED <<claim, pending, failures, reopens, proc, swept, sess>>

FinishRaises(d) == drive[d].pc = "finish" /\ Goto(d, "raised")

\* session.get of the run's row by the clean-up step that follows the drive; what
\* matters of the copy is the status and which columns were set.
Reload(d, pc) ==
    LET r == drive[d].run
        set == {c \in Columns : \/ c = "at"       /\ claim[r].at # "null"
                                \/ c = "by"       /\ claim[r].by # NoProc
                                \/ c = "home"     /\ claim[r].home # NoMachine
                                \/ c = "failures" /\ failures[r] # 0}
    IN  /\ drive' = [drive EXCEPT ![d].pc = pc, ![d].held = status[r], ![d].saw = set]
        /\ UNCHANGED <<rowVars, proc, swept, sess>>

\* Setting an ORM attribute to the value it was loaded with writes nothing.
ClearSeen(d) ==
    LET r   == drive[d].run
        saw == drive[d].saw
    IN  /\ claim' = [claim EXCEPT
                       ![r].at   = IF "at"   \in saw THEN "null"    ELSE @,
                       ![r].by   = IF "by"   \in saw THEN NoProc    ELSE @,
                       ![r].home = IF "home" \in saw THEN NoMachine ELSE @]
        /\ failures' = [failures EXCEPT ![r] = IF "failures" \in saw THEN 0 ELSE @]

EndDrive(d) ==
    /\ drive' = [drive EXCEPT ![d] = IdleDrive]
    /\ UNCHANGED <<output, reopens, proc, swept, sess>>

\* _clear_claim: load, save the worktree off the machine, then write.
ClearLoad(d) == drive[d].pc = "exit" /\ Reload(d, "clear")
ClearWrite(d) ==
    /\ drive[d].pc = "clear"
    /\ ClearSeen(d)
    /\ UNCHANGED <<status, pending>>
    /\ EndDrive(d)

\* The count becomes n; past tells whether that escalates.
CountFailure(d, n, past) ==
    /\ drive[d].pc = "raised"
    /\ failures' = [failures EXCEPT ![drive[d].run] = n]
    /\ drive' = [drive EXCEPT ![d].pc = IF past THEN "escalate" ELSE "release"]
    /\ UNCHANGED <<status, claim, pending, output, reopens, proc, swept, sess>>
NextCount(d) == failures[drive[d].run] + 1

\* Faults: a bound off by one, and a count that forgets the drives before.
RecordFailureLate(d)   == CountFailure(d, NextCount(d), NextCount(d) > MaxFailures)
RecordFailureAfresh(d) == CountFailure(d, 1, 1 >= MaxFailures)

\* _on_drive_failed: count it, then escalate past the bound or give the run back.
RecordFailure(d) == CountFailure(d, NextCount(d), NextCount(d) >= MaxFailures)

\* _escalate_drive_failure: pause the run on a run_drive_failed Decision, unless
\* it is no longer RUNNING or OPEN.
EscalateLoad(d) == drive[d].pc = "escalate" /\ Reload(d, "park")

\* Fault: the claim is cleared and no Decision is written.
ParkSilently(d) ==
    /\ drive[d].pc = "park"
    /\ IF drive[d].held = "running" THEN ClearSeen(d) ELSE UNCHANGED <<claim, failures>>
    /\ UNCHANGED <<status, pending>>
    /\ EndDrive(d)

Park(d) ==
    LET r    == drive[d].run
        held == drive[d].held
        go   == held \in {"running", "open"} /\ heldAfter(r, held, "running") = "running"
    IN  /\ drive[d].pc = "park"
        /\ IF go THEN /\ status'  = [status EXCEPT ![r] = moved(r, held, "running")]
                      /\ ClearSeen(d)
                      /\ pending'  = [pending EXCEPT ![r] = @ \union {"blocked"}]
                 ELSE UNCHANGED <<status, claim, failures, pending>>
        /\ EndDrive(d)

\* _release_claim_to_open: a copy still RUNNING is sent back by compare-and-set;
\* the claim columns are cleared whatever it held.
ReleaseLoad(d) == drive[d].pc = "release" /\ Reload(d, "giveback")

\* Fault: the copy's status decides, the row is not compared.
GiveBackBlind(d) ==
    LET r == drive[d].run
    IN  /\ drive[d].pc = "giveback"
        /\ status' = [status EXCEPT ![r] = IF drive[d].held = "running" THEN "open" ELSE @]
        /\ claim'  = [claim EXCEPT ![r] = NoClaim]
        /\ UNCHANGED <<pending, failures>>
        /\ EndDrive(d)

GiveBack(d) ==
    LET r == drive[d].run
    IN  /\ drive[d].pc = "giveback"
        /\ status' = [status EXCEPT ![r] =
                         IF drive[d].held = "running" THEN moved(r, "running", "open") ELSE @]
        /\ claim'  = [claim EXCEPT ![r] = NoClaim]
        /\ UNCHANGED <<pending, failures>>
        /\ EndDrive(d)

-----------------------------------------------------------------------------
(* Other sessions: each reads the run, then commits what it decided on.     *)

\* Operations that put a run back on the queue.
Reopening == {"retry", "resume", "reopen", "deny", "redispatch"}

\* What each operation requires of the run it reads.
Admits(op, r, k) ==
    LET h    == status[r]
        open == h \notin Table!Terminal
    IN  \/ op = "cancel"  /\ h \in {"open", "running"}           \* cancel_run
        \/ op = "discard" /\ TRUE                                \* discard_run
        \/ op = "retry"   /\ h \in {"failed", "cancelled"}       \* retry_run
        \/ op = "resume"  /\ k \in pending[r]                    \* resolve_checkpoint, by action
        \/ op = "ship"    /\ k = "review" /\ k \in pending[r]
        \/ op = "abandon" /\ k \in pending[r] \ {"question"}
        \/ op = "reopen"  /\ h \in {"review_ready", "failed"}    \* run_inbox.reopen_run
        \/ op = "deny"    /\ open /\ output[r]                   \* Safe Mode: deny with a reason
        \/ op = "deliver" /\ open /\ output[r]                   \* auto_resolve_run_on_delivery
        \/ op \in {"redispatch", "conflict", "stall", "merged", "closed"}
              /\ h # "cancelled" /\ output[r]                   \* the merge watch, over its PR

SessLoad(s, op, r, k) ==
    /\ sess[s].op = "idle"
    /\ status[r] # "absent"
    /\ Admits(op, r, k)
    /\ op \notin {"resume", "ship", "abandon"} => k = "question"
    /\ Quiet(r)
    /\ op \in Reopening => /\ reopens[r] < MaxReopens
                           /\ ReopenWaits => \A d \in Drives : ~LiveOn(d, r)
    /\ reopens' = [reopens EXCEPT ![r] = IF op \in Reopening THEN @ + 1 ELSE @]
    /\ sess' = [sess EXCEPT ![s] = [op |-> op, run |-> r, held |-> status[r], kind |-> k]]
    /\ UNCHANGED <<status, claim, pending, failures, output, proc, swept, drive>>

\* Session s, loaded for op, commits a move to `to` with Decisions `left` pending.
Commit(s, to, left) ==
    LET r == sess[s].run
    IN  /\ status'  = [status EXCEPT ![r] = to]
        /\ pending' = [pending EXCEPT ![r] = left]
        /\ sess'    = [sess EXCEPT ![s] = IdleSess]
        /\ UNCHANGED <<claim, failures, reopens, proc, swept, drive>>
To(s, to)   == moved(sess[s].run, sess[s].held, to)
Left(s)     == pending[sess[s].run] \ {sess[s].kind}

\* cancel_run: the run's Decisions go, whether or not the move landed.
CancelRun(s) ==
    /\ sess[s].op = "cancel"
    /\ Commit(s, To(s, "cancelled"), {}) /\ UNCHANGED output

\* discard_run: also retracts the run's output, unless it must be compensated.
DiscardRun(s) ==
    /\ sess[s].op = "discard"
    /\ Commit(s, To(s, "cancelled"), {})
    /\ \E kept \in BOOLEAN : output' = [output EXCEPT ![sess[s].run] = @ /\ kept]

\* A run put back on the queue: the founder's retry, a message or a red CI for a run
\* that is done (reopen_run), a Safe Mode denial that gives a reason.
PutBack(s)     == Commit(s, To(s, "open"), pending[sess[s].run]) /\ UNCHANGED output
RetryRun(s)    == sess[s].op = "retry"  /\ PutBack(s)
ReopenRun(s)   == sess[s].op = "reopen" /\ PutBack(s)
DenyReopens(s) == sess[s].op = "deny"   /\ PutBack(s)

\* A Decision answered in words, or "try again".  An ended run and a report resume
\* nothing; a report may be sent back to the run that is done (_send_stalled_pr_back).
Resume(s) ==
    LET r    == sess[s].run
        held == sess[s].held
        back == \/ held \notin Table!Terminal /\ sess[s].kind # "report"
                \/ held \in {"review_ready", "failed"} /\ sess[s].kind = "report"
    IN  /\ sess[s].op = "resume"
        /\ \E end \in (IF back THEN {To(s, "open")} ELSE {})
                         \union (IF ~back \/ sess[s].kind = "report" THEN {status[r]} ELSE {}) :
              Commit(s, end, Left(s))
        /\ UNCHANGED output

\* The two hops of a ship, REVIEW_READY then SHIPPED on what the first left held.
ShipHops(r, held) ==
    LET held2 == heldAfter(r, held, "review_ready")
        mid   == moved(r, held, "review_ready")
    IN  IF mid = held2 /\ Table!is_allowed_move(held2, "shipped") THEN "shipped" ELSE mid

\* "Ship it": delivered as it is; a run bound to a repository stops at REVIEW_READY.
Ship(s) ==
    LET r == sess[s].run
    IN  /\ sess[s].op = "ship"
        /\ \E end \in {To(s, "review_ready"), ShipHops(r, sess[s].held)} :
              Commit(s, end, Left(s))
        /\ output' = [output EXCEPT ![r] = TRUE]

\* _discard_decision_run: the run's other Decisions stay.
Abandon(s) ==
    /\ sess[s].op = "abandon"
    /\ Commit(s, To(s, "cancelled"), Left(s)) /\ UNCHANGED output

\* auto_resolve_run_on_delivery: a delivery resolves the review it makes moot and
\* ships the run; its two hops give up on the first one lost, so they land together
\* or not at all.  A watched PR stops the run at REVIEW_READY.
Deliver(s) ==
    LET r      == sess[s].run
        review == "review" \in pending[r]
    IN  /\ sess[s].op = "deliver"
        /\ \E end \in (IF review THEN {To(s, "review_ready")} ELSE {status[r]}) \union
                      (IF review \/ sess[s].held = "review_ready" THEN {To(s, "shipped")} ELSE {}) :
              Commit(s, end, pending[r] \ {"review"})
        /\ UNCHANGED output

\* The merge watch's callbacks read the run anew and act on whatever it now is:
\* re-open it to resolve the conflict, pause it on a merge_conflict_review once the
\* retries are spent, or only report that the watch gave up.
Redispatch(s) ==
    LET r == sess[s].run
    IN  /\ sess[s].op = "redispatch"
        /\ Commit(s, moved(r, status[r], "open"), pending[r]) /\ UNCHANGED output
ConflictEscalates(s) ==
    LET r == sess[s].run
    IN  /\ sess[s].op = "conflict"
        /\ Commit(s, moved(r, status[r], "running"), pending[r] \union {"blocked"})
        /\ UNCHANGED output
StallReports(s) ==
    LET r == sess[s].run
    IN  /\ sess[s].op = "stall"
        /\ Commit(s, status[r], pending[r] \union {"report"}) /\ UNCHANGED output

\* merge_watch_runtime: merged ships the run, closed unmerged cancels it.
PrConcluded(s) ==
    LET r  == sess[s].run
        to == IF sess[s].op = "merged" THEN "shipped" ELSE "cancelled"
    IN  /\ sess[s].op \in {"merged", "closed"}
        /\ \E left \in {pending[r]} \union
                 (IF to = "shipped" /\ Lands(r, status[r], to)
                  THEN {pending[r] \union {"report"}} ELSE {}) :
              Commit(s, moved(r, status[r], to), left)
        /\ UNCHANGED output

-----------------------------------------------------------------------------
DriveStep(d) ==
    /\ Quiet(drive[d].run)
    /\ \/ LoadRun(d) \/ FrameRaises(d) \/ FrameSaturated(d) \/ FramePauses(d) \/ EnterLoop(d)
       \/ StopCancelled(d) \/ TakeTurn(d) \/ RoundCap(d) \/ TurnCaps(d) \/ TurnOutOfBand(d) \/ TurnAsks(d)
       \/ TurnWorks(d) \/ TurnDone(d) \/ TurnSettles(d) \/ LoopCrashes(d) \/ TurnSaturated(d)
       \/ VerifyPasses(d) \/ VerifyFails(d) \/ VerifyPauses(d)
       \/ Finish(d) \/ FinishRaises(d) \/ ClearLoad(d) \/ ClearWrite(d)
       \/ RecordFailure(d) \/ EscalateLoad(d) \/ Park(d) \/ ReleaseLoad(d) \/ GiveBack(d)

Tick(p) == ReleaseOrphans(p) \/ ReapStale(p)

SessCommit(s) ==
    \/ CancelRun(s) \/ DiscardRun(s) \/ RetryRun(s) \/ ReopenRun(s) \/ DenyReopens(s) \/ Resume(s)
    \/ Ship(s) \/ Abandon(s) \/ Deliver(s) \/ Redispatch(s) \/ ConflictEscalates(s) \/ StallReports(s) \/ PrConcluded(s)

Next ==
    \/ \E p \in Procs : \/ Start(p) \/ Crash(p) \/ Stop(p) \/ StopReleases(p) \/ Tick(p)
                        \/ \E r \in Runs : OpenRun(p, r) \/ \E k \in Slots : Claim(p, k, r)
    \/ \E r \in Runs : LeaseExpires(r)
    \/ \E d \in Drives : DriveStep(d) \/ (Quiet(drive[d].run) /\ AskOutOfBand(d))
    \/ \E s \in Sessions : \/ SessCommit(s)
                           \/ \E op \in Offered, r \in Runs, k \in Kinds : SessLoad(s, op, r, k)

Spec == Init /\ [][Next]_vars

\* A process that is up keeps ticking and its tasks keep running; the supervisor
\* starts a process; time passes; a session in flight ends.  Nobody has to ask,
\* crash or stop anything.
Fairness ==
    /\ \A p \in Procs :
          /\ WF_vars(Start(p)) /\ WF_vars(StopReleases(p)) /\ WF_vars(Tick(p))
          /\ \A k \in Slots : WF_vars(DriveStep(<<p, k>>))
    /\ \A r \in Runs : /\ WF_vars(LeaseExpires(r))
                       /\ WF_vars(\E p \in Procs, k \in Slots : Claim(p, k, r))
    /\ \A s \in Sessions : WF_vars(SessCommit(s))

FairSpec == Spec /\ Fairness

-----------------------------------------------------------------------------
(* Properties.                                                             *)

\* Every writer of the status, racing on stale copies, keeps to the transition
\* table of run_status.py: what ends a run is not overwritten by a loser.
KeepsTable == Table!TableSpec

\* A cancelled run is revived only by the founder's retry or by the merge watch
\* sending it back: no drive still at work on it, no release, no reaper and no late
\* answer, delivery or denial brings it back.
CancelSticks ==
    [][\A r \in Runs : status[r] = "cancelled" /\ status'[r] # "cancelled" =>
          \E s \in Sessions : /\ sess[s].op \in {"retry", "redispatch"} /\ sess[s].run = r
                              /\ sess'[s] = IdleSess]_vars

\* A run is driven by one drive at a time (claims, leases and orphan sweeps never
\* hand it out twice), given an orderly environment.
SingleDrive ==
    \A r \in Runs, d, e \in Drives : LiveOn(d, r) /\ LiveOn(e, r) => d = e

\* A RUNNING run always has somebody to move it on: a drive, a claim the reaper can
\* take back, or a Decision in front of the founder.
Reachable(r) == (\E d \in Drives : LiveOn(d, r)) \/ claim[r].at # "null" \/ pending[r] # {}
NoStranded == \A r \in Runs : status[r] = "running" => Reachable(r)

\* The consecutive-failure count overshoots its bound by at most one for every
\* process that went away between recording a failure and escalating it, and for
\* every re-open of a run that had left RUNNING by then (the escalation's early
\* returns keep the count).
FailureBound ==
    \A r \in Runs :
       failures[r] <= MaxFailures + reopens[r]
                        + Cardinality({p \in Procs : proc[p] \in {"stopping", "gone"}})

\* A run nobody drives and nobody was asked about gets back on the queue: the claim
\* a crashed process left is released by its successor or by the lease.
Abandoned(r) == status[r] = "running" /\ pending[r] = {} /\ \A d \in Drives : ~LiveOn(d, r)
Recovered == \A r \in Runs : Abandoned(r) ~> ~Abandoned(r)

\* Every drive ends, by the round ceiling if by nothing else.
DrivesEnd == \A d \in Drives : Live(d) ~> ~Live(d)

\* A run whose drives keep raising is not re-driven silently forever: again and
\* again the count is cleared, which only the founder's Decision, a drive that works
\* or the end of the run does.
Raised(r) == \E d \in Drives : LiveOn(d, r) /\ drive[d].pc = "raised"
CrashLoopEnds ==
    \A r \in Runs : []<>Raised(r) => []<>(failures[r] = 0 \/ status[r] \in Table!Terminal)
=============================================================================
