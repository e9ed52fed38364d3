---------------------------- MODULE TaskDispatch ----------------------------
(***************************************************************************)
(* One executor task from the caller that waits for it to the host that     *)
(* runs it and back (backend/executors/dispatch.py, worker/main.py,         *)
(* api/v1/workers.py, backend/dispatch/adapter.py).                         *)
(*                                                                         *)
(* The caller commits the row, appends the task to the worker's stream and  *)
(* waits on the row.  The worker polls the stream (which acknowledges what  *)
(* it returns before the answer is on the wire), claims the task, runs it   *)
(* and posts the result.  Polls, claims, results and cancels can each be    *)
(* lost; the caller may time out, find its run cancelled, or die; the       *)
(* worker may crash, stop or be revoked.                                    *)
(***************************************************************************)
EXTENDS Naturals, Sequences, FiniteSets

CONSTANTS
    Tasks,          \* executor_tasks rows, one caller each
    Commands,       \* the tasks dispatched with action="exec": one shell command
    Workers,        \* registered workers
    NoWorker,       \* NULL in executor_tasks.worker_id
    Pin,            \* [Tasks]: the worker the caller's account is pinned to, or NoWorker
    Cap,            \* settings.max_parallel_tasks_per_worker
    MaxParallel,    \* the worker's own max_parallel_tasks
    Faults          \* environment: what may go wrong

\* xadd: an XADD raises; phantom: it raises although the entry was appended; pubsub: the
\* done channel fails; close: the write that closes a row fails; caller: the waiting
\* process dies; poll, claim, report: the request or its answer is lost; torn: another
\* session writes between a report's read and its write; crash, stop, revoke: what may
\* happen to a worker.
FaultKinds == {"xadd", "phantom", "pubsub", "close", "caller", "poll", "claim", "report",
               "torn", "crash", "stop", "revoke"}

ASSUME TaskAssumption   == IsFiniteSet(Tasks) /\ Commands \subseteq Tasks
ASSUME WorkerAssumption == NoWorker \notin Workers
ASSUME PinAssumption    == Pin \in [Tasks -> Workers \union {NoWorker}]
ASSUME CapAssumption    == Cap \in Nat \ {0} /\ MaxParallel \in Nat \ {0}
ASSUME FaultAssumption  == Faults \subseteq FaultKinds

VARIABLES
    row,       \* [Tasks]: the executor_tasks row
    call,      \* [Tasks]: the caller waiting for the task
    stream,    \* [Workers]: the entries of tasks:worker:{id} not yet polled
    host,      \* [Workers]: the worker process and its workers row
    exec,      \* [Tasks][Copies]: the worker's handling of one delivered copy
    took,      \* [Tasks][Copies]: how the copy got past its claim
    ran,       \* [Tasks]: the copies that were started
    post,      \* [Tasks][Copies][Reports]: a result POST on its way through the backend
    metered,   \* [Tasks]: the caller was handed the task's token usage
    booked,    \* [Tasks]: late-usage entries in the workspace ledger
    heard      \* [Tasks]: the copies that a cancel the worker read was for (history only)

vars == <<row, call, stream, host, exec, took, ran, post, metered, booked, heard>>

\* Copy 1 is the dispatch, copy 2 the one redelivery.
Copies  == {1, 2}
\* A copy posts its result; one cancelled under way posts what it had spent.
Reports == {"result", "spend"}

Terminal == {"done", "failed"}
Statuses == {"pending", "dispatched"} \union Terminal
Rows  == [status : Statuses, worker : Workers \union {NoWorker},
          claimed : BOOLEAN, usage : BOOLEAN]
CallPcs == {"find", "chosen", "publish", "unpublish", "await", "poll", "resend",
            "close", "cancel", "over"}
Whys  == {"none", "done", "failed", "timeout", "abandoned", "unclosed", "raised",
          "busy", "died"}
Calls == [pc : CallPcs, why : Whys, settled : BOOLEAN]
Messages == [task : Tasks, kind : {"execute", "cancel"}, copy : Copies]
Hosts == [up : {"up", "stopping", "down"}, active : BOOLEAN, fresh : BOOLEAN, load : Nat]
ExecPcs == {"idle", "claim", "refused", "go", "run", "sent", "spend", "last"}
Posts == [at : {"none", "sent", "open", "late"}, ok : BOOLEAN, used : BOOLEAN]
NoPost == [at |-> "none", ok |-> FALSE, used |-> FALSE]

TypeOK ==
    /\ row \in [Tasks -> Rows]
    /\ call \in [Tasks -> Calls]
    /\ stream \in [Workers -> Seq(Messages)]
    /\ host \in [Workers -> Hosts]
    /\ exec \in [Tasks -> [Copies -> ExecPcs]]
    /\ took \in [Tasks -> [Copies -> {"none", "receipt", "blind"}]]
    /\ ran \in [Tasks -> SUBSET Copies]
    /\ post \in [Tasks -> [Copies -> [Reports -> Posts]]]
    /\ metered \in [Tasks -> BOOLEAN]
    /\ booked \in [Tasks -> Nat]
    /\ heard \in [Tasks -> SUBSET Copies]

Init ==
    /\ row = [t \in Tasks |-> [status |-> "pending", worker |-> NoWorker,
                               claimed |-> FALSE, usage |-> FALSE]]
    /\ call = [t \in Tasks |-> [pc |-> "find", why |-> "none", settled |-> FALSE]]
    /\ stream = [w \in Workers |-> <<>>]
    /\ host = [w \in Workers |-> [up |-> "down", active |-> TRUE, fresh |-> FALSE, load |-> 0]]
    /\ exec = [t \in Tasks |-> [c \in Copies |-> "idle"]]
    /\ took = [t \in Tasks |-> [c \in Copies |-> "none"]]
    /\ ran = [t \in Tasks |-> {}]
    /\ post = [t \in Tasks |-> [c \in Copies |-> [k \in Reports |-> NoPost]]]
    /\ metered = [t \in Tasks |-> FALSE]
    /\ booked = [t \in Tasks |-> 0]
    /\ heard = [t \in Tasks |-> {}]

\* The executions a worker process holds (in_flight, _INFLIGHT_TASK_IDS).
InFlight(w) == {x \in Tasks \X Copies : row[x[1]].worker = w /\ exec[x[1]][x[2]] # "idle"}
Held(t)     == \E c \in Copies : exec[t][c] # "idle"

\* No report of t is between its read and its write, where the environment says so.
Undisturbed(t) ==
    "torn" \notin Faults => \A c \in Copies, k \in Reports : post[t][c][k].at \in {"none", "sent"}

Goto(t, pc)     == call' = [call EXCEPT ![t].pc = pc]
End(t, why)     == call' = [call EXCEPT ![t].pc = "over", ![t].why = why]
Xadd(t, kind, c) ==
    stream' = [stream EXCEPT ![row[t].worker] = Append(@, [task |-> t, kind |-> kind, copy |-> c])]
Step(t, c, pc)  == exec' = [exec EXCEPT ![t][c] = pc]

workVars  == <<exec, took, ran, heard>>
usageVars == <<metered, booked>>
-----------------------------------------------------------------------------
(* The caller: choosing a worker and dispatching.                           *)

Live(w) == host[w].active /\ host[w].fresh

\* find_available_worker: a fresh pin is taken even when it is full; the scan skips
\* workers whose last heartbeat reported Cap tasks.  A command's caller passes no cap.
PinUsable(t) == \E w \in Workers : w = Pin[t] /\ Live(w)
Available(t) ==
    IF PinUsable(t) THEN {Pin[t]}
    ELSE {w \in Workers : Live(w) /\ (t \in Commands \/ host[w].load < Cap)}

\* The choice is made some awaits before the row is committed with it; the worker
\* column holds the choice from here on.
FindWorker(t) ==
    /\ call[t].pc = "find"
    /\ \E w \in Available(t) : row' = [row EXCEPT ![t].worker = w]
    /\ Goto(t, "chosen")
    /\ UNCHANGED <<stream, host, workVars, post, usageVars>>

\* No live worker, or all at capacity: the call fails or yields.  A batch caller may
\* also wait and look again, which is not to take this step.
NoWorkerFree(t) ==
    /\ call[t].pc = "find"
    /\ Available(t) = {}
    /\ End(t, "busy")
    /\ UNCHANGED <<row, stream, host, workVars, post, usageVars>>

DispatchTask(t) ==
    /\ call[t].pc = "chosen"
    /\ row' = [row EXCEPT ![t].status = "dispatched"]
    /\ Goto(t, "publish")
    /\ UNCHANGED <<stream, host, workVars, post, usageVars>>

Publish(t) ==
    /\ call[t].pc = "publish"
    /\ Xadd(t, "execute", 1)
    /\ Goto(t, "await")
    /\ UNCHANGED <<row, host, workVars, post, usageVars>>

\* The XADD raised: Redis may have appended the entry all the same.
PublishFails(t) ==
    /\ call[t].pc = "publish"
    /\ "xadd" \in Faults
    /\ stream' = stream \/ ("phantom" \in Faults /\ Xadd(t, "execute", 1))
    /\ Goto(t, "unpublish")
    /\ UNCHANGED <<row, host, workVars, post, usageVars>>

\* The failure is written by the session that holds the row: no condition on its status.
Unpublish(t) ==
    /\ call[t].pc = "unpublish"
    /\ Undisturbed(t)
    /\ row' = [row EXCEPT ![t].status = "failed"]
    /\ End(t, "raised")
    /\ UNCHANGED <<stream, host, workVars, post, usageVars>>
-----------------------------------------------------------------------------
(* The caller: await_completion and what follows it.                        *)

\* A read that finds the row terminal ends the wait with that row.
Return(t) ==
    /\ call[t].pc \in {"await", "poll"}
    /\ row[t].status \in Terminal
    /\ End(t, row[t].status)
    /\ metered' = [metered EXCEPT ![t] = row[t].usage]
    /\ UNCHANGED <<row, stream, host, workVars, post, booked>>

\* Pub/sub failed: only the row is polled from here, without redelivery or abandoning.
Degrade(t) ==
    /\ "pubsub" \in Faults
    /\ call[t].pc = "await"
    /\ Goto(t, "poll")
    /\ UNCHANGED <<row, stream, host, workVars, post, usageVars>>

\* _maybe_redeliver, asked once: re-send a task nobody is known to have received.
Redeliver(t) ==
    /\ call[t].pc = "await"
    /\ ~call[t].settled
    /\ row[t].status \notin Terminal
    /\ call' = [call EXCEPT ![t].settled = TRUE,
                            ![t].pc = IF row[t].status = "dispatched" /\ ~row[t].claimed
                                      THEN "resend" ELSE "await"]
    /\ UNCHANGED <<row, stream, host, workVars, post, usageVars>>

Resend(t) ==
    /\ call[t].pc = "resend"
    /\ Xadd(t, "execute", 2) \/ ("xadd" \in Faults /\ stream' = stream)
    /\ Goto(t, "await")
    /\ UNCHANGED <<row, host, workVars, post, usageVars>>

\* The run was cancelled (abandon_if); commands are dispatched without the probe.
Abandon(t) ==
    /\ call[t].pc = "await"
    /\ t \notin Commands
    /\ row[t].status \notin Terminal
    /\ call' = [call EXCEPT ![t].pc = "close", ![t].why = "abandoned"]
    /\ UNCHANGED <<row, stream, host, workVars, post, usageVars>>

\* Mutant: a claimed task is waited for without end.
TimeoutUnclaimed(t) ==
    /\ call[t].pc \in {"await", "poll"}
    /\ row[t].status = "dispatched" /\ ~row[t].claimed
    /\ call' = [call EXCEPT ![t].pc = "close", ![t].why = "timeout"]
    /\ UNCHANGED <<row, stream, host, workVars, post, usageVars>>

\* The last reads before giving up still find the row dispatched.
Timeout(t) ==
    /\ call[t].pc \in {"await", "poll"}
    /\ row[t].status = "dispatched"
    /\ call' = [call EXCEPT ![t].pc = "close", ![t].why = "timeout"]
    /\ UNCHANGED <<row, stream, host, workVars, post, usageVars>>

\* Mutants: a row somebody has claimed is left to them; the row is closed whatever it says.
CloseUnclaimed(t) ==
    /\ call[t].pc = "close" /\ Undisturbed(t)
    /\ row' = [row EXCEPT ![t].status = IF @ = "dispatched" /\ ~row[t].claimed
                                        THEN "failed" ELSE @]
    /\ Goto(t, "cancel")
    /\ UNCHANGED <<stream, host, workVars, post, usageVars>>
CloseBlind(t) ==
    /\ call[t].pc = "close" /\ Undisturbed(t)
    /\ row' = [row EXCEPT ![t].status = "failed"]
    /\ Goto(t, "cancel")
    /\ UNCHANGED <<stream, host, workVars, post, usageVars>>

\* _flip_dispatched_to_failed: conditional, so a result that landed meanwhile stays.
Close(t) ==
    /\ call[t].pc = "close"
    /\ Undisturbed(t)
    /\ row' = [row EXCEPT ![t].status = IF @ = "dispatched" THEN "failed" ELSE @]
    /\ Goto(t, "cancel")
    /\ UNCHANGED <<stream, host, workVars, post, usageVars>>

CloseFails(t) ==
    /\ "close" \in Faults
    /\ call[t].pc = "close"
    /\ call' = [call EXCEPT ![t].pc = "cancel", ![t].why = "unclosed"]
    /\ UNCHANGED <<row, stream, host, workVars, post, usageVars>>

\* cancel_task is best effort, then the caller raises.
SendCancel(t) ==
    /\ call[t].pc = "cancel"
    /\ Xadd(t, "cancel", 1) \/ ("xadd" \in Faults /\ stream' = stream)
    /\ End(t, call[t].why)
    /\ UNCHANGED <<row, host, workVars, post, usageVars>>

\* The waiting process crashes, or its drive is cancelled by a shutdown.
CallerDies(t) ==
    /\ "caller" \in Faults
    /\ call[t].pc # "over"
    /\ End(t, "died")
    /\ UNCHANGED <<row, stream, host, workVars, post, usageVars>>
-----------------------------------------------------------------------------
(* The worker: heartbeat and poll (run_once).                               *)

\* Mutant: reports the slots it has left, one too few.
HeartbeatFree(w) ==
    /\ host[w].up = "up" /\ host[w].active
    /\ host' = [host EXCEPT ![w].fresh = TRUE,
                            ![w].load = MaxParallel - Cardinality(InFlight(w)) - 1]
    /\ UNCHANGED <<row, call, stream, workVars, post, usageVars>>

Heartbeat(w) ==
    /\ host[w].up = "up" /\ host[w].active
    /\ host' = [host EXCEPT ![w].fresh = TRUE, ![w].load = Cardinality(InFlight(w))]
    /\ UNCHANGED <<row, call, stream, workVars, post, usageVars>>

\* HEARTBEAT_FRESHNESS_S went by without one; the reported load is not read until the
\* next.
GoesStale(w) ==
    /\ host[w].fresh
    /\ host' = [host EXCEPT ![w].fresh = FALSE, ![w].load = 0]
    /\ UNCHANGED <<row, call, stream, workVars, post, usageVars>>

\* A worker at its own limit does not poll, cancels included.
CanPoll(w) == host[w].up = "up" /\ Cardinality(InFlight(w)) < MaxParallel

\* Mutant: every execute message is started.
ReadExecuteTwice(m) ==
    /\ m.kind = "execute"
    /\ exec' = [exec EXCEPT ![m.task][m.copy] = "claim"]
    /\ UNCHANGED heard

\* A message for a task already held here is a duplicate and dropped.
ReadExecute(m) ==
    /\ m.kind = "execute"
    /\ exec' = IF Held(m.task) THEN exec ELSE [exec EXCEPT ![m.task][m.copy] = "claim"]
    /\ UNCHANGED heard

\* Mutant: only a copy whose claim was confirmed is registered.
RegisteredClaimed(t, c) ==
    /\ t \notin Commands /\ took[t][c] = "receipt"
    /\ exec[t][c] \in {"run", "sent", "spend", "last"}

\* _RUNNING_TASKS: filled by handle_task once it runs, never for a command.
Registered(t, c) == t \notin Commands /\ exec[t][c] \in {"run", "sent", "spend", "last"}

\* CancelledError in handle_task: a session that has spent anything reports it; one
\* that is reporting its spend already is cut short.
Cancelled(t, c) ==
    CASE exec[t][c] \in {"run", "sent"} /\ t \notin Commands -> {"spend", "idle"}
      [] OTHER -> {"idle"}

\* Out of a cancel's reach: on its way to _RUNNING_TASKS, or a command, which never gets there.
Unreached(t, c) == \/ exec[t][c] \in {"claim", "refused", "go"}
                   \/ t \in Commands /\ exec[t][c] # "idle"

ReadCancel(m) ==
    /\ m.kind = "cancel"
    /\ heard' = [heard EXCEPT ![m.task] = {c \in Copies : ~Unreached(m.task, c)}]
    /\ \/ \E c \in Copies : /\ Registered(m.task, c)
                            /\ \E pc \in Cancelled(m.task, c) : Step(m.task, c, pc)
       \/ /\ \A c \in Copies : ~Registered(m.task, c)
          /\ UNCHANGED exec

Poll(w) ==
    /\ CanPoll(w) /\ host[w].active
    /\ stream[w] # <<>>
    /\ stream' = [stream EXCEPT ![w] = Tail(@)]
    /\ ReadExecute(Head(stream[w])) \/ ReadCancel(Head(stream[w]))
    /\ UNCHANGED <<row, call, host, took, ran, post, usageVars>>

\* The entry is acknowledged before the answer is sent, and the answer is lost.
PollLost(w) ==
    /\ "poll" \in Faults
    /\ CanPoll(w) /\ host[w].active
    /\ stream[w] # <<>>
    /\ stream' = [stream EXCEPT ![w] = Tail(@)]
    /\ UNCHANGED <<row, call, host, workVars, post, usageVars>>
-----------------------------------------------------------------------------
(* The worker: one delivered copy (_claim_then_run, handle_task).           *)

Alive(t) == row[t].worker \in Workers /\ host[row[t].worker].up = "up"

\* Mutant: the UPDATE without "claimed_at IS NULL".
ClaimAgain(t, c) ==
    /\ exec[t][c] = "claim" /\ Alive(t)
    /\ LET wins == host[row[t].worker].active /\ row[t].status = "dispatched"
       IN  /\ row' = [row EXCEPT ![t].claimed = @ \/ wins]
           /\ took' = [took EXCEPT ![t][c] = IF wins THEN "receipt" ELSE @]
           /\ Step(t, c, IF wins THEN "go" ELSE "refused")
    /\ UNCHANGED <<call, stream, host, ran, post, usageVars, heard>>

\* The claim reaches the backend.  A revoked worker's is answered 401, which is an
\* error and not a refusal.
Claim(t, c) ==
    /\ exec[t][c] = "claim" /\ Alive(t)
    /\ LET served == host[row[t].worker].active
           wins  == served /\ row[t].status = "dispatched" /\ ~row[t].claimed
       IN  /\ row' = [row EXCEPT ![t].claimed = @ \/ wins]
           /\ took' = [took EXCEPT ![t][c] = IF wins THEN "receipt"
                                             ELSE IF served THEN @ ELSE "blind"]
           /\ Step(t, c, IF served /\ ~wins THEN "refused" ELSE "go")
    /\ UNCHANGED <<call, stream, host, ran, post, usageVars, heard>>

\* The request, or the answer of a refusal, is lost: the copy runs all the same.
ClaimUnheard(t, c) ==
    /\ "claim" \in Faults
    /\ exec[t][c] \in {"claim", "refused"} /\ Alive(t)
    /\ took' = [took EXCEPT ![t][c] = "blind"]
    /\ Step(t, c, "go")
    /\ UNCHANGED <<row, call, stream, host, ran, post, usageVars, heard>>

Refused(t, c) ==
    /\ exec[t][c] = "refused" /\ Alive(t)
    /\ Step(t, c, "idle")
    /\ UNCHANGED <<row, call, stream, host, took, ran, post, usageVars, heard>>

Run(t, c) ==
    /\ exec[t][c] = "go" /\ Alive(t)
    /\ Step(t, c, "run")
    /\ ran' = [ran EXCEPT ![t] = @ \union {c}]
    /\ UNCHANGED <<row, call, stream, host, took, post, usageVars, heard>>

\* The turn ends, fails, or runs into the caller's deadline: the result is posted.
\* A command has no token usage.
Finish(t, c) ==
    /\ exec[t][c] = "run" /\ Alive(t)
    /\ Step(t, c, "sent")
    /\ \E ok \in BOOLEAN, used \in BOOLEAN :
          /\ t \in Commands => ~used
          /\ post' = [post EXCEPT ![t][c]["result"] = [at |-> "sent", ok |-> ok, used |-> used]]
    /\ UNCHANGED <<row, call, stream, host, took, ran, usageVars, heard>>

\* _report_cancelled_spend
Spend(t, c) ==
    /\ exec[t][c] = "spend"
    /\ Step(t, c, "last")
    /\ post' = [post EXCEPT ![t][c]["spend"] = [at |-> "sent", ok |-> FALSE, used |-> TRUE]]
    /\ UNCHANGED <<row, call, stream, host, took, ran, usageVars, heard>>

\* Mutant: the POST is repeated until the backend has taken the result.
DoneAccepted(t, c) ==
    /\ exec[t][c] \in {"sent", "last"}
    /\ row[t].status = "done"
    /\ Step(t, c, "idle")
    /\ UNCHANGED <<row, call, stream, host, took, ran, post, usageVars, heard>>

\* The POST was answered, failed, or ran into the client's timeout.
Done(t, c) ==
    /\ exec[t][c] \in {"sent", "last"}
    /\ Step(t, c, "idle")
    /\ UNCHANGED <<row, call, stream, host, took, ran, post, usageVars, heard>>
-----------------------------------------------------------------------------
(* The worker process.                                                      *)

Boot(w) ==
    /\ host[w].up = "down" /\ host[w].active
    /\ host' = [host EXCEPT ![w].up = "up"]
    /\ UNCHANGED <<row, call, stream, workVars, post, usageVars>>

\* SIGTERM, or a 401 from the poll of a revoked worker: every task is cancelled.
Stop(w) ==
    /\ host[w].up = "up"
    /\ "stop" \in Faults \/ (~host[w].active /\ CanPoll(w))
    /\ host' = [host EXCEPT ![w].up = "stopping"]
    /\ \E S \in SUBSET InFlight(w) :
          /\ \A x \in S : "spend" \in Cancelled(x[1], x[2])
          /\ exec' = [t \in Tasks |-> [c \in Copies |->
                         IF <<t, c>> \notin InFlight(w) THEN exec[t][c]
                         ELSE IF <<t, c>> \in S THEN "spend" ELSE "idle"]]
    /\ UNCHANGED <<row, call, stream, took, ran, post, usageVars, heard>>

\* The process ends: after a stop when its tasks are through, or at any time.
Exit(w) ==
    /\ host[w].up = "stopping" \/ (host[w].up = "up" /\ "crash" \in Faults)
    /\ host' = [host EXCEPT ![w].up = "down"]
    /\ exec' = [t \in Tasks |-> [c \in Copies |->
                  IF <<t, c>> \in InFlight(w) THEN "idle" ELSE exec[t][c]]]
    /\ UNCHANGED <<row, call, stream, took, ran, post, usageVars, heard>>

\* revoke_worker also deletes the worker's stream.
Revoke(w) ==
    /\ "revoke" \in Faults
    /\ host[w].active
    /\ host' = [host EXCEPT ![w].active = FALSE]
    /\ stream' = [stream EXCEPT ![w] = <<>>]
    /\ UNCHANGED <<row, call, workVars, post, usageVars>>
-----------------------------------------------------------------------------
(* The backend: POST /workers/result (record_result).                       *)

\* Mutant: late usage is taken whatever the row holds.
ReportReadAny(t, c, k) ==
    /\ post[t][c][k].at = "sent" /\ Undisturbed(t)
    /\ LET open == row[t].status = "dispatched"
       IN  post' = [post EXCEPT ![t][c][k] =
                       IF host[row[t].worker].active /\ row[t].status # "done"
                       THEN [@ EXCEPT !.at = IF open THEN "open" ELSE "late"] ELSE NoPost]
    /\ UNCHANGED <<row, call, stream, host, workVars, usageVars>>

\* The handler reads the row and decides; a revoked worker is answered 401.
ReportRead(t, c, k) ==
    /\ post[t][c][k].at = "sent"
    /\ Undisturbed(t)
    /\ LET served == host[row[t].worker].active
           open   == row[t].status = "dispatched"
           late   == row[t].status = "failed" /\ ~row[t].usage
       IN  post' = [post EXCEPT ![t][c][k] =
                       IF served /\ (open \/ late)
                       THEN [@ EXCEPT !.at = IF open THEN "open" ELSE "late"] ELSE NoPost]
    /\ UNCHANGED <<row, call, stream, host, workVars, usageVars>>

\* It writes what it decided, by primary key.  A late report of no usage books an
\* entry of zero, which counts for nothing here.
ReportWrite(t, c, k) ==
    /\ post[t][c][k].at \in {"open", "late"}
    /\ LET p == post[t][c][k] IN
          IF p.at = "open"
          THEN /\ row' = [row EXCEPT ![t].status = IF p.ok THEN "done" ELSE "failed",
                                     ![t].usage = p.used]
               /\ UNCHANGED booked
          ELSE /\ row' = [row EXCEPT ![t].usage = p.used]
               /\ booked' = [booked EXCEPT ![t] = @ + (IF p.used THEN 1 ELSE 0)]
    /\ post' = [post EXCEPT ![t][c][k] = NoPost]
    /\ UNCHANGED <<call, stream, host, workVars, metered>>

\* The request is lost on its way, or its transaction fails.
ReportLost(t, c, k) ==
    /\ "report" \in Faults
    /\ post[t][c][k].at # "none"
    /\ post' = [post EXCEPT ![t][c][k] = NoPost]
    /\ UNCHANGED <<row, call, stream, host, workVars, usageVars>>
-----------------------------------------------------------------------------
Waits(t) == Return(t) \/ Degrade(t) \/ Redeliver(t) \/ Resend(t) \/ Timeout(t)
              \/ Close(t) \/ CloseFails(t) \/ SendCancel(t)
Dispatches(t) == FindWorker(t) \/ NoWorkerFree(t) \/ DispatchTask(t) \/ Publish(t)
                   \/ PublishFails(t) \/ Unpublish(t)
Works(t, c) == Claim(t, c) \/ ClaimUnheard(t, c) \/ Refused(t, c) \/ Run(t, c)
                 \/ Finish(t, c) \/ Spend(t, c) \/ Done(t, c)
Hosting(w)  == Heartbeat(w) \/ GoesStale(w) \/ Poll(w) \/ PollLost(w)
                 \/ Boot(w) \/ Stop(w) \/ Exit(w) \/ Revoke(w)
Records(t, c, k) == ReportRead(t, c, k) \/ ReportWrite(t, c, k) \/ ReportLost(t, c, k)

Next ==
    \/ \E t \in Tasks : Dispatches(t) \/ Waits(t) \/ Abandon(t) \/ CallerDies(t)
    \/ \E w \in Workers : Hosting(w)
    \/ \E t \in Tasks, c \in Copies : Works(t, c)
    \/ \E t \in Tasks, c \in Copies, k \in Reports : Records(t, c, k)

Spec == Init /\ [][Next]_vars

\* Event loops schedule the caller and the worker's tasks, whose waits all have
\* timeouts; the backend answers or drops what was posted to it; Stop is followed by Exit.
FairSpec ==
    /\ Spec
    /\ \A t \in Tasks : WF_vars(Dispatches(t)) /\ WF_vars(Waits(t))
    /\ \A t \in Tasks, c \in Copies : WF_vars(Works(t, c))
    /\ \A t \in Tasks, c \in Copies, k \in Reports : WF_vars(Records(t, c, k))
    /\ \A w \in Workers : WF_vars(host[w].up = "stopping" /\ Exit(w))
-----------------------------------------------------------------------------
(* Properties.                                                              *)

\* A task is started a second time only if one of the two starts had no receipt: its
\* claim, or the answer to it, was lost (claim_task's conditional UPDATE with the
\* one redelivery of _maybe_redeliver).
ExecutedOnce ==
    \A t \in Tasks : \A c, d \in ran[t] : c # d => "blind" \in {took[t][c], took[t][d]}

\* Two copies of one task are never in a worker's hands together, receipts or not
\* (run_once's _INFLIGHT_TASK_IDS).
OneAtATime ==
    \A t \in Tasks : \A c, d \in Copies :
       exec[t][c] # "idle" /\ exec[t][d] # "idle" => c = d

\* A caller that is through with a task leaves no row that reads as work under way,
\* unless it died or its own closing write failed (_close_dispatched_row).
LeftClosed ==
    \A t \in Tasks :
       call[t].pc \in {"cancel", "over"} /\ call[t].why \notin {"died", "unclosed", "busy"}
          => row[t].status \in Terminal

\* Late usage is booked in the workspace ledger at most once for a task, however many
\* reports come (record_result takes it only on a row that holds none; holds without
\* torn reports).
BookedOnce == \A t \in Tasks : booked[t] <= 1

\* Once a worker has read a task's cancel it starts no copy of the task and goes on with
\* none but to report what was spent, however dispatch, redelivery and cancel were lost or
\* raced (cancel_task, the poll loop of run_once).  The one copy a cancel may miss is the
\* copy it found on its way to _RUNNING_TASKS, and a command under way.
CancelObeyed ==
    \A t \in Tasks : \A c \in heard[t] : exec[t][c] \in {"idle", "spend", "last"}

\* A task settles once and its caller hears the truth: TaskOutcome, with what the
\* caller was told read off the end of its call (holds without torn reports and
\* phantom entries).
Told == [t \in Tasks |-> IF call[t].pc # "over" THEN "nothing"
                         ELSE IF call[t].why \in Terminal THEN call[t].why ELSE "gave up"]
Outcome == INSTANCE TaskOutcome WITH result <- [t \in Tasks |-> row[t].status], told <- Told
KeepsOutcome == Outcome!OutcomeSpec
=============================================================================
