# A formal model of BSVibe's run core

BSVibe takes work from several doors, turns each piece into an *execution run*, lets a
coding agent drive it in rounds, verifies the result itself, and puts what it cannot
decide in front of the founder. Everything meets in one database row per run
(`execution_runs`): the agent worker claims and drives it, the founder cancels, retries,
discards and answers, deliveries ship it, the merge watch sends it back. Each of these
is a session of its own that reads the row, works for up to an hour, and then writes. The
`RunLifecycle` modules are about those writers meeting on the same row. A round's turn is
a task for a worker process on somebody's machine, which the backend reaches only through
a Redis stream it polls and a few HTTP calls it makes; the `TaskDispatch` modules are about
one such task from dispatch to result. Before a run there is an event somebody sent
(`Intake`), after it there is what it made, which leaves through a gate the founder holds
(`Delivery`) and, as a pull request, is watched until it is merged (`MergeWatch`). A run may go
on at another machine than it began on, so its worktree is saved and restored
(`RunCheckpoint`).

## 1. Inventory

| Part | State it keeps | Operations | Interacts with | What makes it correct |
|---|---|---|---|---|
| run status table (`application/run_status.py`) | `execution_runs.status` | `move_run_status`: a compare-and-set | every writer below | no move the table forbids, no lost cancel |
| agent worker (`infrastructure/workers/agent_worker.py`) | claim columns, failure count, drive tasks in memory | tick: sweep orphans, reap stale claims, claim, drive; clear, give back, escalate; stop | runner, drive loop, other worker processes | one drive per run, no run left behind, crash loops end |
| agent runner (`application/agent_runner.py`) | run and history rows | `open_run`, `drive`, `transition`, auto-ship, next step | table, drive loop, product lock | a drive's outcome reaches the run it was for |
| drive loop (`application/_drive_loop.py` and helpers) | the copy of the run, round counter, budgets | rounds, heartbeat, questions, ceilings, verification | executor dispatch, MCP work tools | ends; stops when cancelled; pauses on what it asked |
| founder controls (`application/run_cleanup.py`) | status, Decisions, Safe Mode items, directories | cancel, discard, retry | table | what the founder is told happened |
| checkpoint resolution (`application/checkpoint_resolution.py`) | Decisions | answer, retry, ship, discard | table, product merge | an answer resumes its run once |
| inbox, CI failures (`application/run_inbox.py`, `intake/ci_failure.py`) | `run.payload` | post, re-open | table | a message is heard once |
| delivery resolution (`application/run_delivery_resolution.py`) | status, Decisions | resolve a moot review, ship | delivery worker | ships what landed, only that |
| delivery worker, Safe Mode (`workers/delivery_worker.py`, `application/safe_mode_*.py`) | delivery events, queue items, a failure count in memory | dispatch, queue, approve, deny, expire, ship sweep | connectors, delivery resolution | nothing goes out unapproved or more often than asked for; every event leaves |
| merge watch (`workers/merge_watch_worker.py`, `runtime/merge_watch_*.py`) | watch rows | poll, freshen, merge, redispatch, escalate, conclude | GitHub, table | bounded retries, a founder who knows, a cancel that lasts |
| executor dispatch (`backend/executors`, `backend/dispatch/adapter.py`) | executor tasks, worker capacity | create, claim, run, result, time out, cancel | host workers over HTTP, Redis wake-ups | a task's result is used once; capacity is given back |
| front doors, intake worker (`application/intake/`, `workers/intake_worker.py`, `application/intake_gate.py`) | trigger events, Requests | receive, filter, hold, refuse, route, release | agent worker, run cap, token budget | one fate for each event, within the cap, none forgotten |
| run checkpoints (`application/run_checkpoint.py`, worktrees in `storage/product_workspace.py`, sweeps in `application/run_cleanup.py`) | worktrees on each machine's disk, a bundle per run, `run.payload["checkpoint"]` | save, keep, discard, restore, refuse, sweep | agent worker's claims and releases, founder controls | a run goes on from its latest work, or says that it cannot |
| schedules (`backend/schedule`) | schedules | fire, enable, disable, delete | intake | every window fires once |
| notify, relay, settle, daily brief | outbox rows | claim, process, mark | connectors, vault | at least once, idempotent |
| knowledge, product repos, sandboxes, identity, API, MCP, router, connectors, web app | files, containers, credentials, text | I/O and presentation | all | outside this model |

What is hard here: sessions hold a copy of a row across awaits of minutes (an executor
turn, a verification, a git push); processes are killed by deploys at any of them; the
lease, the orphan sweep and the shutdown path all take claims back; four kinds of
callers re-open runs; and the only guard on a write is the status the writer last saw.
`PROJECT.json` lists each hazard at its line with the property that would catch it.

## 2. Modules

**RunStatus** is the abstract specification: the transition table and nothing else. A
status may move as `_EXITS_FROM_CLOSED` allows, whoever moves it. `TableStep` lets several
runs move at once because a bulk release does.

**RunLifecycle** is the detailed specification. Its variables are the row (`status`,
`claim`, `pending`: the kinds of the run's pending Decisions, `failures`, `output`: a
Deliverable that is not retracted), the processes (`proc`, `swept`), the drive tasks
(`drive`), the sessions of everyone else (`sess`), and a counter that bounds re-opens.

* *Reading and writing are two steps.* A drive's `held` and a session's `held` are the
  SQLAlchemy identity-map copy; `Lands`, `moved` and `heldAfter` are `move_run_status`: the
  table is asked about the copy, the UPDATE is conditional on the row, and a lost race
  refreshes the copy. Where the code reads the row anew before it decides (the loop's
  cancel checks, the merge watch's callbacks) the action reads `status` itself.
* *Claims.* `Claim` is `_claim_runs_for_drive` with `_start_drives`; `ReleaseOrphans`,
  `ReapStale` and `StopReleases` are the three callers of `_reset_claims_to_open`. A claim's
  age is `null`, `fresh` or `stale`; `LeaseExpires` is time passing.
* *A drive* goes `claimed`, `framing`, `boundary`, `turn`, `verify`, `finish`, then out by
  one of three clean-ups, each a read followed by a write with the worktree being saved
  between them: `exit`/`clear` (`_clear_claim`), `raised`/`escalate`/`park`
  (`_on_drive_failed`, `_escalate_drive_failure`), `release`/`giveback`
  (`_release_claim_to_open`). `saw` records which columns were set when the row was read: an
  ORM attribute assigned the value it already has writes nothing.
* *Crash and stop.* `Crash` loses the tasks and keeps the row. `Stop` cancels the tasks: a
  task that has started takes its release path, one that has not does nothing.
* *Sessions.* `SessLoad` is the read with the operation's own admission check (`Admits`), the
  thirteen commit actions are what each operation writes.
* *Decisions* are sets of kinds: two pending Decisions of one kind are not told apart.

Each component's MC module gives TLC its small instances and, but for RunLifecycle, states
the liveness properties, which only runs check; the safety properties are in the
component's own module. Each component's theorems are in the module with its name and `Proofs`. Two
arguments are long enough for a module of their own: **RunOrderlyProofs** extends
RunLifecycleProofs with what holds in an orderly environment, and **DeliveryCountProofs**
extends DeliveryProofs with a count.

Three constants switch assumptions about the environment on and off. `ShortSessions`: nothing
changes a run between another session's read and commit. `ReopenWaits`: nobody re-opens a run
while a drive of it is alive. `LeaseHolds`: a live drive heartbeats within its lease. The code
guarantees none of them. The theorems of RunLifecycleProofs assume none, those of
RunOrderlyProofs all three. They separate what always holds from what holds in an orderly
environment; "Known gaps" says what happens in the others.

**TaskOutcome** is what a task promises its caller: it settles at most once, and what the
caller is told is how it settled, or nothing (it gave up).

**TaskDispatch** is one task in detail, from the caller's side (`dispatch_task`,
`await_completion`, `cancel_task` and what `ExecutorAdapter` and `ClientWorkerSandboxSession.exec` do
around them), through the stream and the worker's `run_once`, `_claim` and `handle_task`, to
`record_result`.

* `row` is the `executor_tasks` row. `usage` stands for the six usage columns: does the row
  hold any. `call` is the caller: `pc` where it stands, `why` what its call ended in.
* The caller reads and writes in separate steps: `FindWorker` and `DispatchTask` (the choice
  is some awaits older than the commit), `Publish`, `Redeliver` and `Resend` (the row is read
  as unclaimed, then the entry is appended), `Timeout` or `Abandon` and `Close` (the last read,
  then the conditional UPDATE), `SendCancel`.
* A task has two *copies*, the dispatch and the one redelivery. `exec[t][c]` is what the worker
  does with a copy: `claim`, `refused`, `go` (claimed, not yet in `_RUNNING_TASKS`), `run`, `sent`
  (the result's POST is out), `spend`/`last` (cancelled, reporting what it spent). A copy that
  is not `idle` is in `_INFLIGHT_TASK_IDS`.
* `post[t][c][k]` is a POST in the backend: `sent`, then `open` or `late` once `record_result` has
  read the row and decided, then written. The POST lives on when the worker stops waiting.
* `took`, `ran`, `metered`, `booked` and `heard` record what happened: how a copy got past its
  claim, that it was started, that the caller was handed usage, how many late entries the
  ledger has, which copies a cancel the worker read was for. No action reads them.
  `heard` gets every copy but the `Unreached`: the one the cancel finds between the
  poll that handed it out and `_RUNNING_TASKS`, where the poll loop looks it up, and a command
  under way, which is never put there. A copy that has ended or has still to come is in it.
* `Faults` is the set of things that may go wrong; its comment lists them. `torn` is the one that is
  not a failure: another session writes between a report's read and write. Without it
  `Undisturbed` holds such writes back.
* A worker that is revoked, and every call being over, leave nothing to do, so these runs
  do not check for deadlock; `task_ends` checks progress instead.

Left out: the retries of `chat()` (each is a new task), the stream's length cap (1000 entries
against a handful), the refusal of a report from the wrong worker (a copy is only ever
handled by the row's worker), and the protocol-version check of `_is_unreceived`, true of
the worker in the repository. A poll that returns several entries is several polls.

**Delivery** is how the deliverables of runs leave. One variable per table or column that
delivery reads: the event table (`event`), the Safe Mode cards (`item`), `delivered_at`, the
pending `delivery_failed` Decisions (`asking`), and of the run its status, whether a review
is pending and whether its PR is watched. The drive is reduced to `Pick`, `EmitPartial`,
`Finish` and `PauseForReview`.

* `actor` is a process in the middle of something: a worker's drain (the rows it holds locked
  in `batch`, what it dispatched, queued and dropped, to be committed together by `Commit`)
  or a founder's request. `Hold`, `Lands`, `Refused` and `Raises` are what becomes of one event;
  `Mark`, `Resolve` and `BooksFail` are the book-keeping after a send, in sessions of its own.
* `Crash` undoes a worker's transaction: what it sent in this batch is sent again. `tries` is
  the in-memory failure count, which dies with the process.
* A session reads cards (`ReadCards`) and works on its identity-map copies: nothing is
  compared on commit. `CheckLeft` is the look at what else the run has waiting, before the
  commit of `Deny`.
* `owed`, `gone` and `consented` are history: what was asked for, what left, what the founder
  agreed to.

**MergeWatch** is one pull request, its watch row, its run, and any number of polls. A poll
claims the row and works from the snapshot (`Claim`, `GetPr`), decides (`Decide` with `Gate`,
`RedChecks`, `Recover` and `Pending`), merges or freshens, calls back (`Act`, a transaction of its
own), writes the row by id (`Write`, from the snapshot) and tells the run (`Report`).
GitHub is three actions of its own (`CiFinishes`, `BaseMoves`, `ByHand`); the founder may
comment, send back, answer, cancel, or remove the GitHub target at any point.
`next_poll_at` is left out: a reservation may run out under a slow poll, so polls overlap
freely. The repository lock and the other PRs appear as `Fail`, `NotNow` and `BaseMoves`.

**Intake** is one workspace's front door: webhooks, founder messages and the windows of one
schedule become `row`s; the intake worker turns them into Requests (`req`), which the agent
worker turns into runs. The worker's tick is a transaction of many statements: `tx` holds
what it has read and written so far (`StartTick`, `Release`, `Claim`, then `Take` and `Gate` per
row, `Commit`, or `Fail`, which undoes it all), while `Doors` and `World` commit around it. `at`
is the order of `received_at`; for a window that is the window's own time, not the time it
fired. The claim is one statement and one step. `Cap` large stands for no cap.

**RunCheckpoint** is the worktree of one run on every machine. A tree, and the bundle in the
store, is the set of edits it holds (`tree`, `bundle`): enough to tell an older tree from a
newer one. The run is reduced to `status`, `asked` and `home`, since RunLifecycle has its
claims in full.

* A drive claims, finds or makes its worktree (`Keep`, `StartFresh`, `DiscardOlder` then `Restore`, or
  `RestoreFails`, `RestoreHalf`, `Refuse`), works, and ends by one of three ways out, each of which
  looks at the run (`Look`), saves the tree (`Upload`) and commits the record with the end of the
  claim (`Commit`). A crash fits between any two.
* `composed` is which provisioner the drives use: the composed one of
  `_build_composite_workspace_provisioner`, or the product's alone.
* `left` and `behind` are history: the tree the last drive left, and that one of the three ways
  to a lesser tree was taken (Known gaps). So are `takenTrees` and `takenBundle`: what a discard
  or a sweep removed (`TakeTree`, `TakeBundle`) and nothing has put back (`PutTree`,
  `PutBundle`). No action reads any of them.
* `Orderly` puts RunLifecycle's environment on it: leases hold, answers wait for the drive to
  have gone, and a retry waits for the drive and for a sweep that has already found the run
  over. It does not ask whether there is anything left to go on from, as `retry_run` does not: a
  retry after a discard, or between the two sweeps, is in the run and in the theorems.

**TaskDispatchMC**, **DeliveryMC**, **MergeWatchMC**, **IntakeMC** and **RunCheckpointMC** hold
the instances and the properties only runs check; **TaskDispatchProofs**, **DeliveryProofs**,
**MergeWatchProofs**, **IntakeProofs** and **RunCheckpointProofs** the theorems. Each module
models the run as its part of the system sees it; the full set of writers of a run's row is
RunLifecycle's, which has the callbacks of the merge watch, the deliveries and the Safe Mode
denials as actions.

## 3. Runs

| Run | Environment | Shows |
|---|---|---|
| `orderly` | two machines, orderly | `TypeOK`, `KeepsTable` (the refinement of RunStatus), `CancelSticks`, `SingleDrive`, `NoStranded`, `FailureBound` |
| `recovery` | two machines, orderly, fair | `Recovered`, `DrivesEnd`, `CrashLoopEnds` |
| `task_orderly` | a turn; every fault but torn and phantom | `TypeOK`, `BookedOnce`, `KeepsOutcome` (the refinement of TaskOutcome) |
| `task_ends` | a turn; every fault but stop and revoke; fair | `ExecutedOnce`, `OneAtATime`, `LeftClosed`, `CancelObeyed`, `CallsEnd`, `SlotsFree` |
| `delivery` | two workers, a session, a crash, a resend | `TypeOK`, `HeldBack`, `AskedFor` |
| `delivery_ends` | one worker, a partial and a final deliverable; fair | `EventsDrain`, `DeliveredShips` |
| `merge_watch` | two overlapping polls, a fault, a message | `TypeOK`, `FounderKnows`, `LandedIsMerged` |
| `merge_watch_ends` | one poller, two heads, both budgets; fair | `WatchEnds`, `RunHears`, `CancelLasts` |
| `intake` | two webhooks, a message, a window, a failed tick, a run sent back | `TypeOK`, `OneFate`, `WithinCap`, `FateStays` |
| `intake_ends` | a webhook and two windows, one row a tick; fair | `EventsSettle`, `WindowsFire` |
| `checkpoint` | two machines, two edits, two faults, orderly | `ContinuesUnlessBehind`, `Resumable` |
| `checkpoint_back` | the same without faults | `ContinuesWork` is violated: A→B→A |

Eleven runs pass. `checkpoint_back` is expected to fail: it shows the code doing what its own
docstring excludes (first entry under Known gaps, Run worktrees). `KeepsTable`, `CancelSticks`
and the type invariant of RunLifecycle hold in any environment, which the theorems say;
the run checks them where the other properties hold too.

*Bounds.* One run: the writers of different runs share nothing in the row, and the bulk releases
treat runs alike (the theorems cover any number). Two processes, on two machines, so that both
are alive at once and the second takes over what the first gave up by its stop or lost by its
crash. A process that starts finds no claim of its own machine's then, so its sweep has nothing
to take back in the runs; that it takes nothing from a living drive is in the theorems of
RunOrderlyProofs, which hold for any number of processes on a machine (`OneUp`, `ProcKeeps`).
The instance with a third process that succeeds one of the two passes as well (2.9 million
states), but takes too long to be a run. One slot and one session. `MaxRounds` 1 or 2, so that
the ceiling is met; `MaxFailures` 2, so that a failure below and one at the bound both happen;
`MaxReopens` 1: each re-open lets a whole new drive race the old one. `FailureBound` accounts
for the overshoot the early returns allow. Crash and stop keep a process in reserve, so every
process has a successor; deadlock is checked in every run of RunLifecycle.

One task and one worker in the `task_` runs: tasks meet only in the worker's slots and in
the load it reports, and the theorems cover any number of both. `MaxParallel` is 2 in
`task_ends`, so that a full worker is not what keeps a duplicate out and a worker polls, and so reads
cancels, while it claims and runs the task; it is 1 in `task_orderly`, so that the
worker is full, and deaf, while it runs it. The task is a turn in both, pinned in
`task_ends` and chosen by the scan in `task_orderly`; a command differs by its pin and by not
being cancellable, and the theorems cover both.

One Remote run in the `delivery` runs, with every origin: deliverables meet in a run through
what still waits (`Waiting`), for which `delivery_ends` has two. Two workers in `delivery` are
what one claim has to keep apart. `MaxAttempts` 2 tells a kept event from a dropped one.

`merge_watch` has two polls and budgets of 0 and 1, so that giving up is reached soon and
overlaps with everything; `merge_watch_ends` has one poll but two heads and budgets of 1 and
2, so that a budget is spent, a head moves and a budget is met again.

`intake` has a cap of 1 that two webhooks, a message and a window compete for, and a batch
of 2 that is smaller than the events; `intake_ends` takes one row a tick, so that any row
that wrongly stays in the window starves the rest, and has two windows to miss.

`checkpoint` has two machines, so that a run can come back to one it left, and two edits: one
made before it moved and one made elsewhere, which is what tells an older tree from the latest.
The run may be retried after a discard and between the sweeps. Two faults are a failed save
followed by a crash, the worst case for the record.

The runs other than those of RunLifecycle do not check for deadlock: each system really stops (all
calls over, nothing to deliver and bounds spent, PR merged, every event settled, run over and
swept), and the
`_ends` runs check progress instead.

*Fairness of `recovery`.* A process that is up ticks every five seconds and its tasks
are scheduled by the event loop: weak fairness of `Tick`, of each drive's steps and of
`StopReleases`. The supervisor restarts processes: weak fairness of `Start`. Time passes:
weak fairness of `LeaseExpires`. An OPEN run is eventually claimed while some process
can: weak fairness of `Claim` per run. A session that began ends. Nothing is assumed of the
founder, of crashes or of stops. `WF` on a drive's steps as a whole does not choose among the
outcomes of a turn: a drive may keep raising, fail every verification, or pause.

*Fairness of `task_ends`.* The caller's waits have a deadline and its event loop runs: weak
fairness of `Dispatches` and of `Waits`, which leaves open how the wait ends. A copy in
the worker's hands moves on, since the claim, the turn (the caller's deadline travels with
the task) and the POST all time out: weak fairness of `Works`. A POST is answered or dropped:
weak fairness of `Records`. A worker that is stopping ends. Nothing is assumed of heartbeats,
polls, boots or crashes.

*Fairness of the others.* A worker's loop sleeps, ticks, and catches what a tick raises
(`workers/base`), so its next step is weakly fair: `WorkerStep` in Delivery, which never chooses
between landing, refusal and raise; `Step` of each poll in MergeWatch; `Worker`, `claim_once` and
`fire_due` in Intake. MergeWatch adds that deadlines pass and that a drive ends (which
`recovery` shows of a drive). Intake adds that a run that holds a slot gives it back.
Nothing is assumed of the founder, of GitHub, of CI, or of the doors. `delivery_ends` and
`merge_watch_ends` have no crashes: a crash only repeats a tick, but a report to the run
that is lost with its process is not repeated (Known gaps).


## 4. Proofs

`RunLifecycleProofs` proves, for every value of the constants that satisfies the
assumptions in `RunLifecycle` (runs exist, `NoProc` is no process, bounds are naturals):

* `TypeCorrect`: `Spec => []TypeOK`. By action, with lemmas for the writes many actions share
  (a drive put at a pc, a claim's age, a bulk release). The bound on `round` is the part that
  needs the guard of `TakeTurn`.
* `RefinesTable`: `Spec => KeepsTable`. The inductive invariant is
  `RowInv == TypeOK /\ Opened /\ SessHeld`. `Opened` (a drive or session works on a run that
  was opened) is needed because a compare-and-set from the copy says nothing about a run
  that does not exist; `SessHeld` remembers what `reopen` and `deny` required of the copy,
  because their commit no longer checks it. `MovedLegal` says what one compare-and-set can do;
  `DriveWrites` and `SessWrites` lift it to every action; `StepMoves` to `Next`.
* `CancelStays`: `Spec => CancelSticks`, from the same `StepMoves`.

`RunOrderlyProofs` adds what holds where the environment is orderly (`ReopenWaits`,
`ShortSessions` and `LeaseHolds`), for any runs, processes, machines, slots and sessions:

* `OneDriveAtATime` and `RunsStayReachable` (`SingleDrive`, `NoStranded`). Neither is inductive.
  `OrderInv` adds what makes them so: `DrivesSecure` (the claim of a live drive is fresh and its
  process's own; where it is about to leave the run RUNNING it has asked the founder something),
  `SessionsCurrent` and `OneSession` (a session knows the row it will write to, up to a release,
  and is alone on it), `RowsKept` (a RUNNING run without a drive or a claim has a question
  open), and `OneUp` (a machine runs one process), which is why a successor's sweep takes
  nothing from a living drive. There is one lemma for each kind of step: a drive's, a process's,
  a session's.
* `FailuresBounded` (`FailureBound`), for any finite set of processes. `Counted` keeps the count one
  below the bound while the run may still fail (`MayFail`), and the proof goes through how
  each step changes the two sides: a crash or a stop gives the bound one more process, a
  re-open one more re-open, and only a drive that raised counts.

TLC shows what the three assumptions are for: on `orderly`, or with two slots, the first two
break when any one is dropped, and `FailureBound` without `LeaseHolds` or `ReopenWaits`. Known
gaps says what that looks like. `OrderInv` and `Counted` were checked on `orderly` before they
were proved.

`TaskDispatchProofs` proves, for every finite set of tasks, every set of workers, every
pinning, both limits and every set of faults:

* `DispatchTypes`: `Spec => []TypeOK`. The tasks have to be finite for a heartbeat to report a
  number.
* `DispatchOneAtATime`: inductive as it stands, given the types.
* `DispatchExecutedOnce`: through `ReceiptInv`, which says that a receipt is the row's claim, that
  there is one, and that what is past its claim has a receipt or none was heard.
* `DispatchLeftClosed`: through `ClosedInv`, which adds that a published row is no longer
  pending; without it the conditional close could leave a row as it is.
* `DispatchBookedOnce`, where `torn` is no fault: through `BookedInv`, which says that a report
  between its read and its write is alone there and what it read still holds.
* `DispatchKeepsOutcome`, where `torn` and `phantom` are no faults: every step is a step of
  TaskOutcome or leaves its variables alone. `QuietInv` adds that nothing of a task exists
  outside its caller until it is published, which is what makes the unconditional write of
  `Unpublish` safe; with `torn` a late report overwrites a closed row (Known gaps).
* `DispatchCancelObeyed`, whatever the number of slots and the faults: through `CancelInv`, which
  says that a task is mentioned only in its worker's stream, that its cancel is the last
  word there and is sent when the call is over, and that once it was read no stream mentions the task,
  so that no copy is handed out any more, and the copies it was for have ended or report what
  they spent. The poll loop ends the one task it finds in `_RUNNING_TASKS`; that there is one is
  `OneAtATime`.

`CallerEffect`, `WorkerEffect` and `RecordEffect` say once what each part's steps do to a row
and its caller; `ClosedInv`, `BookedInv` and the refinement are built on them.

`DeliveryProofs`, for any runs, deliverables, workers, sessions and bounds:

* `DeliveryTypes`: `Spec => []TypeOK`. The bound on `tries` needs the drop at `max_attempts`.
* `DeliveryHeldBack`: through an invariant that says of every process what it may dispatch: an
  event that carries an approval, and a card held by a session past its approval, are of
  deliverables the founder agreed to. `origin` is never written, which is why the gate's
  answer for an autonomous run does not change between the look and the send, although the
  Safe Mode flag may.

`DeliveryCountProofs`, for any runs, deliverables and workers and any finite set of sessions:

* `DeliveryAskedFor`: `owed` only stays above zero because every dispatch still to come is
  paid for. `Covered` counts them: the events no worker has dispatched in its current
  batch, and the sessions that have still to dispatch a card, are together no more than what is
  owed. `Shape` is what makes the two sets change as they should: no row in two workers' batches (the
  SKIP LOCKED claim), each row of a batch with one fate, one job in hand while its books are
  done. `Crash` puts a batch's events back and is owed for those it had sent. Finitely many
  sessions are needed for there to be a number; events of one deliverable are finitely many.

`MergeWatchProofs`, for any number of polls and both budgets:

* `WatchTypes`: the budgets hold because a poll's attempt is one more than a count its snapshot
  had below the budget, whatever other polls wrote since.
* `WatchFounderKnows`: the invariant adds that a poll about to write a giving-up has called
  back, and that the snapshot of a failed row was taken after the telling.
* `WatchLandedIsMerged`: a poll that concluded `merged` saw or made the merge, and a merged PR
  stays merged.
* `WatchCancelLasts`: a cancel that meets no poll past its claim is final. From that state on the
  invariant is `Buried`: the run is cancelled and every poll is `Powerless`, that is, it has not
  read the PR, or it is on its way to give up its row; a claimed poll looks at the run before it reads
  the PR (`GetPr`), and no callback is due from a powerless one that could move the run. A retry of
  the cancelled run is the founder's own act and is in RunLifecycle only.

`IntakeProofs`, for any finite sets of webhooks and messages and any cap, batch and number of
windows; one inductive invariant carries the four theorems:

* `IntakeOneFate` needs `Claimed` and `Written`: what the transaction has claimed is undrained and
  nobody but the worker writes Requests and markers.
* `IntakeWithinCap` needs `Counted`: a count of open Requests taken in the tick is an upper
  bound of those still open plus the runs that came of them, because a Request that left is a
  run that counts, and the runs are counted after. It is why the order of the two reads in
  `room_for_new_work` matters.
* `IntakeFateStays` follows from `OneFate` and `Claimed`: no step writes over a closed marker.

`RunCheckpointProofs`, for any machines, edits and number of faults:

* `CheckpointTypes`: `Spec => []TypeOK`, whatever the environment.
* `CheckpointResumable`: `Spec => []Resumable`, whatever the environment. `SavedInv` adds what a drive
  between its upload and its commit knows: the save it is about to record is in the store, or
  its tree is there if it failed, or a discard or a sweep took it meanwhile.
* `CheckpointContinues` assumes `Orderly`. Its invariant has `DriveInv` (one drive at a time,
  none while the run is OPEN, and no sweep unless it is over), `StepInv` (what a drive at each
  of its steps knows of its tree and of the save it made), and, unless `behind`, `LeftInv`: what
  the last drive left is in the bundle, if there is one, in the tree of the machine the record
  names, if it is there, and in the tree of a drive at work. `LeftInv` is not implied by
  `ContinuesWork`, which only speaks of runs that are being driven.

Every safety and action property of the passing runs is stated by one of these theorems. Only
model-checked are the liveness properties (`Recovered`, `DrivesEnd`, `CrashLoopEnds`, `CallsEnd`,
`SlotsFree`, `EventsDrain`, `DeliveredShips`, `WatchEnds`, `RunHears`, `EventsSettle`, `WindowsFire`):
they rest on fairness, and so on `ENABLED`, which the prover does not reason about.

## 5. Known gaps

The models contain behaviours of the code that its own words deny, or that a reader may not
expect. A run is kept for the first under Run worktrees only; a reader who changes the code
there should know them.

Runs:

* *A drive's last word lands on a later claim.* The compare-and-set compares the status only:
  after cancel, retry and a second claim the row is RUNNING again and the first drive's outcome
  lands on the second one's work. `run_status.py:12` says a run another session moved first "is
  refused (zero rows) instead of overwritten". With `ReopenWaits` it does not happen, because
  then no two drives of a run are alive at once (`SingleDrive`).
* *A run may be stranded.* A founder answers while the drive that asked still saves its
  worktree; the run is claimed again, the old drive's `_clear_claim` wipes the new claim, and
  a crash then leaves it RUNNING with no claim, no drive and no Decision. `NoStranded` needs
  `ReopenWaits`.
* *A pause is not told from work.* `_release_claim_to_open` gives back a run that waits for the
  founder's answer, against its comment (`agent_worker.py:855`).
* A turn that finds every executor busy fails its run (`TurnSaturated`), against
  `agent_worker.py:500`.
* A cancel that lost its race to a claim is reported as done (`CancelRun`).
* Discarding through one Decision leaves the run's other Decisions pending.

Tasks:

* *A late result overwrites a closed task.* `record_result` reads without a lock and writes by
  primary key; a caller's timeout in between is undone, against `dispatch.py:806`.
* *A result is undone by the dispatch that thought it had failed.* An XADD that raises although its
  entry was appended lets the worker run the task; the dispatch's own clean-up then writes
  `failed` over whatever it reported (`Unpublish`). `KeepsOutcome` needs `phantom` to be no fault.
* *Usage counted twice or not at all.* A failed report without usage, then the spend report of
  the worker's shutdown, before the caller reads: booked as late and metered. A result between
  the caller's last read and its close: neither.
* *A cancel may be dropped*, when the worker reads it while the claim is under way
  (`main.py:1020`) of a worker with more than one slot (the default is three). The task then
  runs to its end or to its caller's deadline. `CancelObeyed` says that this copy is the only
  one it may miss.
* No cancel ends a command (`Registered`), and a full worker does not read the cancel that
  would free it (`CanPoll`). Two callers may choose one worker by the load of one heartbeat.

Deliveries:

* The worker does not look at the run's status: the queued event of a cancelled run is sent.
* A card whose run has shipped is left out of the workspace's list and can only be answered
  per run.
* Approvals, denials and the expiry sweep write their copies: the sweep may turn an approved or
  delivered card into an expired one, and of two denials at once neither may release the run.
* Past a review, `_ship_decision_run` mints no event when a partial deliverable exists.

Merge watch:

* A conclusion is told to the run once, after the commit; if that raises or the process dies
  the run is left waiting. `RunHears` is checked without faults.
* A poll that had looked before a cancel may still merge or re-dispatch (`CancelSticks` admits
  it, `CancelLasts` starts after such polls), and one that holds a row as failed may put a
  watch to rest that the founder just revived.
* A comment on a failed watch re-opens the run but not the watch; so does a retry after an
  escalated conflict. A merge GitHub keeps refusing (405, 409) has no deadline.

Intake:

* Two intake workers at once could answer one event with two Requests: `list_undrained` has no
  lock or constraint that keeps their snapshots apart. `compose.prod.yaml` runs one worker
  process and so one intake worker; `build_worker_runtime` puts one into every worker process,
  and the two-machine deployment that RunLifecycle and RunCheckpoint have therefore has two. The
  module has one.
* `count_held_runs` is two statements (`run_caps.py:86`, `:94`) and one read here: a run that
  leaves or enters the wait for its merge between them is counted as it stands at the second, or
  as one too many, which keeps to the cap.
* The founder's door counts runs and not open Requests, so a burst of messages overshoots.
* A founder's message with the text of an earlier one is a duplicate for ever.
* A new webhook overtakes a parked one when a slot frees after the release step of the tick.

Run worktrees:

* *A→B→A goes on from A's old tree.* The composed provisioner returns as soon as the run's
  directory is not empty (`workspace_provisioning.py:96`), so `provision_run_worktree`, which
  compares with the checkpoint, is not asked; the next save then records the older tree as
  the latest. `run_checkpoint.py:77` says it "must not". The run `checkpoint_back` shows it.
* A machine that refuses to go on because the latest save failed elsewhere gives its claim
  back through the same release, which saves its older tree and clears `stale`
  (`agent_worker.py:851`, `run_checkpoint.py:46`).
* A restore interrupted between its git commands leaves a tree that holds part of the
  snapshot: the release saves it over the good checkpoint, or a crash leaves it to be kept.
* A crash after a restore loses the work since the last save twice over: at the next claim the
  product's provisioner takes the newer tree for an older one and discards it.
* A retry or a message after a discard, or between the two sweeps, finds a record whose bundle
  is gone: every drive raises `RunCheckpointMissing`. The sweep's comment "a terminal run is
  never checkpointed again" does not think of re-opened runs. `Resumable` says that a sweep or a
  discard is the only way to it.
* The tree of a run that failed is not saved: a retry on another machine starts from the save
  before, or from main.

## 6. Plan

1. `RunStatus`, `RunLifecycle`, `TaskOutcome`, `TaskDispatch`, `Delivery`, `MergeWatch`, `Intake`,
   `RunCheckpoint` and their proofs: done.
2. `ProductRepo`: the main branch of a product on every machine, its bundle in the store, the
   product lock, publish and follow, the idle reaper and the local auto-ship. A failed fetch
   that publishes the local main over the store's, and a concurrent follow that overwrites
   `FETCH_HEAD`, are what to look at.
3. `Decisions`: Decision rows, so that two answers to one Decision, the answer drain and the
   knowledge written with it can be told apart; payload read-modify-write.
4. The outbox workers (notify, relay, settle), whose queue and retry differ from Delivery's.
5. The retries of `chat()` and a drive's turn
   composed with its task.
6. Proofs: every safety property checked has its theorem. What is left is to weaken what some of them
   assume: `FailuresBounded` without `ShortSessions`, where TLC finds no counterexample in ten
   million states (of an unfinished run).

## 7. Not modelled

Text (prompts, messages, summaries), verification commands, containers, git except for a run's
worktree and its bundle, model calls, knowledge notes, authentication, the HTTP and MCP layers
and the web app: their effect on a run is a nondeterministic outcome of an action here. History
rows, notifications and audit events are written with the moves they describe and read by no
property. Of the modelled parts: the retraction of a delivered item, the `extend`, `archive`,
`mark_deleted` and `mark_delivered` methods of the Safe Mode queue (no caller in the program),
the merge watch's backoff, and the cron arithmetic of schedules.
