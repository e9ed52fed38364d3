------------------------------- MODULE Intake -------------------------------
(***************************************************************************)
(* The front door: how webhook deliveries, founder messages and schedule    *)
(* windows become TriggerEvents, and how the intake worker turns those into *)
(* Requests the agent worker opens runs for                                 *)
(* (workflow/infrastructure/workers/intake_worker.py, application/intake/,  *)
(* application/{intake_gate,run_caps}.py, schedule/).                       *)
(*                                                                         *)
(* One workspace, one schedule and one intake worker, as the deployment     *)
(* scales it.  A tick of the worker is one transaction of several reads and *)
(* writes; the API's handlers, the schedule worker and the agent worker     *)
(* commit between its statements, and a crash or an exception undoes the    *)
(* whole tick.                                                              *)
(***************************************************************************)
EXTENDS Integers, FiniteSets

CONSTANTS
    Hooks,           \* webhook deliveries, one idempotency key each
    Orders,          \* founder messages
    LastWindow,      \* bound: windows of the schedule
    Cap,             \* max_concurrent_runs of the workspace
    Batch,           \* batch_size of the worker
    MaxAgain,        \* bound: runs that are sent back to work
    MaxFaults        \* bound: ticks that crash or raise

Windows  == 1..LastWindow
Triggers == Hooks \union Orders \union Windows

ASSUME IntakeLimits == Cap \in Nat /\ Batch \in Nat \ {0}
ASSUME IntakeBounds == LastWindow \in Nat /\ MaxAgain \in Nat /\ MaxFaults \in Nat
ASSUME IntakeNames  == /\ IsFiniteSet(Hooks) /\ IsFiniteSet(Orders)
                       /\ Hooks \intersect Orders = {}
                       /\ Windows \intersect (Hooks \union Orders) = {}

VARIABLES
    row,        \* [Triggers]: the trigger_events row, by its marker
    at,         \* [Triggers]: its place by received_at; 0: not received
    req,        \* [Triggers]: the status of its Request
    run,        \* [Triggers]: the run of that Request
    door,       \* the keys that handlers have found unused and may insert
    sched,      \* the workspace_schedules row: enabled or not, and the window of next_run_at
    due,        \* the windows whose time has come
    spent,      \* the month's token budget is used up
    tx,         \* the intake worker's transaction
    agains,     \* runs sent back to work so far
    faults      \* failed ticks so far

vars == <<row, at, req, run, door, sched, due, spent, tx, agains, faults>>

\* "due" is a window whose time has come and whose event is not there yet.
Closed  == {"filtered", "refused", "routed"}            \* RECEIVE_FILTERED_KEY, by its reason
Marks   == {"none", "due", "new", "held"} \union Closed
\* "live" holds a slot since it was opened, "again" since it was sent back to work;
\* "away" holds none but may come back: it awaits the merge of its pull request, or failed;
\* "closed" is shipped or cancelled.
RunStates == {"none", "live", "again", "away", "closed"}

\* The transaction: markers and Requests it has written, runs it has reopened, rows it has
\* claimed and not handled yet, and the count of open Requests it has read.
Txs == [pc : {"idle", "release", "claim", "next", "room"}, marks : [Triggers -> Marks],
        minted : SUBSET Triggers, woken : SUBSET Triggers, todo : SUBSET Triggers, open : Nat]

TypeOK ==
    /\ row \in [Triggers -> Marks] /\ at \in [Triggers -> Nat]
    /\ req \in [Triggers -> {"none", "open", "running"}]
    /\ run \in [Triggers -> RunStates]
    /\ door \subseteq Hooks \union Orders
    /\ sched \in [state : {"on", "off"}, next : 1..(LastWindow + 1)]
    /\ due \in 0..LastWindow
    /\ spent \in BOOLEAN /\ tx \in Txs
    /\ agains \in 0..MaxAgain /\ faults \in 0..MaxFaults

Idle == [pc |-> "idle", marks |-> [t \in Triggers |-> "none"], minted |-> {}, woken |-> {},
         todo |-> {}, open |-> 0]

Init ==
    /\ row = [t \in Triggers |-> "none"] /\ at = [t \in Triggers |-> 0]
    /\ req = [t \in Triggers |-> "none"] /\ run = [t \in Triggers |-> "none"]
    /\ door = {}
    /\ sched = [state |-> "on", next |-> 1] /\ due = 0
    /\ spent = FALSE /\ tx = Idle /\ agains = 0 /\ faults = 0

-----------------------------------------------------------------------------
(* What the transactions read.                                              *)

Now == 1 + Cardinality({t \in Triggers : at[t] > 0})

\* The n oldest of S, and the oldest.
First(S, n) == {t \in S : Cardinality({u \in S : at[u] < at[t]}) < n}
Oldest(S)   == CHOOSE t \in S : \A u \in S : at[t] <= at[u]

\* A row as the worker's own transaction sees it.
Seen(t) == IF tx.marks[t] = "none" THEN row[t] ELSE tx.marks[t]

count_held_runs == Cardinality({t \in Triggers : run[t] \in {"live", "again"}})

\* The open Requests a transaction counts: the committed ones and its own.
Pending == Cardinality({t \in Triggers : req[t] = "open" \/ t \in tx.minted})

\* Mutant: the open Requests are not counted.
RoomIgnoringOpen(open) == Cap - count_held_runs

\* The cap less the open Requests counted a statement ago and the runs held now.
room_for_new_work(open) == Cap - open - count_held_runs

\* Mutant: the batch is cut before the rows that were set aside are left out.
UndrainedLimitFirst ==
    {t \in First({u \in Triggers : Seen(u) \notin {"none", "due"} /\ req[u] = "none"}, Batch) :
        Seen(t) = "new"}

\* Mutant: an event that has its Request is taken up again.
UndrainedAgain == First({t \in Triggers : Seen(t) = "new"}, Batch)

\* Rows no Request answers and no marker sets aside, oldest first.
list_undrained == First({t \in Triggers : Seen(t) = "new" /\ req[t] = "none"}, Batch)

-----------------------------------------------------------------------------
(* The doors.  A handler looks for the key first and inserts later; the     *)
(* unique constraint turns the second insert of a key into a duplicate.     *)

\* A webhook, or a redelivery of it, whose key has no row yet.
Deliver(h) ==
    /\ row[h] = "none" /\ door' = door \union {h}
    /\ UNCHANGED <<row, at, req, run, sched, due, spent, tx, agains, faults>>

\* A founder's message, over REST or MCP: the cap counts runs and not Requests here.
Submit(o) ==
    /\ count_held_runs < Cap /\ ~spent
    /\ row[o] = "none" /\ door' = door \union {o}
    /\ UNCHANGED <<row, at, req, run, sched, due, spent, tx, agains, faults>>

\* Mutant: a redelivery that raced its first delivery overwrites the row.
RecordTwice(k) ==
    /\ k \in door
    /\ row' = [row EXCEPT ![k] = "new"] /\ at' = [at EXCEPT ![k] = Now]
    /\ UNCHANGED <<req, run, door, sched, due, spent, tx, agains, faults>>

\* record: the first insert of a key stands, the second finds a duplicate.
Record(k) ==
    /\ k \in door
    /\ IF row[k] = "none"
       THEN row' = [row EXCEPT ![k] = "new"] /\ at' = [at EXCEPT ![k] = Now]
       ELSE UNCHANGED <<row, at>>
    /\ UNCHANGED <<req, run, door, sched, due, spent, tx, agains, faults>>

\* The time of the schedule's next window comes: that is its event's received_at.
Tick ==
    /\ due < LastWindow
    /\ due' = due + 1
    /\ row' = [row EXCEPT ![due + 1] = "due"] /\ at' = [at EXCEPT ![due + 1] = Now]
    /\ UNCHANGED <<req, run, door, sched, spent, tx, agains, faults>>

\* Mutant: a schedule that is behind jumps over the windows it missed.
FireLatest ==
    /\ sched.state = "on" /\ sched.next <= due
    /\ row' = [row EXCEPT ![sched.next] = "new"]
    /\ sched' = [sched EXCEPT !.next = due + 1]
    /\ UNCHANGED <<at, req, run, door, due, spent, tx, agains, faults>>

\* Mutant: a window is fired before its time has come.
FireEarly ==
    /\ sched.state = "on"
    /\ row' = [row EXCEPT ![sched.next] = "new"]
    /\ sched' = [sched EXCEPT !.next = @ + 1]
    /\ UNCHANGED <<at, req, run, door, due, spent, tx, agains, faults>>

\* A tick of the schedule worker: the event and the move to the next window commit
\* together under the row's lock.
fire_due ==
    /\ sched.state = "on" /\ sched.next <= due
    /\ row' = [row EXCEPT ![sched.next] = IF @ = "due" THEN "new" ELSE @]
    /\ sched' = [sched EXCEPT !.next = @ + 1]
    /\ UNCHANGED <<at, req, run, door, due, spent, tx, agains, faults>>

\* The founder switches the schedule off, or on again.  Off for good is deleted, alone or
\* with its product.
SetSchedule(s) ==
    /\ sched.state # s
    /\ sched' = [sched EXCEPT !.state = s]
    /\ UNCHANGED <<row, at, req, run, door, due, spent, tx, agains, faults>>

-----------------------------------------------------------------------------
(* A tick of the intake worker.                                             *)

\* _release_held starts: the parked rows are locked and the open Requests counted.
StartTick ==
    /\ tx.pc = "idle"
    /\ tx' = [tx EXCEPT !.pc = "release", !.open = Pending]
    /\ UNCHANGED <<row, at, req, run, door, sched, due, spent, agains, faults>>

\* One parked row per free slot loses its marker, oldest first.
Release ==
    /\ tx.pc = "release"
    /\ LET held == First({t \in Triggers : row[t] = "held"}, Batch)
           free == First(held, room_for_new_work(tx.open))
       IN  tx' = [tx EXCEPT !.pc = "claim", !.open = 0,
                            !.marks = [t \in Triggers |-> IF t \in free THEN "new" ELSE @[t]]]
    /\ UNCHANGED <<row, at, req, run, door, sched, due, spent, agains, faults>>

Claim ==
    /\ tx.pc = "claim"
    /\ tx' = [tx EXCEPT !.pc = "next", !.todo = list_undrained]
    /\ UNCHANGED <<row, at, req, run, door, sched, due, spent, agains, faults>>

\* The transaction with t handled: set aside with a marker, or answered with a Request.
Marked(t, m) == [tx EXCEPT !.pc = "next", !.open = 0, !.todo = @ \ {t}, !.marks[t] = m]
Minted(t)    == [tx EXCEPT !.pc = "next", !.open = 0, !.todo = @ \ {t},
                           !.minted = @ \union {t}]

\* The next claimed row: only a webhook meets the binding's filter, the budget and the cap.
Take(t) ==
    /\ tx.pc = "next" /\ tx.todo # {} /\ t = Oldest(tx.todo)
    /\ \/ t \notin Hooks /\ tx' = Minted(t)
       \/ t \in Hooks /\ tx' = Marked(t, "filtered")
       \/ t \in Hooks /\ spent /\ tx' = Marked(t, "refused")
       \/ t \in Hooks /\ ~spent /\ tx' = [tx EXCEPT !.pc = "room", !.open = Pending]
    /\ UNCHANGED <<row, at, req, run, door, sched, due, spent, agains, faults>>

\* No room: parked.  Else a comment or an edit that belongs to a run goes to it, and
\* reopens it when it waits or has failed; anything else becomes a Request.
Gate(t) ==
    /\ tx.pc = "room" /\ t = Oldest(tx.todo)
    /\ \/ room_for_new_work(tx.open) <= 0 /\ tx' = Marked(t, "held")
       \/ /\ room_for_new_work(tx.open) > 0
          /\ \E r \in Triggers :
                /\ \/ run[r] \in {"live", "again"}
                   \/ run[r] = "away" /\ agains + Cardinality(tx.woken) < MaxAgain
                /\ tx' = [Marked(t, "routed") EXCEPT
                            !.woken = IF run[r] = "away" THEN @ \union {r} ELSE @]
       \/ room_for_new_work(tx.open) > 0 /\ tx' = Minted(t)
    /\ UNCHANGED <<row, at, req, run, door, sched, due, spent, agains, faults>>

Commit ==
    /\ tx.pc = "next" /\ tx.todo = {}
    /\ row' = [t \in Triggers |-> Seen(t)]
    /\ req' = [t \in Triggers |-> IF t \in tx.minted THEN "open" ELSE req[t]]
    /\ run' = [t \in Triggers |-> IF t \in tx.woken THEN "again" ELSE run[t]]
    /\ agains' = agains + Cardinality(tx.woken)
    /\ tx' = Idle
    /\ UNCHANGED <<at, door, sched, due, spent, faults>>

\* The worker dies, or a statement of the tick raises: everything is rolled back.
Fail ==
    /\ tx.pc # "idle" /\ faults < MaxFaults
    /\ faults' = faults + 1 /\ tx' = Idle
    /\ UNCHANGED <<row, at, req, run, door, sched, due, spent, agains>>

Worker == \/ StartTick \/ Release \/ Claim \/ Commit
          \/ \E t \in tx.todo : Take(t) \/ Gate(t)

-----------------------------------------------------------------------------
(* The rest of the system, as far as the front door can see it.             *)

\* A tick of the agent worker opens a run for every open Request.
claim_once ==
    /\ \E t \in Triggers : req[t] = "open"
    /\ req' = [t \in Triggers |-> IF req[t] = "open" THEN "running" ELSE req[t]]
    /\ run' = [t \in Triggers |-> IF req[t] = "open" THEN "live" ELSE run[t]]
    /\ UNCHANGED <<row, at, door, sched, due, spent, tx, agains, faults>>

\* A run the tick has reopened is locked by it.
RunGoes(t, s) ==
    /\ t \notin tx.woken /\ run[t] # s
    /\ run' = [run EXCEPT ![t] = s]
    /\ UNCHANGED <<row, at, req, door, sched, due, spent, tx, faults>>

RunEnds(t) ==
    /\ run[t] \in {"live", "again", "away"}
    /\ \E s \in {"away", "closed"} : RunGoes(t, s)
    /\ UNCHANGED agains

\* Red CI, a conflict, an answer or a retry sends it back to work.
RunAgain(t) ==
    /\ run[t] = "away" /\ agains + Cardinality(tx.woken) < MaxAgain
    /\ RunGoes(t, "again") /\ agains' = agains + 1

\* The budget runs out, and reopens with the month.
Budget ==
    /\ spent' = ~spent
    /\ UNCHANGED <<row, at, req, run, door, sched, due, tx, agains, faults>>

Doors == \/ \E h \in Hooks : Deliver(h)
         \/ \E o \in Orders : Submit(o)
         \/ \E k \in Hooks \union Orders : Record(k)
         \/ Tick \/ fire_due
         \/ \E s \in {"on", "off"} : SetSchedule(s)
World == \/ claim_once \/ Budget
         \/ \E t \in Triggers : RunEnds(t) \/ RunAgain(t)

Next == Worker \/ Fail \/ Doors \/ World

Spec == Init /\ [][Next]_vars

\* Ticks come again for as long as the processes run, and a run that holds a slot gives it
\* back: it is delivered, or fails, or is discarded.
FairSpec == /\ Spec
            /\ WF_vars(Worker) /\ WF_vars(claim_once) /\ WF_vars(fire_due)
            /\ \A t \in Triggers : WF_vars(run[t] \in {"live", "again"} /\ RunEnds(t))

-----------------------------------------------------------------------------
(* Safety.                                                                  *)

\* Every event has one fate: what has a Request carries no marker, and the tick under way
\* handles no event twice.
OneFate ==
    \A t \in Triggers :
        /\ req[t] # "none" => row[t] = "new" /\ t \notin tx.minted
        /\ t \in tx.minted => Seen(t) = "new"

\* The webhooks that hold a slot, or will when their Request is run.
Busy == {h \in Hooks : h \in tx.minted \/ req[h] = "open" \/ run[h] = "live"}

\* The webhooks alone never fill more than the cap: however the counts are read while the
\* agent worker turns Requests into runs and the founder submits, no webhook is let in
\* over it.  Runs that had left and were sent back to work come on top.
WithinCap == Cardinality(Busy) <= Cap

\* A fate is final: a redelivery, a crash, or a later tick never brings an event back that
\* was set aside for good, and never asks for the same work again.
KeepsFate ==
    \A t \in Triggers :
        /\ row[t] \in Closed => row'[t] = row[t]
        /\ req[t] # "none" => req'[t] # "none"
        /\ req[t] = "running" => req'[t] = "running"

FateStays == [][KeepsFate]_vars
=============================================================================
