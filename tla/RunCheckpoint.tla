---------------------------- MODULE RunCheckpoint ----------------------------
(***************************************************************************)
(* The worktree of one run as the run moves between machines: saved off the *)
(* machine before a claim is given up, restored, kept or started anew where *)
(* the run is claimed next, and swept when the run is over                  *)
(* (workflow/application/run_checkpoint.py, storage/product_workspace.py,   *)
(* workflow/application/run_cleanup.py, the agent worker's release paths).  *)
(*                                                                         *)
(* A tree, a snapshot or a bundle is the set of edits it holds.  The run    *)
(* itself is reduced to what decides where it is driven next; RunLifecycle  *)
(* has its claims, leases and Decisions in full.                            *)
(***************************************************************************)
EXTENDS Integers

CONSTANTS
    Machines,     \* the BSVIBE_MACHINE_IDs of the deployment
    NoMachine,    \* home_machine and checkpoint.machine when unset
    Edits,        \* bound: the edits the run's agent can make
    MaxFaults,    \* bound: crashes, failed saves and failed restores
    Orderly       \* leases hold, answers wait for the drive, retries for it and the sweeps

ASSUME CheckpointConstants ==
    /\ NoMachine \notin Machines
    /\ MaxFaults \in Nat
    /\ Orderly \in BOOLEAN

VARIABLES
    status,     \* execution_runs.status
    asked,      \* a Decision of the run is pending
    home,       \* the machine whose claim is on the run (home_machine, claimed_by)
    ckpt,       \* run.payload["checkpoint"]: the machine of the last save; stale: it failed
    drive,      \* [Machines]: the drive of the run there, if any
    present,    \* the machines that have the worktree var/runs/<run_id>
    tree,       \* [Machines]: the edits in that worktree, committed or not
    stored,     \* runs/<run_id>.bundle is in the store
    bundle,     \* the edits in it
    sweep,      \* [Machines]: what the sweep there has found to remove
    faults,     \* faults so far
    left,       \* history: the edits in the tree the last ended drive left
    behind,     \* history: a tree that lacks edits was gone on with, saved, or half restored
    takenTrees, \* history: the machines whose worktree a discard or a sweep removed last
    takenBundle,\* history: a discard or a sweep removed the bundle last
    composed    \* the drives' provisioner is the composed one; else the product's alone

runVars   == <<status, asked, home>>
treeVars  == <<present, tree, takenTrees>>
storeVars == <<stored, bundle, takenBundle>>
histVars  == <<left, behind, composed>>   \* and the setting, which never changes
vars == <<runVars, ckpt, drive, treeVars, storeVars, sweep, faults, histVars>>

Steps == {"idle", "provision", "work", "look", "upload", "commit"}
\* _clear_claim, _release_claim_to_open, _escalate_drive_failure
Ways  == {"clear", "giveback", "escalate"}
\* What _checkpoint_before_release came to: not yet or not tried, no tree, saved, raised.
Saves == {"untried", "none", "good", "failed"}
Drives == [pc : Steps, way : Ways, refused : BOOLEAN, saved : Saves]

TypeOK ==
    /\ status \in {"open", "running", "over"}   \* over: failed or cancelled
    /\ asked \in BOOLEAN
    /\ home \in Machines \union {NoMachine}
    /\ ckpt \in [machine : Machines \union {NoMachine}, stale : BOOLEAN]
    /\ drive \in [Machines -> Drives]
    /\ present \subseteq Machines
    /\ tree \in [Machines -> SUBSET Edits]
    /\ stored \in BOOLEAN /\ bundle \subseteq Edits
    /\ sweep \in [Machines -> {"idle", "tree", "record"}]
    /\ faults \in 0..MaxFaults
    /\ left \subseteq Edits
    /\ takenTrees \subseteq Machines /\ takenBundle \in BOOLEAN
    /\ behind \in BOOLEAN /\ composed \in BOOLEAN

NoDrive == [pc |-> "idle", way |-> "clear", refused |-> FALSE, saved |-> "untried"]
NoCheckpoint == [machine |-> NoMachine, stale |-> FALSE]

Init ==
    /\ status = "open" /\ asked = FALSE /\ home = NoMachine
    /\ ckpt = NoCheckpoint
    /\ drive = [m \in Machines |-> NoDrive]
    /\ present = {} /\ tree = [m \in Machines |-> {}]
    /\ stored = FALSE /\ bundle = {}
    /\ sweep = [m \in Machines |-> "idle"]
    /\ faults = 0
    /\ left = {} /\ behind = FALSE /\ composed \in BOOLEAN
    /\ takenTrees = {} /\ takenBundle = FALSE

-----------------------------------------------------------------------------
At(m, step)  == drive[m].pc = step
Goto(m, step) == drive' = [drive EXCEPT ![m].pc = step]
NoDriveRuns  == \A m \in Machines : At(m, "idle")

Fault == faults < MaxFaults /\ faults' = faults + 1

\* remove_run_worktree and discard_local_run_worktree, as they change the disk.
DropTree(m) ==
    /\ present' = present \ {m}
    /\ tree' = [tree EXCEPT ![m] = {}]

PutTree(m, edits) ==
    /\ present' = present \union {m}
    /\ tree' = [tree EXCEPT ![m] = edits]
    /\ takenTrees' = takenTrees \ {m}

\* A discard or a sweep of a finished run removes what there is.
TakeTree(m) ==
    /\ DropTree(m)
    /\ takenTrees' = takenTrees \union ({m} \intersect present)

TakeBundle ==
    /\ stored' = FALSE
    /\ takenBundle' = (takenBundle \/ stored)
    /\ UNCHANGED bundle

\* A put of the store replaces the bundle.
PutBundle(edits) ==
    /\ stored' = TRUE /\ bundle' = edits
    /\ takenBundle' = FALSE

-----------------------------------------------------------------------------
(* A claim, and the worktree it finds or makes (provision_run_worktree).    *)

Claim(m) ==
    /\ status = "open" /\ At(m, "idle")
    /\ status' = "running" /\ home' = m
    /\ drive' = [drive EXCEPT ![m] = [NoDrive EXCEPT !.pc = "provision"]]
    /\ UNCHANGED <<asked, ckpt, treeVars, storeVars, sweep, faults, histVars>>

saved_elsewhere(m) == ckpt.machine \notin {NoMachine, m}

\* A tree already here is kept when this machine made the last save, or nobody did; and by
\* the composed provisioner always: it returns as soon as the directory is not empty.
Keep(m) ==
    /\ At(m, "provision") /\ m \in present
    /\ composed \/ ~saved_elsewhere(m)
    /\ Goto(m, "work")
    /\ behind' = (behind \/ saved_elsewhere(m))
    /\ UNCHANGED <<runVars, ckpt, treeVars, storeVars, sweep, faults, left, composed>>

\* A run that was never saved is new: its branch starts from main.
StartFresh(m) ==
    /\ At(m, "provision") /\ m \notin present /\ ckpt.machine = NoMachine
    /\ PutTree(m, {})
    /\ Goto(m, "work")
    /\ UNCHANGED <<runVars, ckpt, storeVars, sweep, faults, histVars>>

\* Mutant: the older tree is removed as a finished run's is, with the save in the store.
RemoveOlder(m) ==
    /\ At(m, "provision") /\ m \in present /\ saved_elsewhere(m) /\ ~ckpt.stale
    /\ ~composed
    /\ DropTree(m)
    /\ stored' = FALSE
    /\ UNCHANGED <<runVars, ckpt, drive, bundle, takenTrees, takenBundle, sweep, faults, histVars>>

\* The tree here is older than the save of another machine.
DiscardOlder(m) ==
    /\ At(m, "provision") /\ m \in present /\ saved_elsewhere(m) /\ ~ckpt.stale
    /\ ~composed
    /\ DropTree(m)
    /\ UNCHANGED <<runVars, ckpt, drive, storeVars, takenTrees, sweep, faults, histVars>>

Restore(m) ==
    /\ At(m, "provision") /\ m \notin present
    /\ ckpt.machine # NoMachine /\ ~ckpt.stale /\ stored
    /\ PutTree(m, bundle)
    /\ Goto(m, "work")
    /\ UNCHANGED <<runVars, ckpt, storeVars, sweep, faults, histVars>>

\* A drive that raises gives the run back, or hands it to the founder at the bound.
Raise(m, refused) ==
    \E way \in {"giveback", "escalate"} :
        drive' = [drive EXCEPT ![m].pc = "look", ![m].way = way, ![m].refused = refused]

\* The store holds no bundle, or cannot be reached.
RestoreFails(m) ==
    /\ At(m, "provision") /\ m \notin present
    /\ ckpt.machine # NoMachine /\ ~ckpt.stale
    /\ \/ ~stored /\ UNCHANGED faults
       \/ Fault
    /\ Raise(m, FALSE)
    /\ UNCHANGED <<runVars, ckpt, treeVars, storeVars, sweep, histVars>>

\* A git command of the restore fails, or the process stops or dies, when the worktree is
\* there and not all of the snapshot is in it.
RestoreHalf(m) ==
    /\ At(m, "provision") /\ m \notin present
    /\ ckpt.machine # NoMachine /\ ~ckpt.stale /\ stored
    /\ \E part \in SUBSET bundle : PutTree(m, part)
    /\ Fault
    /\ Raise(m, FALSE) \/ drive' = [drive EXCEPT ![m] = NoDrive]
    /\ behind' = TRUE
    /\ UNCHANGED <<runVars, ckpt, storeVars, sweep, left, composed>>

\* RunCheckpointMissing: the latest work was not saved off the machine that has it.
Refuse(m) ==
    /\ At(m, "provision")
    /\ ckpt.machine # NoMachine /\ ckpt.stale
    /\ m \notin present \/ (saved_elsewhere(m) /\ ~composed)
    /\ Raise(m, TRUE)
    /\ UNCHANGED <<runVars, ckpt, treeVars, storeVars, sweep, faults, histVars>>

-----------------------------------------------------------------------------
(* The drive, and what it does with its tree when it ends.                  *)

Work(m) ==
    /\ At(m, "work") /\ m \in present
    /\ \E e \in Edits \ tree[m] : tree' = [tree EXCEPT ![m] = @ \union {e}]
    /\ UNCHANGED <<runVars, ckpt, drive, present, takenTrees, storeVars, sweep, faults, histVars>>

\* The drive asks the founder: the Decision is committed before the claim is given up.
Pause(m) ==
    /\ At(m, "work") /\ status = "running"
    /\ asked' = TRUE
    /\ drive' = [drive EXCEPT ![m].pc = "look", ![m].way = "clear"]
    /\ UNCHANGED <<status, home, ckpt, treeVars, storeVars, sweep, faults, histVars>>

\* No executor is free, the process shuts down, the run was cancelled, or the drive raised.
Yield(m) ==
    /\ At(m, "work")
    /\ Raise(m, FALSE)
    /\ UNCHANGED <<runVars, ckpt, treeVars, storeVars, sweep, faults, histVars>>

Fail(m) ==
    /\ At(m, "work") /\ status = "running"
    /\ status' = "over"
    /\ drive' = [drive EXCEPT ![m].pc = "look", ![m].way = "clear"]
    /\ UNCHANGED <<asked, home, ckpt, treeVars, storeVars, sweep, faults, histVars>>

\* A finished run has nothing to continue; the escalation leaves it alone altogether.
Look(m) ==
    /\ At(m, "look")
    /\ \/ status # "over" /\ Goto(m, "upload")
       \/ status = "over" /\ drive[m].way # "escalate" /\ Goto(m, "commit")
       \/ status = "over" /\ drive[m].way = "escalate"
          /\ drive' = [drive EXCEPT ![m] = NoDrive]
    /\ UNCHANGED <<runVars, ckpt, treeVars, storeVars, sweep, faults, histVars>>

\* Mutant: a save that fails is not recorded.
UploadSilent(m) ==
    /\ At(m, "upload")
    /\ \E saved \in {"none", "good"} :
         /\ (saved = "good") => (m \in present)
         /\ IF saved = "good"
              THEN PutBundle(tree[m]) /\ UNCHANGED faults
              ELSE UNCHANGED storeVars /\ (IF m \in present THEN Fault ELSE UNCHANGED faults)
         /\ drive' = [drive EXCEPT ![m].pc = "commit", ![m].saved = saved]
    /\ behind' = (behind \/ (drive[m].refused /\ m \in present))
    /\ UNCHANGED <<runVars, ckpt, treeVars, sweep, left, composed>>

\* checkpoint_run_worktree: the snapshot and its upload, or a failure of either; without a
\* tree there is nothing to save.
Upload(m) ==
    /\ At(m, "upload")
    /\ \E saved \in Saves \ {"untried"} :
         /\ (saved = "none") <=> (m \notin present)
         /\ IF saved = "failed" THEN Fault ELSE UNCHANGED faults
         /\ IF saved = "good" THEN PutBundle(tree[m]) ELSE UNCHANGED storeVars
         /\ drive' = [drive EXCEPT ![m].pc = "commit", ![m].saved = saved]
    /\ behind' = (behind \/ (drive[m].refused /\ m \in present))
    /\ UNCHANGED <<runVars, ckpt, treeVars, sweep, left, composed>>

\* The record of the save and the end of the claim, in one commit.
Commit(m) ==
    /\ At(m, "commit")
    /\ LET d == drive[m] IN
         /\ ckpt' = IF d.saved \in {"good", "failed"}
                      THEN [machine |-> m, stale |-> d.saved = "failed"] ELSE ckpt
         /\ left' = IF d.saved # "untried" /\ m \in present THEN tree[m] ELSE left
         /\ status' = CASE d.way = "giveback" /\ status = "running" -> "open"
                        [] d.way = "escalate" /\ status = "open"    -> "running"
                        [] OTHER -> status
         /\ asked' = (asked \/ (d.way = "escalate" /\ status # "over"))
    /\ home' = NoMachine
    /\ drive' = [drive EXCEPT ![m] = NoDrive]
    /\ UNCHANGED <<treeVars, storeVars, sweep, faults, behind, composed>>

-----------------------------------------------------------------------------
(* The founder, the reapers of claims, and crashes.                         *)

Answer ==
    /\ status = "running" /\ asked
    /\ Orderly => NoDriveRuns
    /\ status' = "open" /\ asked' = FALSE
    /\ UNCHANGED <<home, ckpt, drive, treeVars, storeVars, sweep, faults, histVars>>

\* cancel_run leaves the worktree where it is.
Cancel ==
    /\ status \in {"open", "running"}
    /\ status' = "over" /\ asked' = FALSE
    /\ UNCHANGED <<home, ckpt, drive, treeVars, storeVars, sweep, faults, histVars>>

\* discard_run, on the machine that answers the request: its tree goes, and the bundle too
\* where that machine holds the product's repo.
Discard(m) ==
    /\ status' = "over" /\ asked' = FALSE
    /\ TakeTree(m)
    /\ TakeBundle \/ (m \notin present /\ UNCHANGED storeVars)
    /\ UNCHANGED <<home, ckpt, drive, sweep, faults, histVars>>

\* retry_run, and reopen_run for the founder's message: neither looks at what is left to
\* go on from.
Retry ==
    /\ status = "over"
    /\ Orderly => NoDriveRuns /\ \A m \in Machines : sweep[m] = "idle"
    /\ status' = "open"
    /\ UNCHANGED <<asked, home, ckpt, drive, treeVars, storeVars, sweep, faults, histVars>>

\* _reset_claims_to_open: a claim past its lease, or of a process of this machine that is gone.
Reap ==
    /\ status = "running" /\ home # NoMachine /\ ~asked
    /\ Orderly => At(home, "idle")
    /\ status' = "open" /\ home' = NoMachine
    /\ UNCHANGED <<asked, ckpt, drive, treeVars, storeVars, sweep, faults, histVars>>

\* A process dies: what it was doing is gone, its disk stays.
Crash(m) ==
    /\ ~At(m, "idle") \/ sweep[m] # "idle"
    /\ Fault
    /\ drive' = [drive EXCEPT ![m] = NoDrive]
    /\ sweep' = [sweep EXCEPT ![m] = "idle"]
    /\ UNCHANGED <<runVars, ckpt, treeVars, storeVars, histVars>>

-----------------------------------------------------------------------------
(* The sweeps of a machine's worker: they read which runs are over first,   *)
(* and remove what they found later.                                        *)

SweepLook(m) ==
    /\ status = "over" /\ sweep[m] = "idle"
    /\ \/ m \in present /\ sweep' = [sweep EXCEPT ![m] = "tree"]
       \/ ckpt.machine # NoMachine /\ sweep' = [sweep EXCEPT ![m] = "record"]
    /\ UNCHANGED <<runVars, ckpt, drive, treeVars, storeVars, faults, histVars>>

\* reap_terminal_run_workspaces
SweepTree(m) ==
    /\ sweep[m] = "tree"
    /\ TakeTree(m) /\ TakeBundle
    /\ sweep' = [sweep EXCEPT ![m] = "idle"]
    /\ UNCHANGED <<runVars, ckpt, drive, faults, histVars>>

\* reap_terminal_run_checkpoints: the bundle first, then the record.
SweepRecord(m) ==
    /\ sweep[m] = "record"
    /\ TakeBundle
    /\ ckpt' = NoCheckpoint /\ left' = {}
    /\ sweep' = [sweep EXCEPT ![m] = "idle"]
    /\ UNCHANGED <<runVars, drive, treeVars, faults, behind, composed>>

-----------------------------------------------------------------------------
Next ==
    \/ \E m \in Machines :
         \/ Claim(m) \/ Keep(m) \/ StartFresh(m) \/ DiscardOlder(m)
         \/ Restore(m) \/ RestoreFails(m) \/ RestoreHalf(m) \/ Refuse(m)
         \/ Work(m) \/ Pause(m) \/ Yield(m) \/ Fail(m)
         \/ Look(m) \/ Upload(m) \/ Commit(m)
         \/ Discard(m) \/ Crash(m)
         \/ SweepLook(m) \/ SweepTree(m) \/ SweepRecord(m)
    \/ Answer \/ Cancel \/ Retry \/ Reap

Spec == Init /\ [][Next]_vars

-----------------------------------------------------------------------------
(* What the checkpoint is for.                                              *)

\* A drive that works on a run has every edit the last ended drive left, wherever that one
\* ran and whether or not its save reached the store ("a tree is kept only when this machine
\* saved the latest checkpoint"; "never branched fresh from main").  Work since then is lost
\* only with a crash.
ContinuesWork ==
    \A m \in Machines :
        At(m, "work") /\ status = "running" => m \in present /\ left \subseteq tree[m]

\* It holds but for the three ways to lesser trees the code has: the composed provisioner
\* keeps the tree of a machine the run comes back to; a refusal to go on, and a restore that
\* stops half-way, save the tree that is there as the run's checkpoint with the claim.
ContinuesUnlessBehind == behind \/ ContinuesWork

\* What the record says the run goes on from is there, the bundle of a good save and the
\* tree on the machine whose save failed, unless a discard or a sweep of the finished run
\* was the last to touch it: no crash, failed save or restore, older tree put away or second
\* drive loses it ("a run recorded a checkpoint but nothing can be restored").  A retry does
\* not look, so a run may go on towards what a discard or a sweep has taken.
Resumable ==
    ckpt.machine # NoMachine =>
        IF ckpt.stale THEN ckpt.machine \in present \union takenTrees
                      ELSE stored \/ takenBundle
=============================================================================
