------------------------- MODULE RunCheckpointProofs -------------------------
(***************************************************************************)
(* Proofs of RunCheckpoint: its types, that nothing but a discard or a sweep *)
(* takes away what the run's record says it goes on from, and for a          *)
(* deployment whose leases hold and whose answers and retries wait, that a   *)
(* drive goes on with what the last one left.                               *)
(***************************************************************************)
EXTENDS RunCheckpoint, TLAPS

-----------------------------------------------------------------------------
(* The inductive invariant.                                                 *)

\* One drive at a time, at the run's home while it is RUNNING; sweeps only when it is over.
DriveInv ==
    /\ status = "open" => NoDriveRuns
    /\ \A m, n \in Machines : ~At(m, "idle") /\ ~At(n, "idle") => m = n
    /\ status = "running" => \A m \in Machines : ~At(m, "idle") => home = m
    /\ status # "over" => \A m \in Machines : sweep[m] = "idle"

\* What each step of a drive may rely on.
StepInv(m) ==
    /\ ~At(m, "commit") => drive[m].saved = "untried"
    /\ drive[m].pc \in {"idle", "provision", "work"} => ~drive[m].refused
    /\ At(m, "work") /\ status = "running" => m \in present
    /\ At(m, "commit") => /\ drive[m].saved = "none" => m \notin present
                          /\ drive[m].saved \in {"good", "failed"} /\ drive[m].refused => behind
                          /\ drive[m].saved = "good" /\ stored
                               => m \in present /\ tree[m] \subseteq bundle

\* Where the edits of the last ended drive are, as long as no drive fell behind them: in
\* the save, in the tree of the machine that made it, and in the tree under way.
LeftInv ==
    /\ ckpt.machine = NoMachine => left = {}
    /\ stored /\ ckpt.machine # NoMachine /\ ~ckpt.stale => left \subseteq bundle
    /\ \A m \in present : ckpt.machine = m => left \subseteq tree[m]
    /\ \A m \in present :
         drive[m].pc \in {"work", "look", "upload", "commit"} /\ ~drive[m].refused
           => left \subseteq tree[m]

\* What a drive that is about to record its save relies on, whatever else is going on.
SavedInv ==
    /\ Resumable
    /\ \A m \in Machines :
          /\ ~At(m, "commit") => drive[m].saved = "untried"
          /\ drive[m].saved = "good"   => stored \/ takenBundle
          /\ drive[m].saved = "failed" => m \in present \union takenTrees

IInv ==
    /\ TypeOK /\ DriveInv
    /\ \A m \in Machines : StepInv(m)
    /\ behind \/ LeftInv

-----------------------------------------------------------------------------
(* Steps keep the types.                                                    *)

\* A drive that is not there.
LEMMA NoDriveType == NoDrive \in Drives
  BY DEF NoDrive, Drives, Steps, Ways, Saves

\* Two or three fields of a drive are set.
LEMMA SetFields ==
    ASSUME NEW f \in [Machines -> Drives], NEW m \in Machines, NEW x \in Steps
    PROVE  /\ \A y \in Ways : [f EXCEPT ![m].pc = x, ![m].way = y] \in [Machines -> Drives]
           /\ \A y \in Ways, z \in BOOLEAN :
                 [f EXCEPT ![m].pc = x, ![m].way = y, ![m].refused = z] \in [Machines -> Drives]
           /\ \A y \in Saves : [f EXCEPT ![m].pc = x, ![m].saved = y] \in [Machines -> Drives]
<1>1. \A y \in Ways : [f EXCEPT ![m].pc = x, ![m].way = y] \in [Machines -> Drives]
  BY DEF Drives
<1>2. \A y \in Ways, z \in BOOLEAN :
                 [f EXCEPT ![m].pc = x, ![m].way = y, ![m].refused = z] \in [Machines -> Drives]
  BY DEF Drives
<1>3. \A y \in Saves : [f EXCEPT ![m].pc = x, ![m].saved = y] \in [Machines -> Drives]
  BY DEF Drives
<1> QED
  BY <1>1, <1>2, <1>3

\* A drive that raises goes on to look at its run.
LEMMA RaiseTypes ==
    ASSUME TypeOK, NEW m \in Machines, NEW refused \in BOOLEAN, Raise(m, refused)
    PROVE  drive' \in [Machines -> Drives]
<1>1. PICK way \in {"giveback", "escalate"} :
         drive' = [drive EXCEPT ![m].pc = "look", ![m].way = way, ![m].refused = refused]
  BY Zenon DEF Raise
<1>2. drive \in [Machines -> Drives]
  BY DEF TypeOK
<1>3. way \in Ways /\ "look" \in Steps
  BY DEF Ways, Steps
<1>4. \A y \in Ways, z \in BOOLEAN :
         [drive EXCEPT ![m].pc = "look", ![m].way = y, ![m].refused = z] \in [Machines -> Drives]
  BY <1>2, <1>3, SetFields
<1>5. [drive EXCEPT ![m].pc = "look", ![m].way = way, ![m].refused = refused]
         \in [Machines -> Drives]
  BY <1>3, <1>4, Zenon
<1> QED
  BY <1>1, <1>5, Zenon

\* So does one that ends by clearing its claim.
LEMMA ClearTypes ==
    ASSUME TypeOK, NEW m \in Machines,
           drive' = [drive EXCEPT ![m].pc = "look", ![m].way = "clear"]
    PROVE  drive' \in [Machines -> Drives]
<1>1. drive \in [Machines -> Drives]
  BY DEF TypeOK
<1>2. "clear" \in Ways /\ "look" \in Steps
  BY DEF Ways, Steps
<1>3. \A y \in Ways : [drive EXCEPT ![m].pc = "look", ![m].way = y] \in [Machines -> Drives]
  BY <1>1, <1>2, SetFields
<1> QED
  BY <1>2, <1>3, Zenon

\* The types to begin with.
LEMMA InitTypes == Init => TypeOK
<1> SUFFICES ASSUME Init PROVE TypeOK
  OBVIOUS
<1>1. drive \in [Machines -> Drives]
  BY NoDriveType DEF Init
<1>2. ckpt \in  [machine : Machines \union {NoMachine}, stale : BOOLEAN]
  BY DEF Init, NoCheckpoint
<1>3. faults \in 0..MaxFaults
  BY CheckpointConstants DEF Init
<1>4. /\ home \in Machines \union {NoMachine}
      /\ present \subseteq Machines /\ tree \in [Machines -> SUBSET Edits]
      /\ bundle \subseteq Edits /\ left \subseteq Edits
      /\ sweep \in [Machines -> {"idle", "tree", "record"}]
  BY DEF Init
<1>5. /\ status \in {"open", "running", "over"} /\ asked \in BOOLEAN /\ stored \in BOOLEAN
      /\ behind \in BOOLEAN /\ composed \in BOOLEAN /\ takenBundle \in BOOLEAN
  BY Zenon DEF Init
<1>6. takenTrees \subseteq Machines
  BY DEF Init
<1> QED
  BY <1>1, <1>2, <1>3, <1>4, <1>5, <1>6, Zenon DEF TypeOK

\* Every step keeps the types.
LEMMA TypesKept ==
    ASSUME TypeOK, [Next]_vars
    PROVE  TypeOK'
<1> USE CheckpointConstants DEF runVars, treeVars, storeVars, histVars
<1>1. ASSUME NEW m \in Machines, Claim(m) PROVE TypeOK'
  BY <1>1 DEF Claim, NoDrive, TypeOK, Drives, Steps, Ways, Saves
<1>2. ASSUME NEW m \in Machines, Keep(m) PROVE TypeOK'
  BY <1>2 DEF Keep, Goto, TypeOK, Drives, Steps, Ways, Saves
<1>3. ASSUME NEW m \in Machines, StartFresh(m) PROVE TypeOK'
  BY <1>3 DEF StartFresh, PutTree, Goto, TypeOK, Drives, Steps, Ways, Saves
<1>4. ASSUME NEW m \in Machines, DiscardOlder(m) PROVE TypeOK'
  BY <1>4 DEF DiscardOlder, DropTree, TypeOK, Drives, Steps, Ways, Saves
<1>5. ASSUME NEW m \in Machines, Restore(m) PROVE TypeOK'
  BY <1>5 DEF Restore, PutTree, Goto, TypeOK, Drives, Steps, Ways, Saves
<1>6. ASSUME NEW m \in Machines, RestoreFails(m) PROVE TypeOK'
  <2>1. drive' \in [Machines -> Drives]
    <3>1. Raise(m, FALSE)
      BY <1>6, Zenon DEF RestoreFails
    <3> QED
      BY <3>1, RaiseTypes
  <2>2. UNCHANGED <<runVars, ckpt, treeVars, storeVars, sweep, histVars>>
    BY <1>6, Zenon DEF RestoreFails
  <2>3. faults' \in 0..MaxFaults
    <3>1. Fault \/ UNCHANGED faults
      BY <1>6, Zenon DEF RestoreFails
    <3> QED
      BY <3>1 DEF Fault, TypeOK
  <2> QED
    BY <2>1, <2>2, <2>3 DEF TypeOK
<1>7. ASSUME NEW m \in Machines, RestoreHalf(m) PROVE TypeOK'
  <2>1. drive' \in [Machines -> Drives]
    <3>1. CASE Raise(m, FALSE)
      BY <3>1, RaiseTypes
    <3>2. CASE drive' = [drive EXCEPT ![m] = NoDrive]
      BY <3>2, NoDriveType DEF TypeOK
    <3> QED
      BY <1>7, <3>1, <3>2, Zenon DEF RestoreHalf
  <2>2. /\ Fault /\ behind' = TRUE
        /\ \E part \in SUBSET bundle : PutTree(m, part)
        /\ UNCHANGED <<runVars, ckpt, storeVars, sweep, left, composed>>
    BY <1>7, Zenon DEF RestoreHalf
  <2> QED
    BY <2>1, <2>2 DEF Fault, PutTree, TypeOK
<1>8. ASSUME NEW m \in Machines, Refuse(m) PROVE TypeOK'
  <2>1. drive' \in [Machines -> Drives]
    <3>1. Raise(m, TRUE)
      BY <1>8, Zenon DEF Refuse
    <3> QED
      BY <3>1, RaiseTypes
  <2>2. UNCHANGED <<runVars, ckpt, treeVars, storeVars, sweep, histVars>>
    BY <1>8, Zenon DEF Refuse
  <2>3. UNCHANGED faults
    BY <1>8, Zenon DEF Refuse
  <2> QED
    BY <2>1, <2>2, <2>3 DEF TypeOK
<1>9. ASSUME NEW m \in Machines, Work(m) PROVE TypeOK'
  BY <1>9 DEF Work, TypeOK, Drives, Steps, Ways, Saves
<1>10. ASSUME NEW m \in Machines, Pause(m) PROVE TypeOK'
  <2>1. drive' \in [Machines -> Drives]
    <3>1. drive' = [drive EXCEPT ![m].pc = "look", ![m].way = "clear"]
      BY <1>10, Zenon DEF Pause
    <3> QED
      BY <3>1, ClearTypes
  <2> QED
    BY <1>10, <2>1 DEF Pause, TypeOK
<1>11. ASSUME NEW m \in Machines, Yield(m) PROVE TypeOK'
  <2>1. drive' \in [Machines -> Drives]
    <3>1. Raise(m, FALSE)
      BY <1>11, Zenon DEF Yield
    <3> QED
      BY <3>1, RaiseTypes
  <2>2. UNCHANGED <<runVars, ckpt, treeVars, storeVars, sweep, histVars>>
    BY <1>11, Zenon DEF Yield
  <2>3. UNCHANGED faults
    BY <1>11, Zenon DEF Yield
  <2> QED
    BY <2>1, <2>2, <2>3 DEF TypeOK
<1>12. ASSUME NEW m \in Machines, Fail(m) PROVE TypeOK'
  <2>1. drive' \in [Machines -> Drives]
    <3>1. drive' = [drive EXCEPT ![m].pc = "look", ![m].way = "clear"]
      BY <1>12, Zenon DEF Fail
    <3> QED
      BY <3>1, ClearTypes
  <2> QED
    BY <1>12, <2>1 DEF Fail, TypeOK
<1>13. ASSUME NEW m \in Machines, Look(m) PROVE TypeOK'
  <2>1. drive' \in [Machines -> Drives]
    <3>1. CASE drive' = [drive EXCEPT ![m] = NoDrive]
      BY <3>1, NoDriveType DEF TypeOK
    <3>2. ASSUME NEW step \in Steps, drive' = [drive EXCEPT ![m].pc = step]
          PROVE  drive' \in [Machines -> Drives]
      BY <3>2 DEF TypeOK, Drives
    <3> QED
      BY <1>13, <3>1, <3>2 DEF Look, Goto, Steps
  <2> QED
    BY <1>13, <2>1, Zenon DEF Look, TypeOK
<1>14. ASSUME NEW m \in Machines, Upload(m) PROVE TypeOK'
  <2>1. PICK saved \in Saves \ {"untried"} :
           /\ IF saved = "failed" THEN Fault ELSE UNCHANGED faults
           /\ IF saved = "good" THEN PutBundle(tree[m]) ELSE UNCHANGED storeVars
           /\ drive' = [drive EXCEPT ![m].pc = "commit", ![m].saved = saved]
    BY <1>14 DEF Upload
  <2>2. drive' \in [Machines -> Drives]
    <3>1. drive \in [Machines -> Drives] /\ "commit" \in Steps
      BY DEF TypeOK, Steps
    <3>2. \A y \in Saves :
             [drive EXCEPT ![m].pc = "commit", ![m].saved = y] \in [Machines -> Drives]
      BY <3>1, SetFields
    <3> QED
      BY <2>1, <3>2, Zenon
  <2>3. faults' \in 0..MaxFaults
    BY <2>1 DEF TypeOK, Fault
  <2>4. stored' \in BOOLEAN /\ takenBundle' \in BOOLEAN
    BY <2>1, Zenon DEF TypeOK, PutBundle
  <2>5. bundle' \subseteq Edits
    BY <2>1 DEF TypeOK, PutBundle
  <2>6. behind' \in BOOLEAN
    BY <1>14 DEF Upload
  <2>7. UNCHANGED <<runVars, ckpt, treeVars, sweep, left, composed>>
    BY <1>14 DEF Upload
  <2> QED
    BY <2>2, <2>3, <2>4, <2>5, <2>6, <2>7 DEF TypeOK
<1>15. ASSUME NEW m \in Machines, Commit(m) PROVE TypeOK'
  BY <1>15 DEF Commit, NoDrive, TypeOK, Drives, Steps, Ways, Saves
<1>16. ASSUME NEW m \in Machines, Discard(m) PROVE TypeOK'
  BY <1>16 DEF Discard, TakeTree, TakeBundle, DropTree, TypeOK, Drives, Steps, Ways, Saves
<1>17. ASSUME NEW m \in Machines, Crash(m) PROVE TypeOK'
  BY <1>17 DEF Crash, Fault, NoDrive, TypeOK, Drives, Steps, Ways, Saves
<1>18. ASSUME NEW m \in Machines, SweepLook(m) PROVE TypeOK'
  BY <1>18 DEF SweepLook, TypeOK, Drives, Steps, Ways, Saves
<1>19. ASSUME NEW m \in Machines, SweepTree(m) PROVE TypeOK'
  BY <1>19 DEF SweepTree, TakeTree, TakeBundle, DropTree, TypeOK, Drives, Steps, Ways, Saves
<1>20. ASSUME NEW m \in Machines, SweepRecord(m) PROVE TypeOK'
  BY <1>20 DEF SweepRecord, TakeBundle, NoCheckpoint, TypeOK, Drives, Steps, Ways, Saves
<1>21. ASSUME Answer PROVE TypeOK'
  BY <1>21 DEF Answer, TypeOK, Drives, Steps, Ways, Saves
<1>22. ASSUME Cancel PROVE TypeOK'
  BY <1>22 DEF Cancel, TypeOK, Drives, Steps, Ways, Saves
<1>23. ASSUME Retry PROVE TypeOK'
  BY <1>23 DEF Retry, TypeOK, Drives, Steps, Ways, Saves
<1>24. ASSUME Reap PROVE TypeOK'
  BY <1>24 DEF Reap, TypeOK, Drives, Steps, Ways, Saves
<1>25. ASSUME UNCHANGED vars PROVE TypeOK'
  BY <1>25 DEF TypeOK, Drives, Steps, Ways, Saves, vars
<1> QED
  BY <1>1, <1>2, <1>3, <1>4, <1>5, <1>6, <1>7, <1>8, <1>9, <1>10, <1>11, <1>12,
     <1>13, <1>14, <1>15, <1>16, <1>17, <1>18, <1>19, <1>20, <1>21, <1>22, <1>23, <1>24, <1>25 DEF Next

\* The types of the variables, for every set of machines and edits and every schedule.
THEOREM CheckpointTypes == Spec => []TypeOK
  BY InitTypes, TypesKept, PTL DEF Spec

-----------------------------------------------------------------------------
(* Steps keep the rest of the invariant, in a deployment that is Orderly.   *)

\* One drive at a time, where the claim is.
LEMMA DriveKept ==
    ASSUME TypeOK, DriveInv, Orderly, [Next]_vars
    PROVE  DriveInv'
<1> USE CheckpointConstants DEF runVars, treeVars, storeVars, histVars
<1>1. ASSUME NEW m \in Machines, Claim(m) PROVE DriveInv'
  BY <1>1 DEF Claim, NoDrive, DriveInv, TypeOK, Drives, At, NoDriveRuns, Steps
<1>2. ASSUME NEW m \in Machines, Keep(m) PROVE DriveInv'
  BY <1>2 DEF Keep, Goto, DriveInv, TypeOK, Drives, At, NoDriveRuns, Steps
<1>3. ASSUME NEW m \in Machines, StartFresh(m) PROVE DriveInv'
  BY <1>3 DEF StartFresh, PutTree, Goto, DriveInv, TypeOK, Drives, At, NoDriveRuns, Steps
<1>4. ASSUME NEW m \in Machines, DiscardOlder(m) PROVE DriveInv'
  BY <1>4 DEF DiscardOlder, DropTree, DriveInv, TypeOK, Drives, At, NoDriveRuns, Steps
<1>5. ASSUME NEW m \in Machines, Restore(m) PROVE DriveInv'
  BY <1>5 DEF Restore, PutTree, Goto, DriveInv, TypeOK, Drives, At, NoDriveRuns, Steps
<1>6. ASSUME NEW m \in Machines, RestoreFails(m) PROVE DriveInv'
  BY <1>6 DEF RestoreFails, Fault, Raise, DriveInv, TypeOK, Drives, At, NoDriveRuns, Steps
<1>7. ASSUME NEW m \in Machines, RestoreHalf(m) PROVE DriveInv'
  BY <1>7 DEF RestoreHalf, PutTree, Fault, Raise, NoDrive, DriveInv, TypeOK, Drives, At,
              NoDriveRuns, Steps
<1>8. ASSUME NEW m \in Machines, Refuse(m) PROVE DriveInv'
  BY <1>8 DEF Refuse, Raise, DriveInv, TypeOK, Drives, At, NoDriveRuns, Steps
<1>9. ASSUME NEW m \in Machines, Work(m) PROVE DriveInv'
  BY <1>9 DEF Work, DriveInv, TypeOK, Drives, At, NoDriveRuns, Steps
<1>10. ASSUME NEW m \in Machines, Pause(m) PROVE DriveInv'
  BY <1>10 DEF Pause, DriveInv, TypeOK, Drives, At, NoDriveRuns, Steps
<1>11. ASSUME NEW m \in Machines, Yield(m) PROVE DriveInv'
  BY <1>11 DEF Yield, Raise, DriveInv, TypeOK, Drives, At, NoDriveRuns, Steps
<1>12. ASSUME NEW m \in Machines, Fail(m) PROVE DriveInv'
  BY <1>12 DEF Fail, DriveInv, TypeOK, Drives, At, NoDriveRuns, Steps
<1>13. ASSUME NEW m \in Machines, Look(m) PROVE DriveInv'
  BY <1>13 DEF Look, Goto, NoDrive, DriveInv, TypeOK, Drives, At, NoDriveRuns, Steps
<1>14. ASSUME NEW m \in Machines, Upload(m) PROVE DriveInv'
  BY <1>14 DEF Upload, PutBundle, Fault, DriveInv, TypeOK, Drives, At, NoDriveRuns, Steps
<1>15. ASSUME NEW m \in Machines, Commit(m) PROVE DriveInv'
  BY <1>15 DEF Commit, NoDrive, DriveInv, TypeOK, Drives, At, NoDriveRuns, Steps
<1>16. ASSUME NEW m \in Machines, Discard(m) PROVE DriveInv'
  BY <1>16 DEF Discard, TakeTree, TakeBundle, DropTree, DriveInv, TypeOK, Drives, At, NoDriveRuns, Steps
<1>17. ASSUME NEW m \in Machines, Crash(m) PROVE DriveInv'
  BY <1>17 DEF Crash, Fault, NoDrive, DriveInv, TypeOK, Drives, At, NoDriveRuns, Steps
<1>18. ASSUME NEW m \in Machines, SweepLook(m) PROVE DriveInv'
  BY <1>18 DEF SweepLook, DriveInv, TypeOK, Drives, At, NoDriveRuns, Steps
<1>19. ASSUME NEW m \in Machines, SweepTree(m) PROVE DriveInv'
  BY <1>19 DEF SweepTree, TakeTree, TakeBundle, DropTree, DriveInv, TypeOK, Drives, At, NoDriveRuns, Steps
<1>20. ASSUME NEW m \in Machines, SweepRecord(m) PROVE DriveInv'
  BY <1>20 DEF SweepRecord, TakeBundle, NoCheckpoint, DriveInv, TypeOK, Drives, At, NoDriveRuns, Steps
<1>21. ASSUME Answer PROVE DriveInv'
  BY <1>21 DEF Answer, DriveInv, TypeOK, Drives, At, NoDriveRuns, Steps
<1>22. ASSUME Cancel PROVE DriveInv'
  BY <1>22 DEF Cancel, DriveInv, TypeOK, Drives, At, NoDriveRuns, Steps
<1>23. ASSUME Retry PROVE DriveInv'
  BY <1>23 DEF Retry, DriveInv, TypeOK, Drives, At, NoDriveRuns, Steps
<1>24. ASSUME Reap PROVE DriveInv'
  BY <1>24 DEF Reap, DriveInv, TypeOK, Drives, At, NoDriveRuns, Steps
<1>25. ASSUME UNCHANGED vars PROVE DriveInv'
  BY <1>25 DEF DriveInv, TypeOK, Drives, At, NoDriveRuns, Steps, vars
<1> QED
  BY <1>1, <1>2, <1>3, <1>4, <1>5, <1>6, <1>7, <1>8, <1>9, <1>10, <1>11, <1>12,
     <1>13, <1>14, <1>15, <1>16, <1>17, <1>18, <1>19, <1>20, <1>21, <1>22, <1>23, <1>24, <1>25 DEF Next

\* What a step may rely on when it is taken.
LEMMA StepKept ==
    ASSUME TypeOK, DriveInv, \A m \in Machines : StepInv(m), Orderly, [Next]_vars
    PROVE  \A n \in Machines : StepInv(n)'
<1> USE CheckpointConstants DEF runVars, treeVars, storeVars, histVars
<1>1. ASSUME NEW m \in Machines, Claim(m) PROVE \A n \in Machines : StepInv(n)'
  BY <1>1 DEF Claim, NoDrive, StepInv, DriveInv, TypeOK, Drives, At, NoDriveRuns, Steps, Saves
<1>2. ASSUME NEW m \in Machines, Keep(m) PROVE \A n \in Machines : StepInv(n)'
  BY <1>2 DEF Keep, Goto, StepInv, DriveInv, TypeOK, Drives, At, NoDriveRuns, Steps, Saves
<1>3. ASSUME NEW m \in Machines, StartFresh(m) PROVE \A n \in Machines : StepInv(n)'
  BY <1>3 DEF StartFresh, PutTree, Goto, StepInv, DriveInv, TypeOK, Drives, At, NoDriveRuns,
              Steps, Saves
<1>4. ASSUME NEW m \in Machines, DiscardOlder(m) PROVE \A n \in Machines : StepInv(n)'
  BY <1>4 DEF DiscardOlder, DropTree, StepInv, DriveInv, TypeOK, Drives, At, NoDriveRuns, Steps,
              Saves
<1>5. ASSUME NEW m \in Machines, Restore(m) PROVE \A n \in Machines : StepInv(n)'
  BY <1>5 DEF Restore, PutTree, Goto, StepInv, DriveInv, TypeOK, Drives, At, NoDriveRuns, Steps,
              Saves
<1>6. ASSUME NEW m \in Machines, RestoreFails(m) PROVE \A n \in Machines : StepInv(n)'
  BY <1>6 DEF RestoreFails, Fault, Raise, StepInv, DriveInv, TypeOK, Drives, At, NoDriveRuns,
              Steps, Saves
<1>7. ASSUME NEW m \in Machines, RestoreHalf(m) PROVE \A n \in Machines : StepInv(n)'
  BY <1>7 DEF RestoreHalf, PutTree, Fault, Raise, NoDrive, StepInv, DriveInv, TypeOK, Drives,
              At, NoDriveRuns, Steps, Saves
<1>8. ASSUME NEW m \in Machines, Refuse(m) PROVE \A n \in Machines : StepInv(n)'
  BY <1>8 DEF Refuse, Raise, StepInv, DriveInv, TypeOK, Drives, At, NoDriveRuns, Steps, Saves
<1>9. ASSUME NEW m \in Machines, Work(m) PROVE \A n \in Machines : StepInv(n)'
  BY <1>9 DEF Work, StepInv, DriveInv, TypeOK, Drives, At, NoDriveRuns, Steps, Saves
<1>10. ASSUME NEW m \in Machines, Pause(m) PROVE \A n \in Machines : StepInv(n)'
  BY <1>10 DEF Pause, StepInv, DriveInv, TypeOK, Drives, At, NoDriveRuns, Steps, Saves
<1>11. ASSUME NEW m \in Machines, Yield(m) PROVE \A n \in Machines : StepInv(n)'
  BY <1>11 DEF Yield, Raise, StepInv, DriveInv, TypeOK, Drives, At, NoDriveRuns, Steps, Saves
<1>12. ASSUME NEW m \in Machines, Fail(m) PROVE \A n \in Machines : StepInv(n)'
  BY <1>12 DEF Fail, StepInv, DriveInv, TypeOK, Drives, At, NoDriveRuns, Steps, Saves
<1>13. ASSUME NEW m \in Machines, Look(m) PROVE \A n \in Machines : StepInv(n)'
  BY <1>13 DEF Look, Goto, NoDrive, StepInv, DriveInv, TypeOK, Drives, At, NoDriveRuns, Steps,
               Saves
<1>14. ASSUME NEW m \in Machines, Upload(m) PROVE \A n \in Machines : StepInv(n)'
  <2>1. PICK saved \in Saves \ {"untried"} :
           /\ (saved = "none") <=> (m \notin present)
           /\ IF saved = "good" THEN PutBundle(tree[m]) ELSE UNCHANGED storeVars
           /\ drive' = [drive EXCEPT ![m].pc = "commit", ![m].saved = saved]
    BY <1>14, Zenon DEF Upload
  <2>2. /\ At(m, "upload") /\ behind' = (behind \/ (drive[m].refused /\ m \in present))
        /\ UNCHANGED <<status, present, tree>>
    BY <1>14, Zenon DEF Upload
  <2>3. drive'[m] = [drive[m] EXCEPT !.pc = "commit", !.saved = saved]
    BY <2>1 DEF TypeOK
  <2>4. /\ drive'[m].pc = "commit" /\ drive'[m].saved = saved
        /\ drive'[m].refused = drive[m].refused
    BY <2>3 DEF TypeOK, Drives
  <2>5. StepInv(m)'
    BY <2>1, <2>2, <2>4 DEF StepInv, At, Saves, PutBundle
  <2>6. ASSUME NEW n \in Machines, n # m PROVE StepInv(n)'
    <3>1. drive'[n] = drive[n]
      BY <2>1, <2>6 DEF TypeOK
    <3>2. drive[n].pc = "idle"
      BY <2>2, <2>6 DEF DriveInv, At
    <3> QED
      BY <3>1, <3>2 DEF StepInv, At
  <2> QED
    BY <2>5, <2>6
<1>15. ASSUME NEW m \in Machines, Commit(m) PROVE \A n \in Machines : StepInv(n)'
  BY <1>15 DEF Commit, NoDrive, StepInv, DriveInv, TypeOK, Drives, At, NoDriveRuns, Steps, Saves
<1>16. ASSUME NEW m \in Machines, Discard(m) PROVE \A n \in Machines : StepInv(n)'
  <2>1. /\ status' = "over" /\ present' = present \ {m} /\ tree' = [tree EXCEPT ![m] = {}]
        /\ UNCHANGED <<drive, bundle, behind>>
    BY <1>16, Zenon DEF Discard, TakeTree, DropTree, TakeBundle
  <2>2. stored' => stored /\ m \notin present
    BY <1>16, Zenon DEF Discard, TakeBundle
  <2>3. ASSUME NEW n \in Machines PROVE StepInv(n)'
    <3>1. n # m => tree'[n] = tree[n] /\ (n \in present => n \in present')
      BY <2>1 DEF TypeOK
    <3>2. StepInv(n)
      OBVIOUS
    <3> QED
      BY <2>1, <2>2, <3>1, <3>2 DEF StepInv, At
  <2> QED
    BY <2>3
<1>17. ASSUME NEW m \in Machines, Crash(m) PROVE \A n \in Machines : StepInv(n)'
  BY <1>17 DEF Crash, Fault, NoDrive, StepInv, DriveInv, TypeOK, Drives, At, NoDriveRuns, Steps,
               Saves
<1>18. ASSUME NEW m \in Machines, SweepLook(m) PROVE \A n \in Machines : StepInv(n)'
  BY <1>18 DEF SweepLook, StepInv, DriveInv, TypeOK, Drives, At, NoDriveRuns, Steps, Saves
<1>19. ASSUME NEW m \in Machines, SweepTree(m) PROVE \A n \in Machines : StepInv(n)'
  BY <1>19 DEF SweepTree, TakeTree, TakeBundle, DropTree, StepInv, DriveInv, TypeOK, Drives, At, NoDriveRuns, Steps,
               Saves
<1>20. ASSUME NEW m \in Machines, SweepRecord(m) PROVE \A n \in Machines : StepInv(n)'
  BY <1>20 DEF SweepRecord, TakeBundle, NoCheckpoint, StepInv, DriveInv, TypeOK, Drives, At, NoDriveRuns,
               Steps, Saves
<1>21. ASSUME Answer PROVE \A n \in Machines : StepInv(n)'
  BY <1>21 DEF Answer, StepInv, DriveInv, TypeOK, Drives, At, NoDriveRuns, Steps, Saves
<1>22. ASSUME Cancel PROVE \A n \in Machines : StepInv(n)'
  BY <1>22 DEF Cancel, StepInv, DriveInv, TypeOK, Drives, At, NoDriveRuns, Steps, Saves
<1>23. ASSUME Retry PROVE \A n \in Machines : StepInv(n)'
  BY <1>23 DEF Retry, StepInv, DriveInv, TypeOK, Drives, At, NoDriveRuns, Steps, Saves
<1>24. ASSUME Reap PROVE \A n \in Machines : StepInv(n)'
  BY <1>24 DEF Reap, StepInv, DriveInv, TypeOK, Drives, At, NoDriveRuns, Steps, Saves
<1>25. ASSUME UNCHANGED vars PROVE \A n \in Machines : StepInv(n)'
  BY <1>25 DEF StepInv, DriveInv, TypeOK, Drives, At, NoDriveRuns, Steps, Saves, vars
<1> QED
  BY <1>1, <1>2, <1>3, <1>4, <1>5, <1>6, <1>7, <1>8, <1>9, <1>10, <1>11, <1>12,
     <1>13, <1>14, <1>15, <1>16, <1>17, <1>18, <1>19, <1>20, <1>21, <1>22, <1>23, <1>24, <1>25 DEF Next

\* What the last ended drive left stays where the next one finds it.
LEMMA LeftKept ==
    ASSUME IInv, Orderly, [Next]_vars
    PROVE  (behind \/ LeftInv)'
<1> USE CheckpointConstants DEF runVars, treeVars, storeVars, histVars
<1>1. ASSUME NEW m \in Machines, Claim(m) PROVE (behind \/ LeftInv)'
  BY <1>1 DEF Claim, NoDrive, IInv, LeftInv, StepInv, DriveInv, TypeOK, Drives, At, Saves, Steps
<1>2. ASSUME NEW m \in Machines, Keep(m) PROVE (behind \/ LeftInv)'
  BY <1>2 DEF Keep, Goto, IInv, LeftInv, StepInv, DriveInv, TypeOK, Drives, At, Saves, Steps,
              saved_elsewhere
<1>3. ASSUME NEW m \in Machines, StartFresh(m) PROVE (behind \/ LeftInv)'
  BY <1>3 DEF StartFresh, PutTree, Goto, IInv, LeftInv, StepInv, DriveInv, TypeOK, Drives, At,
              Saves, Steps
<1>4. ASSUME NEW m \in Machines, DiscardOlder(m) PROVE (behind \/ LeftInv)'
  BY <1>4 DEF DiscardOlder, DropTree, IInv, LeftInv, StepInv, DriveInv, TypeOK, Drives, At,
              Saves, Steps, saved_elsewhere
<1>5. ASSUME NEW m \in Machines, Restore(m) PROVE (behind \/ LeftInv)'
  BY <1>5 DEF Restore, PutTree, Goto, IInv, LeftInv, StepInv, DriveInv, TypeOK, Drives, At,
              Saves, Steps
<1>6. ASSUME NEW m \in Machines, RestoreFails(m) PROVE (behind \/ LeftInv)'
  BY <1>6 DEF RestoreFails, Fault, Raise, IInv, LeftInv, StepInv, DriveInv, TypeOK, Drives, At,
              Saves, Steps
<1>7. ASSUME NEW m \in Machines, RestoreHalf(m) PROVE (behind \/ LeftInv)'
  BY <1>7 DEF RestoreHalf, PutTree, Fault, Raise, NoDrive, IInv, LeftInv, StepInv, DriveInv,
              TypeOK, Drives, At, Saves, Steps
<1>8. ASSUME NEW m \in Machines, Refuse(m) PROVE (behind \/ LeftInv)'
  BY <1>8 DEF Refuse, Raise, IInv, LeftInv, StepInv, DriveInv, TypeOK, Drives, At, Saves, Steps
<1>9. ASSUME NEW m \in Machines, Work(m) PROVE (behind \/ LeftInv)'
  BY <1>9 DEF Work, IInv, LeftInv, StepInv, DriveInv, TypeOK, Drives, At, Saves, Steps
<1>10. ASSUME NEW m \in Machines, Pause(m) PROVE (behind \/ LeftInv)'
  BY <1>10 DEF Pause, IInv, LeftInv, StepInv, DriveInv, TypeOK, Drives, At, Saves, Steps
<1>11. ASSUME NEW m \in Machines, Yield(m) PROVE (behind \/ LeftInv)'
  BY <1>11 DEF Yield, Raise, IInv, LeftInv, StepInv, DriveInv, TypeOK, Drives, At, Saves, Steps
<1>12. ASSUME NEW m \in Machines, Fail(m) PROVE (behind \/ LeftInv)'
  BY <1>12 DEF Fail, IInv, LeftInv, StepInv, DriveInv, TypeOK, Drives, At, Saves, Steps
<1>13. ASSUME NEW m \in Machines, Look(m) PROVE (behind \/ LeftInv)'
  BY <1>13 DEF Look, Goto, NoDrive, IInv, LeftInv, StepInv, DriveInv, TypeOK, Drives, At, Saves,
               Steps
<1>14. ASSUME NEW m \in Machines, Upload(m) PROVE (behind \/ LeftInv)'
  BY <1>14 DEF Upload, PutBundle, Fault, IInv, LeftInv, StepInv, DriveInv, TypeOK, Drives, At, Saves, Steps
<1>15. ASSUME NEW m \in Machines, Commit(m) PROVE (behind \/ LeftInv)'
  BY <1>15 DEF Commit, NoDrive, IInv, LeftInv, StepInv, DriveInv, TypeOK, Drives, At, Saves,
               Steps
<1>16. ASSUME NEW m \in Machines, Discard(m) PROVE (behind \/ LeftInv)'
  BY <1>16 DEF Discard, TakeTree, TakeBundle, DropTree, IInv, LeftInv, StepInv, DriveInv, TypeOK, Drives, At, Saves,
               Steps
<1>17. ASSUME NEW m \in Machines, Crash(m) PROVE (behind \/ LeftInv)'
  BY <1>17 DEF Crash, Fault, NoDrive, IInv, LeftInv, StepInv, DriveInv, TypeOK, Drives, At,
               Saves, Steps
<1>18. ASSUME NEW m \in Machines, SweepLook(m) PROVE (behind \/ LeftInv)'
  BY <1>18 DEF SweepLook, IInv, LeftInv, StepInv, DriveInv, TypeOK, Drives, At, Saves, Steps
<1>19. ASSUME NEW m \in Machines, SweepTree(m) PROVE (behind \/ LeftInv)'
  BY <1>19 DEF SweepTree, TakeTree, TakeBundle, DropTree, IInv, LeftInv, StepInv, DriveInv, TypeOK, Drives, At, Saves,
               Steps
<1>20. ASSUME NEW m \in Machines, SweepRecord(m) PROVE (behind \/ LeftInv)'
  BY <1>20 DEF SweepRecord, TakeBundle, NoCheckpoint, IInv, LeftInv, StepInv, DriveInv, TypeOK, Drives, At,
               Saves, Steps
<1>21. ASSUME Answer PROVE (behind \/ LeftInv)'
  BY <1>21 DEF Answer, IInv, LeftInv, StepInv, DriveInv, TypeOK, Drives, At, Saves, Steps
<1>22. ASSUME Cancel PROVE (behind \/ LeftInv)'
  BY <1>22 DEF Cancel, IInv, LeftInv, StepInv, DriveInv, TypeOK, Drives, At, Saves, Steps
<1>23. ASSUME Retry PROVE (behind \/ LeftInv)'
  BY <1>23 DEF Retry, IInv, LeftInv, StepInv, DriveInv, TypeOK, Drives, At, Saves, Steps
<1>24. ASSUME Reap PROVE (behind \/ LeftInv)'
  BY <1>24 DEF Reap, IInv, LeftInv, StepInv, DriveInv, TypeOK, Drives, At, Saves, Steps
<1>25. ASSUME UNCHANGED vars PROVE (behind \/ LeftInv)'
  BY <1>25 DEF IInv, LeftInv, StepInv, DriveInv, TypeOK, Drives, At, Saves, Steps, vars
<1> QED
  BY <1>1, <1>2, <1>3, <1>4, <1>5, <1>6, <1>7, <1>8, <1>9, <1>10, <1>11, <1>12,
     <1>13, <1>14, <1>15, <1>16, <1>17, <1>18, <1>19, <1>20, <1>21, <1>22, <1>23, <1>24, <1>25 DEF Next

\* Every step keeps the invariant.
LEMMA InvKept ==
    ASSUME IInv, Orderly, [Next]_vars
    PROVE  IInv'
<1>1. TypeOK'
  BY TypesKept DEF IInv
<1>2. DriveInv'
  BY DriveKept DEF IInv
<1>3. \A n \in Machines : StepInv(n)'
  BY StepKept DEF IInv
<1> QED
  BY <1>1, <1>2, <1>3, LeftKept DEF IInv

\* The invariant holds to begin with.
LEMMA InvHolds == Init => IInv
<1> SUFFICES ASSUME Init PROVE IInv
  OBVIOUS
<1>1. TypeOK
  BY InitTypes
<1>2. DriveInv /\ \A m \in Machines : StepInv(m)
  BY DEF Init, DriveInv, StepInv, At, NoDriveRuns, NoDrive
<1>3. LeftInv
  BY CheckpointConstants DEF Init, LeftInv, NoCheckpoint
<1> QED
  BY <1>1, <1>2, <1>3 DEF IInv

\* The invariant, of every behaviour of an orderly deployment.
LEMMA InvAlways ==
    ASSUME Orderly
    PROVE  Spec => []IInv
<1>1. IInv /\ [Next]_vars => IInv'
  BY InvKept
<1> QED
  BY <1>1, InvHolds, PTL DEF Spec

-----------------------------------------------------------------------------
(* What the checkpoint is for.                                              *)

\* Whatever machines there are and whatever crashes and fails, an orderly run that has not
\* been continued from an older tree is worked on with all that its last drive left.
THEOREM CheckpointContinues ==
    ASSUME Orderly
    PROVE  Spec => []ContinuesUnlessBehind
<1>1. IInv => ContinuesUnlessBehind
  BY DEF IInv, StepInv, LeftInv, ContinuesUnlessBehind, ContinuesWork, At
<1> QED
  BY <1>1, InvAlways, PTL

-----------------------------------------------------------------------------
(* What the record names is lost to a discard or a sweep only.              *)

\* No step of an orderly deployment or any other loses what the record names.
LEMMA SavedKept ==
    ASSUME TypeOK, SavedInv, [Next]_vars
    PROVE  SavedInv'
<1> USE CheckpointConstants DEF runVars, treeVars, storeVars, histVars
<1>1. ASSUME NEW m \in Machines, Claim(m) PROVE SavedInv'
  BY <1>1 DEF Claim, NoDrive, SavedInv, Resumable, TypeOK, Drives, At, Saves
<1>2. ASSUME NEW m \in Machines, Keep(m) PROVE SavedInv'
  BY <1>2 DEF Keep, Goto, SavedInv, Resumable, TypeOK, Drives, At, Saves
<1>3. ASSUME NEW m \in Machines, StartFresh(m) PROVE SavedInv'
  BY <1>3 DEF StartFresh, PutTree, Goto, SavedInv, Resumable, TypeOK, Drives, At, Saves
<1>4. ASSUME NEW m \in Machines, DiscardOlder(m) PROVE SavedInv'
  BY <1>4 DEF DiscardOlder, DropTree, SavedInv, Resumable, TypeOK, Drives, At, Saves, saved_elsewhere
<1>5. ASSUME NEW m \in Machines, Restore(m) PROVE SavedInv'
  BY <1>5 DEF Restore, PutTree, Goto, SavedInv, Resumable, TypeOK, Drives, At, Saves
<1>6. ASSUME NEW m \in Machines, RestoreFails(m) PROVE SavedInv'
  BY <1>6 DEF RestoreFails, Fault, Raise, SavedInv, Resumable, TypeOK, Drives, At, Saves
<1>7. ASSUME NEW m \in Machines, RestoreHalf(m) PROVE SavedInv'
  BY <1>7 DEF RestoreHalf, PutTree, Fault, Raise, NoDrive, SavedInv, Resumable, TypeOK, Drives, At, Saves
<1>8. ASSUME NEW m \in Machines, Refuse(m) PROVE SavedInv'
  BY <1>8 DEF Refuse, Raise, SavedInv, Resumable, TypeOK, Drives, At, Saves
<1>9. ASSUME NEW m \in Machines, Work(m) PROVE SavedInv'
  BY <1>9 DEF Work, SavedInv, Resumable, TypeOK, Drives, At, Saves
<1>10. ASSUME NEW m \in Machines, Pause(m) PROVE SavedInv'
  BY <1>10 DEF Pause, SavedInv, Resumable, TypeOK, Drives, At, Saves
<1>11. ASSUME NEW m \in Machines, Yield(m) PROVE SavedInv'
  BY <1>11 DEF Yield, Raise, SavedInv, Resumable, TypeOK, Drives, At, Saves
<1>12. ASSUME NEW m \in Machines, Fail(m) PROVE SavedInv'
  BY <1>12 DEF Fail, SavedInv, Resumable, TypeOK, Drives, At, Saves
<1>13. ASSUME NEW m \in Machines, Look(m) PROVE SavedInv'
  BY <1>13 DEF Look, Goto, NoDrive, SavedInv, Resumable, TypeOK, Drives, At, Saves
<1>14. ASSUME NEW m \in Machines, Upload(m) PROVE SavedInv'
  BY <1>14 DEF Upload, PutBundle, Fault, SavedInv, Resumable, TypeOK, Drives, At, Saves
<1>15. ASSUME NEW m \in Machines, Commit(m) PROVE SavedInv'
  BY <1>15 DEF Commit, NoDrive, SavedInv, Resumable, TypeOK, Drives, At, Saves
<1>16. ASSUME NEW m \in Machines, Discard(m) PROVE SavedInv'
  BY <1>16 DEF Discard, TakeTree, TakeBundle, DropTree, SavedInv, Resumable, TypeOK, Drives, At, Saves
<1>17. ASSUME NEW m \in Machines, Crash(m) PROVE SavedInv'
  BY <1>17 DEF Crash, Fault, NoDrive, SavedInv, Resumable, TypeOK, Drives, At, Saves
<1>18. ASSUME NEW m \in Machines, SweepLook(m) PROVE SavedInv'
  BY <1>18 DEF SweepLook, SavedInv, Resumable, TypeOK, Drives, At, Saves
<1>19. ASSUME NEW m \in Machines, SweepTree(m) PROVE SavedInv'
  BY <1>19 DEF SweepTree, TakeTree, TakeBundle, DropTree, SavedInv, Resumable, TypeOK, Drives, At, Saves
<1>20. ASSUME NEW m \in Machines, SweepRecord(m) PROVE SavedInv'
  BY <1>20 DEF SweepRecord, TakeBundle, NoCheckpoint, SavedInv, Resumable, TypeOK, Drives, At, Saves
<1>21. ASSUME Answer PROVE SavedInv'
  BY <1>21 DEF Answer, SavedInv, Resumable, TypeOK, Drives, At, Saves
<1>22. ASSUME Cancel PROVE SavedInv'
  BY <1>22 DEF Cancel, SavedInv, Resumable, TypeOK, Drives, At, Saves
<1>23. ASSUME Retry PROVE SavedInv'
  BY <1>23 DEF Retry, SavedInv, Resumable, TypeOK, Drives, At, Saves
<1>24. ASSUME Reap PROVE SavedInv'
  BY <1>24 DEF Reap, SavedInv, Resumable, TypeOK, Drives, At, Saves
<1>25. ASSUME UNCHANGED vars PROVE SavedInv'
  BY <1>25 DEF SavedInv, Resumable, TypeOK, Drives, At, Saves, vars
<1> QED
  BY <1>1, <1>2, <1>3, <1>4, <1>5, <1>6, <1>7, <1>8, <1>9, <1>10, <1>11, <1>12,
     <1>13, <1>14, <1>15, <1>16, <1>17, <1>18, <1>19, <1>20, <1>21, <1>22, <1>23, <1>24, <1>25 DEF Next

\* Whatever machines there are, whatever fails and however drives, sweeps, discards and
\* retries interleave, the record of a run names a save that is there, or that a discard or
\* a sweep has taken since it was last there.
THEOREM CheckpointResumable == Spec => []Resumable
<1>1. Init => SavedInv
  BY CheckpointConstants DEF Init, SavedInv, Resumable, NoCheckpoint, At, NoDrive
<1>2. TypeOK /\ SavedInv /\ [Next]_vars => SavedInv'
  BY SavedKept
<1>3. SavedInv => Resumable
  BY DEF SavedInv
<1> QED
  BY <1>1, <1>2, <1>3, CheckpointTypes, PTL DEF Spec
=============================================================================
