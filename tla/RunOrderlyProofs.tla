--------------------------- MODULE RunOrderlyProofs ---------------------------
(***************************************************************************)
(* What RunLifecycle promises when its environment is orderly: a live drive *)
(* heartbeats within the lease, nobody puts a run back on the queue while a *)
(* drive of it is alive, and what a session read does not change before it  *)
(* commits.  On orderly.cfg, or with two slots, TLC breaks SingleDrive and  *)
(* NoStranded when any one of the three is dropped, and FailureBound        *)
(* without LeaseHolds or without ReopenWaits.                               *)
(***************************************************************************)
EXTENDS RunLifecycleProofs, FiniteSetTheorems

Orderly == ReopenWaits /\ ShortSessions /\ LeaseHolds

\* The claim drive d was started under.
Stamp(d) == [at |-> "fresh", by |-> d[1], home |-> MachineOf[d[1]]]

\* The founder has something to answer about r; a report asks nothing.
Asks(r) == pending[r] \ {"report"} # {}

Driven(r) == \E d \in Drives : LiveOn(d, r)

\* The places of a drive that decide on the copy they hold, and those where a
\* drive that leaves the run RUNNING has asked the founder first.
HeldPcs  == {"framing", "boundary", "turn", "verify", "finish", "park", "giveback"}
AskedPcs == {"exit", "clear"}

\* What a live drive of r may rely on.
Secure(d, r) ==
    /\ claim[r] = Stamp(d)
    /\ proc[d[1]] \in {"up", "stopping"}
    /\ proc[d[1]] = "stopping" => drive[d].pc \in {"release", "giveback"}
    /\ status[r] \notin {"absent", "open"}
    /\ status[r] = "running" /\ drive[d].pc \in HeldPcs  => drive[d].held = "running" \/ Asks(r)
    /\ status[r] = "running" /\ drive[d].pc \in AskedPcs => Asks(r)

\* What a session that read r may rely on: only a release moves the run meanwhile.
Current(s, r) ==
    /\ status[r] # "absent"
    /\ sess[s].op \in Reopening => ~Driven(r)
    /\ \/ sess[s].held = status[r]
       \/ sess[s].held = "running" /\ status[r] = "open" /\ pending[r] = {}
    /\ sess[s].op \in {"resume", "ship", "abandon"} => sess[s].kind \in pending[r]

OneUp == \A p, q \in Procs :
            proc[p] \in {"up", "stopping"} /\ proc[q] \in {"up", "stopping"}
              /\ MachineOf[p] = MachineOf[q] => p = q
DrivesSecure    == \A d \in Drives, r \in Runs : LiveOn(d, r) => Secure(d, r)
SessionsCurrent == \A s \in Sessions, r \in Runs : Holds(s, r) => Current(s, r)
OneSession      == \A s, t \in Sessions, r \in Runs : Holds(s, r) /\ Holds(t, r) => s = t

\* A RUNNING run without a drive has a claim to take back or a question to answer.
Kept(r)  == status[r] = "running" /\ ~Driven(r) /\ claim[r].at = "null" => Asks(r)
RowsKept == \A r \in Runs : Kept(r)

OrderInv == /\ Orderly /\ OneUp /\ SingleDrive /\ DrivesSecure
            /\ SessionsCurrent /\ OneSession /\ RowsKept

-----------------------------------------------------------------------------
(* A step of one drive.                                                    *)

Steps(d) == DriveStep(d) \/ AskOutOfBand(d)

\* It touches its own row and slot only.
LEMMA DriveFrame ==
    ASSUME RowInv, NEW d \in Drives, NEW r \in Runs, r = drive[d].run, Steps(d)
    PROVE  /\ Live(d)
           /\ UNCHANGED <<reopens, proc, swept, sess>>
           /\ \A e \in Drives : e # d => drive'[e] = drive[e]
           /\ \A q \in Runs : q # r => /\ status'[q] = status[q] /\ claim'[q] = claim[q]
                                       /\ pending'[q] = pending[q] /\ failures'[q] = failures[q]
           /\ drive'[d] = IdleDrive \/ drive'[d].run = r
<1>1. TypeOK /\ drive[d] \in DriveRecords
  BY DEF RowInv, TypeOK
<1>2. ASSUME NEW pc PROVE At(d, pc).run = r
  BY <1>1 DEF At, IdleDrive, DriveRecords
<1>3. CASE AskOutOfBand(d)
  BY <1>1, <1>3 DEF AskOutOfBand, TypeOK, Live
<1>4. CASE \E pc : Goto(d, pc) /\ Live(d)
  BY <1>1, <1>2, <1>4 DEF Goto, TypeOK, rowVars
<1>5. CASE (\E k : PauseOn(d, k)) /\ Live(d)
  BY <1>1, <1>2, <1>5 DEF PauseOn, TypeOK
<1>6. CASE \E out : LoopEnds(d, out) /\ Live(d)
  BY <1>1, <1>6 DEF LoopEnds, DriveRecords, TypeOK, rowVars
<1>7. CASE LoadRun(d) \/ ClearLoad(d) \/ EscalateLoad(d) \/ ReleaseLoad(d)
  BY <1>1, <1>7 DEF LoadRun, ClearLoad, EscalateLoad, ReleaseLoad, Reload, Live, DriveRecords,
       TypeOK, rowVars
<1>8. CASE TurnWorks(d) \/ TurnDone(d) \/ TakeTurn(d) \/ RecordFailure(d)
  BY <1>1, <1>8 DEF TurnWorks, TurnDone, TakeTurn, RecordFailure, CountFailure, Live,
       DriveRecords, TypeOK
<1>9. CASE FramePauses(d) \/ EnterLoop(d) \/ Finish(d)
  BY <1>1, <1>2, <1>9 DEF FramePauses, EnterLoop, Finish, Live, DriveRecords, TypeOK
<1>10. CASE ClearWrite(d) \/ Park(d) \/ GiveBack(d)
  BY <1>1, <1>10 DEF ClearWrite, Park, GiveBack, EndDrive, ClearSeen, Live, TypeOK
<1>11. FrameRaises(d) \/ FrameSaturated(d) \/ StopCancelled(d) \/ TurnOutOfBand(d)
         \/ VerifyFails(d) \/ FinishRaises(d) => \E pc : Goto(d, pc) /\ Live(d)
  BY DEF FrameRaises, FrameSaturated, StopCancelled, TurnOutOfBand, VerifyFails, FinishRaises, Live
<1>12. LoopCrashes(d) \/ TurnSaturated(d) \/ TurnSettles(d) \/ VerifyPasses(d)
         => \E out : LoopEnds(d, out) /\ Live(d)
  BY DEF LoopCrashes, TurnSaturated, TurnSettles, VerifyPasses, Live
<1>13. RoundCap(d) \/ TurnCaps(d) \/ TurnAsks(d) \/ VerifyPauses(d)
         => (\E k : PauseOn(d, k)) /\ Live(d)
  BY DEF RoundCap, TurnCaps, TurnAsks, VerifyPauses, Live
<1>14. QED
  BY <1>3, <1>4, <1>5, <1>6, <1>7, <1>8, <1>9, <1>10, <1>11, <1>12, <1>13 DEF Steps, DriveStep

\* What the step leaves of the run: a drive that goes on stays secure; one that ends
\* has left the run out of RUNNING or asked the founder, and only a give-back opens it.
Leaves(d, r) ==
    IF Live(d)' THEN Secure(d, r)'
    ELSE /\ status'[r] # "absent"
         /\ status'[r] = "running" => Asks(r)'
         /\ status'[r] = "open" => drive[d].pc = "giveback"

\* How it counts failures: one more after an exception, which past the bound goes on
\* to the escalation, and that goes on to nothing but parking.
Counts(d, r) ==
    /\ \/ failures'[r] = failures[r] \/ failures'[r] = 0
       \/ /\ drive[d].pc = "raised" /\ failures'[r] = failures[r] + 1
          /\ drive'[d].pc = "escalate" \/ failures'[r] < MaxFailures
    /\ drive[d].pc \in {"escalate", "park"} => ~Live(d)' \/ drive'[d].pc \in {"escalate", "park"}

LEMMA DriveLeaves ==
    ASSUME RowInv, OrderInv, NEW d \in Drives, NEW r \in Runs, r = drive[d].run, Steps(d)
    PROVE  Leaves(d, r) /\ Counts(d, r)
<1> DEFINE held == drive[d].held
<1>1. /\ drive[d] \in DriveRecords /\ drive \in [Drives -> DriveRecords]
      /\ status \in [Runs -> RowStatuses] /\ pending \in [Runs -> SUBSET Kinds]
      /\ claim \in [Runs -> Claims] /\ failures \in [Runs -> Nat]
  BY DEF RowInv, TypeOK
<1>2. Live(d) /\ Secure(d, r) /\ UNCHANGED proc
  BY DriveFrame DEF OrderInv, DrivesSecure, LiveOn
<1>3. MaxFailures \in Nat \ {0}
  BY BoundAssumption
<1>4. ASSUME Live(d)', Secure(d, r)', UNCHANGED failures,
             drive[d].pc \notin {"escalate", "park"}
      PROVE  Leaves(d, r) /\ Counts(d, r)
  BY <1>4 DEF Leaves, Counts
<1>5. ASSUME NEW pc, Goto(d, pc),
             drive[d].pc \in {"framing", "boundary", "turn", "verify", "finish"},
             \/ pc \in {"raised", "release"}
             \/ pc \in AskedPcs /\ (status[r] = "running" => Asks(r))
             \/ pc \in HeldPcs
      PROVE  Leaves(d, r) /\ Counts(d, r)
  <2>1. CASE pc \in {"exit", "raised", "release"}
    <3>1. drive'[d].pc = pc
      BY <1>1, <1>5, <2>1 DEF Goto, At, IdleDrive
    <3>2. QED
      BY <1>2, <1>4, <1>5, <2>1, <3>1 DEF Goto, rowVars, Secure, Stamp, Live, Asks, HeldPcs, AskedPcs
  <2>2. CASE pc \notin {"exit", "raised", "release"}
    <3>1. drive'[d].pc = pc /\ drive'[d].held = held
      BY <1>1, <1>5, <2>2 DEF Goto, At, DriveRecords
    <3>2. QED
      BY <1>2, <1>4, <1>5, <2>2, <3>1 DEF Goto, rowVars, Secure, Stamp, Live, Asks, HeldPcs, AskedPcs
  <2>3. QED
    BY <2>1, <2>2
<1>6. CASE FrameRaises(d) \/ FrameSaturated(d) \/ VerifyFails(d) \/ FinishRaises(d)
  BY <1>5, <1>6 DEF FrameRaises, FrameSaturated, VerifyFails, FinishRaises, HeldPcs
<1>7. CASE StopCancelled(d) \/ TurnOutOfBand(d)
  <2>1. status[r] = "running" => Asks(r)
    BY <1>7 DEF StopCancelled, TurnOutOfBand, Cancelled, Asked, Asks
  <2>2. QED
    BY <1>5, <1>7, <2>1 DEF StopCancelled, TurnOutOfBand, AskedPcs
<1>8. CASE LoadRun(d)
  <2>1. drive'[d].pc = "framing" /\ drive'[d].held = status[r]
    BY <1>1, <1>8 DEF LoadRun, DriveRecords
  <2>2. QED
    BY <1>2, <1>4, <1>8, <2>1 DEF LoadRun, rowVars, Secure, Stamp, Live, HeldPcs, AskedPcs
<1>9. CASE FramePauses(d)
  <2>1. drive'[d].pc = "exit" /\ Asks(r)'
    BY <1>1, <1>9 DEF FramePauses, At, IdleDrive, Asks
  <2>2. status'[r] \in {"running", status[r]}
    BY <1>1, <1>9 DEF FramePauses, moved
  <2>3. QED
    BY <1>2, <1>4, <1>9, <2>1, <2>2 DEF FramePauses, Secure, Stamp, Live, HeldPcs
<1>10. CASE EnterLoop(d)
  <2>1. /\ drive'[d].pc = "boundary"
        /\ drive'[d].held = heldAfter(r, held, "running")
        /\ status'[r] = moved(r, held, "running")
    BY <1>1, <1>10 DEF EnterLoop, DriveRecords
  <2>2. held = "running" \/ Asks(r) \/ status[r] # "running"
    BY <1>2, <1>10 DEF EnterLoop, Secure, HeldPcs
  <2>3. /\ status'[r] \in {"running", status[r]}
        /\ status'[r] = "running" => drive'[d].held = "running" \/ Asks(r)
    BY <2>1, <2>2 DEF moved, heldAfter, Lands
  <2>4. QED
    BY <1>2, <1>4, <1>10, <2>1, <2>3 DEF EnterLoop, Secure, Stamp, Live, HeldPcs, AskedPcs, Asks
<1>11. CASE TakeTurn(d) \/ TurnDone(d) \/ TurnWorks(d)
  <2>1. /\ drive[d].pc \in {"boundary", "turn"}
        /\ drive'[d].pc \in {"boundary", "turn", "verify"}
        /\ drive'[d].held = held
    BY <1>1, <1>11 DEF TakeTurn, TurnDone, TurnWorks, DriveRecords
  <2>2. claim'[r] = Stamp(d)
    BY <1>1, <1>2, <1>11 DEF TakeTurn, TurnDone, TurnWorks, Secure, Stamp
  <2>3. UNCHANGED <<status, pending, failures, proc>>
    BY <1>11 DEF TakeTurn, TurnDone, TurnWorks
  <2>4. QED
    BY <1>2, <1>4, <2>1, <2>2, <2>3 DEF Secure, Stamp, Live, HeldPcs, AskedPcs, Asks
<1>12. CASE RoundCap(d) \/ TurnCaps(d) \/ TurnAsks(d) \/ VerifyPauses(d)
  <2>1. drive[d].pc \in {"boundary", "turn", "verify"}
    BY <1>12 DEF RoundCap, TurnCaps, TurnAsks, VerifyPauses
  <2>2. PICK k \in {"question", "review", "blocked"} : PauseOn(d, k)
    BY <1>12 DEF RoundCap, TurnCaps, TurnAsks, VerifyPauses
  <2>3. drive'[d].pc = "exit" /\ Asks(r)'
    BY <1>1, <2>2 DEF PauseOn, At, IdleDrive, Asks
  <2>4. QED
    BY <1>2, <1>4, <2>1, <2>2, <2>3 DEF PauseOn, Secure, Stamp, Live, HeldPcs
<1>13. CASE AskOutOfBand(d)
  <2>1. "question" \in pending'[r]
    BY <1>1, <1>13 DEF AskOutOfBand
  <2>2. QED
    BY <1>2, <1>4, <1>13, <2>1 DEF AskOutOfBand, Secure, Stamp, Live, Asks
<1>14. CASE LoopCrashes(d) \/ TurnSaturated(d) \/ TurnSettles(d) \/ VerifyPasses(d)
  <2>1. drive[d].pc \in {"boundary", "turn", "verify"}
    BY <1>14 DEF LoopCrashes, TurnSaturated, TurnSettles, VerifyPasses
  <2>2. PICK out : LoopEnds(d, out)
    BY <1>14 DEF LoopCrashes, TurnSaturated, TurnSettles, VerifyPasses
  <2>3. drive'[d].pc = "finish" /\ drive'[d].held = held
    BY <1>1, <2>2 DEF LoopEnds, DriveRecords
  <2>4. QED
    BY <1>2, <1>4, <2>1, <2>2, <2>3 DEF LoopEnds, rowVars, Secure, Stamp, Live, HeldPcs, AskedPcs, Asks
<1>15. CASE Finish(d)
  <2> DEFINE to == IF drive[d].out \in {"verified", "attached"} THEN "review_ready" ELSE "failed"
  <2>1. drive'[d].pc = "exit"
    BY <1>1, <1>15 DEF Finish, At, IdleDrive
  <2>2. status'[r] \in {to, "shipped"} \/ (status'[r] = status[r] /\ ~Lands(r, held, to))
    BY <1>1, <1>15 DEF Finish, moved
  <2>3. status[r] = "running" => Lands(r, held, to) \/ Asks(r)
    BY <1>2, <1>15 DEF Finish, Secure, HeldPcs, Lands, Table!is_allowed_move
  <2>4. QED
    BY <1>2, <1>4, <1>15, <2>1, <2>2, <2>3 DEF Finish, Secure, Stamp, Live, HeldPcs, Asks
<1>16. ASSUME NEW pc \in {"clear", "park", "giveback"}, Reload(d, pc)
       PROVE  /\ drive'[d].pc = pc /\ drive'[d].held = status[r]
              /\ UNCHANGED <<rowVars, proc>>
  BY <1>1, <1>16 DEF Reload, DriveRecords
<1>17. CASE ClearLoad(d)
  BY <1>2, <1>4, <1>16, <1>17 DEF ClearLoad, rowVars, Secure, Stamp, Live, HeldPcs, AskedPcs, Asks
<1>18. CASE ReleaseLoad(d)
  BY <1>2, <1>4, <1>16, <1>18 DEF ReleaseLoad, rowVars, Secure, Stamp, Live, HeldPcs, AskedPcs, Asks
<1>19. CASE EscalateLoad(d)
  <2>1. Secure(d, r)'
    BY <1>2, <1>16, <1>19 DEF EscalateLoad, rowVars, Secure, Stamp, HeldPcs, AskedPcs
  <2>2. QED
    BY <1>16, <1>19, <2>1 DEF EscalateLoad, rowVars, Live, Leaves, Counts
<1>20. CASE RecordFailure(d)
  <2>1. /\ drive[d].pc = "raised" /\ failures'[r] = failures[r] + 1
        /\ drive'[d].pc \in {"escalate", "release"}
        /\ drive'[d].pc = "escalate" \/ failures'[r] < MaxFailures
    BY <1>1, <1>3, <1>20 DEF RecordFailure, CountFailure, NextCount, DriveRecords
  <2>2. UNCHANGED <<status, claim, pending, proc>>
    BY <1>20 DEF RecordFailure, CountFailure
  <2>3. QED
    BY <1>2, <2>1, <2>2 DEF Secure, Stamp, Live, HeldPcs, AskedPcs, Leaves, Counts
<1>21. EndDrive(d) => ~Live(d)'
  BY <1>1 DEF EndDrive, IdleDrive, Live
<1>22. ClearSeen(d) => failures'[r] \in {0, failures[r]}
  BY <1>1 DEF ClearSeen
<1>23. CASE ClearWrite(d)
  <2>1. UNCHANGED <<status, pending>> /\ drive[d].pc = "clear"
    BY <1>23 DEF ClearWrite
  <2>2. QED
    BY <1>2, <1>21, <1>22, <1>23, <2>1 DEF ClearWrite, Secure, AskedPcs, Asks, Leaves, Counts
<1>24. CASE Park(d)
  <2> DEFINE go == held \in {"running", "open"} /\ heldAfter(r, held, "running") = "running"
  <2>1. drive[d].pc = "park" /\ ~Live(d)'
    BY <1>21, <1>24 DEF Park
  <2>2. CASE go
    <3>1. status'[r] \in {"running", status[r]} /\ Asks(r)'
      BY <1>1, <1>24, <2>2 DEF Park, moved, Asks
    <3>2. failures'[r] \in {0, failures[r]}
      BY <1>22, <1>24, <2>2 DEF Park
    <3>3. QED
      BY <1>2, <2>1, <3>1, <3>2 DEF Secure, Leaves, Counts
  <2>3. CASE ~go
    <3>1. UNCHANGED <<status, failures, pending>>
      BY <1>24, <2>3 DEF Park
    <3>2. status[r] = "running" => Asks(r)
      BY <1>2, <2>1, <2>3 DEF Secure, HeldPcs, heldAfter
    <3>3. QED
      BY <1>2, <2>1, <3>1, <3>2 DEF Secure, Asks, Leaves, Counts
  <2>4. QED
    BY <2>2, <2>3
<1>25. CASE GiveBack(d)
  <2>1. drive[d].pc = "giveback" /\ ~Live(d)' /\ UNCHANGED <<pending, failures>>
    BY <1>21, <1>25 DEF GiveBack
  <2>2. status'[r] = IF held = "running" THEN moved(r, "running", "open") ELSE status[r]
    BY <1>1, <1>25 DEF GiveBack
  <2>3. status'[r] # "absent" /\ (status'[r] = "running" => Asks(r))
    BY <1>2, <2>1, <2>2 DEF Secure, HeldPcs, moved, Lands, Table!is_allowed_move
  <2>4. QED
    BY <2>1, <2>3 DEF Asks, Leaves, Counts
<1>26. QED
  BY <1>6, <1>7, <1>8, <1>9, <1>10, <1>11, <1>12, <1>13, <1>14, <1>15, <1>17, <1>18, <1>19,
     <1>20, <1>23, <1>24, <1>25 DEF Steps, DriveStep

LEMMA DriveKeeps ==
    ASSUME RowInv, OrderInv, NEW d \in Drives, Steps(d), Quiet(drive[d].run)
    PROVE  OrderInv'
<1> PICK r \in Runs : r = drive[d].run
  BY DEF RowInv, TypeOK, DriveRecords
<1>1. /\ LiveOn(d, r)
      /\ UNCHANGED <<proc, sess>>
      /\ \A e \in Drives : e # d => drive'[e] = drive[e]
      /\ \A q \in Runs : q # r => /\ status'[q] = status[q] /\ claim'[q] = claim[q]
                                  /\ pending'[q] = pending[q]
      /\ drive'[d] = IdleDrive \/ drive'[d].run = r
  BY DriveFrame DEF LiveOn
<1>2. Leaves(d, r)
  BY DriveLeaves
<1>3. ASSUME NEW e \in Drives, NEW q \in Runs
      PROVE  /\ q # r => (LiveOn(e, q)' <=> LiveOn(e, q))
             /\ LiveOn(e, r)' => e = d
             /\ LiveOn(e, q)' => LiveOn(e, q)
  <2>1. LiveOn(d, q)' => q = r
    BY <1>1 DEF LiveOn, Live, IdleDrive
  <2>2. LiveOn(d, q) => q = r
    BY DEF LiveOn
  <2>3. e # d => (LiveOn(e, q)' <=> LiveOn(e, q)) /\ (LiveOn(e, r)' <=> LiveOn(e, r))
    BY <1>1 DEF LiveOn, Live
  <2>4. LiveOn(e, r) => e = d
    BY <1>1 DEF OrderInv, SingleDrive
  <2>5. QED
    BY <1>1, <2>1, <2>2, <2>3, <2>4
<1>4. SingleDrive'
  BY <1>3 DEF OrderInv, SingleDrive
<1>5. DrivesSecure'
  <2> SUFFICES ASSUME NEW e \in Drives, NEW q \in Runs, LiveOn(e, q)'
               PROVE  Secure(e, q)'
    BY DEF DrivesSecure
  <2>1. CASE q = r
    BY <1>2, <1>3, <2>1 DEF Leaves, LiveOn
  <2>2. CASE q # r
    <3>1. LiveOn(e, q) /\ e # d
      BY <1>1, <1>3, <2>2 DEF LiveOn
    <3>2. Secure(e, q)
      BY <3>1 DEF OrderInv, DrivesSecure
    <3>3. QED
      BY <1>1, <2>2, <3>1, <3>2 DEF Secure, Stamp, Asks
  <2>3. QED
    BY <2>1, <2>2
<1>6. \A s \in Sessions : ~Holds(s, r)
  BY DEF OrderInv, Orderly, Quiet
<1>7. SessionsCurrent'
  <2> SUFFICES ASSUME NEW s \in Sessions, NEW q \in Runs, Holds(s, q)'
               PROVE  Current(s, q)'
    BY DEF SessionsCurrent
  <2>1. Holds(s, q) /\ q # r
    BY <1>1, <1>6 DEF Holds
  <2>2. Current(s, q)
    BY <2>1 DEF OrderInv, SessionsCurrent
  <2>3. Driven(q)' => Driven(q)
    BY <1>3 DEF Driven
  <2>4. QED
    BY <1>1, <2>1, <2>2, <2>3 DEF Current
<1>8. RowsKept'
  <2> SUFFICES ASSUME NEW q \in Runs
               PROVE  Kept(q)'
    BY DEF RowsKept
  <2>1. CASE q = r
    BY <1>1, <1>2, <2>1 DEF Kept, Driven, Leaves, LiveOn, IdleDrive, Live
  <2>2. CASE q # r
    <3>1. Driven(q)' <=> Driven(q)
      BY <1>3, <2>2 DEF Driven
    <3>2. Kept(q)
      BY DEF OrderInv, RowsKept
    <3>3. QED
      BY <1>1, <2>2, <3>1, <3>2 DEF Kept, Asks
  <2>3. QED
    BY <2>1, <2>2
<1>9. QED
  BY <1>1, <1>4, <1>5, <1>7, <1>8 DEF OrderInv, Orderly, OneUp, OneSession, Holds

-----------------------------------------------------------------------------
(* A step of a worker process.                                             *)

\* A bulk release that takes nothing from a live drive.
LEMMA ResetKeeps ==
    ASSUME RowInv, OrderInv, NEW S, ResetClaims(S),
           \A r \in Runs : r \in S /\ Resettable(r) => ~Driven(r),
           UNCHANGED <<drive, sess>>, OneUp',
           \A d \in Drives : Live(d) => proc'[d[1]] = proc[d[1]]
    PROVE  OrderInv'
<1>1. /\ status \in [Runs -> RowStatuses] /\ claim \in [Runs -> Claims]
      /\ drive \in [Drives -> DriveRecords]
  BY DEF RowInv, TypeOK
<1>2. ASSUME NEW r \in Runs
      PROVE  \/ status'[r] = status[r] /\ claim'[r] = claim[r]
             \/ /\ status[r] = "running" /\ pending[r] = {} /\ ~Driven(r)
                /\ status'[r] = "open"
  BY <1>1 DEF ResetClaims, Resettable
<1>3. UNCHANGED pending
  BY DEF ResetClaims
<1>4. /\ \A d \in Drives, r \in Runs : LiveOn(d, r)' <=> LiveOn(d, r)
      /\ \A r \in Runs : Driven(r)' <=> Driven(r)
  BY DEF LiveOn, Live, Driven
<1>5. SingleDrive'
  BY <1>4 DEF OrderInv, SingleDrive
<1>6. DrivesSecure'
  <2> SUFFICES ASSUME NEW d \in Drives, NEW r \in Runs, LiveOn(d, r)
               PROVE  Secure(d, r)'
    BY <1>4 DEF DrivesSecure
  <2>1. Secure(d, r) /\ Driven(r)
    BY DEF OrderInv, DrivesSecure, Driven
  <2>2. status'[r] = status[r] /\ claim'[r] = claim[r] /\ proc'[d[1]] = proc[d[1]]
    BY <1>2, <2>1 DEF LiveOn
  <2>3. QED
    BY <1>3, <2>1, <2>2 DEF Secure, Stamp, Asks
<1>7. SessionsCurrent'
  <2> SUFFICES ASSUME NEW s \in Sessions, NEW r \in Runs, Holds(s, r)
               PROVE  Current(s, r)'
    BY DEF SessionsCurrent, Holds
  <2>1. Current(s, r)
    BY DEF OrderInv, SessionsCurrent
  <2>2. QED
    BY <1>2, <1>3, <1>4, <2>1 DEF Current
<1>8. RowsKept'
  <2> SUFFICES ASSUME NEW r \in Runs
               PROVE  Kept(r)'
    BY DEF RowsKept
  <2>1. Kept(r)
    BY DEF OrderInv, RowsKept
  <2>2. QED
    BY <1>2, <1>3, <1>4, <2>1 DEF Kept, Asks
<1>9. QED
  BY <1>5, <1>6, <1>7, <1>8 DEF OrderInv, Orderly, OneSession, Holds

\* A driven run's claim is its drive's.
LEMMA DrivenClaim ==
    ASSUME OrderInv, NEW r \in Runs, Driven(r)
    PROVE  \E d \in Drives : /\ LiveOn(d, r) /\ proc[d[1]] \in {"up", "stopping"}
                             /\ claim[r].at = "fresh" /\ claim[r].by = d[1]
                             /\ claim[r].home = MachineOf[d[1]]
<1>1. PICK d \in Drives : LiveOn(d, r)
  BY DEF Driven
<1>2. claim[r] = Stamp(d) /\ proc[d[1]] \in {"up", "stopping"}
  BY <1>1 DEF OrderInv, DrivesSecure, Secure
<1>3. QED
  BY <1>1, <1>2 DEF Stamp

\* Drives that vanish or take the release path, by a crash or a stop of their process.
LEMMA CutKeeps ==
    ASSUME RowInv, OrderInv, UNCHANGED <<rowVars, sess>>, OneUp',
           \A d \in Drives : \/ drive'[d] = drive[d] /\ proc'[d[1]] = proc[d[1]]
                             \/ drive'[d] = IdleDrive
                             \/ /\ Live(d) /\ drive'[d] = At(d, "release")
                                /\ proc'[d[1]] = "stopping"
                             \/ ~Live(d) /\ drive'[d] = drive[d]
    PROVE  OrderInv'
<1>1. \A d \in Drives : At(d, "release").run = drive[d].run /\ At(d, "release").pc = "release"
  BY DEF At, IdleDrive
<1>2. ASSUME NEW d \in Drives, NEW r \in Runs, LiveOn(d, r)'
      PROVE  LiveOn(d, r)
  BY <1>1, <1>2 DEF LiveOn, Live, IdleDrive
<1>3. SingleDrive'
  BY <1>2 DEF OrderInv, SingleDrive
<1>4. DrivesSecure'
  <2> SUFFICES ASSUME NEW d \in Drives, NEW r \in Runs, LiveOn(d, r)'
               PROVE  Secure(d, r)'
    BY DEF DrivesSecure
  <2>1. LiveOn(d, r) /\ Secure(d, r)
    BY <1>2 DEF OrderInv, DrivesSecure
  <2>2. \/ drive'[d] = drive[d] /\ proc'[d[1]] = proc[d[1]]
        \/ drive'[d].pc = "release" /\ proc'[d[1]] = "stopping"
    BY <1>1, <2>1 DEF LiveOn, Live, IdleDrive
  <2>3. QED
    BY <2>1, <2>2 DEF Secure, Stamp, Asks, rowVars, HeldPcs, AskedPcs
<1>5. SessionsCurrent'
  <2> SUFFICES ASSUME NEW s \in Sessions, NEW r \in Runs, Holds(s, r)
               PROVE  Current(s, r)'
    BY DEF SessionsCurrent, Holds
  <2>1. Current(s, r) /\ (Driven(r)' => Driven(r))
    BY <1>2 DEF OrderInv, SessionsCurrent, Driven
  <2>2. QED
    BY <2>1 DEF Current, rowVars
<1>6. RowsKept'
  <2> SUFFICES ASSUME NEW r \in Runs, status[r] = "running", claim[r].at = "null"
               PROVE  Asks(r)
    BY DEF RowsKept, Kept, Asks, rowVars
  <2>1. ~Driven(r)
    BY DrivenClaim
  <2>2. QED
    BY <2>1 DEF OrderInv, RowsKept, Kept
<1>7. QED
  BY <1>3, <1>4, <1>5, <1>6 DEF OrderInv, Orderly, OneSession, Holds

LEMMA OneUpKept ==
    ASSUME OneUp, NEW p \in Procs, TypeOK,
           Start(p) \/ Crash(p) \/ Stop(p) \/ StopReleases(p) \/ UNCHANGED proc
    PROVE  OneUp'
<1>1. proc \in [Procs -> {"off", "up", "stopping", "gone"}]
  BY DEF TypeOK
<1>2. CASE Start(p)
  BY <1>1, <1>2 DEF Start, OneUp
<1>3. CASE Crash(p) \/ StopReleases(p)
  BY <1>1, <1>3 DEF Crash, StopReleases, OneUp
<1>4. CASE Stop(p)
  BY <1>1, <1>4 DEF Stop, OneUp
<1>5. CASE UNCHANGED proc
  BY <1>5 DEF OneUp
<1>6. QED
  BY <1>2, <1>3, <1>4, <1>5

LEMMA ClaimKeeps ==
    ASSUME RowInv, OrderInv, NEW p \in Procs, NEW k \in Slots, NEW r \in Runs, Claim(p, k, r)
    PROVE  OrderInv'
<1> DEFINE d == <<p, k>>
<1>1. /\ d \in Drives /\ d[1] = p
      /\ status \in [Runs -> RowStatuses] /\ claim \in [Runs -> Claims]
      /\ drive \in [Drives -> DriveRecords]
  BY DEF RowInv, TypeOK, Drives
<1>2. /\ ~Live(d) /\ status[r] = "open" /\ proc[p] = "up"
      /\ UNCHANGED <<pending, proc, sess>>
  BY DEF Claim
<1>3. /\ status'[r] = "running" /\ claim'[r] = Stamp(d)
      /\ \A q \in Runs : q # r => status'[q] = status[q] /\ claim'[q] = claim[q]
  BY <1>1 DEF Claim, Stamp
<1>4. ~Driven(r) /\ \A s \in Sessions : ~Holds(s, r)
  BY <1>2 DEF OrderInv, DrivesSecure, Driven, Secure, Orderly, Claim, Quiet
<1>5. /\ drive'[d].pc = "claimed" /\ drive'[d].run = r
      /\ \A e \in Drives : e # d => drive'[e] = drive[e]
  BY <1>1 DEF Claim, IdleDrive
<1>6. \A e \in Drives, q \in Runs : LiveOn(e, q)' <=> LiveOn(e, q) \/ (e = d /\ q = r)
  BY <1>2, <1>5 DEF LiveOn, Live
<1>7. SingleDrive'
  BY <1>4, <1>6 DEF OrderInv, SingleDrive, Driven, LiveOn
<1>8. DrivesSecure'
  <2> SUFFICES ASSUME NEW e \in Drives, NEW q \in Runs, LiveOn(e, q)'
               PROVE  Secure(e, q)'
    BY DEF DrivesSecure
  <2>1. CASE e = d /\ q = r
    BY <1>1, <1>2, <1>3, <1>5, <2>1 DEF Secure, Stamp, HeldPcs, AskedPcs
  <2>2. CASE LiveOn(e, q)
    <3>1. q # r /\ e # d /\ Secure(e, q)
      BY <1>2, <1>4, <2>2 DEF Driven, LiveOn, OrderInv, DrivesSecure
    <3>2. QED
      BY <1>2, <1>3, <1>5, <3>1 DEF Secure, Stamp, Asks
  <2>3. QED
    BY <1>6, <2>1, <2>2
<1>9. SessionsCurrent'
  <2> SUFFICES ASSUME NEW s \in Sessions, NEW q \in Runs, Holds(s, q)
               PROVE  Current(s, q)'
    BY <1>2 DEF SessionsCurrent, Holds
  <2>1. q # r /\ Current(s, q)
    BY <1>4 DEF OrderInv, SessionsCurrent
  <2>2. Driven(q)' => Driven(q)
    BY <1>6, <2>1 DEF Driven
  <2>3. QED
    BY <1>2, <1>3, <2>1, <2>2 DEF Current
<1>10. RowsKept'
  <2> SUFFICES ASSUME NEW q \in Runs
               PROVE  Kept(q)'
    BY DEF RowsKept
  <2>1. CASE q = r
    BY <1>3, <2>1 DEF Kept, Stamp
  <2>2. CASE q # r
    <3>1. Kept(q) /\ (Driven(q)' <=> Driven(q))
      BY <1>6, <2>2 DEF OrderInv, RowsKept, Driven
    <3>2. QED
      BY <1>2, <1>3, <2>2, <3>1 DEF Kept, Asks
  <2>3. QED
    BY <2>1, <2>2
<1>11. QED
  BY <1>2, <1>7, <1>8, <1>9, <1>10 DEF OrderInv, Orderly, OneUp, OneSession, Holds

LEMMA ProcKeeps ==
    ASSUME RowInv, OrderInv, NEW p \in Procs,
           \/ Start(p) \/ Crash(p) \/ Stop(p) \/ StopReleases(p) \/ Tick(p)
           \/ \E r \in Runs : OpenRun(p, r)
           \/ \E k \in Slots, r \in Runs : Claim(p, k, r)
    PROVE  OrderInv'
<1>1. /\ TypeOK /\ OneUp /\ proc \in [Procs -> {"off", "up", "stopping", "gone"}]
      /\ \A d \in Drives : d[1] \in Procs
  BY DEF RowInv, OrderInv, TypeOK, Drives
<1>2. \A d \in Drives, r \in Runs : LiveOn(d, r) => Secure(d, r)
  BY DEF OrderInv, DrivesSecure
<1>3. \A d \in Drives : Live(d) => drive[d].run \in Runs
  BY <1>1 DEF TypeOK, DriveRecords
<1>4. CASE Start(p)
  <2>1. \A d \in Drives : Live(d) => proc[d[1]] # "off"
    BY <1>2, <1>3 DEF LiveOn, Secure
  <2>2. \A d \in Drives : drive'[d] = drive[d] /\ (proc'[d[1]] = proc[d[1]] \/ ~Live(d))
    BY <1>1, <1>4, <2>1 DEF Start
  <2>3. UNCHANGED <<rowVars, sess>>
    BY <1>4 DEF Start
  <2>4. QED
    BY <1>1, <1>4, <2>2, <2>3, CutKeeps, OneUpKept
<1>5. CASE Crash(p)
  BY <1>1, <1>5, CutKeeps, OneUpKept DEF Crash
<1>6. CASE Stop(p)
  <2>1. UNCHANGED <<rowVars, sess>> /\ OneUp'
    BY <1>1, <1>6, OneUpKept DEF Stop
  <2>2. ASSUME NEW d \in Drives
        PROVE  \/ drive'[d] = drive[d] /\ proc'[d[1]] = proc[d[1]]
               \/ drive'[d] = IdleDrive
               \/ /\ Live(d) /\ drive'[d] = At(d, "release")
                  /\ proc'[d[1]] = "stopping"
               \/ ~Live(d) /\ drive'[d] = drive[d]
    BY <1>1, <1>6 DEF Stop
  <2>3. QED
    BY <2>1, <2>2, CutKeeps
<1>7. CASE StopReleases(p)
  <2>1. \A r \in Runs : claim[r].by = p => ~Driven(r)
    BY <1>7, DrivenClaim DEF StopReleases, LiveOn
  <2>2. \A d \in Drives : Live(d) => proc'[d[1]] = proc[d[1]]
    BY <1>1, <1>7 DEF StopReleases
  <2>3. QED
    BY <1>1, <1>7, <2>1, <2>2, ResetKeeps, OneUpKept DEF StopReleases
<1>8. CASE ReleaseOrphans(p)
  <2>1. \A r \in Runs : claim[r].by # p /\ claim[r].home = MachineOf[p] => ~Driven(r)
    BY <1>1, <1>8, DrivenClaim DEF ReleaseOrphans, OneUp
  <2>2. QED
    BY <1>1, <1>8, <2>1, ResetKeeps, OneUpKept DEF ReleaseOrphans
<1>9. CASE ReapStale(p)
  <2>1. \A r \in Runs : claim[r].at = "stale" => ~Driven(r)
    BY DrivenClaim
  <2>2. QED
    BY <1>1, <1>9, <2>1, ResetKeeps, OneUpKept DEF ReapStale
<1>10. ASSUME NEW r \in Runs, OpenRun(p, r)
       PROVE  OrderInv'
  <2>1. /\ status[r] = "absent" /\ status'[r] = "open"
        /\ \A q \in Runs : q # r => status'[q] = status[q]
        /\ UNCHANGED <<claim, pending, proc, drive, sess>>
    BY <1>1, <1>10 DEF OpenRun, TypeOK
  <2>2. /\ \A d \in Drives : ~LiveOn(d, r)
        /\ \A s \in Sessions : ~Holds(s, r)
    BY <1>2, <2>1 DEF Secure, OrderInv, SessionsCurrent, Current
  <2>3. /\ \A d \in Drives, q \in Runs : LiveOn(d, q)' <=> LiveOn(d, q)
        /\ \A q \in Runs : Driven(q)' <=> Driven(q)
    BY <2>1 DEF LiveOn, Live, Driven
  <2>4. SingleDrive' /\ OneUp' /\ OneSession'
    BY <2>1, <2>3 DEF OrderInv, SingleDrive, OneUp, OneSession, Holds
  <2>5. DrivesSecure'
    BY <1>2, <2>1, <2>2, <2>3 DEF DrivesSecure, Secure, Stamp, Asks
  <2>6. SessionsCurrent'
    BY <2>1, <2>2, <2>3 DEF OrderInv, SessionsCurrent, Current, Holds
  <2>7. RowsKept'
    BY <2>1, <2>3 DEF OrderInv, RowsKept, Kept, Asks
  <2>8. QED
    BY <2>4, <2>5, <2>6, <2>7 DEF OrderInv, Orderly
<1>11. QED
  BY <1>4, <1>5, <1>6, <1>7, <1>8, <1>9, <1>10, ClaimKeeps DEF Tick

\* Under LeaseHolds only a claim nobody drives outlives the lease.
LEMMA LeaseKeeps ==
    ASSUME RowInv, OrderInv, NEW r \in Runs, LeaseExpires(r)
    PROVE  OrderInv'
<1>1. /\ ~Driven(r) /\ claim'[r].at = "stale"
      /\ \A q \in Runs : q # r => claim'[q] = claim[q]
      /\ UNCHANGED <<status, pending, proc, drive, sess>>
  BY DEF RowInv, TypeOK, Claims, LeaseExpires, OrderInv, Orderly, Driven
<1>2. /\ \A d \in Drives, q \in Runs : LiveOn(d, q)' <=> LiveOn(d, q)
      /\ \A q \in Runs : Driven(q)' <=> Driven(q)
  BY <1>1 DEF LiveOn, Live, Driven
<1>3. SingleDrive' /\ OneUp' /\ OneSession'
  BY <1>1, <1>2 DEF OrderInv, SingleDrive, OneUp, OneSession, Holds
<1>4. DrivesSecure'
  BY <1>1, <1>2 DEF OrderInv, DrivesSecure, Secure, Stamp, Asks, Driven
<1>5. SessionsCurrent'
  BY <1>1, <1>2 DEF OrderInv, SessionsCurrent, Current, Holds
<1>6. RowsKept'
  BY <1>1, <1>2 DEF OrderInv, RowsKept, Kept, Asks
<1>7. QED
  BY <1>3, <1>4, <1>5, <1>6 DEF OrderInv, Orderly

-----------------------------------------------------------------------------
(* A step of a session.                                                    *)

LEMMA LoadKeeps ==
    ASSUME RowInv, OrderInv, NEW s \in Sessions, NEW op \in Offered, NEW r \in Runs, NEW k \in Kinds,
           SessLoad(s, op, r, k)
    PROVE  OrderInv'
<1>1. /\ UNCHANGED <<status, claim, pending, proc, drive>>
      /\ sess'[s] = [op |-> op, run |-> r, held |-> status[r], kind |-> k]
      /\ \A t \in Sessions : t # s => sess'[t] = sess[t]
  BY DEF RowInv, TypeOK, SessLoad
<1>2. \A t \in Sessions : ~Holds(t, r)
  BY DEF SessLoad, OrderInv, Orderly, Quiet
<1>3. /\ \A d \in Drives, q \in Runs : LiveOn(d, q)' <=> LiveOn(d, q)
      /\ \A q \in Runs : Driven(q)' <=> Driven(q)
  BY <1>1 DEF LiveOn, Live, Driven
<1>4. SingleDrive' /\ OneUp' /\ DrivesSecure' /\ RowsKept'
  BY <1>1, <1>3 DEF OrderInv, SingleDrive, OneUp, DrivesSecure, Secure, Stamp, Asks, RowsKept, Kept
<1>5. \A t \in Sessions, q \in Runs : Holds(t, q)' => (t = s /\ q = r) \/ (Holds(t, q) /\ t # s)
  BY <1>1 DEF Holds
<1>6. OneSession'
  BY <1>2, <1>5 DEF OrderInv, OneSession
<1>7. Current(s, r)'
  <2>1. status[r] # "absent" /\ (op \in Reopening => ~Driven(r))
    BY DEF SessLoad, Driven, OrderInv, Orderly
  <2>2. op \in {"resume", "ship", "abandon"} => k \in pending[r]
    BY DEF SessLoad, Admits
  <2>3. QED
    BY <1>1, <1>3, <2>1, <2>2 DEF Current
<1>8. SessionsCurrent'
  <2> SUFFICES ASSUME NEW t \in Sessions, NEW q \in Runs, Holds(t, q), t # s
               PROVE  Current(t, q)'
    BY <1>5, <1>7 DEF SessionsCurrent
  <2>1. Current(t, q)
    BY DEF OrderInv, SessionsCurrent
  <2>2. QED
    BY <1>1, <1>3, <2>1 DEF Current
<1>9. QED
  BY <1>4, <1>6, <1>8 DEF OrderInv, Orderly

\* What the commit of session s leaves of its run: only an operation that puts runs
\* back on the queue opens it, and what stays RUNNING keeps what the founder was asked.
Settles(s, r) ==
    /\ status'[r] # "absent"
    /\ status'[r] = "open" => status[r] = "open" \/ sess[s].op \in Reopening
    /\ status'[r] = "running" => Asks(r)' \/ (status[r] = "running" /\ ~Asks(r))

LEMMA CommitSettles ==
    ASSUME RowInv, OrderInv, NEW s \in Sessions, NEW r \in Runs, r = sess[s].run, SessCommit(s)
    PROVE  /\ Settles(s, r) /\ Holds(s, r)
           /\ UNCHANGED <<claim, failures, reopens, proc, swept, drive>>
           /\ sess' = [sess EXCEPT ![s] = IdleSess]
           /\ \A q \in Runs : q # r => status'[q] = status[q] /\ pending'[q] = pending[q]
<1> DEFINE held == sess[s].held
<1>1. /\ status \in [Runs -> RowStatuses] /\ pending \in [Runs -> SUBSET Kinds]
      /\ sess \in [Sessions -> SessRecords]
  BY DEF RowInv, TypeOK
<1>2. Holds(s, r)
  BY DEF SessCommit, CancelRun, DiscardRun, RetryRun, ReopenRun, DenyReopens, PutBack, Resume, Ship,
       Abandon, Deliver, Redispatch, ConflictEscalates, StallReports, PrConcluded, Holds
<1>3. Current(s, r)
  BY <1>2 DEF OrderInv, SessionsCurrent
<1>4. ASSUME NEW to \in {"open", "review_ready", "shipped", "cancelled"}, NEW h \in {held, status[r]}
      PROVE  moved(r, h, to) \in {to, status[r]} \ {"running"}
  BY <1>3, <1>4 DEF Current, moved, Lands, Table!is_allowed_move
<1>5. ShipHops(r, held) \in {"shipped", "review_ready", status[r]} \ {"running"}
  BY <1>4 DEF ShipHops, moved
<1>6. ASSUME NEW to, NEW left, Commit(s, to, left)
      PROVE  /\ status'[r] = to /\ pending'[r] = left
             /\ UNCHANGED <<claim, failures, reopens, proc, swept, drive>>
             /\ sess' = [sess EXCEPT ![s] = IdleSess]
             /\ \A q \in Runs : q # r => status'[q] = status[q] /\ pending'[q] = pending[q]
  BY <1>1, <1>6 DEF Commit
<1>7. ASSUME NEW to, NEW left, Commit(s, to, left), to # "absent", to # "running",
             to = "open" => status[r] = "open" \/ sess[s].op \in Reopening
      PROVE  Settles(s, r)
  BY <1>6, <1>7 DEF Settles
<1>8. ASSUME NEW left, Commit(s, status[r], left), Asks(r) => left \ {"report"} # {}
      PROVE  Settles(s, r)
  BY <1>3, <1>6, <1>8 DEF Settles, Current, Asks
<1>9. status[r] # "absent"
  BY <1>3 DEF Current
<1>10. CASE CancelRun(s) \/ DiscardRun(s) \/ Abandon(s)
  <2>1. PICK left : Commit(s, moved(r, held, "cancelled"), left)
    BY <1>10 DEF CancelRun, DiscardRun, Abandon, To
  <2>2. QED
    BY <1>2, <1>4, <1>6, <1>7, <1>9, <2>1
<1>11. CASE RetryRun(s) \/ ReopenRun(s) \/ DenyReopens(s)
  <2>1. PICK left : Commit(s, moved(r, held, "open"), left)
    BY <1>11 DEF RetryRun, ReopenRun, DenyReopens, PutBack, To
  <2>2. sess[s].op \in Reopening
    BY <1>11 DEF RetryRun, ReopenRun, DenyReopens, Reopening
  <2>3. QED
    BY <1>2, <1>4, <1>6, <1>7, <1>9, <2>1, <2>2
<1>12. CASE Resume(s)
  <2> DEFINE back == \/ held \notin Table!Terminal /\ sess[s].kind # "report"
                     \/ held \in {"review_ready", "failed"} /\ sess[s].kind = "report"
  <2>1. sess[s].op \in Reopening
    BY <1>12 DEF Resume, Reopening
  <2>2. PICK end \in (IF back THEN {moved(r, held, "open")} ELSE {})
                      \union (IF ~back \/ sess[s].kind = "report" THEN {status[r]} ELSE {}) :
           Commit(s, end, Left(s))
    BY <1>12 DEF Resume, To
  <2>3. CASE end = moved(r, held, "open")
    BY <1>2, <1>4, <1>6, <1>7, <1>9, <2>1, <2>2, <2>3
  <2>4. CASE end = status[r] /\ sess[s].kind = "report"
    <3>1. Asks(r) => Left(s) \ {"report"} # {}
      BY <2>4 DEF Asks, Left
    <3>2. QED
      BY <1>2, <1>6, <1>8, <2>2, <2>4, <3>1
  <2>5. CASE end = status[r] /\ ~back /\ sess[s].kind # "report"
    <3>1. status[r] # "running"
      BY <1>3, <2>5 DEF Current, Table!Terminal
    <3>2. QED
      BY <1>2, <1>6, <1>7, <1>9, <2>1, <2>2, <2>5, <3>1
  <2>6. QED
    BY <2>2, <2>3, <2>4, <2>5
<1>13. CASE Ship(s)
  <2>1. PICK end \in {moved(r, held, "review_ready"), ShipHops(r, held)} : Commit(s, end, Left(s))
    BY <1>13 DEF Ship, To
  <2>2. end \in {"shipped", "review_ready", status[r]} \ {"running"}
    BY <1>4, <1>5, <2>1
  <2>3. QED
    BY <1>2, <1>6, <1>7, <1>9, <2>1, <2>2
<1>14. CASE Deliver(s)
  <2>1. PICK end \in {status[r], moved(r, held, "review_ready"), moved(r, held, "shipped")} :
           /\ Commit(s, end, pending[r] \ {"review"})
           /\ end = status[r] /\ status[r] = "running" => "review" \notin pending[r]
    BY <1>4, <1>14 DEF Deliver, To
  <2>2. CASE end = status[r] /\ status[r] = "running"
    <3>1. Asks(r) => (pending[r] \ {"review"}) \ {"report"} # {}
      BY <2>1, <2>2 DEF Asks
    <3>2. QED
      BY <1>2, <1>6, <1>8, <2>1, <2>2, <3>1
  <2>3. CASE ~(end = status[r] /\ status[r] = "running")
    <3>1. end \in {"shipped", "review_ready", status[r]} \ {"running"}
      BY <1>4, <2>1, <2>3
    <3>2. QED
      BY <1>2, <1>6, <1>7, <1>9, <2>1, <3>1
  <2>4. QED
    BY <2>2, <2>3
<1>15. CASE Redispatch(s)
  <2>1. Commit(s, moved(r, status[r], "open"), pending[r]) /\ sess[s].op \in Reopening
    BY <1>15 DEF Redispatch, Reopening
  <2>2. QED
    BY <1>2, <1>4, <1>6, <1>7, <1>9, <2>1
<1>16. CASE ConflictEscalates(s)
  <2>1. Commit(s, moved(r, status[r], "running"), pending[r] \union {"blocked"})
    BY <1>16 DEF ConflictEscalates
  <2>2. moved(r, status[r], "running") \in {"running", status[r]} /\ "blocked" \in pending'[r]
    BY <1>6, <2>1 DEF moved
  <2>3. QED
    BY <1>2, <1>6, <1>9, <2>1, <2>2 DEF Settles, Asks
<1>17. CASE StallReports(s)
  <2>1. Commit(s, status[r], pending[r] \union {"report"})
    BY <1>17 DEF StallReports
  <2>2. Asks(r) => (pending[r] \union {"report"}) \ {"report"} # {}
    BY DEF Asks
  <2>3. QED
    BY <1>2, <1>6, <1>8, <2>1, <2>2
<1>18. CASE PrConcluded(s)
  <2>1. PICK to \in {"shipped", "cancelled"} : \E left : Commit(s, moved(r, status[r], to), left)
    BY <1>18 DEF PrConcluded
  <2>2. QED
    BY <1>2, <1>4, <1>6, <1>7, <1>9, <2>1
<1>19. QED
  BY <1>10, <1>11, <1>12, <1>13, <1>14, <1>15, <1>16, <1>17, <1>18 DEF SessCommit

LEMMA CommitKeeps ==
    ASSUME RowInv, OrderInv, NEW s \in Sessions, SessCommit(s)
    PROVE  OrderInv'
<1> PICK r \in Runs : r = sess[s].run
  BY DEF RowInv, TypeOK, SessRecords
<1>1. /\ Settles(s, r) /\ Holds(s, r)
      /\ UNCHANGED <<claim, proc, drive>>
      /\ sess' = [sess EXCEPT ![s] = IdleSess]
      /\ \A q \in Runs : q # r => status'[q] = status[q] /\ pending'[q] = pending[q]
  BY CommitSettles
<1>2. Current(s, r)
  BY <1>1 DEF OrderInv, SessionsCurrent
<1>3. /\ \A d \in Drives, q \in Runs : LiveOn(d, q)' <=> LiveOn(d, q)
      /\ \A q \in Runs : Driven(q)' <=> Driven(q)
  BY <1>1 DEF LiveOn, Live, Driven
<1>4. \A t \in Sessions, q \in Runs : Holds(t, q)' => t # s /\ Holds(t, q) /\ q # r
  <2>1. \A t \in Sessions, q \in Runs : Holds(t, q)' => t # s /\ Holds(t, q)
    BY <1>1 DEF RowInv, TypeOK, Holds, IdleSess
  <2>2. QED
    BY <1>1, <2>1 DEF OrderInv, OneSession
<1>5. SingleDrive' /\ OneUp' /\ OneSession'
  BY <1>1, <1>3, <1>4 DEF OrderInv, SingleDrive, OneUp, OneSession
<1>6. DrivesSecure'
  <2> SUFFICES ASSUME NEW d \in Drives, NEW q \in Runs, LiveOn(d, q)
               PROVE  Secure(d, q)'
    BY <1>3 DEF DrivesSecure
  <2>1. Secure(d, q) /\ Driven(q)
    BY DEF OrderInv, DrivesSecure, Driven
  <2>2. CASE q # r
    BY <1>1, <2>1, <2>2 DEF Secure, Stamp, Asks
  <2>3. CASE q = r
    <3>1. status'[r] # "open"
      BY <1>1, <1>2, <2>1, <2>3 DEF Settles, Current, Secure
    <3>2. QED
      BY <1>1, <2>1, <2>3, <3>1 DEF Settles, Secure, Stamp
  <2>4. QED
    BY <2>2, <2>3
<1>7. SessionsCurrent'
  <2> SUFFICES ASSUME NEW t \in Sessions, NEW q \in Runs, Holds(t, q), t # s, q # r
               PROVE  Current(t, q)'
    BY <1>4 DEF SessionsCurrent
  <2>1. Current(t, q)
    BY DEF OrderInv, SessionsCurrent
  <2>2. sess'[t] = sess[t]
    BY <1>1 DEF RowInv, TypeOK
  <2>3. QED
    BY <1>1, <1>3, <2>1, <2>2 DEF Current
<1>8. RowsKept'
  <2> SUFFICES ASSUME NEW q \in Runs
               PROVE  Kept(q)'
    BY DEF RowsKept
  <2>1. Kept(q)
    BY DEF OrderInv, RowsKept
  <2>2. CASE q = r
    BY <1>1, <1>3, <2>1, <2>2 DEF Kept, Settles
  <2>3. CASE q # r
    BY <1>1, <1>3, <2>1, <2>3 DEF Kept, Asks
  <2>4. QED
    BY <2>2, <2>3
<1>9. QED
  BY <1>5, <1>6, <1>7, <1>8 DEF OrderInv, Orderly

-----------------------------------------------------------------------------
(* The theorems.                                                           *)

LEMMA NextKeeps == RowInv /\ OrderInv /\ [Next]_vars => OrderInv'
<1> SUFFICES ASSUME RowInv, OrderInv, [Next]_vars
             PROVE  OrderInv'
  OBVIOUS
<1>1. CASE UNCHANGED vars
  BY <1>1 DEF vars, OrderInv, Orderly, OneUp, SingleDrive, DrivesSecure, Secure, Stamp, SessionsCurrent,
       Current, OneSession, RowsKept, Kept, Driven, LiveOn, Live, Holds, Asks
<1>2. ASSUME NEW d \in Drives, DriveStep(d) \/ (Quiet(drive[d].run) /\ AskOutOfBand(d))
      PROVE  OrderInv'
  BY <1>2, DriveKeeps DEF DriveStep, Steps
<1>3. ASSUME NEW s \in Sessions,
             SessCommit(s) \/ \E op \in Offered, r \in Runs, k \in Kinds : SessLoad(s, op, r, k)
      PROVE  OrderInv'
  BY <1>3, CommitKeeps, LoadKeeps
<1>4. QED
  BY <1>1, <1>2, <1>3, ProcKeeps, LeaseKeeps DEF Next

LEMMA OrderHolds == Orderly /\ Spec => []OrderInv
<1>1. Orderly /\ Init => OrderInv
  BY DEF Init, OrderInv, OneUp, SingleDrive, DrivesSecure, SessionsCurrent, OneSession, RowsKept,
         Kept, LiveOn, Live, Holds, IdleDrive, IdleSess, Drives
<1>2. QED
  BY <1>1, NextKeeps, RowInvHolds, PTL DEF Spec

\* Two drives never work on one run: in an orderly environment the claim of a live
\* drive is fresh and its own, so that neither the reaper nor another machine's or a
\* successor's sweep hands the run out again.
THEOREM OneDriveAtATime == Orderly /\ Spec => []SingleDrive
<1>1. OrderInv => SingleDrive
  BY DEF OrderInv
<1>2. QED
  BY <1>1, OrderHolds, PTL

\* No RUNNING run is left with no drive, no claim the reaper can take back and no
\* Decision in front of the founder, whichever way its drives, its process and the
\* sessions end.
THEOREM RunsStayReachable == Orderly /\ Spec => []NoStranded
<1>1. OrderInv => NoStranded
  BY DEF OrderInv, RowsKept, Kept, NoStranded, Reachable, Driven, Asks
<1>2. QED
  BY <1>1, OrderHolds, PTL

-----------------------------------------------------------------------------
(* The count of failed drives.                                             *)

\* Processes whose drives were cut short.
Away == {p \in Procs : proc[p] \in {"stopping", "gone"}}

Bound(r) == MaxFailures + reopens[r] + Cardinality(Away)

\* Runs whose next drive may fail again: driven short of the escalation, on the
\* queue, for the reaper to put there, or about to be put there by a session.
MayFail(r) ==
    \/ \E d \in Drives : LiveOn(d, r) /\ drive[d].pc \notin {"escalate", "park"}
    \/ status[r] = "open"
    \/ status[r] = "running" /\ ~Driven(r) /\ ~Asks(r)
    \/ \E s \in Sessions : Holds(s, r) /\ sess[s].op \in Reopening

Counted(r) ==
    /\ status[r] = "absent" => failures[r] = 0
    /\ failures[r] <= Bound(r)
    /\ MayFail(r) => failures[r] < Bound(r)
CountInv == IsFiniteSet(Procs) /\ \A r \in Runs : Counted(r)

LEMMA BoundType ==
    ASSUME IsFiniteSet(Procs), TypeOK, NEW r \in Runs
    PROVE  /\ Bound(r) \in Nat /\ failures[r] \in Nat /\ MaxFailures > 0 /\ MaxFailures <= Bound(r)
           /\ Cardinality(Away) \in Nat /\ reopens[r] \in Nat
<1>1. Cardinality(Away) \in Nat
  BY FS_Subset, FS_CardinalityType DEF Away
<1>2. reopens[r] \in Nat /\ failures[r] \in Nat /\ MaxFailures \in Nat \ {0}
  BY BoundAssumption DEF TypeOK
<1>3. QED
  BY <1>1, <1>2 DEF Bound

\* A step that counts nothing keeps a run counted if it raises the bound or lets no
\* run fail that might not before.
LEMMA CountedKept ==
    ASSUME IsFiniteSet(Procs), TypeOK, TypeOK', NEW r \in Runs, Counted(r), failures'[r] = failures[r],
           status'[r] = "absent" => status[r] = "absent",
           \/ Bound(r)' > Bound(r)
           \/ Bound(r)' = Bound(r) /\ (MayFail(r)' => MayFail(r))
    PROVE  Counted(r)'
<1>1. Bound(r) \in Nat /\ Bound(r)' \in Nat /\ failures[r] \in Nat
  <2>1. Cardinality(Away') \in Nat
    BY FS_Subset, FS_CardinalityType DEF Away
  <2>2. reopens'[r] \in Nat /\ MaxFailures \in Nat
    BY BoundAssumption DEF TypeOK
  <2>3. QED
    BY <2>1, <2>2, BoundType DEF Bound
<1>2. /\ failures[r] <= Bound(r) /\ (MayFail(r) => failures[r] < Bound(r))
      /\ status[r] = "absent" => failures[r] = 0
  BY DEF Counted
<1>3. failures[r] <= Bound(r)' /\ (MayFail(r)' => failures[r] < Bound(r)')
  BY <1>1, <1>2
<1>4. QED
  BY <1>2, <1>3 DEF Counted

LEMMA DriveCounts ==
    ASSUME IsFiniteSet(Procs), RowInv, RowInv', OrderInv, CountInv,
           NEW d \in Drives, Steps(d), Quiet(drive[d].run)
    PROVE  CountInv'
<1> SUFFICES ASSUME NEW q \in Runs
             PROVE  Counted(q)'
  BY DEF CountInv
<1> PICK r \in Runs : r = drive[d].run
  BY DEF RowInv, TypeOK, DriveRecords
<1>1. /\ LiveOn(d, r)
      /\ UNCHANGED <<reopens, proc, sess>>
      /\ \A e \in Drives : e # d => drive'[e] = drive[e]
      /\ q # r => /\ status'[q] = status[q] /\ pending'[q] = pending[q]
                  /\ failures'[q] = failures[q]
      /\ drive'[d] = IdleDrive \/ drive'[d].run = r
  BY DriveFrame DEF LiveOn
<1>2. Leaves(d, r) /\ Counts(d, r)
  BY DriveLeaves
<1>3. TypeOK /\ TypeOK' /\ Counted(q)
  BY DEF RowInv, CountInv
<1>4. Bound(q)' = Bound(q)
  BY <1>1 DEF Bound, Away
<1>5. CASE q # r
  <2>1. \A e \in Drives : LiveOn(e, q)' <=> LiveOn(e, q)
    BY <1>1, <1>5 DEF LiveOn, Live, IdleDrive
  <2>2. \A e \in Drives : LiveOn(e, q) => drive'[e] = drive[e]
    BY <1>1, <1>5 DEF LiveOn
  <2>3. MayFail(q)' => MayFail(q)
    BY <1>1, <1>5, <2>1, <2>2 DEF MayFail, Driven, Asks, Holds
  <2>4. QED
    BY <1>1, <1>3, <1>4, <1>5, <2>3, CountedKept
<1>6. CASE q = r
  <2>1. \A s \in Sessions : ~Holds(s, r)'
    BY <1>1 DEF OrderInv, Orderly, Quiet, Holds
  <2>2. \A e \in Drives : LiveOn(e, r)' => e = d
    BY <1>1 DEF OrderInv, SingleDrive, LiveOn, Live
  <2>3. /\ Bound(r) \in Nat /\ failures[r] \in Nat /\ MaxFailures > 0 /\ MaxFailures <= Bound(r)
        /\ MaxFailures \in Nat /\ failures'[r] \in Nat
    BY <1>3, BoundType, BoundAssumption DEF TypeOK
  <2>4. drive[d].pc \notin {"escalate", "park"} => failures[r] < Bound(r)
    BY <1>1, <1>3, <1>6 DEF Counted, MayFail
  <2>5. status'[r] # "absent"
    BY <1>2 DEF Leaves, Secure
  <2>6. failures'[r] <= Bound(r)
    BY <1>2, <1>3, <1>6, <2>3, <2>4 DEF Counts, Counted
  <2>7. ASSUME MayFail(r)'
        PROVE  failures'[r] < Bound(r)
    <3>1. CASE Live(d)'
      <4>1. LiveOn(d, r)' /\ status'[r] # "open"
        BY <1>1, <1>2, <3>1 DEF Leaves, Secure, LiveOn, Live, IdleDrive
      <4>2. drive'[d].pc \notin {"escalate", "park"}
        BY <2>1, <2>2, <2>7, <4>1 DEF MayFail, Driven
      <4>3. QED
        BY <1>2, <2>3, <2>4, <3>1, <4>2 DEF Counts
    <3>2. CASE ~Live(d)'
      <4>1. \A e \in Drives : ~LiveOn(e, r)'
        BY <2>2, <3>2 DEF LiveOn
      <4>2. status'[r] = "open"
        BY <1>2, <2>1, <2>7, <3>2, <4>1 DEF MayFail, Leaves
      <4>3. drive[d].pc = "giveback"
        BY <1>2, <3>2, <4>2 DEF Leaves
      <4>4. QED
        BY <1>2, <2>3, <2>4, <4>3 DEF Counts
    <3>3. QED
      BY <3>1, <3>2
  <2>8. QED
    BY <1>4, <1>6, <2>5, <2>6, <2>7 DEF Counted
<1>7. QED
  BY <1>5, <1>6

LEMMA SessCounts ==
    ASSUME IsFiniteSet(Procs), RowInv, RowInv', OrderInv, CountInv, NEW s \in Sessions,
           SessCommit(s) \/ \E op \in Offered, r \in Runs, k \in Kinds : SessLoad(s, op, r, k)
    PROVE  CountInv'
<1> SUFFICES ASSUME NEW q \in Runs
             PROVE  Counted(q)'
  BY DEF CountInv
<1>1. TypeOK /\ TypeOK' /\ Counted(q)
  BY DEF RowInv, CountInv
<1>2. CASE SessCommit(s)
  <2> PICK r \in Runs : r = sess[s].run
    BY <1>1 DEF TypeOK, SessRecords
  <2>1. /\ Settles(s, r) /\ Holds(s, r)
        /\ UNCHANGED <<failures, reopens, proc, drive>>
        /\ sess' = [sess EXCEPT ![s] = IdleSess]
        /\ q # r => status'[q] = status[q] /\ pending'[q] = pending[q]
    BY <1>2, CommitSettles
  <2>2. \A t \in Sessions : Holds(t, q)' => Holds(t, q) /\ sess'[t] = sess[t]
    BY <1>1, <2>1 DEF TypeOK, Holds, IdleSess
  <2>3. \A d \in Drives : (LiveOn(d, q)' <=> LiveOn(d, q)) /\ drive'[d] = drive[d]
    BY <2>1 DEF LiveOn, Live
  <2>4. MayFail(q)' => MayFail(q)
    <3>1. CASE q = r
      BY <2>1, <2>2, <2>3, <3>1 DEF MayFail, Driven, Settles
    <3>2. CASE q # r
      BY <2>1, <2>2, <2>3, <3>2 DEF MayFail, Driven, Asks
    <3>3. QED
      BY <3>1, <3>2
  <2>5. Bound(q)' = Bound(q)
    BY <2>1 DEF Bound, Away
  <2>6. QED
    BY <1>1, <2>1, <2>4, <2>5, CountedKept DEF Settles
<1>3. CASE \E op \in Offered, r \in Runs, k \in Kinds : SessLoad(s, op, r, k)
  <2> PICK op \in Offered, r \in Runs, k \in Kinds : SessLoad(s, op, r, k)
    BY <1>3
  <2>1. /\ UNCHANGED <<status, pending, failures, proc, drive>>
        /\ sess'[s].op = op /\ sess'[s].run = r
        /\ \A t \in Sessions : t # s => sess'[t] = sess[t]
        /\ reopens' = [reopens EXCEPT ![r] = IF op \in Reopening THEN @ + 1 ELSE @]
    BY <1>1 DEF TypeOK, SessLoad
  <2>2. UNCHANGED Away
    BY <2>1 DEF Away
  <2>3. CASE q = r /\ op \in Reopening
    <3>1. reopens'[q] = reopens[q] + 1
      BY <1>1, <2>1, <2>3 DEF TypeOK
    <3>2. Bound(q)' > Bound(q)
      BY <1>1, <2>2, <3>1, BoundType, BoundAssumption DEF Bound
    <3>3. QED
      BY <1>1, <2>1, <3>2, CountedKept
  <2>4. CASE ~(q = r /\ op \in Reopening)
    <3>1. Bound(q)' = Bound(q)
      BY <1>1, <2>1, <2>2, <2>4 DEF TypeOK, Bound
    <3>2. \A t \in Sessions : Holds(t, q)' /\ sess'[t].op \in Reopening
                                => Holds(t, q) /\ sess[t].op \in Reopening
      BY <2>1, <2>4 DEF Holds
    <3>3. \A d \in Drives : (LiveOn(d, q)' <=> LiveOn(d, q)) /\ drive'[d] = drive[d]
      BY <2>1 DEF LiveOn, Live
    <3>4. MayFail(q)' => MayFail(q)
      BY <2>1, <3>2, <3>3 DEF MayFail, Driven, Asks
    <3>5. QED
      BY <1>1, <2>1, <3>1, <3>4, CountedKept
  <2>5. QED
    BY <2>3, <2>4
<1>4. QED
  BY <1>2, <1>3

LEMMA ResetCounts ==
    ASSUME IsFiniteSet(Procs), RowInv, RowInv', CountInv, NEW S, ResetClaims(S),
           \A r \in Runs : r \in S /\ Resettable(r) => ~Driven(r),
           UNCHANGED <<drive, sess, Away>>
    PROVE  CountInv'
<1> SUFFICES ASSUME NEW r \in Runs
             PROVE  Counted(r)'
  BY DEF CountInv
<1>1. TypeOK /\ TypeOK' /\ Counted(r) /\ UNCHANGED <<pending, failures, reopens>>
  BY DEF RowInv, CountInv, ResetClaims
<1>2. \/ status'[r] = status[r]
      \/ status[r] = "running" /\ pending[r] = {} /\ ~Driven(r) /\ status'[r] = "open"
  BY <1>1 DEF TypeOK, ResetClaims, Resettable
<1>3. MayFail(r)' => MayFail(r)
  BY <1>1, <1>2 DEF MayFail, Driven, LiveOn, Live, Asks, Holds
<1>4. Bound(r)' = Bound(r)
  BY <1>1 DEF Bound
<1>5. QED
  BY <1>1, <1>2, <1>3, <1>4, CountedKept

\* A process that is cut short raises the bound by one, once.
LEMMA AwayGrows ==
    ASSUME IsFiniteSet(Procs), RowInv, NEW p \in Procs, Crash(p) \/ Stop(p)
    PROVE  IF proc[p] = "up" THEN Cardinality(Away') = Cardinality(Away) + 1
                             ELSE Away' = Away
<1>1. proc \in [Procs -> {"off", "up", "stopping", "gone"}]
  BY DEF RowInv, TypeOK
<1>2. IsFiniteSet(Away)
  BY FS_Subset DEF Away
<1>3. CASE proc[p] = "up"
  <2>1. p \notin Away /\ Away' = Away \union {p}
    BY <1>1, <1>3 DEF Away, Crash, Stop
  <2>2. QED
    BY <1>2, <1>3, <2>1, FS_AddElement
<1>4. CASE proc[p] # "up"
  BY <1>1, <1>4 DEF Away, Crash, Stop
<1>5. QED
  BY <1>3, <1>4

LEMMA CutCounts ==
    ASSUME IsFiniteSet(Procs), RowInv, RowInv', OrderInv, CountInv, NEW p \in Procs,
           Crash(p) \/ Stop(p)
    PROVE  CountInv'
<1> SUFFICES ASSUME NEW r \in Runs
             PROVE  Counted(r)'
  BY DEF CountInv
<1>1. TypeOK /\ TypeOK' /\ Counted(r) /\ UNCHANGED <<rowVars, sess>>
  BY DEF RowInv, CountInv, Crash, Stop
<1>2. UNCHANGED <<status, pending, failures, reopens>>
  BY <1>1 DEF rowVars
<1>3. CASE proc[p] = "up"
  <2>1. Bound(r)' > Bound(r)
    BY <1>1, <1>2, <1>3, AwayGrows, BoundType, BoundAssumption DEF Bound
  <2>2. QED
    BY <1>1, <1>2, <2>1, CountedKept
<1>4. CASE proc[p] # "up"
  <2>1. Crash(p) /\ Away' = Away /\ proc[p] = "stopping"
    BY <1>4, AwayGrows DEF Crash, Stop
  <2>2. \A d \in Drives : IF d[1] = p THEN drive'[d] = IdleDrive ELSE drive'[d] = drive[d]
    BY <2>1 DEF Crash
  <2>3. \A d \in Drives : LiveOn(d, r)' => LiveOn(d, r) /\ drive'[d] = drive[d]
    BY <2>2 DEF LiveOn, Live, IdleDrive
  <2>4. ASSUME NEW d \in Drives, LiveOn(d, r), ~LiveOn(d, r)'
        PROVE  drive[d].pc \notin {"escalate", "park"}
    <3>1. d[1] = p
      BY <2>2, <2>4 DEF LiveOn, Live
    <3>2. QED
      BY <2>1, <2>4, <3>1 DEF OrderInv, DrivesSecure, Secure
  <2>5. MayFail(r)' => MayFail(r)
    BY <1>1, <1>2, <2>3, <2>4 DEF MayFail, Driven, Asks, Holds
  <2>6. Bound(r)' = Bound(r)
    BY <1>2, <2>1 DEF Bound
  <2>7. QED
    BY <1>1, <1>2, <2>5, <2>6, CountedKept
<1>5. QED
  BY <1>3, <1>4

LEMMA ProcCounts ==
    ASSUME IsFiniteSet(Procs), RowInv, RowInv', OrderInv, CountInv, NEW p \in Procs,
           \/ Start(p) \/ Crash(p) \/ Stop(p) \/ StopReleases(p) \/ Tick(p)
           \/ \E r \in Runs : OpenRun(p, r)
           \/ \E k \in Slots, r \in Runs : Claim(p, k, r)
    PROVE  CountInv'
<1>1. /\ TypeOK /\ TypeOK' /\ proc \in [Procs -> {"off", "up", "stopping", "gone"}]
      /\ status \in [Runs -> RowStatuses]
  BY DEF RowInv, TypeOK
<1>2. CASE Start(p)
  <2>1. UNCHANGED <<Away, rowVars, drive, sess>>
    BY <1>1, <1>2 DEF Start, Away
  <2>2. ASSUME NEW r \in Runs PROVE Counted(r)'
    BY <2>1 DEF CountInv, Counted, Bound, MayFail, Driven, LiveOn, Live, Asks, Holds, rowVars
  <2>3. QED
    BY <2>2 DEF CountInv
<1>3. CASE StopReleases(p)
  <2>1. \A r \in Runs : claim[r].by = p => ~Driven(r)
    BY <1>3, DrivenClaim DEF StopReleases, LiveOn
  <2>2. UNCHANGED Away
    BY <1>1, <1>3 DEF StopReleases, Away
  <2>3. QED
    BY <1>3, <2>1, <2>2, ResetCounts DEF StopReleases
<1>4. CASE Tick(p)
  <2>1. \A r \in Runs : claim[r].at = "stale" => ~Driven(r)
    BY DrivenClaim
  <2>2. \A r \in Runs : proc[p] = "up" /\ claim[r].by # p /\ claim[r].home = MachineOf[p] => ~Driven(r)
    BY <1>1, DrivenClaim DEF OrderInv, OneUp, Drives
  <2>3. UNCHANGED Away
    BY <1>4 DEF Tick, ReleaseOrphans, ReapStale, Away
  <2>4. QED
    BY <1>4, <2>1, <2>2, <2>3, ResetCounts DEF Tick, ReleaseOrphans, ReapStale
<1>5. ASSUME NEW r \in Runs, OpenRun(p, r)
      PROVE  CountInv'
  <2> SUFFICES ASSUME NEW q \in Runs
               PROVE  Counted(q)'
    BY DEF CountInv
  <2>1. /\ status[r] = "absent" /\ status'[r] = "open" /\ (q # r => status'[q] = status[q])
        /\ UNCHANGED <<pending, failures, reopens, proc, drive, sess>> /\ Counted(q)
    BY <1>1, <1>5 DEF OpenRun, CountInv
  <2>2. Bound(q)' = Bound(q)
    BY <2>1 DEF Bound, Away
  <2>3. CASE q = r
    <3>1. Bound(q) \in Nat /\ MaxFailures <= Bound(q) /\ MaxFailures \in Nat \ {0}
      BY <1>1, BoundType, BoundAssumption
    <3>2. failures'[q] = 0
      BY <2>1, <2>3 DEF Counted
    <3>3. QED
      BY <2>2, <3>1, <3>2 DEF Counted
  <2>4. CASE q # r
    <3>1. MayFail(q)' => MayFail(q)
      BY <2>1, <2>4 DEF MayFail, Driven, LiveOn, Live, Asks, Holds
    <3>2. QED
      BY <1>1, <2>1, <2>2, <2>4, <3>1, CountedKept
  <2>5. QED
    BY <2>3, <2>4
<1>6. ASSUME NEW k \in Slots, NEW r \in Runs, Claim(p, k, r)
      PROVE  CountInv'
  <2> SUFFICES ASSUME NEW q \in Runs
               PROVE  Counted(q)'
    BY DEF CountInv
  <2>1. /\ status[r] = "open" /\ status'[r] = "running" /\ (q # r => status'[q] = status[q])
        /\ ~Live(<<p, k>>) /\ <<p, k>> \in Drives /\ drive'[<<p, k>>].run = r
        /\ UNCHANGED <<pending, failures, reopens, proc, sess>> /\ Counted(q)
    BY <1>1, <1>6 DEF Claim, CountInv, Drives, IdleDrive, TypeOK
  <2>2. Bound(q)' = Bound(q)
    BY <2>1 DEF Bound, Away
  <2>3. MayFail(q)' => MayFail(q)
    <3>1. CASE q = r
      BY <2>1, <3>1 DEF MayFail
    <3>2. CASE q # r
      <4>1. \A d \in Drives : (LiveOn(d, q)' <=> LiveOn(d, q)) /\ (LiveOn(d, q) => drive'[d].pc = drive[d].pc)
        <5>1. \A d \in Drives : LiveOn(d, q) => d # <<p, k>> /\ ~LiveOn(d, r)
          BY <2>1, <3>2 DEF LiveOn
        <5>2. \A d \in Drives : d # <<p, k>> => drive'[d] = drive[d]
          BY <1>1, <1>6 DEF Claim, TypeOK
        <5>3. QED
          BY <2>1, <3>2, <5>1, <5>2 DEF LiveOn, Live
      <4>2. QED
        BY <2>1, <3>2, <4>1 DEF MayFail, Driven, Asks, Holds
    <3>3. QED
      BY <3>1, <3>2
  <2>4. QED
    BY <1>1, <2>1, <2>2, <2>3, CountedKept
<1>7. QED
  BY <1>2, <1>3, <1>4, <1>5, <1>6, CutCounts

LEMMA CountHolds == IsFiniteSet(Procs) /\ Orderly /\ Spec => []CountInv
<1>1. IsFiniteSet(Procs) /\ Init => CountInv
  <2> SUFFICES ASSUME IsFiniteSet(Procs), Init, NEW r \in Runs
               PROVE  Counted(r)
    BY DEF CountInv
  <2>1. Bound(r) \in Nat /\ MaxFailures <= Bound(r) /\ MaxFailures \in Nat \ {0}
    BY InitType, BoundType, BoundAssumption
  <2>2. failures[r] = 0
    BY DEF Init
  <2>3. QED
    BY <2>1, <2>2 DEF Counted
<1>2. RowInv /\ RowInv' /\ OrderInv /\ CountInv /\ [Next]_vars => CountInv'
  <2> SUFFICES ASSUME IsFiniteSet(Procs), RowInv, RowInv', OrderInv, CountInv, [Next]_vars
               PROVE  CountInv'
    BY DEF CountInv
  <2>1. CASE UNCHANGED vars
    <3>1. ASSUME NEW r \in Runs PROVE Counted(r)'
      BY <2>1 DEF vars, CountInv, Counted, Bound, Away, MayFail, Driven, LiveOn, Live, Asks, Holds
    <3>2. QED
      BY <3>1 DEF CountInv
  <2>2. ASSUME NEW d \in Drives, DriveStep(d) \/ (Quiet(drive[d].run) /\ AskOutOfBand(d))
        PROVE  CountInv'
    BY <2>2, DriveCounts DEF DriveStep, Steps
  <2>3. ASSUME NEW q \in Runs, LeaseExpires(q)
        PROVE  CountInv'
    <3>1. ASSUME NEW r \in Runs PROVE Counted(r)'
      BY <2>3 DEF LeaseExpires, CountInv, Counted, Bound, Away, MayFail, Driven, LiveOn, Live, Asks, Holds
    <3>2. QED
      BY <3>1 DEF CountInv
  <2>4. QED
    BY <2>1, <2>2, <2>3, ProcCounts, SessCounts DEF Next
<1>3. QED
  BY <1>1, <1>2, RowInvHolds, OrderHolds, PTL DEF Spec

\* An exception that keeps coming back reaches the founder: the count passes its bound
\* by no more than one for every process cut short and every re-open of the run.
THEOREM FailuresBounded == IsFiniteSet(Procs) /\ Orderly /\ Spec => []FailureBound
<1>1. CountInv => FailureBound
  BY DEF CountInv, Counted, Bound, Away, FailureBound
<1>2. QED
  BY <1>1, CountHolds, PTL
==============================================================================
