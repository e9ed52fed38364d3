------------------------- MODULE RunLifecycleProofs -------------------------
(***************************************************************************)
(* Theorems about RunLifecycle, for every value of its constants.          *)
(***************************************************************************)
EXTENDS RunLifecycle, TLAPS

-----------------------------------------------------------------------------
(* Types.                                                                  *)

LEMMA IdleTypes == /\ AnyRun \in Runs
                   /\ IdleDrive \in DriveRecords
                   /\ IdleSess \in SessRecords
                   /\ NoClaim \in Claims
<1>1. AnyRun \in Runs
  BY RunAssumption DEF AnyRun
<1>2. IdleDrive \in DriveRecords
  BY <1>1, BoundAssumption DEF IdleDrive, DriveRecords, DrivePcs, RowStatuses, Outcomes
<1>3. IdleSess \in SessRecords
  BY <1>1 DEF IdleSess, SessRecords, Ops, RowStatuses, Kinds
<1>4. NoClaim \in Claims
  BY DEF NoClaim, Claims, Machines
<1>5. QED
  BY <1>1, <1>2, <1>3, <1>4

\* A compare-and-set leaves a status a status.
LEMMA MovedType ==
    ASSUME TypeOK, NEW r \in Runs, NEW held, NEW to \in RowStatuses
    PROVE  /\ moved(r, held, to) \in RowStatuses
           /\ held \in RowStatuses => heldAfter(r, held, to) \in RowStatuses
BY DEF TypeOK, moved, heldAfter

LEMMA AtType ==
    ASSUME TypeOK, NEW d \in Drives, NEW pc \in DrivePcs
    PROVE  At(d, pc) \in DriveRecords
<1>1. drive[d] \in DriveRecords
  BY DEF TypeOK
<1>2. CASE pc \in {"exit", "raised", "release"}
  BY <1>1, <1>2, IdleTypes DEF At, DriveRecords, IdleDrive
<1>3. CASE pc \notin {"exit", "raised", "release"}
  BY <1>1, <1>3 DEF At, DriveRecords
<1>4. QED
  BY <1>2, <1>3

LEMMA ClaimAtType ==
    ASSUME TypeOK, NEW r \in Runs, NEW at \in {"null", "fresh", "stale"}
    PROVE  [claim EXCEPT ![r].at = at] \in [Runs -> Claims]
<1>1. claim[r] \in Claims
  BY DEF TypeOK
<1>2. [claim[r] EXCEPT !.at = at] \in Claims
  BY <1>1 DEF Claims
<1>3. QED
  BY <1>2 DEF TypeOK

LEMMA ResetType ==
    ASSUME TypeOK, NEW S, ResetClaims(S)
    PROVE  /\ status' \in [Runs -> RowStatuses]
           /\ claim' \in [Runs -> Claims]
           /\ UNCHANGED <<pending, failures, output, reopens>>
BY IdleTypes DEF TypeOK, ResetClaims, RowStatuses, Table!Statuses

LEMMA InitType == Init => TypeOK
<1> SUFFICES ASSUME Init PROVE TypeOK
  OBVIOUS
<1> QED
  BY IdleTypes, BoundAssumption DEF Init, TypeOK, RowStatuses

LEMMA ProcType ==
    ASSUME TypeOK, NEW p \in Procs,
           \/ Start(p) \/ Crash(p) \/ Stop(p) \/ StopReleases(p) \/ Tick(p)
           \/ \E r \in Runs : OpenRun(p, r)
           \/ \E k \in Slots, r \in Runs : Claim(p, k, r)
    PROVE  TypeOK'
<1>1. CASE Start(p)
  BY <1>1 DEF TypeOK, Start, rowVars
<1>2. CASE Crash(p)
  BY <1>2, IdleTypes DEF TypeOK, Crash, rowVars
<1>3. CASE Stop(p)
  <2>1. "release" \in DrivePcs
    BY DEF DrivePcs
  <2>2. drive' \in [Drives -> DriveRecords]
    BY <1>3, <2>1, AtType, IdleTypes DEF TypeOK, Stop
  <2>3. QED
    BY <1>3, <2>2 DEF TypeOK, Stop, rowVars
<1>4. CASE StopReleases(p)
  BY <1>4, ResetType DEF TypeOK, StopReleases
<1>5. CASE Tick(p)
  BY <1>5, ResetType DEF TypeOK, Tick, ReleaseOrphans, ReapStale
<1>6. CASE \E r \in Runs : OpenRun(p, r)
  BY <1>6 DEF TypeOK, OpenRun, RowStatuses, Table!Statuses
<1>7. CASE \E k \in Slots, r \in Runs : Claim(p, k, r)
  <2> PICK k \in Slots, r \in Runs : Claim(p, k, r)
    BY <1>7
  <2>1. <<p, k>> \in Drives
    BY DEF Drives
  <2>2. status' \in [Runs -> RowStatuses] /\ claim' \in [Runs -> Claims]
    <3>1. [at |-> "fresh", by |-> p, home |-> MachineOf[p]] \in Claims
      BY DEF Claims, Machines
    <3>2. QED
      BY <3>1 DEF TypeOK, Claim, RowStatuses, Table!Statuses
  <2>3. [IdleDrive EXCEPT !.pc = "claimed", !.run = r] \in DriveRecords
    BY IdleTypes DEF DriveRecords, DrivePcs
  <2>4. drive' \in [Drives -> DriveRecords]
    BY <2>1, <2>3 DEF TypeOK, Claim
  <2>5. QED
    BY <2>2, <2>4 DEF TypeOK, Claim
<1>8. QED
  BY <1>1, <1>2, <1>3, <1>4, <1>5, <1>6, <1>7

LEMMA LeaseType ==
    ASSUME TypeOK, NEW r \in Runs, LeaseExpires(r)
    PROVE  TypeOK'
BY ClaimAtType DEF TypeOK, LeaseExpires

LEMMA DriveType ==
    ASSUME TypeOK, NEW d \in Drives, DriveStep(d) \/ AskOutOfBand(d)
    PROVE  TypeOK'
<1> DEFINE r == drive[d].run
<1>1. /\ drive[d] \in DriveRecords
      /\ r \in Runs
      /\ drive[d].held \in RowStatuses
  BY DEF TypeOK, DriveRecords
<1>2. /\ "running" \in RowStatuses /\ "open" \in RowStatuses /\ "failed" \in RowStatuses
      /\ "review_ready" \in RowStatuses /\ "shipped" \in RowStatuses
  BY DEF RowStatuses, Table!Statuses
<1>3. \A pc \in DrivePcs : [drive EXCEPT ![d].pc = pc] \in [Drives -> DriveRecords]
  <2>1. \A pc \in DrivePcs : [drive[d] EXCEPT !.pc = pc] \in DriveRecords
    BY <1>1 DEF DriveRecords
  <2>2. QED
    BY <2>1 DEF TypeOK
<1>4. \A pc \in DrivePcs : Goto(d, pc) => TypeOK'
  BY AtType DEF TypeOK, Goto, rowVars
<1>5. \A k \in Kinds : PauseOn(d, k) => TypeOK'
  <2>1. "exit" \in DrivePcs
    BY DEF DrivePcs
  <2>2. QED
    BY <1>1, <2>1, AtType DEF TypeOK, PauseOn
<1>6. CASE LoadRun(d)
  <2>1. \A h \in RowStatuses : [drive[d] EXCEPT !.pc = "framing", !.held = h] \in DriveRecords
    BY <1>1 DEF DriveRecords, DrivePcs
  <2>2. QED
    BY <1>1, <1>6, <2>1 DEF TypeOK, LoadRun, rowVars
<1>7. CASE FrameRaises(d) \/ FrameSaturated(d) \/ StopCancelled(d) \/ TurnOutOfBand(d)
           \/ VerifyFails(d) \/ FinishRaises(d)
  BY <1>4, <1>7 DEF FrameRaises, FrameSaturated, StopCancelled, TurnOutOfBand, VerifyFails,
                    FinishRaises, DrivePcs
<1>8. CASE RoundCap(d) \/ TurnCaps(d) \/ TurnAsks(d) \/ VerifyPauses(d)
  BY <1>5, <1>8 DEF RoundCap, TurnCaps, TurnAsks, VerifyPauses, Kinds
<1>9. CASE FramePauses(d)
  <2>1. "exit" \in DrivePcs /\ "blocked" \in Kinds
    BY DEF DrivePcs, Kinds
  <2>2. QED
    BY <1>1, <1>2, <1>9, <2>1, AtType, MovedType DEF TypeOK, FramePauses
<1>10. CASE EnterLoop(d)
  <2>1. \A h \in RowStatuses : [drive[d] EXCEPT !.pc = "boundary", !.held = h] \in DriveRecords
    BY <1>1 DEF DriveRecords, DrivePcs
  <2>2. heldAfter(r, drive[d].held, "running") \in RowStatuses
    BY <1>1, <1>2, MovedType
  <2>3. drive' \in [Drives -> DriveRecords]
    BY <1>10, <2>1, <2>2 DEF TypeOK, EnterLoop
  <2>4. QED
    BY <1>1, <1>2, <1>10, <2>3, MovedType DEF TypeOK, EnterLoop
<1>11. CASE TakeTurn(d)
  <2>1. [drive[d] EXCEPT !.pc = "turn", !.round = @ + 1] \in DriveRecords
    <3>1. drive[d].round + 1 \in 0..MaxRounds
      BY <1>1, <1>11, BoundAssumption DEF DriveRecords, TakeTurn
    <3>2. QED
      BY <1>1, <3>1 DEF DriveRecords, DrivePcs
  <2>2. claim' \in [Runs -> Claims]
    BY <1>1, <1>11, ClaimAtType DEF TakeTurn
  <2>3. drive' \in [Drives -> DriveRecords]
    BY <1>11, <2>1 DEF TypeOK, TakeTurn
  <2>4. QED
    BY <1>11, <2>2, <2>3 DEF TypeOK, TakeTurn
<1>12. CASE TurnDone(d)
  <2>1. claim' \in [Runs -> Claims]
    BY <1>1, <1>12, ClaimAtType DEF TurnDone
  <2>2. QED
    BY <1>3, <1>12, <2>1 DEF TypeOK, TurnDone, DrivePcs
<1>13. CASE TurnWorks(d)
  BY <1>1, <1>3, <1>13 DEF TypeOK, TurnWorks, DrivePcs
<1>14. CASE LoopCrashes(d) \/ TurnSaturated(d) \/ TurnSettles(d) \/ VerifyPasses(d)
  <2>1. \A out \in Outcomes : [drive[d] EXCEPT !.pc = "finish", !.out = out] \in DriveRecords
    BY <1>1 DEF DriveRecords, DrivePcs
  <2>2. \A out \in Outcomes : LoopEnds(d, out) => TypeOK'
    BY <2>1 DEF TypeOK, LoopEnds, rowVars
  <2>3. QED
    BY <1>14, <2>2 DEF LoopCrashes, TurnSaturated, TurnSettles, VerifyPasses, Outcomes
<1>15. CASE Finish(d)
  <2>1. "exit" \in DrivePcs
    BY DEF DrivePcs
  <2>2. drive' \in [Drives -> DriveRecords] /\ output' \in [Runs -> BOOLEAN]
    BY <1>1, <1>15, <2>1, AtType DEF TypeOK, Finish
  <2>3. status' \in [Runs -> RowStatuses]
    BY <1>1, <1>2, <1>15, MovedType DEF TypeOK, Finish
  <2>4. QED
    BY <1>15, <2>2, <2>3 DEF TypeOK, Finish
<1>16. CASE ClearLoad(d) \/ EscalateLoad(d) \/ ReleaseLoad(d)
  <2>1. \A pc \in DrivePcs, h \in RowStatuses, set \in SUBSET Columns :
           [drive[d] EXCEPT !.pc = pc, !.held = h, !.saw = set] \in DriveRecords
    BY <1>1 DEF DriveRecords
  <2>2. ASSUME NEW pc \in DrivePcs, Reload(d, pc)
        PROVE  TypeOK'
    <3>1. PICK set \in SUBSET Columns :
             drive' = [drive EXCEPT ![d].pc = pc, ![d].held = status[r], ![d].saw = set]
      BY <2>2 DEF Reload
    <3>2. status[r] \in RowStatuses
      BY <1>1 DEF TypeOK
    <3>3. drive' \in [Drives -> DriveRecords]
      BY <2>1, <3>1, <3>2 DEF TypeOK
    <3>4. QED
      BY <2>2, <3>3 DEF TypeOK, Reload, rowVars
  <2>3. QED
    BY <1>16, <2>2 DEF ClearLoad, EscalateLoad, ReleaseLoad, DrivePcs
<1>17. EndDrive(d) => /\ drive' \in [Drives -> DriveRecords]
                      /\ UNCHANGED <<output, reopens, proc, swept, sess>>
  BY IdleTypes DEF TypeOK, EndDrive
<1>18. ClearSeen(d) => claim' \in [Runs -> Claims] /\ failures' \in [Runs -> Nat]
  <2> SUFFICES ASSUME ClearSeen(d)
               PROVE  claim' \in [Runs -> Claims] /\ failures' \in [Runs -> Nat]
    OBVIOUS
  <2>1. claim[r] \in Claims
    BY <1>1 DEF TypeOK
  <2>2. \A a \in {"null", "fresh", "stale"}, b \in Procs \union {NoProc}, h \in Machines :
           [claim[r] EXCEPT !.at = a, !.by = b, !.home = h] \in Claims
    BY <2>1 DEF Claims
  <2>3. claim'[r] \in Claims
    BY <1>1, <2>1 DEF TypeOK, ClearSeen, Claims, Machines
  <2>4. QED
    BY <1>1, <2>3 DEF TypeOK, ClearSeen
<1>19. CASE ClearWrite(d)
  BY <1>17, <1>18, <1>19 DEF TypeOK, ClearWrite
<1>20. CASE RecordFailure(d)
  <2>1. failures' \in [Runs -> Nat]
    BY <1>1, <1>20 DEF TypeOK, RecordFailure, CountFailure, NextCount
  <2>2. QED
    BY <1>3, <1>20, <2>1 DEF TypeOK, RecordFailure, CountFailure, DrivePcs
<1>21. CASE Park(d)
  <2>1. "blocked" \in Kinds
    BY DEF Kinds
  <2>2. moved(r, drive[d].held, "running") \in RowStatuses
    BY <1>1, <1>2, MovedType
  <2>3. QED
    BY <1>1, <1>17, <1>18, <1>21, <2>1, <2>2 DEF TypeOK, Park
<1>22. CASE GiveBack(d)
  <2>1. moved(r, "running", "open") \in RowStatuses
    BY <1>1, <1>2, MovedType
  <2>2. QED
    BY <1>1, <1>17, <1>22, <2>1, IdleTypes DEF TypeOK, GiveBack
<1>23. CASE AskOutOfBand(d)
  BY <1>1, <1>23 DEF TypeOK, AskOutOfBand, Kinds
<1>24. QED
  BY <1>6, <1>7, <1>8, <1>9, <1>10, <1>11, <1>12, <1>13, <1>14, <1>15, <1>16, <1>19, <1>20,
     <1>21, <1>22, <1>23 DEF DriveStep

LEMMA SessType ==
    ASSUME TypeOK, NEW s \in Sessions,
           \/ SessCommit(s)
           \/ \E op \in Offered, r \in Runs, k \in Kinds : SessLoad(s, op, r, k)
    PROVE  TypeOK'
<1> DEFINE r == sess[s].run
<1>1. sess[s] \in SessRecords /\ r \in Runs
  BY DEF TypeOK, SessRecords
<1>2. /\ "running" \in RowStatuses /\ "open" \in RowStatuses /\ "cancelled" \in RowStatuses
      /\ "review_ready" \in RowStatuses /\ "shipped" \in RowStatuses
  BY DEF RowStatuses, Table!Statuses
<1>3. /\ status[r] \in RowStatuses /\ pending[r] \in SUBSET Kinds
      /\ \A h : moved(r, h, "running") \in RowStatuses /\ moved(r, h, "open") \in RowStatuses
      /\ \A h : moved(r, h, "shipped") \in RowStatuses /\ moved(r, h, "cancelled") \in RowStatuses
      /\ \A h : moved(r, h, "review_ready") \in RowStatuses
  BY <1>1, <1>2, MovedType DEF TypeOK
<1>4. ASSUME NEW to \in RowStatuses, NEW left \in SUBSET Kinds,
             Commit(s, to, left), output' \in [Runs -> BOOLEAN]
      PROVE  TypeOK'
  <2>1. sess' \in [Sessions -> SessRecords]
    BY <1>4, IdleTypes DEF TypeOK, Commit
  <2>2. status' \in [Runs -> RowStatuses] /\ pending' \in [Runs -> SUBSET Kinds]
    BY <1>1, <1>4 DEF TypeOK, Commit
  <2>3. QED
    BY <1>4, <2>1, <2>2 DEF TypeOK, Commit
<1>5. output \in [Runs -> BOOLEAN]
  BY DEF TypeOK
<1>6. CASE CancelRun(s) \/ RetryRun(s) \/ ReopenRun(s) \/ DenyReopens(s) \/ Abandon(s)
  BY <1>3, <1>4, <1>5, <1>6 DEF CancelRun, RetryRun, ReopenRun, DenyReopens, PutBack, Abandon, To,
       Left
<1>7. CASE DiscardRun(s)
  BY <1>1, <1>3, <1>4, <1>5, <1>7 DEF DiscardRun, To
<1>8. CASE Resume(s)
  BY <1>3, <1>4, <1>5, <1>8 DEF Resume, To, Left
<1>9. CASE Ship(s)
  <2>1. ShipHops(r, sess[s].held) \in RowStatuses
    BY <1>2, <1>3 DEF ShipHops
  <2>2. output' \in [Runs -> BOOLEAN]
    BY <1>1, <1>5, <1>9 DEF Ship
  <2>3. QED
    BY <1>3, <1>4, <1>9, <2>1, <2>2 DEF Ship, To, Left
<1>10. CASE Deliver(s)
  BY <1>3, <1>4, <1>5, <1>10 DEF Deliver, To
<1>11. CASE Redispatch(s) \/ ConflictEscalates(s) \/ StallReports(s)
  BY <1>3, <1>4, <1>5, <1>11 DEF Redispatch, ConflictEscalates, StallReports, Kinds
<1>12. CASE PrConcluded(s)
  BY <1>3, <1>4, <1>5, <1>12 DEF PrConcluded, Kinds
<1>13. CASE \E op \in Offered, q \in Runs, k \in Kinds : SessLoad(s, op, q, k)
  <2> PICK op \in Offered, q \in Runs, k \in Kinds : SessLoad(s, op, q, k)
    BY <1>13
  <2>1. [op |-> op, run |-> q, held |-> status[q], kind |-> k] \in SessRecords
    BY BoundAssumption DEF TypeOK, SessRecords
  <2>2. reopens' \in [Runs -> 0..MaxReopens]
    BY BoundAssumption DEF TypeOK, SessLoad
  <2>3. QED
    BY <2>1, <2>2 DEF TypeOK, SessLoad
<1>14. QED
  BY <1>6, <1>7, <1>8, <1>9, <1>10, <1>11, <1>12, <1>13 DEF SessCommit

LEMMA NextType == TypeOK /\ [Next]_vars => TypeOK'
<1> SUFFICES ASSUME TypeOK, [Next]_vars
             PROVE  TypeOK'
  OBVIOUS
<1>1. CASE UNCHANGED vars
  BY <1>1 DEF TypeOK, vars
<1>2. CASE Next
  BY <1>2, ProcType, DriveType, SessType, LeaseType DEF Next
<1>3. QED
  BY <1>1, <1>2

\* Every reachable row, drive and session is well formed: in particular no
\* interleaving takes a drive past its round ceiling or a status out of its set.
THEOREM TypeCorrect == Spec => []TypeOK
<1>1. Init => TypeOK
  BY InitType
<1>2. TypeOK /\ [Next]_vars => TypeOK'
  BY NextType
<1>3. QED
  BY <1>1, <1>2, PTL DEF Spec

-----------------------------------------------------------------------------
(* Every status write is a move of the table.                              *)

\* Drives and sessions work on runs that were opened, and two of the session
\* operations remember what they require of their run.
Opened ==
    /\ \A d \in Drives : Live(d) => status[drive[d].run] # "absent"
    /\ \A s \in Sessions : sess[s].op # "idle" => status[sess[s].run] # "absent"
SessHeld ==
    \A s \in Sessions : /\ sess[s].op = "reopen" => sess[s].held \in {"review_ready", "failed"}
                        /\ sess[s].op = "deny"   => sess[s].held \notin Table!Terminal

\* Run r may go to status x by the table.
Legal(r, x) == \/ x = status[r]
               \/ /\ status[r] # "absent" /\ x # "absent"
                  /\ Table!is_allowed_move(status[r], x)

\* Exactly run r is written: a legal move, out of CANCELLED only if revives holds.
Writes(r, x, revives) ==
    /\ status' = [status EXCEPT ![r] = x]
    /\ Legal(r, x)
    /\ status[r] = "cancelled" /\ x # "cancelled" => revives

\* What a compare-and-set leaves is legal, and only a move to OPEN leaves CANCELLED.
LEMMA MovedLegal ==
    ASSUME NEW r \in Runs, NEW held, NEW to, status[r] # "absent", to # "absent"
    PROVE  /\ Legal(r, moved(r, held, to))
           /\ status[r] = "cancelled" /\ to # "open" => moved(r, held, to) = "cancelled"
           /\ status[r] = "cancelled" /\ held # "cancelled" => moved(r, held, to) = "cancelled"
BY DEF Legal, moved, Lands, Table!is_allowed_move

LEMMA DriveWrites ==
    ASSUME TypeOK, Opened, NEW d \in Drives, DriveStep(d) \/ AskOutOfBand(d)
    PROVE  \E x : Writes(drive[d].run, x, FALSE)
<1> DEFINE r == drive[d].run
<1>1. r \in Runs /\ status \in [Runs -> RowStatuses]
  BY DEF TypeOK, DriveRecords
<1>2. status[r] # "absent"
  BY DEF Opened, Live, DriveStep, LoadRun, FrameRaises, FrameSaturated, FramePauses, EnterLoop,
         StopCancelled, TakeTurn, RoundCap, TurnCaps, TurnOutOfBand, TurnAsks, TurnWorks, TurnDone,
         LoopCrashes, TurnSaturated, TurnSettles, VerifyPasses, VerifyFails, VerifyPauses, Finish, FinishRaises,
         ClearLoad, ClearWrite, RecordFailure, CountFailure, EscalateLoad, Park, ReleaseLoad,
         GiveBack, AskOutOfBand
<1>3. UNCHANGED status => Writes(r, status[r], FALSE)
  BY <1>1 DEF Writes, Legal
<1>4. CASE LoadRun(d) \/ FrameRaises(d) \/ FrameSaturated(d) \/ StopCancelled(d) \/ TakeTurn(d)
           \/ TurnOutOfBand(d) \/ TurnWorks(d) \/ TurnDone(d) \/ LoopCrashes(d) \/ TurnSaturated(d) \/ TurnSettles(d)
           \/ VerifyPasses(d) \/ VerifyFails(d) \/ FinishRaises(d) \/ ClearLoad(d) \/ ClearWrite(d)
           \/ RecordFailure(d) \/ EscalateLoad(d) \/ ReleaseLoad(d) \/ AskOutOfBand(d)
  <2>1. UNCHANGED status
    BY <1>4 DEF LoadRun, FrameRaises, FrameSaturated, StopCancelled, TakeTurn, TurnOutOfBand,
         TurnWorks, TurnDone, LoopCrashes, TurnSaturated, TurnSettles, VerifyPasses, VerifyFails, FinishRaises,
         ClearLoad, ClearWrite, RecordFailure, CountFailure, EscalateLoad, ReleaseLoad,
         AskOutOfBand, Goto, LoopEnds, Reload, rowVars
  <2>2. QED
    BY <1>3, <2>1
<1>5. CASE RoundCap(d) \/ TurnCaps(d) \/ TurnAsks(d) \/ VerifyPauses(d)
  <2>1. UNCHANGED status
    BY <1>5 DEF RoundCap, TurnCaps, TurnAsks, VerifyPauses, PauseOn
  <2>2. QED
    BY <1>3, <2>1
<1>6. CASE FramePauses(d) \/ EnterLoop(d)
  <2>1. Writes(r, moved(r, drive[d].held, "running"), FALSE)
    BY <1>1, <1>2, <1>6, MovedLegal DEF Writes, FramePauses, EnterLoop
  <2>2. QED
    BY <2>1
<1>7. CASE Finish(d)
  <2> DEFINE to == IF drive[d].out \in {"verified", "attached"} THEN "review_ready" ELSE "failed"
             held == drive[d].held
  <2>1. PICK end : /\ status' = [status EXCEPT ![r] = end]
                   /\ \/ end = moved(r, held, to)
                      \/ end \in {to, "shipped"} /\ Lands(r, held, to)
    BY <1>7 DEF Finish
  <2>2. Lands(r, held, to) => /\ Legal(r, to) /\ Legal(r, "shipped")
                              /\ status[r] # "cancelled"
    BY <1>2 DEF Lands, Legal, Table!is_allowed_move
  <2>3. Legal(r, end) /\ (status[r] = "cancelled" => end = "cancelled")
    BY <1>1, <1>2, <2>1, <2>2, MovedLegal
  <2>4. QED
    BY <2>1, <2>3 DEF Writes
<1>8. CASE Park(d)
  <2>1. CASE UNCHANGED status
    BY <1>3, <2>1
  <2>2. CASE status' = [status EXCEPT ![r] = moved(r, drive[d].held, "running")]
    BY <1>1, <1>2, <2>2, MovedLegal DEF Writes
  <2>3. QED
    BY <1>8, <2>1, <2>2 DEF Park
<1>9. CASE GiveBack(d)
  <2>1. CASE drive[d].held = "running"
    <3>1. Writes(r, moved(r, "running", "open"), FALSE)
      BY <1>1, <1>2, <1>9, <2>1, MovedLegal DEF Writes, GiveBack
    <3>2. QED
      BY <3>1
  <2>2. CASE drive[d].held # "running"
    <3>1. UNCHANGED status
      BY <1>1, <1>9, <2>2 DEF GiveBack
    <3>2. QED
      BY <1>3, <3>1
  <2>3. QED
    BY <2>1, <2>2
<1>10. QED
  BY <1>4, <1>5, <1>6, <1>7, <1>8, <1>9 DEF DriveStep

\* A session revives a cancelled run only as a retry or a redispatch.
Revives(s) == sess[s].op \in {"retry", "redispatch"} /\ sess'[s] = IdleSess

LEMMA SessWrites ==
    ASSUME TypeOK, Opened, SessHeld, NEW s \in Sessions, SessCommit(s)
    PROVE  \E x : Writes(sess[s].run, x, Revives(s))
<1> DEFINE r == sess[s].run
           held == sess[s].held
<1>1. /\ r \in Runs /\ status \in [Runs -> RowStatuses] /\ sess \in [Sessions -> SessRecords]
  BY DEF TypeOK, SessRecords
<1>2. status[r] # "absent"
  BY DEF Opened, SessCommit, CancelRun, DiscardRun, RetryRun, ReopenRun, DenyReopens, PutBack,
         Resume, Ship, Abandon, Deliver,
         Redispatch, ConflictEscalates, StallReports, PrConcluded
<1>3. ASSUME NEW x, NEW left, Commit(s, x, left), Legal(r, x),
             status[r] = "cancelled" /\ x # "cancelled" => sess[s].op \in {"retry", "redispatch"}
      PROVE  Writes(r, x, Revives(s))
  BY <1>1, <1>3 DEF Writes, Revives, Commit
<1>4. ASSUME NEW h, NEW to \in {"running", "review_ready", "shipped", "cancelled"}
      PROVE  /\ Legal(r, moved(r, h, to))
             /\ status[r] = "cancelled" => moved(r, h, to) = "cancelled"
  BY <1>1, <1>2, MovedLegal
<1>5. /\ Legal(r, moved(r, held, "open"))
      /\ status[r] = "cancelled" /\ held # "cancelled" => moved(r, held, "open") = "cancelled"
  BY <1>1, <1>2, MovedLegal
<1>6. Legal(r, status[r])
  BY DEF Legal
<1>7. CASE CancelRun(s) \/ DiscardRun(s) \/ Abandon(s)
  BY <1>3, <1>4, <1>7 DEF CancelRun, DiscardRun, Abandon, To
<1>8. CASE RetryRun(s) \/ ReopenRun(s) \/ DenyReopens(s)
  <2>1. status[r] = "cancelled" /\ held = "cancelled" => sess[s].op = "retry"
    BY <1>8 DEF RetryRun, ReopenRun, DenyReopens, PutBack, SessHeld, Table!Terminal
  <2>2. QED
    BY <1>3, <1>5, <1>8, <2>1 DEF RetryRun, ReopenRun, DenyReopens, PutBack, To
<1>9. CASE Resume(s)
  <2> DEFINE back == \/ held \notin Table!Terminal /\ sess[s].kind # "report"
                     \/ held \in {"review_ready", "failed"} /\ sess[s].kind = "report"
  <2>1. PICK end \in (IF back THEN {To(s, "open")} ELSE {})
                      \union (IF ~back \/ sess[s].kind = "report" THEN {status[r]} ELSE {}) :
           Commit(s, end, Left(s))
    BY <1>9 DEF Resume
  <2>2. back => held # "cancelled"
    BY DEF Table!Terminal
  <2>3. end = status[r] \/ (end = moved(r, held, "open") /\ back)
    BY <2>1 DEF To
  <2>4. Legal(r, end) /\ (status[r] = "cancelled" => end = "cancelled")
    BY <1>5, <1>6, <2>2, <2>3
  <2>5. QED
    BY <1>3, <2>1, <2>4
<1>10. CASE Ship(s)
  <2>1. /\ Legal(r, ShipHops(r, held))
        /\ status[r] = "cancelled" => ShipHops(r, held) = "cancelled"
    BY <1>2 DEF ShipHops, Legal, moved, heldAfter, Lands, Table!is_allowed_move
  <2>2. PICK end \in {moved(r, held, "review_ready"), ShipHops(r, held)} : Commit(s, end, Left(s))
    BY <1>10 DEF Ship, To
  <2>3. QED
    BY <1>3, <1>4, <2>1, <2>2
<1>11. CASE Deliver(s)
  <2>1. PICK end \in {status[r], moved(r, held, "review_ready"), moved(r, held, "shipped")} :
           Commit(s, end, pending[r] \ {"review"})
    BY <1>11 DEF Deliver, To
  <2>2. QED
    BY <1>3, <1>4, <1>6, <2>1
<1>12. CASE Redispatch(s)
  <2>1. Legal(r, moved(r, status[r], "open"))
    BY <1>1, <1>2, MovedLegal
  <2>2. QED
    BY <1>3, <1>12, <2>1 DEF Redispatch
<1>13. CASE ConflictEscalates(s) \/ StallReports(s)
  BY <1>3, <1>4, <1>6, <1>13 DEF ConflictEscalates, StallReports
<1>14. CASE PrConcluded(s)
  <2>1. PICK to \in {"shipped", "cancelled"} : \E left : Commit(s, moved(r, status[r], to), left)
    BY <1>14 DEF PrConcluded
  <2>2. QED
    BY <1>3, <1>4, <2>1
<1>15. QED
  BY <1>7, <1>8, <1>9, <1>10, <1>11, <1>12, <1>13, <1>14 DEF SessCommit

\* What one step may do to the status of run r: the table's moves, and out of
\* CANCELLED only by a retry or a redispatch that commits in this step.
Moves(r) ==
    /\ \/ status'[r] = status[r]
       \/ status[r] = "absent" /\ status'[r] = "open"
       \/ /\ status[r] # "absent" /\ status'[r] # "absent"
          /\ Table!is_allowed_move(status[r], status'[r])
    /\ status[r] = "cancelled" /\ status'[r] # "cancelled" =>
          \E s \in Sessions : sess[s].run = r /\ Revives(s)

\* A bulk release moves RUNNING runs to OPEN and no others.
LEMMA ResetMoves ==
    ASSUME TypeOK, NEW S, ResetClaims(S), NEW r \in Runs
    PROVE  Moves(r)
BY DEF TypeOK, ResetClaims, Resettable, Moves, Table!is_allowed_move

LEMMA WritesMoves ==
    ASSUME TypeOK, NEW q \in Runs, NEW x, NEW revives, Writes(q, x, revives),
           revives => \E s \in Sessions : sess[s].run = q /\ Revives(s),
           NEW r \in Runs
    PROVE  Moves(r)
BY DEF TypeOK, Writes, Legal, Moves

LEMMA StepMoves ==
    ASSUME TypeOK, Opened, SessHeld, Next, NEW r \in Runs
    PROVE  Moves(r)
<1>1. ASSUME UNCHANGED status PROVE Moves(r)
  BY <1>1 DEF Moves
<1>2. ASSUME NEW p \in Procs, Start(p) \/ Crash(p) \/ Stop(p)
      PROVE  Moves(r)
  BY <1>1, <1>2 DEF Start, Crash, Stop, rowVars
<1>3. ASSUME NEW p \in Procs, StopReleases(p) \/ Tick(p)
      PROVE  Moves(r)
  BY <1>3, ResetMoves DEF StopReleases, Tick, ReleaseOrphans, ReapStale
<1>4. ASSUME NEW p \in Procs, NEW q \in Runs, OpenRun(p, q) \/ \E k \in Slots : Claim(p, k, q)
      PROVE  Moves(r)
  BY <1>4 DEF TypeOK, OpenRun, Claim, Moves, Table!is_allowed_move
<1>5. ASSUME NEW q \in Runs, LeaseExpires(q)
      PROVE  Moves(r)
  BY <1>1, <1>5 DEF LeaseExpires
<1>6. ASSUME NEW d \in Drives, DriveStep(d) \/ AskOutOfBand(d)
      PROVE  Moves(r)
  <2>1. PICK x : Writes(drive[d].run, x, FALSE)
    BY <1>6, DriveWrites
  <2>2. drive[d].run \in Runs
    BY DEF TypeOK, DriveRecords
  <2>3. QED
    BY <2>1, <2>2, WritesMoves
<1>7. ASSUME NEW s \in Sessions, SessCommit(s)
      PROVE  Moves(r)
  <2>1. PICK x : Writes(sess[s].run, x, Revives(s))
    BY <1>7, SessWrites
  <2>2. sess[s].run \in Runs
    BY DEF TypeOK, SessRecords
  <2>3. QED
    BY <2>1, <2>2, WritesMoves
<1>8. ASSUME NEW s \in Sessions, NEW op, NEW q, NEW k, SessLoad(s, op, q, k)
      PROVE  Moves(r)
  BY <1>1, <1>8 DEF SessLoad
<1>9. QED
  BY <1>2, <1>3, <1>4, <1>5, <1>6, <1>7, <1>8 DEF Next

-----------------------------------------------------------------------------
(* Opened and SessHeld are kept.                                           *)

\* A step of drive d leaves the other drives alone and d on its run.
LEMMA DriveKeepsRun ==
    ASSUME TypeOK, NEW d \in Drives, DriveStep(d) \/ AskOutOfBand(d), NEW e \in Drives
    PROVE  /\ drive'[e] = drive[e] \/ drive'[e] = IdleDrive
              \/ (Live(e) /\ drive'[e].run = drive[e].run)
           /\ UNCHANGED sess
<1>1. drive \in [Drives -> DriveRecords]
  BY DEF TypeOK
<1>2. ASSUME NEW pc PROVE At(d, pc).run = drive[d].run
  BY <1>1 DEF At, IdleDrive, DriveRecords
<1>3. CASE AskOutOfBand(d)
  BY <1>3 DEF AskOutOfBand
<1>4. CASE \E pc : Goto(d, pc) /\ Live(d)
  BY <1>1, <1>2, <1>4 DEF Goto
<1>5. CASE LoadRun(d) \/ ClearLoad(d) \/ EscalateLoad(d) \/ ReleaseLoad(d) \/ RecordFailure(d)
  BY <1>1, <1>5 DEF LoadRun, ClearLoad, EscalateLoad, ReleaseLoad, RecordFailure, CountFailure,
       Reload, Live, DriveRecords
<1>6. CASE TurnWorks(d) \/ TurnDone(d) \/ TakeTurn(d)
  BY <1>1, <1>6 DEF TurnWorks, TurnDone, TakeTurn, Live, DriveRecords
<1>7. CASE \E out : LoopEnds(d, out) /\ Live(d)
  BY <1>1, <1>7 DEF LoopEnds, DriveRecords
<1>8. CASE (\E k : PauseOn(d, k)) /\ Live(d)
  BY <1>1, <1>2, <1>8 DEF PauseOn
<1>9. CASE FramePauses(d) \/ EnterLoop(d) \/ Finish(d)
  BY <1>1, <1>2, <1>9 DEF FramePauses, EnterLoop, Finish, Live, DriveRecords
<1>10. CASE ClearWrite(d) \/ Park(d) \/ GiveBack(d)
  BY <1>1, <1>10 DEF ClearWrite, Park, GiveBack, EndDrive
<1>11. FrameRaises(d) \/ FrameSaturated(d) \/ StopCancelled(d) \/ TurnOutOfBand(d)
         \/ VerifyFails(d) \/ FinishRaises(d) => \E pc : Goto(d, pc) /\ Live(d)
  BY DEF FrameRaises, FrameSaturated, StopCancelled, TurnOutOfBand, VerifyFails, FinishRaises, Live
<1>12. LoopCrashes(d) \/ TurnSaturated(d) \/ TurnSettles(d) \/ VerifyPasses(d) => \E out : LoopEnds(d, out) /\ Live(d)
  BY DEF LoopCrashes, TurnSaturated, TurnSettles, VerifyPasses, Live
<1>13. RoundCap(d) \/ TurnCaps(d) \/ TurnAsks(d) \/ VerifyPauses(d) => (\E k : PauseOn(d, k)) /\ Live(d)
  BY DEF RoundCap, TurnCaps, TurnAsks, VerifyPauses, Live
<1>14. QED
  BY <1>3, <1>4, <1>5, <1>6, <1>7, <1>8, <1>9, <1>10, <1>11, <1>12, <1>13 DEF DriveStep

LEMMA OpenedKept ==
    ASSUME TypeOK, TypeOK', Opened, SessHeld, Next
    PROVE  Opened'
<1>1. ASSUME NEW r \in Runs, status[r] # "absent" PROVE status'[r] # "absent"
  BY <1>1, StepMoves DEF Moves
<1>2. ASSUME NEW d \in Drives, drive'[d].pc # "idle" PROVE status'[drive'[d].run] # "absent"
  <2>1. drive[d].run \in Runs /\ drive'[d].run \in Runs
    BY DEF TypeOK, DriveRecords
  <2>2. CASE Live(d) /\ drive'[d].run = drive[d].run
    BY <1>1, <2>1, <2>2 DEF Opened
  <2>3. CASE drive'[d] = drive[d]
    BY <1>2, <2>2, <2>3 DEF Live
  <2>4. CASE drive'[d] = IdleDrive
    BY <1>2, <2>4 DEF IdleDrive
  <2>5. ASSUME NEW p \in Procs, Start(p) \/ Crash(p) \/ Stop(p) \/ StopReleases(p) \/ Tick(p)
        PROVE  drive'[d] = drive[d] \/ drive'[d] = IdleDrive
                 \/ (Live(d) /\ drive'[d].run = drive[d].run)
    <3>1. ~Stop(p) => drive'[d] = drive[d] \/ drive'[d] = IdleDrive
      BY <2>5 DEF Start, Crash, StopReleases, Tick, ReleaseOrphans, ReapStale
    <3>2. At(d, "release").run = drive[d].run
      BY DEF At, IdleDrive
    <3>3. Stop(p) => \/ drive'[d] = drive[d] \/ drive'[d] = IdleDrive
                     \/ Live(d) /\ drive'[d] = At(d, "release")
      BY DEF Stop
    <3>4. QED
      BY <3>1, <3>2, <3>3
  <2>6. ASSUME NEW p \in Procs, NEW r \in Runs, OpenRun(p, r)
        PROVE  drive'[d] = drive[d]
    BY <2>6 DEF OpenRun
  <2>7. ASSUME NEW p \in Procs, NEW r \in Runs, NEW k \in Slots, Claim(p, k, r)
        PROVE  status'[drive'[d].run] # "absent"
    <3>1. CASE d = <<p, k>>
      <4>1. drive'[d].run = r
        BY <2>7, <3>1 DEF Claim, IdleDrive, TypeOK
      <4>2. status'[r] = "running"
        BY <2>7 DEF Claim, TypeOK
      <4>3. QED
        BY <4>1, <4>2
    <3>2. CASE d # <<p, k>>
      <4>1. drive'[d] = drive[d] \/ (Live(d) /\ drive'[d].run = drive[d].run)
        BY <2>7, <3>2 DEF Claim, LiveOn, TypeOK, DriveRecords
      <4>2. QED
        BY <2>2, <2>3, <4>1
    <3>3. QED
      BY <3>1, <3>2
  <2>8. ASSUME NEW e \in Drives, DriveStep(e) \/ AskOutOfBand(e)
        PROVE  drive'[d] = drive[d] \/ drive'[d] = IdleDrive
                 \/ (Live(d) /\ drive'[d].run = drive[d].run)
    BY <2>8, DriveKeepsRun
  <2>9. ASSUME NEW s \in Sessions, SessCommit(s) \/ \E op, r, k : SessLoad(s, op, r, k)
        PROVE  drive'[d] = drive[d]
    BY <2>9 DEF SessCommit, CancelRun, DiscardRun, RetryRun, ReopenRun, DenyReopens, PutBack,
         Resume, Ship, Abandon, Deliver,
         Redispatch, ConflictEscalates, StallReports, PrConcluded, Commit, SessLoad
  <2>10. ASSUME NEW r \in Runs, LeaseExpires(r)
         PROVE  drive'[d] = drive[d]
    BY <2>10 DEF LeaseExpires
  <2>11. QED
    BY <2>2, <2>3, <2>4, <2>5, <2>6, <2>7, <2>8, <2>9, <2>10 DEF Next
<1>3. ASSUME NEW s \in Sessions, sess'[s].op # "idle" PROVE status'[sess'[s].run] # "absent"
  <2>1. sess[s].run \in Runs /\ sess \in [Sessions -> SessRecords]
    BY DEF TypeOK, SessRecords
  <2>2. CASE sess'[s] = sess[s]
    BY <1>1, <1>3, <2>1, <2>2 DEF Opened
  <2>3. ASSUME NEW t \in Sessions, SessCommit(t)
        PROVE  sess'[s] = sess[s] \/ sess'[s] = IdleSess
    BY <2>1, <2>3 DEF SessCommit, CancelRun, DiscardRun, RetryRun, ReopenRun, DenyReopens, PutBack,
         Resume, Ship, Abandon, Deliver,
         Redispatch, ConflictEscalates, StallReports, PrConcluded, Commit
  <2>4. ASSUME NEW t \in Sessions, NEW op, NEW r \in Runs, NEW k, SessLoad(t, op, r, k)
        PROVE  sess'[s] = sess[s] \/ (sess'[s].run = r /\ status[r] # "absent")
    BY <2>1, <2>4 DEF SessLoad
  <2>5. ASSUME UNCHANGED sess PROVE sess'[s] = sess[s]
    BY <2>5
  <2>6. UNCHANGED sess \/ (\E t \in Sessions : SessCommit(t))
          \/ (\E t \in Sessions, op \in Offered, r \in Runs, k \in Kinds : SessLoad(t, op, r, k))
    BY DriveKeepsRun DEF Next, Start, Crash, Stop, StopReleases, Tick, ReleaseOrphans, ReapStale,
         OpenRun, Claim, LeaseExpires
  <2>7. QED
    BY <1>1, <1>3, <2>2, <2>3, <2>4, <2>5, <2>6 DEF IdleSess
<1>4. QED
  BY <1>2, <1>3 DEF Opened, Live

LEMMA SessHeldKept ==
    ASSUME TypeOK, SessHeld, Next
    PROVE  SessHeld'
<1> SUFFICES ASSUME NEW s \in Sessions
             PROVE  /\ sess'[s].op = "reopen" => sess'[s].held \in {"review_ready", "failed"}
                    /\ sess'[s].op = "deny"   => sess'[s].held \notin Table!Terminal
  BY DEF SessHeld
<1>1. sess \in [Sessions -> SessRecords]
  BY DEF TypeOK
<1>2. CASE sess'[s] = sess[s]
  BY <1>2 DEF SessHeld
<1>3. CASE \E t \in Sessions : SessCommit(t)
  <2>1. sess'[s] = sess[s] \/ sess'[s] = IdleSess
    BY SMTT(30), <1>1, <1>3 DEF SessCommit, CancelRun, DiscardRun, RetryRun, ReopenRun, DenyReopens, PutBack,
         Resume, Ship, Abandon, Deliver,
         Redispatch, ConflictEscalates, StallReports, PrConcluded, Commit
  <2>2. QED
    BY <1>2, <2>1 DEF IdleSess
<1>4. ASSUME NEW t \in Sessions, NEW op, NEW r, NEW k, SessLoad(t, op, r, k)
      PROVE  \/ sess'[s] = sess[s]
             \/ /\ sess'[s].op = "reopen" => sess'[s].held \in {"review_ready", "failed"}
                /\ sess'[s].op = "deny"   => sess'[s].held \notin Table!Terminal
  <2>1. CASE s # t
    BY <1>1, <1>4, <2>1 DEF SessLoad
  <2>2. CASE s = t
    <3>1. sess'[s].op = op /\ sess'[s].held = status[r] /\ Admits(op, r, k)
      BY <1>1, <1>4, <2>2 DEF SessLoad
    <3>2. QED
      BY <3>1 DEF Admits
  <2>3. QED
    BY <2>1, <2>2
<1>5. \/ UNCHANGED sess \/ \E t \in Sessions : SessCommit(t)
      \/ \E t \in Sessions, op \in Offered, r \in Runs, k \in Kinds : SessLoad(t, op, r, k)
  BY DriveKeepsRun DEF Next, Start, Crash, Stop, StopReleases, Tick, ReleaseOrphans, ReapStale,
       OpenRun, Claim, LeaseExpires
<1>6. QED
  BY <1>2, <1>3, <1>4, <1>5

\* The inductive invariant behind both theorems below.
RowInv == TypeOK /\ Opened /\ SessHeld

LEMMA RowInvHolds == Spec => []RowInv
<1>1. Init => RowInv
  <2>1. Init => Opened /\ SessHeld
    BY DEF Init, Opened, SessHeld, Live, IdleDrive, IdleSess, Drives
  <2>2. QED
    BY <2>1, InitType DEF RowInv
<1>2. RowInv /\ [Next]_vars => RowInv'
  <2>1. CASE Next
    BY <2>1, NextType, OpenedKept, SessHeldKept DEF RowInv
  <2>2. CASE UNCHANGED vars
    BY <2>2, NextType DEF RowInv, Opened, SessHeld, Live, vars
  <2>3. QED
    BY <2>1, <2>2
<1>3. QED
  BY <1>1, <1>2, PTL DEF Spec

\* The detailed specification implements the table of run_status.py: for any number of
\* processes, slots, sessions and runs, no interleaving of stale copies makes a status
\* move that the table forbids.
THEOREM RefinesTable == Spec => KeepsTable
<1>1. Init => Table!TableInit
  BY DEF Init, Table!TableInit
<1>2. RowInv /\ RowInv' /\ [Next]_vars => [Table!TableStep]_status
  <2>1. ASSUME RowInv, RowInv', Next PROVE Table!TableStep
    <3>1. status' \in [Runs -> Table!Statuses \union {"absent"}]
      BY <2>1 DEF RowInv, TypeOK, RowStatuses
    <3>2. \A r \in Runs : Moves(r)
      BY <2>1, StepMoves DEF RowInv
    <3>3. QED
      BY <3>1, <3>2 DEF Moves, Table!TableStep
  <2>2. UNCHANGED vars => UNCHANGED status
    BY DEF vars
  <2>3. QED
    BY <2>1, <2>2
<1>3. QED
  BY <1>1, <1>2, RowInvHolds, PTL DEF Spec, KeepsTable, Table!TableSpec

\* A cancelled run leaves CANCELLED only in the commit of a retry or a redispatch of
\* that run, whatever drives, releases, reapers, answers and deliveries are in flight.
THEOREM CancelStays == Spec => CancelSticks
<1>1. RowInv /\ [Next]_vars =>
        [\A r \in Runs : status[r] = "cancelled" /\ status'[r] # "cancelled" =>
           \E s \in Sessions : /\ sess[s].op \in {"retry", "redispatch"} /\ sess[s].run = r
                               /\ sess'[s] = IdleSess]_vars
  BY StepMoves DEF RowInv, Moves, Revives
<1>2. QED
  BY <1>1, RowInvHolds, PTL DEF Spec, CancelSticks
=============================================================================
