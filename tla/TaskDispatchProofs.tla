------------------------- MODULE TaskDispatchProofs -------------------------
(***************************************************************************)
(* Theorems about TaskDispatch, for every value of its constants.           *)
(***************************************************************************)
EXTENDS TaskDispatch, FiniteSetTheorems, TLAPS

-----------------------------------------------------------------------------
(* Types.                                                                   *)

\* The number of tasks a heartbeat reports is a number.
LEMMA InFlightFinite ==
    ASSUME NEW w \in Workers
    PROVE  IsFiniteSet(InFlight(w)) /\ Cardinality(InFlight(w)) \in Nat
<1>1. IsFiniteSet(Copies)
  <2>1. IsFiniteSet({} \union {1})
    BY FS_EmptySet, FS_AddElement
  <2>2. IsFiniteSet(({} \union {1}) \union {2})
    BY <2>1, FS_AddElement
  <2>3. Copies = ({} \union {1}) \union {2}
    BY DEF Copies
  <2>4. QED
    BY <2>2, <2>3
<1>2. IsFiniteSet(Tasks \X Copies)
  BY <1>1, TaskAssumption, FS_Product
<1>3. InFlight(w) \in SUBSET (Tasks \X Copies)
  BY DEF InFlight
<1>4. IsFiniteSet(InFlight(w))
  BY <1>2, <1>3, FS_Subset
<1>5. QED
  BY <1>4, FS_CardinalityType

LEMMA XaddType ==
    ASSUME TypeOK, NEW t \in Tasks, NEW kind \in {"execute", "cancel"}, NEW c \in Copies,
           Xadd(t, kind, c)
    PROVE  stream' \in [Workers -> Seq(Messages)]
<1>1. [task |-> t, kind |-> kind, copy |-> c] \in Messages
  BY DEF Messages
<1>2. \A w \in Workers : Append(stream[w], [task |-> t, kind |-> kind, copy |-> c])
                            \in Seq(Messages)
  BY <1>1 DEF TypeOK
<1>3. QED
  BY <1>2 DEF TypeOK, Xadd

LEMMA StepType ==
    ASSUME TypeOK, NEW t \in Tasks, NEW c \in Copies, NEW pc \in ExecPcs, Step(t, c, pc)
    PROVE  exec' \in [Tasks -> [Copies -> ExecPcs]]
BY DEF TypeOK, Step

LEMMA PostType ==
    ASSUME TypeOK, NEW t \in Tasks, NEW c \in Copies, NEW k \in Reports, NEW p \in Posts,
           post' = [post EXCEPT ![t][c][k] = p]
    PROVE  post' \in [Tasks -> [Copies -> [Reports -> Posts]]]
<1>1. [post[t][c] EXCEPT ![k] = p] \in [Reports -> Posts]
  BY DEF TypeOK
<1>2. [post[t] EXCEPT ![c][k] = p] \in [Copies -> [Reports -> Posts]]
  BY <1>1 DEF TypeOK
<1>3. QED
  BY <1>2 DEF TypeOK

\* A record with a field replaced is a record of the same kind.
LEMMA RowFields ==
    ASSUME NEW r \in Rows
    PROVE  /\ \A s \in Statuses : [r EXCEPT !.status = s] \in Rows
           /\ \A w \in Workers : [r EXCEPT !.worker = w] \in Rows
           /\ \A b \in BOOLEAN : [r EXCEPT !.claimed = b] \in Rows
           /\ \A b \in BOOLEAN : [r EXCEPT !.usage = b] \in Rows
           /\ \A s \in Statuses, b \in BOOLEAN : [r EXCEPT !.status = s, !.usage = b] \in Rows
BY DEF Rows

LEMMA CallFields ==
    ASSUME NEW r \in Calls, NEW pc \in CallPcs
    PROVE  /\ [r EXCEPT !.pc = pc] \in Calls
           /\ \A why \in Whys : [r EXCEPT !.pc = pc, !.why = why] \in Calls
           /\ [r EXCEPT !.settled = TRUE, !.pc = pc] \in Calls
BY DEF Calls

LEMMA HostFields ==
    ASSUME NEW r \in Hosts
    PROVE  /\ \A n \in Nat, b \in BOOLEAN : [r EXCEPT !.fresh = b, !.load = n] \in Hosts
           /\ \A u \in {"up", "stopping", "down"} : [r EXCEPT !.up = u] \in Hosts
           /\ \A b \in BOOLEAN : [r EXCEPT !.active = b] \in Hosts
BY DEF Hosts

LEMMA CallType ==
    ASSUME TypeOK, NEW t \in Tasks, NEW pc \in CallPcs, NEW why \in Whys,
           \/ Goto(t, pc)
           \/ End(t, why)
           \/ call' = [call EXCEPT ![t].pc = pc, ![t].why = why]
           \/ call' = [call EXCEPT ![t].settled = TRUE, ![t].pc = pc]
    PROVE  call' \in [Tasks -> Calls]
<1>1. call[t] \in Calls /\ "over" \in CallPcs
  BY DEF TypeOK, CallPcs
<1>2. CASE Goto(t, pc)
  BY <1>1, <1>2, CallFields DEF TypeOK, Goto
<1>3. CASE End(t, why)
  BY <1>1, <1>3, CallFields DEF TypeOK, End
<1>4. CASE call' = [call EXCEPT ![t].pc = pc, ![t].why = why]
  BY <1>1, <1>4, CallFields DEF TypeOK
<1>5. CASE call' = [call EXCEPT ![t].settled = TRUE, ![t].pc = pc]
  BY <1>1, <1>5, CallFields DEF TypeOK
<1>6. QED
  BY <1>2, <1>3, <1>4, <1>5

LEMMA NoPostType == NoPost \in Posts
BY DEF NoPost, Posts

LEMMA InitType == Init => TypeOK
<1> SUFFICES ASSUME Init PROVE TypeOK
  OBVIOUS
<1>1. post \in [Tasks -> [Copies -> [Reports -> Posts]]]
  BY NoPostType DEF Init
<1>2. row \in [Tasks -> Rows]
  BY DEF Init, Rows, Statuses
<1>3. call \in [Tasks -> Calls]
  BY DEF Init, Calls, CallPcs, Whys
<1>4. host \in [Workers -> Hosts]
  BY DEF Init, Hosts
<1>5. stream \in [Workers -> Seq(Messages)]
  <2>1. <<>> \in Seq(Messages)
    OBVIOUS
  <2>2. QED
    BY <2>1 DEF Init
<1>6. /\ exec \in [Tasks -> [Copies -> ExecPcs]]
      /\ took \in [Tasks -> [Copies -> {"none", "receipt", "blind"}]]
      /\ ran \in [Tasks -> SUBSET Copies]
  BY DEF Init, ExecPcs
<1>7. metered \in [Tasks -> BOOLEAN] /\ booked \in [Tasks -> Nat] /\ heard \in [Tasks -> SUBSET Copies]
  BY DEF Init
<1>8. QED
  BY <1>1, <1>2, <1>3, <1>4, <1>5, <1>6, <1>7 DEF TypeOK

\* The caller's actions.
LEMMA CallerType ==
    ASSUME TypeOK, NEW t \in Tasks,
           Dispatches(t) \/ Waits(t) \/ Abandon(t) \/ CallerDies(t)
    PROVE  TypeOK'
<1>0. row[t] \in Rows /\ call[t] \in Calls
  BY DEF TypeOK
<1>1. CASE FindWorker(t)
  <2>1. PICK w \in Workers : row' = [row EXCEPT ![t].worker = w]
    BY <1>1, <1>0 DEF FindWorker, Available, PinUsable
  <2>2. row' \in [Tasks -> Rows]
    BY <1>0, <2>1, RowFields DEF TypeOK
  <2>3. call' \in [Tasks -> Calls]
    BY <1>1, CallType DEF FindWorker, CallPcs, Whys
  <2>4. QED
    BY <1>1, <2>2, <2>3 DEF TypeOK, FindWorker, workVars, usageVars
<1>2. CASE NoWorkerFree(t) \/ Degrade(t) \/ Redeliver(t) \/ Abandon(t) \/ Timeout(t)
           \/ CloseFails(t) \/ CallerDies(t)
  <2>1. call' \in [Tasks -> Calls]
    <3>1. CASE NoWorkerFree(t) \/ Degrade(t) \/ CallerDies(t)
      BY <3>1, CallType DEF NoWorkerFree, Degrade, CallerDies, CallPcs, Whys
    <3>2. CASE Redeliver(t)
      BY <3>2, CallType DEF Redeliver, CallPcs, Whys
    <3>3. CASE Abandon(t) \/ Timeout(t) \/ CloseFails(t)
      BY <3>3, CallType DEF Abandon, Timeout, CloseFails, CallPcs, Whys
    <3>4. QED
      BY <1>2, <3>1, <3>2, <3>3
  <2>2. UNCHANGED <<row, stream, host, workVars, post, usageVars>>
    BY <1>2 DEF NoWorkerFree, Degrade, Redeliver, Abandon, Timeout, CloseFails, CallerDies
  <2>3. QED
    BY <2>1, <2>2 DEF TypeOK, workVars, usageVars
<1>3. CASE DispatchTask(t) \/ Unpublish(t) \/ Close(t)
  <2>1. row' \in [Tasks -> Rows]
    <3>1. row[t].status \in Statuses
      BY <1>0 DEF Rows
    <3>2. QED
      <4>1. PICK s \in Statuses : row' = [row EXCEPT ![t].status = s]
        BY <1>3, <3>1 DEF DispatchTask, Unpublish, Close, Statuses, Terminal
      <4>2. QED
        BY <1>0, <4>1, RowFields DEF TypeOK
  <2>2. call' \in [Tasks -> Calls]
    BY <1>3, CallType DEF DispatchTask, Unpublish, Close, CallPcs, Whys
  <2>3. QED
    BY <1>3, <2>1, <2>2 DEF TypeOK, DispatchTask, Unpublish, Close, workVars, usageVars
<1>4. CASE Publish(t) \/ PublishFails(t) \/ Resend(t) \/ SendCancel(t)
  <2>1. stream' \in [Workers -> Seq(Messages)]
    <3>1. 1 \in Copies /\ 2 \in Copies
      BY DEF Copies
    <3>2. stream \in [Workers -> Seq(Messages)]
      BY DEF TypeOK
    <3>3. QED
      BY <1>4, <3>1, <3>2, XaddType DEF Publish, PublishFails, Resend, SendCancel
  <2>2. call' \in [Tasks -> Calls]
    <3>1. call[t].why \in Whys
      BY <1>0 DEF Calls
    <3>2. CASE Publish(t)
      BY <3>1, <3>2, CallType DEF Publish, CallPcs
    <3>3. CASE PublishFails(t)
      BY <3>1, <3>3, CallType DEF PublishFails, CallPcs
    <3>4. CASE Resend(t)
      BY <3>1, <3>4, CallType DEF Resend, CallPcs
    <3>5. CASE SendCancel(t)
      <4>1. "cancel" \in CallPcs /\ End(t, call[t].why)
        BY <3>5 DEF SendCancel, CallPcs
      <4>2. QED
        BY <3>1, <4>1, CallType
    <3>6. QED
      BY <1>4, <3>2, <3>3, <3>4, <3>5
  <2>3. QED
    BY <1>4, <2>1, <2>2 DEF TypeOK, Publish, PublishFails, Resend, SendCancel, workVars, usageVars
<1>5. CASE Return(t)
  <2>1. call' \in [Tasks -> Calls]
    <3>1. row[t].status \in Whys /\ "over" \in CallPcs
      BY <1>5 DEF Return, Whys, Terminal, CallPcs
    <3>2. End(t, row[t].status)
      BY <1>5 DEF Return
    <3>3. QED
      BY <3>1, <3>2, CallType
  <2>2. metered' \in [Tasks -> BOOLEAN]
    BY <1>0, <1>5 DEF TypeOK, Return, Rows
  <2>3. QED
    BY <1>5, <2>1, <2>2 DEF TypeOK, Return, workVars
<1>6. QED
  BY <1>1, <1>2, <1>3, <1>4, <1>5 DEF Dispatches, Waits

\* The worker process and its polls.
LEMMA HostType ==
    ASSUME TypeOK, NEW w \in Workers, Hosting(w)
    PROVE  TypeOK'
<1>0. host[w] \in Hosts /\ stream[w] \in Seq(Messages)
  BY DEF TypeOK
<1>1. CASE Heartbeat(w) \/ GoesStale(w) \/ Boot(w)
  <2>1. host' \in [Workers -> Hosts]
    <3>1. CASE Heartbeat(w)
      BY <1>0, <3>1, InFlightFinite, HostFields DEF TypeOK, Heartbeat
    <3>2. CASE GoesStale(w)
      BY <1>0, <3>2, HostFields DEF TypeOK, GoesStale
    <3>3. CASE Boot(w)
      BY <1>0, <3>3, HostFields DEF TypeOK, Boot
    <3>4. QED
      BY <1>1, <3>1, <3>2, <3>3
  <2>2. QED
    BY <1>1, <2>1 DEF TypeOK, Heartbeat, GoesStale, Boot, workVars, usageVars
<1>2. CASE Poll(w)
  <2> DEFINE m == Head(stream[w])
  <2>1. stream' \in [Workers -> Seq(Messages)]
    BY <1>0, <1>2 DEF TypeOK, Poll
  <2>2. m \in Messages
    BY <1>0, <1>2 DEF Poll
  <2>3. m.task \in Tasks /\ m.copy \in Copies
    BY <2>2 DEF Messages
  <2>4. CASE ReadExecute(m)
    <3>1. exec' \in [Tasks -> [Copies -> ExecPcs]]
      BY <2>3, <2>4 DEF TypeOK, ReadExecute, ExecPcs
    <3>2. QED
      BY <1>2, <2>1, <2>4, <3>1 DEF TypeOK, Poll, ReadExecute, usageVars
  <2>5. CASE ReadCancel(m)
    <3>1. exec' \in [Tasks -> [Copies -> ExecPcs]]
      <4>1. \A c \in Copies : \A pc \in Cancelled(m.task, c) : pc \in ExecPcs
        BY DEF Cancelled, ExecPcs
      <4>2. QED
        BY <2>3, <2>5, <4>1, StepType DEF TypeOK, ReadCancel
    <3>2. heard' \in [Tasks -> SUBSET Copies]
      BY <2>3, <2>5 DEF TypeOK, ReadCancel
    <3>3. QED
      BY <1>2, <2>1, <3>1, <3>2 DEF TypeOK, Poll, usageVars
  <2>6. QED
    BY <1>2, <2>4, <2>5 DEF Poll
<1>3. CASE PollLost(w) \/ Revoke(w)
  <2>1. stream' \in [Workers -> Seq(Messages)]
    <3>1. <<>> \in Seq(Messages)
      OBVIOUS
    <3>2. CASE PollLost(w)
      BY <1>0, <3>2 DEF TypeOK, PollLost
    <3>3. CASE Revoke(w)
      BY <3>1, <3>3 DEF TypeOK, Revoke
    <3>4. QED
      BY <1>3, <3>2, <3>3
  <2>2. host' \in [Workers -> Hosts]
    BY <1>0, <1>3, HostFields DEF TypeOK, PollLost, Revoke
  <2>3. QED
    BY <1>3, <2>1, <2>2 DEF TypeOK, PollLost, Revoke, workVars, usageVars
<1>4. CASE Stop(w) \/ Exit(w)
  <2>1. host' \in [Workers -> Hosts]
    BY <1>0, <1>4, HostFields DEF TypeOK, Stop, Exit
  <2>2. exec' \in [Tasks -> [Copies -> ExecPcs]]
    <3>1. "idle" \in ExecPcs /\ "spend" \in ExecPcs
      BY DEF ExecPcs
    <3>2. CASE Stop(w)
      BY <3>1, <3>2 DEF TypeOK, Stop
    <3>3. CASE Exit(w)
      BY <3>1, <3>3 DEF TypeOK, Exit
    <3>4. QED
      BY <1>4, <3>2, <3>3
  <2>3. QED
    BY <1>4, <2>1, <2>2 DEF TypeOK, Stop, Exit, usageVars
<1>5. QED
  BY <1>1, <1>2, <1>3, <1>4 DEF Hosting

\* One delivered copy.
LEMMA WorkType ==
    ASSUME TypeOK, NEW t \in Tasks, NEW c \in Copies, Works(t, c)
    PROVE  TypeOK'
<1>0. row[t] \in Rows
  BY DEF TypeOK
<1>1. exec' \in [Tasks -> [Copies -> ExecPcs]]
  <2>1. PICK pc \in ExecPcs : Step(t, c, pc)
    BY DEF Works, Claim, ClaimUnheard, Refused, Run, Finish, Spend, Done, ExecPcs
  <2>2. QED
    BY <2>1, StepType
<1>2. CASE Claim(t, c)
  <2>1. row' \in [Tasks -> Rows]
    <3>1. PICK b \in BOOLEAN : row' = [row EXCEPT ![t].claimed = b]
      BY <1>0, <1>2 DEF Claim, Rows
    <3>2. QED
      BY <1>0, <3>1, RowFields DEF TypeOK
  <2>2. took' \in [Tasks -> [Copies -> {"none", "receipt", "blind"}]]
    BY <1>2 DEF TypeOK, Claim
  <2>3. QED
    BY <1>1, <1>2, <2>1, <2>2 DEF TypeOK, Claim, usageVars
<1>3. CASE ClaimUnheard(t, c)
  BY <1>1, <1>3 DEF TypeOK, ClaimUnheard, usageVars
<1>4. CASE Refused(t, c) \/ Done(t, c)
  BY <1>1, <1>4 DEF TypeOK, Refused, Done, usageVars
<1>5. CASE Run(t, c)
  BY <1>1, <1>5 DEF TypeOK, Run, usageVars
<1>6. CASE Finish(t, c) \/ Spend(t, c)
  <2>1. PICK k \in Reports, p \in Posts : post' = [post EXCEPT ![t][c][k] = p]
    BY <1>6 DEF Finish, Spend, Reports, Posts
  <2>2. post' \in [Tasks -> [Copies -> [Reports -> Posts]]]
    BY <2>1, PostType
  <2>3. QED
    BY <1>1, <1>6, <2>2 DEF TypeOK, Finish, Spend, usageVars
<1>7. QED
  BY <1>2, <1>3, <1>4, <1>5, <1>6 DEF Works

\* The backend's handling of one result POST.
LEMMA RecordType ==
    ASSUME TypeOK, NEW t \in Tasks, NEW c \in Copies, NEW k \in Reports, Records(t, c, k)
    PROVE  TypeOK'
<1>0. row[t] \in Rows /\ post[t][c][k] \in Posts /\ booked[t] \in Nat
  BY DEF TypeOK
<1>1. post' \in [Tasks -> [Copies -> [Reports -> Posts]]]
  <2>1. PICK p \in Posts : post' = [post EXCEPT ![t][c][k] = p]
    <3>1. \A at \in {"open", "late"} : [post[t][c][k] EXCEPT !.at = at] \in Posts
      BY <1>0 DEF Posts
    <3>2. QED
      BY <3>1, NoPostType DEF TypeOK, Records, ReportRead, ReportWrite, ReportLost
  <2>2. QED
    BY <2>1, PostType
<1>2. CASE ReportRead(t, c, k) \/ ReportLost(t, c, k)
  BY <1>1, <1>2 DEF TypeOK, ReportRead, ReportLost, workVars, usageVars
<1>3. CASE ReportWrite(t, c, k)
  <2>1. row' \in [Tasks -> Rows]
    <3>1. post[t][c][k].used \in BOOLEAN
      BY <1>0 DEF Posts
    <3>2. QED
      <4>1. CASE post[t][c][k].at = "open"
        <5>1. PICK s \in Statuses :
                 row' = [row EXCEPT ![t].status = s, ![t].usage = post[t][c][k].used]
          BY <1>3, <4>1 DEF ReportWrite, Statuses, Terminal
        <5>2. QED
          BY <1>0, <3>1, <5>1, RowFields DEF TypeOK
      <4>2. CASE post[t][c][k].at # "open"
        <5>1. row' = [row EXCEPT ![t].usage = post[t][c][k].used]
          BY <1>3, <4>2 DEF ReportWrite
        <5>2. QED
          BY <1>0, <3>1, <5>1, RowFields DEF TypeOK
      <4>3. QED
        BY <4>1, <4>2
  <2>2. booked' \in [Tasks -> Nat]
    BY <1>0, <1>3 DEF TypeOK, ReportWrite
  <2>3. QED
    BY <1>1, <1>3, <2>1, <2>2 DEF TypeOK, ReportWrite, workVars
<1>4. QED
  BY <1>2, <1>3 DEF Records

LEMMA TypeStep == TypeOK /\ [Next]_vars => TypeOK'
<1> SUFFICES ASSUME TypeOK, [Next]_vars PROVE TypeOK'
  OBVIOUS
<1>1. CASE Next
  BY <1>1, CallerType, HostType, WorkType, RecordType DEF Next
<1>2. CASE UNCHANGED vars
  BY <1>2 DEF TypeOK, vars
<1>3. QED
  BY <1>1, <1>2

\* Type correctness of every reachable state: among the rest, a heartbeat reports a
\* natural number of tasks and the ledger holds one of entries.
THEOREM DispatchTypes == Spec => []TypeOK
<1>1. Init => TypeOK
  BY InitType
<1>2. TypeOK /\ [Next]_vars => TypeOK'
  BY TypeStep
<1>3. QED
  BY <1>1, <1>2, PTL DEF Spec
-----------------------------------------------------------------------------
(* One execution at a time, and one execution with a receipt.               *)

\* What the caller, the heartbeat and the backend's report handler leave alone.
LEMMA WorkFrame ==
    ASSUME TypeOK, Next,
           ~ \E t \in Tasks, c \in Copies : Works(t, c),
           ~ \E w \in Workers : Poll(w) \/ Stop(w) \/ Exit(w)
    PROVE  /\ UNCHANGED <<exec, took, ran>>
           /\ \A u \in Tasks : row'[u].claimed = row[u].claimed
<1>1. ASSUME NEW t \in Tasks, Dispatches(t) \/ Waits(t) \/ Abandon(t) \/ CallerDies(t)
      PROVE  /\ UNCHANGED <<exec, took, ran>>
             /\ \A u \in Tasks : row'[u].claimed = row[u].claimed
  <2>1. UNCHANGED <<exec, took, ran>>
    BY <1>1 DEF Dispatches, FindWorker, NoWorkerFree, DispatchTask, Publish, PublishFails,
                Unpublish, Waits, Return, Degrade, Redeliver, Resend, Timeout, Close,
                CloseFails, SendCancel, Abandon, CallerDies, workVars
  <2>2. CASE row' = row
    BY <2>1, <2>2
  <2>3. CASE FindWorker(t)
    BY <2>1, <2>3 DEF TypeOK, FindWorker, Rows
  <2>4. CASE DispatchTask(t) \/ Unpublish(t) \/ Close(t)
    <3>1. PICK s : row' = [row EXCEPT ![t].status = s]
      BY <2>4 DEF DispatchTask, Unpublish, Close
    <3>2. QED
      BY <2>1, <3>1 DEF TypeOK, Rows
  <2>5. QED
    BY <1>1, <2>2, <2>3, <2>4
       DEF Dispatches, NoWorkerFree, Publish, PublishFails, Waits, Return, Degrade, Redeliver,
           Resend, Timeout, CloseFails, SendCancel, Abandon, CallerDies
<1>2. ASSUME NEW w \in Workers, Hosting(w)
      PROVE  UNCHANGED <<row, exec, took, ran>>
  BY <1>2 DEF Hosting, Heartbeat, GoesStale, PollLost, Boot, Revoke, workVars
<1>3. ASSUME NEW t \in Tasks, NEW c \in Copies, NEW k \in Reports, Records(t, c, k)
      PROVE  /\ UNCHANGED <<exec, took, ran>>
             /\ \A u \in Tasks : row'[u].claimed = row[u].claimed
  <2>1. UNCHANGED <<exec, took, ran>>
    BY <1>3 DEF Records, ReportRead, ReportWrite, ReportLost, workVars
  <2>2. CASE row' = row
    BY <2>1, <2>2
  <2>3. CASE ReportWrite(t, c, k)
    <3>1. \/ \E s, b : row' = [row EXCEPT ![t].status = s, ![t].usage = b]
          \/ \E b : row' = [row EXCEPT ![t].usage = b]
      BY <2>3 DEF ReportWrite
    <3>2. CASE \E s, b : row' = [row EXCEPT ![t].status = s, ![t].usage = b]
      BY <2>1, <3>2 DEF TypeOK, Rows
    <3>3. CASE \E b : row' = [row EXCEPT ![t].usage = b]
      BY <2>1, <3>3 DEF TypeOK, Rows
    <3>4. QED
      BY <3>1, <3>2, <3>3
  <2>4. QED
    BY <1>3, <2>2, <2>3 DEF Records, ReportRead, ReportLost
<1>4. QED
  BY <1>1, <1>2, <1>3 DEF Next

LEMMA HeadType ==
    ASSUME TypeOK, NEW w \in Workers, stream[w] # <<>>
    PROVE  Head(stream[w]).task \in Tasks /\ Head(stream[w]).copy \in Copies
<1>1. stream[w] \in Seq(Messages)
  BY DEF TypeOK
<1>2. Head(stream[w]) \in Messages
  BY <1>1
<1>3. QED
  BY <1>2 DEF Messages

\* The steps of one worker's tasks, by what they do to exec.
LEMMA OneAtATimeStep == TypeOK /\ OneAtATime /\ [Next]_vars => OneAtATime'
<1> SUFFICES ASSUME TypeOK, OneAtATime, [Next]_vars PROVE OneAtATime'
  OBVIOUS
<1>1. ASSUME NEW t \in Tasks, NEW c \in Copies, Works(t, c)
      PROVE  OneAtATime'
  <2>1. exec[t][c] # "idle"
    BY <1>1 DEF Works, Claim, ClaimUnheard, Refused, Run, Finish, Spend, Done
  <2>2. PICK pc \in ExecPcs : Step(t, c, pc)
    BY <1>1 DEF Works, Claim, ClaimUnheard, Refused, Run, Finish, Spend, Done, ExecPcs
  <2>3. QED
    BY <2>1, <2>2 DEF TypeOK, OneAtATime, Step
<1>2. ASSUME NEW w \in Workers, Poll(w)
      PROVE  OneAtATime'
  <2> DEFINE m == Head(stream[w])
  <2>1. m.task \in Tasks /\ m.copy \in Copies
    BY <1>2, HeadType DEF Poll
  <2>2. CASE ReadExecute(m)
    <3>1. CASE Held(m.task)
      BY <2>2, <3>1 DEF OneAtATime, ReadExecute
    <3>2. CASE ~Held(m.task)
      BY <2>1, <2>2, <3>2 DEF TypeOK, OneAtATime, ReadExecute, Held
    <3>3. QED
      BY <3>1, <3>2
  <2>3. CASE ReadCancel(m)
    <3>1. CASE UNCHANGED exec
      BY <3>1 DEF OneAtATime
    <3>2. ASSUME NEW c \in Copies, Registered(m.task, c),
                 NEW pc \in Cancelled(m.task, c), Step(m.task, c, pc)
          PROVE  OneAtATime'
      <4>1. exec[m.task][c] # "idle"
        BY <3>2 DEF Registered
      <4>2. QED
        BY <2>1, <3>2, <4>1 DEF TypeOK, OneAtATime, Step
    <3>3. QED
      BY <2>3, <3>1, <3>2 DEF ReadCancel
  <2>4. QED
    BY <1>2, <2>2, <2>3 DEF Poll
<1>3. ASSUME NEW w \in Workers, Stop(w) \/ Exit(w)
      PROVE  OneAtATime'
  <2>1. \A t \in Tasks, c \in Copies : exec'[t][c] # "idle" => exec[t][c] # "idle"
    <3>1. CASE Stop(w)
      BY <3>1 DEF TypeOK, Stop, InFlight
    <3>2. CASE Exit(w)
      BY <3>2 DEF TypeOK, Exit
    <3>3. QED
      BY <1>3, <3>1, <3>2
  <2>2. QED
    BY <2>1 DEF OneAtATime
<1>4. CASE UNCHANGED exec
  BY <1>4 DEF OneAtATime
<1>5. QED
  BY <1>1, <1>2, <1>3, <1>4, WorkFrame DEF vars

\* A receipt is the row's claim and there is one; what is past its claim has a
\* receipt or went on without an answer.
ReceiptInv ==
    \A t \in Tasks : \A c \in Copies :
       /\ took[t][c] = "receipt" => row[t].claimed
       /\ exec[t][c] \in {"go", "run", "sent", "spend", "last"} \/ c \in ran[t]
             => took[t][c] # "none"
       /\ \A d \in Copies : took[t][c] = "receipt" /\ took[t][d] = "receipt" => c = d

LEMMA ReceiptStep == TypeOK /\ ReceiptInv /\ [Next]_vars => ReceiptInv'
<1> SUFFICES ASSUME TypeOK, ReceiptInv, [Next]_vars PROVE ReceiptInv'
  OBVIOUS
<1>1. ASSUME NEW t \in Tasks, NEW c \in Copies, Works(t, c)
      PROVE  ReceiptInv'
  <2>1. CASE Claim(t, c)
    <3> DEFINE served == host[row[t].worker].active
               wins   == served /\ row[t].status = "dispatched" /\ ~row[t].claimed
    <3>1. CASE wins
      <4>1. /\ row' = [row EXCEPT ![t].claimed = TRUE]
            /\ took' = [took EXCEPT ![t][c] = "receipt"]
            /\ exec' = [exec EXCEPT ![t][c] = "go"]
            /\ ran' = ran
        BY <2>1, <3>1 DEF Claim, Step, TypeOK, Rows
      <4>2. \A d \in Copies : took[t][d] # "receipt"
        BY <3>1 DEF ReceiptInv
      <4>3. QED
        BY <4>1, <4>2 DEF TypeOK, Rows, ReceiptInv
    <3>2. CASE ~wins /\ served
      <4>1. /\ row' = [row EXCEPT ![t].claimed = @]
            /\ took' = [took EXCEPT ![t][c] = @]
            /\ exec' = [exec EXCEPT ![t][c] = "refused"]
            /\ ran' = ran
        BY <2>1, <3>2 DEF Claim, Step, TypeOK, Rows
      <4>2. QED
        BY <4>1 DEF TypeOK, Rows, ReceiptInv
    <3>3. CASE ~served
      <4>1. /\ row' = [row EXCEPT ![t].claimed = @]
            /\ took' = [took EXCEPT ![t][c] = "blind"]
            /\ exec' = [exec EXCEPT ![t][c] = "go"]
            /\ ran' = ran
        BY <2>1, <3>3 DEF Claim, Step, TypeOK, Rows
      <4>2. QED
        BY <4>1 DEF TypeOK, Rows, ReceiptInv
    <3>4. QED
      BY <3>1, <3>2, <3>3
  <2>2. CASE ClaimUnheard(t, c)
    BY <2>2 DEF ClaimUnheard, Step, TypeOK, ReceiptInv
  <2>3. CASE Run(t, c)
    BY <2>3 DEF Run, Step, TypeOK, ReceiptInv
  <2>4. CASE Refused(t, c) \/ Finish(t, c) \/ Spend(t, c) \/ Done(t, c)
    <3>1. UNCHANGED <<row, took, ran>>
      BY <2>4 DEF Refused, Finish, Spend, Done
    <3>2. PICK pc \in ExecPcs : /\ Step(t, c, pc)
                                /\ pc = "idle" \/ exec[t][c] \in {"run", "spend"}
      BY <2>4 DEF Refused, Finish, Spend, Done, ExecPcs
    <3>3. QED
      BY <3>1, <3>2 DEF Step, TypeOK, ReceiptInv
  <2>5. QED
    BY <1>1, <2>1, <2>2, <2>3, <2>4 DEF Works
<1>2. ASSUME NEW w \in Workers, Poll(w)
      PROVE  ReceiptInv'
  <2> DEFINE m == Head(stream[w])
  <2>1. m.task \in Tasks /\ m.copy \in Copies
    BY <1>2, HeadType DEF Poll
  <2>2. UNCHANGED <<row, took, ran>>
    BY <1>2 DEF Poll
  <2>3. CASE ReadExecute(m)
    BY <2>1, <2>2, <2>3 DEF TypeOK, ReceiptInv, ReadExecute
  <2>4. CASE ReadCancel(m)
    <3>1. CASE UNCHANGED exec
      BY <2>2, <3>1 DEF ReceiptInv
    <3>2. ASSUME NEW c \in Copies, Registered(m.task, c),
                 NEW pc \in Cancelled(m.task, c), Step(m.task, c, pc)
          PROVE  ReceiptInv'
      <4>1. exec[m.task][c] \in {"run", "sent", "spend", "last"}
        BY <3>2 DEF Registered
      <4>2. QED
        BY <2>1, <2>2, <3>2, <4>1 DEF TypeOK, ReceiptInv, Step
    <3>3. QED
      BY <2>4, <3>1, <3>2 DEF ReadCancel
  <2>5. QED
    BY <1>2, <2>3, <2>4 DEF Poll
<1>3. ASSUME NEW w \in Workers, Stop(w) \/ Exit(w)
      PROVE  ReceiptInv'
  <2>1. UNCHANGED <<row, took, ran>>
    BY <1>3 DEF Stop, Exit
  <2>2. \A t \in Tasks, c \in Copies :
           \/ exec'[t][c] = "idle"
           \/ exec'[t][c] = exec[t][c]
           \/ exec[t][c] \in {"run", "sent"}
    <3>1. CASE Stop(w)
      <4>1. PICK S \in SUBSET InFlight(w) :
               /\ \A x \in S : "spend" \in Cancelled(x[1], x[2])
               /\ exec' = [t \in Tasks |-> [c \in Copies |->
                              IF <<t, c>> \notin InFlight(w) THEN exec[t][c]
                              ELSE IF <<t, c>> \in S THEN "spend" ELSE "idle"]]
        BY <3>1 DEF Stop
      <4>2. \A t \in Tasks, c \in Copies : <<t, c>> \in S => exec[t][c] \in {"run", "sent"}
        BY <4>1 DEF Cancelled
      <4>3. QED
        BY <4>1, <4>2
    <3>2. CASE Exit(w)
      BY <3>2 DEF Exit
    <3>3. QED
      BY <1>3, <3>1, <3>2
  <2>3. QED
    BY <2>1, <2>2 DEF ReceiptInv
<1>4. CASE UNCHANGED <<exec, took, ran>> /\ \A u \in Tasks : row'[u].claimed = row[u].claimed
  BY <1>4 DEF ReceiptInv
<1>5. QED
  BY <1>1, <1>2, <1>3, <1>4, WorkFrame DEF vars

\* Never two copies of a task in a worker's hands together, whatever is lost,
\* redelivered, crashed or revoked: the _INFLIGHT_TASK_IDS check of run_once.
THEOREM DispatchOneAtATime == Spec => []OneAtATime
<1>1. Init => OneAtATime
  BY DEF Init, OneAtATime
<1>2. TypeOK /\ OneAtATime /\ [Next]_vars => OneAtATime'
  BY OneAtATimeStep
<1>3. QED
  BY <1>1, <1>2, DispatchTypes, PTL DEF Spec

\* Of two starts of one task at most one had a receipt: claim_task grants one receipt
\* for a row and never takes it back, so a redelivered copy runs a second time only
\* where a claim or its answer was lost.
THEOREM DispatchExecutedOnce == Spec => []ExecutedOnce
<1>1. Init => ReceiptInv
  BY DEF Init, ReceiptInv
<1>2. TypeOK /\ ReceiptInv /\ [Next]_vars => ReceiptInv'
  BY ReceiptStep
<1>3. TypeOK /\ ReceiptInv => ExecutedOnce
  BY DEF TypeOK, ReceiptInv, ExecutedOnce
<1>4. QED
  BY <1>1, <1>2, <1>3, DispatchTypes, PTL DEF Spec
-----------------------------------------------------------------------------
(* What each part does to a row and to its caller.                          *)

\* One step of the caller of t, as the fields it leaves: pc, why, status and usage.
CallerMoves(t) ==
    LET c == call[t]  d == call'[t]  s == row[t].status  n == row'[t].status
    IN  \/ c.pc = "find" /\ d.pc = "chosen" /\ n = s
        \/ c.pc = "find" /\ d.pc = "over" /\ d.why = "busy" /\ n = s
        \/ c.pc = "chosen" /\ d.pc = "publish" /\ n = "dispatched"
        \/ c.pc = "publish" /\ d.pc \in {"await", "unpublish"} /\ n = s
        \/ c.pc = "unpublish" /\ d.pc = "over" /\ d.why = "raised" /\ n = "failed" /\ Undisturbed(t)
        \/ c.pc \in {"await", "poll"} /\ d.pc = "over" /\ s \in Terminal /\ d.why = s /\ n = s
        \/ c.pc \in {"await", "poll", "resend"} /\ d.pc \in {"await", "poll", "resend"} /\ n = s
        \/ c.pc \in {"await", "poll"} /\ d.pc = "close" /\ d.why \in {"timeout", "abandoned"} /\ n = s
        \/ /\ c.pc = "close" /\ d.pc = "cancel" /\ d.why = c.why /\ Undisturbed(t)
           /\ n = IF s = "dispatched" THEN "failed" ELSE s
        \/ c.pc = "close" /\ d.pc = "cancel" /\ d.why = "unclosed" /\ n = s
        \/ c.pc = "cancel" /\ d.pc = "over" /\ d.why = c.why /\ n = s
        \/ c.pc # "over" /\ d.pc = "over" /\ d.why = "died" /\ n = s

LEMMA CallerEffect ==
    ASSUME TypeOK, NEW t \in Tasks,
           Dispatches(t) \/ Waits(t) \/ Abandon(t) \/ CallerDies(t)
    PROVE  /\ CallerMoves(t)
           /\ row'[t].usage = row[t].usage
           /\ \A u \in Tasks \ {t} : row'[u] = row[u] /\ call'[u] = call[u]
           /\ UNCHANGED <<exec, post, booked>>
<1>0. row[t] \in Rows /\ call[t] \in Calls
  BY DEF TypeOK
<1>a. UNCHANGED <<exec, post, booked>>
  BY DEF Dispatches, FindWorker, NoWorkerFree, DispatchTask, Publish, PublishFails,
         Unpublish, Waits, Return, Degrade, Redeliver, Resend, Timeout, Close,
         CloseFails, SendCancel, Abandon, CallerDies, workVars, usageVars
<1>1. CASE FindWorker(t)
  BY <1>0, <1>a, <1>1 DEF TypeOK, FindWorker, Goto, CallerMoves, Rows, Calls
<1>2. CASE NoWorkerFree(t) \/ CallerDies(t)
  BY <1>0, <1>a, <1>2 DEF TypeOK, NoWorkerFree, CallerDies, End, CallerMoves, Rows, Calls
<1>3. CASE DispatchTask(t)
  BY <1>0, <1>a, <1>3 DEF TypeOK, DispatchTask, Goto, CallerMoves, Rows, Calls
<1>4. CASE Publish(t) \/ PublishFails(t)
  BY <1>0, <1>a, <1>4 DEF TypeOK, Publish, PublishFails, Goto, CallerMoves, Rows, Calls
<1>5. CASE Unpublish(t)
  BY <1>0, <1>a, <1>5 DEF TypeOK, Unpublish, End, CallerMoves, Rows, Calls
<1>6. CASE Return(t)
  BY <1>0, <1>a, <1>6 DEF TypeOK, Return, End, CallerMoves, Rows, Calls
<1>7. CASE Degrade(t) \/ Resend(t)
  BY <1>0, <1>a, <1>7 DEF TypeOK, Degrade, Resend, Goto, CallerMoves, Rows, Calls
<1>8. CASE Redeliver(t)
  BY <1>0, <1>a, <1>8 DEF TypeOK, Redeliver, CallerMoves, Rows, Calls
<1>9. CASE Abandon(t)
  BY <1>0, <1>a, <1>9 DEF TypeOK, Abandon, CallerMoves, Rows, Calls
<1>10. CASE Timeout(t)
  BY <1>0, <1>a, <1>10 DEF TypeOK, Timeout, CallerMoves, Rows, Calls
<1>11. CASE Close(t)
  BY <1>0, <1>a, <1>11 DEF TypeOK, Close, Goto, CallerMoves, Rows, Calls
<1>12. CASE CloseFails(t)
  BY <1>0, <1>a, <1>12 DEF TypeOK, CloseFails, CallerMoves, Rows, Calls
<1>13. CASE SendCancel(t)
  BY <1>0, <1>a, <1>13 DEF TypeOK, SendCancel, End, CallerMoves, Rows, Calls
<1>14. QED
  BY <1>1, <1>2, <1>3, <1>4, <1>5, <1>6, <1>7, <1>8, <1>9, <1>10, <1>11, <1>12, <1>13
     DEF Dispatches, Waits

\* A worker's steps write neither the status of a row nor its usage.
LEMMA WorkerEffect ==
    ASSUME TypeOK,
           \/ \E w \in Workers : Hosting(w)
           \/ \E t \in Tasks, c \in Copies : Works(t, c)
    PROVE  /\ UNCHANGED <<call, booked>>
           /\ \A u \in Tasks : row'[u].status = row[u].status /\ row'[u].usage = row[u].usage
<1>1. ASSUME NEW w \in Workers, Hosting(w)
      PROVE  UNCHANGED <<row, call, booked>>
  BY <1>1 DEF Hosting, Heartbeat, GoesStale, Poll, PollLost, Boot, Stop, Exit, Revoke, usageVars
<1>2. ASSUME NEW t \in Tasks, NEW c \in Copies, Works(t, c)
      PROVE  /\ UNCHANGED <<call, booked>>
             /\ row' = row \/ \E b : row' = [row EXCEPT ![t].claimed = b]
  BY <1>2 DEF Works, Claim, ClaimUnheard, Refused, Run, Finish, Spend, Done, usageVars
<1>3. ASSUME NEW t \in Tasks, NEW b, row' = [row EXCEPT ![t].claimed = b]
      PROVE  \A u \in Tasks : row'[u].status = row[u].status /\ row'[u].usage = row[u].usage
  BY <1>3 DEF TypeOK, Rows
<1>4. QED
  BY <1>1, <1>2, <1>3

\* One step of the report k of copy c of t.
RecordMoves(t, c, k) ==
    LET p == post[t][c][k]  q == post'[t][c][k]
    IN  \/ /\ UNCHANGED <<row, booked>>
           /\ \/ q.at = "none"
              \/ q.at = "open" /\ row[t].status = "dispatched" /\ Undisturbed(t)
              \/ q.at = "late" /\ row[t].status = "failed" /\ ~row[t].usage /\ Undisturbed(t)
        \/ /\ p.at = "open" /\ q.at = "none"
           /\ row'[t].status \in Terminal /\ row'[t].usage = p.used
           /\ UNCHANGED booked
        \/ /\ p.at = "late" /\ q.at = "none"
           /\ row'[t].status = row[t].status /\ row'[t].usage = p.used
           /\ booked' = [booked EXCEPT ![t] = @ + (IF p.used THEN 1 ELSE 0)]

LEMMA PostAt ==
    ASSUME TypeOK, NEW t \in Tasks, NEW c \in Copies, NEW k \in Reports, NEW p,
           post' = [post EXCEPT ![t][c][k] = p]
    PROVE  post'[t][c][k] = p
BY DEF TypeOK

LEMMA RecordEffect ==
    ASSUME TypeOK, NEW t \in Tasks, NEW c \in Copies, NEW k \in Reports, Records(t, c, k)
    PROVE  /\ RecordMoves(t, c, k)
           /\ UNCHANGED <<call, exec, stream>>
           /\ \A u \in Tasks \ {t} : row'[u] = row[u]
           /\ \A u \in Tasks, d \in Copies, j \in Reports :
                 u # t \/ d # c \/ j # k => post'[u][d][j] = post[u][d][j]
<1>0. row[t] \in Rows /\ post[t][c][k] \in Posts
  BY DEF TypeOK
<1>1. \A u \in Tasks, d \in Copies, j \in Reports :
         u # t \/ d # c \/ j # k => post'[u][d][j] = post[u][d][j]
  BY DEF TypeOK, Records, ReportRead, ReportWrite, ReportLost
<1>2. CASE ReportRead(t, c, k)
  <2> DEFINE at == IF row[t].status = "dispatched" THEN "open" ELSE "late"
             p  == IF /\ host[row[t].worker].active
                      /\ \/ row[t].status = "dispatched"
                         \/ row[t].status = "failed" /\ ~row[t].usage
                   THEN [post[t][c][k] EXCEPT !.at = at] ELSE NoPost
  <2>1. post'[t][c][k] = p
    <3>1. post' = [post EXCEPT ![t][c][k] = p]
      BY <1>2 DEF ReportRead
    <3> HIDE DEF p
    <3>2. QED
      BY <3>1, PostAt
  <2>2. \/ post'[t][c][k] = NoPost
        \/ /\ post'[t][c][k] = [post[t][c][k] EXCEPT !.at = "open"]
           /\ row[t].status = "dispatched" /\ Undisturbed(t)
        \/ /\ post'[t][c][k] = [post[t][c][k] EXCEPT !.at = "late"]
           /\ row[t].status = "failed" /\ ~row[t].usage /\ Undisturbed(t)
    BY <1>2, <2>1 DEF ReportRead
  <2>3. QED
    BY SMTT(30), <1>0, <1>1, <1>2, <2>2 DEF ReportRead, RecordMoves, Posts, NoPost, workVars, usageVars
<1>3. CASE ReportLost(t, c, k)
  <2>1. post'[t][c][k] = NoPost
    BY <1>3 DEF TypeOK, ReportLost
  <2>2. QED
    BY <1>1, <1>3, <2>1 DEF ReportLost, RecordMoves, NoPost, workVars, usageVars
<1>4. CASE ReportWrite(t, c, k)
  <2>1. post'[t][c][k] = NoPost
    BY <1>4 DEF TypeOK, ReportWrite
  <2>2. CASE post[t][c][k].at = "open"
    <3>1. PICK s \in Terminal : row' = [row EXCEPT ![t].status = s, ![t].usage = post[t][c][k].used]
      BY <1>4, <2>2 DEF ReportWrite, Terminal
    <3>2. QED
      BY <1>0, <1>1, <1>4, <2>1, <2>2, <3>1
         DEF TypeOK, ReportWrite, RecordMoves, NoPost, Rows, workVars
  <2>3. CASE post[t][c][k].at = "late"
    <3>1. row' = [row EXCEPT ![t].usage = post[t][c][k].used]
      BY <1>4, <2>3 DEF ReportWrite
    <3>2. booked' = [booked EXCEPT ![t] = @ + (IF post[t][c][k].used THEN 1 ELSE 0)]
      BY <1>4, <2>3 DEF ReportWrite
    <3>3. QED
      BY <1>0, <1>1, <1>4, <2>1, <2>3, <3>1, <3>2
         DEF TypeOK, ReportWrite, RecordMoves, NoPost, Rows, workVars
  <2>4. QED
    BY <1>4, <2>2, <2>3 DEF ReportWrite
<1>5. QED
  BY <1>2, <1>3, <1>4 DEF Records
-----------------------------------------------------------------------------
(* No row is left open behind a caller that ended its call.                 *)

\* From the dispatch on the row is no longer pending: the conditional close, which
\* only moves a dispatched row, then always leaves it terminal.
ClosedInv ==
    /\ \A t \in Tasks :
          call[t].pc \in {"publish", "unpublish", "await", "poll", "resend", "close", "cancel"}
             => row[t].status # "pending"
    /\ LeftClosed

LEMMA ClosedStep == TypeOK /\ ClosedInv /\ [Next]_vars => ClosedInv'
<1> SUFFICES ASSUME TypeOK, ClosedInv, [Next]_vars PROVE ClosedInv'
  OBVIOUS
<1>1. ASSUME NEW t \in Tasks, Dispatches(t) \/ Waits(t) \/ Abandon(t) \/ CallerDies(t)
      PROVE  ClosedInv'
  <2>1. CallerMoves(t) /\ \A u \in Tasks \ {t} : row'[u] = row[u] /\ call'[u] = call[u]
    BY <1>1, CallerEffect
  <2>2. row[t].status \in Statuses
    BY DEF TypeOK, Rows
  <2>3. /\ call'[t].pc \in {"publish", "unpublish", "await", "poll", "resend", "close", "cancel"}
              => row'[t].status # "pending"
        /\ call'[t].pc \in {"cancel", "over"} /\ call'[t].why \notin {"died", "unclosed", "busy"}
              => row'[t].status \in Terminal
    BY <2>1, <2>2 DEF CallerMoves, ClosedInv, LeftClosed, Statuses, Terminal
  <2>4. QED
    BY <2>1, <2>3 DEF ClosedInv, LeftClosed
<1>2. CASE (\E w \in Workers : Hosting(w)) \/ (\E t \in Tasks, c \in Copies : Works(t, c))
  BY <1>2, WorkerEffect DEF ClosedInv, LeftClosed
<1>3. ASSUME NEW t \in Tasks, NEW c \in Copies, NEW k \in Reports, Records(t, c, k)
      PROVE  ClosedInv'
  <2>1. /\ UNCHANGED call
        /\ \A u \in Tasks : row'[u].status = row[u].status \/ row'[u].status \in Terminal
    BY <1>3, RecordEffect DEF RecordMoves
  <2>2. QED
    BY <2>1 DEF ClosedInv, LeftClosed, Terminal
<1>4. CASE UNCHANGED vars
  BY <1>4 DEF ClosedInv, LeftClosed, vars
<1>5. QED
  BY <1>1, <1>2, <1>3, <1>4 DEF Next

\* A caller that ends its call with an answer, a timeout, an abandoned run or a failed
\* publish leaves a terminal row, whatever the worker and the reports do meanwhile and
\* after (_close_dispatched_row, dispatch_task's except branch).
THEOREM DispatchLeftClosed == Spec => []LeftClosed
<1>1. Init => ClosedInv
  BY DEF Init, ClosedInv, LeftClosed
<1>2. TypeOK /\ ClosedInv /\ [Next]_vars => ClosedInv'
  BY ClosedStep
<1>3. ClosedInv => LeftClosed
  BY DEF ClosedInv
<1>4. QED
  BY <1>1, <1>2, <1>3, DispatchTypes, PTL DEF Spec
-----------------------------------------------------------------------------
(* Late usage is booked once, where reports are not torn.                   *)

\* A report between its read and its write is alone there and what it read still
\* holds; a booked row keeps the usage that keeps others out.
BookedInv ==
    \A t \in Tasks :
       /\ call[t].pc \in {"find", "chosen"} => row[t].status = "pending"
       /\ \A c \in Copies, k \in Reports :
             /\ post[t][c][k].at = "open" => row[t].status = "dispatched"
             /\ post[t][c][k].at = "late" => row[t].status = "failed" /\ ~row[t].usage
             /\ \A d \in Copies, j \in Reports :
                   {post[t][c][k].at, post[t][d][j].at} \subseteq {"open", "late"} => c = d /\ k = j
       /\ booked[t] > 0 => row[t].usage /\ row[t].status \in Terminal
       /\ booked[t] <= 1

LEMMA BookedStep ==
    ASSUME "torn" \notin Faults
    PROVE  TypeOK /\ BookedInv /\ [Next]_vars => BookedInv'
<1> SUFFICES ASSUME TypeOK, BookedInv, [Next]_vars PROVE BookedInv'
  OBVIOUS
<1>1. ASSUME NEW t \in Tasks, Dispatches(t) \/ Waits(t) \/ Abandon(t) \/ CallerDies(t)
      PROVE  BookedInv'
  <2>1. /\ CallerMoves(t)
        /\ row'[t].usage = row[t].usage
        /\ \A u \in Tasks \ {t} : row'[u] = row[u] /\ call'[u] = call[u]
        /\ UNCHANGED <<exec, post, booked>>
    BY <1>1, CallerEffect
  <2>2. \/ row'[t].status = row[t].status
        \/ row[t].status = "pending" /\ row'[t].status = "dispatched"
        \/ row'[t].status = "failed" /\ Undisturbed(t)
    BY <2>1 DEF CallerMoves, BookedInv
  <2>3. call'[t].pc \in {"find", "chosen"} => row'[t].status = "pending"
    BY <2>1 DEF CallerMoves, BookedInv
  <2>4. \A c \in Copies, k \in Reports :
           /\ post[t][c][k].at = "open" => row'[t].status = "dispatched"
           /\ post[t][c][k].at = "late" => row'[t].status = "failed" /\ ~row[t].usage
    BY <2>2 DEF BookedInv, Undisturbed
  <2>5. booked[t] > 0 => row[t].usage /\ row'[t].status \in Terminal
    BY <2>2 DEF BookedInv, Terminal
  <2>6. QED
    BY <2>1, <2>3, <2>4, <2>5 DEF BookedInv
<1>2. CASE (\E w \in Workers : Hosting(w)) \/ (\E t \in Tasks, c \in Copies : Works(t, c))
  <2>1. /\ UNCHANGED <<call, booked>>
        /\ \A u \in Tasks : row'[u].status = row[u].status /\ row'[u].usage = row[u].usage
    BY <1>2, WorkerEffect
  <2>2. \A u \in Tasks, d \in Copies, j \in Reports :
           post'[u][d][j] = post[u][d][j] \/ post'[u][d][j].at = "sent"
    <3>1. ASSUME NEW w \in Workers, Hosting(w) PROVE UNCHANGED post
      BY <3>1 DEF Hosting, Heartbeat, GoesStale, Poll, PollLost, Boot, Stop, Exit, Revoke
    <3>2. ASSUME NEW t \in Tasks, NEW c \in Copies, Works(t, c)
          PROVE  \/ UNCHANGED post
                 \/ \E k \in Reports, p \in Posts :
                       p.at = "sent" /\ post' = [post EXCEPT ![t][c][k] = p]
      BY <3>2 DEF Works, Claim, ClaimUnheard, Refused, Run, Finish, Spend, Done, Reports, Posts
    <3>3. ASSUME NEW t \in Tasks, NEW c \in Copies, NEW k \in Reports, NEW p, p.at = "sent",
                 post' = [post EXCEPT ![t][c][k] = p]
          PROVE  \A u \in Tasks, d \in Copies, j \in Reports :
                    post'[u][d][j] = post[u][d][j] \/ post'[u][d][j].at = "sent"
      BY <3>3 DEF TypeOK
    <3>4. QED
      BY <1>2, <3>1, <3>2, <3>3
  <2>3. QED
    BY <2>1, <2>2 DEF BookedInv
<1>3. ASSUME NEW t \in Tasks, NEW c \in Copies, NEW k \in Reports, Records(t, c, k)
      PROVE  BookedInv'
  <2>1. /\ RecordMoves(t, c, k)
        /\ UNCHANGED call
        /\ \A u \in Tasks \ {t} : row'[u] = row[u]
        /\ \A u \in Tasks, d \in Copies, j \in Reports :
              u # t \/ d # c \/ j # k => post'[u][d][j] = post[u][d][j]
    BY <1>3, RecordEffect
  <2>2. CASE UNCHANGED <<row, booked>> /\ post'[t][c][k].at = "none"
    BY <2>1, <2>2 DEF BookedInv
  <2>3. CASE /\ UNCHANGED <<row, booked>> /\ Undisturbed(t)
             /\ \/ post'[t][c][k].at = "open" /\ row[t].status = "dispatched"
                \/ post'[t][c][k].at = "late" /\ row[t].status = "failed" /\ ~row[t].usage
    BY <2>1, <2>3, SMTT(30) DEF BookedInv, Undisturbed
  <2>4. CASE /\ post[t][c][k].at = "open" /\ post'[t][c][k].at = "none"
             /\ row'[t].status \in Terminal /\ row'[t].usage = post[t][c][k].used
             /\ UNCHANGED booked
    <3>1. booked[t] = 0
      <4>1. row[t].status = "dispatched" /\ ~(booked[t] > 0)
        BY <2>4 DEF BookedInv, Terminal
      <4>2. booked[t] \in Nat
        BY DEF TypeOK
      <4>3. QED
        BY <4>1, <4>2
    <3>2. QED
      BY <2>1, <2>4, <3>1, SMTT(30) DEF BookedInv, Terminal
  <2>5. CASE /\ post[t][c][k].at = "late" /\ post'[t][c][k].at = "none"
             /\ row'[t].status = row[t].status /\ row'[t].usage = post[t][c][k].used
             /\ booked' = [booked EXCEPT ![t] = @ + (IF post[t][c][k].used THEN 1 ELSE 0)]
    <3>1. booked[t] = 0 /\ row[t].status = "failed"
      <4>1. row[t].status = "failed" /\ ~(booked[t] > 0)
        BY <2>5 DEF BookedInv
      <4>2. booked[t] \in Nat
        BY DEF TypeOK
      <4>3. QED
        BY <4>1, <4>2
    <3>2. QED
      BY <2>1, <2>5, <3>1 DEF BookedInv, TypeOK, Terminal
  <2>6. QED
    BY <2>1, <2>2, <2>3, <2>4, <2>5 DEF RecordMoves
<1>4. CASE UNCHANGED vars
  BY <1>4 DEF BookedInv, vars
<1>5. QED
  BY <1>1, <1>2, <1>3, <1>4 DEF Next

LEMMA BookedAlways ==
    ASSUME "torn" \notin Faults
    PROVE  Spec => []BookedInv
<1>1. Init => BookedInv
  BY DEF Init, BookedInv, NoPost
<1>2. TypeOK /\ BookedInv /\ [Next]_vars => BookedInv'
  BY BookedStep
<1>3. QED
  BY <1>1, <1>2, DispatchTypes, PTL DEF Spec

\* Where no report is interrupted between its read and its write, the ledger gets at
\* most one late entry for a task, however many copies ran and reported
\* (record_result's check of the usage columns).
THEOREM DispatchBookedOnce ==
    ASSUME "torn" \notin Faults
    PROVE  Spec => []BookedOnce
<1>1. BookedInv => BookedOnce
  BY DEF BookedInv, BookedOnce
<1>2. QED
  BY <1>1, BookedAlways, PTL
-----------------------------------------------------------------------------
(* TaskDispatch implements TaskOutcome, where reports are not torn and a     *)
(* publish that raised appended nothing.                                    *)

Mentions(w, t) == \E i \in 1 .. Len(stream[w]) : stream[w][i].task = t

\* Until its task is published nothing of it exists outside the caller; a caller that
\* closes and cancels has no answer to give.
QuietInv ==
    \A t \in Tasks :
       /\ call[t].pc \in {"find", "chosen", "publish", "unpublish"} =>
             /\ \A w \in Workers : ~Mentions(w, t)
             /\ \A c \in Copies : exec[t][c] = "idle"
             /\ \A c \in Copies, k \in Reports : post[t][c][k].at = "none"
       /\ call[t].pc \in {"publish", "unpublish"} => row[t].status = "dispatched"
       /\ call[t].pc \in {"close", "cancel"} => call[t].why \notin Terminal

LEMMA XaddMentions ==
    ASSUME TypeOK, NEW t \in Tasks, NEW kind, NEW c, Xadd(t, kind, c),
           NEW u \in Tasks \ {t}, NEW w \in Workers, Mentions(w, u)'
    PROVE  Mentions(w, u)
<1>1. stream[w] \in Seq(Messages)
  BY DEF TypeOK
<1>2. CASE w # row[t].worker
  BY <1>2 DEF TypeOK, Xadd, Mentions
<1>3. CASE w = row[t].worker
  <2> DEFINE m == [task |-> t, kind |-> kind, copy |-> c]
  <2>1. stream'[w] = Append(stream[w], m)
    BY <1>3 DEF TypeOK, Xadd
  <2>2. PICK i \in 1 .. Len(stream'[w]) : stream'[w][i].task = u
    BY DEF Mentions
  <2>3. i \in 1 .. Len(stream[w]) + 1
    BY <1>1, <2>1, <2>2
  <2>4. i # Len(stream[w]) + 1
    BY <1>1, <2>1, <2>2
  <2>5. i \in 1 .. Len(stream[w]) /\ stream'[w][i] = stream[w][i]
    BY <1>1, <2>1, <2>3, <2>4
  <2>6. QED
    BY <2>2, <2>5 DEF Mentions
<1>4. QED
  BY <1>2, <1>3

LEMMA TailMentions ==
    ASSUME TypeOK, NEW v \in Workers, stream[v] # <<>>,
           stream' = [stream EXCEPT ![v] = Tail(@)]
    PROVE  /\ \A w \in Workers, u \in Tasks : Mentions(w, u)' => Mentions(w, u)
           /\ Mentions(v, Head(stream[v]).task)
<1>1. stream[v] \in Seq(Messages) /\ Len(stream[v]) \in Nat
  BY DEF TypeOK
<1>2. Len(stream[v]) > 0 /\ Head(stream[v]) = stream[v][1]
  BY <1>1
<1>3. ASSUME NEW w \in Workers, NEW u \in Tasks, Mentions(w, u)'
      PROVE  Mentions(w, u)
  <2>1. CASE w # v
    BY <1>3, <2>1 DEF TypeOK, Mentions
  <2>2. CASE w = v
    <3>1. stream'[v] = Tail(stream[v])
      BY DEF TypeOK
    <3>2. PICK i \in 1 .. Len(stream'[v]) : stream'[v][i].task = u
      BY <1>3, <2>2 DEF Mentions
    <3>3. i + 1 \in 1 .. Len(stream[v]) /\ stream'[v][i] = stream[v][i + 1]
      <4>1. Len(Tail(stream[v])) = Len(stream[v]) - 1
        BY <1>1, <1>2
      <4>2. i \in 1 .. Len(stream[v]) - 1
        BY <3>1, <3>2, <4>1
      <4>3. Tail(stream[v])[i] = stream[v][i + 1]
        BY <1>1, <1>2, <4>2
      <4>4. i + 1 \in 1 .. Len(stream[v])
        <5>1. i \in Nat /\ 1 <= i /\ i <= Len(stream[v]) - 1
          BY <1>1, <4>2
        <5>2. QED
          BY <1>1, <5>1
      <4>5. QED
        BY <3>1, <4>3, <4>4
    <3>4. QED
      BY <2>2, <3>2, <3>3 DEF Mentions
  <2>3. QED
    BY <2>1, <2>2
<1>4. QED
  BY <1>1, <1>2, <1>3 DEF Mentions

LEMMA CallerMentions ==
    ASSUME TypeOK, "phantom" \notin Faults, NEW t \in Tasks,
           Dispatches(t) \/ Waits(t) \/ Abandon(t) \/ CallerDies(t)
    PROVE  /\ \A u \in Tasks \ {t}, w \in Workers : Mentions(w, u)' => Mentions(w, u)
           /\ call'[t].pc \in {"find", "chosen", "publish", "unpublish"} =>
                 /\ UNCHANGED stream
                 /\ call[t].pc \in {"find", "chosen", "publish"}
<1>0. call[t] \in Calls
  BY DEF TypeOK
<1>1. CASE FindWorker(t) \/ DispatchTask(t) \/ PublishFails(t)
  BY <1>0, <1>1 DEF FindWorker, DispatchTask, PublishFails, Goto, Mentions, TypeOK
<1>2. CASE Publish(t) \/ Resend(t) \/ SendCancel(t)
  <2>1. call'[t].pc \in {"await", "over"}
    BY <1>0, <1>2 DEF Publish, Resend, SendCancel, Goto, End, TypeOK, Calls
  <2>2. UNCHANGED stream \/ \E kind, c : Xadd(t, kind, c)
    BY <1>2 DEF Publish, Resend, SendCancel
  <2>3. QED
    BY <2>1, <2>2, XaddMentions DEF Mentions
<1>3. CASE NoWorkerFree(t) \/ Unpublish(t) \/ Return(t) \/ Degrade(t) \/ Redeliver(t) \/ Timeout(t)
           \/ Close(t) \/ CloseFails(t) \/ Abandon(t) \/ CallerDies(t)
  <2>1. UNCHANGED stream
    BY <1>3 DEF NoWorkerFree, Unpublish, Return, Degrade, Redeliver, Timeout, Close, CloseFails,
                Abandon, CallerDies
  <2>2. CASE NoWorkerFree(t) \/ Unpublish(t) \/ Return(t) \/ CallerDies(t)
    <3>1. call'[t].pc = "over"
      BY <1>0, <2>2 DEF NoWorkerFree, Unpublish, Return, CallerDies, End, TypeOK, Calls
    <3>2. QED
      BY <2>1, <3>1 DEF Mentions
  <2>3. CASE Degrade(t) \/ Redeliver(t) \/ Timeout(t) \/ Close(t) \/ CloseFails(t) \/ Abandon(t)
    <3>1. call'[t].pc \in {"poll", "await", "resend", "close", "cancel"}
      BY <1>0, <2>3 DEF Degrade, Redeliver, Timeout, Close, CloseFails, Abandon, Goto, TypeOK, Calls
    <3>2. QED
      BY <2>1, <3>1 DEF Mentions
  <2>4. QED
    BY <1>3, <2>2, <2>3
<1>4. QED
  BY <1>1, <1>2, <1>3 DEF Dispatches, Waits

LEMMA QuietStep ==
    ASSUME "phantom" \notin Faults
    PROVE  TypeOK /\ QuietInv /\ [Next]_vars => QuietInv'
<1> SUFFICES ASSUME TypeOK, QuietInv, [Next]_vars PROVE QuietInv'
  OBVIOUS
<1>1. ASSUME NEW t \in Tasks, Dispatches(t) \/ Waits(t) \/ Abandon(t) \/ CallerDies(t)
      PROVE  QuietInv'
  <2>1. /\ CallerMoves(t)
        /\ \A u \in Tasks \ {t} : row'[u] = row[u] /\ call'[u] = call[u]
        /\ UNCHANGED <<exec, post>>
    BY <1>1, CallerEffect
  <2>2. /\ \A u \in Tasks \ {t}, w \in Workers : Mentions(w, u)' => Mentions(w, u)
        /\ call'[t].pc \in {"find", "chosen", "publish", "unpublish"} =>
              UNCHANGED stream /\ call[t].pc \in {"find", "chosen", "publish"}
    BY <1>1, CallerMentions
  <2>3. /\ call'[t].pc \in {"publish", "unpublish"} => row'[t].status = "dispatched"
        /\ call'[t].pc \in {"close", "cancel"} => call'[t].why \notin Terminal
    BY <2>1 DEF CallerMoves, QuietInv, Terminal
  <2>4. call'[t].pc \in {"find", "chosen", "publish", "unpublish"} =>
             /\ \A w \in Workers : ~Mentions(w, t)'
             /\ \A c \in Copies : exec'[t][c] = "idle"
             /\ \A c \in Copies, k \in Reports : post'[t][c][k].at = "none"
    BY <2>1, <2>2 DEF QuietInv, Mentions
  <2>5. QED
    BY <2>1, <2>2, <2>3, <2>4 DEF QuietInv
<1>2. ASSUME NEW w \in Workers, Hosting(w)
      PROVE  QuietInv'
  <2>1. UNCHANGED <<row, call, post>>
    BY <1>2 DEF Hosting, Heartbeat, GoesStale, Poll, PollLost, Boot, Stop, Exit, Revoke
  <2>2. \A v \in Workers, u \in Tasks : Mentions(v, u)' => Mentions(v, u)
    <3>1. CASE Poll(w) \/ PollLost(w)
      BY <3>1, TailMentions DEF Poll, PollLost
    <3>2. CASE Revoke(w)
      BY <3>2 DEF Revoke, TypeOK, Mentions
    <3>3. CASE UNCHANGED stream
      BY <3>3 DEF Mentions
    <3>4. QED
      BY <1>2, <3>1, <3>2, <3>3 DEF Hosting, Heartbeat, GoesStale, Boot, Stop, Exit
  <2>3. \A u \in Tasks : call[u].pc \in {"find", "chosen", "publish", "unpublish"} =>
           \A c \in Copies : exec'[u][c] = "idle"
    <3>1. CASE UNCHANGED exec
      BY <3>1 DEF QuietInv
    <3>2. CASE Poll(w)
      <4> DEFINE m == Head(stream[w])
      <4>1. m.task \in Tasks /\ m.copy \in Copies /\ Mentions(w, m.task)
        BY <3>2, HeadType, TailMentions DEF Poll
      <4>2. call[m.task].pc \notin {"find", "chosen", "publish", "unpublish"}
        BY <4>1 DEF QuietInv
      <4>3. \A u \in Tasks \ {m.task} : exec'[u] = exec[u]
        BY <3>2, <4>1 DEF Poll, ReadExecute, ReadCancel, Step, TypeOK
      <4>4. QED
        BY <4>2, <4>3 DEF QuietInv
    <3>3. CASE Stop(w) \/ Exit(w)
      <4>1. \A t \in Tasks, c \in Copies : exec[t][c] = "idle" => exec'[t][c] = "idle"
        <5>1. CASE Stop(w)
          BY <5>1 DEF TypeOK, Stop, InFlight
        <5>2. CASE Exit(w)
          BY <5>2 DEF TypeOK, Exit
        <5>3. QED
          BY <3>3, <5>1, <5>2
      <4>2. QED
        BY <4>1 DEF QuietInv
    <3>4. QED
      BY <1>2, <3>1, <3>2, <3>3
         DEF Hosting, Heartbeat, GoesStale, PollLost, Boot, Revoke, workVars
  <2>4. QED
    BY <2>1, <2>2, <2>3 DEF QuietInv
<1>3. ASSUME NEW t \in Tasks, NEW c \in Copies, Works(t, c)
      PROVE  QuietInv'
  <2>1. exec[t][c] # "idle"
    BY <1>3 DEF Works, Claim, ClaimUnheard, Refused, Run, Finish, Spend, Done
  <2>2. call[t].pc \notin {"find", "chosen", "publish", "unpublish"}
    BY <2>1 DEF QuietInv
  <2>3. \A u \in Tasks \ {t} : exec'[u] = exec[u] /\ post'[u] = post[u]
    BY <1>3 DEF Works, Claim, ClaimUnheard, Refused, Run, Finish, Spend, Done, Step, TypeOK
  <2>4. UNCHANGED <<call, stream>> /\ \A u \in Tasks : row'[u].status = row[u].status
    <3>1. UNCHANGED stream
      BY <1>3 DEF Works, Claim, ClaimUnheard, Refused, Run, Finish, Spend, Done
    <3>2. QED
      BY <1>3, <3>1, WorkerEffect
  <2>5. QED
    BY <2>2, <2>3, <2>4 DEF QuietInv, Mentions
<1>4. ASSUME NEW t \in Tasks, NEW c \in Copies, NEW k \in Reports, Records(t, c, k)
      PROVE  QuietInv'
  <2>1. post[t][c][k].at # "none"
    BY <1>4 DEF Records, ReportRead, ReportWrite, ReportLost
  <2>2. call[t].pc \notin {"find", "chosen", "publish", "unpublish"}
    BY <2>1 DEF QuietInv
  <2>3. /\ UNCHANGED <<call, exec, stream>>
        /\ \A u \in Tasks \ {t} : row'[u] = row[u]
        /\ \A u \in Tasks, d \in Copies, j \in Reports :
              u # t \/ d # c \/ j # k => post'[u][d][j] = post[u][d][j]
    BY <1>4, RecordEffect
  <2>4. QED
    BY <2>2, <2>3 DEF QuietInv, Mentions
<1>5. CASE UNCHANGED vars
  BY <1>5 DEF QuietInv, Mentions, vars
<1>6. QED
  BY <1>1, <1>2, <1>3, <1>4, <1>5 DEF Next

LEMMA OutcomeSteps ==
    ASSUME "torn" \notin Faults, "phantom" \notin Faults
    PROVE  TypeOK /\ BookedInv /\ QuietInv /\ [Next]_vars
              => [Outcome!OutcomeStep]_<<[t \in Tasks |-> row[t].status], Told>>
<1> SUFFICES ASSUME TypeOK, BookedInv, QuietInv, [Next]_vars
             PROVE  [Outcome!OutcomeStep]_<<[t \in Tasks |-> row[t].status], Told>>
  OBVIOUS
<1> DEFINE Result == [t \in Tasks |-> row[t].status]
<1>1. ASSUME NEW t \in Tasks, Dispatches(t) \/ Waits(t) \/ Abandon(t) \/ CallerDies(t)
      PROVE  Outcome!OutcomeStep
  <2>1. CallerMoves(t) /\ \A u \in Tasks \ {t} : row'[u] = row[u] /\ call'[u] = call[u]
    BY <1>1, CallerEffect
  <2>2. \A u \in Tasks \ {t} : Result'[u] = Result[u] /\ Told'[u] = Told[u]
    BY <2>1 DEF Told
  <2>3. \/ Result'[t] = Result[t]
        \/ Result[t] = "pending" /\ Result'[t] = "dispatched"
        \/ Result[t] = "dispatched" /\ Result'[t] \in {"done", "failed"}
    BY <2>1 DEF CallerMoves, BookedInv, QuietInv
  <2>4. \/ Told'[t] = Told[t]
        \/ /\ Told[t] = "nothing"
           /\ \/ Told'[t] = "gave up"
              \/ Told'[t] = Result[t] /\ Result[t] \in {"done", "failed"}
    BY <2>1 DEF CallerMoves, QuietInv, Told, Terminal
  <2>5. QED
    BY <2>2, <2>3, <2>4 DEF Outcome!OutcomeStep, Outcome!Settles, Outcome!Tells
<1>2. CASE (\E w \in Workers : Hosting(w)) \/ (\E t \in Tasks, c \in Copies : Works(t, c))
  <2>1. UNCHANGED call /\ \A u \in Tasks : row'[u].status = row[u].status
    BY <1>2, WorkerEffect
  <2>2. QED
    BY <2>1 DEF Told
<1>3. ASSUME NEW t \in Tasks, NEW c \in Copies, NEW k \in Reports, Records(t, c, k)
      PROVE  Outcome!OutcomeStep
  <2>1. /\ RecordMoves(t, c, k)
        /\ UNCHANGED call
        /\ \A u \in Tasks \ {t} : row'[u] = row[u]
    BY <1>3, RecordEffect
  <2>2. UNCHANGED Told
    BY <2>1 DEF Told
  <2>3. \A u \in Tasks : \/ Result'[u] = Result[u]
                         \/ Result[u] = "dispatched" /\ Result'[u] \in {"done", "failed"}
    BY <2>1 DEF RecordMoves, BookedInv, Terminal
  <2>4. QED
    BY <2>2, <2>3 DEF Outcome!OutcomeStep, Outcome!Settles, Outcome!Tells
<1>4. CASE UNCHANGED vars
  BY <1>4 DEF Told, vars
<1>5. QED
  BY <1>1, <1>2, <1>3, <1>4 DEF Next

\* A task settles once and its caller is told how it settled or that it gave up: the
\* caller, the worker and the reports together implement TaskOutcome, for any number
\* of tasks and workers and all faults but a torn report and a phantom entry.
THEOREM DispatchKeepsOutcome ==
    ASSUME "torn" \notin Faults, "phantom" \notin Faults
    PROVE  Spec => KeepsOutcome
<1>1. Init => Outcome!OutcomeInit
  BY DEF Init, Outcome!OutcomeInit, Told
<1>2. Init => QuietInv
  BY DEF Init, QuietInv, Mentions, NoPost
<1>3. TypeOK /\ QuietInv /\ [Next]_vars => QuietInv'
  BY QuietStep
<1>4. TypeOK /\ BookedInv /\ QuietInv /\ [Next]_vars
         => [Outcome!OutcomeStep]_<<[t \in Tasks |-> row[t].status], Told>>
  BY OutcomeSteps
<1>5. QED
  BY <1>1, <1>2, <1>3, <1>4, DispatchTypes, BookedAlways, PTL
     DEF Spec, KeepsOutcome, Outcome!OutcomeSpec
-----------------------------------------------------------------------------
(* A cancel that a worker has read is obeyed.                               *)

Cancels(w, t) ==
    \E i \in 1 .. Len(stream[w]) : stream[w][i].task = t /\ stream[w][i].kind = "cancel"

\* Nothing of t stands behind its cancel.
Last(w, t) ==
    \A i, j \in 1 .. Len(stream[w]) :
       stream[w][i].task = t /\ stream[w][i].kind = "cancel" /\ i < j => stream[w][j].task # t

\* The entries of a task wait in the stream of its worker, and its cancel is the caller's
\* last word: a worker that has read it is sent nothing more of the task, and of the copies
\* the cancel was for it has none in hand but to report its spend.
Through == {"idle", "spend", "last"}
CancelInv ==
    \A t \in Tasks :
       /\ \A w \in Workers :
             /\ Mentions(w, t) => w = row[t].worker /\ call[t].pc # "find"
             /\ Cancels(w, t) => call[t].pc = "over"
             /\ Last(w, t)
       /\ heard[t] # {} => call[t].pc = "over" /\ \A w \in Workers : ~Mentions(w, t)
       /\ \A c \in heard[t] : exec[t][c] \in Through

\* An entry appended to a stream.
LEMMA XaddOrder ==
    ASSUME TypeOK, NEW t \in Tasks, NEW kind, NEW c, Xadd(t, kind, c), NEW w \in Workers
    PROVE  /\ \A u \in Tasks \ {t} : /\ Cancels(w, u)' => Cancels(w, u)
                                     /\ Last(w, u) => Last(w, u)'
           /\ ~Cancels(w, t) => Last(w, t)'
           /\ ~Cancels(w, t) /\ kind # "cancel" => ~Cancels(w, t)'
           /\ w # row[t].worker => stream'[w] = stream[w]
<1>1. CASE w # row[t].worker
  <2>1. stream'[w] = stream[w]
    BY <1>1 DEF TypeOK, Xadd
  <2>2. QED
    BY <1>1, <2>1 DEF Cancels, Last
<1>2. CASE w = row[t].worker
  <2> DEFINE m == [task |-> t, kind |-> kind, copy |-> c]
             n == Len(stream[w])
  <2>1. stream'[w] = Append(stream[w], m) /\ stream[w] \in Seq(Messages)
    BY <1>2 DEF TypeOK, Xadd
  <2>2. n \in Nat /\ Len(stream'[w]) = n + 1 /\ stream'[w][n + 1] = m
    BY <2>1
  <2>3. \A i \in 1 .. n : stream'[w][i] = stream[w][i]
    BY <2>1
  <2>4. m.task = t /\ m.kind = kind
    OBVIOUS
  <2> HIDE DEF m, n
  <2>5. \A i \in 1 .. n + 1 : i \in 1 .. n \/ i = n + 1
    BY <2>2
  <2>6. ASSUME NEW u \in Tasks \ {t}
        PROVE  (Cancels(w, u)' => Cancels(w, u)) /\ (Last(w, u) => Last(w, u)')
    BY <2>2, <2>3, <2>4, <2>5 DEF Cancels, Last, n
  <2>7. ~Cancels(w, t) => Last(w, t)'
    <3> SUFFICES ASSUME ~Cancels(w, t), NEW i \in 1 .. n + 1, NEW j \in 1 .. n + 1,
                        stream'[w][i].task = t, stream'[w][i].kind = "cancel", i < j
                 PROVE  FALSE
      BY <2>2 DEF Last
    <3>1. i = n + 1
      BY <2>3, <2>5 DEF Cancels, n
    <3>2. QED
      BY <2>2, <3>1
  <2>8. ~Cancels(w, t) /\ kind # "cancel" => ~Cancels(w, t)'
    BY <2>2, <2>3, <2>4, <2>5 DEF Cancels, n
  <2>9. QED
    BY <1>2, <2>6, <2>7, <2>8
<1>3. QED
  BY <1>1, <1>2

\* What is left of a sequence behind its head.
LEMMA TailFields ==
    ASSUME NEW S, NEW s \in Seq(S), s # <<>>
    PROVE  /\ Len(s) \in Nat /\ Len(s) > 0 /\ Head(s) = s[1] /\ 1 \in 1 .. Len(s)
           /\ Len(Tail(s)) = Len(s) - 1
           /\ \A i \in 1 .. Len(s) - 1 :
                 i \in Nat /\ 0 < i /\ i + 1 \in 1 .. Len(s) /\ Tail(s)[i] = s[i + 1]
<1>1. Len(s) \in Nat /\ Len(s) > 0 /\ Head(s) = s[1]
  OBVIOUS
<1>2. Len(Tail(s)) = Len(s) - 1
  BY <1>1
<1>3. ASSUME NEW i \in 1 .. Len(s) - 1
      PROVE  i \in Nat /\ 0 < i /\ i + 1 \in 1 .. Len(s) /\ Tail(s)[i] = s[i + 1]
  <2>1. i \in Nat /\ 1 <= i /\ i <= Len(s) - 1
    BY <1>1
  <2>2. Tail(s)[i] = s[i + 1]
    BY <1>1
  <2>3. QED
    BY <1>1, <2>1, <2>2
<1>4. QED
  BY <1>1, <1>2, <1>3

\* An entry taken off the front of a stream.
LEMMA TailOrder ==
    ASSUME TypeOK, NEW v \in Workers, stream[v] # <<>>,
           stream' = [stream EXCEPT ![v] = Tail(@)], NEW u \in Tasks
    PROVE  /\ \A w \in Workers : /\ Cancels(w, u)' => Cancels(w, u)
                                 /\ Last(w, u) => Last(w, u)'
           /\ Head(stream[v]).task = u /\ Head(stream[v]).kind = "cancel" =>
                 Cancels(v, u) /\ (Last(v, u) => ~Mentions(v, u)')
<1> DEFINE n == Len(stream[v])
           new == stream'[v]
<1>1. stream[v] \in Seq(Messages)
  BY DEF TypeOK
<1>2. /\ n \in Nat /\ n > 0 /\ Head(stream[v]) = stream[v][1] /\ 1 \in 1 .. n
      /\ Len(Tail(stream[v])) = n - 1
      /\ \A i \in 1 .. n - 1 : /\ i \in Nat /\ 0 < i /\ i + 1 \in 1 .. n
                               /\ Tail(stream[v])[i] = stream[v][i + 1]
  BY <1>1, TailFields
<1>3. new = Tail(stream[v])
  BY DEF TypeOK
<1> HIDE DEF new, n
<1>4. Len(new) = n - 1
  BY <1>2, <1>3
<1>5. \A i \in 1 .. n - 1 : i \in Nat /\ 0 < i /\ i + 1 \in 1 .. n /\ new[i] = stream[v][i + 1]
  BY <1>2, <1>3
<1>6. ASSUME NEW w \in Workers
      PROVE  (Cancels(w, u)' => Cancels(w, u)) /\ (Last(w, u) => Last(w, u)')
  <2>1. CASE w # v
    BY <2>1 DEF TypeOK, Cancels, Last
  <2>2. CASE w = v
    <3>1. ASSUME NEW i \in 1 .. Len(new), new[i].task = u, new[i].kind = "cancel"
          PROVE  i \in 1 .. n - 1 /\ stream[v][i + 1].task = u /\ stream[v][i + 1].kind = "cancel"
      BY <1>4, <1>5, <3>1
    <3>2. Cancels(w, u)' => Cancels(w, u)
      BY <1>5, <2>2, <3>1 DEF Cancels, new, n
    <3>3. ASSUME Last(w, u), NEW i \in 1 .. Len(new), NEW j \in 1 .. Len(new),
                 new[i].task = u, new[i].kind = "cancel", i < j
          PROVE  new[j].task # u
      <4>1. /\ i + 1 \in 1 .. n /\ j + 1 \in 1 .. n /\ i \in Nat /\ j \in Nat
            /\ new[j] = stream[v][j + 1]
        BY <1>4, <1>5
      <4>2. i + 1 < j + 1
        BY <3>3, <4>1
      <4>3. stream[v][i + 1].task = u /\ stream[v][i + 1].kind = "cancel"
        BY <3>1, <3>3
      <4>4. stream[v][j + 1].task # u
        BY <2>2, <3>3, <4>1, <4>2, <4>3 DEF Last, n
      <4>5. QED
        BY <4>1, <4>4
    <3>4. Last(w, u) => Last(w, u)'
      BY <2>2, <3>3 DEF Last, new, n
    <3>5. QED
      BY <3>2, <3>4
  <2>3. QED
    BY <2>1, <2>2
<1>7. ASSUME Head(stream[v]).task = u, Head(stream[v]).kind = "cancel"
      PROVE  Cancels(v, u) /\ (Last(v, u) => ~Mentions(v, u)')
  <2>1. Cancels(v, u)
    BY <1>2, <1>7 DEF Cancels, n
  <2>2. ASSUME Last(v, u), NEW i \in 1 .. Len(new), new[i].task = u
        PROVE  FALSE
    <3>1. i \in Nat /\ 0 < i /\ i + 1 \in 1 .. n /\ new[i] = stream[v][i + 1]
      BY <1>4, <1>5
    <3>2. 1 < i + 1
      BY <3>1
    <3>3. stream[v][i + 1].task # u
      BY <1>2, <1>7, <2>2, <3>1, <3>2 DEF Last, n
    <3>4. QED
      BY <2>2, <3>1, <3>3
  <2>3. QED
    BY <2>1, <2>2 DEF Mentions, new
<1>8. QED
  BY <1>6, <1>7

\* A caller fixes the worker before anything is sent, and cancels when it gives up.
LEMMA CallerSends ==
    ASSUME TypeOK, NEW t \in Tasks,
           Dispatches(t) \/ Waits(t) \/ Abandon(t) \/ CallerDies(t)
    PROVE  /\ heard' = heard /\ call[t].pc # "over" /\ call'[t].pc # "find"
           /\ \/ stream' = stream /\ (row'[t].worker = row[t].worker \/ call[t].pc = "find")
              \/ /\ call[t].pc # "find" /\ row' = row
                 /\ \/ \E c \in Copies : Xadd(t, "execute", c)
                    \/ Xadd(t, "cancel", 1) /\ call'[t].pc = "over"
<1>0. row[t] \in Rows /\ call[t] \in Calls
  BY DEF TypeOK
<1>1. heard' = heard
  BY DEF Dispatches, FindWorker, NoWorkerFree, DispatchTask, Publish, PublishFails,
         Unpublish, Waits, Return, Degrade, Redeliver, Resend, Timeout, Close,
         CloseFails, SendCancel, Abandon, CallerDies, workVars
<1>2. call[t].pc # "over" /\ call'[t].pc # "find"
  BY CallerEffect DEF CallerMoves, Dispatches, FindWorker, NoWorkerFree, DispatchTask, Publish,
                      PublishFails, Unpublish, Waits, Return, Degrade, Redeliver, Resend, Timeout,
                      Close, CloseFails, SendCancel, Abandon, CallerDies
<1>3. CASE FindWorker(t)
  BY <1>1, <1>2, <1>3 DEF FindWorker
<1>4. CASE DispatchTask(t) \/ Unpublish(t) \/ Close(t)
  <2>1. PICK x : row' = [row EXCEPT ![t].status = x]
    BY <1>4 DEF DispatchTask, Unpublish, Close
  <2>2. row'[t].worker = row[t].worker
    BY <1>0, <2>1 DEF TypeOK, Rows
  <2>3. QED
    BY <1>1, <1>2, <1>4, <2>2 DEF DispatchTask, Unpublish, Close
<1>5. CASE Publish(t) \/ PublishFails(t) \/ Resend(t)
  <2>1. call[t].pc # "find" /\ row' = row
    BY <1>5 DEF Publish, PublishFails, Resend
  <2>2. stream' = stream \/ \E c \in Copies : Xadd(t, "execute", c)
    BY <1>5 DEF Publish, PublishFails, Resend, Copies
  <2>3. QED
    BY <1>1, <1>2, <2>1, <2>2
<1>6. CASE SendCancel(t)
  <2>1. call'[t].pc = "over"
    BY <1>0, <1>6 DEF SendCancel, End, TypeOK, Calls
  <2>2. QED
    BY <1>1, <1>2, <1>6, <2>1 DEF SendCancel
<1>7. CASE NoWorkerFree(t) \/ Return(t) \/ Degrade(t) \/ Redeliver(t) \/ Timeout(t)
           \/ CloseFails(t) \/ Abandon(t) \/ CallerDies(t)
  <2>1. stream' = stream /\ row' = row
    BY <1>7 DEF NoWorkerFree, Return, Degrade, Redeliver, Timeout, CloseFails, Abandon, CallerDies
  <2>2. QED
    BY <1>1, <1>2, <2>1
<1>8. QED
  BY <1>3, <1>4, <1>5, <1>6, <1>7 DEF Dispatches, Waits

LEMMA CallerCancel ==
    ASSUME TypeOK, CancelInv, NEW t \in Tasks,
           Dispatches(t) \/ Waits(t) \/ Abandon(t) \/ CallerDies(t)
    PROVE  CancelInv'
<1>1. /\ \A u \in Tasks \ {t} : row'[u] = row[u] /\ call'[u] = call[u]
      /\ exec' = exec /\ heard' = heard
  BY CallerEffect, CallerSends
<1>2. /\ call[t].pc # "over" /\ call'[t].pc # "find"
      /\ heard[t] = {} /\ \A w \in Workers : ~Cancels(w, t)
  BY CallerSends DEF CancelInv
<1>3. CASE stream' = stream /\ (row'[t].worker = row[t].worker \/ call[t].pc = "find")
  BY <1>1, <1>2, <1>3 DEF CancelInv, Mentions, Cancels, Last
<1>4. ASSUME NEW kind \in {"execute", "cancel"}, NEW c, Xadd(t, kind, c),
             call[t].pc # "find", row' = row, kind = "cancel" => call'[t].pc = "over"
      PROVE  CancelInv'
  <2>1. ASSUME NEW u \in Tasks \ {t}, NEW w \in Workers
        PROVE  (Mentions(w, u)' => Mentions(w, u)) /\ (Cancels(w, u)' => Cancels(w, u))
               /\ (Last(w, u) => Last(w, u)')
    BY <1>4, XaddMentions, XaddOrder
  <2>2. ASSUME NEW w \in Workers
        PROVE  /\ Mentions(w, t)' => w = row[t].worker
               /\ Cancels(w, t)' => call'[t].pc = "over"
               /\ Last(w, t)'
    <3>1. w # row[t].worker => stream'[w] = stream[w]
      BY <1>4, XaddOrder
    <3>2. Mentions(w, t)' => w = row[t].worker
      BY <3>1 DEF CancelInv, Mentions
    <3>3. QED
      BY <1>2, <1>4, <3>2, XaddOrder
  <2>3. QED
    BY <1>1, <1>2, <1>4, <2>1, <2>2 DEF CancelInv
<1>5. QED
  BY <1>2, <1>3, <1>4, CallerSends

\* A cancel rules out every copy it does not find on its way to _RUNNING_TASKS.
LEMMA ReadObeyed ==
    ASSUME TypeOK, OneAtATime, NEW m, m.task \in Tasks, ReadCancel(m)
    PROVE  \A c \in heard'[m.task] : exec'[m.task][c] \in Through
<1> DEFINE t == m.task
<1>1. heard'[t] = {c \in Copies : ~Unreached(t, c)}
  BY DEF ReadCancel, TypeOK
<1>2. ASSUME NEW c \in Copies, ~Unreached(t, c)
      PROVE  exec[t][c] = "idle" \/ Registered(t, c)
  BY <1>2 DEF Unreached, Registered, TypeOK, ExecPcs
<1>3. CASE \A c \in Copies : ~Registered(t, c)
  <2>1. exec' = exec
    BY <1>3 DEF ReadCancel
  <2>2. QED
    BY <1>1, <1>2, <1>3, <2>1 DEF Through
<1>4. CASE \E c \in Copies : Registered(t, c)
  <2>1. PICK c \in Copies : Registered(t, c) /\ \E pc \in Cancelled(t, c) : Step(t, c, pc)
    BY <1>4 DEF ReadCancel
  <2>2. PICK pc \in {"spend", "idle"} : exec' = [exec EXCEPT ![t][c] = pc]
    BY <2>1 DEF Cancelled, Step
  <2>3. exec'[t][c] = pc /\ \A d \in Copies : d # c => exec'[t][d] = exec[t][d]
    BY <2>2 DEF TypeOK
  <2>4. \A d \in Copies : d # c => exec[t][d] = "idle"
    BY <2>1 DEF OneAtATime, Registered
  <2>5. QED
    BY <1>1, <2>3, <2>4 DEF Through
<1>5. QED
  BY <1>3, <1>4

LEMMA PollCancel ==
    ASSUME TypeOK, OneAtATime, CancelInv, NEW w \in Workers, Poll(w)
    PROVE  CancelInv'
<1> DEFINE m == Head(stream[w])
<1>1. /\ stream[w] # <<>> /\ stream' = [stream EXCEPT ![w] = Tail(@)]
      /\ row' = row /\ call' = call
  BY DEF Poll
<1>2. PICK t \in Tasks : t = m.task /\ m.copy \in Copies /\ Mentions(w, t)
  BY <1>1, HeadType, TailMentions
<1>4. ReadExecute(m) \/ ReadCancel(m)
  BY DEF Poll
<1> HIDE DEF m
<1>3. ASSUME NEW u \in Tasks, NEW v \in Workers
      PROVE  /\ Mentions(v, u)' => Mentions(v, u)
             /\ Cancels(v, u)' => Cancels(v, u)
             /\ Last(v, u)'
  BY <1>1, TailMentions, TailOrder DEF CancelInv
<1>5. \A u \in Tasks \ {t} : exec'[u] = exec[u] /\ heard'[u] = heard[u]
  BY <1>2, <1>4 DEF ReadExecute, ReadCancel, Step, TypeOK
<1>6. heard[t] = {} /\ w = row[t].worker
  BY <1>2 DEF CancelInv
<1>7. /\ heard'[t] # {} => call[t].pc = "over" /\ \A v \in Workers : ~Mentions(v, t)'
      /\ \A c \in heard'[t] : exec'[t][c] \in Through
  <2>1. CASE ReadExecute(m)
    BY <1>6, <2>1 DEF ReadExecute
  <2>2. CASE ReadCancel(m)
    <3>1. m.kind = "cancel"
      BY <2>2 DEF ReadCancel
    <3>2. Cancels(w, t) /\ ~Mentions(w, t)'
      BY <1>1, <1>2, <3>1, TailOrder DEF CancelInv, m
    <3>3. call[t].pc = "over" /\ \A v \in Workers : v # w => ~Mentions(v, t)'
      BY <1>3, <1>6, <3>2 DEF CancelInv
    <3>4. QED
      BY <1>2, <2>2, <3>2, <3>3, ReadObeyed
  <2>3. QED
    BY <1>4, <2>1, <2>2
<1>8. ASSUME NEW u \in Tasks
      PROVE  /\ \A v \in Workers : /\ Mentions(v, u)' => v = row'[u].worker /\ call'[u].pc # "find"
                                   /\ Cancels(v, u)' => call'[u].pc = "over"
                                   /\ Last(v, u)'
             /\ heard'[u] # {} => call'[u].pc = "over" /\ \A v \in Workers : ~Mentions(v, u)'
             /\ \A c \in heard'[u] : exec'[u][c] \in Through
  BY <1>1, <1>3, <1>5, <1>7 DEF CancelInv
<1>9. QED
  BY <1>8 DEF CancelInv

LEMMA WorkCancel ==
    ASSUME TypeOK, CancelInv, NEW t \in Tasks, NEW c \in Copies, Works(t, c)
    PROVE  CancelInv'
<1>1. /\ stream' = stream /\ call' = call /\ heard' = heard /\ exec[t][c] # "idle"
      /\ \A u \in Tasks \ {t} : exec'[u] = exec[u]
  BY DEF Works, Claim, ClaimUnheard, Refused, Run, Finish, Spend, Done, Step, TypeOK
<1>2. row' = row \/ \E b : row' = [row EXCEPT ![t].claimed = b]
  BY DEF Works, Claim, ClaimUnheard, Refused, Run, Finish, Spend, Done
<1>3. \A u \in Tasks : row'[u].worker = row[u].worker
  <2>1. ASSUME NEW b, row' = [row EXCEPT ![t].claimed = b]
        PROVE  \A u \in Tasks : row'[u].worker = row[u].worker
    BY <2>1 DEF TypeOK, Rows
  <2>2. QED
    BY <1>2, <2>1
<1>4. \A d \in heard[t] : exec'[t][d] \in Through
  <2>1. ASSUME NEW d \in heard[t]
        PROVE  d \in Copies /\ exec[t][d] \in Through
    BY DEF CancelInv, TypeOK
  <2>2. c \in heard[t] => Spend(t, c) \/ Done(t, c)
    BY <2>1 DEF Through, Works, Claim, ClaimUnheard, Refused, Run, Finish
  <2>3. CASE c \in heard[t]
    <3>1. PICK pc \in {"last", "idle"} : exec' = [exec EXCEPT ![t][c] = pc]
      BY <2>2, <2>3 DEF Spend, Done, Step
    <3>2. exec'[t][c] = pc /\ \A d \in Copies : d # c => exec'[t][d] = exec[t][d]
      BY <3>1 DEF TypeOK
    <3>3. QED
      BY <2>1, <3>2 DEF Through
  <2>4. CASE c \notin heard[t]
    <3>1. \A d \in Copies : d # c => exec'[t][d] = exec[t][d]
      BY DEF Works, Claim, ClaimUnheard, Refused, Run, Finish, Spend, Done, Step, TypeOK
    <3>2. QED
      BY <2>1, <2>4, <3>1
  <2>5. QED
    BY <2>3, <2>4
<1>5. QED
  BY <1>1, <1>3, <1>4 DEF CancelInv, Mentions, Cancels, Last

LEMMA RecordCancel ==
    ASSUME TypeOK, CancelInv, NEW t \in Tasks, NEW c \in Copies, NEW k \in Reports, Records(t, c, k)
    PROVE  CancelInv'
<1>1. UNCHANGED <<stream, call, exec, heard>>
  BY DEF Records, ReportRead, ReportWrite, ReportLost, workVars
<1>2. \/ row' = row
      \/ \E s, b : row' = [row EXCEPT ![t].status = s, ![t].usage = b]
      \/ \E b : row' = [row EXCEPT ![t].usage = b]
  BY DEF Records, ReportRead, ReportWrite, ReportLost
<1>3. \A u \in Tasks : row'[u].worker = row[u].worker
  <2>1. ASSUME NEW x, NEW b, row' = [row EXCEPT ![t].status = x, ![t].usage = b]
        PROVE  \A u \in Tasks : row'[u].worker = row[u].worker
    BY <2>1 DEF TypeOK, Rows
  <2>2. ASSUME NEW b, row' = [row EXCEPT ![t].usage = b]
        PROVE  \A u \in Tasks : row'[u].worker = row[u].worker
    BY <2>2 DEF TypeOK, Rows
  <2>3. QED
    BY <1>2, <2>1, <2>2
<1>4. QED
  BY <1>1, <1>3 DEF CancelInv, Mentions, Cancels, Last

\* A worker that beats, stops, ends or is revoked takes up nothing.
LEMMA HostCancel ==
    ASSUME TypeOK, CancelInv, NEW w \in Workers, Hosting(w), ~Poll(w)
    PROVE  CancelInv'
<1>1. UNCHANGED <<row, call, heard>>
  BY DEF Hosting, Heartbeat, GoesStale, PollLost, Boot, Stop, Exit, Revoke, workVars
<1>2. \A u \in Tasks, c \in Copies : exec[u][c] \in Through => exec'[u][c] \in Through
  <2>1. CASE Stop(w)
    BY <2>1 DEF TypeOK, Stop, Through
  <2>2. CASE Exit(w)
    BY <2>2 DEF TypeOK, Exit, Through
  <2>3. CASE UNCHANGED exec
    BY <2>3
  <2>4. QED
    BY <2>1, <2>2, <2>3 DEF Hosting, Heartbeat, GoesStale, PollLost, Boot, Revoke, workVars
<1>3. ASSUME NEW u \in Tasks, NEW v \in Workers
      PROVE  /\ Mentions(v, u)' => Mentions(v, u)
             /\ Cancels(v, u)' => Cancels(v, u)
             /\ Last(v, u) => Last(v, u)'
  <2>1. CASE PollLost(w)
    BY <2>1, TailMentions, TailOrder DEF PollLost
  <2>2. CASE Revoke(w)
    BY <2>2 DEF Revoke, TypeOK, Mentions, Cancels, Last
  <2>3. CASE UNCHANGED stream
    BY <2>3 DEF Mentions, Cancels, Last
  <2>4. QED
    BY <2>1, <2>2, <2>3 DEF Hosting, Heartbeat, GoesStale, Boot, Stop, Exit
<1>4. \A u \in Tasks : heard[u] \subseteq Copies
  BY DEF TypeOK
<1>5. QED
  BY <1>1, <1>2, <1>3, <1>4 DEF CancelInv

\* CancelObeyed: a worker that has read a task's cancel starts no copy of it and goes on
\* with none but the one the cancel found on its way to _RUNNING_TASKS, however many slots
\* it has and whatever is lost, redelivered, torn, crashes or is revoked (cancel_task and
\* the poll loop of run_once).
THEOREM DispatchCancelObeyed == Spec => []CancelObeyed
<1>1. Init => CancelInv
  BY DEF Init, CancelInv, Mentions, Cancels, Last
<1>2. TypeOK /\ OneAtATime /\ CancelInv /\ [Next]_vars => CancelInv'
  <2> SUFFICES ASSUME TypeOK, OneAtATime, CancelInv, [Next]_vars
               PROVE  CancelInv'
    OBVIOUS
  <2>1. CASE UNCHANGED vars
    BY <2>1 DEF vars, CancelInv, Mentions, Cancels, Last
  <2>2. CASE Next
    BY <2>2, CallerCancel, PollCancel, HostCancel, WorkCancel, RecordCancel DEF Next
  <2>3. QED
    BY <2>1, <2>2
<1>3. CancelInv => CancelObeyed
  BY DEF CancelInv, CancelObeyed, Through
<1>4. QED
  BY <1>1, <1>2, <1>3, DispatchTypes, DispatchOneAtATime, PTL DEF Spec
=============================================================================
