--------------------------- MODULE TaskDispatchMC ---------------------------
(***************************************************************************)
(* Small instances of TaskDispatch for TLC, and the properties that only    *)
(* runs check.                                                              *)
(***************************************************************************)
EXTENDS TaskDispatch, TLC

CONSTANTS t1, w1

Unpinned == [t \in Tasks |-> NoWorker]
Pinned   == [t \in Tasks |-> w1]

\* Bounds on what goes wrong in one run.
UnstoppedFaults == FaultKinds \ {"stop", "revoke"}
OrderlyFaults   == FaultKinds \ {"torn", "phantom"}

-----------------------------------------------------------------------------
(* Liveness, under FairSpec.                                                *)

\* Every dispatched call ends, whatever the worker does or fails to do: answered,
\* failed or timed out (await_completion's deadline).
CallsEnd == \A t \in Tasks : call[t].pc # "find" ~> call[t].pc = "over"

\* Every slot a worker fills is freed again, however the turn and its POST go, so
\* that a full worker polls again (the dispatched deadline of handle_task and the
\* HTTP client's timeout).
SlotsFree == \A t \in Tasks, c \in Copies : exec[t][c] # "idle" ~> exec[t][c] = "idle"

=============================================================================
