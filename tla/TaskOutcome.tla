----------------------------- MODULE TaskOutcome -----------------------------
(***************************************************************************)
(* What an executor task promises its caller: it settles at most once, and  *)
(* a caller that is told how it settled is told the truth.  A caller may    *)
(* also give up, before or after the task settles.  TaskDispatch, the       *)
(* detailed specification, implements this when a result report is not      *)
(* interrupted between its read and its write.                              *)
(***************************************************************************)
CONSTANT Tasks

VARIABLES
    result,   \* [Tasks]: how the task stands
    told      \* [Tasks]: what its caller was told

OutcomeInit == /\ result = [t \in Tasks |-> "pending"]
               /\ told = [t \in Tasks |-> "nothing"]

Settles(t) ==
    \/ result'[t] = result[t]
    \/ result[t] = "pending"    /\ result'[t] = "dispatched"
    \/ result[t] = "dispatched" /\ result'[t] \in {"done", "failed"}

Tells(t) ==
    \/ told'[t] = told[t]
    \/ /\ told[t] = "nothing"
       /\ \/ told'[t] = "gave up"
          \/ told'[t] = result[t] /\ result[t] \in {"done", "failed"}

OutcomeStep == \A t \in Tasks : Settles(t) /\ Tells(t)

OutcomeSpec == OutcomeInit /\ [][OutcomeStep]_<<result, told>>
=============================================================================
