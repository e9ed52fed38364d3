------------------------------ MODULE RunStatus ------------------------------
(***************************************************************************)
(* What a run's status may do, whoever writes it: the transition table of   *)
(* backend/workflow/application/run_status.py.  SHIPPED is final; FAILED    *)
(* and CANCELLED leave only to OPEN; the other statuses may move anywhere.  *)
(* RunLifecycle, the detailed specification, is shown to implement Spec.    *)
(***************************************************************************)
CONSTANT Runs

VARIABLE status

\* RunStatus of infrastructure/db.py, plus "absent" for a run not opened yet.
Statuses == {"open", "running", "review_ready", "shipped", "failed", "cancelled"}
Terminal == {"shipped", "failed", "cancelled"}

\* _EXITS_FROM_CLOSED / is_allowed_move
is_allowed_move(from, to) ==
    /\ from # "shipped"
    /\ from \in {"failed", "cancelled"} => to = "open"

TableInit == status = [r \in Runs |-> "absent"]

\* Bulk releases move several runs in one transaction.
TableStep ==
    /\ status' \in [Runs -> Statuses \union {"absent"}]
    /\ \A r \in Runs : \/ status'[r] = status[r]
                       \/ status[r] = "absent" /\ status'[r] = "open"
                       \/ /\ status[r] # "absent" /\ status'[r] # "absent"
                          /\ is_allowed_move(status[r], status'[r])

TableSpec == TableInit /\ [][TableStep]_status
=============================================================================
