------------------------------ MODULE IntakeMC ------------------------------
(***************************************************************************)
(* Small instances of Intake for TLC, and the properties that only runs     *)
(* check.                                                                   *)
(***************************************************************************)
EXTENDS Intake, TLC

CONSTANTS h1, h2, o1

HooksAlike == Permutations(Hooks)

-----------------------------------------------------------------------------
(* Liveness, under FairSpec.                                                *)

\* Nothing that was accepted is forgotten: every event becomes a Request or is set aside
\* with a reason, the parked ones too once runs give their slots back, and rows that never
\* get a Request do not fill the worker's window.
EventsSettle ==
    \A t \in Triggers :
        row[t] \in {"new", "held"} ~> (req[t] # "none" \/ row[t] \in Closed)

\* Every window that comes while the schedule is on is fired, also the ones that were
\* missed while the worker was down or the schedule was off.
WindowsFire == \A w \in Windows : row[w] = "due" ~> (row[w] # "due" \/ sched.state # "on")
=============================================================================
