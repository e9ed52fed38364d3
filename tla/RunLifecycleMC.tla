--------------------------- MODULE RunLifecycleMC ---------------------------
(***************************************************************************)
(* Small instances of RunLifecycle for TLC.                                *)
(***************************************************************************)
EXTENDS RunLifecycle, TLC

CONSTANTS p1, p2, m1, m2

AllOps == Ops \ {"idle"}

FounderOps == {"cancel", "retry", "resume"}

\* Two machines: both processes may drive at once.
TwoMachines == (p1 :> m1) @@ (p2 :> m2)
=============================================================================
