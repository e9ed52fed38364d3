----------------------------- MODULE DeliveryMC -----------------------------
(***************************************************************************)
(* Small instances of Delivery for TLC, and the properties that only runs   *)
(* check.                                                                   *)
(***************************************************************************)
EXTENDS Delivery, TLC

CONSTANTS r1, d1, d2, w1, w2, s1, s2

OneRun  == [d \in Dels |-> r1]
WorkersAlike == Permutations({w1, w2})

-----------------------------------------------------------------------------
(* Liveness, under FairSpec.                                                *)

\* A delivery event does not stay forever, however its dispatch goes: it is sent, held,
\* answered for, or dropped at max_attempts.
EventsDrain == \A e \in Events : e \in event ~> e \notin event

\* "Neither the order of the two moments nor a race between their sessions can strand a
\* run": a finished Remote run with its output out and nothing waiting does not stay so.
Stranded(r) == status[r] = "review_ready" /\ ShipsNow(r, event)
DeliveredShips == \A r \in Runs : Stranded(r) ~> ~Stranded(r)

=============================================================================
