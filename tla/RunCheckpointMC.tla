--------------------------- MODULE RunCheckpointMC ---------------------------
(***************************************************************************)
(* Small instances of RunCheckpoint for TLC.                                *)
(***************************************************************************)
EXTENDS RunCheckpoint, TLC

CONSTANTS a, b, none, e1, e2

MachinesAlike == Permutations(Machines) \union Permutations(Edits)
=============================================================================
