---------------------------- MODULE MergeWatchMC ----------------------------
(***************************************************************************)
(* Small instances of MergeWatch for TLC, and the properties that only runs *)
(* check.                                                                   *)
(***************************************************************************)
EXTENDS MergeWatch, TLC

CONSTANTS w1, w2

PollersAlike == Permutations(Pollers)

-----------------------------------------------------------------------------
(* Liveness, under FairSpec.                                                *)

\* No pull request is watched for ever: red CI, conflicts, lost callbacks and runs that
\* fail all end in a merge, in a founder who knows, or in a run that waits for the founder
\* ("never wait indefinitely").
WatchEnds == row.status \in Live ~> (row.status \notin Live \/ run = "paused" \/ card)

\* A PR that is merged or closed while it is watched does not leave its run waiting,
\* unless its GitHub target is gone or the watch had given up and nobody looks after the
\* horizon.  Checked without faults and answers: a report that raises is swallowed, and a
\* poll that still holds the row as failed puts a revived watch to rest.
RunHears ==
    (pr.state # "open" /\ row.status \in Live) ~> (run \in Over \/ ~target \/ row.age = "old")
=============================================================================
