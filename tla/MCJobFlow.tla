----------------------------- MODULE MCJobFlow -----------------------------
(* Small instances of JobFlow for TLC. *)
EXTENDS JobFlow, TLC

CONSTANTS j1, j2, r1, r2

OneJob == {j1}
TwoJobs == {j1, j2}
NoRetry == {}
OneRetry == {r1}
TwoRetries == {r1, r2}
RetrySymmetry == Permutations(TwoRetries)

Reliable == {}
InputsFault == {"inputs"}
RetryableFaults == Writes \ {"update"}
AnyFault == Writes
=============================================================================
