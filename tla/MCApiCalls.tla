----------------------------- MODULE MCApiCalls -----------------------------
(* Instance of ApiCalls: two threads, two devices found and two opened.    *)
EXTENDS ApiCalls, TLC

CONSTANTS p1, p2, n1, n2, d1, d2
TwoThreads == {p1, p2}
TwoNames == {n1, n2}
TwoDevices == {d1, d2}

\* Threads, names and devices are not told apart by anything in the module.
Symmetry == Permutations(TwoThreads) \cup Permutations(TwoNames) \cup Permutations(TwoDevices)
=============================================================================
