----------------------------- MODULE MCSessions -----------------------------
(* Instances of Sessions: two concurrent requests, the sweeper and main.   *)
EXTENDS Sessions, TLC

CONSTANTS k1, k2, i1, i2, d1

\* Requests, and session ids, are interchangeable.
MCSymmetry == Permutations(Client) \cup Permutations(Id)
=============================================================================
