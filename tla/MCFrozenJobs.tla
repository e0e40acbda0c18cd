----------------------------- MODULE MCFrozenJobs -----------------------------
(* A small instance of the revision store with the jobs made from it.      *)
EXTENDS FrozenJobs, TLC

CONSTANTS p1, p2, q1, q2, q3, r1, r2, r3

NoLinks  == {}
PruneOps == {"submit", "read"}
=============================================================================
