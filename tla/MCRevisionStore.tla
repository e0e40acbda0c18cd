--------------------------- MODULE MCRevisionStore ---------------------------
(* A small instance of the revision store.                                 *)
EXTENDS RevisionStore, TLC

CONSTANTS p1, p2, q1, q2, q3, r1, r2, r3

OneLink   == {<<r1, r2>>}
StoreSymmetry == Permutations(Requests) \cup Permutations(Projects)
=============================================================================
