---------------------------- MODULE MCInvitations ----------------------------
(* Small instances of the invitations.                                     *)
EXTENDS Invitations, TLC

CONSTANTS o1, o2, u1, u2, u3, q1, q2, q3

\* An organization with an owner and an admin; the third user is outside
\* and founds the other one.
Staffed == {<<o1, u1, "owner">>, <<o1, u2, "admin">>}
\* Requests are interchangeable.
RequestSymmetry == Permutations(Requests)
=============================================================================
