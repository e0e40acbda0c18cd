----------------------------- MODULE MCWorkspace -----------------------------
(* A small project directory.                                              *)
EXTENDS Workspace, TLC

CONSTANTS n1, n2

\* gen.GeneratedRoot and gen.FrontendRoot.
TwoRoots == <<"backend", "frontend">>
\* The second version has no page left, so nothing under the frontend root.
FilesOf(v, r) == IF v = 2 /\ r = "frontend" THEN {} ELSE {1}
\* With two files a tree that is not whole need not be empty.
TwoFilesOf(v, r) == IF v = 2 /\ r = "frontend" THEN {} ELSE {1, 2}
NameSymmetry == Permutations({n1, n2})
=============================================================================
