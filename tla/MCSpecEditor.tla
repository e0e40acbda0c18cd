---------------------------- MODULE MCSpecEditor ----------------------------
EXTENDS SpecEditor
CONSTANTS r1, r2, f1, f2, p1, p2
Name == {<<"a">>}
EditorSymmetry == Permutations({r1, r2}) \cup Permutations({f1, f2}) \cup Permutations({p1, p2})
=============================================================================
