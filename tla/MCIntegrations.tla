--------------------------- MODULE MCIntegrations ---------------------------
(* What the control plane does with Cloud and with GitHub for a user. The  *)
(* two share no state, so every interleaving of them is one of each: a     *)
(* behaviour follows the one that "focus" says.                            *)
EXTENDS CloudEnvironments, GitHubConnect, TLC

CONSTANTS u1, u2, p1, p2, q1, q2, c1, c2

VARIABLE focus

\* A name a caller may choose that Forge would give to the preview of revision 1.
ChosenNames == {PreviewName(1)}

Both == Init /\ ConnectInit /\ focus \in {"cloud", "github"}
Either ==
    /\ UNCHANGED focus
    /\ \/ focus = "cloud" /\ Next /\ UNCHANGED connectVars
       \/ focus = "github" /\ ConnectNext /\ UNCHANGED cloudVars
IntegrationSpec == Both /\ [][Either]_<<focus, cloudVars, connectVars>>
Symmetric == Permutations({q1, q2}) \cup Permutations({p1, p2})
=============================================================================
