----------------------------- MODULE MCBuildQueue -----------------------------
(* Small instances of the build queue.                                     *)
EXTENDS BuildQueue, TLC

CONSTANTS w1, w2

\* One database fault, and one crash or shutdown, in a behaviour.
Faults == [k \in {"db", "exit"} |-> 1]
\* Workers are interchangeable.
WorkerSymmetry == Permutations({w1, w2})
\* No database fault, no crash, no shutdown: only Cloud's own errors.
NoFaults == [k \in {"db", "exit"} |-> 0]
=============================================================================
