----------------------------- MODULE JobLifecycle -----------------------------
(***************************************************************************)
(* What a job queue of the control plane promises whoever polls a job: it  *)
(* is queued once, claimed at most once, ends at most once, and an ending  *)
(* is final.                                                               *)
(***************************************************************************)
CONSTANT Jobs

VARIABLE status

Init == status = [j \in Jobs |-> "none"]

Moves(j, from, to) == status[j] = from /\ status' = [status EXCEPT ![j] = to]

Enqueue(j) == Moves(j, "none", "queued")
Claim(j)   == Moves(j, "queued", "running")
Finish(j)  == Moves(j, "running", "succeeded") \/ Moves(j, "running", "failed")

Next == \E j \in Jobs : Enqueue(j) \/ Claim(j) \/ Finish(j)

Spec == Init /\ [][Next]_status
=============================================================================
