---------------------------- MODULE MCExportQueue ----------------------------
(* Small instances of the export queue, and of the build queue in as far   *)
(* as its jobs must end. The two share no state, so every interleaving of  *)
(* them is one of each: a behaviour follows the one that "focus" says.     *)
EXTENDS ExportQueue, TLC

CONSTANTS w1, w2, a, b

VARIABLES focus, buildHead, buildJob, buildWorker, build, buildSpent, buildLost, unpointed

buildVars == <<buildHead, buildJob, buildWorker, build, buildSpent, buildLost, unpointed>>

\* One database fault, one crash and one shutdown in a behaviour.
Faults == [k \in {"db", "crash", "stop"} |-> 1]

\* One worker, one revision, one fault of each kind; Cloud may settle nothing.
Builds == INSTANCE BuildQueue
    WITH Workers <- {w1}, LastRev <- 1, Endings <- {"succeeded", "timed_out"},
         Budget <- [k \in {"db", "exit"} |-> 1],
         head <- buildHead, job <- buildJob, worker <- buildWorker, spent <- buildSpent,
         lost <- buildLost

\* BuildQueue's property, under this run's names.
BuildJobsEnd == Builds!JobsEnd

ExportStep(A) == focus = "export" /\ A /\ UNCHANGED <<focus, buildVars>>
BuildStep(A)  == focus = "build" /\ A /\ UNCHANGED <<focus, vars>>

Both   == Init /\ Builds!Init /\ focus \in {"export", "build"}
Either == ExportStep(Next) \/ BuildStep(Builds!Next)

FairQueues ==
    /\ Both /\ [][Either]_<<focus, vars, buildVars>>
    /\ \A w \in Workers : WF_<<focus, vars, buildVars>>(ExportStep(Work(w)))
    /\ WF_<<focus, vars, buildVars>>(BuildStep(Builds!Work(w1)))
=============================================================================
