----------------------------- MODULE ExportQueue -----------------------------
(***************************************************************************)
(* Exporting a project to GitHub: the export_jobs table (exportjob), the   *)
(* workers that drain it (exportworker), the export they run (ghexport)    *)
(* and the repositories of one GitHub account as the client's calls        *)
(* (githubexport) see them.  Every call can fail, and a call to GitHub can *)
(* take effect although its answer is lost.  Workers may be shut down      *)
(* while exporting, and processes may die.                                 *)
(***************************************************************************)
EXTENDS Naturals

CONSTANTS
    Jobs,        \* job ids, in the order of the id sequence
    Workers,     \* one worker per server process
    Names,       \* repository names of the account
    LastRev,     \* the project's head moves from revision 1 to LastRev
    Budget       \* bounds on faults: ["db" | "crash" | "stop" -> Nat]

ASSUME ExportAssumption ==
    /\ Jobs \subseteq Nat \ {0}
    /\ LastRev \in Nat \ {0}
    /\ Budget \in [{"db", "crash", "stop"} -> Nat]

VARIABLES
    head,      \* the project's head revision
    job,       \* export_jobs rows
    worker,    \* each worker's Run loop
    repo,      \* the account's repositories, by name
    spent,     \* how much of Budget has been used
    lost,      \* history: jobs whose worker could not record an outcome
    orphans    \* history: jobs whose repository could not be known or removed

github == <<repo, orphans>>
vars   == <<head, job, worker, repo, spent, lost, orphans>>

Revs   == 1 .. LastRev
NoJob  == 0
Empty  == 0                             \* a repository with no commit
NoRepo == [maker |-> NoJob, content |-> Empty]

JobRow  == [status : {"none", "queued", "running", "succeeded", "failed"},
            rev : Revs \cup {0}, name : Names \cup {"none"}]
PCs     == {"idle", "claim", "load", "token", "create", "assemble", "push", "ref",
            "rollback", "succeed", "fail", "gone"}
Context == [pc : PCs, job : Jobs \cup {NoJob}, rev : Revs \cup {0}, stopping : BOOLEAN]

Idle == [pc |-> "idle", job |-> NoJob, rev |-> 0, stopping |-> FALSE]

Spend(kind) ==
    /\ spent[kind] < Budget[kind]
    /\ spent' = [spent EXCEPT ![kind] = spent[kind] + 1]

At(w, pc)   == worker[w].pc = pc
Goto(w, pc) == worker' = [worker EXCEPT ![w].pc = pc]
Row(w)      == job[worker[w].job]

\* RunOnce is over; Run looks at its context before it claims again.
Looped(w) == [worker EXCEPT ![w] = IF worker[w].stopping
                                   THEN [Idle EXCEPT !.pc = "gone"] ELSE Idle]

Init ==
    /\ head = 1
    /\ job = [j \in Jobs |-> [status |-> "none", rev |-> 0, name |-> "none"]]
    /\ worker = [w \in Workers |-> Idle]
    /\ repo = [n \in Names |-> NoRepo]
    /\ spent = [k \in DOMAIN Budget |-> 0]
    /\ lost = {} /\ orphans = {}

-----------------------------------------------------------------------------
(* The HTTP side.                                                          *)

MoveHead ==
    /\ head < LastRev
    /\ head' = head + 1
    /\ UNCHANGED <<job, worker, repo, spent, lost, orphans>>

(* create: the job freezes the revision that was the head when the handler *)
(* looked, some statements before it inserts the row.                      *)
Enqueue(j, n) ==
    /\ job[j].status = "none"
    /\ \A i \in Jobs : i < j => job[i].status # "none"
    /\ \E seen \in 1 .. head :
          job' = [job EXCEPT ![j] = [status |-> "queued", rev |-> seen, name |-> n]]
    /\ UNCHANGED <<head, worker, repo, spent, lost, orphans>>

-----------------------------------------------------------------------------
(* Claiming.                                                               *)

\* Row locks are held by the claims that have not committed.
Locked == {worker[w].job : w \in {v \in Workers : At(v, "claim")}}
Claimable == {j \in Jobs : job[j].status = "queued" /\ j \notin Locked}

\* Mutation: no SKIP LOCKED and no lock, the oldest queued row is just read.
LockOldestWithoutLock(w) ==
    /\ At(w, "idle") /\ ~worker[w].stopping
    /\ \E j \in Jobs : /\ job[j].status = "queued"
                      /\ worker' = [worker EXCEPT ![w].pc = "claim", ![w].job = j]
    /\ UNCHANGED <<head, job, spent, lost, github>>

(* SELECT ... FOR UPDATE SKIP LOCKED ... ORDER BY id LIMIT 1.              *)
LockOldest(w) ==
    /\ At(w, "idle") /\ ~worker[w].stopping
    /\ \E j \in Claimable : /\ \A i \in Claimable : j <= i
                           /\ worker' = [worker EXCEPT ![w].pc = "claim", ![w].job = j]
    /\ UNCHANGED <<head, job, spent, lost, github>>

(* Nothing to claim: Run waits for its next tick.                          *)
Poll(w) ==
    /\ At(w, "idle") /\ Claimable = {}
    /\ UNCHANGED vars

CommitClaim(w) ==
    /\ At(w, "claim")
    /\ job' = [job EXCEPT ![worker[w].job].status = "running"]
    /\ Goto(w, "load")
    /\ UNCHANGED <<head, spent, lost, github>>

(* The claim fails: rolled back, or committed with the answer lost, which  *)
(* leaves a running job nobody runs.                                       *)
ClaimError(w) ==
    /\ At(w, "claim") /\ Spend("db")
    /\ worker' = Looped(w)
    /\ \/ UNCHANGED <<job, lost>>
       \/ /\ job' = [job EXCEPT ![worker[w].job].status = "running"]
          /\ lost' = lost \cup {worker[w].job}
    /\ UNCHANGED <<head, github>>

-----------------------------------------------------------------------------
(* process and ExportSpec.  A cancelled context fails every call made      *)
(* under it; only the rollback and the Mark* writes detach from it.        *)

\* Mutation: the spec that is loaded is the project's head (Export, not ExportSpec).
LoadHeadRevision(w) ==
    /\ At(w, "load")
    /\ worker' = [worker EXCEPT ![w].pc = "token", ![w].rev = head]
    /\ UNCHANGED <<head, job, spent, lost, github>>

\* Mutation: an error loading the revision is logged and the job dropped.
LoadOrDrop(w) ==
    /\ At(w, "load")
    /\ \/ worker' = [worker EXCEPT ![w].pc = "token", ![w].rev = Row(w).rev]
       \/ worker' = Looped(w)
    /\ UNCHANGED <<head, job, spent, lost, github>>

LoadRevision(w) ==
    /\ At(w, "load")
    /\ \/ /\ ~worker[w].stopping
          /\ worker' = [worker EXCEPT ![w].pc = "token", ![w].rev = Row(w).rev]
       \/ Goto(w, "fail")
    /\ UNCHANGED <<head, job, spent, lost, github>>

LoadToken(w) ==
    /\ At(w, "token")
    /\ \/ ~worker[w].stopping /\ Goto(w, "create")
       \/ Goto(w, "fail")
    /\ UNCHANGED <<head, job, spent, lost, github>>

\* Mutation: a failed create is rolled back too.
CreateRepositoryRollingBack(w) ==
    LET n == Row(w).name IN
    /\ At(w, "create")
    /\ IF repo[n] = NoRepo
       THEN /\ repo' = [repo EXCEPT ![n] = [maker |-> worker[w].job, content |-> Empty]]
            /\ Goto(w, "assemble")
       ELSE UNCHANGED repo /\ Goto(w, "rollback")
    /\ UNCHANGED <<head, job, spent, lost, orphans>>

(* The repository is created; or nothing is (the name is taken, an error); *)
(* or it is and the answer is lost.  An error fails the job without a      *)
(* rollback: the name may be somebody else's.                              *)
CreateRepository(w) ==
    LET n == Row(w).name
        j == worker[w].job
        created == repo' = [repo EXCEPT ![n] = [maker |-> j, content |-> Empty]]
    IN
    /\ At(w, "create")
    /\ \/ /\ repo[n] = NoRepo /\ ~worker[w].stopping /\ created
          /\ Goto(w, "assemble") /\ UNCHANGED orphans
       \/ /\ repo[n] = NoRepo /\ created
          /\ Goto(w, "fail") /\ orphans' = orphans \cup {j}
       \/ Goto(w, "fail") /\ UNCHANGED <<repo, orphans>>
    /\ UNCHANGED <<head, job, spent, lost>>

\* Mutation: a failed assembly returns without rolling the repository back.
AssembleWithoutRollback(w) ==
    /\ At(w, "assemble")
    /\ \/ ~worker[w].stopping /\ Goto(w, "push")
       \/ Goto(w, "fail")
    /\ UNCHANGED <<head, job, spent, lost, github>>

(* BuildApplicationSource, after the repository exists.                    *)
Assemble(w) ==
    /\ At(w, "assemble")
    /\ \/ ~worker[w].stopping /\ Goto(w, "push")
       \/ Goto(w, "rollback")
    /\ UNCHANGED <<head, job, spent, lost, github>>

(* PushFiles up to the commit object: nothing a reader of the repository   *)
(* sees.                                                                   *)
PushObjects(w) ==
    /\ At(w, "push")
    /\ \/ ~worker[w].stopping /\ Goto(w, "ref")
       \/ Goto(w, "rollback")
    /\ UNCHANGED <<head, job, spent, lost, github>>

(* The branch ref publishes the tree.                                      *)
CreateRef(w) ==
    LET n == Row(w).name
        published == repo' = [repo EXCEPT ![n].content = worker[w].rev]
    IN
    /\ At(w, "ref")
    /\ \/ ~worker[w].stopping /\ published /\ Goto(w, "succeed")
       \/ published /\ Goto(w, "rollback")
       \/ UNCHANGED repo /\ Goto(w, "rollback")
    /\ UNCHANGED <<head, job, spent, lost, orphans>>

(* rollback: best effort, on a context of its own; it deletes by name.     *)
Rollback(w) ==
    LET n == Row(w).name IN
    /\ At(w, "rollback")
    /\ Goto(w, "fail")
    /\ \/ repo' = [repo EXCEPT ![n] = NoRepo] /\ UNCHANGED orphans
       \/ UNCHANGED repo /\ orphans' = orphans \cup {worker[w].job}
    /\ UNCHANGED <<head, job, spent, lost>>

-----------------------------------------------------------------------------
(* Recording the outcome.                                                  *)

Finished(w) == IF At(w, "succeed") THEN "succeeded" ELSE "failed"

\* Mutation: the outcome is written under the job's own context.
FinishUnderJobContext(w) ==
    /\ worker[w].pc \in {"succeed", "fail"}
    /\ job' = IF worker[w].stopping THEN job
              ELSE [job EXCEPT ![worker[w].job].status = Finished(w)]
    /\ worker' = Looped(w)
    /\ UNCHANGED <<head, spent, lost, github>>

(* finish: UPDATE ... WHERE status = 'running'; the detached context gives *)
(* the write a chance during shutdown too.                                 *)
Finish(w) ==
    /\ worker[w].pc \in {"succeed", "fail"}
    /\ job' = IF Row(w).status = "running"
              THEN [job EXCEPT ![worker[w].job].status = Finished(w)] ELSE job
    /\ worker' = Looped(w)
    /\ UNCHANGED <<head, spent, lost, github>>

(* The write fails: it is logged, and the job stays as it is.              *)
FinishError(w) ==
    /\ worker[w].pc \in {"succeed", "fail"} /\ Spend("db")
    /\ lost' = lost \cup {worker[w].job}
    /\ worker' = Looped(w)
    /\ UNCHANGED <<head, job, github>>

-----------------------------------------------------------------------------
(* Shutdown and crashes.                                                   *)

(* stopWorker cancels the context; an idle worker returns at once.         *)
Stop(w) ==
    /\ ~worker[w].stopping /\ ~At(w, "gone") /\ Spend("stop")
    /\ worker' = IF At(w, "idle") THEN [worker EXCEPT ![w].pc = "gone"]
                 ELSE [worker EXCEPT ![w].stopping = TRUE]
    /\ UNCHANGED <<head, job, lost, github>>

\* The process ends with the job in hand; a claim that was open rolls back.
Die(w) ==
    /\ worker' = [worker EXCEPT ![w] = [Idle EXCEPT !.pc = "gone"]]
    /\ lost' = IF worker[w].pc \in {"idle", "claim"} THEN lost
               ELSE lost \cup {worker[w].job}
    /\ UNCHANGED <<head, job, github>>

(* stopWorker gives up waiting after ten seconds and the server exits.     *)
Abandon(w) ==
    /\ worker[w].stopping
    /\ Die(w) /\ UNCHANGED spent

Crash(w) == ~At(w, "gone") /\ Spend("crash") /\ Die(w)

(* A new server process; nothing looks for jobs its predecessor left.      *)
Restart(w) ==
    /\ At(w, "gone")
    /\ worker' = [worker EXCEPT ![w] = Idle]
    /\ UNCHANGED <<head, job, spent, lost, github>>

-----------------------------------------------------------------------------
Work(w) ==
    \/ LockOldest(w) \/ CommitClaim(w) \/ LoadRevision(w) \/ LoadToken(w)
    \/ CreateRepository(w) \/ Assemble(w) \/ PushObjects(w) \/ CreateRef(w)
    \/ Rollback(w) \/ Finish(w) \/ Restart(w)

Next ==
    \/ MoveHead
    \/ \E j \in Jobs, n \in Names : Enqueue(j, n)
    \/ \E w \in Workers : \/ Work(w) \/ Poll(w) \/ ClaimError(w) \/ FinishError(w)
                          \/ Stop(w) \/ Abandon(w) \/ Crash(w)

Spec == Init /\ [][Next]_vars

(* Every call has a timeout, Run polls for ever, and a server that stopped *)
(* is started again: a worker that can go on does.                         *)
Fairness == \A w \in Workers : WF_vars(Work(w))

FairSpec == Spec /\ Fairness

-----------------------------------------------------------------------------
(* Properties.                                                             *)

TypeOK ==
    /\ head \in Revs
    /\ job \in [Jobs -> JobRow]
    /\ worker \in [Workers -> Context]
    /\ repo \in [Names -> [maker : Jobs \cup {NoJob}, content : Revs \cup {Empty}]]
    /\ spent \in [{"db", "crash", "stop"} -> Nat]
    /\ lost \subseteq Jobs /\ orphans \subseteq Jobs

Busy(w)     == worker[w].pc \notin {"idle", "gone"}
Working(w)  == Busy(w) /\ ~At(w, "claim")
Terminal(j) == job[j].status \in {"succeeded", "failed"}

(* Concurrent workers never have the same job, not even while claiming it,  *)
(* and a worker at work has a job that is marked running.                   *)
ExclusiveJobs ==
    \A w \in Workers :
        /\ \A v \in Workers \ {w} : Busy(w) /\ Busy(v) => worker[w].job # worker[v].job
        /\ Working(w) => Row(w).status = "running"

(* A job that is running is being run, unless its worker's process died or  *)
(* the database refused the write: a shutdown in the middle of an export    *)
(* does not by itself strand the job.                                       *)
RunningIsRun ==
    \A j \in Jobs \ lost : job[j].status = "running" =>
        \E w \in Workers : Working(w) /\ worker[w].job = j

(* A claimed job and its worker belong to each other.                       *)
Ownership == ExclusiveJobs /\ RunningIsRun

(* A succeeded job's repository holds the revision frozen at enqueue,       *)
(* however the head moved, and nobody else's rollback removed it.           *)
SucceededHoldsFrozenRevision ==
    \A j \in Jobs : job[j].status = "succeeded" =>
        repo[job[j].name] = [maker |-> j, content |-> job[j].rev]

(* A failed export leaves no repository behind, so the name is free for a   *)
(* retry, unless GitHub hid that it created one or refused to delete it.    *)
FailedLeavesNothing ==
    \A j \in Jobs \ orphans, n \in Names :
        job[j].status = "failed" => repo[n].maker # j

(* A repository is deleted only for the running job that created it.        *)
RollbackDeletesOwn ==
    [][\A n \in Names : repo[n] # NoRepo /\ repo'[n] = NoRepo =>
          \E w \in Workers : At(w, "rollback") /\ worker[w].job = repo[n].maker]_vars

(* The queue keeps the lifecycle it promises.                               *)
Lifecycle == INSTANCE JobLifecycle WITH status <- [j \in Jobs |-> job[j].status]
LifecycleSpec == Lifecycle!Spec

(* A queued job is claimed, and a claimed job ends, unless its worker was   *)
(* lost: no failing call, shutdown or restart starves the queue.            *)
JobsEnd ==
    \A j \in Jobs : job[j].status = "queued" ~> (Terminal(j) \/ j \in lost)
=============================================================================
