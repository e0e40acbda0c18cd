------------------------------ MODULE BuildQueue ------------------------------
(***************************************************************************)
(* Building a project on Gombit Cloud: the build_jobs table (cloudbuild),  *)
(* the workers that drain it (buildworker) and Cloud's builds as the       *)
(* client's calls (cloudclient) see them.  A worker creates a Cloud build, *)
(* records its id, uploads the source, which starts it, and then polls it  *)
(* to a terminal status while reflecting what it sees on the job.  A job   *)
(* is claimed once and creates at most one build, so builds are named by   *)
(* their jobs.                                                             *)
(***************************************************************************)
EXTENDS Naturals

CONSTANTS
    Jobs,        \* job ids, in the order of the id sequence
    Workers,     \* one worker per server process
    LastRev,     \* the project's head moves from revision 1 to LastRev
    Endings,     \* the terminal statuses Cloud gives builds
    Budget       \* bounds on faults: ["db" | "exit" -> Nat]

ASSUME BuildAssumption ==
    /\ Jobs \subseteq Nat \ {0}
    /\ LastRev \in Nat \ {0}
    /\ Endings \subseteq {"succeeded", "failed", "cancelled", "timed_out"}
    /\ Budget \in [{"db", "exit"} -> Nat]

VARIABLES
    head,       \* the project's head revision
    job,        \* build_jobs rows
    worker,     \* each worker's Run loop
    build,      \* Cloud's builds
    spent,      \* how much of Budget has been used
    lost,       \* history: jobs whose worker could not record an outcome
    unpointed   \* history: jobs whose build id could not be recorded

vars == <<head, job, worker, build, spent, lost, unpointed>>

Revs  == 1 .. LastRev
NoJob == 0
NoRev == 0

\* cloudTerminal: what the worker takes for a settled build.
CloudTerminal == {"succeeded", "failed", "cancelled", "timed_out"}
CloudStatus   == {"none", "queued", "building"} \cup CloudTerminal

\* "none" is the empty cloud_status column; pointed says cloud_build_id is set.
JobRow  == [status : {"none", "queued", "running", "succeeded", "failed"},
            rev : Revs \cup {NoRev}, pointed : BOOLEAN, cloud : CloudStatus]
Build   == [status : CloudStatus, source : Revs \cup {NoRev}]
PCs     == {"idle", "claim", "load", "assemble", "create", "point", "upload", "track",
            "reflect", "succeed", "fail", "gone"}
Context == [pc : PCs, job : Jobs \cup {NoJob}, rev : Revs \cup {NoRev},
            last : CloudStatus, stopping : BOOLEAN]

Idle == [pc |-> "idle", job |-> NoJob, rev |-> NoRev, last |-> "none", stopping |-> FALSE]

Spend(kind) ==
    /\ spent[kind] < Budget[kind]
    /\ spent' = [spent EXCEPT ![kind] = spent[kind] + 1]

At(w, pc)   == worker[w].pc = pc
Goto(w, pc) == worker' = [worker EXCEPT ![w].pc = pc]
Row(w)      == job[worker[w].job]
BuildOf(w)  == build[worker[w].job]

\* fail: the last Cloud status the worker saw goes into the row with the failure.
Fail(w, last) == worker' = [worker EXCEPT ![w].pc = "fail", ![w].last = last]

\* RunOnce is over; Run looks at its context before it claims again.
Looped(w) == [worker EXCEPT ![w] = IF worker[w].stopping
                                   THEN [Idle EXCEPT !.pc = "gone"] ELSE Idle]

Init ==
    /\ head = 1
    /\ job = [j \in Jobs |-> [status |-> "none", rev |-> NoRev, pointed |-> FALSE,
                              cloud |-> "none"]]
    /\ worker = [w \in Workers |-> Idle]
    /\ build = [j \in Jobs |-> [status |-> "none", source |-> NoRev]]
    /\ spent = [k \in DOMAIN Budget |-> 0]
    /\ lost = {} /\ unpointed = {}

-----------------------------------------------------------------------------
(* The HTTP side and Cloud.                                                *)

MoveHead ==
    /\ head < LastRev
    /\ head' = head + 1
    /\ UNCHANGED <<job, worker, build, spent, lost, unpointed>>

(* deploy: the job freezes the revision that was the head when the handler *)
(* looked, some statements before it inserts the row.                      *)
Enqueue(j) ==
    /\ job[j].status = "none"
    /\ \A i \in Jobs : i < j => job[i].status # "none"
    /\ \E seen \in 1 .. head :
          job' = [job EXCEPT ![j].status = "queued", ![j].rev = seen]
    /\ UNCHANGED <<head, worker, build, spent, lost, unpointed>>

(* Cloud moves a build by itself: a started one to a terminal status, one  *)
(* that never got its source to a failure.                                 *)
CloudSettles(j, status) ==
    /\ \/ build[j].status = "building" /\ status \in Endings
       \/ build[j].status = "queued"   /\ status \in {"cancelled", "timed_out"}
    /\ build' = [build EXCEPT ![j].status = status]
    /\ UNCHANGED <<head, job, worker, spent, lost, unpointed>>

-----------------------------------------------------------------------------
(* Claiming.                                                               *)

\* Row locks are held by the claims that have not committed.
Locked == {worker[w].job : w \in {v \in Workers : At(v, "claim")}}
Claimable == {j \in Jobs : job[j].status = "queued" /\ j \notin Locked}

\* Mutation: no SKIP LOCKED and no lock, a queued row is just read.
LockOldestWithoutLock(w) ==
    /\ At(w, "idle") /\ ~worker[w].stopping
    /\ \E j \in Jobs : /\ job[j].status = "queued"
                       /\ worker' = [worker EXCEPT ![w].pc = "claim", ![w].job = j]
    /\ UNCHANGED <<head, job, build, spent, lost, unpointed>>

(* SELECT ... FOR UPDATE SKIP LOCKED ... ORDER BY id LIMIT 1.              *)
LockOldest(w) ==
    /\ At(w, "idle") /\ ~worker[w].stopping
    /\ \E j \in Claimable : /\ \A i \in Claimable : j <= i
                            /\ worker' = [worker EXCEPT ![w].pc = "claim", ![w].job = j]
    /\ UNCHANGED <<head, job, build, spent, lost, unpointed>>

(* Nothing to claim: Run waits for its next tick.                          *)
Poll(w) ==
    /\ At(w, "idle") /\ Claimable = {}
    /\ UNCHANGED vars

CommitClaim(w) ==
    /\ At(w, "claim")
    /\ job' = [job EXCEPT ![worker[w].job].status = "running"]
    /\ Goto(w, "load")
    /\ UNCHANGED <<head, build, spent, lost, unpointed>>

(* The claim fails: rolled back, or committed with the answer lost, which  *)
(* leaves a running job nobody runs.                                       *)
ClaimError(w) ==
    /\ At(w, "claim") /\ Spend("db")
    /\ worker' = Looped(w)
    /\ \/ UNCHANGED <<job, lost>>
       \/ /\ job' = [job EXCEPT ![worker[w].job].status = "running"]
          /\ lost' = lost \cup {worker[w].job}
    /\ UNCHANGED <<head, build, unpointed>>

-----------------------------------------------------------------------------
(* process.  A cancelled context fails every call made under it; only the  *)
(* Mark* writes detach from it.                                            *)

\* Mutation: the spec that is built is the project's head.
LoadHeadRevision(w) ==
    /\ At(w, "load")
    /\ worker' = [worker EXCEPT ![w].pc = "assemble", ![w].rev = head]
    /\ UNCHANGED <<head, job, build, spent, lost, unpointed>>

LoadRevision(w) ==
    /\ At(w, "load")
    /\ \/ /\ ~worker[w].stopping
          /\ worker' = [worker EXCEPT ![w].pc = "assemble", ![w].rev = Row(w).rev]
       \/ Fail(w, "none")
    /\ UNCHANGED <<head, job, build, spent, lost, unpointed>>

AssembleTarGz(w) ==
    /\ At(w, "assemble")
    /\ \/ ~worker[w].stopping /\ Goto(w, "create")
       \/ Fail(w, "none")
    /\ UNCHANGED <<head, job, build, spent, lost, unpointed>>

\* Mutation: the build's id is not recorded.
CreateBuildUnrecorded(w) ==
    LET j == worker[w].job IN
    /\ At(w, "create")
    /\ build' = [build EXCEPT ![j].status = "queued"]
    /\ Goto(w, "upload")
    /\ UNCHANGED <<head, job, spent, lost, unpointed>>

(* The build is created; or it is not; or it is and the answer is lost, so *)
(* that its id is never known.                                             *)
CreateBuild(w) ==
    LET j == worker[w].job
        created == build' = [build EXCEPT ![j].status = "queued"]
    IN
    /\ At(w, "create")
    /\ \/ ~worker[w].stopping /\ created /\ Goto(w, "point") /\ UNCHANGED unpointed
       \/ created /\ Fail(w, "none") /\ unpointed' = unpointed \cup {j}
       \/ Fail(w, "none") /\ UNCHANGED <<build, unpointed>>
    /\ UNCHANGED <<head, job, spent, lost>>

(* SetCloudBuild: best effort, its error is logged.                        *)
SetCloudBuild(w) ==
    LET j == worker[w].job IN
    /\ At(w, "point")
    /\ Goto(w, "upload")
    /\ \/ /\ ~worker[w].stopping /\ job[j].status = "running"
          /\ job' = [job EXCEPT ![j].pointed = TRUE] /\ UNCHANGED unpointed
       \/ UNCHANGED job /\ unpointed' = unpointed \cup {j}
    /\ UNCHANGED <<head, build, spent, lost>>

(* The upload starts the build; an error, of a build that is no longer     *)
(* queued for one, fails the job with the status the build was created in; *)
(* and the error may hide that the build was started.                      *)
UploadSource(w) ==
    LET j == worker[w].job
        started == build' = [build EXCEPT ![j] = [status |-> "building", source |-> worker[w].rev]]
    IN
    /\ At(w, "upload")
    /\ \/ build[j].status = "queued" /\ ~worker[w].stopping /\ started /\ Goto(w, "track")
       \/ build[j].status = "queued" /\ started /\ Fail(w, "queued")
       \/ UNCHANGED build /\ Fail(w, "queued")
    /\ UNCHANGED <<head, job, spent, lost, unpointed>>

\* Mutation: any settled build counts as a success.
AfterStatusAnySettled(status) ==
    IF status \in CloudTerminal THEN "succeed" ELSE "track"

\* Where an observed status leads.
AfterStatus(status) ==
    IF status = "succeeded" THEN "succeed" ELSE IF status \in CloudTerminal THEN "fail" ELSE "track"

(* track: one GetBuild.  A new status is reflected before it is acted on.  *)
Observe(w) ==
    LET status == BuildOf(w).status IN
    /\ At(w, "track") /\ ~worker[w].stopping
    /\ worker' = [worker EXCEPT ![w].last = status,
                                ![w].pc = IF status # worker[w].last THEN "reflect"
                                          ELSE AfterStatus(status)]
    /\ UNCHANGED <<head, job, build, spent, lost, unpointed>>

(* ReflectCloudStatus: best effort, its error is logged.                   *)
Reflect(w) ==
    LET j == worker[w].job IN
    /\ At(w, "reflect")
    /\ Goto(w, AfterStatus(worker[w].last))
    /\ \/ /\ ~worker[w].stopping /\ job[j].status = "running"
          /\ job' = [job EXCEPT ![j].cloud = worker[w].last]
       \/ UNCHANGED job
    /\ UNCHANGED <<head, build, spent, lost, unpointed>>

\* Mutation: a job whose build cannot be read is left for later.
GiveUpSilently(w) ==
    /\ At(w, "track")
    /\ worker' = Looped(w)
    /\ UNCHANGED <<head, job, build, spent, lost, unpointed>>

\* Mutation: the failure is stored without the last status seen.
GiveUpForgetting(w) ==
    /\ At(w, "track")
    /\ Fail(w, "none")
    /\ UNCHANGED <<head, job, build, spent, lost, unpointed>>

(* track gives up: a GetBuild fails, the deadline passes, or the context   *)
(* is cancelled.                                                           *)
GiveUp(w) ==
    /\ At(w, "track")
    /\ Fail(w, worker[w].last)
    /\ UNCHANGED <<head, job, build, spent, lost, unpointed>>

-----------------------------------------------------------------------------
(* Recording the outcome.                                                  *)

Outcome(w) == IF At(w, "succeed") THEN "succeeded" ELSE "failed"

(* finish: UPDATE ... WHERE status = 'running', on a detached context.     *)
Finish(w) ==
    LET j == worker[w].job IN
    /\ worker[w].pc \in {"succeed", "fail"}
    /\ job' = IF job[j].status = "running"
              THEN [job EXCEPT ![j].status = Outcome(w), ![j].cloud = worker[w].last] ELSE job
    /\ worker' = Looped(w)
    /\ UNCHANGED <<head, build, spent, lost, unpointed>>

(* The write fails: it is logged, and the job stays as it is.              *)
FinishError(w) ==
    /\ worker[w].pc \in {"succeed", "fail"} /\ Spend("db")
    /\ lost' = lost \cup {worker[w].job}
    /\ worker' = Looped(w)
    /\ UNCHANGED <<head, job, build, unpointed>>

-----------------------------------------------------------------------------
(* Shutdown and crashes.                                                   *)

(* stopWorker cancels the context; an idle worker returns at once.         *)
Stop(w) ==
    /\ ~worker[w].stopping /\ ~At(w, "gone") /\ Spend("exit")
    /\ worker' = IF At(w, "idle") THEN [worker EXCEPT ![w].pc = "gone"]
                 ELSE [worker EXCEPT ![w].stopping = TRUE]
    /\ UNCHANGED <<head, job, build, lost, unpointed>>

\* The process ends with the job in hand; a claim that was open rolls back.
Die(w) ==
    LET j == worker[w].job IN
    /\ worker' = [worker EXCEPT ![w] = [Idle EXCEPT !.pc = "gone"]]
    /\ lost' = IF worker[w].pc \in {"idle", "claim"} THEN lost ELSE lost \cup {j}
    /\ unpointed' = IF At(w, "point") THEN unpointed \cup {j} ELSE unpointed
    /\ UNCHANGED <<head, job, build>>

(* stopWorker gives up waiting after ten seconds and the server exits.     *)
Abandon(w) ==
    /\ worker[w].stopping
    /\ Die(w) /\ UNCHANGED spent

Crash(w) == ~At(w, "gone") /\ Spend("exit") /\ Die(w)

\* Mutation: a new server puts running jobs back in the queue.
RestartRequeueing(w) ==
    /\ At(w, "gone")
    /\ worker' = [worker EXCEPT ![w] = Idle]
    /\ job' = [j \in Jobs |-> [job[j] EXCEPT !.status = IF @ = "running" THEN "queued" ELSE @]]
    /\ UNCHANGED <<head, build, spent, lost, unpointed>>

(* A new server process; nothing looks for jobs its predecessor left.      *)
Restart(w) ==
    /\ At(w, "gone")
    /\ worker' = [worker EXCEPT ![w] = Idle]
    /\ UNCHANGED <<head, job, build, spent, lost, unpointed>>

-----------------------------------------------------------------------------
Work(w) ==
    \/ LockOldest(w) \/ CommitClaim(w) \/ LoadRevision(w) \/ AssembleTarGz(w)
    \/ CreateBuild(w) \/ SetCloudBuild(w) \/ UploadSource(w) \/ Observe(w)
    \/ Reflect(w) \/ GiveUp(w) \/ Finish(w) \/ Restart(w)

Next ==
    \/ MoveHead
    \/ \E j \in Jobs : Enqueue(j)
    \/ \E j \in Jobs, s \in Endings : CloudSettles(j, s)
    \/ \E w \in Workers : \/ Work(w) \/ Poll(w) \/ ClaimError(w) \/ FinishError(w)
                          \/ Stop(w) \/ Abandon(w) \/ Crash(w)

Spec == Init /\ [][Next]_vars

(* Every call has a timeout, tracking has a deadline, Run polls for ever,  *)
(* and a server that stopped is started again.  Cloud need not settle.     *)
Fairness == \A w \in Workers : WF_vars(Work(w))

FairSpec == Spec /\ Fairness

-----------------------------------------------------------------------------
(* Properties.                                                             *)

TypeOK ==
    /\ head \in Revs
    /\ job \in [Jobs -> JobRow]
    /\ worker \in [Workers -> Context]
    /\ build \in [Jobs -> Build]
    /\ spent \in [{"db", "exit"} -> Nat]
    /\ lost \subseteq Jobs /\ unpointed \subseteq Jobs

Busy(w)     == worker[w].pc \notin {"idle", "gone"}
Working(w)  == Busy(w) /\ ~At(w, "claim")
Terminal(j) == job[j].status \in {"succeeded", "failed"}

(* Concurrent workers never have the same job, so a job never creates two   *)
(* Cloud builds.                                                            *)
ExclusiveJobs ==
    \A w \in Workers :
        /\ \A v \in Workers \ {w} : Busy(w) /\ Busy(v) => worker[w].job # worker[v].job
        /\ Working(w) => Row(w).status = "running"
        /\ worker[w].pc \in {"claim", "load", "assemble", "create"} => BuildOf(w).status = "none"

(* A running job is being run, unless its worker's process died or the      *)
(* database refused the write.                                              *)
RunningIsRun ==
    \A j \in Jobs \ lost : job[j].status = "running" =>
        \E w \in Workers : Working(w) /\ worker[w].job = j

(* A claimed job and its worker belong to each other.                       *)
Ownership == ExclusiveJobs /\ RunningIsRun

(* A succeeded job's Cloud build succeeded, was recorded as such, and built *)
(* the revision frozen at enqueue, however the head moved.                  *)
SucceededIsCloudSuccess ==
    \A j \in Jobs : job[j].status = "succeeded" =>
        /\ build[j] = [status |-> "succeeded", source |-> job[j].rev]
        /\ job[j].cloud = "succeeded"

(* A build that was started can be found from its job, crashes between any  *)
(* two calls included, unless recording its id was what failed.             *)
StartedIsPointed ==
    \A j \in Jobs \ unpointed : build[j].source # NoRev => job[j].pointed

(* A terminal Cloud status shown on a job is the build's real one: no       *)
(* failure of the worker's own is passed off as Cloud's.                    *)
ReflectedIsReal ==
    \A j \in Jobs : job[j].cloud \in CloudTerminal => job[j].cloud = build[j].status

(* What a job tells of its Cloud build is found there.                      *)
PointerIsTrue == StartedIsPointed /\ ReflectedIsReal

Rank(status) ==
    CASE status = "none" -> 0 [] status = "queued" -> 1 [] status = "building" -> 2 [] OTHER -> 3

(* The Cloud status of a job only moves forward, lost reflections, failed   *)
(* polls and the final write included.                                      *)
ReflectionNeverRegresses ==
    [][\A j \in Jobs : Rank(job[j].cloud) <= Rank(job'[j].cloud)]_vars

(* The queue keeps the lifecycle it promises.                               *)
Lifecycle == INSTANCE JobLifecycle WITH status <- [j \in Jobs |-> job[j].status]
LifecycleSpec == Lifecycle!Spec

(* A queued job ends although Cloud may never settle, unless its worker was *)
(* lost.                                                                    *)
JobsEnd ==
    \A j \in Jobs : job[j].status = "queued" ~> (Terminal(j) \/ j \in lost)

\* The job's worker came to track: the source was uploaded, and not with an error
\* of the upload, which leaves the row at "queued".
Submitted(j) == build[j].source # NoRev /\ job[j].cloud # "queued"

(* models.go: a failed job is one that "failed to assemble/submit, or whose *)
(* Cloud build failed". Of those that were submitted only the second is     *)
(* left.                                                                    *)
FailedMeansCloudDidNotSucceed ==
    \A j \in Jobs : job[j].status = "failed" /\ Submitted(j) => build[j].status # "succeeded"
=============================================================================
