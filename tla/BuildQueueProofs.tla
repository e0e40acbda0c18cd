--------------------------- MODULE BuildQueueProofs ---------------------------
(***************************************************************************)
(* The safety of the build queue for any jobs, workers, endings and        *)
(* faults, and that it keeps the lifecycle it promises.                    *)
(*                                                                         *)
(* The argument: a job is in one worker's hands, so nobody but Cloud moves *)
(* its build, and Cloud never moves a settled one: what a worker has seen  *)
(* of a settled build stays true until it is recorded.                     *)
(***************************************************************************)
EXTENDS BuildQueue, TLAPS

Loaded  == {"assemble", "create", "point", "upload", "track", "reflect", "succeed"}
Before  == {"claim", "load", "assemble", "create"}
Created == {"point", "upload"}
Started == {"track", "reflect", "succeed"}

Unbuilt(j) == build[j].status = "none" /\ build[j].source = NoRev /\ job[j].cloud = "none"
Findable(j) == job[j].pointed \/ j \in unpointed

\* What a worker knows at each place of process and track.
WorkerOK(w) ==
    LET j == worker[w].job
        pc == worker[w].pc
    IN  /\ worker[w].stopping => Busy(w)
        /\ pc \notin Started \cup {"fail"} => worker[w].last = "none"
        /\ Busy(w) =>
             /\ j \in Jobs
             /\ job[j].status = IF pc = "claim" THEN "queued" ELSE "running"
             /\ pc \in Loaded => worker[w].rev = job[j].rev
             /\ pc \in Before => Unbuilt(j)
             /\ pc \in Created => build[j].source = NoRev /\ job[j].cloud = "none"
             /\ pc \in Created \cup Started => build[j].status # "none"
             /\ pc = "upload" => Findable(j)
             /\ pc \in Started => build[j].source = job[j].rev /\ build[j].status # "queued"
             /\ pc \in Started \cup {"fail"} =>
                   /\ Rank(job[j].cloud) <= Rank(worker[w].last)
                   /\ worker[w].last \in CloudTerminal => worker[w].last = build[j].status
             /\ pc = "succeed" => worker[w].last = "succeeded"

\* What a row says of its build.
JobOK(j) ==
    /\ job[j].status # "none" => job[j].rev \in Revs
    /\ job[j].status \in {"none", "queued"} => Unbuilt(j)
    /\ job[j].status = "succeeded" =>
          /\ build[j] = [status |-> "succeeded", source |-> job[j].rev]
          /\ job[j].cloud = "succeeded"
    /\ build[j].source # NoRev => Findable(j)
    /\ job[j].cloud \in CloudTerminal => job[j].cloud = build[j].status

NoSharing == \A v, w \in Workers : v # w /\ Busy(v) /\ Busy(w) => worker[v].job # worker[w].job

IInv ==
    /\ TypeOK
    /\ NoSharing
    /\ \A w \in Workers : WorkerOK(w)
    /\ \A j \in Jobs : JobOK(j)
    /\ RunningIsRun

-----------------------------------------------------------------------------
(* What the assignments to a worker's record come to.                      *)

Becomes(w, pc, j, rev, last) ==
    /\ worker' \in [Workers -> Context]
    /\ \A v \in Workers \ {w} : worker'[v] = worker[v]
    /\ worker'[w].pc = pc /\ worker'[w].job = j /\ worker'[w].rev = rev
    /\ worker'[w].last = last
    /\ worker'[w].stopping => pc \notin {"idle", "gone"}

\* The worker stays on its job and goes to pc.
Stays(w, pc, rev, last) == Becomes(w, pc, worker[w].job, rev, last)

LEMMA SetPc ==
    ASSUME NEW c \in Context, NEW pc \in PCs
    PROVE  LET t == [c EXCEPT !.pc = pc]
           IN  /\ t \in Context /\ t.pc = pc /\ t.job = c.job /\ t.rev = c.rev
               /\ t.last = c.last /\ t.stopping = c.stopping
BY DEF Context

LEMMA SetLast ==
    ASSUME NEW c \in Context, NEW s \in CloudStatus
    PROVE  LET t == [c EXCEPT !.last = s]
           IN  /\ t \in Context /\ t.pc = c.pc /\ t.job = c.job /\ t.rev = c.rev
               /\ t.last = s /\ t.stopping = c.stopping
BY DEF Context

LEMMA SetRev ==
    ASSUME NEW c \in Context, NEW r \in Revs \cup {NoRev}
    PROVE  LET t == [c EXCEPT !.rev = r]
           IN  /\ t \in Context /\ t.pc = c.pc /\ t.job = c.job /\ t.rev = r
               /\ t.last = c.last /\ t.stopping = c.stopping
BY DEF Context

LEMMA SetJob ==
    ASSUME NEW c \in Context, NEW j \in Jobs
    PROVE  LET t == [c EXCEPT !.job = j]
           IN  /\ t \in Context /\ t.pc = c.pc /\ t.job = j /\ t.rev = c.rev
               /\ t.last = c.last /\ t.stopping = c.stopping
BY DEF Context

LEMMA Sets ==
    ASSUME TypeOK, NEW w \in Workers, NEW t \in Context, worker' = [worker EXCEPT ![w] = t],
           t.stopping => t.pc \notin {"idle", "gone"}
    PROVE  Becomes(w, t.pc, t.job, t.rev, t.last)
BY DEF Becomes, TypeOK

LEMMA GotoBecomes ==
    ASSUME TypeOK, NEW w \in Workers, NEW pc \in PCs, Goto(w, pc),
           worker[w].stopping => pc \notin {"idle", "gone"}
    PROVE  Stays(w, pc, worker[w].rev, worker[w].last)
<1> DEFINE t == [worker[w] EXCEPT !.pc = pc]
<1>1. worker[w] \in Context  BY DEF TypeOK
<1>2. worker' = [worker EXCEPT ![w] = t]  BY DEF Goto, TypeOK
<1>3. /\ t \in Context /\ t.pc = pc /\ t.job = worker[w].job /\ t.rev = worker[w].rev
      /\ t.last = worker[w].last /\ t.stopping = worker[w].stopping
  BY <1>1, SetPc
<1> HIDE DEF t
<1> QED BY <1>2, <1>3, Sets DEF Stays

LEMMA FailBecomes ==
    ASSUME TypeOK, NEW w \in Workers, NEW s \in CloudStatus, Fail(w, s)
    PROVE  Stays(w, "fail", worker[w].rev, s)
<1> DEFINE c == [worker[w] EXCEPT !.pc = "fail"]
           t == [c EXCEPT !.last = s]
<1>1. worker[w] \in Context  BY DEF TypeOK
<1>2. worker' = [worker EXCEPT ![w] = t]  BY DEF Fail, TypeOK
<1>3. c \in Context /\ c.pc = "fail" /\ c.job = worker[w].job /\ c.rev = worker[w].rev
  BY <1>1, SetPc DEF PCs
<1> HIDE DEF c
<1>4. t \in Context /\ t.pc = "fail" /\ t.job = worker[w].job /\ t.rev = worker[w].rev
      /\ t.last = s
  BY <1>3, SetLast
<1> HIDE DEF t
<1> QED BY <1>2, <1>4, Sets DEF Stays

LEMMA LockBecomes ==
    ASSUME TypeOK, NEW w \in Workers, NEW j \in Jobs,
           worker' = [worker EXCEPT ![w].pc = "claim", ![w].job = j]
    PROVE  Becomes(w, "claim", j, worker[w].rev, worker[w].last)
<1> DEFINE c == [worker[w] EXCEPT !.pc = "claim"]
           t == [c EXCEPT !.job = j]
<1>1. worker[w] \in Context  BY DEF TypeOK
<1>2. worker' = [worker EXCEPT ![w] = t]  BY DEF TypeOK
<1>3. c \in Context /\ c.pc = "claim" /\ c.rev = worker[w].rev /\ c.last = worker[w].last
  BY <1>1, SetPc DEF PCs
<1> HIDE DEF c
<1>4. t \in Context /\ t.pc = "claim" /\ t.job = j /\ t.rev = worker[w].rev
      /\ t.last = worker[w].last
  BY <1>3, SetJob
<1> HIDE DEF t
<1> QED BY <1>2, <1>4, Sets

LEMMA LoadBecomes ==
    ASSUME TypeOK, NEW w \in Workers, NEW r \in Revs \cup {NoRev},
           worker' = [worker EXCEPT ![w].pc = "assemble", ![w].rev = r]
    PROVE  Stays(w, "assemble", r, worker[w].last)
<1> DEFINE c == [worker[w] EXCEPT !.pc = "assemble"]
           t == [c EXCEPT !.rev = r]
<1>1. worker[w] \in Context  BY DEF TypeOK
<1>2. worker' = [worker EXCEPT ![w] = t]  BY DEF TypeOK
<1>3. c \in Context /\ c.pc = "assemble" /\ c.job = worker[w].job /\ c.last = worker[w].last
  BY <1>1, SetPc DEF PCs
<1> HIDE DEF c
<1>4. t \in Context /\ t.pc = "assemble" /\ t.job = worker[w].job /\ t.rev = r
      /\ t.last = worker[w].last
  BY <1>3, SetRev
<1> HIDE DEF t
<1> QED BY <1>2, <1>4, Sets DEF Stays

LEMMA ObserveBecomes ==
    ASSUME TypeOK, NEW w \in Workers, NEW s \in CloudStatus,
           NEW pc \in PCs \ {"idle", "gone"},
           worker' = [worker EXCEPT ![w].last = s, ![w].pc = pc]
    PROVE  Stays(w, pc, worker[w].rev, s)
<1> DEFINE c == [worker[w] EXCEPT !.last = s]
           t == [c EXCEPT !.pc = pc]
<1>1. worker[w] \in Context  BY DEF TypeOK
<1>2. worker' = [worker EXCEPT ![w] = t]  BY DEF TypeOK
<1>3. c \in Context /\ c.job = worker[w].job /\ c.rev = worker[w].rev /\ c.last = s
  BY <1>1, SetLast
<1> HIDE DEF c
<1>4. t \in Context /\ t.pc = pc /\ t.job = worker[w].job /\ t.rev = worker[w].rev
      /\ t.last = s
  BY <1>3, SetPc
<1> HIDE DEF t
<1> QED BY <1>2, <1>4, Sets DEF Stays

\* The worker has no job any more, whether its loop goes on or its process ended.
LetsGo(w) == \E pc \in {"idle", "gone"} : Becomes(w, pc, NoJob, NoRev, "none")

LEMMA IdleContext ==
    /\ Idle \in Context /\ Idle.pc = "idle" /\ Idle.job = NoJob /\ Idle.rev = NoRev
    /\ ~Idle.stopping /\ Idle.last = "none"
    /\ LET g == [Idle EXCEPT !.pc = "gone"]
       IN  /\ g \in Context /\ g.pc = "gone" /\ g.job = NoJob /\ g.rev = NoRev
           /\ ~g.stopping /\ g.last = "none"
<1>1. /\ Idle \in Context /\ Idle.pc = "idle" /\ Idle.job = NoJob /\ Idle.rev = NoRev
      /\ ~Idle.stopping /\ Idle.last = "none"
  BY DEF Idle, Context, PCs, CloudStatus
<1>2. "gone" \in PCs  BY DEF PCs
<1> QED BY <1>1, <1>2, SetPc

LEMMA EndBecomes ==
    ASSUME TypeOK, NEW w \in Workers, NEW t \in {Idle, [Idle EXCEPT !.pc = "gone"]},
           worker' = [worker EXCEPT ![w] = t]
    PROVE  LetsGo(w)
BY IdleContext DEF LetsGo, Becomes, TypeOK

LEMMA LoopedBecomes ==
    ASSUME TypeOK, NEW w \in Workers, worker' = Looped(w)
    PROVE  LetsGo(w)
BY EndBecomes DEF Looped

LEMMA StopBecomes ==
    ASSUME TypeOK, NEW w \in Workers, Stop(w)
    PROVE  \/ worker[w].pc = "idle" /\ Stays(w, "gone", worker[w].rev, worker[w].last)
           \/ worker[w].pc # "idle" /\ Stays(w, worker[w].pc, worker[w].rev, worker[w].last)
<1>1. worker[w] \in Context  BY DEF TypeOK
<1>2. CASE At(w, "idle")
  <2>1. Goto(w, "gone")  BY <1>2 DEF Stop, Goto
  <2> QED BY <1>2, <2>1, GotoBecomes DEF At, PCs, Stop
<1>3. CASE ~At(w, "idle")
  <2> DEFINE t == [worker[w] EXCEPT !.stopping = TRUE]
  <2>1. t \in Context /\ t.pc = worker[w].pc /\ t.job = worker[w].job
        /\ t.rev = worker[w].rev /\ t.last = worker[w].last
    BY <1>1 DEF Context
  <2>2. worker' = [worker EXCEPT ![w] = t]  BY <1>3 DEF Stop, TypeOK
  <2>3. worker[w].pc \notin {"idle", "gone"}  BY <1>3 DEF Stop, At
  <2> HIDE DEF t
  <2> QED BY <1>3, <2>1, <2>2, <2>3, Sets DEF Stays
<1> QED BY <1>2, <1>3

-----------------------------------------------------------------------------
(* What the assignments to a row and a build come to.                      *)

Statuses == {"none", "queued", "running", "succeeded", "failed"}

\* The row of k becomes one with these fields.
RowIs(k, status, rev, pointed, cloud) ==
    /\ job' \in [Jobs -> JobRow]
    /\ \A j \in Jobs \ {k} : job'[j] = job[j]
    /\ job'[k].status = status /\ job'[k].rev = rev
    /\ job'[k].pointed = pointed /\ job'[k].cloud = cloud

LEMMA SetStatus ==
    ASSUME NEW r \in JobRow, NEW st \in Statuses
    PROVE  LET t == [r EXCEPT !.status = st]
           IN  /\ t \in JobRow /\ t.status = st /\ t.rev = r.rev /\ t.pointed = r.pointed
               /\ t.cloud = r.cloud
BY DEF JobRow, Statuses

LEMMA SetCloud ==
    ASSUME NEW r \in JobRow, NEW c \in CloudStatus
    PROVE  LET t == [r EXCEPT !.cloud = c]
           IN  /\ t \in JobRow /\ t.status = r.status /\ t.rev = r.rev /\ t.pointed = r.pointed
               /\ t.cloud = c
BY DEF JobRow

LEMMA RowSets ==
    ASSUME TypeOK, NEW k \in Jobs, NEW t \in JobRow, job' = [job EXCEPT ![k] = t]
    PROVE  RowIs(k, t.status, t.rev, t.pointed, t.cloud)
BY DEF TypeOK, RowIs

LEMMA StatusSet ==
    ASSUME TypeOK, NEW k \in Jobs, NEW st \in {"queued", "running", "succeeded", "failed"},
           job' = [job EXCEPT ![k].status = st]
    PROVE  RowIs(k, st, job[k].rev, job[k].pointed, job[k].cloud)
<1> DEFINE t == [job[k] EXCEPT !.status = st]
<1>0. st \in Statuses  BY DEF Statuses
<1>1. job[k] \in JobRow /\ job' = [job EXCEPT ![k] = t]  BY DEF TypeOK
<1>2. t \in JobRow /\ t.status = st /\ t.rev = job[k].rev /\ t.pointed = job[k].pointed
      /\ t.cloud = job[k].cloud
  BY <1>1, <1>0, SetStatus
<1> HIDE DEF t
<1> QED BY <1>1, <1>2, RowSets

LEMMA EnqueueSet ==
    ASSUME TypeOK, NEW k \in Jobs, NEW r \in Revs,
           job' = [job EXCEPT ![k].status = "queued", ![k].rev = r]
    PROVE  RowIs(k, "queued", r, job[k].pointed, job[k].cloud)
<1> DEFINE s == [job[k] EXCEPT !.status = "queued"]
           t == [s EXCEPT !.rev = r]
<1>0. "queued" \in Statuses  BY DEF Statuses
<1>1. job[k] \in JobRow /\ job' = [job EXCEPT ![k] = t]  BY DEF TypeOK
<1>2. s \in JobRow /\ s.status = "queued" /\ s.pointed = job[k].pointed
      /\ s.cloud = job[k].cloud
  BY <1>1, <1>0, SetStatus
<1> HIDE DEF s
<1>3. t \in JobRow /\ t.status = "queued" /\ t.rev = r /\ t.pointed = job[k].pointed
      /\ t.cloud = job[k].cloud
  BY <1>2 DEF JobRow
<1> HIDE DEF t
<1> QED BY <1>1, <1>3, RowSets

LEMMA FinishSet ==
    ASSUME TypeOK, NEW k \in Jobs, NEW st \in {"succeeded", "failed"}, NEW c \in CloudStatus,
           job' = [job EXCEPT ![k].status = st, ![k].cloud = c]
    PROVE  RowIs(k, st, job[k].rev, job[k].pointed, c)
<1> DEFINE s == [job[k] EXCEPT !.status = st]
           t == [s EXCEPT !.cloud = c]
<1>0. st \in Statuses  BY DEF Statuses
<1>1. job[k] \in JobRow /\ job' = [job EXCEPT ![k] = t]  BY DEF TypeOK
<1>2. s \in JobRow /\ s.status = st /\ s.rev = job[k].rev /\ s.pointed = job[k].pointed
  BY <1>1, <1>0, SetStatus
<1> HIDE DEF s
<1>3. t \in JobRow /\ t.status = st /\ t.rev = job[k].rev /\ t.pointed = job[k].pointed
      /\ t.cloud = c
  BY <1>2, SetCloud
<1> HIDE DEF t
<1> QED BY <1>1, <1>3, RowSets

LEMMA PointSet ==
    ASSUME TypeOK, NEW k \in Jobs, job' = [job EXCEPT ![k].pointed = TRUE]
    PROVE  RowIs(k, job[k].status, job[k].rev, TRUE, job[k].cloud)
<1> DEFINE t == [job[k] EXCEPT !.pointed = TRUE]
<1>1. job[k] \in JobRow /\ job' = [job EXCEPT ![k] = t]  BY DEF TypeOK
<1>2. t \in JobRow /\ t.status = job[k].status /\ t.rev = job[k].rev /\ t.pointed = TRUE
      /\ t.cloud = job[k].cloud
  BY <1>1 DEF JobRow
<1> HIDE DEF t
<1> QED BY <1>1, <1>2, RowSets

LEMMA CloudSet ==
    ASSUME TypeOK, NEW k \in Jobs, NEW c \in CloudStatus, job' = [job EXCEPT ![k].cloud = c]
    PROVE  RowIs(k, job[k].status, job[k].rev, job[k].pointed, c)
<1> DEFINE t == [job[k] EXCEPT !.cloud = c]
<1>1. job[k] \in JobRow /\ job' = [job EXCEPT ![k] = t]  BY DEF TypeOK
<1>2. t \in JobRow /\ t.status = job[k].status /\ t.rev = job[k].rev
      /\ t.pointed = job[k].pointed /\ t.cloud = c
  BY <1>1, SetCloud
<1> HIDE DEF t
<1> QED BY <1>1, <1>2, RowSets

BuildIs(k, status, source) ==
    /\ build' \in [Jobs -> Build]
    /\ \A j \in Jobs \ {k} : build'[j] = build[j]
    /\ build'[k].status = status /\ build'[k].source = source

LEMMA BuildSet ==
    ASSUME TypeOK, NEW k \in Jobs, NEW s \in CloudStatus,
           build' = [build EXCEPT ![k].status = s]
    PROVE  BuildIs(k, s, build[k].source)
<1> DEFINE t == [build[k] EXCEPT !.status = s]
<1>1. build[k] \in Build /\ build' = [build EXCEPT ![k] = t]  BY DEF TypeOK
<1>2. t \in Build /\ t.status = s /\ t.source = build[k].source  BY <1>1 DEF Build
<1> HIDE DEF t
<1> QED BY <1>1, <1>2 DEF TypeOK, BuildIs

-----------------------------------------------------------------------------
(* A step of one worker, seen from the others.                             *)

\* Rows, builds and faults change for the job k only.
OnlyFor(k) ==
    /\ \A j \in Jobs \ {k} : job'[j] = job[j] /\ build'[j] = build[j]
    /\ unpointed \subseteq unpointed' /\ lost \subseteq lost'

LEMMA OthersKeep ==
    ASSUME IInv, NEW w \in Workers, NEW k, OnlyFor(k),
           \A v \in Workers \ {w} : worker'[v] = worker[v],
           \A v \in Workers \ {w} : Busy(v) => worker[v].job # k
    PROVE  /\ \A v \in Workers \ {w} : WorkerOK(v)'
           /\ \A j \in Jobs \ {k} : JobOK(j)'
<1>1. ASSUME NEW v \in Workers \ {w} PROVE WorkerOK(v)'
  <2>1. worker'[v] = worker[v] /\ WorkerOK(v)  BY DEF IInv
  <2> SUFFICES ASSUME Busy(v) PROVE WorkerOK(v)'
    BY <2>1 DEF WorkerOK, Busy
  <2>2. PICK j \in Jobs \ {k} : /\ j = worker[v].job
                                /\ job'[j] = job[j] /\ build'[j] = build[j]
    BY <2>1 DEF WorkerOK, OnlyFor
  <2>3. unpointed \subseteq unpointed'  BY DEF OnlyFor
  <2> QED BY <2>1, <2>2, <2>3 DEF WorkerOK, Busy, Unbuilt, Findable
<1>2. ASSUME NEW j \in Jobs \ {k} PROVE JobOK(j)'
  BY DEF IInv, JobOK, OnlyFor, Unbuilt, Findable
<1> QED BY <1>1, <1>2

\* A worker with a job keeps the invariant if it keeps it for itself and its job.
LEMMA WorkerStep ==
    ASSUME IInv, NEW w \in Workers, NEW k \in Jobs, Busy(w), k = worker[w].job, TypeOK',
           OnlyFor(k), \A v \in Workers \ {w} : worker'[v] = worker[v],
           Busy(w)' => worker'[w].job = k,
           WorkerOK(w)', JobOK(k)',
           job'[k].status = "running" => Working(w)' \/ k \in lost'
    PROVE  IInv'
<1>1. \A v \in Workers \ {w} : Busy(v) => worker[v].job # k  BY DEF IInv, NoSharing
<1>2. (\A v \in Workers \ {w} : WorkerOK(v)') /\ (\A j \in Jobs \ {k} : JobOK(j)')
  BY <1>1, OthersKeep
<1>3. (\A v \in Workers : WorkerOK(v)') /\ (\A j \in Jobs : JobOK(j)')  BY <1>2
<1>4. NoSharing'
  BY <1>1 DEF IInv, NoSharing, Busy
<1>5. RunningIsRun'
  <2> SUFFICES ASSUME NEW j \in Jobs \ lost', job'[j].status = "running"
               PROVE  \E v \in Workers : Working(v)' /\ worker'[v].job = j
    BY DEF RunningIsRun
  <2>1. CASE j = k
    BY <2>1 DEF Working, Busy
  <2>2. CASE j # k
    <3>1. PICK v \in Workers : Working(v) /\ worker[v].job = j
      BY <2>2 DEF IInv, RunningIsRun, OnlyFor
    <3> QED BY <3>1, <2>2 DEF Working, Busy, At
  <2> QED BY <2>1, <2>2
<1> QED BY <1>3, <1>4, <1>5 DEF IInv

LEMMA TheJob ==
    ASSUME IInv, NEW w \in Workers, Busy(w)
    PROVE  \E k \in Jobs : /\ k = worker[w].job
                           /\ WorkerOK(w) /\ JobOK(k) /\ TypeOK
                           /\ job[k] \in JobRow /\ build[k] \in Build
                           /\ worker[w] \in Context
BY DEF IInv, WorkerOK, TypeOK

-----------------------------------------------------------------------------
(* The steps.                                                              *)

\* The worker w stays at work on k, and touches its row and its build only.
OnJob(w, k) ==
    /\ worker' \in [Workers -> Context] /\ worker'[w].job = k /\ Working(w)'
    /\ \A v \in Workers \ {w} : worker'[v] = worker[v]
    /\ job' \in [Jobs -> JobRow] /\ build' \in [Jobs -> Build]
    /\ \A j \in Jobs \ {k} : job'[j] = job[j] /\ build'[j] = build[j]
    /\ job'[k].status = "running" /\ job'[k].rev = job[k].rev

LEMMA Continues ==
    ASSUME IInv, NEW w \in Workers, NEW k \in Jobs, Working(w), k = worker[w].job,
           OnJob(w, k), UNCHANGED <<head, spent, lost>>,
           unpointed \subseteq unpointed', unpointed' \subseteq Jobs,
           build'[k].source # NoRev => Findable(k)',
           job'[k].cloud \in CloudTerminal => job'[k].cloud = build'[k].status,
           WorkerOK(w)'
    PROVE  IInv'
<1>1. WorkerOK(w) /\ JobOK(k) /\ TypeOK /\ Busy(w)  BY TheJob DEF Working
<1>2. TypeOK'  BY <1>1 DEF TypeOK, OnJob
<1>3. OnlyFor(k)  BY DEF OnlyFor, OnJob
<1>4. job[k].rev \in Revs
  BY <1>1 DEF WorkerOK, JobOK, Working, At
<1>5. JobOK(k)'
  BY <1>4 DEF JobOK, OnJob
<1> QED BY <1>1, <1>2, <1>3, <1>5, WorkerStep DEF OnJob

LEMMA StaysOnJob ==
    ASSUME TypeOK, NEW w \in Workers, NEW k \in Jobs, k = worker[w].job,
           NEW pc \in PCs \ {"idle", "gone", "claim"}, NEW rev, NEW last, Stays(w, pc, rev, last),
           NEW pointed, NEW cloud, RowIs(k, "running", job[k].rev, pointed, cloud),
           NEW st, NEW source, BuildIs(k, st, source)
    PROVE  OnJob(w, k)
BY DEF Stays, Becomes, RowIs, BuildIs, OnJob, Working, Busy, At

\* The facts of a worker at work that its steps start from.
LEMMA AtWork ==
    ASSUME IInv, NEW w \in Workers, Working(w)
    PROVE  \E k \in Jobs :
             /\ k = worker[w].job /\ TypeOK
             /\ WorkerOK(w) /\ JobOK(k) /\ job[k].status = "running"
             /\ job[k].rev \in Revs /\ job[k].pointed \in BOOLEAN
             /\ job[k].cloud \in CloudStatus
             /\ build[k].status \in CloudStatus /\ build[k].source \in Revs \cup {NoRev}
             /\ worker[w].last \in CloudStatus /\ worker[w].rev \in Revs \cup {NoRev}
             /\ RowIs(k, "running", job[k].rev, job[k].pointed, job[k].cloud)
                   \/ ~UNCHANGED job
             /\ BuildIs(k, build[k].status, build[k].source) \/ ~UNCHANGED build
<1>1. PICK k \in Jobs : /\ k = worker[w].job
                        /\ WorkerOK(w) /\ JobOK(k) /\ TypeOK
                        /\ job[k] \in JobRow /\ build[k] \in Build
                        /\ worker[w] \in Context
  BY TheJob DEF Working
<1>2. job[k].status = "running"  BY <1>1 DEF WorkerOK, Working, At
<1>3. job[k].rev \in Revs  BY <1>1, <1>2 DEF JobOK
<1>4. UNCHANGED job => RowIs(k, "running", job[k].rev, job[k].pointed, job[k].cloud)
  BY <1>1, <1>2 DEF RowIs, TypeOK
<1>5. UNCHANGED build => BuildIs(k, build[k].status, build[k].source)
  BY <1>1 DEF BuildIs, TypeOK
<1>6. /\ job[k].pointed \in BOOLEAN /\ job[k].cloud \in CloudStatus
      /\ build[k].status \in CloudStatus /\ build[k].source \in Revs \cup {NoRev}
      /\ worker[w].last \in CloudStatus /\ worker[w].rev \in Revs \cup {NoRev}
  BY <1>1 DEF JobRow, Build, Context
<1> QED BY <1>1, <1>2, <1>3, <1>4, <1>5, <1>6

LEMMA Preparing ==
    ASSUME IInv, NEW w \in Workers, LoadRevision(w) \/ AssembleTarGz(w)
    PROVE  IInv'
<1>1. /\ Working(w) /\ worker[w].pc \in {"load", "assemble"} /\ TypeOK
      /\ UNCHANGED <<head, job, build, spent, lost, unpointed>>
  BY DEF LoadRevision, AssembleTarGz, Working, Busy, At, IInv
<1>2. PICK k \in Jobs :
             /\ k = worker[w].job /\ WorkerOK(w) /\ job[k].rev \in Revs /\ JobOK(k)
             /\ RowIs(k, "running", job[k].rev, job[k].pointed, job[k].cloud)
             /\ BuildIs(k, build[k].status, build[k].source)
  BY <1>1, AtWork
<1>3. /\ build[k].status = "none" /\ build[k].source = NoRev /\ job[k].cloud = "none"
      /\ worker[w].pc = "assemble" => worker[w].rev = job[k].rev
  BY <1>1, <1>2 DEF WorkerOK, Working, Before, Loaded, Unbuilt
<1>4. \/ Stays(w, "assemble", job[k].rev, worker[w].last)
      \/ Stays(w, "create", worker[w].rev, worker[w].last) /\ worker[w].pc = "assemble"
      \/ Stays(w, "fail", worker[w].rev, "none")
  BY <1>1, <1>2, LoadBecomes, GotoBecomes, FailBecomes
     DEF LoadRevision, AssembleTarGz, Row, PCs, CloudStatus, At
<1>5. unpointed' \subseteq Jobs /\ unpointed \subseteq unpointed'  BY <1>1 DEF TypeOK
<1>6. Rank("none") <= Rank("none") /\ "none" \notin CloudTerminal  BY DEF Rank, CloudTerminal
<1>7. OnJob(w, k)  BY <1>1, <1>2, <1>4, StaysOnJob DEF PCs
<1>8. /\ job'[k].status = "running" /\ job'[k].rev = job[k].rev /\ job'[k].cloud = "none"
      /\ build'[k].status = "none" /\ build'[k].source = NoRev
  BY <1>1, <1>2, <1>3 DEF RowIs
<1>9. WorkerOK(w)'
  BY <1>1, <1>2, <1>3, <1>4, <1>6, <1>8
     DEF WorkerOK, Stays, Becomes, Busy, Loaded, Before, Created, Started, Unbuilt
<1> QED BY <1>1, <1>2, <1>5, <1>6, <1>7, <1>8, <1>9, Continues

LEMMA Creating ==
    ASSUME IInv, NEW w \in Workers, CreateBuild(w)
    PROVE  IInv'
<1>1. /\ Working(w) /\ worker[w].pc = "create" /\ TypeOK
      /\ UNCHANGED <<head, job, spent, lost>>
  BY DEF CreateBuild, Working, Busy, At, IInv
<1>2. PICK k \in Jobs :
             /\ k = worker[w].job /\ WorkerOK(w) /\ job[k].rev \in Revs /\ JobOK(k)
             /\ RowIs(k, "running", job[k].rev, job[k].pointed, job[k].cloud)
             /\ BuildIs(k, build[k].status, build[k].source) \/ ~UNCHANGED build
  BY <1>1, AtWork
<1>3. /\ build[k].status = "none" /\ build[k].source = NoRev /\ job[k].cloud = "none"
      /\ worker[w].rev = job[k].rev
  BY <1>1, <1>2 DEF WorkerOK, Working, Before, Loaded, Unbuilt
<1>4. \/ /\ build' = [build EXCEPT ![k].status = "queued"] /\ UNCHANGED unpointed
         /\ Stays(w, "point", worker[w].rev, worker[w].last)
      \/ /\ build' = [build EXCEPT ![k].status = "queued"] /\ unpointed' = unpointed \cup {k}
         /\ Stays(w, "fail", worker[w].rev, "none")
      \/ UNCHANGED <<build, unpointed>> /\ Stays(w, "fail", worker[w].rev, "none")
  BY <1>1, <1>2, GotoBecomes, FailBecomes DEF CreateBuild, PCs, CloudStatus
<1>5. unpointed' \subseteq Jobs /\ unpointed \subseteq unpointed'  BY <1>1, <1>4 DEF TypeOK
<1>6. Rank("none") <= Rank("none") /\ "none" \notin CloudTerminal  BY DEF Rank, CloudTerminal
<1>7. PICK st \in {"none", "queued"} :
         /\ BuildIs(k, st, NoRev)
         /\ Stays(w, "point", worker[w].rev, worker[w].last) => st = "queued"
  <2>1. CASE build' = [build EXCEPT ![k].status = "queued"]
    BY <1>1, <1>3, <2>1, BuildSet DEF CloudStatus
  <2>2. CASE UNCHANGED build /\ Stays(w, "fail", worker[w].rev, "none")
    BY <1>2, <1>3, <2>2 DEF Stays, Becomes
  <2> QED BY <1>4, <2>1, <2>2
<1>8. OnJob(w, k)  BY <1>1, <1>2, <1>4, <1>7, StaysOnJob DEF PCs
<1>9. /\ job'[k].status = "running" /\ job'[k].rev = job[k].rev /\ job'[k].cloud = "none"
      /\ build'[k].status = st /\ build'[k].source = NoRev
  BY <1>2, <1>3, <1>7 DEF RowIs, BuildIs
<1>10. WorkerOK(w)'
  BY <1>1, <1>2, <1>3, <1>4, <1>6, <1>7, <1>9
     DEF WorkerOK, Stays, Becomes, Busy, Loaded, Before, Created, Started
<1> QED BY <1>1, <1>2, <1>5, <1>6, <1>8, <1>9, <1>10, Continues

LEMMA Pointing ==
    ASSUME IInv, NEW w \in Workers, SetCloudBuild(w)
    PROVE  IInv'
<1>1. /\ Working(w) /\ worker[w].pc = "point" /\ TypeOK
      /\ UNCHANGED <<head, build, spent, lost>>
  BY DEF SetCloudBuild, Working, Busy, At, IInv
<1>2. PICK k \in Jobs :
             /\ k = worker[w].job /\ WorkerOK(w) /\ job[k].rev \in Revs /\ JobOK(k)
             /\ RowIs(k, "running", job[k].rev, job[k].pointed, job[k].cloud)
                   \/ ~UNCHANGED job
             /\ BuildIs(k, build[k].status, build[k].source) /\ job[k].status = "running"
  BY <1>1, AtWork
<1>3. /\ build[k].status # "none" /\ build[k].source = NoRev /\ job[k].cloud = "none"
      /\ worker[w].rev = job[k].rev
  BY <1>1, <1>2 DEF WorkerOK, Working, Created, Loaded
<1>4. /\ Stays(w, "upload", worker[w].rev, worker[w].last)
      /\ \/ job' = [job EXCEPT ![k].pointed = TRUE] /\ UNCHANGED unpointed
         \/ UNCHANGED job /\ unpointed' = unpointed \cup {k}
  BY <1>1, <1>2, GotoBecomes DEF SetCloudBuild, PCs
<1>5. unpointed' \subseteq Jobs /\ unpointed \subseteq unpointed'  BY <1>1, <1>4 DEF TypeOK
<1>6. "none" \notin CloudTerminal  BY DEF CloudTerminal
<1>7. PICK pointed \in BOOLEAN :
         RowIs(k, "running", job[k].rev, pointed, "none") /\ (pointed \/ k \in unpointed')
  <2>1. CASE job' = [job EXCEPT ![k].pointed = TRUE]
    BY <1>1, <1>2, <1>3, <2>1, PointSet
  <2>2. CASE UNCHANGED job /\ unpointed' = unpointed \cup {k}
    <3>1. RowIs(k, "running", job[k].rev, job[k].pointed, "none")  BY <1>2, <1>3, <2>2
    <3>2. job[k].pointed \in BOOLEAN  BY <1>1, AtWork, <1>2
    <3> QED BY <2>2, <3>1, <3>2
  <2> QED BY <1>4, <2>1, <2>2
<1>8. OnJob(w, k)  BY <1>1, <1>2, <1>4, <1>7, StaysOnJob DEF PCs
<1>9. /\ job'[k].status = "running" /\ job'[k].rev = job[k].rev /\ job'[k].cloud = "none"
      /\ build'[k].status # "none" /\ build'[k].source = NoRev
  BY <1>1, <1>3, <1>7 DEF RowIs
<1>10. Findable(k)'  BY <1>7 DEF RowIs, Findable
<1>11. WorkerOK(w)'
  BY <1>1, <1>2, <1>3, <1>4, <1>6, <1>9, <1>10
     DEF WorkerOK, Stays, Becomes, Busy, Loaded, Before, Created, Started
<1> QED BY <1>1, <1>2, <1>5, <1>6, <1>8, <1>9, <1>11, Continues

LEMMA Uploading ==
    ASSUME IInv, NEW w \in Workers, UploadSource(w)
    PROVE  IInv'
<1>1. /\ Working(w) /\ worker[w].pc = "upload" /\ TypeOK
      /\ UNCHANGED <<head, job, spent, lost, unpointed>>
  BY DEF UploadSource, Working, Busy, At, IInv
<1>2. PICK k \in Jobs :
             /\ k = worker[w].job /\ WorkerOK(w) /\ job[k].rev \in Revs /\ JobOK(k)
             /\ RowIs(k, "running", job[k].rev, job[k].pointed, job[k].cloud)
             /\ BuildIs(k, build[k].status, build[k].source) \/ ~UNCHANGED build
  BY <1>1, AtWork
<1>3. /\ build[k].status # "none" /\ build[k].source = NoRev /\ job[k].cloud = "none"
      /\ worker[w].rev = job[k].rev /\ Findable(k)
  BY <1>1, <1>2 DEF WorkerOK, Working, Created, Loaded
<1> DEFINE built == [status |-> "building", source |-> worker[w].rev]
<1>4. \/ build' = [build EXCEPT ![k] = built] /\ Stays(w, "track", worker[w].rev, worker[w].last)
      \/ build' = [build EXCEPT ![k] = built] /\ Stays(w, "fail", worker[w].rev, "queued")
      \/ UNCHANGED build /\ Stays(w, "fail", worker[w].rev, "queued")
  BY <1>1, <1>2, GotoBecomes, FailBecomes DEF UploadSource, PCs, CloudStatus
<1>5. unpointed' \subseteq Jobs /\ unpointed \subseteq unpointed'  BY <1>1 DEF TypeOK
<1>6. /\ "none" \notin CloudTerminal /\ "queued" \notin CloudTerminal
      /\ Rank("none") <= Rank("queued")
      /\ \A x \in CloudStatus : Rank("none") <= Rank(x)
  BY DEF CloudTerminal, Rank, CloudStatus
<1>a. worker[w].last \in CloudStatus  BY <1>1, AtWork
<1>b. built \in Build /\ built.status = "building" /\ built.source = job[k].rev
  BY <1>2, <1>3 DEF Build, CloudStatus
<1>7. \/ BuildIs(k, "building", job[k].rev)
      \/ BuildIs(k, build[k].status, NoRev) /\ Stays(w, "fail", worker[w].rev, "queued")
  <2>1. CASE build' = [build EXCEPT ![k] = built]
    <3> HIDE DEF built
    <3> QED BY <1>1, <1>b, <2>1 DEF BuildIs, TypeOK
  <2>2. CASE UNCHANGED build /\ Stays(w, "fail", worker[w].rev, "queued")
    BY <1>2, <1>3, <2>2
  <2> QED BY <1>4, <2>1, <2>2
<1>8. OnJob(w, k)  BY <1>1, <1>2, <1>4, <1>7, StaysOnJob DEF PCs
<1>9. /\ job'[k].status = "running" /\ job'[k].rev = job[k].rev /\ job'[k].cloud = "none"
      /\ Findable(k)'
  BY <1>1, <1>2, <1>3 DEF Findable, RowIs
<1>10. CASE Stays(w, "fail", worker[w].rev, "queued")
  <2>1. WorkerOK(w)'
    BY <1>2, <1>6, <1>9, <1>10
       DEF WorkerOK, Stays, Becomes, Busy, Loaded, Before, Created, Started
  <2> QED BY <1>1, <1>2, <1>5, <1>6, <1>8, <1>9, <2>1, Continues
<1>11. CASE Stays(w, "track", worker[w].rev, worker[w].last)
  <2>1. BuildIs(k, "building", job[k].rev)
    BY <1>7, <1>11 DEF Stays, Becomes
  <2>2. worker[w].last \notin CloudTerminal
    BY <1>1, <1>2, <1>6 DEF WorkerOK, Started
  <2>3. WorkerOK(w)'
    BY <1>2, <1>3, <1>6, <1>9, <1>11, <1>a, <2>1, <2>2
       DEF WorkerOK, Stays, Becomes, Busy, Loaded, Before, Created, Started, BuildIs
  <2> QED BY <1>1, <1>2, <1>5, <1>6, <1>8, <1>9, <2>3, Continues
<1> QED BY <1>4, <1>10, <1>11

LEMMA Polling ==
    ASSUME IInv, NEW w \in Workers, Observe(w)
    PROVE  IInv'
<1>1. /\ Working(w) /\ worker[w].pc = "track" /\ TypeOK
      /\ UNCHANGED <<head, job, build, spent, lost, unpointed>>
  BY DEF Observe, Working, Busy, At, IInv
<1>2. PICK k \in Jobs :
             /\ k = worker[w].job /\ WorkerOK(w) /\ job[k].rev \in Revs /\ JobOK(k)
             /\ build[k].status \in CloudStatus /\ worker[w].last \in CloudStatus
             /\ job[k].cloud \in CloudStatus
             /\ RowIs(k, "running", job[k].rev, job[k].pointed, job[k].cloud)
             /\ BuildIs(k, build[k].status, build[k].source)
  BY <1>1, AtWork
<1> DEFINE s == build[k].status
<1>3. /\ s \in CloudTerminal \cup {"building"} /\ build[k].source = job[k].rev
      /\ worker[w].rev = job[k].rev
      /\ Rank(job[k].cloud) <= Rank(worker[w].last)
      /\ worker[w].last \in CloudTerminal => worker[w].last = s
  BY <1>1, <1>2 DEF WorkerOK, Working, Started, Loaded, Created, CloudStatus
<1>4. PICK pc \in {"reflect", "succeed", "fail", "track"} :
         /\ worker' = [worker EXCEPT ![w].last = s, ![w].pc = pc]
         /\ pc = "succeed" => s = "succeeded"
  BY <1>1, <1>2 DEF Observe, BuildOf, AfterStatus
<1>5. Stays(w, pc, worker[w].rev, s)
  BY <1>1, <1>2, <1>4, ObserveBecomes DEF PCs
<1>6. Rank(job[k].cloud) <= Rank(s)
  <2>1. /\ \A x \in CloudTerminal \cup {"building"} : Rank(x) \in {2, 3}
        /\ \A x \in CloudTerminal : Rank(x) = 3
        /\ \A x \in CloudStatus : Rank(x) \in 0..3 /\ (x \notin CloudTerminal => Rank(x) <= 2)
    BY DEF Rank, CloudTerminal, CloudStatus
  <2>2. CASE worker[w].last \in CloudTerminal  BY <1>3, <2>2
  <2>3. CASE worker[w].last \notin CloudTerminal
    <3>1. Rank(worker[w].last) \in 0..2 /\ Rank(job[k].cloud) \in 0..3 /\ Rank(s) \in {2, 3}
      BY <1>2, <1>3, <2>1, <2>3
    <3> QED BY <1>3, <3>1
  <2> QED BY <2>2, <2>3
<1>7. OnJob(w, k)  BY <1>1, <1>2, <1>5, StaysOnJob DEF PCs
<1>8. WorkerOK(w)'
  BY <1>1, <1>2, <1>3, <1>4, <1>5, <1>6, ZenonT(60)
     DEF WorkerOK, Stays, Becomes, Busy, Loaded, Before, Created, Started, RowIs, CloudTerminal
<1>9. /\ unpointed' \subseteq Jobs /\ unpointed \subseteq unpointed'
      /\ (build'[k].source # NoRev => Findable(k)')
      /\ (job'[k].cloud \in CloudTerminal => job'[k].cloud = build'[k].status)
  BY <1>1, <1>2 DEF TypeOK, JobOK, Findable
<1> QED BY <1>1, <1>2, <1>7, <1>8, <1>9, Continues

LEMMA Reflecting ==
    ASSUME IInv, NEW w \in Workers, Reflect(w)
    PROVE  IInv'
<1>1. /\ Working(w) /\ worker[w].pc = "reflect" /\ TypeOK
      /\ UNCHANGED <<head, build, spent, lost, unpointed>>
  BY DEF Reflect, Working, Busy, At, IInv
<1>2. PICK k \in Jobs :
             /\ k = worker[w].job /\ WorkerOK(w) /\ job[k].rev \in Revs /\ JobOK(k)
             /\ worker[w].last \in CloudStatus /\ job[k].status = "running"
             /\ RowIs(k, "running", job[k].rev, job[k].pointed, job[k].cloud)
                   \/ ~UNCHANGED job
             /\ BuildIs(k, build[k].status, build[k].source)
  BY <1>1, AtWork
<1>3. /\ build[k].source = job[k].rev /\ build[k].status \notin {"none", "queued"}
      /\ worker[w].rev = job[k].rev
      /\ Rank(job[k].cloud) <= Rank(worker[w].last)
      /\ worker[w].last \in CloudTerminal => worker[w].last = build[k].status
  BY <1>1, <1>2 DEF WorkerOK, Working, Started, Loaded, Created
<1>4. PICK pc \in {"succeed", "fail", "track"} :
         pc = AfterStatus(worker[w].last) /\ (pc = "succeed" => worker[w].last = "succeeded")
  BY DEF AfterStatus
<1>5. Stays(w, pc, worker[w].rev, worker[w].last)
  BY <1>1, <1>4, GotoBecomes DEF Reflect, PCs
<1>6. PICK cloud \in CloudStatus :
         /\ RowIs(k, "running", job[k].rev, job[k].pointed, cloud)
         /\ Rank(cloud) <= Rank(worker[w].last)
         /\ cloud \in CloudTerminal => cloud = build[k].status
  <2>1. CASE job' = [job EXCEPT ![k].cloud = worker[w].last]
    <3>1. RowIs(k, "running", job[k].rev, job[k].pointed, worker[w].last)
      BY <1>1, <1>2, <2>1, CloudSet
    <3>2. Rank(worker[w].last) <= Rank(worker[w].last)  BY DEF Rank
    <3> QED BY <1>2, <1>3, <3>1, <3>2
  <2>2. CASE UNCHANGED job
    <3>1. job[k].cloud \in CloudStatus  BY <1>1, <1>2 DEF TypeOK, JobRow
    <3> QED BY <1>2, <1>3, <2>2, <3>1 DEF JobOK
  <2> QED BY <1>2, <2>1, <2>2 DEF Reflect
<1>7. OnJob(w, k)  BY <1>1, <1>2, <1>5, <1>6, StaysOnJob DEF PCs
<1>8. WorkerOK(w)'
  BY <1>1, <1>2, <1>3, <1>4, <1>5, <1>6, SMTT(30)
     DEF WorkerOK, Stays, Becomes, Busy, Loaded, Before, Created, Started, RowIs
<1>9. /\ unpointed' \subseteq Jobs /\ unpointed \subseteq unpointed'
      /\ (build'[k].source # NoRev => Findable(k)')
      /\ (job'[k].cloud \in CloudTerminal => job'[k].cloud = build'[k].status)
  BY <1>1, <1>2, <1>6 DEF TypeOK, JobOK, Findable, RowIs
<1> QED BY <1>1, <1>2, <1>7, <1>8, <1>9, Continues

LEMMA GivingUp ==
    ASSUME IInv, NEW w \in Workers, GiveUp(w)
    PROVE  IInv'
<1>1. /\ Working(w) /\ worker[w].pc = "track" /\ TypeOK
      /\ UNCHANGED <<head, job, build, spent, lost, unpointed>>
  BY DEF GiveUp, Working, Busy, At, IInv
<1>2. PICK k \in Jobs :
             /\ k = worker[w].job /\ WorkerOK(w) /\ job[k].rev \in Revs /\ JobOK(k)
             /\ worker[w].last \in CloudStatus
             /\ RowIs(k, "running", job[k].rev, job[k].pointed, job[k].cloud)
             /\ BuildIs(k, build[k].status, build[k].source)
  BY <1>1, AtWork
<1>3. /\ Rank(job[k].cloud) <= Rank(worker[w].last)
      /\ worker[w].last \in CloudTerminal => worker[w].last = build[k].status
  BY <1>1, <1>2 DEF WorkerOK, Working, Started
<1>4. Stays(w, "fail", worker[w].rev, worker[w].last)
  BY <1>1, <1>2, FailBecomes DEF GiveUp
<1>5. OnJob(w, k)  BY <1>1, <1>2, <1>4, StaysOnJob DEF PCs
<1>6. WorkerOK(w)'
  BY <1>1, <1>2, <1>3, <1>4
     DEF WorkerOK, Stays, Becomes, Busy, Loaded, Before, Created, Started, RowIs
<1>7. /\ unpointed' \subseteq Jobs /\ unpointed \subseteq unpointed'
      /\ (build'[k].source # NoRev => Findable(k)')
      /\ (job'[k].cloud \in CloudTerminal => job'[k].cloud = build'[k].status)
  BY <1>1, <1>2 DEF TypeOK, JobOK, Findable
<1> QED BY <1>1, <1>2, <1>5, <1>6, <1>7, Continues

LEMMA Locking ==
    ASSUME IInv, NEW w \in Workers, LockOldest(w)
    PROVE  IInv'
<1>1. PICK k \in Claimable : worker' = [worker EXCEPT ![w].pc = "claim", ![w].job = k]
  BY DEF LockOldest
<1>2. /\ TypeOK /\ At(w, "idle") /\ UNCHANGED <<head, job, build, spent, lost, unpointed>>
      /\ k \in Jobs /\ job[k].status = "queued" /\ k \notin Locked
  BY <1>1 DEF IInv, LockOldest, Claimable
<1>3. Becomes(w, "claim", k, worker[w].rev, worker[w].last)  BY <1>1, <1>2, LockBecomes
<1>4. \A v \in Workers \ {w} : Busy(v) => worker[v].job # k
  BY <1>2 DEF IInv, WorkerOK, Locked, At, Busy
<1>5. OnlyFor(k)  BY <1>2 DEF OnlyFor
<1>6. \A v \in Workers \ {w} : WorkerOK(v)'
  BY <1>3, <1>4, <1>5, OthersKeep DEF Becomes
<1>7. JobOK(k) /\ WorkerOK(w)  BY <1>2 DEF IInv
<1>8. WorkerOK(w)'
  BY <1>2, <1>3, <1>7
     DEF WorkerOK, Becomes, At, Busy, JobOK, Unbuilt, Loaded, Before, Created, Started
<1>9. \A j \in Jobs : JobOK(j)'  BY <1>2 DEF IInv, JobOK, Unbuilt, Findable
<1>10. NoSharing'  BY <1>3, <1>4 DEF IInv, NoSharing, Becomes, Busy
<1>11. RunningIsRun'
  <2> SUFFICES ASSUME NEW j \in Jobs \ lost, job[j].status = "running"
               PROVE  \E v \in Workers : Working(v)' /\ worker'[v].job = j
    BY <1>2 DEF RunningIsRun
  <2>1. PICK v \in Workers : Working(v) /\ worker[v].job = j  BY DEF IInv, RunningIsRun
  <2>2. v # w  BY <1>2, <2>1 DEF Working, Busy, At
  <2> QED BY <1>3, <2>1, <2>2 DEF Becomes, Working, Busy, At
<1>12. TypeOK'  BY <1>2, <1>3 DEF TypeOK, Becomes
<1> QED BY <1>6, <1>8, <1>9, <1>10, <1>11, <1>12 DEF IInv

LEMMA Claiming ==
    ASSUME IInv, NEW w \in Workers, CommitClaim(w) \/ ClaimError(w)
    PROVE  IInv'
<1>0. Busy(w) /\ TypeOK /\ worker[w].pc = "claim" /\ UNCHANGED <<head, build, unpointed>>
  BY DEF CommitClaim, ClaimError, At, Busy, IInv
<1>1. PICK k \in Jobs : /\ k = worker[w].job /\ WorkerOK(w) /\ JobOK(k)
  BY <1>0, TheJob
<1>2. job[k].status = "queued" /\ Unbuilt(k) /\ job[k].rev \in Revs /\ worker[w].last = "none"
  BY <1>0, <1>1 DEF WorkerOK, Before, Started, JobOK
<1>3. spent' \in [{"db", "exit"} -> Nat]
  BY <1>0 DEF CommitClaim, ClaimError, Spend, TypeOK
<1>4. ASSUME job' = [job EXCEPT ![k].status = "running"], lost \subseteq lost', lost' \subseteq Jobs,
             \/ Goto(w, "load")
             \/ LetsGo(w) /\ k \in lost'
      PROVE  IInv'
  <2>1. RowIs(k, "running", job[k].rev, job[k].pointed, job[k].cloud)
    BY <1>0, <1>4, StatusSet
  <2>2. PICK pc \in {"load", "idle", "gone"}, j \in {k, NoJob}, r \in {worker[w].rev, NoRev} :
           /\ Becomes(w, pc, j, r, "none")
           /\ pc = "load" => j = k
           /\ pc # "load" => k \in lost'
    BY <1>0, <1>1, <1>2, <1>4, GotoBecomes DEF PCs, LetsGo, Stays
  <2>3. TypeOK'  BY <1>0, <1>3, <1>4, <2>1, <2>2 DEF TypeOK, Becomes, RowIs
  <2>4. OnlyFor(k)  BY <1>0, <1>4, <2>1 DEF OnlyFor, RowIs
  <2>5. WorkerOK(w)'
    BY <1>0, <1>1, <1>2, <2>1, <2>2
       DEF WorkerOK, Becomes, Busy, Loaded, Before, Created, Started, Unbuilt, RowIs
  <2>6. JobOK(k)'  BY <1>0, <1>1, <1>2, <2>1 DEF JobOK, RowIs, Findable
  <2>7. Working(w)' \/ k \in lost'  BY <2>2 DEF Becomes, Working, Busy, At
  <2>8. Busy(w)' => worker'[w].job = k  BY <2>2 DEF Becomes, Busy
  <2> QED BY <1>0, <1>1, <2>2, <2>3, <2>4, <2>5, <2>6, <2>7, <2>8, WorkerStep DEF Becomes
<1>5. ASSUME UNCHANGED <<job, lost>>, LetsGo(w) PROVE IInv'
  <2>2. PICK pc \in {"idle", "gone"} : Becomes(w, pc, NoJob, NoRev, "none")  BY <1>5 DEF LetsGo
  <2>3. TypeOK'  BY <1>0, <1>3, <1>5, <2>2 DEF TypeOK, Becomes
  <2>4. OnlyFor(k)  BY <1>0, <1>5 DEF OnlyFor
  <2>5. WorkerOK(w)' /\ JobOK(k)'
    BY <1>0, <1>1, <1>5, <2>2 DEF WorkerOK, Becomes, Busy, JobOK, Unbuilt, Findable
  <2>6. job'[k].status # "running" /\ ~Busy(w)'  BY <1>2, <1>5, <2>2 DEF Becomes, Busy
  <2> QED BY <1>0, <1>1, <2>2, <2>3, <2>4, <2>5, <2>6, WorkerStep DEF Becomes
<1>6. CASE CommitClaim(w)
  BY <1>0, <1>1, <1>4, <1>6 DEF CommitClaim, TypeOK
<1>7. CASE ClaimError(w)
  <2>1. LetsGo(w)  BY <1>0, <1>7, LoopedBecomes DEF ClaimError
  <2> QED BY <1>0, <1>1, <1>4, <1>5, <1>7, <2>1 DEF ClaimError, TypeOK
<1> QED BY <1>6, <1>7

LEMMA Finishing ==
    ASSUME IInv, NEW w \in Workers, Finish(w)
    PROVE  IInv'
<1>0. /\ Working(w) /\ Busy(w) /\ TypeOK /\ worker[w].pc \in {"succeed", "fail"}
      /\ UNCHANGED <<head, build, spent, lost, unpointed>>
  BY DEF Finish, Working, Busy, At, IInv
<1>1. PICK k \in Jobs : /\ k = worker[w].job /\ WorkerOK(w) /\ JobOK(k)
                        /\ job[k].status = "running" /\ job[k].rev \in Revs
                        /\ worker[w].last \in CloudStatus
  BY <1>0, AtWork
<1>2. PICK st \in {"succeeded", "failed"} :
         st = Outcome(w) /\ (st = "succeeded" => worker[w].pc = "succeed")
  BY DEF Outcome, At
<1>3. RowIs(k, st, job[k].rev, job[k].pointed, worker[w].last)
  BY <1>0, <1>1, <1>2, FinishSet DEF Finish
<1>4. PICK pc \in {"idle", "gone"} : Becomes(w, pc, NoJob, NoRev, "none")
  BY <1>0, LoopedBecomes DEF Finish, LetsGo
<1>5. TypeOK'  BY <1>0, <1>3, <1>4 DEF TypeOK, Becomes, RowIs
<1>6. OnlyFor(k)  BY <1>0, <1>3 DEF OnlyFor, RowIs
<1>7. ~Busy(w)' /\ WorkerOK(w)'  BY <1>4 DEF Becomes, Busy, WorkerOK
<1>8. worker[w].last \in CloudTerminal => worker[w].last = build[k].status
  BY <1>0, <1>1 DEF WorkerOK
<1>9. st = "succeeded" => /\ build[k] = [status |-> "succeeded", source |-> job[k].rev]
                          /\ worker[w].last = "succeeded"
  <2>1. build[k] \in Build  BY <1>0, <1>1 DEF TypeOK
  <2>2. st = "succeeded" => /\ worker[w].last = "succeeded" /\ build[k].status = "succeeded"
                            /\ build[k].source = job[k].rev
    BY <1>0, <1>1, <1>2, <1>8 DEF WorkerOK, Started, CloudTerminal
  <2> QED BY <2>1, <2>2 DEF Build
<1>10. JobOK(k)'
  BY <1>0, <1>1, <1>3, <1>8, <1>9 DEF JobOK, Findable, RowIs
<1>11. job'[k].status # "running"  BY <1>3 DEF RowIs
<1> QED BY <1>0, <1>1, <1>4, <1>5, <1>6, <1>7, <1>10, <1>11, WorkerStep DEF Becomes

\* A worker that leaves its job as it is and is gone, or goes on without it.
LEMMA Leaving ==
    ASSUME IInv, NEW w \in Workers, LetsGo(w), spent' \in [{"db", "exit"} -> Nat],
           UNCHANGED <<head, job, build>>,
           unpointed \subseteq unpointed',
           unpointed' \subseteq IF Busy(w) THEN unpointed \cup {worker[w].job} ELSE unpointed,
           lost' = IF worker[w].pc \in {"idle", "gone", "claim"} THEN lost
                   ELSE lost \cup {worker[w].job}
    PROVE  IInv'
<1>1. PICK pc \in {"idle", "gone"} : Becomes(w, pc, NoJob, NoRev, "none")  BY DEF LetsGo
<1>2. CASE Busy(w)
  <2>1. PICK k \in Jobs : k = worker[w].job /\ WorkerOK(w) /\ JobOK(k) /\ TypeOK
    BY <1>2, TheJob
  <2>2. TypeOK'  BY <1>1, <1>2, <2>1 DEF TypeOK, Becomes
  <2>3. OnlyFor(k)  BY DEF OnlyFor
  <2>4. ~Busy(w)' /\ WorkerOK(w)' /\ JobOK(k)'
    BY <1>1, <2>1 DEF Becomes, Busy, WorkerOK, JobOK, Unbuilt, Findable
  <2>5. job'[k].status = "running" => k \in lost'
    BY <1>2, <2>1 DEF WorkerOK, At, Busy
  <2> QED BY <1>1, <1>2, <2>1, <2>2, <2>3, <2>4, <2>5, WorkerStep DEF Becomes
<1>3. CASE ~Busy(w)
  <2>1. UNCHANGED <<lost, unpointed>> /\ TypeOK  BY <1>3 DEF Busy, IInv
  <2>2. TypeOK'  BY <1>1, <2>1 DEF TypeOK, Becomes
  <2>3. ~Busy(w)' /\ WorkerOK(w)'  BY <1>1 DEF Becomes, Busy, WorkerOK
  <2>4. \A v \in Workers \ {w} : worker'[v] = worker[v]  BY <1>1 DEF Becomes
  <2>5. \A v \in Workers : WorkerOK(v)'
    BY <2>1, <2>3, <2>4 DEF IInv, WorkerOK, Busy, Unbuilt, Findable
  <2>6. (\A j \in Jobs : JobOK(j)') /\ NoSharing'
    BY <2>1, <2>3, <2>4 DEF IInv, JobOK, Unbuilt, Findable, NoSharing, Busy
  <2>7. RunningIsRun'
    BY <1>3, <2>1, <2>4 DEF IInv, RunningIsRun, Working, Busy, At
  <2> QED BY <2>2, <2>5, <2>6, <2>7 DEF IInv
<1> QED BY <1>2, <1>3

LEMMA Stopping ==
    ASSUME IInv, NEW w \in Workers, Stop(w)
    PROVE  IInv'
<1>1. /\ TypeOK /\ UNCHANGED <<head, job, lost, build, unpointed>>
      /\ spent' \in [{"db", "exit"} -> Nat]
  BY DEF Stop, IInv, Spend, TypeOK
<1>2. PICK pc \in PCs : /\ Stays(w, pc, worker[w].rev, worker[w].last)
                        /\ pc = worker[w].pc \/ (worker[w].pc = "idle" /\ pc = "gone")
  BY <1>1, StopBecomes DEF PCs, TypeOK, Context
<1>3. TypeOK'  BY <1>1, <1>2 DEF TypeOK, Becomes, Stays
<1>4. \A v \in Workers : /\ worker'[v].job = worker[v].job /\ worker'[v].rev = worker[v].rev
                         /\ worker'[v].last = worker[v].last
                         /\ Busy(v)' <=> Busy(v)
                         /\ worker'[v].pc = worker[v].pc
                            \/ (worker[v].pc = "idle" /\ worker'[v].pc = "gone")
                         /\ worker'[v].stopping => Busy(v)
  BY <1>2 DEF Becomes, Stays, Busy, IInv, WorkerOK
<1>5. \A v \in Workers : WorkerOK(v)'
  <2> SUFFICES ASSUME NEW v \in Workers PROVE WorkerOK(v)'
    OBVIOUS
  <2>1. WorkerOK(v)  BY DEF IInv
  <2>2. CASE Busy(v)
    <3>1. worker'[v].pc = worker[v].pc  BY <1>4, <2>2 DEF Busy
    <3> QED BY <1>1, <1>4, <2>1, <2>2, <3>1 DEF WorkerOK, Unbuilt, Findable
  <2>3. CASE ~Busy(v)
    BY <1>4, <2>1, <2>3 DEF WorkerOK, Started, Busy
  <2> QED BY <2>2, <2>3
<1>6. (\A j \in Jobs : JobOK(j)') /\ NoSharing'
  BY <1>1, <1>4 DEF IInv, JobOK, Unbuilt, Findable, NoSharing
<1>7. RunningIsRun'  BY <1>1, <1>4 DEF IInv, RunningIsRun, Working, Busy, At
<1> QED BY <1>3, <1>5, <1>6, <1>7 DEF IInv

LEMMA Enqueueing ==
    ASSUME IInv, NEW j \in Jobs, Enqueue(j)
    PROVE  IInv'
<1>1. /\ TypeOK /\ job[j].status = "none" /\ JobOK(j) /\ head \in Revs
      /\ UNCHANGED <<head, worker, build, spent, lost, unpointed>>
  BY DEF Enqueue, IInv, TypeOK
<1>a. PICK seen \in 1 .. head : job' = [job EXCEPT ![j].status = "queued", ![j].rev = seen]
  BY DEF Enqueue
<1>b. seen \in Revs  BY <1>1, BuildAssumption DEF BuildAssumption, Revs
<1>2. RowIs(j, "queued", seen, job[j].pointed, job[j].cloud)
  BY <1>1, <1>a, <1>b, EnqueueSet
<1>3. TypeOK'  BY <1>1, <1>2 DEF TypeOK, RowIs
<1>4. \A v \in Workers : Busy(v) => worker[v].job # j
  BY <1>1 DEF IInv, WorkerOK
<1>5. \A v \in Workers : WorkerOK(v)'
  BY <1>1, <1>2, <1>4 DEF IInv, WorkerOK, Busy, Unbuilt, Findable, RowIs
<1>6. JobOK(j)'
  BY <1>1, <1>2, <1>b DEF JobOK, Unbuilt, Findable, RowIs, Revs
<1>7. \A i \in Jobs : JobOK(i)'
  BY <1>1, <1>2, <1>6 DEF IInv, JobOK, Unbuilt, Findable, RowIs
<1>8. NoSharing'  BY <1>1 DEF IInv, NoSharing, Busy
<1>9. RunningIsRun'
  BY <1>1, <1>2 DEF IInv, RunningIsRun, Working, Busy, At, RowIs
<1> QED BY <1>3, <1>5, <1>7, <1>8, <1>9 DEF IInv

\* Cloud moves a build that nobody has seen settled.
LEMMA Settling ==
    ASSUME IInv, NEW j \in Jobs, NEW s \in Endings, CloudSettles(j, s)
    PROVE  IInv'
<1>1. /\ TypeOK /\ JobOK(j) /\ build[j].status \in {"building", "queued"}
      /\ s \in CloudTerminal
      /\ UNCHANGED <<head, job, worker, spent, lost, unpointed>>
  BY BuildAssumption DEF CloudSettles, IInv, CloudTerminal
<1>2. BuildIs(j, s, build[j].source)
  BY <1>1, BuildSet DEF CloudSettles, CloudStatus
<1>3. TypeOK'  BY <1>1, <1>2 DEF TypeOK, BuildIs
<1>4. build[j].status \notin CloudTerminal \cup {"none"} /\ s \notin {"none", "queued"}
      /\ build[j].status # "succeeded"
  BY <1>1 DEF CloudTerminal
<1>5. \A v \in Workers : WorkerOK(v)'
  <2> SUFFICES ASSUME NEW v \in Workers PROVE WorkerOK(v)'
    OBVIOUS
  <2>1. WorkerOK(v)  BY DEF IInv
  <2>2. CASE ~Busy(v)  BY <1>1, <2>1, <2>2 DEF WorkerOK, Busy
  <2>3. CASE Busy(v) /\ worker[v].job # j
    BY <1>1, <1>2, <2>1, <2>3 DEF WorkerOK, Busy, Unbuilt, Findable, BuildIs
  <2>4. CASE Busy(v) /\ worker[v].job = j
    <3>1. \/ worker[v].pc \notin Before /\ worker[v].last \notin CloudTerminal
          \/ worker[v].pc \notin Started \cup {"fail"}
      BY <1>4, <2>1, <2>4 DEF WorkerOK, Unbuilt
    <3> QED BY <1>1, <1>2, <1>4, <2>1, <2>4, <3>1
            DEF WorkerOK, Busy, Unbuilt, Findable, BuildIs, CloudTerminal
  <2> QED BY <2>2, <2>3, <2>4
<1>6. \A i \in Jobs : JobOK(i)'
  <2>1. JobOK(j)'
    BY <1>1, <1>2, <1>4 DEF JobOK, Unbuilt, Findable, BuildIs
  <2> QED BY <1>1, <1>2, <2>1, ZenonT(40) DEF IInv, JobOK, Unbuilt, Findable, BuildIs
<1>7. NoSharing' /\ RunningIsRun'
  BY <1>1, SMTT(30) DEF IInv, NoSharing, RunningIsRun, Working, Busy, At
<1> QED BY <1>3, <1>5, <1>6, <1>7 DEF IInv

-----------------------------------------------------------------------------
LEMMA InitIInv == Init => IInv
<1> SUFFICES ASSUME Init PROVE IInv
  OBVIOUS
<1>1. TypeOK
  BY BuildAssumption, IdleContext
     DEF Init, TypeOK, JobRow, Build, Revs, CloudStatus
<1>2. \A w \in Workers : ~Busy(w) /\ ~worker[w].stopping /\ worker[w].last = "none"
  BY DEF Init, Busy, Idle
<1>3. \A j \in Jobs : Unbuilt(j) /\ job[j].status = "none"
  BY DEF Init, Unbuilt
<1>4. \A j \in Jobs : JobOK(j)  BY <1>3 DEF JobOK, Unbuilt, CloudTerminal
<1>5. \A w \in Workers : WorkerOK(w)  BY <1>2 DEF WorkerOK
<1>6. NoSharing /\ RunningIsRun  BY <1>2, <1>3 DEF NoSharing, RunningIsRun
<1> QED BY <1>1, <1>4, <1>5, <1>6 DEF IInv

LEMMA NextIInv == IInv /\ [Next]_vars => IInv'
<1> SUFFICES ASSUME IInv, [Next]_vars PROVE IInv'
  OBVIOUS
<1>0. TypeOK  BY DEF IInv
<1>1. ASSUME UNCHANGED <<job, worker, build, spent, lost, unpointed>>, head' \in Revs
      PROVE  IInv'
  BY <1>0, <1>1
     DEF IInv, TypeOK, NoSharing, WorkerOK, JobOK, RunningIsRun, Working, Busy, At, Unbuilt,
         Findable
<1>2. CASE UNCHANGED vars
  BY <1>0, <1>1, <1>2 DEF vars, TypeOK
<1>3. CASE MoveHead
  BY <1>0, <1>1, <1>3, BuildAssumption DEF MoveHead, TypeOK, Revs
<1>4. ASSUME NEW j \in Jobs, Enqueue(j) PROVE IInv'
  BY <1>4, Enqueueing
<1>5. ASSUME NEW j \in Jobs, NEW s \in Endings, CloudSettles(j, s) PROVE IInv'
  BY <1>5, Settling
<1>6. ASSUME NEW w \in Workers, Work(w) PROVE IInv'
  <2>1. CASE Restart(w)
    <3>1. LetsGo(w)  BY <1>0, <2>1, EndBecomes DEF Restart
    <3> QED BY <1>0, <2>1, <3>1, Leaving DEF Restart, At, TypeOK
  <2> QED BY <1>6, <2>1, Locking, Claiming, Preparing, Creating, Pointing, Uploading, Polling,
             Reflecting, GivingUp, Finishing DEF Work
<1>7. ASSUME NEW w \in Workers, FinishError(w) PROVE IInv'
  <2>1. LetsGo(w)  BY <1>0, <1>7, LoopedBecomes DEF FinishError
  <2>2. spent' \in [{"db", "exit"} -> Nat]  BY <1>0, <1>7 DEF FinishError, Spend, TypeOK
  <2> QED BY <1>7, <2>1, <2>2, Leaving DEF FinishError
<1>8. ASSUME NEW w \in Workers, Abandon(w) \/ Crash(w) PROVE IInv'
  <2>1. LetsGo(w)  BY <1>0, <1>8, EndBecomes DEF Abandon, Crash, Die
  <2>2. spent' \in [{"db", "exit"} -> Nat]
    BY <1>0, <1>8 DEF Abandon, Crash, Spend, TypeOK
  <2>3. ~At(w, "gone")
    BY <1>8 DEF IInv, WorkerOK, Abandon, Crash, Busy, At
  <2>4. /\ unpointed \subseteq unpointed'
        /\ unpointed' \subseteq IF Busy(w) THEN unpointed \cup {worker[w].job} ELSE unpointed
    BY <1>8 DEF Abandon, Crash, Die, At, Busy
  <2> QED BY <1>8, <2>1, <2>2, <2>3, <2>4, Leaving DEF Abandon, Crash, Die, At
<1>9. ASSUME NEW w \in Workers, Poll(w) PROVE IInv'
  BY <1>2, <1>9 DEF Poll
<1> QED BY <1>2, <1>3, <1>4, <1>5, <1>6, <1>7, <1>8, <1>9, Claiming, Stopping DEF Next

LEMMA SpecIInv == Spec => []IInv
BY InitIInv, NextIInv, PTL DEF Spec

-----------------------------------------------------------------------------
\* Every state of the queue is well typed.
THEOREM BuildTypeOK == Spec => []TypeOK
<1>1. IInv => TypeOK  BY DEF IInv
<1> QED BY SpecIInv, <1>1, PTL

\* However many workers there are, a job is in one worker's hands and creates at most
\* one Cloud build, and a running one is in somebody's unless its worker was lost
\* (claim, process, finish).
THEOREM BuildOwnership == Spec => []Ownership
<1>1. ASSUME IInv PROVE ExclusiveJobs
  BY <1>1 DEF IInv, NoSharing, ExclusiveJobs, WorkerOK, Working, Busy, At, Row, BuildOf,
     Before, Unbuilt
<1>2. IInv => Ownership  BY <1>1 DEF IInv, Ownership
<1> QED BY SpecIInv, <1>2, PTL

\* A succeeded job's build succeeded on Cloud from the revision frozen at enqueue
\* (track, finish).
THEOREM BuildSucceeded == Spec => []SucceededIsCloudSuccess
<1>1. IInv => SucceededIsCloudSuccess
  BY DEF IInv, JobOK, SucceededIsCloudSuccess
<1> QED BY SpecIInv, <1>1, PTL

\* A started build is found from its job unless recording its id is what failed, and a
\* terminal status shown on a job is Cloud's (SetCloudBuild, ReflectCloudStatus, fail).
THEOREM BuildPointerIsTrue == Spec => []PointerIsTrue
<1>1. IInv => PointerIsTrue
  BY DEF IInv, JobOK, Findable, PointerIsTrue, StartedIsPointed, ReflectedIsReal
<1> QED BY SpecIInv, <1>1, PTL

-----------------------------------------------------------------------------
(* What a step may do to a row.                                            *)

\* The steps that write rows, and what each writes.
LEMMA RowWrites ==
    ASSUME IInv, [Next]_vars, ~UNCHANGED job
    PROVE  \E k \in Jobs :
              \/ /\ job[k].status = "none"
                 /\ \E r \in Revs : RowIs(k, "queued", r, job[k].pointed, job[k].cloud)
              \/ /\ job[k].status = "queued"
                 /\ RowIs(k, "running", job[k].rev, job[k].pointed, job[k].cloud)
              \/ /\ job[k].status = "running"
                 /\ RowIs(k, "running", job[k].rev, TRUE, job[k].cloud)
              \/ /\ job[k].status = "running"
                 /\ \E st \in {"running", "succeeded", "failed"}, c \in CloudStatus :
                       /\ RowIs(k, st, job[k].rev, job[k].pointed, c)
                       /\ Rank(job[k].cloud) <= Rank(c)
<1>0. TypeOK /\ head \in Revs  BY DEF IInv, TypeOK
<1>1. CASE \E j \in Jobs : Enqueue(j)
  <2>1. PICK j \in Jobs : Enqueue(j)  BY <1>1
  <2>a. PICK seen \in 1 .. head : job' = [job EXCEPT ![j].status = "queued", ![j].rev = seen]
    BY <2>1 DEF Enqueue
  <2>b. seen \in Revs  BY <1>0, BuildAssumption DEF BuildAssumption, Revs
  <2>2. RowIs(j, "queued", seen, job[j].pointed, job[j].cloud)
    BY <1>0, <2>a, <2>b, EnqueueSet
  <2> QED BY <2>1, <2>b, <2>2 DEF Enqueue
<1>2. CASE \E w \in Workers : CommitClaim(w) \/ ClaimError(w)
  <2>1. PICK w \in Workers : CommitClaim(w) \/ ClaimError(w)  BY <1>2
  <2>2. Busy(w) /\ worker[w].pc = "claim"  BY <2>1 DEF CommitClaim, ClaimError, Busy, At
  <2>3. PICK k \in Jobs : k = worker[w].job /\ WorkerOK(w)  BY <2>2, TheJob
  <2>4. job' = [job EXCEPT ![k].status = "running"]
    BY <2>1, <2>3 DEF CommitClaim, ClaimError
  <2>5. RowIs(k, "running", job[k].rev, job[k].pointed, job[k].cloud)
    BY <1>0, <2>4, StatusSet
  <2> QED BY <2>2, <2>3, <2>5 DEF WorkerOK
<1>3. CASE \E w \in Workers : SetCloudBuild(w)
  <2>1. PICK w \in Workers : SetCloudBuild(w)  BY <1>3
  <2>2. Busy(w)  BY <2>1 DEF SetCloudBuild, Busy, At
  <2>3. PICK k \in Jobs : k = worker[w].job  BY <2>2, TheJob
  <2>4. job[k].status = "running" /\ job' = [job EXCEPT ![k].pointed = TRUE]
    BY <2>1, <2>3 DEF SetCloudBuild
  <2>5. RowIs(k, "running", job[k].rev, TRUE, job[k].cloud)
    BY <1>0, <2>4, PointSet
  <2> QED BY <2>4, <2>5
<1>4. CASE \E w \in Workers : Reflect(w) \/ Finish(w)
  <2>1. PICK w \in Workers : Reflect(w) \/ Finish(w)  BY <1>4
  <2>2. /\ Working(w) /\ Busy(w) /\ worker[w].pc \in Started \cup {"fail"}
    BY <2>1 DEF Reflect, Finish, Working, Busy, At, Started
  <2>3. PICK k \in Jobs : /\ k = worker[w].job /\ WorkerOK(w) /\ job[k].status = "running"
                          /\ worker[w].last \in CloudStatus
    BY <2>2, AtWork
  <2>4. Rank(job[k].cloud) <= Rank(worker[w].last)  BY <2>2, <2>3 DEF WorkerOK
  <2>5. PICK st \in {"succeeded", "failed"} : st = Outcome(w)  BY DEF Outcome
  <2>6. CASE Reflect(w)
    <3>1. job' = [job EXCEPT ![k].cloud = worker[w].last]  BY <2>3, <2>6 DEF Reflect
    <3>2. RowIs(k, "running", job[k].rev, job[k].pointed, worker[w].last)
      BY <1>0, <2>3, <3>1, CloudSet
    <3> QED BY <2>3, <2>4, <3>2
  <2>7. CASE Finish(w)
    <3>1. job' = [job EXCEPT ![k].status = st, ![k].cloud = worker[w].last]
      BY <2>3, <2>5, <2>7 DEF Finish
    <3>2. RowIs(k, st, job[k].rev, job[k].pointed, worker[w].last)
      BY <1>0, <2>3, <2>5, <3>1, FinishSet
    <3> QED BY <2>3, <2>4, <3>2
  <2> QED BY <2>1, <2>6, <2>7
<1> QED BY <1>1, <1>2, <1>3, <1>4 DEF Next, Work, vars, MoveHead, CloudSettles, Poll,
     FinishError, Stop, Abandon, Crash, Die, LockOldest, LoadRevision, AssembleTarGz,
     CreateBuild, UploadSource, Observe, GiveUp, Restart

\* The Cloud status a job shows never moves backwards (ReflectCloudStatus, finish).
THEOREM BuildReflectionNeverRegresses == Spec => ReflectionNeverRegresses
<1>1. ASSUME IInv, [Next]_vars, NEW j \in Jobs
      PROVE  Rank(job[j].cloud) <= Rank(job'[j].cloud)
  <2>1. Rank(job[j].cloud) \in 0 .. 3  BY DEF Rank
  <2>2. CASE UNCHANGED job  BY <2>1, <2>2
  <2>3. CASE ~UNCHANGED job
    <3>1. PICK k \in Jobs, c \in CloudStatus :
             /\ \A i \in Jobs \ {k} : job'[i] = job[i]
             /\ job'[k].cloud = c
             /\ c = job[k].cloud \/ Rank(job[k].cloud) <= Rank(c)
      BY <1>1, <2>3, RowWrites DEF RowIs, IInv, TypeOK, JobRow
    <3> QED BY <2>1, <3>1
  <2> QED BY <2>2, <2>3
<1>2. IInv /\ [Next]_vars =>
         [\A j \in Jobs : Rank(job[j].cloud) <= Rank(job'[j].cloud)]_vars
  BY <1>1
<1> QED BY SpecIInv, <1>2, PTL DEF Spec, ReflectionNeverRegresses

\* What the lifecycle sees.
statuses == [j \in Jobs |-> job[j].status]

LEMMA RowMoves ==
    ASSUME NEW k \in Jobs, NEW st, NEW r, NEW p, NEW c, RowIs(k, st, r, p, c)
    PROVE  statuses' = [statuses EXCEPT ![k] = st]
<1>1. statuses' = [j \in Jobs |-> job'[j].status]  BY DEF statuses
<1>2. statuses' = [j \in Jobs |-> IF j = k THEN st ELSE job[j].status]
  BY <1>1 DEF RowIs
<1> QED BY <1>2 DEF statuses

\* What a step does to the rows is a step of the lifecycle, or nothing.
LEMMA StepKeepsLifecycle ==
    ASSUME IInv, [Next]_vars
    PROVE  [Lifecycle!Next]_statuses
<1> SUFFICES ASSUME ~UNCHANGED job PROVE [Lifecycle!Next]_statuses
  BY DEF statuses
<1>1. PICK k \in Jobs, st \in {"queued", "running", "succeeded", "failed"} :
         /\ statuses' = [statuses EXCEPT ![k] = st]
         /\ \/ job[k].status = "none" /\ st = "queued"
            \/ job[k].status = "queued" /\ st = "running"
            \/ job[k].status = "running" /\ st # "queued"
  BY RowWrites, RowMoves
<1>2. statuses[k] = job[k].status /\ DOMAIN statuses = Jobs  BY DEF statuses
<1>3. CASE st = job[k].status
  BY <1>1, <1>2, <1>3 DEF statuses
<1>4. CASE st # job[k].status
  BY <1>1, <1>2, <1>4
     DEF Lifecycle!Next, Lifecycle!Enqueue, Lifecycle!Claim, Lifecycle!Finish,
         Lifecycle!Moves, statuses
<1> QED BY <1>3, <1>4

\* A job is queued once, claimed at most once, ends at most once, and an ending is
\* final, whatever the workers, Cloud and the faults (claim and finish implement it).
THEOREM BuildImplementsLifecycle == Spec => LifecycleSpec
<1>1. Init => Lifecycle!Init
  BY DEF Init, Lifecycle!Init
<1>2. IInv /\ [Next]_vars => [Lifecycle!Next]_statuses
  BY StepKeepsLifecycle
<1> QED BY SpecIInv, <1>1, <1>2, PTL DEF Spec, LifecycleSpec, Lifecycle!Spec, statuses
=============================================================================
