-------------------------- MODULE ExportQueueProofs --------------------------
(***************************************************************************)
(* The safety of the export queue for any jobs, workers, names and faults, *)
(* and that it keeps the lifecycle it promises.                            *)
(*                                                                         *)
(* The argument: the row lock and the status give a job to one worker; a   *)
(* repository's name is free when it is made and only its maker's job ever *)
(* touches it, so what one worker knows of its repository stays true while *)
(* the others work.                                                        *)
(***************************************************************************)
EXTENDS ExportQueue, TLAPS

Loaded  == {"token", "create", "assemble", "push", "ref", "succeed"}
Holding == {"assemble", "push", "ref", "rollback", "succeed"}
Before  == {"claim", "load", "token", "create"}

NothingOf(j) == \A n \in Names : repo[n].maker # j

\* What a worker knows at each place of RunOnce.
WorkerOK(w) ==
    LET j == worker[w].job
    IN  /\ worker[w].stopping => Busy(w)
        /\ Busy(w) =>
             /\ j \in Jobs
             /\ job[j].name \in Names
             /\ job[j].status = IF At(w, "claim") THEN "queued" ELSE "running"
             /\ worker[w].pc \in Loaded => worker[w].rev = job[j].rev
             /\ worker[w].pc \in Before => NothingOf(j)
             /\ worker[w].pc \in Holding => repo[job[j].name].maker = j
             /\ At(w, "succeed") => repo[job[j].name].content = worker[w].rev
             /\ At(w, "fail") => j \in orphans \/ NothingOf(j)

\* What a row says of the account.
JobOK(j) ==
    /\ job[j].status # "none" => job[j].name \in Names
    /\ job[j].status \in {"none", "queued"} => NothingOf(j)
    /\ job[j].status = "succeeded" =>
          repo[job[j].name] = [maker |-> j, content |-> job[j].rev]
    /\ job[j].status = "failed" => j \in orphans \/ NothingOf(j)
    /\ \A n \in Names : repo[n].maker = j => job[j].name = n

NoSharing == \A v, w \in Workers : v # w /\ Busy(v) /\ Busy(w) => worker[v].job # worker[w].job

IInv ==
    /\ TypeOK
    /\ NoSharing
    /\ \A w \in Workers : WorkerOK(w)
    /\ \A j \in Jobs : JobOK(j)
    /\ RunningIsRun

-----------------------------------------------------------------------------
(* What the assignments to a worker's record come to.                      *)

Becomes(w, pc, j, rev) ==
    /\ worker' \in [Workers -> Context]
    /\ \A v \in Workers \ {w} : worker'[v] = worker[v]
    /\ worker'[w].pc = pc /\ worker'[w].job = j /\ worker'[w].rev = rev
    /\ worker'[w].stopping => pc \notin {"idle", "gone"}

LEMMA GotoBecomes ==
    ASSUME TypeOK, NEW w \in Workers, NEW pc \in PCs, Goto(w, pc),
           worker[w].stopping => pc \notin {"idle", "gone"}
    PROVE  Becomes(w, pc, worker[w].job, worker[w].rev)
<1> DEFINE t == [worker[w] EXCEPT !.pc = pc]
<1>1. worker[w] \in Context  BY DEF TypeOK
<1>2. t \in Context /\ t.pc = pc /\ t.job = worker[w].job /\ t.rev = worker[w].rev
      /\ t.stopping = worker[w].stopping
  BY <1>1 DEF Context
<1>3. worker' = [worker EXCEPT ![w] = t]  BY DEF Goto, TypeOK
<1> HIDE DEF t
<1> QED BY <1>2, <1>3 DEF Becomes, TypeOK

LEMMA LockBecomes ==
    ASSUME TypeOK, NEW w \in Workers, NEW j \in Jobs,
           worker' = [worker EXCEPT ![w].pc = "claim", ![w].job = j]
    PROVE  Becomes(w, "claim", j, worker[w].rev)
<1> DEFINE s == [worker[w] EXCEPT !.pc = "claim"]
           t == [s EXCEPT !.job = j]
<1>1. worker[w] \in Context  BY DEF TypeOK
<1>2. s \in Context /\ s.pc = "claim" /\ s.rev = worker[w].rev  BY <1>1 DEF Context, PCs
<1>3. worker' = [worker EXCEPT ![w] = t]  BY DEF TypeOK
<1> HIDE DEF s
<1>4. t \in Context /\ t.pc = "claim" /\ t.job = j /\ t.rev = worker[w].rev
  BY <1>2 DEF Context
<1> HIDE DEF t
<1> QED BY <1>3, <1>4 DEF Becomes, TypeOK

LEMMA LoadBecomes ==
    ASSUME TypeOK, NEW w \in Workers, NEW r \in Revs \cup {0},
           worker' = [worker EXCEPT ![w].pc = "token", ![w].rev = r]
    PROVE  Becomes(w, "token", worker[w].job, r)
<1> DEFINE s == [worker[w] EXCEPT !.pc = "token"]
           t == [s EXCEPT !.rev = r]
<1>1. worker[w] \in Context  BY DEF TypeOK
<1>2. s \in Context /\ s.pc = "token" /\ s.job = worker[w].job  BY <1>1 DEF Context, PCs
<1>3. worker' = [worker EXCEPT ![w] = t]  BY DEF TypeOK
<1> HIDE DEF s
<1>4. t \in Context /\ t.pc = "token" /\ t.job = worker[w].job /\ t.rev = r
  BY <1>2 DEF Context
<1> HIDE DEF t
<1> QED BY <1>3, <1>4 DEF Becomes, TypeOK

\* The worker has no job any more, whether its loop goes on or its process ended.
LetsGo(w) == \E pc \in {"idle", "gone"} : Becomes(w, pc, NoJob, 0)

LEMMA IdleContext ==
    /\ Idle \in Context /\ Idle.pc = "idle" /\ Idle.job = NoJob /\ Idle.rev = 0
    /\ ~Idle.stopping
    /\ LET g == [Idle EXCEPT !.pc = "gone"]
       IN  g \in Context /\ g.pc = "gone" /\ g.job = NoJob /\ g.rev = 0 /\ ~g.stopping
<1>1. /\ Idle \in Context /\ Idle.pc = "idle" /\ Idle.job = NoJob /\ Idle.rev = 0
      /\ ~Idle.stopping
  BY DEF Idle, Context, PCs
<1> QED BY <1>1 DEF Context, PCs

LEMMA EndBecomes ==
    ASSUME TypeOK, NEW w \in Workers, NEW t \in {Idle, [Idle EXCEPT !.pc = "gone"]},
           worker' = [worker EXCEPT ![w] = t]
    PROVE  LetsGo(w)
BY IdleContext DEF LetsGo, Becomes, TypeOK

LEMMA LoopedBecomes ==
    ASSUME TypeOK, NEW w \in Workers, worker' = Looped(w)
    PROVE  LetsGo(w)
BY EndBecomes DEF Looped

LEMMA StopBecomes ==
    ASSUME TypeOK, NEW w \in Workers, Stop(w)
    PROVE  \/ worker[w].pc = "idle" /\ Becomes(w, "gone", worker[w].job, worker[w].rev)
           \/ worker[w].pc # "idle" /\ Becomes(w, worker[w].pc, worker[w].job, worker[w].rev)
<1>1. worker[w] \in Context  BY DEF TypeOK
<1>2. CASE At(w, "idle")
  <2>1. Goto(w, "gone")  BY <1>2 DEF Stop, Goto
  <2> QED BY <1>2, <2>1, GotoBecomes DEF At, PCs, Stop
<1>3. CASE ~At(w, "idle")
  <2> DEFINE t == [worker[w] EXCEPT !.stopping = TRUE]
  <2>1. t \in Context /\ t.pc = worker[w].pc /\ t.job = worker[w].job /\ t.rev = worker[w].rev
    BY <1>1 DEF Context
  <2>2. worker' = [worker EXCEPT ![w] = t]  BY <1>3 DEF Stop, TypeOK
  <2> HIDE DEF t
  <2>3. worker[w].pc # "gone"  BY DEF Stop, At
  <2> QED BY <1>3, <2>1, <2>2, <2>3 DEF Becomes, TypeOK, At
<1> QED BY <1>2, <1>3

-----------------------------------------------------------------------------
(* A step of one worker, seen from the others.                             *)

\* Rows, repositories and faults change for the job k only.
OnlyFor(k) ==
    /\ \A j \in Jobs \ {k} : job'[j] = job[j]
    /\ \A n \in Names : \/ repo'[n] = repo[n]
                        \/ repo[n].maker \in {NoJob, k} /\ repo'[n].maker \in {NoJob, k}
    /\ orphans \subseteq orphans' /\ lost \subseteq lost'

LEMMA OthersKeep ==
    ASSUME IInv, NEW w \in Workers, NEW k, OnlyFor(k),
           \A v \in Workers \ {w} : worker'[v] = worker[v],
           \A v \in Workers \ {w} : Busy(v) => worker[v].job # k
    PROVE  /\ \A v \in Workers \ {w} : WorkerOK(v)'
           /\ \A j \in Jobs \ {k} : JobOK(j)'
<1>1. ASSUME NEW v \in Workers \ {w} PROVE WorkerOK(v)'
  <2>1. worker'[v] = worker[v] /\ WorkerOK(v)  BY DEF IInv
  <2> SUFFICES ASSUME Busy(v) PROVE WorkerOK(v)'
    BY <2>1 DEF WorkerOK, Busy
  <2>2. PICK j \in Jobs \ {k} : j = worker[v].job /\ j # NoJob /\ job'[j] = job[j]
    BY <2>1, ExportAssumption DEF WorkerOK, NoJob, OnlyFor
  <2>3. /\ NothingOf(j) => NothingOf(j)'
        /\ repo[job[j].name].maker = j => repo'[job[j].name] = repo[job[j].name]
    BY <2>1, <2>2 DEF OnlyFor, NothingOf, WorkerOK
  <2>4. orphans \subseteq orphans'  BY DEF OnlyFor
  <2> QED BY <2>1, <2>2, <2>3, <2>4 DEF WorkerOK, Busy, At, Holding
<1>2. ASSUME NEW j \in Jobs \ {k} PROVE JobOK(j)'
  <2>1. JobOK(j) /\ j # NoJob  BY ExportAssumption DEF IInv, NoJob
  <2> QED BY <2>1 DEF JobOK, OnlyFor, NothingOf
<1> QED BY <1>1, <1>2

\* A worker with a job keeps the invariant if it keeps it for itself and its job.
LEMMA WorkerStep ==
    ASSUME IInv, NEW w \in Workers, NEW k \in Jobs, Busy(w), k = worker[w].job, TypeOK',
           OnlyFor(k), \A v \in Workers \ {w} : worker'[v] = worker[v],
           Busy(w)' => worker'[w].job = k,
           WorkerOK(w)', JobOK(k)',
           job'[k].status = "running" => Working(w)' \/ k \in lost'
    PROVE  IInv'
<1>1. \A v \in Workers \ {w} : Busy(v) => worker[v].job # k  BY DEF IInv, NoSharing
<1>2. (\A v \in Workers \ {w} : WorkerOK(v)') /\ (\A j \in Jobs \ {k} : JobOK(j)')
  BY <1>1, OthersKeep
<1>3. (\A v \in Workers : WorkerOK(v)') /\ (\A j \in Jobs : JobOK(j)')  BY <1>2
<1>4. NoSharing'
  BY <1>1 DEF IInv, NoSharing, Busy
<1>5. RunningIsRun'
  <2> SUFFICES ASSUME NEW j \in Jobs \ lost', job'[j].status = "running"
               PROVE  \E v \in Workers : Working(v)' /\ worker'[v].job = j
    BY DEF RunningIsRun
  <2>1. CASE j = k
    BY <2>1 DEF Working, Busy
  <2>2. CASE j # k
    <3>1. PICK v \in Workers : Working(v) /\ worker[v].job = j
      BY <2>2 DEF IInv, RunningIsRun, OnlyFor
    <3> QED BY <3>1, <2>2 DEF Working, Busy, At
  <2> QED BY <2>1, <2>2
<1> QED BY <1>3, <1>4, <1>5 DEF IInv

-----------------------------------------------------------------------------
(* The steps.                                                              *)

LEMMA TheJob ==
    ASSUME IInv, NEW w \in Workers, Busy(w)
    PROVE  \E k \in Jobs : /\ k = worker[w].job /\ k # NoJob
                           /\ WorkerOK(w) /\ JobOK(k) /\ TypeOK
                           /\ job[k] \in JobRow /\ job[k].name \in Names
                           /\ worker[w] \in Context
BY ExportAssumption DEF IInv, WorkerOK, NoJob, TypeOK

\* The account and the rows stay as they are: the worker goes on, or gives up.
LEMMA Goes ==
    ASSUME IInv, NEW w \in Workers, Busy(w), NEW pc \in PCs, NEW r \in Revs \cup {0},
           Becomes(w, pc, worker[w].job, r),
           UNCHANGED <<head, job, repo, spent, lost, orphans>>,
           At(w, "claim") <=> pc = "claim", pc \notin {"idle", "gone"},
           pc \in Loaded => r = job[worker[w].job].rev,
           pc \in Before => worker[w].pc \in Before,
           pc \in Holding => worker[w].pc \in Holding,
           pc = "succeed" => At(w, "succeed") /\ r = worker[w].rev,
           pc = "fail" => worker[w].pc \in Before \cup {"fail"}
    PROVE  IInv'
<1>1. PICK k \in Jobs : /\ k = worker[w].job /\ WorkerOK(w) /\ JobOK(k) /\ TypeOK
                        /\ job[k].name \in Names
  BY TheJob
<1>2. TypeOK'  BY <1>1 DEF TypeOK, Becomes
<1>3. WorkerOK(w)'
  BY <1>1 DEF WorkerOK, Becomes, At, Busy, NothingOf, Before, Holding
<1>4. JobOK(k)'  BY <1>1 DEF JobOK, NothingOf
<1>5. OnlyFor(k)  BY DEF OnlyFor
<1>6. job'[k].status = "running" => Working(w)'
  BY <1>1 DEF WorkerOK, Working, Busy, At, Becomes
<1> QED BY <1>1, <1>2, <1>3, <1>4, <1>5, <1>6, WorkerStep DEF Becomes

LEMMA Processing ==
    ASSUME IInv, NEW w \in Workers,
           LoadRevision(w) \/ LoadToken(w) \/ Assemble(w) \/ PushObjects(w)
    PROVE  IInv'
<1>1. Busy(w) /\ TypeOK /\ UNCHANGED <<head, job, repo, spent, lost, orphans>>
  BY DEF LoadRevision, LoadToken, Assemble, PushObjects, At, Busy, IInv, github
<1>2. PICK k \in Jobs : /\ k = worker[w].job /\ WorkerOK(w) /\ worker[w] \in Context
                        /\ job[k] \in JobRow
  BY <1>1, TheJob
<1>3. worker[w].rev \in Revs \cup {0} /\ job[k].rev \in Revs \cup {0}
  BY <1>2 DEF Context, JobRow
<1>4. \A pc \in PCs \ {"idle", "gone"} :
          Goto(w, pc) => Becomes(w, pc, worker[w].job, worker[w].rev)
  BY <1>1, GotoBecomes
<1> USE DEF PCs, At, Loaded, Before, Holding
<1>5. CASE LoadRevision(w)
  <2>1. CASE worker' = [worker EXCEPT ![w].pc = "token", ![w].rev = Row(w).rev]
    <3>1. Becomes(w, "token", worker[w].job, job[k].rev)
      BY <1>1, <1>2, <1>3, <2>1, LoadBecomes DEF Row
    <3> QED BY <1>1, <1>2, <1>3, <1>5, <3>1, Goes DEF LoadRevision
  <2>2. CASE Goto(w, "fail")
    BY <1>1, <1>3, <1>4, <1>5, <2>2, Goes DEF LoadRevision
  <2> QED BY <1>5, <2>1, <2>2 DEF LoadRevision
<1>6. CASE LoadToken(w)
  BY <1>1, <1>2, <1>3, <1>4, <1>6, Goes DEF LoadToken, WorkerOK
<1>7. CASE Assemble(w)
  BY <1>1, <1>2, <1>3, <1>4, <1>7, Goes DEF Assemble, WorkerOK
<1>8. CASE PushObjects(w)
  BY <1>1, <1>2, <1>3, <1>4, <1>8, Goes DEF PushObjects, WorkerOK
<1> QED BY <1>5, <1>6, <1>7, <1>8

LEMMA Creating ==
    ASSUME IInv, NEW w \in Workers, CreateRepository(w)
    PROVE  IInv'
<1>0. Busy(w) /\ TypeOK /\ At(w, "create")  BY DEF CreateRepository, At, Busy, IInv
<1>1. PICK k \in Jobs : /\ k = worker[w].job /\ k # NoJob /\ WorkerOK(w) /\ JobOK(k)
                        /\ job[k] \in JobRow /\ job[k].name \in Names /\ worker[w] \in Context
  BY <1>0, TheJob
<1> DEFINE n == job[k].name
           made == [maker |-> k, content |-> Empty]
<1>2. /\ UNCHANGED <<head, job, spent, lost>>
      /\ \/ /\ repo[n] = NoRepo /\ repo' = [repo EXCEPT ![n] = made]
            /\ Goto(w, "assemble") /\ UNCHANGED orphans
         \/ /\ repo[n] = NoRepo /\ repo' = [repo EXCEPT ![n] = made]
            /\ Goto(w, "fail") /\ orphans' = orphans \cup {k}
         \/ Goto(w, "fail") /\ UNCHANGED <<repo, orphans>>
  BY <1>1 DEF CreateRepository, Row
<1>3. PICK pc \in {"assemble", "fail"} : Becomes(w, pc, k, worker[w].rev) /\ Goto(w, pc)
  BY <1>0, <1>1, <1>2, GotoBecomes DEF PCs
<1>4. job[k].status = "running" /\ NothingOf(k)
      /\ job[k].status # "queued" /\ worker[w].rev = job[k].rev
  BY <1>0, <1>1 DEF WorkerOK, At, Before, Loaded
<1>5. made \in [maker : Jobs \cup {NoJob}, content : Revs \cup {Empty}]
      /\ made.maker = k /\ NoRepo.maker = NoJob
  BY DEF NoRepo
<1> HIDE DEF made
<1>6. CASE UNCHANGED <<repo, orphans>> /\ Goto(w, "fail")
  <2>1. Becomes(w, "fail", k, worker[w].rev)  BY <1>0, <1>1, <1>6, GotoBecomes DEF PCs
  <2>2. worker[w].rev \in Revs \cup {0}  BY <1>1 DEF Context
  <2>3. /\ "fail" \in PCs \ (Loaded \cup Before \cup Holding)
        /\ worker[w].pc = "create" /\ "create" \in Before
        /\ ~At(w, "claim")
    BY <1>0 DEF At, PCs, Loaded, Before, Holding
  <2>4. UNCHANGED <<head, job, repo, spent, lost, orphans>>  BY <1>2, <1>6
  <2> QED BY <1>0, <1>1, <2>1, <2>2, <2>3, <2>4, Goes
<1>7. ASSUME repo[n] = NoRepo, repo' = [repo EXCEPT ![n] = made],
             \/ pc = "assemble" /\ UNCHANGED orphans
             \/ pc = "fail" /\ orphans' = orphans \cup {k}
      PROVE  IInv'
  <2>1. TypeOK'  BY <1>0, <1>1, <1>2, <1>3, <1>5, <1>7 DEF TypeOK, Becomes
  <2>2. repo'[n] = made /\ \A m \in Names \ {n} : repo'[m] = repo[m]
    BY <1>0, <1>1, <1>7 DEF TypeOK
  <2>3. OnlyFor(k)  BY <1>2, <1>5, <1>7, <2>2 DEF OnlyFor
  <2>4. WorkerOK(w)'
    BY <1>1, <1>2, <1>3, <1>4, <1>5, <1>7, <2>2, SMTT(30)
       DEF WorkerOK, Becomes, At, Busy, Loaded, Before, Holding
  <2>5. JobOK(k)'
    BY <1>1, <1>2, <1>4, <1>5, <2>2 DEF JobOK, NothingOf
  <2>6. Working(w)'  BY <1>3 DEF Becomes, Working, Busy, At
  <2> QED BY <1>0, <1>1, <1>3, <2>1, <2>3, <2>4, <2>5, <2>6, WorkerStep DEF Becomes
<1>8. Goto(w, "assemble") => pc = "assemble"
  BY <1>0, <1>1, <1>3, GotoBecomes DEF Becomes, PCs
<1>9. Goto(w, "fail") => pc = "fail"
  BY <1>0, <1>1, <1>3, GotoBecomes DEF Becomes, PCs
<1> QED BY <1>2, <1>6, <1>7, <1>8, <1>9

LEMMA Publishing ==
    ASSUME IInv, NEW w \in Workers, CreateRef(w)
    PROVE  IInv'
<1>0. Busy(w) /\ TypeOK /\ At(w, "ref")  BY DEF CreateRef, At, Busy, IInv
<1>1. PICK k \in Jobs : /\ k = worker[w].job /\ k # NoJob /\ WorkerOK(w) /\ JobOK(k)
                        /\ job[k] \in JobRow /\ job[k].name \in Names /\ worker[w] \in Context
  BY <1>0, TheJob
<1> DEFINE n == job[k].name
<1>2. /\ UNCHANGED <<head, job, spent, lost, orphans>>
      /\ \/ repo' = [repo EXCEPT ![n].content = worker[w].rev] /\ Goto(w, "succeed")
         \/ repo' = [repo EXCEPT ![n].content = worker[w].rev] /\ Goto(w, "rollback")
         \/ UNCHANGED repo /\ Goto(w, "rollback")
  BY <1>1 DEF CreateRef, Row
<1>4. /\ job[k].status = "running" /\ worker[w].rev = job[k].rev /\ repo[n].maker = k
      /\ worker[w].rev \in Revs \cup {0}
  BY <1>0, <1>1 DEF WorkerOK, At, Before, Loaded, Holding, Context
<1>6. CASE UNCHANGED repo /\ Goto(w, "rollback")
  <2>1. Becomes(w, "rollback", k, worker[w].rev)  BY <1>0, <1>1, <1>6, GotoBecomes DEF PCs
  <2> QED BY <1>0, <1>1, <1>2, <1>4, <1>6, <2>1, Goes
          DEF At, PCs, Loaded, Before, Holding
<1>7. ASSUME NEW pc \in {"succeed", "rollback"}, Goto(w, pc),
             repo' = [repo EXCEPT ![n].content = worker[w].rev]
      PROVE  IInv'
  <2>a. Becomes(w, pc, k, worker[w].rev)  BY <1>0, <1>1, <1>7, GotoBecomes DEF PCs
  <2>2. /\ repo' \in [Names -> [maker : Jobs \cup {NoJob}, content : Revs \cup {Empty}]]
        /\ repo'[n].maker = k /\ repo'[n].content = worker[w].rev
        /\ \A m \in Names \ {n} : repo'[m] = repo[m]
    BY <1>0, <1>1, <1>4, <1>7 DEF TypeOK, Empty
  <2>1. TypeOK'  BY <1>0, <1>2, <2>a, <2>2 DEF TypeOK, Becomes
  <2>3. OnlyFor(k)  BY <1>2, <1>4, <2>2 DEF OnlyFor
  <2>4. WorkerOK(w)'
    BY <1>1, <1>2, <1>4, <2>a, <2>2
       DEF WorkerOK, Becomes, At, Busy, Loaded, Before, Holding
  <2>5. JobOK(k)'
    BY <1>1, <1>2, <1>4, <2>2 DEF JobOK, NothingOf
  <2>6. Working(w)'  BY <2>a DEF Becomes, Working, Busy, At
  <2> QED BY <1>0, <1>1, <2>a, <2>1, <2>3, <2>4, <2>5, <2>6, WorkerStep DEF Becomes
<1> QED BY <1>2, <1>6, <1>7

LEMMA RollingBack ==
    ASSUME IInv, NEW w \in Workers, Rollback(w)
    PROVE  IInv'
<1>0. Busy(w) /\ TypeOK /\ At(w, "rollback")  BY DEF Rollback, At, Busy, IInv
<1>1. PICK k \in Jobs : /\ k = worker[w].job /\ k # NoJob /\ WorkerOK(w) /\ JobOK(k)
                        /\ job[k] \in JobRow /\ job[k].name \in Names /\ worker[w] \in Context
  BY <1>0, TheJob
<1> DEFINE n == job[k].name
<1>2. /\ UNCHANGED <<head, job, spent, lost>> /\ Goto(w, "fail")
      /\ \/ repo' = [repo EXCEPT ![n] = NoRepo] /\ UNCHANGED orphans
         \/ UNCHANGED repo /\ orphans' = orphans \cup {k}
  BY <1>1 DEF Rollback, Row
<1>3. Becomes(w, "fail", k, worker[w].rev)  BY <1>0, <1>1, <1>2, GotoBecomes DEF PCs
<1>4. job[k].status = "running" /\ repo[n].maker = k
  BY <1>0, <1>1 DEF WorkerOK, At, Holding
<1>5. NoRepo \in [maker : Jobs \cup {NoJob}, content : Revs \cup {Empty}]
      /\ NoRepo.maker = NoJob
  BY DEF NoRepo
<1>6. \/ UNCHANGED repo /\ orphans' = orphans \cup {k}
      \/ repo'[n] = NoRepo /\ \A m \in Names \ {n} : repo'[m] = repo[m]
  BY <1>0, <1>1, <1>2 DEF TypeOK
<1>7. k \in orphans' \/ NothingOf(k)'
  BY <1>1, <1>2, <1>5, <1>6 DEF NothingOf, JobOK
<1>8. TypeOK'  BY <1>0, <1>1, <1>2, <1>3, <1>5 DEF TypeOK, Becomes
<1>9. OnlyFor(k)  BY <1>2, <1>4, <1>5, <1>6 DEF OnlyFor
<1>10. WorkerOK(w)'
  BY <1>1, <1>2, <1>3, <1>4, <1>7 DEF WorkerOK, Becomes, At, Busy, Loaded, Before, Holding
<1>11. JobOK(k)'
  BY <1>1, <1>2, <1>4, <1>5, <1>6 DEF JobOK
<1>12. Working(w)'  BY <1>3 DEF Becomes, Working, Busy, At
<1> QED BY <1>0, <1>1, <1>3, <1>8, <1>9, <1>10, <1>11, <1>12, WorkerStep DEF Becomes

LEMMA Locking ==
    ASSUME IInv, NEW w \in Workers, LockOldest(w)
    PROVE  IInv'
<1>1. PICK k \in Claimable : worker' = [worker EXCEPT ![w].pc = "claim", ![w].job = k]
  BY DEF LockOldest
<1>2. /\ TypeOK /\ At(w, "idle") /\ UNCHANGED <<head, job, spent, lost, repo, orphans>>
      /\ k \in Jobs /\ job[k].status = "queued" /\ k \notin Locked
  BY <1>1 DEF IInv, LockOldest, Claimable, github
<1>3. Becomes(w, "claim", k, worker[w].rev)  BY <1>1, <1>2, LockBecomes
<1>4. \A v \in Workers \ {w} : Busy(v) => worker[v].job # k
  BY <1>2 DEF IInv, WorkerOK, Locked, At, Busy
<1>5. OnlyFor(k)  BY <1>2 DEF OnlyFor
<1>6. \A v \in Workers \ {w} : WorkerOK(v)'
  BY <1>3, <1>4, <1>5, OthersKeep DEF Becomes
<1>7. JobOK(k)  BY <1>2 DEF IInv
<1>8. WorkerOK(w)'
  BY <1>2, <1>3, <1>7 DEF WorkerOK, Becomes, At, Busy, JobOK, NothingOf, Loaded, Before, Holding
<1>9. \A j \in Jobs : JobOK(j)'  BY <1>2 DEF IInv, JobOK, NothingOf
<1>10. NoSharing'  BY <1>3, <1>4 DEF IInv, NoSharing, Becomes, Busy
<1>11. RunningIsRun'
  <2> SUFFICES ASSUME NEW j \in Jobs \ lost, job[j].status = "running"
               PROVE  \E v \in Workers : Working(v)' /\ worker'[v].job = j
    BY <1>2 DEF RunningIsRun
  <2>1. PICK v \in Workers : Working(v) /\ worker[v].job = j  BY DEF IInv, RunningIsRun
  <2>2. v # w  BY <1>2, <2>1 DEF Working, Busy, At
  <2> QED BY <1>3, <2>1, <2>2 DEF Becomes, Working, Busy, At
<1>12. TypeOK'  BY <1>2, <1>3 DEF TypeOK, Becomes
<1> QED BY <1>6, <1>8, <1>9, <1>10, <1>11, <1>12 DEF IInv

\* A change of a row's status alone.
LEMMA StatusSet ==
    ASSUME TypeOK, NEW k \in Jobs, NEW st \in {"queued", "running", "succeeded", "failed"},
           job' = [job EXCEPT ![k].status = st]
    PROVE  /\ job' \in [Jobs -> JobRow]
           /\ \A j \in Jobs \ {k} : job'[j] = job[j]
           /\ job'[k].status = st /\ job'[k].rev = job[k].rev /\ job'[k].name = job[k].name
<1>1. job \in [Jobs -> JobRow]  BY DEF TypeOK
<1>2. job[k] \in JobRow  BY <1>1
<1>3. [job[k] EXCEPT !.status = st] \in JobRow  BY <1>2 DEF JobRow
<1>4. job' = [job EXCEPT ![k] = [job[k] EXCEPT !.status = st]]  BY <1>1
<1>5. job'[k] = [job[k] EXCEPT !.status = st]  BY <1>1, <1>4
<1>6. /\ job'[k].status = st /\ job'[k].rev = job[k].rev /\ job'[k].name = job[k].name
  BY <1>2, <1>5 DEF JobRow
<1> QED BY <1>1, <1>3, <1>4, <1>6

LEMMA Claiming ==
    ASSUME IInv, NEW w \in Workers, CommitClaim(w) \/ ClaimError(w)
    PROVE  IInv'
<1>0. Busy(w) /\ TypeOK /\ At(w, "claim") /\ UNCHANGED <<head, repo, orphans>>
  BY DEF CommitClaim, ClaimError, At, Busy, IInv, github
<1>1. PICK k \in Jobs : /\ k = worker[w].job /\ k # NoJob /\ WorkerOK(w) /\ JobOK(k)
                        /\ job[k] \in JobRow /\ job[k].name \in Names /\ worker[w] \in Context
  BY <1>0, TheJob
<1>2. job[k].status = "queued" /\ NothingOf(k) /\ k # NoJob
  BY <1>0, <1>1 DEF WorkerOK, At, Before
<1>3. spent' \in [{"db", "crash", "stop"} -> Nat]
  BY <1>0 DEF CommitClaim, ClaimError, Spend, TypeOK
<1>4. ASSUME job' = [job EXCEPT ![k].status = "running"], lost \subseteq lost', lost' \subseteq Jobs,
             \/ Goto(w, "load")
             \/ LetsGo(w) /\ k \in lost'
      PROVE  IInv'
  <2>1. /\ job' \in [Jobs -> JobRow]
        /\ \A j \in Jobs \ {k} : job'[j] = job[j]
        /\ job'[k].status = "running" /\ job'[k].rev = job[k].rev /\ job'[k].name = job[k].name
    BY <1>0, <1>4, StatusSet
  <2>2. PICK pc \in {"load", "idle", "gone"}, j \in {k, NoJob}, r \in {worker[w].rev, 0} :
           /\ Becomes(w, pc, j, r)
           /\ pc = "load" => j = k
           /\ pc # "load" => k \in lost'
    BY <1>0, <1>1, <1>4, GotoBecomes DEF PCs, LetsGo
  <2>3. TypeOK'  BY <1>0, <1>3, <1>4, <2>1, <2>2 DEF TypeOK, Becomes
  <2>4. OnlyFor(k)  BY <1>0, <1>4, <2>1 DEF OnlyFor
  <2>5. WorkerOK(w)'
    BY <1>0, <1>1, <1>2, <2>1, <2>2 DEF WorkerOK, Becomes, At, Busy, Loaded, Before, Holding, NothingOf
  <2>6. JobOK(k)'  BY <1>0, <1>1, <2>1 DEF JobOK
  <2>7. Working(w)' \/ k \in lost'  BY <2>2 DEF Becomes, Working, Busy, At
  <2>8. Busy(w)' => worker'[w].job = k  BY <2>2 DEF Becomes, Busy
  <2> QED BY <1>0, <1>1, <2>2, <2>3, <2>4, <2>5, <2>6, <2>7, <2>8, WorkerStep DEF Becomes
<1>5. ASSUME UNCHANGED <<job, lost>>, LetsGo(w) PROVE IInv'
  <2>2. PICK pc \in {"idle", "gone"} : Becomes(w, pc, NoJob, 0)  BY <1>5 DEF LetsGo
  <2>3. TypeOK'  BY <1>0, <1>3, <1>5, <2>2 DEF TypeOK, Becomes
  <2>4. OnlyFor(k)  BY <1>0, <1>5 DEF OnlyFor
  <2>5. WorkerOK(w)' /\ JobOK(k)'
    BY <1>0, <1>1, <1>5, <2>2 DEF WorkerOK, Becomes, At, Busy, JobOK, NothingOf
  <2>6. job'[k].status # "running" /\ ~Busy(w)'  BY <1>2, <1>5, <2>2 DEF Becomes, Busy
  <2> QED BY <1>0, <1>1, <2>2, <2>3, <2>4, <2>5, <2>6, WorkerStep DEF Becomes
<1>6. CASE CommitClaim(w)
  BY <1>0, <1>1, <1>4, <1>6 DEF CommitClaim, TypeOK
<1>7. CASE ClaimError(w)
  <2>1. LetsGo(w)  BY <1>0, <1>7, LoopedBecomes DEF ClaimError
  <2> QED BY <1>0, <1>1, <1>4, <1>5, <1>7, <2>1 DEF ClaimError, TypeOK
<1> QED BY <1>6, <1>7

LEMMA Finishing ==
    ASSUME IInv, NEW w \in Workers, Finish(w)
    PROVE  IInv'
<1>0. /\ Busy(w) /\ TypeOK /\ worker[w].pc \in {"succeed", "fail"}
      /\ UNCHANGED <<head, spent, lost, repo, orphans>>
  BY DEF Finish, Busy, IInv, github
<1>1. PICK k \in Jobs : /\ k = worker[w].job /\ k # NoJob /\ WorkerOK(w) /\ JobOK(k)
                        /\ job[k] \in JobRow /\ job[k].name \in Names /\ worker[w] \in Context
  BY <1>0, TheJob
<1>2. PICK st \in {"succeeded", "failed"} :
         st = (IF worker[w].pc = "succeed" THEN "succeeded" ELSE "failed") /\ st = Finished(w)
  BY DEF Finished, At
<1>3. job[k].status = "running"  BY <1>0, <1>1 DEF WorkerOK, At
<1>4. job' = [job EXCEPT ![k].status = st]  BY <1>1, <1>2, <1>3 DEF Finish, Row
<1>5. /\ job' \in [Jobs -> JobRow]
      /\ \A j \in Jobs \ {k} : job'[j] = job[j]
      /\ job'[k].status = st /\ job'[k].rev = job[k].rev /\ job'[k].name = job[k].name
  BY <1>0, <1>4, StatusSet
<1>6. LetsGo(w)  BY <1>0, LoopedBecomes DEF Finish
<1>7. PICK pc \in {"idle", "gone"} : Becomes(w, pc, NoJob, 0)  BY <1>6 DEF LetsGo
<1>8. TypeOK'  BY <1>0, <1>5, <1>7 DEF TypeOK, Becomes
<1>9. OnlyFor(k)  BY <1>0, <1>5 DEF OnlyFor
<1>10. ~Busy(w)' /\ WorkerOK(w)'  BY <1>7 DEF Becomes, Busy, WorkerOK
<1>11. st = "succeeded" => repo[job[k].name] = [maker |-> k, content |-> job[k].rev]
  <2>1. repo[job[k].name] \in [maker : Jobs \cup {NoJob}, content : Revs \cup {Empty}]
    BY <1>0, <1>1 DEF TypeOK
  <2>2. st = "succeeded" => /\ repo[job[k].name].maker = k
                            /\ repo[job[k].name].content = job[k].rev
    BY <1>0, <1>1, <1>2 DEF WorkerOK, At, Loaded, Holding
  <2> QED BY <2>1, <2>2
<1>12. st = "failed" => k \in orphans \/ NothingOf(k)
  BY <1>0, <1>1, <1>2 DEF WorkerOK, At
<1>13. JobOK(k)'
  BY <1>0, <1>1, <1>5, <1>11, <1>12 DEF JobOK, NothingOf
<1>14. job'[k].status # "running"  BY <1>5
<1> QED BY <1>0, <1>1, <1>7, <1>8, <1>9, <1>10, <1>13, <1>14, WorkerStep DEF Becomes

\* A worker that leaves its job as it is and is gone, or goes on without it.
LEMMA Leaving ==
    ASSUME IInv, NEW w \in Workers, LetsGo(w), spent' \in [{"db", "crash", "stop"} -> Nat],
           UNCHANGED <<head, job, repo, orphans>>,
           lost' = IF worker[w].pc \in {"idle", "gone", "claim"} THEN lost
                   ELSE lost \cup {worker[w].job}
    PROVE  IInv'
<1>1. PICK pc \in {"idle", "gone"} : Becomes(w, pc, NoJob, 0)  BY DEF LetsGo
<1>2. CASE Busy(w)
  <2>1. PICK k \in Jobs : k = worker[w].job /\ WorkerOK(w) /\ JobOK(k) /\ TypeOK
    BY <1>2, TheJob
  <2>2. TypeOK'  BY <1>1, <2>1 DEF TypeOK, Becomes
  <2>3. OnlyFor(k)  BY DEF OnlyFor
  <2>4. ~Busy(w)' /\ WorkerOK(w)' /\ JobOK(k)'
    BY <1>1, <2>1 DEF Becomes, Busy, WorkerOK, JobOK, NothingOf
  <2>5. job'[k].status = "running" => k \in lost'
    BY <1>2, <2>1 DEF WorkerOK, At, Busy
  <2> QED BY <1>1, <1>2, <2>1, <2>2, <2>3, <2>4, <2>5, WorkerStep DEF Becomes
<1>3. CASE ~Busy(w)
  <2>1. UNCHANGED lost /\ TypeOK  BY <1>3 DEF Busy, IInv
  <2>2. TypeOK'  BY <1>1, <2>1 DEF TypeOK, Becomes
  <2>3. ~Busy(w)' /\ WorkerOK(w)'  BY <1>1 DEF Becomes, Busy, WorkerOK
  <2>4. \A v \in Workers \ {w} : worker'[v] = worker[v]  BY <1>1 DEF Becomes
  <2>5. \A v \in Workers : WorkerOK(v)'
    BY <2>1, <2>3, <2>4 DEF IInv, WorkerOK, Busy, At, NothingOf
  <2>6. (\A j \in Jobs : JobOK(j)') /\ NoSharing'
    BY <2>3, <2>4 DEF IInv, JobOK, NothingOf, NoSharing, Busy
  <2>7. RunningIsRun'
    BY <1>3, <2>1, <2>4 DEF IInv, RunningIsRun, Working, Busy, At
  <2> QED BY <2>2, <2>5, <2>6, <2>7 DEF IInv
<1> QED BY <1>2, <1>3

LEMMA Stopping ==
    ASSUME IInv, NEW w \in Workers, Stop(w)
    PROVE  IInv'
<1>1. /\ TypeOK /\ UNCHANGED <<head, job, lost, repo, orphans>>
      /\ spent' \in [{"db", "crash", "stop"} -> Nat]
  BY DEF Stop, IInv, github, Spend, TypeOK
<1>2. PICK pc \in PCs : /\ Becomes(w, pc, worker[w].job, worker[w].rev)
                        /\ pc = worker[w].pc \/ (worker[w].pc = "idle" /\ pc = "gone")
  BY <1>1, StopBecomes DEF PCs, TypeOK, Context
<1>3. TypeOK'  BY <1>1, <1>2 DEF TypeOK, Becomes
<1>4. \A v \in Workers : /\ worker'[v].job = worker[v].job /\ worker'[v].rev = worker[v].rev
                         /\ Busy(v)' <=> Busy(v)
                         /\ Busy(v) => worker'[v].pc = worker[v].pc
                         /\ worker'[v].stopping => Busy(v)
  BY <1>2 DEF Becomes, Busy, IInv, WorkerOK
<1>5. \A v \in Workers : WorkerOK(v)'
  BY <1>1, <1>4 DEF IInv, WorkerOK, At, NothingOf
<1>6. (\A j \in Jobs : JobOK(j)') /\ NoSharing'
  BY <1>1, <1>4 DEF IInv, JobOK, NothingOf, NoSharing
<1>7. RunningIsRun'  BY <1>1, <1>4 DEF IInv, RunningIsRun, Working, At
<1> QED BY <1>3, <1>5, <1>6, <1>7 DEF IInv

LEMMA Enqueueing ==
    ASSUME IInv, NEW j \in Jobs, NEW n \in Names, Enqueue(j, n)
    PROVE  IInv'
<1>0. TypeOK /\ head \in Revs  BY DEF IInv, TypeOK
<1>a. PICK seen \in 1 .. head :
         job' = [job EXCEPT ![j] = [status |-> "queued", rev |-> seen, name |-> n]]
  BY DEF Enqueue
<1> DEFINE row == [status |-> "queued", rev |-> seen, name |-> n]
<1>1. /\ TypeOK /\ job[j].status = "none" /\ job' = [job EXCEPT ![j] = row]
      /\ UNCHANGED <<head, worker, repo, spent, lost, orphans>>
  BY <1>0, <1>a DEF Enqueue
<1>b. seen \in Revs  BY <1>0, ExportAssumption DEF ExportAssumption, Revs
<1>2. row \in JobRow /\ row.status = "queued" /\ row.name = n  BY <1>b DEF JobRow
<1> HIDE DEF row
<1>3. job' \in [Jobs -> JobRow] /\ job'[j] = row /\ \A i \in Jobs \ {j} : job'[i] = job[i]
  BY <1>1, <1>2 DEF TypeOK
<1>4. TypeOK'  BY <1>1, <1>3 DEF TypeOK
<1>5. \A v \in Workers : Busy(v) => worker[v].job # j
  BY <1>1 DEF IInv, WorkerOK
<1>6. \A v \in Workers : WorkerOK(v)'
  BY <1>1, <1>3, <1>5 DEF IInv, WorkerOK, Busy, At, NothingOf
<1>7. JobOK(j)'
  BY <1>1, <1>2, <1>3 DEF IInv, JobOK, NothingOf
<1>8. \A i \in Jobs : JobOK(i)'
  BY <1>1, <1>3, <1>7 DEF IInv, JobOK, NothingOf
<1>9. NoSharing'  BY <1>1 DEF IInv, NoSharing, Busy
<1>10. RunningIsRun'
  BY <1>1, <1>2, <1>3 DEF IInv, RunningIsRun, Working, Busy, At
<1> QED BY <1>4, <1>6, <1>8, <1>9, <1>10 DEF IInv

-----------------------------------------------------------------------------
LEMMA InitIInv == Init => IInv
<1> SUFFICES ASSUME Init PROVE IInv
  OBVIOUS
<1>1. TypeOK
  BY ExportAssumption, IdleContext
     DEF Init, TypeOK, JobRow, Revs, NoRepo
<1>2. \A w \in Workers : ~Busy(w) /\ ~worker[w].stopping  BY DEF Init, Busy, Idle
<1>3. \A j \in Jobs : NothingOf(j) /\ job[j].status = "none"
  BY ExportAssumption DEF Init, NothingOf, NoRepo, NoJob
<1>4. \A j \in Jobs : JobOK(j)  BY <1>3 DEF JobOK, NothingOf
<1>5. \A w \in Workers : WorkerOK(w)  BY <1>2 DEF WorkerOK
<1>6. NoSharing /\ RunningIsRun  BY <1>2, <1>3 DEF NoSharing, RunningIsRun
<1> QED BY <1>1, <1>4, <1>5, <1>6 DEF IInv

LEMMA NextIInv == IInv /\ [Next]_vars => IInv'
<1> SUFFICES ASSUME IInv, [Next]_vars PROVE IInv'
  OBVIOUS
<1>0. TypeOK  BY DEF IInv
<1>1. ASSUME UNCHANGED <<job, worker, repo, spent, lost, orphans>>, head' \in Revs
      PROVE  IInv'
  BY <1>0, <1>1
     DEF IInv, TypeOK, NoSharing, WorkerOK, JobOK, RunningIsRun, Working, Busy, At, NothingOf
<1>2. CASE UNCHANGED vars
  BY <1>0, <1>1, <1>2 DEF vars, TypeOK
<1>3. CASE MoveHead
  BY <1>0, <1>1, <1>3, ExportAssumption DEF MoveHead, TypeOK, Revs
<1>4. ASSUME NEW j \in Jobs, NEW n \in Names, Enqueue(j, n) PROVE IInv'
  BY <1>4, Enqueueing
<1>5. ASSUME NEW w \in Workers, Work(w) PROVE IInv'
  <2>1. CASE Restart(w)
    <3>1. LetsGo(w)  BY <1>0, <2>1, EndBecomes DEF Restart
    <3> QED BY <1>0, <2>1, <3>1, Leaving DEF Restart, At, github, TypeOK
  <2> QED BY <1>5, <2>1, Locking, Claiming, Processing, Creating, Publishing, RollingBack,
             Finishing DEF Work
<1>6. ASSUME NEW w \in Workers, FinishError(w) PROVE IInv'
  <2>1. LetsGo(w)  BY <1>0, <1>6, LoopedBecomes DEF FinishError
  <2>2. spent' \in [{"db", "crash", "stop"} -> Nat]  BY <1>0, <1>6 DEF FinishError, Spend, TypeOK
  <2> QED BY <1>6, <2>1, <2>2, Leaving DEF FinishError, github
<1>7. ASSUME NEW w \in Workers, Abandon(w) \/ Crash(w) PROVE IInv'
  <2>1. LetsGo(w)  BY <1>0, <1>7, EndBecomes DEF Abandon, Crash, Die
  <2>2. spent' \in [{"db", "crash", "stop"} -> Nat]
    BY <1>0, <1>7 DEF Abandon, Crash, Spend, TypeOK
  <2>3. ~At(w, "gone")
    BY <1>7 DEF IInv, WorkerOK, Abandon, Crash, Busy, At
  <2> QED BY <1>7, <2>1, <2>2, <2>3, Leaving DEF Abandon, Crash, Die, At, github
<1>8. ASSUME NEW w \in Workers, Poll(w) PROVE IInv'
  BY <1>2, <1>8 DEF Poll
<1> QED BY <1>2, <1>3, <1>4, <1>5, <1>6, <1>7, <1>8, Claiming, Stopping DEF Next

LEMMA SpecIInv == Spec => []IInv
BY InitIInv, NextIInv, PTL DEF Spec

-----------------------------------------------------------------------------
\* Every state of the queue is well typed.
THEOREM ExportTypeOK == Spec => []TypeOK
<1>1. IInv => TypeOK  BY DEF IInv
<1> QED BY SpecIInv, <1>1, PTL

\* However many workers there are, a job is in one worker's hands, and a running one
\* is in somebody's unless its worker was lost (claim, finish).
THEOREM ExportOwnership == Spec => []Ownership
<1>1. ASSUME IInv PROVE ExclusiveJobs
  BY <1>1 DEF IInv, NoSharing, ExclusiveJobs, WorkerOK, Working, Busy, At, Row
<1>2. IInv => Ownership  BY <1>1 DEF IInv, Ownership
<1> QED BY SpecIInv, <1>2, PTL

\* A succeeded job's repository holds the revision frozen at enqueue (process).
THEOREM ExportSucceeded == Spec => []SucceededHoldsFrozenRevision
<1>1. IInv => SucceededHoldsFrozenRevision
  BY DEF IInv, JobOK, SucceededHoldsFrozenRevision
<1> QED BY SpecIInv, <1>1, PTL

\* A failed export leaves no repository it could know of (rollback).
THEOREM ExportFailedLeavesNothing == Spec => []FailedLeavesNothing
<1>1. IInv => FailedLeavesNothing
  BY DEF IInv, JobOK, NothingOf, FailedLeavesNothing
<1> QED BY SpecIInv, <1>1, PTL

-----------------------------------------------------------------------------
(* What a step may do to a repository, and to a row.                       *)

LEMMA StepRollsBackOwn ==
    ASSUME IInv, [Next]_vars, NEW n \in Names, repo[n] # NoRepo, repo'[n] = NoRepo
    PROVE  \E w \in Workers : At(w, "rollback") /\ worker[w].job = repo[n].maker
<1>0. TypeOK  BY DEF IInv
<1>1. ~UNCHANGED repo  OBVIOUS
<1>2. PICK w \in Workers : CreateRepository(w) \/ CreateRef(w) \/ Rollback(w)
  BY <1>1 DEF Next, Work, vars, github, MoveHead, Enqueue, Poll, ClaimError, FinishError, Stop,
     Abandon, Crash, Die, LockOldest, CommitClaim, LoadRevision, LoadToken, Assemble,
     PushObjects, Finish, Restart
<1>3. Busy(w)  BY <1>2 DEF CreateRepository, CreateRef, Rollback, Busy, At
<1>4. PICK k \in Jobs : /\ k = worker[w].job /\ k # NoJob /\ WorkerOK(w)
                        /\ job[k].name \in Names
  BY <1>3, TheJob
<1> DEFINE m == job[k].name
<1>5. CASE CreateRepository(w)
  <2>1. repo' = [repo EXCEPT ![m] = [maker |-> k, content |-> Empty]]
    BY <1>1, <1>4, <1>5 DEF CreateRepository, Row
  <2>2. repo'[n] = repo[n] \/ repo'[n].maker = k  BY <1>0, <1>4, <2>1 DEF TypeOK
  <2> QED BY <1>4, <2>2 DEF NoRepo
<1>6. CASE CreateRef(w)
  <2>1. repo' = [repo EXCEPT ![m].content = worker[w].rev]
    BY <1>1, <1>4, <1>6 DEF CreateRef, Row
  <2>2. repo[m].maker = k  BY <1>3, <1>4, <1>6 DEF WorkerOK, CreateRef, At, Holding
  <2>3. repo'[n] = repo[n] \/ repo'[n].maker = k  BY <1>0, <1>4, <2>1, <2>2 DEF TypeOK
  <2> QED BY <1>4, <2>3 DEF NoRepo
<1>7. CASE Rollback(w)
  <2>1. At(w, "rollback") /\ repo' = [repo EXCEPT ![m] = NoRepo]
    BY <1>1, <1>4, <1>7 DEF Rollback, Row
  <2>2. repo[m].maker = k  BY <1>3, <1>4, <2>1 DEF WorkerOK, At, Holding
  <2>3. n = m  BY <1>0, <1>4, <2>1 DEF TypeOK
  <2> QED BY <1>4, <2>1, <2>2, <2>3
<1> QED BY <1>2, <1>5, <1>6, <1>7

\* A repository is deleted only for the running job that created it (rollback).
THEOREM ExportRollbackDeletesOwn == Spec => RollbackDeletesOwn
<1>1. IInv /\ [Next]_vars =>
         [\A n \in Names : repo[n] # NoRepo /\ repo'[n] = NoRepo =>
             \E w \in Workers : At(w, "rollback") /\ worker[w].job = repo[n].maker]_vars
  BY StepRollsBackOwn
<1> QED BY SpecIInv, <1>1, PTL DEF Spec, RollbackDeletesOwn

\* What the lifecycle sees.
statuses == [j \in Jobs |-> job[j].status]

LEMMA StatusMoves ==
    ASSUME TypeOK, NEW k \in Jobs, NEW x \in JobRow, job' = [job EXCEPT ![k] = x]
    PROVE  statuses' = [statuses EXCEPT ![k] = x.status]
BY DEF TypeOK, statuses

LEMMA RowSet ==
    ASSUME TypeOK, NEW k \in Jobs, NEW st \in {"running", "succeeded", "failed"},
           job' = [job EXCEPT ![k].status = st]
    PROVE  statuses' = [statuses EXCEPT ![k] = st]
<1>1. /\ \A j \in Jobs \ {k} : job'[j] = job[j]
      /\ job'[k].status = st
  BY StatusSet
<1>2. statuses' = [j \in Jobs |-> job'[j].status]  BY DEF statuses
<1>3. statuses' = [j \in Jobs |-> IF j = k THEN st ELSE job[j].status]  BY <1>1, <1>2
<1> QED BY <1>3 DEF statuses

\* What a step does to the rows is a step of the lifecycle, or nothing.
LEMMA StepKeepsLifecycle ==
    ASSUME IInv, [Next]_vars
    PROVE  [Lifecycle!Next]_statuses
<1>0. TypeOK  BY DEF IInv
<1> SUFFICES ASSUME ~UNCHANGED job PROVE Lifecycle!Next
  BY DEF statuses
<1>1. CASE \E j \in Jobs, n \in Names : Enqueue(j, n)
  <2>1. PICK j \in Jobs, n \in Names : Enqueue(j, n)  BY <1>1
  <2>a. PICK seen \in 1 .. head :
           job' = [job EXCEPT ![j] = [status |-> "queued", rev |-> seen, name |-> n]]
    BY <2>1 DEF Enqueue
  <2> DEFINE x == [status |-> "queued", rev |-> seen, name |-> n]
  <2>b. seen \in Revs  BY <1>0, ExportAssumption DEF ExportAssumption, TypeOK, Revs
  <2>2. x \in JobRow /\ x.status = "queued"  BY <2>b DEF JobRow
  <2>3. job' = [job EXCEPT ![j] = x] /\ job[j].status = "none"  BY <2>1, <2>a DEF Enqueue
  <2> HIDE DEF x
  <2>4. statuses' = [statuses EXCEPT ![j] = "queued"]
    BY <1>0, <2>2, <2>3, StatusMoves
  <2>5. statuses[j] = "none"  BY <2>3 DEF statuses
  <2>6. Lifecycle!Enqueue(j)  BY <2>4, <2>5 DEF Lifecycle!Enqueue, Lifecycle!Moves, statuses
  <2> QED BY <2>6 DEF Lifecycle!Next
<1>2. CASE \E w \in Workers : CommitClaim(w) \/ ClaimError(w)
  <2>1. PICK w \in Workers : CommitClaim(w) \/ ClaimError(w)  BY <1>2
  <2>2. Busy(w) /\ At(w, "claim")  BY <2>1 DEF CommitClaim, ClaimError, Busy, At
  <2>3. PICK k \in Jobs : k = worker[w].job /\ WorkerOK(w)  BY <2>2, TheJob
  <2>4. job' = [job EXCEPT ![k].status = "running"]
    BY <2>1, <2>3 DEF CommitClaim, ClaimError
  <2>5. statuses' = [statuses EXCEPT ![k] = "running"]  BY <1>0, <2>4, RowSet
  <2>6. statuses[k] = "queued"  BY <2>2, <2>3 DEF statuses, WorkerOK
  <2>7. Lifecycle!Claim(k)  BY <2>5, <2>6 DEF Lifecycle!Claim, Lifecycle!Moves, statuses
  <2> QED BY <2>7 DEF Lifecycle!Next
<1>3. CASE \E w \in Workers : Finish(w)
  <2>1. PICK w \in Workers : Finish(w)  BY <1>3
  <2>2. Busy(w)  BY <2>1 DEF Finish, Busy
  <2>3. PICK k \in Jobs : k = worker[w].job  BY <2>2, TheJob
  <2>4. PICK st \in {"succeeded", "failed"} : st = Finished(w)  BY DEF Finished
  <2>5. job' = [job EXCEPT ![k].status = st] /\ job[k].status = "running"
    BY <2>1, <2>3, <2>4 DEF Finish, Row
  <2>6. statuses' = [statuses EXCEPT ![k] = st]  BY <1>0, <2>5, RowSet
  <2>7. statuses[k] = "running"  BY <2>5 DEF statuses
  <2>8. Lifecycle!Finish(k)  BY <2>6, <2>7 DEF Lifecycle!Finish, Lifecycle!Moves, statuses
  <2> QED BY <2>8 DEF Lifecycle!Next
<1> QED BY <1>1, <1>2, <1>3 DEF Next, Work, vars, github, MoveHead, Poll, FinishError, Stop,
     Abandon, Crash, Die, LockOldest, LoadRevision, LoadToken, CreateRepository, Assemble,
     PushObjects, CreateRef, Rollback, Restart

\* A job is queued once, claimed at most once, ends at most once, and an ending is
\* final, whatever the workers and the faults (claim and finish implement it).
THEOREM ExportImplementsLifecycle == Spec => LifecycleSpec
<1>1. Init => Lifecycle!Init
  BY DEF Init, Lifecycle!Init
<1>2. IInv /\ [Next]_vars => [Lifecycle!Next]_statuses
  BY StepKeepsLifecycle
<1> QED BY SpecIInv, <1>1, <1>2, PTL DEF Spec, LifecycleSpec, Lifecycle!Spec, statuses
=============================================================================
