--------------------------- MODULE FrozenJobsProofs ---------------------------
(***************************************************************************)
(* Jobs over the revision store, for any number of projects, requests and  *)
(* jobs.                                                                   *)
(*                                                                         *)
(* A handler and a job hold nothing but an id, unlocked, for as long as    *)
(* they like. What makes that sound is that an id they hold is settled: it *)
(* was committed, with its event, and no transaction has it or will get it *)
(* again. So it names the revision that was answered, or nothing.          *)
(***************************************************************************)
EXTENDS FrozenJobs, RevisionStoreProofs

\* k was committed and is never given out again.
Settled(k) ==
    /\ k \in RevIds /\ k < nextId /\ Recorded(k)
    /\ \A o \in Requests : tx[o].pc = "commit" => tx[o].id # k

AllRecorded == \A k \in DOMAIN revs : Recorded(k)

\* What a handler between Head's two reads has in hand.
ReaderOK(t) ==
    t.pc = "readrev" =>
        /\ Settled(t.base)
        /\ t.base \in DOMAIN revs => revs[t.base].project = t.op.proj

\* What a job is of: a settled revision, the one seen if it is stored at all.
JobOK(j, s) ==
    /\ j.at = "none" => j = NoJob
    /\ j.at # "none" =>
          /\ j.project \in Projects /\ Settled(j.rev)
          /\ s.project = j.project /\ Valid(s.spec)
          /\ j.rev \in DOMAIN revs => revs[j.rev] = s
          /\ j.spec # NoSpec => j.spec = s.spec

JobType == [at : Stages, project : Projects \cup {NoSpec}, rev : Nat,
            spec : ProjectSpecs \cup {NoSpec}]

JobTypeOK == job \in [Requests -> JobType] /\ seen \in [Requests -> Row \cup {NoSpec}]

JInv ==
    /\ IInv /\ AllRecorded /\ JobTypeOK
    /\ \A q \in Requests : ReaderOK(tx[q])
    /\ \A q \in Requests : JobOK(job[q], seen[q])

-----------------------------------------------------------------------------
(* What the steps of the store do to ids.                                  *)

\* The steps a request takes once it has started.
RequestStep(q) == LockProject(q) \/ Step(q) \/ Abort(q)

\* What such a step does to the transactions.
Moved(q) ==
    /\ \A o \in Requests \ {q} : tx'[o] = tx[o]
    /\ tx'[q].pc = "commit" => tx'[q].id = nextId
    /\ tx'[q].pc = "readrev" =>
          /\ tx'[q].op.proj \in Projects /\ tx'[q].base = head[tx'[q].op.proj]
          /\ tx'[q].base # NoRev /\ UNCHANGED db
    /\ tx[q].pc = "readrev" /\ tx'[q].outcome = "read" =>
          tx[q].base \in DOMAIN revs /\ UNCHANGED db

LEMMA FinishMoves ==
    ASSUME IInv, NEW q \in Requests, NEW outcome \in Outcomes, Finish(q, outcome),
           tx[q].pc = "readrev" /\ outcome = "read" =>
               tx[q].base \in DOMAIN revs /\ UNCHANGED db
    PROVE  Moved(q)
<1>1. /\ \A o \in Requests : tx'[o] = IF o = q THEN Ended(q, outcome) ELSE tx[o]
      /\ tx'[q].pc = "done"
  BY FinishLock
<1>2. tx'[q].outcome = outcome
  BY <1>1 DEF Ended, NoTx
<1> QED BY <1>1, <1>2 DEF Moved

LEMMA PutMoves ==
    ASSUME IInv, NEW q \in Requests, NEW t, tx' = [tx EXCEPT ![q] = t],
           tx[q].pc # "readrev", t.pc \notin {"commit", "readrev"}
    PROVE  Moved(q)
<1>1. \A o \in Requests : tx'[o] = IF o = q THEN t ELSE tx[o]
  BY TypeParts DEF IInv
<1> QED BY <1>1 DEF Moved

LEMMA ClassifyMoves ==
    ASSUME IInv, NEW q \in Requests, NEW cand, Classify(q, cand), tx[q].pc = "edit"
    PROVE  Moved(q)
<1>1. CASE Finish(q, "invalid_spec") \/ Finish(q, "breaking")
  BY <1>1, FinishMoves DEF Outcomes
<1>2. CASE tx' = [tx EXCEPT ![q].cand = cand, ![q].pc = "insert"]
  <2> DEFINE t == [tx[q] EXCEPT !.cand = cand, !.pc = "insert"]
  <2>1. tx' = [tx EXCEPT ![q] = t] /\ t.pc = "insert"
    BY <1>2, TxFacts DEF TxType
  <2> HIDE DEF t
  <2> QED BY <2>1, PutMoves
<1> QED BY <1>1, <1>2 DEF Classify

LEMMA EditMoves ==
    ASSUME IInv, NEW q \in Requests, Edit(q)
    PROVE  Moved(q)
<1>1. tx[q].pc = "edit"
  BY DEF Edit, AddResource, RenameResource, AddRelationship, DeleteField, DeleteResource,
         SubmitCandidate
<1>2. ASSUME NEW outcome \in {"no_spec", "not_found", "blocked", "invalid_spec"},
             Finish(q, outcome)
      PROVE  Moved(q)
  BY <1>2, FinishMoves DEF Outcomes
<1>3. CASE DeleteResource(q)
  <2> DEFINE cand == Edited(tx[q].op, tx[q].cur)
             t == [tx[q] EXCEPT !.cand = cand, !.pc = "insert"]
  <2>1. CASE tx' = [tx EXCEPT ![q].cand = cand, ![q].pc = "insert"]
    <3>1. tx' = [tx EXCEPT ![q] = t] /\ t.pc = "insert"
      BY <2>1, TxFacts DEF TxType
    <3> HIDE DEF t
    <3> QED BY <1>1, <3>1, PutMoves
  <2> QED BY <1>2, <1>3, <2>1 DEF DeleteResource
<1>4. CASE ~DeleteResource(q)
  BY <1>1, <1>2, <1>4, ClassifyMoves
  DEF Edit, AddResource, RenameResource, AddRelationship, DeleteField, SubmitCandidate
<1> QED BY <1>3, <1>4

LEMMA RequestMoves ==
    ASSUME IInv, NEW q \in Requests, RequestStep(q)
    PROVE  Moved(q)
<1>1. CASE LockProject(q)
  <2>1. CASE Finish(q, "no_project")
    BY <2>1, FinishMoves DEF Outcomes
  <2>2. CASE ~Finish(q, "no_project")
    <3> DEFINE op == tx[q].op
               t == [tx[q] EXCEPT !.base = head[op.proj],
                                  !.pc = IF op.kind = "create" THEN "insert" ELSE "load",
                                  !.cand = IF op.kind = "create" THEN op.cand ELSE NoSpec]
    <3>1. tx' = [tx EXCEPT ![q] = t] /\ t.pc \in {"insert", "load"} /\ tx[q].pc = "begin"
      BY <1>1, <2>2, TxFacts DEF LockProject, TxType
    <3> HIDE DEF t
    <3> QED BY <3>1, PutMoves
  <2> QED BY <2>1, <2>2
<1>2. CASE LoadHead(q)
  <2>1. CASE Finish(q, "corrupt")
    BY <2>1, FinishMoves DEF Outcomes
  <2>2. CASE ~Finish(q, "corrupt")
    <3> DEFINE k == tx[q].base
               t == [tx[q] EXCEPT !.cur = IF k = NoRev THEN NoSpec ELSE revs[k].spec,
                                  !.pc = "edit"]
    <3>1. tx' = [tx EXCEPT ![q] = t] /\ t.pc = "edit" /\ tx[q].pc = "load"
      BY <1>2, <2>2, TxFacts DEF LoadHead, TxType
    <3> HIDE DEF t
    <3> QED BY <3>1, PutMoves
  <2> QED BY <2>1, <2>2
<1>3. CASE InsertRevision(q)
  <2> DEFINE t == [tx[q] EXCEPT !.id = nextId, !.pc = "commit"]
  <2>1. tx' = [tx EXCEPT ![q] = t] /\ t.id = nextId /\ t.pc = "commit" /\ tx[q].pc = "insert"
    BY <1>3, TxFacts DEF InsertRevision, TxType
  <2> HIDE DEF t
  <2>2. \A o \in Requests : tx'[o] = IF o = q THEN t ELSE tx[o]
    BY <2>1, TypeParts DEF IInv
  <2> QED BY <2>1, <2>2 DEF Moved
<1>4. CASE Commit(q, "committed") \/ Commit(q, "error")
  BY <1>4, FinishMoves DEF Commit, Outcomes
<1>5. CASE ReadProject(q)
  <2>1. CASE Finish(q, "no_project") \/ Finish(q, "no_revision")
    BY <2>1, FinishMoves DEF Outcomes
  <2>2. CASE ~(Finish(q, "no_project") \/ Finish(q, "no_revision"))
    <3> DEFINE p == tx[q].op.proj
               t == [tx[q] EXCEPT !.base = head[p], !.pc = "readrev"]
    <3>1. /\ tx' = [tx EXCEPT ![q] = t] /\ t.base = head[p] /\ t.op = tx[q].op
          /\ t.pc = "readrev" /\ tx[q].pc = "begin" /\ p \in Projects /\ head[p] # NoRev
          /\ UNCHANGED db
      BY <1>5, <2>2, TxFacts DEF ReadProject, TxType
    <3> HIDE DEF t
    <3>2. \A o \in Requests : tx'[o] = IF o = q THEN t ELSE tx[o]
      BY <3>1, TypeParts DEF IInv
    <3> QED BY <3>1, <3>2 DEF Moved
  <2> QED BY <2>1, <2>2
<1>6. CASE ReadRevision(q)
  BY <1>6, FinishMoves DEF ReadRevision, Outcomes
<1>7. CASE Abort(q)
  BY <1>7, FinishMoves DEF Abort, Outcomes
<1> QED BY <1>1, <1>2, <1>3, <1>4, <1>5, <1>6, <1>7, EditMoves DEF RequestStep, Step

\* What a step of the store or of the operator does to ids: the sequence and the
\* events only grow, and a row is one that was stored or one just committed.
DbMoved ==
    /\ nextId <= nextId' /\ audit \subseteq audit'
    /\ \A k \in DOMAIN revs' :
          \/ k \in DOMAIN revs /\ revs'[k] = revs[k]
          \/ Recorded(k)' /\ \E q \in Requests : tx[q].pc = "commit" /\ tx[q].id = k

LEMMA StillMoves == ASSUME IInv, UNCHANGED db PROVE DbMoved
  BY TypeParts DEF IInv, DbTypeOK, DbMoved, db, RevIds

LEMMA RequestDbMoves ==
    ASSUME IInv, NEW q \in Requests, RequestStep(q)
    PROVE  DbMoved
<1>1. CASE Edit(q)
  BY <1>1, StillMoves DEF Edit, AddResource, RenameResource, AddRelationship, DeleteField,
                          DeleteResource, SubmitCandidate
<1>2. CASE InsertRevision(q)
  BY <1>2, TypeParts DEF InsertRevision, IInv, DbTypeOK, RevIds, DbMoved
<1>3. CASE Commit(q, "committed") \/ Commit(q, "error")
  <2>1. nextId \in Nat
    BY TypeParts DEF IInv, DbTypeOK, RevIds
  <2> QED BY <1>3, <2>1 DEF Commit, DbMoved, Recorded
<1> QED
  BY <1>1, <1>2, <1>3, StillMoves
  DEF RequestStep, Step, LockProject, LoadHead, ReadProject, ReadRevision, Abort

LEMMA RemovalDbMoves ==
    ASSUME IInv, NEW kept \in SUBSET DOMAIN revs, revs' = Keep(kept), UNCHANGED <<audit, nextId>>
    PROVE  DbMoved
<1>1. nextId \in Nat
  BY TypeParts DEF IInv, DbTypeOK, RevIds
<1> QED BY <1>1 DEF Keep, DbMoved

-----------------------------------------------------------------------------
(* A settled id stays settled and goes on naming the same revision.        *)

LEMMA SettledStays ==
    ASSUME IInv, IInv', DbMoved,
           \A o \in Requests : tx'[o].pc = "commit" =>
               (tx[o].pc = "commit" /\ tx'[o].id = tx[o].id) \/ tx'[o].id = nextId,
           NEW k, Settled(k)
    PROVE  /\ Settled(k)'
           /\ k \in DOMAIN revs' => k \in DOMAIN revs /\ revs'[k] = revs[k]
<1>1. nextId \in Nat /\ nextId' \in Nat /\ k \in Nat
  BY DEF IInv, TypeOK, RevIds, Settled
<1>2. k < nextId' /\ k # nextId
  BY <1>1 DEF Settled, DbMoved
<1>3. Recorded(k)'
  BY DEF Settled, DbMoved, Recorded
<1>4. \A o \in Requests : tx'[o].pc = "commit" => tx'[o].id # k
  BY <1>2 DEF Settled
<1>5. k \in DOMAIN revs' => k \in DOMAIN revs /\ revs'[k] = revs[k]
  BY DEF Settled, DbMoved
<1> QED BY <1>2, <1>3, <1>4, <1>5 DEF Settled

\* A stored revision's id is settled: the transactions that are about to commit
\* have ids that no row has.
LEMMA StoredSettled ==
    ASSUME IInv, AllRecorded, NEW k \in DOMAIN revs PROVE Settled(k)
<1>1. k \in RevIds /\ k < nextId
  BY TypeParts DEF IInv, DbTypeOK, DbOK
<1>2. \A o \in Requests : tx[o].pc = "commit" => tx[o].id # k
  BY TxFacts DEF OkFor
<1> QED BY <1>1, <1>2 DEF Settled, AllRecorded

LEMMA RecordedStays == ASSUME AllRecorded, DbMoved PROVE AllRecorded'
  BY DEF AllRecorded, DbMoved, Recorded

\* The database and the requests but one move; the one is looked at by the caller.
LEMMA ReaderStays ==
    ASSUME IInv, IInv', DbMoved, NEW o \in Requests, tx'[o] = tx[o], ReaderOK(tx[o]),
           \A r \in Requests : tx'[r].pc = "commit" =>
               (tx[r].pc = "commit" /\ tx'[r].id = tx[r].id) \/ tx'[r].id = nextId
    PROVE  ReaderOK(tx[o])'
<1>1. CASE tx[o].pc = "readrev"
  <2>1. PICK k : k = tx[o].base
    OBVIOUS
  <2>2. Settled(k) /\ tx'[o].base = k /\ (k \in DOMAIN revs => revs[k].project = tx[o].op.proj)
    BY <1>1, <2>1 DEF ReaderOK
  <2>3. Settled(k)' /\ (k \in DOMAIN revs' => k \in DOMAIN revs /\ revs'[k] = revs[k])
    BY <2>2, SettledStays
  <2> QED BY <2>2, <2>3 DEF ReaderOK
<1>2. CASE tx[o].pc # "readrev"
  BY <1>2 DEF ReaderOK
<1> QED BY <1>1, <1>2

LEMMA JobStays ==
    ASSUME IInv, IInv', DbMoved, NEW o \in Requests, job'[o] = job[o], seen'[o] = seen[o],
           JobOK(job[o], seen[o]),
           \A r \in Requests : tx'[r].pc = "commit" =>
               (tx[r].pc = "commit" /\ tx'[r].id = tx[r].id) \/ tx'[r].id = nextId
    PROVE  JobOK(job[o], seen[o])'
<1>1. CASE job[o].at # "none"
  <2>1. PICK k : k = job[o].rev
    OBVIOUS
  <2>2. Settled(k) /\ (k \in DOMAIN revs => revs[k] = seen[o])
    BY <1>1, <2>1 DEF JobOK
  <2>3. Settled(k)' /\ (k \in DOMAIN revs' => k \in DOMAIN revs /\ revs'[k] = revs[k])
    BY <2>2, SettledStays
  <2> QED BY <1>1, <2>1, <2>2, <2>3 DEF JobOK
<1>2. CASE job[o].at = "none"
  BY <1>2 DEF JobOK
<1> QED BY <1>1, <1>2

-----------------------------------------------------------------------------
(* The invariant is inductive, operator and all.                           *)

LEMMA InitJInv == JobInit => JInv
<1> SUFFICES ASSUME JobInit PROVE JInv
  OBVIOUS
<1>1. IInv
  BY InitIInv DEF JobInit
<1>2. AllRecorded /\ \A q \in Requests : ReaderOK(tx[q])
  BY DEF JobInit, Init, AllRecorded, ReaderOK, NoTx
<1>3. JobTypeOK /\ \A q \in Requests : JobOK(job[q], seen[q])
  BY DEF JobInit, JobTypeOK, JobType, JobOK, NoJob, Stages, NoRev
<1> QED BY <1>1, <1>2, <1>3 DEF JInv

\* Every step is one of the store or the operator, or leaves them alone.
LEMMA StepOfStore == [JobAdminNext]_allVars => [AdminNext]_vars
<1>1. \A q \in Requests : JobStep(q) => UNCHANGED vars
  BY DEF JobStep, Enqueue, Claim, RevisionSpec, Settle
<1> QED BY <1>1 DEF JobAdminNext, JobNext, AdminNext, Next, Quiesce, allVars

LEMMA StepOfService == [JobNext]_allVars => [Next]_vars
<1>1. \A q \in Requests : JobStep(q) => UNCHANGED vars
  BY DEF JobStep, Enqueue, Claim, RevisionSpec, Settle
<1> QED BY <1>1 DEF JobNext, Next, Quiesce, allVars

LEMMA AdminIInv == IInv /\ [AdminNext]_vars => IInv'
  BY NextIInv, PruneIInv, DeleteProjectIInv, TypeParts DEF AdminNext, IInv, DbTypeOK

\* The job and what was seen keep their shape when the store moves beside them.
LEMMA StoreJInv ==
    ASSUME JInv, IInv', DbMoved, UNCHANGED jobVars, NEW q \in Requests, Moved(q)
    PROVE  JInv'
<1>1. /\ IInv /\ AllRecorded /\ JobTypeOK
      /\ \A o \in Requests : ReaderOK(tx[o]) /\ JobOK(job[o], seen[o])
  BY DEF JInv
<1>2. \A o \in Requests : tx'[o].pc = "commit" =>
          (tx[o].pc = "commit" /\ tx'[o].id = tx[o].id) \/ tx'[o].id = nextId
  BY DEF Moved
<1>3. ASSUME NEW o \in Requests PROVE JobOK(job[o], seen[o])'
  BY <1>1, <1>2, JobStays DEF jobVars
<1>4. AllRecorded'
  BY <1>1, RecordedStays
<1>5. ASSUME NEW o \in Requests \ {q} PROVE ReaderOK(tx[o])'
  BY <1>1, <1>2, ReaderStays DEF Moved
<1>6. ReaderOK(tx[q])'
  <2>1. CASE tx'[q].pc = "readrev"
    <3>1. PICK p \in Projects : p = tx'[q].op.proj
      BY <2>1 DEF Moved
    <3>2. PICK k : k = head[p]
      OBVIOUS
    <3>3. k # NoRev /\ tx'[q].base = k /\ UNCHANGED db
      BY <2>1, <3>1, <3>2 DEF Moved
    <3>4. k \in DOMAIN revs /\ revs[k].project = p
      BY <1>1, <3>2, <3>3 DEF IInv, DbOK, HeadsOwn
    <3>5. Settled(k)
      BY <1>1, <3>4, StoredSettled
    <3>6. Settled(k)' /\ revs'[k].project = p
      BY <1>1, <1>2, <3>3, <3>4, <3>5, SettledStays DEF db
    <3> QED BY <3>1, <3>3, <3>6 DEF ReaderOK
  <2> QED BY <2>1 DEF ReaderOK
<1>7. JobTypeOK'
  BY <1>1 DEF JobTypeOK, jobVars
<1> QED BY <1>3, <1>4, <1>5, <1>6, <1>7 DEF JInv

\* And when no transaction moves at all.
LEMMA StandingJInv ==
    ASSUME JInv, IInv', DbMoved, UNCHANGED jobVars, UNCHANGED tx
    PROVE  JInv'
<1>1. /\ IInv /\ AllRecorded /\ JobTypeOK
      /\ \A o \in Requests : ReaderOK(tx[o]) /\ JobOK(job[o], seen[o])
  BY DEF JInv
<1>2. ASSUME NEW o \in Requests PROVE JobOK(job[o], seen[o])' /\ ReaderOK(tx[o])'
  BY <1>1, JobStays, ReaderStays DEF jobVars
<1> QED BY <1>1, <1>2, RecordedStays DEF JInv, JobTypeOK, jobVars

\* A handler that is answered takes away a settled id, of a revision of its project.
LEMMA HandedJInv ==
    ASSUME JInv, IInv', NEW q \in Requests, RequestStep(q), Handed(q)
    PROVE  JInv'
<1>1. /\ IInv /\ AllRecorded /\ JobTypeOK
      /\ \A o \in Requests : ReaderOK(tx[o]) /\ JobOK(job[o], seen[o])
  BY DEF JInv
<1>2. Moved(q) /\ DbMoved
  BY <1>1, RequestMoves, RequestDbMoves
<1>3. CASE UNCHANGED jobVars
  BY <1>2, <1>3, StoreJInv
<1>4. CASE tx[q].pc = "readrev" /\ tx'[q].outcome = "read"
           /\ job' = [job EXCEPT ![q] = [at |-> "held", project |-> tx[q].op.proj,
                                         rev |-> tx[q].base, spec |-> NoSpec]]
           /\ seen' = [seen EXCEPT ![q] = revs[tx[q].base]]
  <2>1. PICK k : k = tx[q].base
    OBVIOUS
  <2>2. PICK p : p = tx[q].op.proj
    OBVIOUS
  <2>3. p \in Projects
    BY <1>1, <1>4, <2>2, TxFacts
  <2>4. k \in DOMAIN revs /\ UNCHANGED db /\ revs[k].project = p
    BY <1>1, <1>2, <1>4, <2>1, <2>2 DEF Moved, ReaderOK
  <2>5. Settled(k) /\ Valid(revs[k].spec) /\ revs[k] \in Row /\ k \in Nat
    BY <1>1, <2>4, StoredSettled, TypeParts DEF IInv, DbOK, CommittedValid, DbTypeOK, RevIds
  <2>6. \A o \in Requests : tx'[o].pc = "commit" =>
            (tx[o].pc = "commit" /\ tx'[o].id = tx[o].id) \/ tx'[o].id = nextId
    BY <1>2 DEF Moved
  <2>7. Settled(k)' /\ revs' = revs
    BY <1>1, <1>2, <2>4, <2>5, <2>6, SettledStays DEF db
  <2>8. PICK j : j = [at |-> "held", project |-> p, rev |-> k, spec |-> NoSpec]
    OBVIOUS
  <2>9. /\ job' = [job EXCEPT ![q] = j] /\ seen' = [seen EXCEPT ![q] = revs[k]]
        /\ j \in JobType
    BY <1>4, <2>1, <2>2, <2>3, <2>5, <2>8 DEF JobType, Stages
  <2>10. JobTypeOK'
    BY <1>1, <2>5, <2>9 DEF JobTypeOK
  <2>11. /\ job'[q] = j /\ seen'[q] = revs[k]
         /\ \A o \in Requests \ {q} : job'[o] = job[o] /\ seen'[o] = seen[o]
    BY <1>1, <2>9 DEF JobTypeOK
  <2>12. JobOK(job[q], seen[q])'
    BY <2>3, <2>4, <2>5, <2>7, <2>8, <2>11 DEF JobOK
  <2>13. \A o \in Requests \ {q} : JobOK(job[o], seen[o])'
    BY <1>1, <1>2, <2>6, <2>11, JobStays
  <2>14. \A o \in Requests \ {q} : ReaderOK(tx[o])'
    BY <1>1, <1>2, <2>6, ReaderStays DEF Moved
  <2>15. ReaderOK(tx[q])'
    <3>1. CASE tx'[q].pc = "readrev"
      <4>1. PICK r \in Projects : r = tx'[q].op.proj
        BY <1>2, <3>1 DEF Moved
      <4>2. PICK h : h = head[r]
        OBVIOUS
      <4>3. h # NoRev /\ tx'[q].base = h
        BY <1>2, <3>1, <4>1, <4>2 DEF Moved
      <4>4. h \in DOMAIN revs /\ revs[h].project = r
        BY <1>1, <4>2, <4>3 DEF IInv, DbOK, HeadsOwn
      <4>5. Settled(h)'
        BY <1>1, <1>2, <2>6, <4>4, StoredSettled, SettledStays
      <4> QED BY <2>7, <4>1, <4>3, <4>4, <4>5 DEF ReaderOK
    <3> QED BY <3>1 DEF ReaderOK
  <2> QED BY <1>1, <1>2, <2>10, <2>12, <2>13, <2>14, <2>15, RecordedStays DEF JInv
<1> QED BY <1>3, <1>4 DEF Handed

\* A step of the job itself: the stage moves on, and the spec is that of the job's
\* revision or stays what it was.
Becomes(q, j) ==
    /\ job[q].at # "none" /\ j.at # "none" /\ j \in JobType
    /\ job' = [job EXCEPT ![q] = j]
    /\ j.project = job[q].project /\ j.rev = job[q].rev
    /\ \/ j.spec = job[q].spec
       \/ j.rev \in DOMAIN revs /\ j.spec = revs[j.rev].spec

LEMMA PutBecomes ==
    ASSUME JobTypeOK, NEW q \in Requests, NEW stage \in Stages \ {"none"}, Put(q, stage),
           job[q].at # "none"
    PROVE  \E j : Becomes(q, j)
<1> DEFINE j == [job[q] EXCEPT !.at = stage]
<1>1. /\ job' = [job EXCEPT ![q] = j] /\ j \in JobType /\ j.at = stage
      /\ j.project = job[q].project /\ j.rev = job[q].rev /\ j.spec = job[q].spec
  BY DEF Put, JobType, JobTypeOK
<1> HIDE DEF j
<1>2. Becomes(q, j)
  BY <1>1 DEF Becomes
<1> QED BY <1>2

LEMMA JobStepBecomes ==
    ASSUME IInv, JobTypeOK, NEW q \in Requests, JobStep(q)
    PROVE  UNCHANGED <<vars, seen>> /\ \E j : Becomes(q, j)
<1>1. UNCHANGED <<vars, seen>>
  BY DEF JobStep, Enqueue, Claim, RevisionSpec, Settle
<1>2. CASE RevisionSpec(q) /\ job[q].rev \in DOMAIN revs
  <2> DEFINE j == [job[q] EXCEPT !.at = "loaded", !.spec = revs[job[q].rev].spec]
  <2>1. revs[job[q].rev].spec \in ProjectSpecs
    BY <1>2, TypeParts DEF IInv, DbTypeOK, Row
  <2>2. /\ job' = [job EXCEPT ![q] = j] /\ j \in JobType /\ j.at = "loaded"
        /\ job[q].at = "running" /\ j.project = job[q].project /\ j.rev = job[q].rev
        /\ j.spec = revs[job[q].rev].spec
    BY <1>2, <2>1 DEF RevisionSpec, JobType, JobTypeOK, Stages
  <2> HIDE DEF j
  <2>3. Becomes(q, j)
    BY <1>2, <2>2 DEF Becomes
  <2> QED BY <1>1, <2>3
<1>3. CASE ~(RevisionSpec(q) /\ job[q].rev \in DOMAIN revs)
  <2>1. \E stage \in Stages \ {"none"} : Put(q, stage) /\ job[q].at # "none"
    BY <1>3 DEF JobStep, Enqueue, Claim, RevisionSpec, Settle, Stages
  <2> QED BY <1>1, <2>1, PutBecomes
<1> QED BY <1>2, <1>3

\* The job's own steps find the store at rest.
LEMMA JobStepJInv ==
    ASSUME JInv, IInv', NEW q \in Requests, JobStep(q)
    PROVE  JInv'
<1>1. /\ IInv /\ AllRecorded /\ JobTypeOK
      /\ \A o \in Requests : ReaderOK(tx[o]) /\ JobOK(job[o], seen[o])
  BY DEF JInv
<1>2. UNCHANGED <<vars, seen>> /\ \E j : Becomes(q, j)
  BY <1>1, JobStepBecomes
<1>3. PICK j : Becomes(q, j)
  BY <1>2
<1>4. /\ \A o \in Requests : job'[o] = IF o = q THEN j ELSE job[o]
      /\ JobTypeOK'
  BY <1>1, <1>2, <1>3 DEF Becomes, JobTypeOK
<1>5. DbMoved
  BY <1>1, <1>2, StillMoves DEF vars, db
<1>6. \A o \in Requests : tx'[o] = tx[o] /\ seen'[o] = seen[o]
  BY <1>2 DEF vars
<1>7. ASSUME NEW o \in Requests PROVE ReaderOK(tx[o])'
  BY <1>1, <1>5, <1>6, ReaderStays
<1>8. ASSUME NEW o \in Requests \ {q} PROVE JobOK(job[o], seen[o])'
  BY <1>1, <1>4, <1>5, <1>6, JobStays
<1>9. JobOK(job[q], seen[q])'
  <2>1. PICK k : k = job[q].rev
    OBVIOUS
  <2>2. /\ Settled(k) /\ (k \in DOMAIN revs => revs[k] = seen[q]) /\ job[q].project \in Projects
        /\ seen[q].project = job[q].project /\ Valid(seen[q].spec)
        /\ job[q].spec # NoSpec => job[q].spec = seen[q].spec
    BY <1>1, <1>3, <2>1 DEF JobOK, Becomes
  <2>3. Settled(k)' /\ revs' = revs
    BY <1>1, <1>2, <1>5, <1>6, <2>2, SettledStays DEF vars
  <2>4. /\ job'[q] = j /\ seen'[q] = seen[q] /\ j.at # "none" /\ j.rev = k
        /\ j.project = job[q].project
        /\ j.spec = job[q].spec \/ (k \in DOMAIN revs /\ j.spec = revs[k].spec)
    BY <1>3, <1>4, <1>6, <2>1 DEF Becomes
  <2> QED BY <2>2, <2>3, <2>4 DEF JobOK
<1> QED BY <1>1, <1>4, <1>5, <1>7, <1>8, <1>9, RecordedStays DEF JInv

LEMMA StartMoves ==
    ASSUME IInv, NEW q \in Requests, NEW op \in Ops, Start(q, op)
    PROVE  Moved(q)
<1>1. tx[q].pc = "idle"
  BY DEF Start
<1>2. CASE op.kind = "create" /\ ~Valid(op.cand)
  <2>1. tx' = [tx EXCEPT ![q] = Ended(q, "invalid_spec")]
    BY <1>2 DEF Start
  <2>2. Ended(q, "invalid_spec").pc = "done"
    BY EndedType DEF Outcomes
  <2> QED BY <1>1, <2>1, <2>2, PutMoves
<1>3. CASE ~(op.kind = "create" /\ ~Valid(op.cand))
  <2>1. tx' = [tx EXCEPT ![q] = [NoTx EXCEPT !.pc = "begin", !.op = op]]
    BY <1>3 DEF Start
  <2>2. [NoTx EXCEPT !.pc = "begin", !.op = op].pc = "begin"
    BY DEF NoTx
  <2> QED BY <1>1, <2>1, <2>2, PutMoves
<1> QED BY <1>2, <1>3

LEMMA StartJInv ==
    ASSUME JInv, IInv', NEW q \in Requests, NEW op \in Ops, Start(q, op), UNCHANGED jobVars
    PROVE  JInv'
<1>1. IInv
  BY DEF JInv
<1>2. DbMoved
  BY <1>1, StillMoves DEF Start
<1> QED BY <1>1, <1>2, StartMoves, StoreJInv

LEMMA NextJInv == JInv /\ [JobAdminNext]_allVars => JInv'
<1> SUFFICES ASSUME JInv, [JobAdminNext]_allVars PROVE JInv'
  OBVIOUS
<1>1. IInv /\ IInv'
  BY StepOfStore, AdminIInv DEF JInv
<1>2. ASSUME UNCHANGED jobVars, UNCHANGED vars PROVE JInv'
  BY <1>1, <1>2, StillMoves, StandingJInv DEF vars, db
<1>3. ASSUME NEW p \in Projects, CreateProject(p), UNCHANGED jobVars PROVE JInv'
  <2>1. DbMoved
    BY <1>1, <1>3, TypeParts DEF CreateProject, IInv, DbTypeOK, RevIds, DbMoved
  <2> QED BY <1>1, <1>3, <2>1, StandingJInv DEF CreateProject
<1>4. ASSUME NEW k \in DOMAIN revs, PruneRevision(k), UNCHANGED jobVars PROVE JInv'
  <2>1. DbMoved
    BY <1>1, <1>4, RemovalDbMoves DEF PruneRevision
  <2> QED BY <1>1, <1>4, <2>1, StandingJInv DEF PruneRevision
<1>5. ASSUME NEW p \in Projects, DeleteProject(p), UNCHANGED jobVars PROVE JInv'
  <2>1. DbMoved
    BY <1>1, <1>5, RemovalDbMoves DEF DeleteProject
  <2> QED BY <1>1, <1>5, <2>1, StandingJInv DEF DeleteProject
<1>6. ASSUME NEW q \in Requests, RequestStep(q), Handed(q) PROVE JInv'
  BY <1>1, <1>6, HandedJInv
<1>7. ASSUME JobNext PROVE JInv'
  BY <1>1, <1>2, <1>3, <1>6, <1>7, StartJInv, JobStepJInv DEF JobNext, RequestStep, Quiesce
<1> QED BY <1>2, <1>4, <1>5, <1>7 DEF JobAdminNext, allVars

LEMMA InductiveJ == JobAdminSpec => []JInv
  BY InitJInv, NextJInv, PTL DEF JobAdminSpec

-----------------------------------------------------------------------------
(* The theorems.                                                           *)

(* A worker builds the revision that the caller of the job saw, or none:    *)
(* never another revision, another project's or an invalid spec.            *)
THEOREM JobsBuiltAsSeen == JobAdminSpec => []BuiltAsSeen
<1>1. JInv => BuiltAsSeen
  BY DEF JInv, JobOK, BuiltAsSeen, NoJob
<1> QED BY <1>1, InductiveJ, PTL

(* A reader or a job that finds its revision gone finds one that was        *)
(* committed and deleted since.                                             *)
THEOREM JobsMissingWasDeleted == JobAdminSpec => []MissingWasDeleted
<1>1. JInv => MissingWasDeleted
  BY DEF JInv, ReaderOK, JobOK, Settled, MissingWasDeleted, NoJob
<1> QED BY <1>1, InductiveJ, PTL

-----------------------------------------------------------------------------
(* While only the service works on the database, rows stay and heads only  *)
(* go forward, so what a handler or a job names is there to be found.      *)

QReaderOK(t) ==
    t.pc = "readrev" => t.base \in DOMAIN revs /\ t.base <= head[t.op.proj]

QJobOK(j) ==
    j.at # "none" => j.rev \in DOMAIN revs /\ j.rev <= head[j.project]

QInv ==
    /\ \A q \in Requests : tx[q].pc = "readrev" => tx[q].op.proj \in Projects
    /\ \A q \in Requests : QReaderOK(tx[q])
    /\ \A q \in Requests : QJobOK(job[q])

Forward ==
    /\ \A k \in DOMAIN revs : k \in DOMAIN revs'
    /\ \A p \in Projects : head[p] <= head'[p]

LEMMA ServiceForward == ASSUME IInv, [Next]_vars PROVE Forward
<1>1. head \in [Projects -> Nat]
  BY TypeParts DEF IInv, DbTypeOK
<1>2. CASE UNCHANGED <<head, revs>>
  BY <1>1, <1>2 DEF Forward
<1>3. ASSUME NEW q \in Requests, NEW outcome \in {"committed", "error"}, Commit(q, outcome)
      PROVE  Forward
  <2>1. PICK id : id = tx[q].id
    OBVIOUS
  <2>2. PICK p : p = tx[q].op.proj
    OBVIOUS
  <2>3. /\ id \in RevIds /\ p \in Projects /\ head[p] < id
        /\ DOMAIN revs' = DOMAIN revs \cup {id} /\ head' = [head EXCEPT ![p] = id]
    BY <1>3, <2>1, <2>2, CommitEffect DEF Outcomes
  <2> QED BY <1>1, <2>3 DEF Forward, RevIds
<1> QED BY <1>2, <1>3, OnlyCommitWrites

LEMMA QJobStays ==
    ASSUME Forward, IInv, IInv', NEW o \in Requests, job'[o] = job[o], QJobOK(job[o]),
           JobOK(job[o], seen[o])
    PROVE  QJobOK(job[o])'
<1>1. CASE job[o].at # "none"
  <2>1. PICK k : k = job[o].rev
    OBVIOUS
  <2>2. PICK p : p = job[o].project
    OBVIOUS
  <2>3. p \in Projects /\ k \in Nat /\ head[p] \in Nat /\ head'[p] \in Nat
    BY <1>1, <2>1, <2>2 DEF JobOK, Settled, RevIds, IInv, TypeOK
  <2> QED BY <1>1, <2>1, <2>2, <2>3 DEF QJobOK, Forward
<1>2. CASE job[o].at = "none"
  BY <1>2 DEF QJobOK
<1> QED BY <1>1, <1>2

LEMMA QReaderStays ==
    ASSUME Forward, IInv, IInv', NEW o \in Requests, tx'[o] = tx[o],
           tx[o].pc = "readrev" => tx[o].op.proj \in Projects, QReaderOK(tx[o])
    PROVE  QReaderOK(tx[o])'
<1>1. CASE tx[o].pc = "readrev"
  <2>1. PICK k : k = tx[o].base
    OBVIOUS
  <2>2. PICK p : p = tx[o].op.proj
    OBVIOUS
  <2>3. p \in Projects /\ k \in Nat /\ head[p] \in Nat /\ head'[p] \in Nat
    BY <1>1, <2>1, <2>2 DEF IInv, TypeOK
  <2> QED BY <1>1, <2>1, <2>2, <2>3 DEF QReaderOK, Forward
<1>2. CASE tx[o].pc # "readrev"
  BY <1>2 DEF QReaderOK
<1> QED BY <1>1, <1>2

\* The reader that moved has just read the head.
LEMMA QReaderMoves ==
    ASSUME Forward, IInv, IInv', NEW q \in Requests, Moved(q),
           \A o \in Requests : tx[o].pc = "readrev" => tx[o].op.proj \in Projects,
           \A o \in Requests : QReaderOK(tx[o])
    PROVE  /\ \A o \in Requests : tx'[o].pc = "readrev" => tx'[o].op.proj \in Projects
           /\ \A o \in Requests : QReaderOK(tx[o])'
<1>1. \A o \in Requests \ {q} : QReaderOK(tx[o])'
  BY QReaderStays DEF Moved
<1>2. QReaderOK(tx[q])'
  <2>1. CASE tx'[q].pc = "readrev"
    <3>1. PICK p \in Projects : p = tx'[q].op.proj
      BY <2>1 DEF Moved
    <3>2. PICK h : h = head[p]
      OBVIOUS
    <3>3. h # NoRev /\ tx'[q].base = h /\ UNCHANGED db /\ h \in Nat
      BY <2>1, <3>1, <3>2 DEF Moved, IInv, TypeOK
    <3>4. h \in DOMAIN revs' /\ h <= head'[p]
      BY <3>2, <3>3 DEF IInv, DbOK, HeadsOwn, db
    <3> QED BY <3>1, <3>3, <3>4 DEF QReaderOK
  <2> QED BY <2>1 DEF QReaderOK
<1> QED BY <1>1, <1>2 DEF Moved

LEMMA NextQInv == JInv /\ QInv /\ [JobNext]_allVars => QInv'
<1> SUFFICES ASSUME JInv, QInv, [JobNext]_allVars PROVE QInv'
  OBVIOUS
<1>1. IInv /\ [Next]_vars /\ Forward
  BY StepOfService, ServiceForward DEF JInv
<1>2. IInv'
  BY <1>1, NextIInv
<1>3. /\ JobTypeOK
      /\ \A o \in Requests : JobOK(job[o], seen[o]) /\ QJobOK(job[o]) /\ QReaderOK(tx[o])
      /\ \A o \in Requests : tx[o].pc = "readrev" => tx[o].op.proj \in Projects
  BY DEF JInv, QInv
<1>4. ASSUME UNCHANGED tx, UNCHANGED jobVars PROVE QInv'
  BY <1>1, <1>2, <1>3, <1>4, QJobStays, QReaderStays DEF QInv, jobVars
<1>5. ASSUME NEW q \in Requests, Moved(q), UNCHANGED jobVars PROVE QInv'
  BY <1>1, <1>2, <1>3, <1>5, QJobStays, QReaderMoves DEF QInv, jobVars
<1>6. ASSUME NEW q \in Requests, RequestStep(q), Handed(q), ~UNCHANGED jobVars PROVE QInv'
  <2>1. Moved(q)
    BY <1>1, <1>6, RequestMoves
  <2>2. /\ tx[q].pc = "readrev"
        /\ job' = [job EXCEPT ![q] = [at |-> "held", project |-> tx[q].op.proj,
                                      rev |-> tx[q].base, spec |-> NoSpec]]
    BY <1>6 DEF Handed
  <2>3. PICK k : k = tx[q].base
    OBVIOUS
  <2>4. PICK p : p = tx[q].op.proj
    OBVIOUS
  <2>5. /\ p \in Projects /\ k \in DOMAIN revs /\ k <= head[p]
        /\ k \in Nat /\ head[p] \in Nat /\ head'[p] \in Nat
    BY <1>1, <1>2, <1>3, <2>2, <2>3, <2>4 DEF QReaderOK, IInv, TypeOK, RevIds
  <2>6. k \in DOMAIN revs' /\ k <= head'[p]
    BY <1>1, <2>5 DEF Forward
  <2>7. \A o \in Requests : job'[o] = IF o = q THEN [at |-> "held", project |-> p,
                                                     rev |-> k, spec |-> NoSpec] ELSE job[o]
    BY <1>3, <2>2, <2>3, <2>4 DEF JobTypeOK
  <2>8. QJobOK(job[q])'
    BY <2>6, <2>7 DEF QJobOK
  <2>9. \A o \in Requests \ {q} : QJobOK(job[o])'
    BY <1>1, <1>2, <1>3, <2>7, QJobStays
  <2> QED BY <1>1, <1>2, <1>3, <2>1, <2>8, <2>9, QReaderMoves DEF QInv
<1>7. ASSUME NEW q \in Requests, JobStep(q) PROVE QInv'
  <2>1. UNCHANGED <<vars, seen>> /\ \E j : Becomes(q, j)
    BY <1>1, <1>3, <1>7, JobStepBecomes
  <2>2. PICK j : Becomes(q, j)
    BY <2>1
  <2>3. /\ j.rev = job[q].rev /\ j.project = job[q].project /\ job[q].at # "none"
        /\ \A o \in Requests : job'[o] = IF o = q THEN j ELSE job[o]
    BY <1>3, <2>2 DEF Becomes, JobTypeOK
  <2>4. QJobOK(job[q])'
    BY <1>3, <2>1, <2>3 DEF QJobOK, vars
  <2>5. \A o \in Requests \ {q} : QJobOK(job[o])'
    BY <1>1, <1>2, <1>3, <2>3, QJobStays
  <2>6. \A o \in Requests : tx'[o] = tx[o]
    BY <2>1 DEF vars
  <2> QED BY <1>1, <1>2, <1>3, <2>4, <2>5, <2>6, QReaderStays DEF QInv
<1>8. ASSUME NEW q \in Requests, NEW op \in Ops, Start(q, op), UNCHANGED jobVars PROVE QInv'
  BY <1>1, <1>5, <1>8, StartMoves
<1> QED BY <1>4, <1>5, <1>6, <1>7, <1>8, <1>1, RequestMoves
    DEF JobNext, RequestStep, CreateProject, Quiesce, allVars, vars

(* While nothing is deleted under the service, every job finds its revision *)
(* and it is never a later one than the head: that is the project whose     *)
(* jobs ExportQueue and BuildQueue take to freeze a revision up to the head.*)
THEOREM JobsFind == JobSpec => []JobsFindRevision
<1>1. JobSpec => JobAdminSpec
  <2>1. [JobNext]_allVars => [JobAdminNext]_allVars
    BY DEF JobAdminNext
  <2> QED BY <2>1, PTL DEF JobSpec, JobAdminSpec
<1>2. JobInit => QInv
  BY DEF JobInit, Init, QInv, QReaderOK, QJobOK, NoTx, NoJob
<1>3. JInv /\ QInv => JobsFindRevision
  <2> SUFFICES ASSUME JInv, QInv, NEW q \in Requests, job[q].rev # NoRev
               PROVE  /\ job[q].rev \in DOMAIN revs
                      /\ revs[job[q].rev].project = job[q].project
                      /\ job[q].rev <= head[job[q].project]
    BY DEF JobsFindRevision
  <2>1. JobOK(job[q], seen[q]) /\ QJobOK(job[q]) /\ job[q].at # "none"
    BY DEF JInv, QInv, JobOK, NoJob
  <2> QED BY <2>1 DEF JobOK, QJobOK
<1> QED BY <1>1, <1>2, <1>3, NextQInv, InductiveJ, PTL DEF JobSpec
=============================================================================
