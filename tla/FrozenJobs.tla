------------------------------ MODULE FrozenJobs ------------------------------
(***************************************************************************)
(* Jobs over the revision store. A request to export or to deploy a        *)
(* project (exportjob/routes.go create, cloudbuild/routes.go deploy) reads *)
(* the head with two statements and no transaction, and inserts, some      *)
(* statements later, a job that holds the head's id; a worker, much later, *)
(* loads that revision by its id (projectspec/source.go). No lock spans    *)
(* these steps and no foreign key ties a job to its revision, while edits  *)
(* move the head and an operator deletes revisions and projects.           *)
(*                                                                         *)
(* How workers share the queue, and what they do with the spec, is in      *)
(* ExportQueue and BuildQueue; here a job is run by one worker at most.    *)
(***************************************************************************)
EXTENDS RevisionStore

CONSTANT JobRequests   \* the requests that go on to create a job with what they read

ASSUME JobAssumption == JobRequests \subseteq Requests

VARIABLES job,     \* request -> its job, from the answer of Head to the job's end
          seen     \* history: request -> the revision that Head answered

jobVars == <<job, seen>>
allVars == <<vars, jobVars>>

\* "held": the handler has the head and there is no row yet; "loaded": the running
\* job's worker has the spec. The others are statuses of the row, "none" is no row.
Stages == {"none", "held", "queued", "running", "loaded", "succeeded", "failed"}

NoJob == [at |-> "none", project |-> NoSpec, rev |-> NoRev, spec |-> NoSpec]

Put(q, stage) == job' = [job EXCEPT ![q].at = stage]

(* Beside the steps a request takes in the store: a handler that Head has  *)
(* answered keeps the id it is given.                                      *)
Handed(q) ==
    IF q \in JobRequests /\ tx[q].pc = "readrev" /\ tx'[q].outcome = "read"
    THEN /\ job' = [job EXCEPT ![q] = [at |-> "held", project |-> tx[q].op.proj,
                                       rev |-> tx[q].base, spec |-> NoSpec]]
         /\ seen' = [seen EXCEPT ![q] = revs[tx[q].base]]
    ELSE UNCHANGED jobVars

(* Service.Enqueue inserts the row; if that fails the handler just ends.   *)
Enqueue(q) ==
    /\ job[q].at = "held"
    /\ Put(q, "queued")
    /\ UNCHANGED <<vars, seen>>

Claim(q) ==
    /\ job[q].at = "queued"
    /\ Put(q, "running")
    /\ UNCHANGED <<vars, seen>>

\* Mutation: the worker exports the project's head (HeadSpec).
LoadHeadSpec(q) ==
    /\ job[q].at = "running"
    /\ LET k == head[job[q].project] IN
       IF k \in DOMAIN revs
       THEN job' = [job EXCEPT ![q].at = "loaded", ![q].spec = revs[k].spec]
       ELSE Put(q, "failed")
    /\ UNCHANGED <<vars, seen>>

(* RevisionSpec: a revision that is gone is an error, and fails the job.   *)
RevisionSpec(q) ==
    /\ job[q].at = "running"
    /\ IF job[q].rev \in DOMAIN revs
       THEN job' = [job EXCEPT ![q].at = "loaded", ![q].spec = revs[job[q].rev].spec]
       ELSE Put(q, "failed")
    /\ UNCHANGED <<vars, seen>>

(* The worker records the outcome. Whatever fails on the way, before the   *)
(* spec is loaded or after, fails the job; one whose worker dies stays.    *)
Settle(q) ==
    /\ \/ job[q].at = "loaded" /\ Put(q, "succeeded")
       \/ job[q].at \in {"running", "loaded"} /\ Put(q, "failed")
    /\ UNCHANGED <<vars, seen>>

JobInit ==
    /\ Init
    /\ job = [q \in Requests |-> NoJob]
    /\ seen = [q \in Requests |-> NoSpec]

JobStep(q) == Enqueue(q) \/ Claim(q) \/ RevisionSpec(q) \/ Settle(q)

\* The store's Next with the jobs beside it: only the service works on the database.
JobNext ==
    \/ \E p \in Projects : CreateProject(p) /\ UNCHANGED jobVars
    \/ \E q \in Requests :
          \/ \E op \in Ops : Start(q, op) /\ UNCHANGED jobVars
          \/ (LockProject(q) \/ Step(q) \/ Abort(q)) /\ Handed(q)
          \/ JobStep(q)
    \/ Quiesce /\ UNCHANGED jobVars
JobSpec == JobInit /\ [][JobNext]_allVars

\* An operator deletes revisions and projects as well.
JobAdminNext ==
    \/ JobNext
    \/ \E k \in DOMAIN revs : PruneRevision(k) /\ UNCHANGED jobVars
    \/ \E p \in Projects : DeleteProject(p) /\ UNCHANGED jobVars
JobAdminSpec == JobInit /\ [][JobAdminNext]_allVars
FairJobAdminSpec == JobAdminSpec /\ Fairness

-----------------------------------------------------------------------------
(* Properties.                                                             *)

(* What a worker builds is what the request that made the job was answered: *)
(* that revision and no other, one of the project the caller was authorized *)
(* on, and a valid spec, whatever was committed or deleted since. An id     *)
(* that could come back would break it (bigserial; Revision.BeforeUpdate).  *)
BuiltAsSeen ==
    \A q \in Requests : job[q].spec # NoSpec =>
        /\ job[q].spec = seen[q].spec
        /\ seen[q].project = job[q].project
        /\ Valid(job[q].spec)

\* The revision was committed, and its event with it.
Recorded(k) == <<"spec.revision.created", k>> \in audit

(* Head answers that a project is corrupt, and a job fails for want of its  *)
(* revision, only because an operator deleted it in between: what a reader  *)
(* or a job names was committed, never a revision that was rolled back or   *)
(* is still being written (Head's two unlocked reads, service.go).          *)
MissingWasDeleted ==
    /\ \A q \in Requests : tx[q].pc = "readrev" => Recorded(tx[q].base)
    /\ \A q \in Requests : job[q].rev # NoRev => Recorded(job[q].rev)

(* While nothing is deleted under the service a job finds its revision, one *)
(* of its project's and never a later one than the head.                    *)
JobsFindRevision ==
    \A q \in Requests : job[q].rev # NoRev =>
        /\ job[q].rev \in DOMAIN revs
        /\ revs[job[q].rev].project = job[q].project
        /\ job[q].rev <= head[job[q].project]
=============================================================================
