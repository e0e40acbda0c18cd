# Gombit Forge: specifications and proofs

Gombit Forge is a control plane in which the members of an organization edit the
specification of an application, keep every version of it, export the generated
source to GitHub and have it built on Gombit Cloud. This directory holds TLA+
models of the parts of it where the order of events decides correctness, the TLC
configurations that check them, and proofs, checked by TLAPS, of what matters most.

Paths below are relative to `src/`; `cp/` stands for `controlplane/internal/`.

## 1. Inventory

### Components, their state and operations

| Component | State | Operations | Status |
|---|---|---|---|
| Revision store (`cp/project`: service, models) | tables `projects` (head pointer), `project_revisions` (append only, parent pointer), `audit_events` | CreateProject, CreateRevision, SubmitCandidate, the granular edits, Head | modelled, 2.1 |
| Edits of a specification (`cp/project`: resource, field, relationship, behavior, page, nav, branding) | the content of a spec | add, update, delete; each in the store's transaction | modelled, 2.5 |
| Project HTTP API (`cp/project/handler.go`, routes) | none | decoding, authorization, error mapping | its operations and answers are those of 2.1 and 2.5 |
| Audit trail (`cp/audit`) | `audit_events` | Record inside the caller's transaction; paged reads | the write is modelled |
| Export jobs and worker (`cp/exportjob`, `cp/exportworker`) | table `export_jobs`; the Run loop of each server process | enqueue, claim, process, mark, stop | modelled, 2.2 |
| Project spec reader (`cp/projectspec`) and the handlers that make jobs | an id in a job row | read the head, freeze its id, load the revision later | modelled, 2.1 |
| GitHub export (`cp/ghexport`, `cp/githubexport`) | repositories of a GitHub account | create, push objects, create ref, roll back | modelled, 2.2 |
| Build jobs and worker (`cp/cloudbuild`, `cp/buildworker`, `cp/cloudclient`) | table `build_jobs`; Cloud's builds | enqueue, claim, create build, record id, upload, track, reflect, mark | modelled, 2.3 |
| Cloud environments (`cp/cloudbuild/routes.go`, `cp/cloudclient`) | in Cloud: environments, deployments | preview, deploy, roll back, status, logs | modelled, 2.7 |
| Server (`controlplane/cmd/server`) | the workers' contexts | start, stop (cancel and wait ten seconds) | the stop is modelled |
| Organizations (`cp/org`) | `organization_members`, `invitations` | create, invite, supersede, accept, authorize | modelled, 2.4 |
| GitHub connection (`cp/githubconnect`) | OAuth states, connections | start, complete (consume the state, exchange, upsert) | modelled, 2.7 |
| Project spec (`internal/spec`) | a value; the symbol ledger | mint, normalize, validate, refactor, encode | validation and minting are modelled, 2.5 |
| Compatibility (`internal/compiler/gen/abi.go`, `deletion.go`) | pure | classify an edit, find what blocks a deletion | modelled, 2.5 |
| Domain graph (`internal/compiler/graph`) | pure | resolve the references of a spec | modelled, 2.5 |
| Workspace writer (`internal/compiler`: materialize, stubs, archive) | directories of a project | staged swap, create-only stubs, archive with manifest | modelled, 2.6 |
| Candidate and health checks, compiler, generators, toolchain wrapper, platform | none | run external tools, generate text, open the database | not modelled |
| Web editor (`controlplane/web/src`) | browser state | client of the HTTP API | not modelled |

### How they interact

An HTTP request authorizes its caller (org), then performs one operation of the
store, or enqueues a job holding the id of the revision that was the head. The
operation of the store is a single PostgreSQL transaction that locks the project
row, and writes its audit event itself. Two kinds of workers, one of each per server
process, take jobs from their table with `FOR UPDATE SKIP LOCKED`, read the frozen
revision from the store (projectspec), generate the source (compiler) and call
GitHub or Cloud. All that these components share is the database: there are no
callbacks from one to another and no in-memory state besides a worker's current job.
Previews, deployments and the GitHub connection are served by the request itself, which
calls Cloud or GitHub between its own reads and writes. The workspace writer runs in the
command line tool, on a developer's disk, and shares nothing with the server but the
specification it compiles.

### What is hard

* **Interleavings.** Requests run concurrently on any number of servers; history
  must not fork and no update may be lost. Workers compete for jobs.
* **Partial failure.** A transaction may fail at each statement and its commit
  may succeed without the client hearing of it. A call to GitHub or Cloud may take
  effect although it reports an error. Best-effort writes may be lost.
* **Crashes and shutdown.** A worker can die or be cancelled between any two
  calls. There is no requeue, so what it leaves behind stays. The command line tool
  can be killed between any two file operations, and inside those that are several.
* **Stale state.** The head moves on while a job waits, and while an editor works on a
  candidate; Cloud moves a build on while the worker polls, and removes an environment
  between the check of a request and its call.
* **Rules stated twice.** The deletion analysis, the compatibility class, the validator and
  the graph builder each have an idea of what refers to what; long sequences of edits
  find where they disagree.

`PROJECT.json` lists each hazard at its line with the properties that cover it.

### What makes each component correct

* Store: history is a chain, the head is its tip, every revision is its own edit
  applied to its parent, invalid specs are never stored, and only a delete (or
  CreateRevision, which has no compatibility gate) removes anything; events and
  revisions correspond; requests end.
* Jobs: claimed once, ended once, ended by a worker that holds them; a running job
  is being run unless a fault of the process or the database is to blame.
* Exports: success means the frozen revision is published; failure leaves no
  repository; nothing that is not the export's own is deleted.
* Builds: success means Cloud built the frozen revision successfully; what a job
  shows of its build is real and does not go back; a started build can be found.
* Specifications: the resolved graph drops nothing of a stored specification; a resource can
  be deleted exactly when nothing refers to it; Go code beside the generated packages goes
  on compiling.
* Cloud environments: what is deployed or rolled back on a project, or answered to it of a
  deployment, is in an environment of that project; asking for a preview again finds it.
* GitHub connection: a connection comes from one flow, started by the same user.
* Workspace: a run installs a generated root entirely or leaves it as it was, a further run
  recovers, nothing the developer wrote is lost, and an archive's manifest says what is in it.
* Organizations: nobody is admitted above the standing of a member who invited them, a
  token admits one user once, an address has one live token, superseding respects rank.

## 2. The models

### 2.1 `RevisionStore`, `RevisionLedger`

`RevisionStore` is `cp/project`. A request is one-shot: `tx[q].pc` says where it is
in its transaction, `lock` is the row lock that `FOR UPDATE` takes on the project,
and uncommitted writes live in `tx[q]` until `Commit` publishes revision, head and
event together. The id sequence moves outside the transaction, as PostgreSQL's do.

| Action | Code |
|---|---|
| `Start`, `LockProject`, `LoadHead` | `withLockedSpec`; for CreateRevision, validation before its transaction and then the lock |
| `AddResource`, `RenameResource`, `AddRelationship`, `DeleteField`, `DeleteResource`, `SubmitCandidate` | the bodies run under the lock, with `Classify` for `classifyAndInsertLocked` |
| `InsertRevision`, `Commit`, `Abort` | `insertRevisionLocked` and how its transaction ends |
| `ReadProject`, `ReadRevision` | `Head`, two statements with no transaction around them |
| `PruneRevision`, `DeleteProject` | the foreign keys' ON DELETE rules when rows are deleted by hand (only in `AdminSpec`) |

A spec is `[label, refs]` here: the live resources under their labels, and which
belongs_to field refers to which resource, enough for an edit to be accepted, refused
or blocked by another one. `SpecEditor` (2.5) has the whole of what the edits decide on,
and none of the transaction.

`RevisionLedger` is what the store promises: an append-only ledger in which a
revision is appended to the tip of its project, one at a time and for ever.

`FrozenJobs` puts the jobs beside the store. It is where the store and the queues meet: a job
holds the id that `Head` answered to the handler that made it, no lock spans the steps from
there to the worker that loads the revision, and no foreign key ties one to the other.
`exportjob/service.go` says the job is "pinned to what the caller saw".

| Action | Code |
|---|---|
| `Handed`, beside the last step of a read | `Head` has answered the handler of a POST (`exportjob/routes.go`, `cloudbuild/routes.go`) |
| `Enqueue` | `Service.Enqueue` inserts the row, some statements later |
| `Claim` | a worker takes the job |
| `RevisionSpec` | `projectspec/source.go` loads the revision by its id; not found fails the job |
| `Settle` | the worker writes the outcome |

`job[q]` is the job of request `q`, from the answer of `Head` on; `seen[q]` is a history
variable with the revision answered. `JobSpec` is the service alone, `JobAdminSpec` has the
operator's deletes. What workers do with one queue and one spec is left to 2.2 and 2.3, which
in turn abstract the store to a counter `head`.

### 2.2 `JobLifecycle`, `ExportQueue`

`JobLifecycle` is the promise of a job table to whoever polls it. `ExportQueue` has the
`export_jobs` rows, each worker's position in `Run`/`RunOnce`/`process`/`ExportSpec`, and
the account's repositories by name. Each step of a worker is one call of the code, and each
call may succeed, fail, or (for GitHub) take effect and report an error. `Enqueue` freezes
any revision up to the head, since edits may have been committed after the handler read it;
that a job's revision is stored, of its project and not later than the head is `JobsFind`,
proved in `FrozenJobsProofs`. `Stop` cancels the worker's context, so that from then on
every call made under it fails, except the rollback and the outcome write, which the code
detaches. `Abandon` is the server exiting after the ten seconds it waits; `Crash` a process
that dies; `Restart` the next one. `lost` and `orphans` are history variables naming the
jobs whose outcome write or whose repository was lost to a fault: properties are stated for
all the others.

### 2.3 `BuildQueue`

The same for `build_jobs` and Cloud. A job creates at most one build, so builds are
named by their jobs. Cloud moves builds by itself (`CloudSettles`), including builds
whose source never arrived. `track` is `Observe` and `Reflect` (read, then write,
with a lost write allowed) and `GiveUp` (one failed poll, the twenty-minute
deadline, or cancellation). `unpointed` names the jobs whose build id could not be
recorded. The model cites what the worker takes for terminal; what Cloud does is
external and as free as the client's documentation allows.

### 2.4 `Invitations`

`cp/org` with its two tables; users stand for their addresses. The statements of a
request are separate steps, as PostgreSQL interleaves them under READ COMMITTED, and a
transaction's writes live in `tx[q]` until its commit.

| Action | Code |
|---|---|
| `AuthorizeGrant`, `CheckNotMember` | the checks of `InviteMember` before its transaction |
| `SelectPending`, `DeletePending`, `InsertInvitation`, `CommitInvite` | the transaction: find the pending invitation and check its role, supersede it by id, insert, audit and commit |
| `Redeem`, `InsertMember`, `MarkAccepted`, `CommitAccept` | the transaction of `AcceptInvitation` |
| `Abort` | a statement that fails, or a request that is cancelled |
| `CreateOrganization`, `Expire` | the founder's seat; time |

`Locks`, `Inserting` and `Joining` say which open transaction holds a row or an entry of a
unique index, and `WaitsFor(q)` whose end the next statement of `q` waits for. A DELETE
that waited finds the row by its id again, whatever has become of it: this is what the
run `invitations_history` is about. `accepted` is a history variable naming the
invitations that were ever accepted; `tx[q].seen` remembers the invitations committed
when the inviter looked.

### 2.5 `ProjectSpec`, `SpecEditor`

`ProjectSpec` has no state: it is a specification as a value, and what the front end of the
compiler computes from it. A name is a sequence of words, so that `CustomerID`,
`customer_id` and `customer-id` are one name, and `Append` is what the code's suffixes are.

| Operators | Code |
|---|---|
| `FirstFree`, `MintResource`, `MintField`, `deriveStorageName`, `deriveFieldStorageName`, `deriveForeignKeyName`, `derivePageSlug` | `internal/spec/mint.go` and the helpers of `cp/project` |
| `Validate` and its parts | `internal/spec/validate.go` |
| `blockersFor` | `internal/compiler/deletion.go` |
| `ExtensionABI`, `ClassifyTransition` | `internal/compiler/gen/abi.go` |
| `resolveFields`, `resolveBehavior`, `linkRelationships`, `tableColumns`, `tableFilters`, `formFields`, `resolveCards`, `buildNavigation` | `internal/compiler/graph` |

`SpecEditor` has one action per edit of `cp/project`. An edit builds its candidate from the
head under the row lock, so it is one step; `classifyAndInsertLocked` is the gate, and
`DeleteResource` has the analysis in its place. `SubmitCandidate` alone carries a
specification that was built outside the lock: `getProjectSpec` loads a head, `Drafts` is
what an editor may make of it, other edits come in between. An edit the gate refuses leaves
the head as it is.

### 2.6 `Workspace`

The commands of `internal/compiler` that write into a project directory. `pc` is the file
operation a command is at; a directory is `NoTree` or the set of its files, each with the
version it belongs to, so that a mixture or an incomplete tree is a value of its own.

| Actions | Code |
|---|---|
| `ClearStaging`, `WriteFile`, `Staged`, `Cleanup` | pass 1 of `Materialize`: the staging tree of each root |
| `DropRetired`, `Retire`, `Install`, `Restore`, `Discard`, `Swapped` | pass 2: the swap of each root |
| `WriteStub`, `StubsWritten` | `WriteStubs` |
| `Look`, `MoveDir`, `CopyDir`, `DiscardCopy`, `RemoveSource`, `WriteManifest`, `Archived` | `ArchiveExtensions`, `moveDir`, `writeManifest` |
| `Kill`, `KillInside` | the end of the process between two operations, or inside a recursive delete, a copy or a write |
| `Edit` | the developer writes a hooks file |

Every operation may fail (`Fail`, `FailTo`), after which the command does what the code does
then, which is also interruptible. A failure or a kill at `Cleanup`, which ignores errors, may
leave any part of each root's staging tree (`Leftovers`). The manifest is rewritten in place,
so a write that is cut short leaves one that cannot be read (`Corrupt`). `broken` is a history
variable naming the moves that a fault separated from their record. One command runs at a time
and the developer does not edit while it runs: nothing in the code guards against either.

### 2.7 `CloudEnvironments`, `GitHubConnect`, `MCIntegrations`

`CloudEnvironments` is the part of `cp/cloudbuild/routes.go` that calls Cloud while a request
waits. `req[q].pc` is the call a request is about to make: `authorizedEnv` lists the project's
environments, `readHead`, `createPreviewEnvironment` and `findEnvironmentByName` are a
preview, `createDeployment`, `rollback`, `getDeployment` and `deploymentLogs` the others. Each
call may fail, and one that changes something may have changed it. Cloud is external:
`CloudCreates` and `CloudRemoves` let environments come and go at any time, and what Cloud
itself enforces is what the routes rely on (one live environment of a name in a project; a
deployment is looked up in the environment it is named with; logs are not). A deployment is of
a build, kept as the project whose build it is: `createDeployment` hands any id the caller
names to Cloud, and what Cloud makes of another project's is left to it.

`GitHubConnect` is `cp/githubconnect/service.go`. `Callback` is a browser coming back in
anybody's session with anybody's state, `lockState` and `consumeState` the transaction that
consumes it (`locked` is the row lock), `ExchangeCode` and `CompleteConnect` what follows.
`owner` and `spent` are history variables: who a state was minted for, and how many
connections came of it.

The two share no state. `MCIntegrations` extends both and follows one or the other in a
behaviour (`focus`), which is all their interleavings come to. `MCExportQueue` does the same
with the two queues, for the properties that need fairness.

The theorems are in `...Proofs` modules (section 4), one for each module of a component's
state, except that `IntegrationsProofs` is for both of 2.7; the `MC...` modules hold the
small instances.

## 3. Runs

| Run | Question | Properties |
|---|---|---|
| `store_specs` | Is the store a ledger, under racing edits and whole-spec submits? | `TypeOK`, `Lineage`, `CommittedValid`, `NothingRemovedSilently`, `EditsApplyToParent`, `AuditMatchesRevisions`, `LedgerSpec` |
| `store_jobs` | What survives an operator deleting rows, do jobs build what their callers saw, and do requests end? | `ParentsStored`, `EditsNeverCorrupt`, `BuiltAsSeen`, `MissingWasDeleted`, `RequestsEnd` |
| `export_queue` | Are exports exclusive, honest and clean, and do jobs of both kinds end, whether or not Cloud settles? | `Ownership`, `SucceededHoldsFrozenRevision`, `FailedLeavesNothing`, `RollbackDeletesOwn`, `LifecycleSpec`, `JobsEnd`, `BuildJobsEnd` |
| `build_queue` | Is what a build job shows true? | `Ownership`, `SucceededIsCloudSuccess`, `PointerIsTrue`, `ReflectionNeverRegresses`, `LifecycleSpec` |
| `build_failed` | Does a failed job that was submitted mean Cloud did not succeed? No | `FailedMeansCloudDidNotSucceed` violated |
| `invitations` | Do racing invites and acceptances respect roles, seats and tokens? | `TypeOK`, `NoEscalation`, `OneTokenOneAdmission`, `SomeoneGoesOn`, `SupersedeRespectsRank`, `PendingOnlyByRace` |
| `invitations_history` | Is every accepted invitation kept? No | `AcceptedHistoryKept` violated |
| `editor` | Do edits of any order and age keep specifications whole and extensions compiling? | `GraphLosesNothing`, `BlockersExact`, `ExtensionsStillCompile` |
| `workspace` | What do failures and kills leave of a project directory? | `SwapIsSafe`, `RerunRecovers`, `UserCodeKept`, `ManifestMatches` |
| `workspace_torn` | Is a generated root never half written? No | `NeverHalfWritten` violated |
| `workspace_manifest` | Does archiving again keep every earlier association? No | `AssociationsKept` violated |
| `integrations` | Are previews, deployments and connections in the projects, and of the users, that asked? | `StaysInProject`, `PreviewAnswers`, `ConnectedByOwnFlow` |

Some of these are conjunctions: `Lineage` is `LinearHistory` and `HeadIsTip`; `Ownership` is
`ExclusiveJobs` and `RunningIsRun`; `PointerIsTrue` is `StartedIsPointed` and
`ReflectedIsReal`; `OneTokenOneAdmission` is `AdmittedOnce` and `OneLiveToken`. The type
invariants of the two queues are proved (section 4) and not run.

**Bounds.** In the store, three requests are enough for one to hold the lock, one to wait and
one to have committed in between; two resources, two labels and one relationship for a
deletion to be blocked, unblocked and raced. `store_specs` has one project, since the lock and
the head are per project (the proofs are for any number); `store_jobs` has two, so that a
pruned one is told from another and a job could be given another's revision, and only submits
and reads, the operations whose stale reads a prune can meet; one of its three requests may
make a job, and the others commit before and after it. Two jobs and two workers are enough for
every race of a claim and for a second job to find what the first left; two revisions for the
frozen one to differ from the head; two repository names for the same and for different
targets. `Budget` bounds database faults, crashes and shutdowns to one each (in `build_queue`
a crash or a shutdown); failing GitHub and Cloud calls are not bounded. `Endings` in
`build_queue` has one success and one non-success: the worker treats the other terminal
statuses alike. `build_failed` has one job, one worker and no budget, so that a failed call to
Cloud is all that can go wrong. In `invitations`, three requests let two of them race for what
a third has left; the owner and the admin of one organization differ in what they may grant,
and the third user is invited there and founds the other organization. `Grants` leaves out the
roles between owner and member, whose ranks add no new comparison against those two inviters.

In `editor`, `MaxSize` bounds what a specification holds (entities, selections, hooks, cards,
menu entries) to five and `MaxLoaded` what an editor loads to three: a resource, a field of it
in a list, a page over it and a selection on the page is four, and any reference of the format
has both its ends within five. One label makes every name collide, which is when minting has
something to do. The `Types` are one of each kind the rules distinguish (searchable,
aggregatable, orderable date, relationship), and two of one Go type of which only one may be
filtered by. Ids are taken again once nothing carries them, and a candidate is one edit old at
most (`MayEdit`): an older one differs only in how much has changed underneath it.

In `workspace`, two roots are what the compiler has, and the second version has no files under
one of them. Three faults let a recovery, and the recovery of that, fail as well. One edit and
two names are enough for an archive to meet the extension of a later resource under the same
name, which takes one archive key. A file a root suffices for `workspace`, where a tree is
then whole or empty; `workspace_torn` has two, for a tree to be half there and not empty, and
no edits; `workspace_manifest` needs two names under one key and one fault. In `integrations`,
two revisions, two environments and two deployments let every name be the wrong one; two
requests let one act between another's check and call. `ChosenNames` is a name Forge would
choose itself. Two flows and two callbacks are those of two users, or of one user twice.

**Symmetry** is used for requests (`store_specs`, `invitations`), workers (`build_queue`), ids
of each kind (`editor`), names (`workspace`), requests and projects
(`integrations`), in runs that check no liveness. Jobs are not symmetric: the queue takes
them in id order. `store_jobs` and `export_queue` check liveness and use none.

**Deadlock** is checked in every run. `Quiesce` and `Poll` are the idle states of a store
whose requests are all answered and of a worker between ticks. `SomeoneGoesOn` is the
same question about the locks of PostgreSQL, whose waiters `Abort` could always free.

**Fairness.** `RequestsEnd` assumes that a transaction holding its lock goes on (weak fairness:
statements end or fail) and strong fairness of `LockProject`, since PostgreSQL queues the
waiters of a row lock; it holds although an operator may delete rows at any time. `Abort` and
`Start` need not happen. `JobsEnd` and `BuildJobsEnd` assume weak fairness of each worker's own
steps: all calls carry timeouts, `Run` ticks for ever, and a stopped server is started again.
Nothing is assumed of GitHub or Cloud. The edits, the workspace and the integrations promise
nothing that must happen: a developer or a client tries again.

### Divergences found

Each of these is a run:

* `build_failed`: `cloudbuild/models.go:28` says a failed job failed to assemble or submit or
  its Cloud build failed. A job whose build was created and uploaded is failed by one status
  call that fails (`buildworker/worker.go:205`), while its build goes on to succeed. The
  property is about submitted jobs, so a submission whose answer is lost, which the comment
  covers, is no counterexample: the trace of the run fails the first poll and nothing else.
* `invitations_history`: `models.go` says accepted invitations are exempt from superseding,
  so that history is preserved. A re-invite that found the invitation pending deletes it by
  id after an acceptance has committed in between; the member stays, the record of how they
  came goes, and a pending invitation of a member is left.
* `workspace_torn`: `materialize.go` says an interrupted materialization never leaves a
  half-written tree. Where the live tree is missing, as after a kill between the two renames, the
  next run removes the retired tree, ignores that the removal may stop half way (line 128),
  and, if it then cannot install, renames what is left of it into the live place (line 140). It
  takes a kill and two failures. The attempt to prove that it never happens found it: what the
  code ignores is the one fact `Restore` would need. `SwapIsSafe` states, and `WorkspaceProofs`
  proves, what does hold: a root that was whole when the command started is whole or missing,
  never half written; a root that ends up incomplete had none that was whole, and holds files
  of one version only; and a root that went missing is complete beside its place.
* `workspace_manifest`: `archive.go` says that archiving into one key again "never drops an
  earlier association" (148-150; 69-70 too). `writeManifest` truncates the manifest and writes
  it anew (`os.WriteFile`, line 171): a write cut short leaves one that cannot be parsed. What
  it recorded is gone, and each later archive into the key moves its extension and then ends
  in the error of lines 155-157. `ManifestMatches` says what holds of one that can be read.

The models also follow the code where a comment says otherwise in these, without a run:

* `cp/project/field.go:84-86` says a type change "classifies breaking" and is returned for
  validation. The class compares Go types, and string, text and enum have one, as have date
  and datetime (`gen/fieldtype.go:24`): such a change is neutral and committed at once. The
  run `editor` makes it, between string and text.
* `cp/project/resource.go:161-162` gives the removal of the last resource as what the validity
  check after the deletion analysis is for. No rule of `internal/spec/validate.go` asks for a
  resource: the last one goes like any other. `BlockersExact` says that where the analysis
  blocks nothing, that check refuses nothing.
* `cp/cloudbuild/routes.go:535` calls the build id of a deployment one "from a succeeded build
  job's cloud_build_id". No code looks for such a job: the id goes to Cloud as it came
  (547-555). `StaysInProject` is about environments and says nothing of whose build it is.
* `cp/project/models.go:100` says a nil parent marks the project's first revision. After
  its head is pruned (the migration's `ON DELETE SET NULL`), a project keeps its older
  revisions but has no head, and its next revision has a nil parent as well.
* The outcome write and the rollback have fifteen seconds each, and the export worker's
  comment says the write must land; the server waits ten for both (`cmd/server/main.go:198`).
  This is `Abandon`.
* `cp/githubconnect/service.go:102` says an expired state is consumed; the error returned from
  inside the transaction rolls the delete back. The row stays, and stays expired.
* A tree that `Materialize` cannot look at is taken for none (`materialize.go:130`). For a root
  the version has files for, the rename that follows then fails; for one it has none for, the
  run succeeds and the old tree stays. `SwapIsSafe` does not promise the removal, and
  `RerunRecovers` is about a run that meets no fault.
* After a 409, a preview is answered by any environment that has the name, one somebody else
  made included (`PreviewAnswers` says so).

## 4. Proofs

Every invariant and action property that a run checks is a theorem of its module, for every
value of the constants that its named assumption allows; TLC evaluates that assumption in
each run of the module. Bounds of the runs (`Budget`, `MaxFaults`, `MaxSize`, `Grants`, ...)
are constants like the others, so the theorems hold for any of them. Liveness stays with the
runs alone.

| Module | Theorems | Assumes |
|---|---|---|
| `RevisionStoreProofs` | `StoreTypeOK`, `StoreLineage` (from `StoreLinearHistory`, `StoreHeadIsTip`), `StoreCommittedValid`, `StoreEditsApplyToParent`, `StoreNothingRemovedSilently`, `StoreAuditMatchesRevisions`, `StoreNeverCorrupt`, `StoreImplementsLedger`; of `AdminSpec`: `StoreParentsStored`, `StoreEditsNeverCorrupt`, `StoreAdminCommittedValid`, `StoreAdminEditsApplyToParent`, `StoreAdminNothingRemovedSilently` | `StoreAssumption` |
| `FrozenJobsProofs` | `JobsBuiltAsSeen`, `JobsMissingWasDeleted`, all of `JobAdminSpec`; `JobsFind` of `JobSpec` | `StoreAssumption`, `JobAssumption` |
| `ExportQueueProofs` | `ExportTypeOK`, `ExportOwnership`, `ExportSucceeded`, `ExportFailedLeavesNothing`, `ExportRollbackDeletesOwn`, `ExportImplementsLifecycle` | `ExportAssumption` |
| `BuildQueueProofs` | `BuildTypeOK`, `BuildOwnership`, `BuildSucceeded`, `BuildPointerIsTrue`, `BuildReflectionNeverRegresses`, `BuildImplementsLifecycle` | `BuildAssumption` |
| `InvitationsProofs` | `OrgTypeOK`, `OrgNoEscalation`, `OrgOneTokenOneAdmission`, `OrgSomeoneGoesOn`, `OrgSupersedeRespectsRank`, `OrgPendingOnlyByRace` | `OrgAssumption` |
| `SpecEditorProofs` | `EditorInvariant`, `EditorGraphLosesNothing`, `EditorBlockersExact`, `EditorExtensionsStillCompile` | `SpecEditorAssumption` |
| `WorkspaceProofs` | `WorkspaceSwapIsSafe`, `WorkspaceRerunRecovers`, `WorkspaceUserCodeKept`, `WorkspaceManifestMatches` | `WorkspaceAssumption` |
| `IntegrationsProofs` | `CloudStaysInProject`, `CloudPreviewAnswers`; `ConnectOwnFlow` | `CloudAssumption`; `ConnectAssumption` |

None of these properties is inductive alone: what a step does rests on what its process read
or decided some steps before. Each proof says what every process knows at each place of its
code, and shows that the others do not take it away.

**The store.** That a commit keeps history linear depends on what its transaction read.
`IInv` conjoins `TypeOK`, `TxOK` (an open transaction holds the row lock of its project, so
its `base` is still the head, and what it is about to insert is valid and has an unused id),
`DistinctIds` (ids taken from the sequence and not yet committed are distinct) and `DbOK`
(heads and parents are stored, each of its own project, and specs are valid). The lock is why
`TxOK` survives other transactions' commits; `TxOK` is why `DbOK` survives one's own, and why
`Lineage` is inductive beside it. `HInv` adds what each stored revision, and what each
transaction has in hand, is relative to its parent. Both invariants survive an operator's
deletes: pruning a revision takes all its descendants, so no parent is lost; and it takes a
head only by updating the project row, which waits for the lock, so no open edit loses its
base. That gives the theorems of `AdminSpec`. What does not survive is what rests on no lock:
that a reader between its two statements finds its head stored, and that an event has its
revision. `HInv` has these under `quiet`, the assumption that nobody deletes rows.
What is left to such a reader then is `JobsMissingWasDeleted`, below.
`StoreImplementsLedger` is the refinement: a commit appends to the tip, all other steps stutter.

**Jobs over the store.** A reader between its two statements and a job hold nothing but an id,
unlocked, for as long as they like, while the id's revision may be deleted. `JInv` says that
the id is `Settled`: it was committed, with its event, no open transaction has it, and none
will be given it, the sequence being past it. So it names the revision that was answered or
nothing, and never one that was rolled back, is being written or took its place; this is
`JobsBuiltAsSeen` and `JobsMissingWasDeleted`, with an operator at work. Without one, heads only
move forward and rows stay (`Forward`), which gives `JobsFind`: what `ExportQueue` and
`BuildQueue` assume when their `Enqueue` takes any revision up to the head.
That the jobs only read the store is how `FrozenJobs` is made: each of its steps is a step of
the store or leaves the store's variables alone.

**The queues.** `WorkerOK(w)` says what a worker knows at each place of `RunOnce`: that its
job is running and in nobody else's hands, that the revision it read is the row's, and what
has become of the repository (or build) so far. `JobOK(j)` says what a row says of the
account (or of Cloud), `NoSharing` that no two workers hold one job. The row lock and the
status make the holder of a job unique. For exports, a repository's name is free when it is
made and only its maker's job touches it, so "mine, with this content" stays true; hence
success means published, and the rollback deletes nothing but its own. For builds, only Cloud
and the one holder move a build, and Cloud never moves a settled one, so a terminal status
that was read is still true when it is written. The refinements to `JobLifecycle` need
`WorkerOK` again: a terminal mark is only written over `running`.

**Invitations.** Requests hold few locks, so most of what one has read is stale at once. What
is not is listed in `IInv`: an id is used for one row for good (`IdsOK`), so the organization
and the address behind an id never change; an inviter or an invitee at each place of its
transaction (`InviterOK`, `InviteeOK` in `TxOK`); every invitation was issued by a member who
could (`InvOK`); and no two open transactions decide about one address or one seat
(`Exclusive`), which the unique indexes give by making the second inserter wait.
`OrgSomeoneGoesOn` orders the waits: if nobody is about to commit, an insert that has to wait
waits for a request that has deleted the address's only live invitation, and that one waits
for nobody; and if no request is at its insert, nobody holds a row.

**Specifications.** The work is in lemmas about one valid specification, of any size: the
validator's rules, written per resource, page and card, make every lookup of the graph
builder succeed (`ListsResolved`, `PagesResolved`, `CardsResolved`, `OneEdge`); deleting a
resource breaks exactly the rules whose blocker the analysis names (`BlockedIsInvalid`,
`UnblockedIsValid`); and a transition that is not breaking keeps what Go code beside the
package uses (`UnbrokenCompiles`). `EditorInv` is what the state adds: the head is valid, and
every id in it or in what an editor loaded was minted, so none is the empty one that stands
for "no resource" in a page. The second half is needed because a candidate may be of any age.

**The workspace.** `PassOK` says which roots a run has dealt with, which one it has in hand
and what it knows of that one's three trees; `SwapOK` is `SwapIsSafe` in terms of what the run
found (`began`), which `PassOK` relates to what is live; `CleanOK` is what a run that has met
no fault knows besides, for `RerunRecovers`. Faults may leave anything in the siblings that
consists of files of one version (`GeneratedTypeOK`), and the proof uses no more. For the
developer's code, `MoveOK` says what is known of the directory in hand (a copy is complete
before its source is removed) and `ArchivesOK` which archives the manifests know of, as long
as they can be read.

**The integrations.** `Knows` says what a request has established at each of its positions,
and environments and deployments are only added and never change the project or environment
they belong to, so no request loses it. `Asked` and `NamedFor` do the same for names: an
environment Forge named carries the name of its revision for good, and one that is found
taken stays so until it goes away, which `raced` records. Two callbacks with one OAuth state
meet at its row: `ConnectInv` says that one about to delete the row holds its lock and is its
owner's (`DeletersOK`), that one past the delete is alone with its state, which no connection
has used (`HoldersOK`), and that a stored or unminted state is unused (`RowsOK`).

*Left to TLC.* Liveness (`RequestsEnd`, `JobsEnd`, `BuildJobsEnd`), which needs ENABLED. No
invariant or action property of a run is only model-checked. `Lineage` and
`AuditMatchesRevisions` are not true of what an operator has pruned: a project whose head is
gone starts a second chain, and an event outlives its revision.

## 5. What is left

The plan is carried out: the components where order decides are modelled and checked, what
their runs check is proved but for liveness, and the store and the queues are tied together by
`FrozenJobs`. A next step would be the retry of a job, should the service get one: today nothing
requeues what a dead worker leaves.

**Not modelled:**

* Text generation (`internal/compiler/gen`, templates) and the compiler that drives it: a
  deterministic function of a valid specification; what it makes of references is in
  `ProjectSpec`, and golden tests suit the rest better.
* Candidate and health checks, the toolchain wrapper: sequential runs of external tools whose
  output is classified; no service calls them.
* Refactors and the ledger of lineages of `internal/spec`: no service calls them.
* HTTP decoding, paging, listing routes and the web client: they hold no state of their own
  whose order of changes matters.
* Labels, ordering, defaults, constraints and enum values of a specification, and its encoding:
  the rules modelled here do not depend on them.
