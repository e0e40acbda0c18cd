---------------------------- MODULE RevisionStore ----------------------------
(***************************************************************************)
(* The control plane's project and revision store                          *)
(* (controlplane/internal/project, tables projects / project_revisions /   *)
(* audit_events).  Every HTTP request that edits a project's specification *)
(* runs one PostgreSQL transaction that locks the project row FOR UPDATE,  *)
(* loads the head revision's spec, derives a candidate, validates and      *)
(* ABI-classifies it, and appends a revision.  Requests run concurrently;  *)
(* each is one-shot, so the number of requests bounds a behaviour.         *)
(*                                                                         *)
(* A spec is abstracted to what the store's decisions depend on: which     *)
(* resources are live and under which label, and which resource refers to  *)
(* which (a belongs_to field).                                             *)
(***************************************************************************)
EXTENDS Naturals

CONSTANTS
    Projects,   \* ids a project row may get
    Requests,   \* HTTP requests; each performs one operation, once
    Resources,  \* stable resource ids
    Labels,     \* human-readable labels
    Links,      \* belongs_to fields that may exist: <<owner, target>>
    Kinds,      \* the operations the requests perform
    Absent,     \* "this resource is not in the spec"
    NoSpec,     \* "the project has no revision yet"
    Free        \* "no transaction holds the row lock"

AllKinds == {"add", "rename", "relate", "unrelate", "delete", "submit", "create", "read"}

ASSUME StoreAssumption ==
    /\ Links \subseteq Resources \X Resources
    /\ Kinds \subseteq AllKinds
    /\ Absent \notin Labels
    /\ Free \notin Requests

NoRev  == 0             \* a NULL revision id
RevIds == Nat \ {0}

-----------------------------------------------------------------------------
(* Specs and the pure decisions taken on them.                             *)

Live(s) == {r \in Resources : s.label[r] # Absent}

\* A field lives on its resource, so a link's owner is always live.
ProjectSpecs ==
    {s \in [label : [Resources -> Labels \cup {Absent}], refs : SUBSET Links] :
        \A x \in s.refs : x[1] \in Live(s)}

EmptySpec == [label |-> [r \in Resources |-> Absent], refs |-> {}]

\* spec.Validate: a belongs_to target must exist in the spec.
Valid(s) == \A x \in s.refs : x[2] \in Live(s)

\* Mutation: dropped field accessors are not diffed.
BreakingByResourceOnly(cur, cand) == ~(Live(cur) \subseteq Live(cand))

\* compiler.ClassifyEdit: a removed resource or a removed accessor is breaking.
Breaking(cur, cand) ==
    \/ ~(Live(cur) \subseteq Live(cand))
    \/ ~(cur.refs \subseteq cand.refs)

Labelled(s, r, l) == [s EXCEPT !.label = [s.label EXCEPT ![r] = l]]
Related(s, x)     == [s EXCEPT !.refs = s.refs \cup {x}]
Unrelated(s, x)   == [s EXCEPT !.refs = s.refs \ {x}]

\* Mutation: the deleted resource's own fields stay behind.
WithoutKeepingFields(s, r) == [s EXCEPT !.label = [s.label EXCEPT ![r] = Absent]]

Without(s, r)     == [label |-> [s.label EXCEPT ![r] = Absent],
                      refs  |-> {x \in s.refs : x[1] # r}]

\* compiler.AnalyzeDeletions: what still refers to r once r is gone.
Blockers(s, r) == {x \in Without(s, r).refs : x[2] = r}

\* The spec an edit starts from: the head's, or the bootstrap of an empty project.
Base(cur) == IF cur = NoSpec THEN EmptySpec ELSE cur

Ops ==
    [kind : {"add", "rename"}, proj : Projects, res : Resources, label : Labels]
      \cup [kind : {"relate", "unrelate"}, proj : Projects, link : Links]
      \cup [kind : {"delete"}, proj : Projects, res : Resources]
      \cup [kind : {"submit", "create"}, proj : Projects, cand : ProjectSpecs]
      \cup [kind : {"read"}, proj : Projects]

\* The candidate an operation builds from the spec it was given.
Edited(op, s) ==
    CASE op.kind \in {"add", "rename"}    -> Labelled(s, op.res, op.label)
      [] op.kind = "relate"               -> Related(s, op.link)
      [] op.kind = "unrelate"             -> Unrelated(s, op.link)
      [] op.kind = "delete"               -> Without(s, op.res)
      [] op.kind \in {"submit", "create"} -> op.cand

-----------------------------------------------------------------------------
VARIABLES
    projects,  \* existing project rows
    head,      \* projects.head_revision_id
    revs,      \* project_revisions: id -> row
    audit,     \* audit_events, as <<action, target>>
    nextId,    \* the project_revisions id sequence
    lock,      \* row lock on each project row
    tx         \* each request's transaction

db   == <<projects, head, revs, audit, nextId>>
vars == <<projects, head, revs, audit, nextId, lock, tx>>

\* origin is a history field: the operation that wrote the row.
Row == [project : Projects, parent : Nat, spec : ProjectSpecs, origin : Ops]

Outcomes == {"none", "no_project", "no_spec", "not_found", "invalid_spec", "breaking",
             "blocked", "committed", "error", "no_revision", "read", "corrupt"}

PCs == {"idle", "begin", "load", "edit", "insert", "commit", "readrev", "done"}

\* A request that has not started.
NoTx == [pc |-> "idle", op |-> NoSpec, base |-> NoRev, cur |-> NoSpec,
         cand |-> NoSpec, id |-> NoRev, outcome |-> "none"]

InTx(q) == tx[q].pc \in {"load", "edit", "insert", "commit"}

\* The request ends with this outcome; a transaction it had open releases its lock.
Ended(q, outcome) == [NoTx EXCEPT !.pc = "done", !.id = tx[q].id, !.outcome = outcome]

\* Mutation: a transaction that ends without rolling back keeps its lock.
FinishLeakingLock(q, outcome) ==
    /\ tx' = [tx EXCEPT ![q] = Ended(q, outcome)]
    /\ lock' = IF InTx(q) /\ outcome = "committed"
               THEN [lock EXCEPT ![tx[q].op.proj] = Free] ELSE lock

Finish(q, outcome) ==
    /\ tx' = [tx EXCEPT ![q] = Ended(q, outcome)]
    /\ lock' = IF InTx(q) THEN [lock EXCEPT ![tx[q].op.proj] = Free] ELSE lock

\* The stable ids an operation brings with it.
Brings(op) == CASE op.kind = "add"                -> {op.res}
                [] op.kind \in {"submit", "create"} -> Live(op.cand)
                [] OTHER                          -> {}

Known == UNION {Live(revs[k].spec) : k \in DOMAIN revs}

\* AddResource draws a random id: one no stored revision carries, and one that no
\* other request names before it is stored.
Nameable(op) ==
    /\ op.kind = "add" => op.res \notin Known
    /\ \A q \in Requests :
          tx[q].op # NoSpec /\ (op.kind = "add" \/ tx[q].op.kind = "add")
              => Brings(op) \cap Brings(tx[q].op) = {}

Init ==
    /\ projects = {}
    /\ head = [p \in Projects |-> NoRev]
    /\ revs = [k \in {} |-> NoSpec]
    /\ audit = {}
    /\ nextId = 1
    /\ lock = [p \in Projects |-> Free]
    /\ tx = [q \in Requests |-> NoTx]

-----------------------------------------------------------------------------
(* CreateProject: the row and its project.created event, in one            *)
(* transaction.  Ids come from a sequence, so an id is never used again.   *)
CreateProject(p) ==
    /\ <<"project.created", p>> \notin audit
    /\ projects' = projects \cup {p}
    /\ audit' = audit \cup {<<"project.created", p>>}
    /\ UNCHANGED <<head, revs, nextId, lock, tx>>

\* Mutation: CreateRevision trusts its caller to have validated.
StartUnvalidated(q, op) ==
    /\ tx[q].pc = "idle"
    /\ op.kind \in Kinds /\ Nameable(op)
    /\ tx' = [tx EXCEPT ![q] = [NoTx EXCEPT !.pc = "begin", !.op = op]]
    /\ UNCHANGED <<db, lock>>

(* A request arrives.  CreateRevision validates before it opens its        *)
(* transaction; every other operation validates inside it.                 *)
Start(q, op) ==
    /\ tx[q].pc = "idle"
    /\ op.kind \in Kinds /\ Nameable(op)
    /\ LET rejected == op.kind = "create" /\ ~Valid(op.cand)
       IN  tx' = [tx EXCEPT ![q] = IF rejected THEN Ended(q, "invalid_spec")
                                     ELSE [NoTx EXCEPT !.pc = "begin", !.op = op]]
    /\ UNCHANGED <<db, lock>>

\* Mutation: a plain SELECT, without FOR UPDATE.
LockProjectWithoutLock(q) ==
    /\ tx[q].pc = "begin" /\ tx[q].op.kind # "read" /\ tx[q].op.proj \in projects
    /\ LET op == tx[q].op IN
       tx' = [tx EXCEPT ![q].base = head[op.proj],
                        ![q].pc = IF op.kind = "create" THEN "insert" ELSE "load",
                        ![q].cand = IF op.kind = "create" THEN op.cand ELSE NoSpec]
    /\ UNCHANGED <<db, lock>>

(* SELECT ... FOR UPDATE on the project row: waits for the lock, then      *)
(* reads the row as last committed.                                        *)
LockProject(q) ==
    /\ tx[q].pc = "begin" /\ tx[q].op.kind # "read"
    /\ LET op == tx[q].op IN
       \/ /\ op.proj \notin projects
          /\ Finish(q, "no_project")
       \/ /\ op.proj \in projects
          /\ lock[op.proj] = Free
          /\ lock' = [lock EXCEPT ![op.proj] = q]
          /\ tx' = [tx EXCEPT ![q].base = head[op.proj],
                              ![q].pc = IF op.kind = "create" THEN "insert" ELSE "load",
                              ![q].cand = IF op.kind = "create" THEN op.cand ELSE NoSpec]
    /\ UNCHANGED db

\* Mutation: any revision of the project is loaded, not the one the row names.
LoadAnyRevision(q) ==
    LET own == {k \in DOMAIN revs : revs[k].project = tx[q].op.proj} IN
    /\ tx[q].pc = "load"
    /\ \/ own = {} /\ tx' = [tx EXCEPT ![q].pc = "edit"]
       \/ \E k \in own : tx' = [tx EXCEPT ![q].cur = revs[k].spec, ![q].pc = "edit"]
    /\ UNCHANGED <<db, lock>>

(* withLockedSpec: load the head the locked row names.                     *)
LoadHead(q) ==
    /\ tx[q].pc = "load"
    /\ LET k == tx[q].base IN
       \/ /\ k # NoRev /\ k \notin DOMAIN revs
          /\ Finish(q, "corrupt")
       \/ /\ k = NoRev \/ k \in DOMAIN revs
          /\ tx' = [tx EXCEPT ![q].cur = IF k = NoRev THEN NoSpec ELSE revs[k].spec,
                              ![q].pc = "edit"]
          /\ UNCHANGED lock
    /\ UNCHANGED db

(* classifyAndInsertLocked up to the insert: an invalid or a breaking      *)
(* candidate ends the transaction with nothing appended.                   *)
Classify(q, cand) ==
    LET cur == tx[q].cur
        breaking == cur # NoSpec /\ Breaking(cur, cand)
    IN  \/ ~Valid(cand) /\ Finish(q, "invalid_spec")
        \/ Valid(cand) /\ breaking /\ Finish(q, "breaking")
        \/ /\ Valid(cand) /\ ~breaking
           /\ tx' = [tx EXCEPT ![q].cand = cand, ![q].pc = "insert"]
           /\ UNCHANGED lock

(* AddResource starts from a bootstrap spec when the project has none.     *)
AddResource(q) ==
    LET t == tx[q] IN
    /\ t.pc = "edit" /\ t.op.kind = "add"
    /\ Classify(q, Edited(t.op, Base(t.cur)))
    /\ UNCHANGED db

RenameResource(q) ==
    LET t == tx[q] IN
    /\ t.pc = "edit" /\ t.op.kind = "rename"
    /\ \/ t.cur = NoSpec /\ Finish(q, "no_spec")
       \/ t.cur # NoSpec /\ t.op.res \notin Live(t.cur) /\ Finish(q, "not_found")
       \/ t.cur # NoSpec /\ t.op.res \in Live(t.cur) /\ Classify(q, Edited(t.op, t.cur))
    /\ UNCHANGED db

AddRelationship(q) ==
    LET t == tx[q]
        ends == {t.op.link[1], t.op.link[2]}
    IN
    /\ t.pc = "edit" /\ t.op.kind = "relate"
    /\ \/ t.cur = NoSpec /\ Finish(q, "no_spec")
       \/ t.cur # NoSpec /\ ~(ends \subseteq Live(t.cur)) /\ Finish(q, "not_found")
       \/ t.cur # NoSpec /\ ends \subseteq Live(t.cur) /\ Classify(q, Edited(t.op, t.cur))
    /\ UNCHANGED db

(* DeleteField on a belongs_to field: the accessor goes with it, so the     *)
(* candidate is always breaking.                                           *)
DeleteField(q) ==
    LET t == tx[q] IN
    /\ t.pc = "edit" /\ t.op.kind = "unrelate"
    /\ \/ t.cur = NoSpec /\ Finish(q, "no_spec")
       \/ t.cur # NoSpec /\ t.op.link \notin t.cur.refs /\ Finish(q, "not_found")
       \/ t.cur # NoSpec /\ t.op.link \in t.cur.refs /\ Classify(q, Edited(t.op, t.cur))
    /\ UNCHANGED db

(* DeleteResource: blocked while anything refers to the resource, else     *)
(* validated and committed without the ABI gate.                           *)
DeleteResource(q) ==
    LET t == tx[q]
        cand == Edited(t.op, t.cur)
    IN
    /\ t.pc = "edit" /\ t.op.kind = "delete"
    /\ \/ t.cur = NoSpec /\ Finish(q, "no_spec")
       \/ t.cur # NoSpec /\ t.op.res \notin Live(t.cur) /\ Finish(q, "not_found")
       \/ /\ t.cur # NoSpec /\ t.op.res \in Live(t.cur)
          /\ \/ Blockers(t.cur, t.op.res) # {} /\ Finish(q, "blocked")
             \/ /\ Blockers(t.cur, t.op.res) = {}
                /\ \/ ~Valid(cand) /\ Finish(q, "invalid_spec")
                   \/ /\ Valid(cand)
                      /\ tx' = [tx EXCEPT ![q].cand = cand, ![q].pc = "insert"]
                      /\ UNCHANGED lock
    /\ UNCHANGED db

SubmitCandidate(q) ==
    /\ tx[q].pc = "edit" /\ tx[q].op.kind = "submit"
    /\ Classify(q, tx[q].op.cand)
    /\ UNCHANGED db

\* Mutation: the audit event is written on the service's own connection.
InsertAuditingOutsideTx(q) ==
    /\ tx[q].pc = "insert"
    /\ tx' = [tx EXCEPT ![q].id = nextId, ![q].pc = "commit"]
    /\ nextId' = nextId + 1
    /\ audit' = audit \cup {<<"spec.revision.created", nextId>>}
    /\ UNCHANGED <<projects, head, revs, lock>>

\* Mutation: the head is moved on the service's own connection.
InsertMovingHeadOutsideTx(q) ==
    /\ tx[q].pc = "insert"
    /\ tx' = [tx EXCEPT ![q].id = nextId, ![q].pc = "commit"]
    /\ nextId' = nextId + 1
    /\ head' = [head EXCEPT ![tx[q].op.proj] = nextId]
    /\ UNCHANGED <<projects, revs, audit, lock>>

(* insertRevisionLocked: the row, the head move and the audit event are    *)
(* written on the open transaction; only the id sequence moves at once.    *)
InsertRevision(q) ==
    /\ tx[q].pc = "insert"
    /\ tx' = [tx EXCEPT ![q].id = nextId, ![q].pc = "commit"]
    /\ nextId' = nextId + 1
    /\ UNCHANGED <<projects, head, revs, audit, lock>>

\* Mutation: the head is not advanced.
CommitWithoutHeadMove(q, outcome) ==
    LET t == tx[q]
        row == [project |-> t.op.proj, parent |-> t.base, spec |-> t.cand, origin |-> t.op]
    IN
    /\ t.pc = "commit"
    /\ revs' = [k \in DOMAIN revs \cup {t.id} |-> IF k = t.id THEN row ELSE revs[k]]
    /\ audit' = audit \cup {<<"spec.revision.created", t.id>>}
    /\ Finish(q, outcome)
    /\ UNCHANGED <<projects, head, nextId>>

(* COMMIT publishes the three writes together.  The acknowledgement may be *)
(* lost, in which case the caller sees an error for a committed edit.      *)
Commit(q, outcome) ==
    LET t == tx[q]
        p == t.op.proj
        row == [project |-> p, parent |-> t.base, spec |-> t.cand, origin |-> t.op]
    IN
    /\ t.pc = "commit"
    /\ revs' = [k \in DOMAIN revs \cup {t.id} |-> IF k = t.id THEN row ELSE revs[k]]
    /\ head' = [head EXCEPT ![p] = t.id]
    /\ audit' = audit \cup {<<"spec.revision.created", t.id>>}
    /\ Finish(q, outcome)
    /\ UNCHANGED <<projects, nextId>>

(* A statement fails, the request is cancelled, or the server dies: the    *)
(* transaction rolls back.                                                 *)
Abort(q) ==
    /\ InTx(q) \/ tx[q].pc \in {"begin", "readrev"}
    /\ Finish(q, "error")
    /\ UNCHANGED db

(* Head: the project row and then its revision, two statements and no      *)
(* transaction around them.                                                *)
ReadProject(q) ==
    /\ tx[q].pc = "begin" /\ tx[q].op.kind = "read"
    /\ LET p == tx[q].op.proj IN
       \/ p \notin projects /\ Finish(q, "no_project")
       \/ p \in projects /\ head[p] = NoRev /\ Finish(q, "no_revision")
       \/ /\ p \in projects /\ head[p] # NoRev
          /\ tx' = [tx EXCEPT ![q].base = head[p], ![q].pc = "readrev"]
          /\ UNCHANGED lock
    /\ UNCHANGED db

ReadRevision(q) ==
    /\ tx[q].pc = "readrev"
    /\ \/ tx[q].base \in DOMAIN revs /\ Finish(q, "read")
       \/ tx[q].base \notin DOMAIN revs /\ Finish(q, "corrupt")
    /\ UNCHANGED db

Quiesce ==
    /\ \A q \in Requests : tx[q].pc = "done"
    /\ UNCHANGED vars

Edit(q) == \/ AddResource(q) \/ RenameResource(q) \/ AddRelationship(q)
           \/ DeleteField(q) \/ DeleteResource(q) \/ SubmitCandidate(q)

Step(q) == \/ LoadHead(q) \/ Edit(q) \/ InsertRevision(q)
           \/ Commit(q, "committed") \/ Commit(q, "error")
           \/ ReadProject(q) \/ ReadRevision(q)

Next ==
    \/ \E p \in Projects : CreateProject(p)
    \/ \E q \in Requests :
          \/ \E op \in Ops : Start(q, op)
          \/ LockProject(q) \/ Step(q) \/ Abort(q)
    \/ Quiesce

Spec == Init /\ [][Next]_vars

(* Transactions make progress, and PostgreSQL queues the waiters of a row  *)
(* lock, so a waiter is not overtaken for ever.                            *)
Fairness == \A q \in Requests : WF_vars(Step(q)) /\ SF_vars(LockProject(q))

FairSpec == Spec /\ Fairness

-----------------------------------------------------------------------------
(* The operator's database: the ON DELETE rules of the committed migration *)
(* let a revision or a project be deleted under the service.               *)

\* Mutation: pruning a revision leaves its descendants.
DescendantsSelfOnly(k) == {k}

\* k and everything below it (project_revisions.parent ON DELETE CASCADE).
Descendants(k) ==
    {j \in DOMAIN revs :
        \A S \in SUBSET DOMAIN revs :
            (k \in S /\ \A i \in DOMAIN revs : revs[i].parent \in S => i \in S) => j \in S}

Keep(ids) == [j \in ids |-> revs[j]]

\* Mutation: a rollback that deletes the revisions and leaves the head (no SET NULL).
PruneKeepingHead(k) ==
    /\ k \in DOMAIN revs
    /\ revs' = Keep(DOMAIN revs \ Descendants(k))
    /\ UNCHANGED <<projects, head, audit, nextId, lock, tx>>

(* Deleting the head sets projects.head_revision_id to NULL, an update of  *)
(* the project row that waits for its lock.                                *)
PruneRevision(k) ==
    /\ k \in DOMAIN revs
    /\ LET gone == Descendants(k) IN
       /\ \A p \in Projects : head[p] \in gone => lock[p] = Free
       /\ revs' = Keep(DOMAIN revs \ gone)
       /\ head' = [p \in Projects |-> IF head[p] \in gone THEN NoRev ELSE head[p]]
    /\ UNCHANGED <<projects, audit, nextId, lock, tx>>

DeleteProject(p) ==
    /\ p \in projects /\ lock[p] = Free
    /\ projects' = projects \ {p}
    /\ revs' = Keep({k \in DOMAIN revs : revs[k].project # p})
    /\ head' = [head EXCEPT ![p] = NoRev]
    /\ UNCHANGED <<audit, nextId, lock, tx>>

AdminNext ==
    \/ Next
    \/ \E k \in DOMAIN revs : PruneRevision(k)
    \/ \E p \in Projects : DeleteProject(p)

AdminSpec == Init /\ [][AdminNext]_vars
FairAdminSpec == AdminSpec /\ Fairness
-----------------------------------------------------------------------------
(* Properties.                                                             *)

TypeOK ==
    /\ projects \subseteq Projects
    /\ head \in [Projects -> Nat]
    /\ DOMAIN revs \subseteq RevIds
    /\ \A k \in DOMAIN revs : revs[k] \in Row
    /\ audit \subseteq {"project.created", "spec.revision.created"} \X (Projects \cup RevIds)
    /\ nextId \in RevIds
    /\ lock \in [Projects -> Requests \cup {Free}]
    /\ tx \in [Requests -> [pc : PCs, op : Ops \cup {NoSpec}, base : Nat,
                           cur : ProjectSpecs \cup {NoSpec},
                           cand : ProjectSpecs \cup {NoSpec},
                           id : Nat, outcome : Outcomes]]

(* Concurrent edits of one project form one chain: no two revisions share a *)
(* parent, and only one has none (CreateRevision's "rather than forking").  *)
LinearHistory ==
    \A j, k \in DOMAIN revs :
        revs[j].project = revs[k].project /\ revs[j].parent = revs[k].parent => j = k

(* The head is the newest revision of the chain: it is stored, it is the    *)
(* project's own, nothing descends from it, and a project without a head    *)
(* has no revisions.                                                        *)
HeadIsTip ==
    \A p \in Projects :
        /\ head[p] # NoRev => head[p] \in DOMAIN revs /\ revs[head[p]].project = p
        /\ \A k \in DOMAIN revs : revs[k].project = p => head[p] # NoRev /\ revs[k].parent # head[p]

(* While nothing is deleted under the service a project's revisions are one *)
(* chain, and its head is the end of it.                                    *)
Lineage == LinearHistory /\ HeadIsTip

SpecOf(k) == IF k = NoRev THEN NoSpec ELSE revs[k].spec

(* No lost update: what a committed edit stored is its own change applied   *)
(* to the spec of the revision it names as its parent, whatever was         *)
(* committed while it waited.                                               *)
EditsApplyToParent ==
    \A k \in DOMAIN revs :
        revs[k].spec = Edited(revs[k].origin, Base(SpecOf(revs[k].parent)))

(* Only a delete, or CreateRevision (which has no ABI gate), removes a      *)
(* resource or an accessor that user extension code may be compiled         *)
(* against; a delete removes one resource and its own fields.               *)
NothingRemovedSilently ==
    \A k \in DOMAIN revs :
        LET old == Base(SpecOf(revs[k].parent))
            new == revs[k].spec
            op  == revs[k].origin
        IN  CASE op.kind = "create" -> TRUE
              [] op.kind = "delete" -> /\ Live(old) \ Live(new) = {op.res}
                                       /\ \A x \in old.refs \ new.refs : x[1] = op.res
              [] OTHER              -> Live(old) \subseteq Live(new) /\ old.refs \subseteq new.refs

(* An invalid candidate never becomes a revision, by any of the three       *)
(* places that validate (CreateRevision, the classifier, DeleteResource).   *)
CommittedValid == \A k \in DOMAIN revs : Valid(revs[k].spec)

(* A revision and its audit event exist together or not at all, across      *)
(* aborted transactions and lost acknowledgements.                          *)
AuditMatchesRevisions ==
    {e[2] : e \in {a \in audit : a[1] = "spec.revision.created"}} = DOMAIN revs

(* No request is ever told the lineage is corrupt.                          *)
NeverCorrupt == \A q \in Requests : tx[q].outcome # "corrupt"

(* Every request that arrives is answered: no edit waits for ever on a row  *)
(* lock that a failed transaction left behind.                              *)
RequestsEnd == \A q \in Requests : tx[q].pc # "idle" ~> tx[q].pc = "done"

(* The store is an append-only ledger of immutable revisions.               *)
Ledger == INSTANCE RevisionLedger WITH
    tip  <- head,
    node <- [k \in DOMAIN revs |->
                [project |-> revs[k].project, parent |-> revs[k].parent, spec |-> revs[k].spec]]
LedgerSpec == Ledger!Spec

(* Under the operator's deletes as well: a lineage never has a hole, so a   *)
(* revision's parent is stored and belongs to the same project.             *)
ParentsStored ==
    \A k \in DOMAIN revs : revs[k].parent # NoRev =>
        /\ revs[k].parent \in DOMAIN revs
        /\ revs[revs[k].parent].project = revs[k].project
        /\ revs[k].parent < k

(* And an edit, which reads the head under the row lock, never finds it     *)
(* gone; a project never points at a revision that is not its own.          *)
EditsNeverCorrupt ==
    /\ \A q \in Requests : tx[q].pc \in {"load", "edit", "insert", "commit"} /\ tx[q].base # NoRev
                            => tx[q].base \in DOMAIN revs
    /\ \A p \in Projects : head[p] # NoRev =>
          head[p] \in DOMAIN revs /\ revs[head[p]].project = p
=============================================================================
