------------------------- MODULE RevisionStoreProofs -------------------------
(***************************************************************************)
(* Proofs about the revision store, for any number of projects, requests,  *)
(* resources, labels and links: of the service alone, and beside an        *)
(* operator who deletes rows.                                              *)
(***************************************************************************)
EXTENDS RevisionStore, TLAPS

(* What a request in state t relies on: while its transaction is open it    *)
(* holds the lock and its base is still the head, and what it is about to   *)
(* insert is a valid spec under an unused id.                               *)
OkFor(q, t) ==
    /\ t.pc \notin {"idle", "done"} => t.op \in Ops
    /\ t.pc \notin {"idle", "done"} /\ t.op.kind = "create" => Valid(t.op.cand)
    /\ t.pc \in {"load", "edit", "insert", "commit"} =>
          lock[t.op.proj] = q /\ t.base = head[t.op.proj]
    /\ t.pc \in {"insert", "commit"} => t.cand \in ProjectSpecs /\ Valid(t.cand)
    /\ t.pc = "commit" => t.base < t.id /\ t.id < nextId /\ t.id \notin DOMAIN revs

TxOK == \A q \in Requests : OkFor(q, tx[q])

DistinctIds ==
    \A q, o \in Requests :
        tx[q].pc = "commit" /\ tx[o].pc = "commit" /\ tx[q].id = tx[o].id => q = o

HeadsOwn ==
    \A p \in Projects : head[p] # NoRev => head[p] \in DOMAIN revs /\ revs[head[p]].project = p

DbOK ==
    /\ \A k \in DOMAIN revs : k < nextId
    /\ ParentsStored /\ HeadsOwn /\ CommittedValid

\* It holds under the operator's deletes as well.
IInv == TypeOK /\ TxOK /\ DistinctIds /\ DbOK

-----------------------------------------------------------------------------
(* Facts about operations and specs.                                       *)

LEMMA OpFields ==
    ASSUME NEW op \in Ops
    PROVE  /\ op.proj \in Projects
           /\ op.kind \in AllKinds
           /\ op.kind \in {"add", "rename"} => op.res \in Resources /\ op.label \in Labels
           /\ op.kind \in {"relate", "unrelate"} => op.link \in Links
           /\ op.kind = "delete" => op.res \in Resources
           /\ op.kind \in {"submit", "create"} => op.cand \in ProjectSpecs
  BY DEF Ops, AllKinds

LEMMA SpecFields ==
    ASSUME NEW s \in ProjectSpecs
    PROVE  /\ s = [label |-> s.label, refs |-> s.refs]
           /\ s.label \in [Resources -> Labels \cup {Absent}]
           /\ s.refs \in SUBSET Links
           /\ \A x \in s.refs : s.label[x[1]] # Absent
  BY DEF ProjectSpecs, Live

LEMMA SpecIntro ==
    ASSUME NEW l \in [Resources -> Labels \cup {Absent}], NEW f \in SUBSET Links,
           \A x \in f : x[1] \in Resources /\ l[x[1]] # Absent
    PROVE  [label |-> l, refs |-> f] \in ProjectSpecs
  BY DEF ProjectSpecs, Live

LEMMA LinkEnds ==
    ASSUME NEW x \in Links PROVE x[1] \in Resources /\ x[2] \in Resources
  BY StoreAssumption DEF StoreAssumption

LEMMA EmptySpecType == EmptySpec \in ProjectSpecs
  BY SpecIntro DEF EmptySpec

\* Every edit of a well-formed spec gives a well-formed spec.
LEMMA EditedType ==
    ASSUME NEW op \in Ops, NEW s \in ProjectSpecs,
           op.kind # "read",
           op.kind = "relate" => op.link[1] \in Live(s)
    PROVE  Edited(op, s) \in ProjectSpecs
<1> USE LinkEnds
<1>a. /\ s = [label |-> s.label, refs |-> s.refs]
      /\ s.label \in [Resources -> Labels \cup {Absent}]
      /\ s.refs \in SUBSET Links
      /\ \A x \in s.refs : s.label[x[1]] # Absent
  BY SpecFields
<1>b. /\ op.kind \in AllKinds
      /\ op.kind \in {"add", "rename"} => op.res \in Resources /\ op.label \in Labels
      /\ op.kind \in {"relate", "unrelate"} => op.link \in Links
      /\ op.kind = "delete" => op.res \in Resources
      /\ op.kind \in {"submit", "create"} => op.cand \in ProjectSpecs
  BY OpFields
<1> USE <1>a, <1>b
<1>1. CASE op.kind \in {"add", "rename"}
  <2> DEFINE l == [s.label EXCEPT ![op.res] = op.label]
  <2>1. l \in [Resources -> Labels \cup {Absent}]
    BY <1>1
  <2>2. \A x \in s.refs : x[1] \in Resources /\ l[x[1]] # Absent
    BY <1>1, StoreAssumption DEF StoreAssumption
  <2>3. Edited(op, s) = [label |-> l, refs |-> s.refs]
    BY <1>1 DEF Edited, Labelled
  <2> QED BY <2>1, <2>2, <2>3, SpecIntro
<1>2. CASE op.kind = "relate"
  <2>1. Edited(op, s) = [label |-> s.label, refs |-> s.refs \cup {op.link}]
    BY <1>2 DEF Edited, Related
  <2> QED BY <1>2, <2>1, SpecIntro DEF Live
<1>3. CASE op.kind = "unrelate"
  <2>1. Edited(op, s) = [label |-> s.label, refs |-> s.refs \ {op.link}]
    BY <1>3 DEF Edited, Unrelated
  <2> QED BY <1>3, <2>1, SpecIntro
<1>4. CASE op.kind = "delete"
  <2> DEFINE l == [s.label EXCEPT ![op.res] = Absent]
             f == {x \in s.refs : x[1] # op.res}
  <2>1. l \in [Resources -> Labels \cup {Absent}]
    BY <1>4
  <2>2. \A x \in f : x[1] \in Resources /\ l[x[1]] # Absent
    BY <1>4
  <2>3. Edited(op, s) = [label |-> l, refs |-> f]
    BY <1>4 DEF Edited, Without
  <2> QED BY <2>1, <2>2, <2>3, SpecIntro
<1>5. CASE op.kind \in {"submit", "create"}
  BY <1>5 DEF Edited
<1> QED BY <1>1, <1>2, <1>3, <1>4, <1>5 DEF AllKinds

-----------------------------------------------------------------------------
(* The inductive invariant.                                                *)

TxType == [pc : PCs, op : Ops \cup {NoSpec}, base : Nat,
           cur : ProjectSpecs \cup {NoSpec}, cand : ProjectSpecs \cup {NoSpec},
           id : Nat, outcome : Outcomes]

DbTypeOK ==
    /\ projects \subseteq Projects
    /\ head \in [Projects -> Nat]
    /\ DOMAIN revs \subseteq RevIds
    /\ \A k \in DOMAIN revs : revs[k] \in Row
    /\ audit \subseteq {"project.created", "spec.revision.created"} \X (Projects \cup RevIds)
    /\ nextId \in RevIds

LEMMA TypeParts ==
    TypeOK <=> DbTypeOK /\ lock \in [Projects -> Requests \cup {Free}] /\ tx \in [Requests -> TxType]
  BY DEF TypeOK, DbTypeOK, TxType

LEMMA InitIInv == Init => IInv
<1> SUFFICES ASSUME Init PROVE IInv
  OBVIOUS
<1>1. TypeOK
  <2>1. NoTx \in TxType
    BY DEF NoTx, TxType, PCs, Outcomes, NoRev
  <2>2. DbTypeOK
    BY DEF Init, DbTypeOK, RevIds, NoRev
  <2> QED BY <2>1, <2>2, TypeParts DEF Init
<1>2. \A q \in Requests : tx[q].pc = "idle"
  BY DEF Init, NoTx
<1>3. TxOK /\ DistinctIds
  BY <1>2 DEF TxOK, OkFor, DistinctIds
<1>4. DbOK
  BY DEF Init, DbOK, ParentsStored, HeadsOwn, CommittedValid
<1> QED BY <1>1, <1>3, <1>4 DEF IInv

\* What a step of one request does to the others when the database stands still.
LEMMA MoveIInv ==
    ASSUME IInv, NEW q \in Requests, NEW t \in TxType,
           tx' = [tx EXCEPT ![q] = t], OkFor(q, t), t.pc # "commit",
           UNCHANGED <<db, lock>>
    PROVE  IInv'
<1>1. TypeOK'
  BY TypeParts DEF IInv, db, TypeOK, TxType
<1>2. \A o \in Requests : tx'[o] = IF o = q THEN t ELSE tx[o]
  BY TypeParts DEF IInv
<1>3. TxOK'
  BY <1>2 DEF IInv, TxOK, OkFor, db
<1>4. DistinctIds'
  BY <1>2 DEF IInv, DistinctIds
<1>5. DbOK'
  BY DEF IInv, DbOK, ParentsStored, HeadsOwn, CommittedValid, db
<1> QED BY <1>1, <1>3, <1>4, <1>5 DEF IInv

LEMMA EndedType ==
    ASSUME IInv, NEW q \in Requests, NEW outcome \in Outcomes
    PROVE  Ended(q, outcome) \in TxType /\ Ended(q, outcome).pc = "done"
<1>1. tx[q].id \in Nat
  BY TypeParts DEF IInv, TxType
<1> QED BY <1>1 DEF Ended, NoTx, TxType, PCs, Outcomes, NoRev

\* A request that ends gives back the lock it held and touches nobody else's.
LEMMA FinishLock ==
    ASSUME IInv, NEW q \in Requests, NEW outcome \in Outcomes, Finish(q, outcome)
    PROVE  /\ lock' \in [Projects -> Requests \cup {Free}]
           /\ tx' \in [Requests -> TxType]
           /\ \A o \in Requests : tx'[o] = IF o = q THEN Ended(q, outcome) ELSE tx[o]
           /\ \A o \in Requests \ {q} : InTx(o) => lock'[tx[o].op.proj] = o
           /\ tx'[q].pc = "done"
<1> USE DEF Finish
<1>1. /\ lock \in [Projects -> Requests \cup {Free}]
      /\ tx \in [Requests -> TxType]
  BY TypeParts DEF IInv
<1>2. \A o \in Requests : InTx(o) => tx[o].op \in Ops /\ tx[o].op.proj \in Projects
                                      /\ lock[tx[o].op.proj] = o
  BY OpFields DEF IInv, TxOK, OkFor, InTx
<1>3. \A o \in Requests \ {q} : InTx(o) => lock'[tx[o].op.proj] = o
  BY <1>1, <1>2
<1> QED BY <1>1, <1>2, <1>3, EndedType

LEMMA FinishIInv ==
    ASSUME IInv, NEW q \in Requests, NEW outcome \in Outcomes, Finish(q, outcome),
           UNCHANGED db
    PROVE  IInv'
<1>1. TypeOK'
  BY FinishLock, TypeParts DEF IInv, db, TypeOK, TxType
<1>2. TxOK'
  BY FinishLock DEF IInv, TxOK, OkFor, InTx, db
<1>3. DistinctIds'
  BY FinishLock DEF IInv, DistinctIds
<1>4. DbOK'
  BY DEF IInv, DbOK, ParentsStored, HeadsOwn, CommittedValid, db
<1> QED BY <1>1, <1>2, <1>3, <1>4 DEF IInv

-----------------------------------------------------------------------------
(* One lemma per action.                                                   *)

\* The facts about one request that the action proofs start from.
LEMMA TxFacts ==
    ASSUME IInv, NEW q \in Requests
    PROVE  /\ tx[q] \in TxType
           /\ OkFor(q, tx[q])
           /\ tx[q].pc \notin {"idle", "done"} =>
                 tx[q].op \in Ops /\ tx[q].op.proj \in Projects
           /\ head \in [Projects -> Nat]
  BY TypeParts, OpFields DEF IInv, TxOK, OkFor, DbTypeOK

LEMMA StartIInv ==
    ASSUME IInv, NEW q \in Requests, NEW op \in Ops, Start(q, op)
    PROVE  IInv'
<1>1. CASE op.kind = "create" /\ ~Valid(op.cand)
  <2> DEFINE t == Ended(q, "invalid_spec")
  <2>1. t \in TxType /\ t.pc = "done"
    BY EndedType DEF Outcomes
  <2>2. tx' = [tx EXCEPT ![q] = t]
    BY <1>1 DEF Start
  <2>3. OkFor(q, t)
    BY <2>1 DEF OkFor
  <2> QED BY <2>1, <2>2, <2>3, MoveIInv DEF Start
<1>2. CASE ~(op.kind = "create" /\ ~Valid(op.cand))
  <2> DEFINE t == [NoTx EXCEPT !.pc = "begin", !.op = op]
  <2>1. t \in TxType /\ t.pc = "begin" /\ t.op = op
    BY DEF NoTx, TxType, PCs, Outcomes, NoRev
  <2>2. tx' = [tx EXCEPT ![q] = t]
    BY <1>2 DEF Start
  <2>3. OkFor(q, t)
    BY <1>2, <2>1 DEF OkFor
  <2> HIDE DEF t
  <2> QED BY <2>1, <2>2, <2>3, MoveIInv DEF Start
<1> QED BY <1>1, <1>2

LEMMA LockProjectIInv ==
    ASSUME IInv, NEW q \in Requests, LockProject(q)
    PROVE  IInv'
<1> DEFINE op == tx[q].op
           t == [tx[q] EXCEPT !.base = head[op.proj],
                              !.pc = IF op.kind = "create" THEN "insert" ELSE "load",
                              !.cand = IF op.kind = "create" THEN op.cand ELSE NoSpec]
<1>1. CASE op.proj \notin projects
  BY <1>1, FinishIInv DEF LockProject, Outcomes
<1>2. CASE op.proj \in projects
  <2>1. /\ tx[q].pc = "begin" /\ lock[op.proj] = Free
        /\ lock' = [lock EXCEPT ![op.proj] = q]
        /\ tx' = [tx EXCEPT ![q] = t]
        /\ UNCHANGED db
    BY <1>2 DEF LockProject
  <2>2. op \in Ops /\ op.proj \in Projects /\ (op.kind = "create" => op.cand \in ProjectSpecs)
    BY <2>1, TxFacts, OpFields
  <2>3. tx[q] \in TxType /\ head[op.proj] \in Nat
    BY <2>2, TxFacts
  <2>4. t \in TxType
    BY <2>2, <2>3 DEF TxType, PCs
  <2>5. \A o \in Requests : tx'[o] = IF o = q THEN t ELSE tx[o]
    BY <2>1, TypeParts DEF IInv
  <2>6. TypeOK'
    BY <2>1, <2>2, <2>4, TypeParts DEF IInv, TypeOK, TxType, db
  <2>7. t.pc \in {"load", "insert"} /\ t.op = op /\ t.base = head[op.proj]
        /\ (t.pc = "insert" => op.kind = "create" /\ t.cand = op.cand)
    BY <2>3 DEF TxType
  <2>8. /\ lock \in [Projects -> Requests \cup {Free}]
        /\ \A o \in Requests : InTx(o) => lock[tx[o].op.proj] = o /\ tx[o].op.proj \in Projects
    BY TypeParts, OpFields DEF IInv, TxOK, OkFor, InTx
  <2>9. \A o \in Requests \ {q} : InTx(o) => lock'[tx[o].op.proj] = o
    BY <2>1, <2>2, <2>8, StoreAssumption DEF StoreAssumption
  <2>10. OkFor(q, tx[q])'
    <3> HIDE DEF t
    <3> QED BY <2>1, <2>2, <2>5, <2>7, <2>8, TxFacts DEF OkFor, db
  <2>11. ASSUME NEW o \in Requests \ {q} PROVE OkFor(o, tx[o])'
    <3> HIDE DEF t
    <3> QED BY <2>1, <2>5, <2>9, <2>11, TxFacts DEF OkFor, InTx, db
  <2>12. DistinctIds'
    <3> HIDE DEF t
    <3> QED BY <2>5, <2>7 DEF IInv, DistinctIds
  <2>13. DbOK'
    BY <2>1 DEF IInv, DbOK, ParentsStored, HeadsOwn, CommittedValid, db
  <2>14. TxOK'
    BY <2>10, <2>11 DEF TxOK
  <2> QED BY <2>6, <2>12, <2>13, <2>14 DEF IInv
<1> QED BY <1>1, <1>2

LEMMA LoadHeadIInv ==
    ASSUME IInv, NEW q \in Requests, LoadHead(q)
    PROVE  IInv'
<1> DEFINE k == tx[q].base
           c == IF k = NoRev THEN NoSpec ELSE revs[k].spec
           t == [tx[q] EXCEPT !.cur = c, !.pc = "edit"]
<1>1. CASE k # NoRev /\ k \notin DOMAIN revs
  BY <1>1, FinishIInv DEF LoadHead, Outcomes
<1>2. CASE k = NoRev \/ k \in DOMAIN revs
  <2>1. tx' = [tx EXCEPT ![q] = t] /\ UNCHANGED <<db, lock>> /\ tx[q].pc = "load"
    BY <1>2 DEF LoadHead
  <2>2. c \in ProjectSpecs \cup {NoSpec}
    BY <1>2, TypeParts DEF IInv, DbTypeOK, Row
  <2>3. t \in TxType /\ t.pc = "edit"
    BY <2>2, TxFacts DEF TxType, PCs
  <2>4. t.op = tx[q].op /\ t.base = tx[q].base
    BY TxFacts DEF TxType
  <2>5. OkFor(q, t)
    BY <2>1, <2>3, <2>4, TxFacts DEF OkFor
  <2> HIDE DEF t
  <2> QED BY <2>1, <2>3, <2>5, MoveIInv
<1> QED BY <1>1, <1>2

\* A valid candidate goes on to the insert.
LEMMA ToInsertIInv ==
    ASSUME IInv, NEW q \in Requests, NEW cand \in ProjectSpecs,
           tx[q].pc = "edit", Valid(cand),
           tx' = [tx EXCEPT ![q].cand = cand, ![q].pc = "insert"],
           UNCHANGED <<db, lock>>
    PROVE  IInv'
<1> DEFINE t == [tx[q] EXCEPT !.cand = cand, !.pc = "insert"]
<1>1. tx' = [tx EXCEPT ![q] = t]
  OBVIOUS
<1>2. t \in TxType /\ t.pc = "insert" /\ t.cand = cand
  BY TxFacts DEF TxType, PCs
<1>3. t.op = tx[q].op /\ t.base = tx[q].base
  BY TxFacts DEF TxType
<1>4. OkFor(q, t)
  BY <1>2, <1>3, TxFacts DEF OkFor
<1> HIDE DEF t
<1> QED BY <1>1, <1>2, <1>4, MoveIInv

LEMMA ClassifyIInv ==
    ASSUME IInv, NEW q \in Requests, NEW cand \in ProjectSpecs,
           tx[q].pc = "edit", Classify(q, cand), UNCHANGED db
    PROVE  IInv'
  BY FinishIInv, ToInsertIInv DEF Classify, Outcomes

LEMMA EditIInv ==
    ASSUME IInv, NEW q \in Requests, Edit(q)
    PROVE  IInv'
<1> DEFINE op == tx[q].op
           cur == tx[q].cur
<1>0. /\ tx[q].pc = "edit"
      /\ op.kind \in {"add", "rename", "relate", "unrelate", "delete", "submit"}
      /\ UNCHANGED db
  BY DEF Edit, AddResource, RenameResource, AddRelationship, DeleteField, DeleteResource,
         SubmitCandidate
<1>1. /\ op \in Ops /\ cur \in ProjectSpecs \cup {NoSpec}
      /\ Base(cur) \in ProjectSpecs
      /\ cur # NoSpec => Base(cur) = cur
  BY <1>0, TxFacts, EmptySpecType DEF TxType, Base
<1>2. CASE AddResource(q)
  BY <1>0, <1>1, <1>2, EditedType, ClassifyIInv DEF AddResource
<1>3. CASE RenameResource(q)
  BY <1>0, <1>1, <1>3, EditedType, ClassifyIInv, FinishIInv DEF RenameResource, Outcomes
<1>4. CASE AddRelationship(q)
  BY <1>0, <1>1, <1>4, EditedType, ClassifyIInv, FinishIInv DEF AddRelationship, Outcomes
<1>5. CASE DeleteField(q)
  BY <1>0, <1>1, <1>5, EditedType, ClassifyIInv, FinishIInv DEF DeleteField, Outcomes
<1>6. CASE DeleteResource(q)
  BY <1>0, <1>1, <1>6, EditedType, ToInsertIInv, FinishIInv DEF DeleteResource, Outcomes
<1>7. CASE SubmitCandidate(q)
  BY <1>0, <1>1, <1>7, OpFields, ClassifyIInv DEF SubmitCandidate
<1> QED BY <1>2, <1>3, <1>4, <1>5, <1>6, <1>7 DEF Edit

LEMMA InsertIInv ==
    ASSUME IInv, NEW q \in Requests, InsertRevision(q)
    PROVE  IInv'
<1> DEFINE t == [tx[q] EXCEPT !.id = nextId, !.pc = "commit"]
<1>1. /\ tx[q].pc = "insert" /\ tx' = [tx EXCEPT ![q] = t] /\ nextId' = nextId + 1
      /\ UNCHANGED <<projects, head, revs, audit, lock>>
  BY DEF InsertRevision
<1>2. nextId \in RevIds /\ nextId' \in RevIds
  BY <1>1, TypeParts DEF IInv, DbTypeOK, RevIds
<1>3. t \in TxType /\ t.pc = "commit" /\ t.id = nextId
  BY <1>2, TxFacts DEF TxType, PCs, RevIds
<1>4. t.op = tx[q].op /\ t.base = tx[q].base /\ t.cand = tx[q].cand
  BY TxFacts DEF TxType
<1> HIDE DEF t
<1>5. \A o \in Requests : tx'[o] = IF o = q THEN t ELSE tx[o]
  BY <1>1, TypeParts DEF IInv
<1>6. TypeOK'
  BY <1>1, <1>2, <1>3, TypeParts DEF IInv, TypeOK, TxType, DbTypeOK
<1>7. \A o \in Requests : OkFor(o, tx[o]) /\ tx[o] \in TxType
  BY TxFacts
<1>8. \A k \in DOMAIN revs : k \in Nat /\ k < nextId
  BY TypeParts DEF IInv, DbOK, DbTypeOK, RevIds
<1>a. tx[q].base < nextId
  BY <1>1, <1>2, <1>7, <1>8, TxFacts DEF IInv, DbOK, HeadsOwn, OkFor, RevIds, NoRev
<1>9. OkFor(q, tx[q])'
  BY <1>1, <1>2, <1>3, <1>4, <1>5, <1>7, <1>8, <1>a DEF OkFor, RevIds, NoRev
<1>10. ASSUME NEW o \in Requests \ {q} PROVE OkFor(o, tx[o])'
  BY <1>1, <1>2, <1>5, <1>7 DEF OkFor, RevIds, TxType
<1>11. TxOK'
  BY <1>9, <1>10 DEF TxOK
<1>12. DistinctIds'
  BY <1>2, <1>3, <1>5, <1>7 DEF IInv, DistinctIds, OkFor, RevIds, TxType
<1>13. DbOK'
  BY <1>1, <1>2, <1>8 DEF IInv, DbOK, ParentsStored, HeadsOwn, CommittedValid, RevIds
<1> QED BY <1>6, <1>11, <1>12, <1>13 DEF IInv

\* What a commit does, in the terms of the invariant.
LEMMA CommitEffect ==
    ASSUME IInv, NEW q \in Requests, NEW outcome \in Outcomes, Commit(q, outcome)
    PROVE  LET id == tx[q].id
               p  == tx[q].op.proj
           IN  /\ id \in RevIds /\ id < nextId /\ id \notin DOMAIN revs /\ head[p] < id
               /\ p \in Projects /\ tx[q].base = head[p] /\ lock[p] = q
               /\ tx[q].cand \in ProjectSpecs /\ Valid(tx[q].cand)
               /\ DOMAIN revs' = DOMAIN revs \cup {id}
               /\ \A k \in DOMAIN revs : revs'[k] = revs[k]
               /\ revs'[id] = [project |-> p, parent |-> head[p], spec |-> tx[q].cand,
                               origin |-> tx[q].op]
               /\ revs'[id] \in Row
               /\ head' = [head EXCEPT ![p] = id]
<1>1. tx[q].pc = "commit"
  BY DEF Commit
<1>2. /\ tx[q] \in TxType /\ OkFor(q, tx[q]) /\ tx[q].op \in Ops /\ tx[q].op.proj \in Projects
      /\ head[tx[q].op.proj] \in Nat
  BY <1>1, TxFacts
<1>3. tx[q].id \in RevIds
  BY <1>1, <1>2 DEF OkFor, TxType, RevIds, NoRev
<1> QED BY <1>1, <1>2, <1>3 DEF Commit, OkFor, Row

LEMMA CommitDbOK ==
    ASSUME IInv, NEW q \in Requests, NEW outcome \in Outcomes, Commit(q, outcome)
    PROVE  DbOK'
<1> DEFINE id == tx[q].id
           p  == tx[q].op.proj
<1>1. /\ id \in RevIds /\ id < nextId /\ id \notin DOMAIN revs /\ head[p] < id
      /\ p \in Projects /\ Valid(tx[q].cand)
      /\ DOMAIN revs' = DOMAIN revs \cup {id}
      /\ \A k \in DOMAIN revs : revs'[k] = revs[k]
      /\ revs'[id].project = p /\ revs'[id].parent = head[p] /\ revs'[id].spec = tx[q].cand
      /\ head' = [head EXCEPT ![p] = id]
      /\ nextId' = nextId
  BY CommitEffect DEF Commit
<1>2. head \in [Projects -> Nat]
  BY TypeParts DEF IInv, DbTypeOK
<1>3. /\ \A k \in DOMAIN revs : k < nextId
      /\ ParentsStored /\ HeadsOwn /\ CommittedValid
  BY DEF IInv, DbOK
<1> HIDE DEF id, p
<1>4. \A r \in Projects : head'[r] = IF r = p THEN id ELSE head[r]
  BY <1>1, <1>2
<1>5. \A k \in DOMAIN revs' : k < nextId'
  BY <1>1, <1>3
<1>6. ParentsStored'
  BY <1>1, <1>3 DEF ParentsStored, HeadsOwn
<1>7. HeadsOwn'
  BY <1>1, <1>3, <1>4 DEF HeadsOwn
<1>8. CommittedValid'
  BY <1>1, <1>3 DEF CommittedValid
<1> QED BY <1>5, <1>6, <1>7, <1>8 DEF DbOK

LEMMA CommitIInv ==
    ASSUME IInv, NEW q \in Requests, NEW outcome \in Outcomes, Commit(q, outcome)
    PROVE  IInv'
<1> DEFINE id == tx[q].id
           p  == tx[q].op.proj
<1>1. /\ tx[q].pc = "commit" /\ InTx(q) /\ Finish(q, outcome)
      /\ audit' = audit \cup {<<"spec.revision.created", id>>}
      /\ UNCHANGED <<projects, nextId>>
  BY DEF Commit, InTx
<1>2. /\ id \in RevIds /\ id \notin DOMAIN revs /\ p \in Projects /\ lock[p] = q
      /\ DOMAIN revs' = DOMAIN revs \cup {id}
      /\ \A k \in DOMAIN revs : revs'[k] = revs[k]
      /\ revs'[id] \in Row
      /\ head' = [head EXCEPT ![p] = id]
  BY CommitEffect
<1>3. DbTypeOK'
  BY <1>1, <1>2, TypeParts DEF IInv, DbTypeOK, RevIds
<1>4. /\ lock' \in [Projects -> Requests \cup {Free}] /\ tx' \in [Requests -> TxType]
      /\ \A o \in Requests : tx'[o] = IF o = q THEN Ended(q, outcome) ELSE tx[o]
      /\ \A o \in Requests \ {q} : InTx(o) => lock'[tx[o].op.proj] = o
      /\ tx'[q].pc = "done"
  BY <1>1, FinishLock
<1>5. TypeOK'
  BY <1>3, <1>4 DEF TypeOK, TxType, DbTypeOK
<1>6. \A o \in Requests :
         /\ OkFor(o, tx[o])
         /\ InTx(o) => tx[o].op.proj \in Projects
  BY TxFacts DEF InTx
<1>7. ASSUME NEW o \in Requests \ {q} PROVE OkFor(o, tx[o])'
  <2>1. tx'[o] = tx[o]
    BY <1>4
  <2>2. InTx(o) => tx[o].op.proj # p
    BY <1>2, <1>6 DEF OkFor, InTx
  <2>3. InTx(o) => head'[tx[o].op.proj] = head[tx[o].op.proj]
    BY <1>2, <1>6, <2>2, TxFacts
  <2>4. tx[o].pc = "commit" => tx[o].id # id
    BY <1>1 DEF IInv, DistinctIds
  <2> QED BY <1>1, <1>2, <1>4, <1>6, <2>1, <2>3, <2>4 DEF OkFor, InTx
<1>8. TxOK'
  BY <1>4, <1>7 DEF TxOK, OkFor
<1>9. DistinctIds'
  BY <1>4 DEF IInv, DistinctIds
<1> QED BY <1>5, <1>8, <1>9, CommitDbOK DEF IInv

LEMMA ReadIInv ==
    ASSUME IInv, NEW q \in Requests, ReadProject(q) \/ ReadRevision(q)
    PROVE  IInv'
<1>1. CASE ReadRevision(q)
  BY <1>1, FinishIInv DEF ReadRevision, Outcomes
<1>2. CASE ReadProject(q)
  <2> DEFINE p == tx[q].op.proj
             t == [tx[q] EXCEPT !.base = head[p], !.pc = "readrev"]
  <2>1. CASE p \notin projects \/ head[p] = NoRev
    BY <1>2, <2>1, FinishIInv DEF ReadProject, Outcomes
  <2>2. CASE p \in projects /\ head[p] # NoRev
    <3>1. tx' = [tx EXCEPT ![q] = t] /\ UNCHANGED <<db, lock>> /\ tx[q].pc = "begin"
      BY <1>2, <2>2 DEF ReadProject
    <3>2. t \in TxType /\ t.pc = "readrev" /\ t.op = tx[q].op
      BY <3>1, TxFacts DEF TxType, PCs
    <3> HIDE DEF t
    <3>3. OkFor(q, t)
      BY <3>1, <3>2, TxFacts DEF OkFor
    <3> QED BY <3>1, <3>2, <3>3, MoveIInv
  <2> QED BY <2>1, <2>2
<1> QED BY <1>1, <1>2

LEMMA CreateProjectIInv ==
    ASSUME IInv, NEW p \in Projects, CreateProject(p)
    PROVE  IInv'
<1>1. TypeOK'
  BY DEF IInv, CreateProject, TypeOK
<1>2. TxOK' /\ DistinctIds'
  BY DEF IInv, CreateProject, TxOK, OkFor, DistinctIds
<1>3. DbOK'
  BY DEF IInv, CreateProject, DbOK, ParentsStored, HeadsOwn, CommittedValid
<1> QED BY <1>1, <1>2, <1>3 DEF IInv

LEMMA NextIInv == IInv /\ [Next]_vars => IInv'
<1> SUFFICES ASSUME IInv, [Next]_vars PROVE IInv'
  OBVIOUS
<1>1. CASE UNCHANGED vars
  <2>1. TypeOK'
    BY <1>1 DEF IInv, vars, TypeOK
  <2>2. TxOK' /\ DistinctIds'
    BY <1>1 DEF IInv, vars, TxOK, OkFor, DistinctIds
  <2>3. DbOK'
    BY <1>1 DEF IInv, vars, DbOK, ParentsStored, HeadsOwn, CommittedValid
  <2> QED BY <2>1, <2>2, <2>3 DEF IInv
<1>2. ASSUME NEW q \in Requests, Step(q) PROVE IInv'
  BY <1>2, LoadHeadIInv, EditIInv, InsertIInv, CommitIInv, ReadIInv DEF Step, Outcomes
<1>3. ASSUME NEW q \in Requests, Abort(q) PROVE IInv'
  BY <1>3, FinishIInv DEF Abort, Outcomes
<1> QED BY <1>1, <1>2, <1>3, CreateProjectIInv, StartIInv, LockProjectIInv DEF Next, Quiesce

-----------------------------------------------------------------------------
(* The theorems.                                                           *)

LEMMA Inductive == Spec => []IInv
  BY InitIInv, NextIInv, PTL DEF Spec

\* Every action but Commit leaves the ledger as it is.
LEMMA OnlyCommitWrites ==
    ASSUME [Next]_vars
    PROVE  \/ UNCHANGED <<head, revs>>
           \/ \E q \in Requests, outcome \in {"committed", "error"} : Commit(q, outcome)
<1>1. ASSUME NEW q \in Requests, Edit(q) PROVE UNCHANGED db
  BY <1>1 DEF Edit, AddResource, RenameResource, AddRelationship, DeleteField, DeleteResource,
              SubmitCandidate
<1>2. ASSUME NEW q \in Requests, Step(q)
      PROVE  UNCHANGED <<head, revs>> \/ Commit(q, "committed") \/ Commit(q, "error")
  BY <1>1, <1>2 DEF Step, LoadHead, InsertRevision, ReadProject, ReadRevision, db
<1> QED
  BY <1>2 DEF Next, vars, CreateProject, Start, LockProject, Abort, Quiesce, db

\* A new revision under the tip, which had no child, keeps the history a chain.
LEMMA NextLineage == IInv /\ Lineage /\ [Next]_vars => Lineage'
<1> SUFFICES ASSUME IInv, Lineage, [Next]_vars PROVE Lineage'
  OBVIOUS
<1>1. CASE UNCHANGED <<head, revs>>
  BY <1>1 DEF Lineage, LinearHistory, HeadIsTip
<1>2. ASSUME NEW q \in Requests, NEW outcome \in {"committed", "error"}, Commit(q, outcome)
      PROVE  Lineage'
  <2> DEFINE id == tx[q].id
             p  == tx[q].op.proj
  <2>1. /\ id \in RevIds /\ id \notin DOMAIN revs /\ p \in Projects /\ head[p] < id
        /\ DOMAIN revs' = DOMAIN revs \cup {id}
        /\ \A k \in DOMAIN revs : revs'[k] = revs[k]
        /\ revs'[id].project = p /\ revs'[id].parent = head[p]
        /\ head' = [head EXCEPT ![p] = id]
    BY <1>2, CommitEffect DEF Commit, Outcomes
  <2>2. head \in [Projects -> Nat]
    BY TypeParts DEF IInv, DbTypeOK
  <2> HIDE DEF id, p
  <2>3. \A r \in Projects : head'[r] = IF r = p THEN id ELSE head[r]
    BY <2>1, <2>2
  <2>4. \A k \in DOMAIN revs : revs[k].parent # id
    BY <2>1 DEF IInv, DbOK, ParentsStored, RevIds, NoRev
  <2>5. head[p] # id
    BY <2>1, <2>2 DEF RevIds
  <2>6. LinearHistory'
    BY <2>1 DEF Lineage, LinearHistory, HeadIsTip
  <2>7. HeadIsTip'
    BY <2>1, <2>3, <2>4, <2>5 DEF Lineage, HeadIsTip, RevIds, NoRev
  <2> QED BY <2>6, <2>7 DEF Lineage
<1> QED BY <1>1, <1>2, OnlyCommitWrites

LEMMA InductiveLineage == Spec => []Lineage
<1>1. Init => Lineage
  BY DEF Init, Lineage, LinearHistory, HeadIsTip
<1> QED BY <1>1, NextLineage, Inductive, PTL DEF Spec

(* Every reachable state is well typed: in particular no edit ever stores a *)
(* spec in which a field outlives its resource.                             *)
THEOREM StoreTypeOK == Spec => []TypeOK
<1>1. IInv => TypeOK
  BY DEF IInv
<1> QED BY <1>1, Inductive, PTL

(* However many edits of a project race, its revisions form one chain.      *)
THEOREM StoreLinearHistory == Spec => []LinearHistory
BY InductiveLineage, PTL DEF Lineage

(* The head is always the chain's last revision.                            *)
THEOREM StoreHeadIsTip == Spec => []HeadIsTip
BY InductiveLineage, PTL DEF Lineage

(* A project's revisions are one chain that ends at its head.               *)
THEOREM StoreLineage == Spec => []Lineage
BY InductiveLineage, PTL

(* No invalid spec is ever stored.                                          *)
THEOREM StoreCommittedValid == Spec => []CommittedValid
<1>1. IInv => CommittedValid
  BY DEF IInv, DbOK
<1> QED BY <1>1, Inductive, PTL

-----------------------------------------------------------------------------
(* The store implements the append-only ledger.                            *)

Node == [k \in DOMAIN revs |->
            [project |-> revs[k].project, parent |-> revs[k].parent, spec |-> revs[k].spec]]

LEMMA CommitAppends ==
    ASSUME IInv, NEW q \in Requests, NEW outcome \in Outcomes, Commit(q, outcome)
    PROVE  Ledger!Next
<1>0. PICK id : id = tx[q].id       \* a value, where tx[q].id is a state function
  OBVIOUS
<1> DEFINE p == tx[q].op.proj
<1>1. /\ id \notin DOMAIN revs /\ p \in Projects
      /\ tx[q].cand \in ProjectSpecs /\ Valid(tx[q].cand)
      /\ DOMAIN revs' = DOMAIN revs \cup {id}
      /\ \A k \in DOMAIN revs : revs'[k] = revs[k]
      /\ revs'[id].project = p /\ revs'[id].parent = head[p] /\ revs'[id].spec = tx[q].cand
      /\ head' = [head EXCEPT ![p] = id]
  BY <1>0, CommitEffect DEF Commit
<1> HIDE DEF p
<1>2. DOMAIN Node = DOMAIN revs /\ DOMAIN Node' = DOMAIN revs'
  BY DEF Node
<1>3. \A k \in DOMAIN Node : Node'[k] = Node[k]
  BY <1>1, <1>2 DEF Node
<1>4. Node'[id] = [project |-> p, parent |-> head[p], spec |-> tx[q].cand]
  BY <1>1, <1>2 DEF Node
<1>5. Ledger!Append(id)
  BY <1>1, <1>2, <1>3, <1>4 DEF Ledger!Append, Node
<1>6. id \in DOMAIN Node'
  BY <1>1, <1>2
<1> QED BY <1>5, <1>6 DEF Ledger!Next, Node

(* Every behaviour of the store, with its locks, waits, aborts and lost     *)
(* acknowledgements, is one of the append-only ledger.                      *)
THEOREM StoreImplementsLedger == Spec => LedgerSpec
<1>1. Init => Ledger!Init
  BY DEF Init, Ledger!Init, NoRev
<1>2. IInv /\ [Next]_vars => [Ledger!Next]_(Ledger!ledger)
  <2> SUFFICES ASSUME IInv, [Next]_vars PROVE Ledger!Next \/ UNCHANGED Ledger!ledger
    OBVIOUS
  <2>1. CASE UNCHANGED <<head, revs>>
    BY <2>1 DEF Ledger!ledger
  <2>2. CASE \E q \in Requests, outcome \in {"committed", "error"} : Commit(q, outcome)
    BY <2>2, CommitAppends DEF Outcomes
  <2> QED BY <2>1, <2>2, OnlyCommitWrites
<1> QED BY <1>1, <1>2, Inductive, PTL DEF Spec, LedgerSpec, Ledger!Spec

-----------------------------------------------------------------------------
(* No lost updates, nothing removed silently, audit and lineage intact.     *)
(* The strengthening says what an open transaction has in hand: the spec of *)
(* the revision that will be the new one's parent, and a change to it that  *)
(* passed the gate of its kind.                                             *)

Gate(op, old, new) ==
    CASE op.kind = "create" -> TRUE
      [] op.kind = "delete" -> /\ Live(old) \ Live(new) = {op.res}
                               /\ \A x \in old.refs \ new.refs : x[1] = op.res
      [] OTHER              -> ~Breaking(old, new)

HandOK(t, quiet) ==
    /\ t.pc \in {"edit", "insert", "commit"} /\ t.base # NoRev => t.base \in DOMAIN revs
    /\ quiet => t.outcome # "corrupt" /\ (t.pc = "readrev" => t.base \in DOMAIN revs)
    /\ t.pc = "edit" => t.cur = SpecOf(t.base)
    /\ t.pc \in {"insert", "commit"} =>
          /\ t.cand = Edited(t.op, Base(SpecOf(t.base)))
          /\ Gate(t.op, Base(SpecOf(t.base)), t.cand)

RowOK(r) ==
    /\ r.spec = Edited(r.origin, Base(SpecOf(r.parent)))
    /\ Gate(r.origin, Base(SpecOf(r.parent)), r.spec)

\* A reader holds no lock and an event no reference to its revision, so what is
\* known of them holds only while the database is quiet: nobody deletes rows.
HInv(quiet) ==
    /\ \A q \in Requests : HandOK(tx[q], quiet)
    /\ \A k \in DOMAIN revs : RowOK(revs[k])
    /\ quiet => AuditMatchesRevisions

LEMMA InitHInv ==
    ASSUME NEW quiet \in BOOLEAN, Init
    PROVE  HInv(quiet)
<1>1. \A q \in Requests : tx[q].pc = "idle" /\ tx[q].outcome = "none"
  BY DEF Init, NoTx
<1>2. \A q \in Requests : HandOK(tx[q], quiet)
  BY <1>1 DEF HandOK
<1> QED BY <1>2 DEF Init, HInv, AuditMatchesRevisions

LEMMA MoveHInv ==
    ASSUME NEW quiet \in BOOLEAN, IInv, HInv(quiet), NEW q \in Requests, NEW t, HandOK(t, quiet),
           tx' = [tx EXCEPT ![q] = t], UNCHANGED <<revs, audit>>
    PROVE  HInv(quiet)'
<1>1. \A o \in Requests : tx'[o] = IF o = q THEN t ELSE tx[o]
  BY TypeParts DEF IInv
<1>2. ASSUME NEW o \in Requests PROVE HandOK(tx[o], quiet)'
  BY <1>1 DEF HInv, HandOK, SpecOf
<1>3. ASSUME NEW k \in DOMAIN revs PROVE RowOK(revs[k])'
  BY DEF HInv, RowOK, SpecOf
<1> QED BY <1>2, <1>3 DEF HInv, AuditMatchesRevisions

LEMMA FinishHInv ==
    ASSUME NEW quiet \in BOOLEAN, IInv, HInv(quiet), NEW q \in Requests, NEW outcome \in Outcomes, quiet => outcome # "corrupt",
           Finish(q, outcome), UNCHANGED <<revs, audit>>
    PROVE  HInv(quiet)'
<1>1. Ended(q, outcome).pc = "done" /\ Ended(q, outcome).outcome = outcome
  BY DEF Ended, NoTx
<1>2. HandOK(Ended(q, outcome), quiet)
  BY <1>1 DEF HandOK
<1> QED BY <1>2, MoveHInv DEF Finish

\* A transaction's base, like every head, is a stored revision.
LEMMA HeadStored ==
    ASSUME IInv, NEW p \in Projects
    PROVE  head[p] # NoRev => head[p] \in DOMAIN revs
  BY DEF IInv, DbOK, HeadsOwn

LEMMA BaseStored ==
    ASSUME IInv, NEW q \in Requests, InTx(q), tx[q].base # NoRev
    PROVE  tx[q].base \in DOMAIN revs
  BY TxFacts, HeadStored DEF InTx, OkFor

LEMMA StartHInv ==
    ASSUME NEW quiet \in BOOLEAN, IInv, HInv(quiet), NEW q \in Requests, NEW op \in Ops, Start(q, op)
    PROVE  HInv(quiet)'
<1> DEFINE t == IF op.kind = "create" /\ ~Valid(op.cand)
                THEN Ended(q, "invalid_spec") ELSE [NoTx EXCEPT !.pc = "begin", !.op = op]
<1>1. tx' = [tx EXCEPT ![q] = t] /\ UNCHANGED <<revs, audit>>
  BY DEF Start, db
<1>2. t.pc \in {"begin", "done"} /\ t.outcome # "corrupt"
  BY DEF Ended, NoTx
<1>3. HandOK(t, quiet)
  BY <1>2 DEF HandOK
<1> QED BY <1>1, <1>3, MoveHInv

LEMMA LockProjectHInv ==
    ASSUME NEW quiet \in BOOLEAN, IInv, HInv(quiet), NEW q \in Requests, LockProject(q)
    PROVE  HInv(quiet)'
<1> DEFINE op == tx[q].op
           t == [tx[q] EXCEPT !.base = head[op.proj],
                              !.pc = IF op.kind = "create" THEN "insert" ELSE "load",
                              !.cand = IF op.kind = "create" THEN op.cand ELSE NoSpec]
<1>1. CASE op.proj \notin projects
  BY <1>1, FinishHInv DEF LockProject, Outcomes, db
<1>2. CASE op.proj \in projects
  <2>1. tx[q].pc = "begin" /\ tx' = [tx EXCEPT ![q] = t] /\ UNCHANGED <<revs, audit>>
    BY <1>2 DEF LockProject, db
  <2>2. t.pc \in {"load", "insert"} /\ t.op = op /\ t.outcome = tx[q].outcome
        /\ t.base = head[op.proj]
        /\ (t.pc = "insert" => op.kind = "create" /\ t.cand = op.cand)
    BY TxFacts DEF TxType
  <2>3. t.base # NoRev => t.base \in DOMAIN revs
    BY <2>1, <2>2, TxFacts, HeadStored
  <2>4. op.kind = "create" => Edited(op, Base(SpecOf(t.base))) = op.cand
    BY DEF Edited
  <2> HIDE DEF t
  <2>5. HandOK(t, quiet)
    BY <2>2, <2>3, <2>4 DEF HInv, HandOK, Gate
  <2> QED BY <2>1, <2>5, MoveHInv
<1> QED BY <1>1, <1>2

LEMMA LoadHeadHInv ==
    ASSUME NEW quiet \in BOOLEAN, IInv, HInv(quiet), NEW q \in Requests, LoadHead(q)
    PROVE  HInv(quiet)'
<1> DEFINE t == [tx[q] EXCEPT !.cur = SpecOf(tx[q].base), !.pc = "edit"]
<1>1. tx[q].pc = "load"
  BY DEF LoadHead
<1>2. tx[q].base = NoRev \/ tx[q].base \in DOMAIN revs
  BY <1>1, BaseStored DEF InTx
<1>3. tx' = [tx EXCEPT ![q] = t] /\ UNCHANGED <<revs, audit>>
  BY <1>2 DEF LoadHead, SpecOf, db
<1>4. t.pc = "edit" /\ t.base = tx[q].base /\ t.cur = SpecOf(t.base) /\ t.outcome = tx[q].outcome
  BY TxFacts DEF TxType
<1> HIDE DEF t
<1>5. HandOK(t, quiet)
  BY <1>2, <1>4 DEF HInv, HandOK
<1> QED BY <1>3, <1>5, MoveHInv

LEMMA ToInsertHInv ==
    ASSUME NEW quiet \in BOOLEAN, IInv, HInv(quiet), NEW q \in Requests, NEW cand,
           tx[q].pc = "edit",
           cand = Edited(tx[q].op, Base(tx[q].cur)),
           Gate(tx[q].op, Base(tx[q].cur), cand),
           tx' = [tx EXCEPT ![q].cand = cand, ![q].pc = "insert"],
           UNCHANGED db
    PROVE  HInv(quiet)'
<1> DEFINE t == [tx[q] EXCEPT !.cand = cand, !.pc = "insert"]
<1>1. tx' = [tx EXCEPT ![q] = t] /\ UNCHANGED <<revs, audit>>
  BY DEF db
<1>2. t.pc = "insert" /\ t.cand = cand /\ t.op = tx[q].op /\ t.base = tx[q].base
      /\ t.outcome = tx[q].outcome
  BY TxFacts DEF TxType
<1>3. tx[q].base # NoRev => tx[q].base \in DOMAIN revs
  BY BaseStored DEF InTx
<1>4. tx[q].cur = SpecOf(tx[q].base) /\ (quiet => tx[q].outcome # "corrupt")
  BY DEF HInv, HandOK
<1> HIDE DEF t
<1>5. HandOK(t, quiet)
  BY <1>2, <1>3, <1>4 DEF HandOK
<1> QED BY <1>1, <1>5, MoveHInv

\* An edit that is not breaking passes the gate, and so does one of an empty project.
LEMMA ClassifyHInv ==
    ASSUME NEW quiet \in BOOLEAN, IInv, HInv(quiet), NEW q \in Requests, NEW cand,
           tx[q].pc = "edit", tx[q].op.kind \notin {"create", "delete"},
           cand = Edited(tx[q].op, Base(tx[q].cur)),
           Classify(q, cand), UNCHANGED db
    PROVE  HInv(quiet)'
<1>1. tx[q].cur = NoSpec => ~Breaking(Base(tx[q].cur), cand)
  BY DEF Base, EmptySpec, Breaking, Live
<1>2. tx[q].cur # NoSpec => Base(tx[q].cur) = tx[q].cur
  BY DEF Base
<1>3. CASE tx[q].cur # NoSpec /\ Breaking(tx[q].cur, cand)
  BY <1>3, FinishHInv DEF Classify, Outcomes, db
<1>4. CASE ~(tx[q].cur # NoSpec /\ Breaking(tx[q].cur, cand))
  <2>1. Gate(tx[q].op, Base(tx[q].cur), cand)
    BY <1>1, <1>2, <1>4 DEF Gate
  <2> QED BY <1>4, <2>1, FinishHInv, ToInsertHInv DEF Classify, Outcomes, db
<1> QED BY <1>3, <1>4

LEMMA DeleteGate ==
    ASSUME NEW op \in Ops, NEW s \in ProjectSpecs, op.kind = "delete", op.res \in Live(s)
    PROVE  Gate(op, s, Edited(op, s))
<1>1. s.label \in [Resources -> Labels \cup {Absent}] /\ op.res \in Resources
  BY SpecFields, OpFields
<1>2. Edited(op, s) = Without(s, op.res)
  BY DEF Edited
<1>3. Live(Without(s, op.res)) = Live(s) \ {op.res}
  BY <1>1 DEF Live, Without
<1>4. \A x \in s.refs \ Without(s, op.res).refs : x[1] = op.res
  BY DEF Without
<1> QED BY <1>2, <1>3, <1>4 DEF Gate

LEMMA EditHInv ==
    ASSUME NEW quiet \in BOOLEAN, IInv, HInv(quiet), NEW q \in Requests, Edit(q)
    PROVE  HInv(quiet)'
<1> DEFINE op == tx[q].op
           cur == tx[q].cur
<1>0. /\ tx[q].pc = "edit" /\ UNCHANGED db /\ UNCHANGED <<revs, audit>>
      /\ op \in Ops /\ cur \in ProjectSpecs \cup {NoSpec}
      /\ cur # NoSpec => Base(cur) = cur
  BY TxFacts DEF Edit, AddResource, RenameResource, AddRelationship, DeleteField, DeleteResource,
                 SubmitCandidate, TxType, Base, db
<1>1. CASE AddResource(q)
  BY <1>0, <1>1, ClassifyHInv DEF AddResource
<1>2. CASE RenameResource(q)
  BY <1>0, <1>2, ClassifyHInv, FinishHInv DEF RenameResource, Outcomes
<1>3. CASE AddRelationship(q)
  BY <1>0, <1>3, ClassifyHInv, FinishHInv DEF AddRelationship, Outcomes
<1>4. CASE DeleteField(q)
  BY <1>0, <1>4, ClassifyHInv, FinishHInv DEF DeleteField, Outcomes
<1>5. CASE DeleteResource(q)
  <2>1. cur # NoSpec /\ op.res \in Live(cur) => Gate(op, cur, Edited(op, cur))
    BY <1>0, <1>5, DeleteGate DEF DeleteResource
  <2> QED BY <1>0, <1>5, <2>1, ToInsertHInv, FinishHInv DEF DeleteResource, Outcomes
<1>6. CASE SubmitCandidate(q)
  <2>1. op.cand = Edited(op, Base(cur))
    BY <1>6 DEF SubmitCandidate, Edited
  <2> QED BY <1>0, <1>6, <2>1, ClassifyHInv DEF SubmitCandidate
<1> QED BY <1>1, <1>2, <1>3, <1>4, <1>5, <1>6 DEF Edit

LEMMA InsertHInv ==
    ASSUME NEW quiet \in BOOLEAN, IInv, HInv(quiet), NEW q \in Requests, InsertRevision(q)
    PROVE  HInv(quiet)'
<1> DEFINE t == [tx[q] EXCEPT !.id = nextId, !.pc = "commit"]
<1>1. tx[q].pc = "insert" /\ tx' = [tx EXCEPT ![q] = t] /\ UNCHANGED <<revs, audit>>
  BY DEF InsertRevision
<1>2. t.pc = "commit" /\ t.cand = tx[q].cand /\ t.op = tx[q].op /\ t.base = tx[q].base
      /\ t.outcome = tx[q].outcome
  BY TxFacts DEF TxType
<1> HIDE DEF t
<1>3. HandOK(t, quiet)
  BY <1>1, <1>2 DEF HInv, HandOK
<1> QED BY <1>1, <1>3, MoveHInv

LEMMA CommitHInv ==
    ASSUME NEW quiet \in BOOLEAN, IInv, HInv(quiet), NEW q \in Requests, NEW outcome \in {"committed", "error"},
           Commit(q, outcome)
    PROVE  HInv(quiet)'
<1>0. outcome \in Outcomes
  BY DEF Outcomes
<1>1. PICK id : id = tx[q].id
  OBVIOUS
<1>2. /\ DOMAIN revs' = DOMAIN revs \cup {id} /\ id \notin DOMAIN revs
      /\ \A k \in DOMAIN revs : revs'[k] = revs[k]
      /\ revs'[id].parent = tx[q].base /\ revs'[id].spec = tx[q].cand
      /\ revs'[id].origin = tx[q].op
      /\ audit' = audit \cup {<<"spec.revision.created", id>>}
      /\ tx[q].pc = "commit" /\ Finish(q, outcome)
  BY <1>0, <1>1, CommitEffect DEF Commit
<1>3. /\ \A o \in Requests : tx'[o] = IF o = q THEN Ended(q, outcome) ELSE tx[o]
      /\ Ended(q, outcome).pc = "done" /\ Ended(q, outcome).outcome = outcome
  BY <1>2, TypeParts DEF IInv, Finish, Ended, NoTx
<1>4. \A k : k \in DOMAIN revs \/ k = NoRev => SpecOf(k)' = SpecOf(k)
  BY <1>2, TypeParts DEF SpecOf, IInv, DbTypeOK
<1>5. ASSUME NEW o \in Requests PROVE HandOK(tx[o], quiet)'
  BY <1>2, <1>3, <1>4 DEF HInv, HandOK
<1>6. \A k \in DOMAIN revs : revs[k].parent # NoRev => revs[k].parent \in DOMAIN revs
  BY DEF IInv, DbOK, ParentsStored
<1>7. ASSUME NEW k \in DOMAIN revs PROVE RowOK(revs[k])'
  BY <1>2, <1>4, <1>6 DEF HInv, RowOK
<1>8. RowOK(revs[id])'
  BY <1>2, <1>4 DEF HInv, RowOK, HandOK
<1>9. ASSUME quiet PROVE AuditMatchesRevisions'
  <2> DEFINE event == <<"spec.revision.created", id>>
             Recorded(events) == {e[2] : e \in {a \in events : a[1] = "spec.revision.created"}}
  <2>1. event[1] = "spec.revision.created" /\ event[2] = id
    OBVIOUS
  <2> HIDE DEF event
  <2>2. Recorded(audit \cup {event}) = Recorded(audit) \cup {id}
    BY <2>1
  <2>3. Recorded(audit) = DOMAIN revs
    BY <1>9 DEF HInv, AuditMatchesRevisions
  <2> QED BY <1>2, <2>2, <2>3 DEF AuditMatchesRevisions, event
<1> QED BY <1>2, <1>5, <1>7, <1>8, <1>9 DEF HInv

LEMMA ReadHInv ==
    ASSUME NEW quiet \in BOOLEAN, IInv, HInv(quiet), NEW q \in Requests, ReadProject(q) \/ ReadRevision(q)
    PROVE  HInv(quiet)'
<1>1. CASE ReadRevision(q)
  <2>1. quiet => tx[q].base \in DOMAIN revs
    BY <1>1 DEF ReadRevision, HInv, HandOK
  <2> QED BY <1>1, <2>1, FinishHInv DEF ReadRevision, Outcomes, db
<1>2. CASE ReadProject(q)
  <2> DEFINE p == tx[q].op.proj
             t == [tx[q] EXCEPT !.base = head[p], !.pc = "readrev"]
  <2>1. CASE p \notin projects \/ head[p] = NoRev
    BY <1>2, <2>1, FinishHInv DEF ReadProject, Outcomes, db
  <2>2. CASE p \in projects /\ head[p] # NoRev
    <3>1. tx' = [tx EXCEPT ![q] = t] /\ UNCHANGED <<revs, audit>> /\ tx[q].pc = "begin"
      BY <1>2, <2>2 DEF ReadProject, db
    <3>2. t.pc = "readrev" /\ t.base = head[p] /\ t.outcome = tx[q].outcome
      BY TxFacts DEF TxType
    <3>3. head[p] \in DOMAIN revs
      BY <2>2, <3>1, TxFacts, HeadStored
    <3> HIDE DEF t
    <3>4. HandOK(t, quiet)
      BY <3>2, <3>3 DEF HInv, HandOK
    <3> QED BY <3>1, <3>4, MoveHInv
  <2> QED BY <2>1, <2>2
<1> QED BY <1>1, <1>2

LEMMA NextHInv ==
    ASSUME NEW quiet \in BOOLEAN, IInv, HInv(quiet), [Next]_vars
    PROVE  HInv(quiet)'
<1>1. CASE UNCHANGED <<revs, audit, tx>>
  <2>1. \A k : SpecOf(k)' = SpecOf(k)
    BY <1>1 DEF SpecOf
  <2> QED BY <1>1, <2>1 DEF HInv, HandOK, RowOK, AuditMatchesRevisions
<1>2. ASSUME NEW q \in Requests, Step(q) PROVE HInv(quiet)'
  BY <1>2, LoadHeadHInv, EditHInv, InsertHInv, CommitHInv, ReadHInv DEF Step
<1>3. ASSUME NEW q \in Requests, Abort(q) PROVE HInv(quiet)'
  BY <1>3, FinishHInv DEF Abort, Outcomes, db
<1>4. ASSUME NEW p \in Projects, CreateProject(p) PROVE HInv(quiet)'
  <2>1. \A k : SpecOf(k)' = SpecOf(k)
    BY <1>4 DEF SpecOf, CreateProject
  <2>2. ASSUME NEW o \in Requests PROVE HandOK(tx[o], quiet)'
    BY <1>4, <2>1 DEF CreateProject, HInv, HandOK
  <2>3. ASSUME NEW k \in DOMAIN revs PROVE RowOK(revs[k])'
    BY <1>4, <2>1 DEF CreateProject, HInv, RowOK
  <2>4. {a \in audit' : a[1] = "spec.revision.created"} =
        {a \in audit : a[1] = "spec.revision.created"}
    BY <1>4 DEF CreateProject
  <2>5. ASSUME quiet PROVE AuditMatchesRevisions'
    BY <1>4, <2>4, <2>5 DEF CreateProject, HInv, AuditMatchesRevisions
  <2> QED BY <1>4, <2>2, <2>3, <2>5 DEF CreateProject, HInv
<1> QED BY <1>1, <1>2, <1>3, <1>4, StartHInv, LockProjectHInv DEF Next, Quiesce, vars

LEMMA InductiveH == Spec => []HInv(TRUE)
<1>1. Init => HInv(TRUE)
  BY InitHInv
<1>2. IInv /\ HInv(TRUE) /\ [Next]_vars => HInv(TRUE)'
  BY NextHInv
<1> QED BY <1>1, <1>2, Inductive, PTL DEF Spec

(* No lost update: every stored spec is its own edit applied to its parent. *)
THEOREM StoreEditsApplyToParent == Spec => []EditsApplyToParent
<1>1. HInv(TRUE) => EditsApplyToParent
  BY DEF HInv, RowOK, EditsApplyToParent
<1> QED BY <1>1, InductiveH, PTL

(* Only deletes and CreateRevision remove what extension code may rely on.  *)
THEOREM StoreNothingRemovedSilently == Spec => []NothingRemovedSilently
<1>1. HInv(TRUE) => NothingRemovedSilently
  BY DEF HInv, RowOK, Gate, NothingRemovedSilently, Breaking
<1> QED BY <1>1, InductiveH, PTL

(* A revision and its audit event exist together or not at all.             *)
THEOREM StoreAuditMatchesRevisions == Spec => []AuditMatchesRevisions
<1>1. HInv(TRUE) => AuditMatchesRevisions
  BY DEF HInv
<1> QED BY <1>1, InductiveH, PTL

(* While nothing deletes rows under the service, no request, reads included,*)
(* finds a head that points nowhere.                                        *)
THEOREM StoreNeverCorrupt == Spec => []NeverCorrupt
<1>1. HInv(TRUE) => NeverCorrupt
  BY DEF HInv, HandOK, NeverCorrupt
<1> QED BY <1>1, InductiveH, PTL

-----------------------------------------------------------------------------
(* The operator's deletes: the inductive invariant survives them, because   *)
(* each takes whole branches of the history, and takes a head only from a   *)
(* project whose row nobody has locked.                                     *)

\* What goes with k is closed under having a parent that goes.
LEMMA DescendantsClosed ==
    ASSUME NEW k \in DOMAIN revs, NEW j \in DOMAIN revs, revs[j].parent \in Descendants(k)
    PROVE  j \in Descendants(k)
<1>1. revs[j].parent \in DOMAIN revs
  BY DEF Descendants
<1> SUFFICES ASSUME NEW S \in SUBSET DOMAIN revs, k \in S,
                    \A i \in DOMAIN revs : revs[i].parent \in S => i \in S
             PROVE  j \in S
  BY DEF Descendants
<1>2. revs[j].parent \in S
  BY <1>1 DEF Descendants
<1> QED BY <1>2

\* Rows go, each with everything below it and none that an open transaction has
\* as its base, and the heads among them are cleared.
LEMMA RemovalIInv ==
    ASSUME IInv, NEW gone \in SUBSET DOMAIN revs,
           revs' = Keep(DOMAIN revs \ gone),
           head' \in [Projects -> Nat],
           \A p \in Projects : head'[p] = IF head[p] \in gone THEN NoRev ELSE head[p],
           \A p \in Projects : head[p] \in gone => lock[p] = Free,
           \A j \in DOMAIN revs : revs[j].parent \in gone => j \in gone,
           projects' \subseteq projects, UNCHANGED <<audit, nextId, lock, tx>>
    PROVE  IInv'
<1>1. /\ DOMAIN revs' = DOMAIN revs \ gone
      /\ \A k \in DOMAIN revs \ gone : revs'[k] = revs[k]
  BY DEF Keep
<1>2. TypeOK'
  BY <1>1, TypeParts DEF IInv, DbTypeOK, TypeOK
<1>3. ASSUME NEW q \in Requests PROVE OkFor(q, tx[q])'
  <2>1. /\ OkFor(q, tx[q]) /\ tx'[q] = tx[q]
        /\ InTx(q) => tx[q].op.proj \in Projects
    BY TxFacts DEF InTx
  <2>2. InTx(q) => head'[tx[q].op.proj] = head[tx[q].op.proj]
    BY <2>1, StoreAssumption DEF OkFor, InTx
  <2> QED BY <1>1, <2>1, <2>2 DEF OkFor, InTx
<1>4. TxOK' /\ DistinctIds'
  BY <1>3 DEF IInv, TxOK, DistinctIds
<1>5. DbOK'
  <2>1. HeadsOwn'
    <3>1. HeadsOwn
      BY DEF IInv, DbOK
    <3>2. ASSUME NEW p \in Projects, head'[p] # NoRev
          PROVE  head'[p] = head[p] /\ head[p] \in DOMAIN revs \ gone
      BY <3>1, <3>2 DEF HeadsOwn
    <3> SUFFICES ASSUME NEW p \in Projects, head'[p] # NoRev
                 PROVE  head'[p] \in DOMAIN revs' /\ revs'[head'[p]].project = p
      BY DEF HeadsOwn
    <3>3. PICK h : h = head[p]
      OBVIOUS
    <3>4. head'[p] = h /\ h \in DOMAIN revs \ gone /\ revs[h].project = p
      BY <3>1, <3>2, <3>3 DEF HeadsOwn
    <3> QED BY <1>1, <3>4
  <2>2. ParentsStored'
    <3>1. ParentsStored
      BY DEF IInv, DbOK
    <3> SUFFICES ASSUME NEW j \in DOMAIN revs', revs'[j].parent # NoRev
                 PROVE  /\ revs'[j].parent \in DOMAIN revs'
                        /\ revs'[revs'[j].parent].project = revs'[j].project
                        /\ revs'[j].parent < j
      BY DEF ParentsStored
    <3>2. j \in DOMAIN revs \ gone /\ revs'[j] = revs[j]
      BY <1>1
    <3>3. PICK i : i = revs[j].parent
      OBVIOUS
    <3>4. i \in DOMAIN revs \ gone /\ revs[i].project = revs[j].project /\ i < j
      BY <3>1, <3>2, <3>3 DEF ParentsStored
    <3> QED BY <1>1, <3>2, <3>3, <3>4
  <2>3. CommittedValid' /\ \A k \in DOMAIN revs' : k < nextId'
    BY <1>1 DEF IInv, DbOK, CommittedValid
  <2> QED BY <2>1, <2>2, <2>3 DEF DbOK
<1> QED BY <1>2, <1>4, <1>5 DEF IInv

LEMMA PruneIInv ==
    ASSUME IInv, NEW k \in DOMAIN revs, PruneRevision(k)
    PROVE  IInv'
<1> DEFINE gone == Descendants(k)
<1>1. gone \in SUBSET DOMAIN revs
  BY DEF Descendants
<1>2. \A j \in DOMAIN revs : revs[j].parent \in gone => j \in gone
  BY DescendantsClosed
<1>3. /\ revs' = Keep(DOMAIN revs \ gone)
      /\ \A p \in Projects : head[p] \in gone => lock[p] = Free
      /\ head' = [p \in Projects |-> IF head[p] \in gone THEN NoRev ELSE head[p]]
      /\ UNCHANGED <<projects, audit, nextId, lock, tx>>
  BY DEF PruneRevision
<1> HIDE DEF gone
<1>4. head' \in [Projects -> Nat]
  BY <1>3, TypeParts DEF IInv, DbTypeOK, NoRev
<1> QED BY <1>1, <1>2, <1>3, <1>4, RemovalIInv

LEMMA DeleteProjectIInv ==
    ASSUME IInv, NEW p \in Projects, DeleteProject(p)
    PROVE  IInv'
<1> DEFINE gone == {k \in DOMAIN revs : revs[k].project = p}
<1>1. /\ revs' = Keep(DOMAIN revs \ gone) /\ lock[p] = Free
      /\ head' = [head EXCEPT ![p] = NoRev]
      /\ projects' \subseteq projects /\ UNCHANGED <<audit, nextId, lock, tx>>
  <2>1. {k \in DOMAIN revs : revs[k].project # p} = DOMAIN revs \ gone
    OBVIOUS
  <2> QED BY <2>1 DEF DeleteProject
<1>2. /\ head \in [Projects -> Nat] /\ NoRev \notin DOMAIN revs
      /\ ParentsStored /\ HeadsOwn
  BY TypeParts DEF IInv, DbOK, DbTypeOK, RevIds, NoRev
<1>3. \A o \in Projects : head[o] \in gone <=> o = p /\ head[o] # NoRev
  BY <1>2 DEF HeadsOwn
<1>4. \A j \in DOMAIN revs : revs[j].parent \in gone => j \in gone
  BY <1>2 DEF ParentsStored
<1>5. head' \in [Projects -> Nat]
  BY <1>1, <1>2 DEF NoRev
<1>6. \A o \in Projects : head'[o] = IF head[o] \in gone THEN NoRev ELSE head[o]
  BY <1>1, <1>2, <1>3
<1>7. gone \in SUBSET DOMAIN revs
  OBVIOUS
<1> HIDE DEF gone
<1> QED BY <1>1, <1>3, <1>4, <1>5, <1>6, <1>7, RemovalIInv

\* What is known of an open transaction and of the rows that stay is known still.
LEMMA RemovalHInv ==
    ASSUME IInv, HInv(FALSE), NEW gone \in SUBSET DOMAIN revs,
           revs' = Keep(DOMAIN revs \ gone),
           \A p \in Projects : head[p] \in gone => lock[p] = Free,
           \A j \in DOMAIN revs : revs[j].parent \in gone => j \in gone,
           UNCHANGED tx
    PROVE  HInv(FALSE)'
<1>1. /\ DOMAIN revs' = DOMAIN revs \ gone
      /\ \A k \in DOMAIN revs \ gone : revs'[k] = revs[k]
      /\ NoRev \notin DOMAIN revs
  BY TypeParts DEF Keep, IInv, DbTypeOK, RevIds, NoRev
<1>2. \A k : k \notin gone => SpecOf(k)' = SpecOf(k) \/ (k # NoRev /\ k \notin DOMAIN revs)
  BY <1>1 DEF SpecOf
<1>3. ASSUME NEW q \in Requests PROVE HandOK(tx[q], FALSE)'
  <2>1. HandOK(tx[q], FALSE) /\ tx'[q] = tx[q]
    BY DEF HInv
  <2>2. tx[q].pc \in {"edit", "insert", "commit"} =>
           tx[q].base \notin gone /\ (tx[q].base = NoRev \/ tx[q].base \in DOMAIN revs)
    BY <1>1, TxFacts, BaseStored, StoreAssumption DEF OkFor, InTx
  <2> QED BY <1>1, <1>2, <2>1, <2>2 DEF HandOK
<1>4. ASSUME NEW k \in DOMAIN revs \ gone PROVE RowOK(revs[k])'
  <2>1. RowOK(revs[k]) /\ revs'[k] = revs[k]
    BY <1>1 DEF HInv
  <2>2. revs[k].parent \notin gone /\ (revs[k].parent = NoRev \/ revs[k].parent \in DOMAIN revs)
    BY DEF IInv, DbOK, ParentsStored
  <2> QED BY <1>2, <2>1, <2>2 DEF RowOK
<1> QED BY <1>1, <1>3, <1>4 DEF HInv

LEMMA PruneHInv ==
    ASSUME IInv, HInv(FALSE), NEW k \in DOMAIN revs, PruneRevision(k)
    PROVE  HInv(FALSE)'
<1> DEFINE gone == Descendants(k)
<1>1. gone \in SUBSET DOMAIN revs
  BY DEF Descendants
<1>2. \A j \in DOMAIN revs : revs[j].parent \in gone => j \in gone
  BY DescendantsClosed
<1>3. /\ revs' = Keep(DOMAIN revs \ gone) /\ UNCHANGED tx
      /\ \A p \in Projects : head[p] \in gone => lock[p] = Free
  BY DEF PruneRevision
<1> HIDE DEF gone
<1> QED BY <1>1, <1>2, <1>3, RemovalHInv

LEMMA DeleteProjectHInv ==
    ASSUME IInv, HInv(FALSE), NEW p \in Projects, DeleteProject(p)
    PROVE  HInv(FALSE)'
<1> DEFINE gone == {k \in DOMAIN revs : revs[k].project = p}
<1>1. /\ revs' = Keep(DOMAIN revs \ gone) /\ lock[p] = Free /\ UNCHANGED tx
  <2>1. {k \in DOMAIN revs : revs[k].project # p} = DOMAIN revs \ gone
    OBVIOUS
  <2> QED BY <2>1 DEF DeleteProject
<1>2. NoRev \notin DOMAIN revs /\ ParentsStored /\ HeadsOwn
  BY TypeParts DEF IInv, DbOK, DbTypeOK, RevIds, NoRev
<1>3. \A o \in Projects : head[o] \in gone => o = p
  BY <1>2 DEF HeadsOwn
<1>4. \A j \in DOMAIN revs : revs[j].parent \in gone => j \in gone
  BY <1>2 DEF ParentsStored
<1>5. gone \in SUBSET DOMAIN revs
  OBVIOUS
<1> HIDE DEF gone
<1> QED BY <1>1, <1>3, <1>4, <1>5, RemovalHInv

LEMMA AdminInductive == AdminSpec => []IInv
<1>1. IInv /\ [AdminNext]_vars => IInv'
  BY NextIInv, PruneIInv, DeleteProjectIInv, TypeParts DEF AdminNext, IInv, DbTypeOK
<1> QED BY <1>1, InitIInv, PTL DEF AdminSpec

LEMMA AdminInductiveH == AdminSpec => []HInv(FALSE)
<1>1. Init => HInv(FALSE)
  BY InitHInv
<1>2. IInv /\ HInv(FALSE) /\ [AdminNext]_vars => HInv(FALSE)'
  BY NextHInv, PruneHInv, DeleteProjectHInv, TypeParts DEF AdminNext, IInv, DbTypeOK
<1> QED BY <1>1, <1>2, AdminInductive, PTL DEF AdminSpec

(* Whatever an operator deletes under the running service, no lineage has a *)
(* hole: a revision's parent is stored, older, and of the same project.     *)
THEOREM StoreParentsStored == AdminSpec => []ParentsStored
<1>1. IInv => ParentsStored
  BY DEF IInv, DbOK
<1> QED BY <1>1, AdminInductive, PTL

(* And an edit, which holds the row lock, never has its head deleted under  *)
(* it; the lock is what the ON DELETE SET NULL of the head waits for.       *)
THEOREM StoreEditsNeverCorrupt == AdminSpec => []EditsNeverCorrupt
<1>1. IInv => EditsNeverCorrupt
  BY TxFacts DEF IInv, DbOK, HeadsOwn, OkFor, EditsNeverCorrupt
<1> QED BY <1>1, AdminInductive, PTL

(* Nor does any interleaving of edits and deletes store an invalid spec.    *)
THEOREM StoreAdminCommittedValid == AdminSpec => []CommittedValid
<1>1. IInv => CommittedValid
  BY DEF IInv, DbOK
<1> QED BY <1>1, AdminInductive, PTL

(* No edit is lost, nor anything removed silently, while rows are deleted   *)
(* by hand: the lock keeps what an edit is applied to until it commits, and *)
(* a revision goes with everything that was built on it.                    *)
THEOREM StoreAdminEditsApplyToParent == AdminSpec => []EditsApplyToParent
<1>1. HInv(FALSE) => EditsApplyToParent
  BY DEF HInv, RowOK, EditsApplyToParent
<1> QED BY <1>1, AdminInductiveH, PTL

(* So of what an operator leaves, each revision keeps what its parent had,  *)
(* but for deletes and CreateRevision.                                      *)
THEOREM StoreAdminNothingRemovedSilently == AdminSpec => []NothingRemovedSilently
<1>1. HInv(FALSE) => NothingRemovedSilently
  BY DEF HInv, RowOK, Gate, NothingRemovedSilently, Breaking
<1> QED BY <1>1, AdminInductiveH, PTL
=============================================================================
