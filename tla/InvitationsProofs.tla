-------------------------- MODULE InvitationsProofs --------------------------
(***************************************************************************)
(* The safety of the invitations for any organizations, users, requests    *)
(* and roles, and that their locks never form a circle.                    *)
(*                                                                         *)
(* The argument: an id is used for one row for good, so what a request has *)
(* read of the row it names stays true although it holds no lock on it;    *)
(* and what has no such reason to stay true (that an address has nothing   *)
(* pending, that a user is no member) is kept by the statement that waits  *)
(* for everybody else who has the same in hand.                            *)
(***************************************************************************)
EXTENDS Invitations, TLAPS

Committing(q, kind) == At(q, "commit") /\ tx[q].op.kind = kind

\* The request has been authorized as an inviter, or has found its invitation.
Inviting(q)  == tx[q].pc \in {"lookup", "select", "delete", "insert"} \/ Committing(q, "invite")
Accepting(q) == tx[q].pc \in {"join", "mark"} \/ Committing(q, "accept")
\* It has inserted the member, and not committed yet.
Admitting(q) == At(q, "mark") \/ Committing(q, "accept")

\* Some member who could invite with the role is on record as having invited e to o.
Vouched(o, role, e) ==
    \E g \in member : /\ g.org = o /\ g.role \in Inviters /\ CanGrant(g.role, role)
                      /\ <<o, g.user, e>> \in audit

Seat(o, u, role) == \E g \in member : g.org = o /\ g.user = u /\ g.role = role

\* Ids that stand for a row which exists or existed.
Used ==
    {NoInv} \cup DOMAIN inv \cup {tx[q].old : q \in Requests} \cup {m.via : m \in member}
        \cup UNION {tx[q].seen : q \in Requests}

\* What is known of the rows behind the ids: the organization and the address.
Facts ==
    {<<k, inv[k].org, inv[k].email>> : k \in DOMAIN inv}
        \cup {<<tx[q].old, tx[q].row.org, tx[q].row.email>> : q \in {v \in Requests : Accepting(v)}}
        \cup {<<m.via, m.org, m.user>> : m \in {n \in member : n.via # NoInv}}

IdsOK ==
    /\ \A k \in Used : k < nextId
    /\ \A q \in Requests : Committing(q, "invite") =>
          /\ tx[q].id < nextId /\ tx[q].id \notin Used
          /\ \A v \in Requests \ {q} : Committing(v, "invite") => tx[v].id # tx[q].id
    /\ \A f, g \in Facts : f[1] = g[1] => f = g

\* What an inviter knows of itself and of the invitation it found.
InviterOK(q) ==
    LET t == tx[q]
    IN  /\ t.op \in Invites(Roles)
        /\ Seat(t.op.org, t.op.by, t.role) /\ t.role \in Inviters /\ CanGrant(t.role, t.op.role)
        /\ t.old \in DOMAIN inv =>
              /\ inv[t.old].org = t.op.org /\ inv[t.old].email = t.op.email
              /\ CanGrant(t.role, inv[t.old].role)
        /\ t.pc \in {"delete", "insert", "commit"} =>
              Pending(t.op.org, t.op.email) \cap t.seen \subseteq {t.old}
        /\ t.pc \in {"insert", "commit"} /\ ~t.hit => t.old \notin DOMAIN inv
        /\ t.pc = "commit" => t.row = NewRow(t.op, t.op.email) /\ Clash(q) = {}

\* What an invitee knows of the invitation and of itself.
InviteeOK(q) ==
    LET t == tx[q]
    IN  /\ t.op \in Accepts(InvIds) /\ t.row \in Row /\ t.old # NoInv
        /\ t.row.email = t.op.by
        /\ Vouched(t.row.org, t.row.role, t.row.email)
        /\ Admitting(q) => RoleOf(t.row.org, t.op.by) = {}

TxOK(q) ==
    /\ tx[q].pc \in {"idle", "authorize", "lookup", "select", "redeem"} => tx[q].old = NoInv
    /\ tx[q].pc = "authorize" => tx[q].op \in Invites(Roles)
    /\ tx[q].pc = "redeem" => tx[q].op \in Accepts(InvIds)
    /\ tx[q].pc = "commit" => tx[q].op \in Ops
    /\ tx[q].hit => tx[q].pc \in {"insert", "commit"}
    /\ Inviting(q) => InviterOK(q)
    /\ Accepting(q) => InviteeOK(q)

\* No two open transactions decide about one address, or about one seat.
Exclusive ==
    \A q, v \in Requests : q # v =>
        /\ Committing(q, "invite") /\ Committing(v, "invite") =>
              tx[q].row.org # tx[v].row.org \/ tx[q].row.email # tx[v].row.email
        /\ Admitting(q) /\ Admitting(v) =>
              tx[q].row.org # tx[v].row.org \/ tx[q].op.by # tx[v].op.by

InvOK == \A k \in DOMAIN inv : Vouched(inv[k].org, inv[k].role, inv[k].email)

IInv ==
    /\ TypeOK
    /\ IdsOK
    /\ \A q \in Requests : TxOK(q)
    /\ Exclusive
    /\ InvOK
    /\ NoEscalation
    /\ AdmittedOnce
    /\ OneLiveToken

-----------------------------------------------------------------------------
(* What the assignments to a request come to.                              *)

Tx == [pc : PCs, op : Ops \cup {NoOp}, role : Roles, old : Nat, hit : BOOLEAN,
       row : Row \cup {NoRow}, id : Nat, seen : SUBSET InvIds, outcome : Outcomes]

RecordIs(t, pc, op, role, old, hit, row, id, seen) ==
    /\ t \in Tx
    /\ t.pc = pc /\ t.op = op /\ t.role = role /\ t.old = old /\ t.hit = hit
    /\ t.row = row /\ t.id = id /\ t.seen = seen

LEMMA SetPc ==
    ASSUME NEW c \in Tx, NEW x \in PCs
    PROVE  RecordIs([c EXCEPT !.pc = x], x, c.op, c.role, c.old, c.hit, c.row, c.id, c.seen)
BY DEF Tx, RecordIs

LEMMA SetOp ==
    ASSUME NEW c \in Tx, NEW x \in Ops
    PROVE  RecordIs([c EXCEPT !.op = x], c.pc, x, c.role, c.old, c.hit, c.row, c.id, c.seen)
BY DEF Tx, RecordIs

LEMMA SetRole ==
    ASSUME NEW c \in Tx, NEW x \in Roles
    PROVE  RecordIs([c EXCEPT !.role = x], c.pc, c.op, x, c.old, c.hit, c.row, c.id, c.seen)
BY DEF Tx, RecordIs

LEMMA SetOld ==
    ASSUME NEW c \in Tx, NEW x \in Nat
    PROVE  RecordIs([c EXCEPT !.old = x], c.pc, c.op, c.role, x, c.hit, c.row, c.id, c.seen)
BY DEF Tx, RecordIs

LEMMA SetHit ==
    ASSUME NEW c \in Tx, NEW x \in BOOLEAN
    PROVE  RecordIs([c EXCEPT !.hit = x], c.pc, c.op, c.role, c.old, x, c.row, c.id, c.seen)
BY DEF Tx, RecordIs

LEMMA SetRow ==
    ASSUME NEW c \in Tx, NEW x \in Row
    PROVE  RecordIs([c EXCEPT !.row = x], c.pc, c.op, c.role, c.old, c.hit, x, c.id, c.seen)
BY DEF Tx, RecordIs

LEMMA SetId ==
    ASSUME NEW c \in Tx, NEW x \in Nat
    PROVE  RecordIs([c EXCEPT !.id = x], c.pc, c.op, c.role, c.old, c.hit, c.row, x, c.seen)
BY DEF Tx, RecordIs

LEMMA SetSeen ==
    ASSUME NEW c \in Tx, NEW x \in SUBSET InvIds
    PROVE  RecordIs([c EXCEPT !.seen = x], c.pc, c.op, c.role, c.old, c.hit, c.row, c.id, x)
BY DEF Tx, RecordIs

RequestIs(q, pc, op, role, old, hit, row, id, seen) ==
    /\ tx' \in [Requests -> Tx]
    /\ \A v \in Requests \ {q} : tx'[v] = tx[v]
    /\ RecordIs(tx'[q], pc, op, role, old, hit, row, id, seen)

LEMMA Sets ==
    ASSUME TypeOK, NEW q \in Requests, NEW t \in Tx, tx' = [tx EXCEPT ![q] = t],
           NEW pc, NEW op, NEW role, NEW old, NEW hit, NEW row, NEW id, NEW seen,
           RecordIs(t, pc, op, role, old, hit, row, id, seen)
    PROVE  RequestIs(q, pc, op, role, old, hit, row, id, seen)
BY DEF RequestIs, TypeOK, Tx

LEMMA GotoIs ==
    ASSUME TypeOK, NEW q \in Requests, NEW pc \in PCs, Goto(q, pc)
    PROVE  LET c == tx[q] IN RequestIs(q, pc, c.op, c.role, c.old, c.hit, c.row, c.id, c.seen)
<1> DEFINE c == tx[q]
           t == [c EXCEPT !.pc = pc]
<1>1. c \in Tx /\ tx' = [tx EXCEPT ![q] = t]  BY DEF TypeOK, Tx, Goto
<1> HIDE DEF c
<1>2. RecordIs(t, pc, c.op, c.role, c.old, c.hit, c.row, c.id, c.seen)  BY <1>1, SetPc
<1> HIDE DEF t
<1> QED BY <1>1, <1>2, Sets DEF c, RecordIs

LEMMA StartIs ==
    ASSUME TypeOK, NEW q \in Requests, NEW op \in Ops, NEW pc \in PCs,
           tx' = [tx EXCEPT ![q].op = op, ![q].pc = pc]
    PROVE  LET c == tx[q] IN RequestIs(q, pc, op, c.role, c.old, c.hit, c.row, c.id, c.seen)
<1> DEFINE c == tx[q]
           a == [c EXCEPT !.op = op]
           t == [a EXCEPT !.pc = pc]
<1>1. c \in Tx /\ tx' = [tx EXCEPT ![q] = t]  BY DEF TypeOK, Tx
<1> HIDE DEF c
<1>2. RecordIs(a, c.pc, op, c.role, c.old, c.hit, c.row, c.id, c.seen)
  BY <1>1, SetOp DEF RecordIs
<1> HIDE DEF a
<1>3. RecordIs(t, pc, op, c.role, c.old, c.hit, c.row, c.id, c.seen)
  BY <1>2, SetPc DEF RecordIs
<1> HIDE DEF t
<1> QED BY <1>1, <1>3, Sets DEF c, RecordIs

LEMMA AuthorizeIs ==
    ASSUME TypeOK, NEW q \in Requests, NEW role \in Roles, NEW pc \in PCs,
           tx' = [tx EXCEPT ![q].role = role, ![q].pc = pc]
    PROVE  LET c == tx[q] IN RequestIs(q, pc, c.op, role, c.old, c.hit, c.row, c.id, c.seen)
<1> DEFINE c == tx[q]
           a == [c EXCEPT !.role = role]
           t == [a EXCEPT !.pc = pc]
<1>1. c \in Tx /\ tx' = [tx EXCEPT ![q] = t]  BY DEF TypeOK, Tx
<1> HIDE DEF c
<1>2. RecordIs(a, c.pc, c.op, role, c.old, c.hit, c.row, c.id, c.seen)
  BY <1>1, SetRole DEF RecordIs
<1> HIDE DEF a
<1>3. RecordIs(t, pc, c.op, role, c.old, c.hit, c.row, c.id, c.seen)
  BY <1>2, SetPc DEF RecordIs
<1> HIDE DEF t
<1> QED BY <1>1, <1>3, Sets DEF c, RecordIs

LEMMA SelectNoneIs ==
    ASSUME TypeOK, NEW q \in Requests, NEW pc \in PCs, NEW ids \in SUBSET InvIds,
           tx' = [tx EXCEPT ![q].pc = pc, ![q].seen = ids]
    PROVE  LET c == tx[q] IN RequestIs(q, pc, c.op, c.role, c.old, c.hit, c.row, c.id, ids)
<1> DEFINE c == tx[q]
           a == [c EXCEPT !.pc = pc]
           t == [a EXCEPT !.seen = ids]
<1>1. c \in Tx /\ tx' = [tx EXCEPT ![q] = t]  BY DEF TypeOK, Tx
<1> HIDE DEF c
<1>2. RecordIs(a, pc, c.op, c.role, c.old, c.hit, c.row, c.id, c.seen)
  BY <1>1, SetPc DEF RecordIs
<1> HIDE DEF a
<1>3. RecordIs(t, pc, c.op, c.role, c.old, c.hit, c.row, c.id, ids)
  BY <1>2, SetSeen DEF RecordIs
<1> HIDE DEF t
<1> QED BY <1>1, <1>3, Sets DEF c, RecordIs

LEMMA SelectIs ==
    ASSUME TypeOK, NEW q \in Requests, NEW pc \in PCs, NEW k \in Nat, NEW ids \in SUBSET InvIds,
           tx' = [tx EXCEPT ![q].pc = pc, ![q].old = k, ![q].seen = ids]
    PROVE  LET c == tx[q] IN RequestIs(q, pc, c.op, c.role, k, c.hit, c.row, c.id, ids)
<1> DEFINE c == tx[q]
           a == [c EXCEPT !.pc = pc]
           b == [a EXCEPT !.old = k]
           t == [b EXCEPT !.seen = ids]
<1>1. c \in Tx /\ tx' = [tx EXCEPT ![q] = t]  BY DEF TypeOK, Tx
<1> HIDE DEF c
<1>2. RecordIs(a, pc, c.op, c.role, c.old, c.hit, c.row, c.id, c.seen)
  BY <1>1, SetPc DEF RecordIs
<1> HIDE DEF a
<1>3. RecordIs(b, pc, c.op, c.role, k, c.hit, c.row, c.id, c.seen)
  BY <1>2, SetOld DEF RecordIs
<1> HIDE DEF b
<1>4. RecordIs(t, pc, c.op, c.role, k, c.hit, c.row, c.id, ids)
  BY <1>3, SetSeen DEF RecordIs
<1> HIDE DEF t
<1> QED BY <1>1, <1>4, Sets DEF c, RecordIs

LEMMA HitIs ==
    ASSUME TypeOK, NEW q \in Requests, NEW hit \in BOOLEAN, NEW pc \in PCs,
           tx' = [tx EXCEPT ![q].hit = hit, ![q].pc = pc]
    PROVE  LET c == tx[q] IN RequestIs(q, pc, c.op, c.role, c.old, hit, c.row, c.id, c.seen)
<1> DEFINE c == tx[q]
           a == [c EXCEPT !.hit = hit]
           t == [a EXCEPT !.pc = pc]
<1>1. c \in Tx /\ tx' = [tx EXCEPT ![q] = t]  BY DEF TypeOK, Tx
<1> HIDE DEF c
<1>2. RecordIs(a, c.pc, c.op, c.role, c.old, hit, c.row, c.id, c.seen)
  BY <1>1, SetHit DEF RecordIs
<1> HIDE DEF a
<1>3. RecordIs(t, pc, c.op, c.role, c.old, hit, c.row, c.id, c.seen)
  BY <1>2, SetPc DEF RecordIs
<1> HIDE DEF t
<1> QED BY <1>1, <1>3, Sets DEF c, RecordIs

LEMMA InsertIs ==
    ASSUME TypeOK, NEW q \in Requests, NEW pc \in PCs, NEW k \in Nat, NEW row \in Row,
           tx' = [tx EXCEPT ![q].pc = pc, ![q].id = k, ![q].row = row]
    PROVE  LET c == tx[q] IN RequestIs(q, pc, c.op, c.role, c.old, c.hit, row, k, c.seen)
<1> DEFINE c == tx[q]
           a == [c EXCEPT !.pc = pc]
           b == [a EXCEPT !.id = k]
           t == [b EXCEPT !.row = row]
<1>1. c \in Tx /\ tx' = [tx EXCEPT ![q] = t]  BY DEF TypeOK, Tx
<1> HIDE DEF c
<1>2. RecordIs(a, pc, c.op, c.role, c.old, c.hit, c.row, c.id, c.seen)
  BY <1>1, SetPc DEF RecordIs
<1> HIDE DEF a
<1>3. RecordIs(b, pc, c.op, c.role, c.old, c.hit, c.row, k, c.seen)
  BY <1>2, SetId DEF RecordIs
<1> HIDE DEF b
<1>4. RecordIs(t, pc, c.op, c.role, c.old, c.hit, row, k, c.seen)
  BY <1>3, SetRow DEF RecordIs
<1> HIDE DEF t
<1> QED BY <1>1, <1>4, Sets DEF c, RecordIs

LEMMA RedeemIs ==
    ASSUME TypeOK, NEW q \in Requests, NEW pc \in PCs, NEW k \in Nat, NEW row \in Row,
           tx' = [tx EXCEPT ![q].pc = pc, ![q].old = k, ![q].row = row]
    PROVE  LET c == tx[q] IN RequestIs(q, pc, c.op, c.role, k, c.hit, row, c.id, c.seen)
<1> DEFINE c == tx[q]
           a == [c EXCEPT !.pc = pc]
           b == [a EXCEPT !.old = k]
           t == [b EXCEPT !.row = row]
<1>1. c \in Tx /\ tx' = [tx EXCEPT ![q] = t]  BY DEF TypeOK, Tx
<1> HIDE DEF c
<1>2. RecordIs(a, pc, c.op, c.role, c.old, c.hit, c.row, c.id, c.seen)
  BY <1>1, SetPc DEF RecordIs
<1> HIDE DEF a
<1>3. RecordIs(b, pc, c.op, c.role, k, c.hit, c.row, c.id, c.seen)
  BY <1>2, SetOld DEF RecordIs
<1> HIDE DEF b
<1>4. RecordIs(t, pc, c.op, c.role, k, c.hit, row, c.id, c.seen)
  BY <1>3, SetRow DEF RecordIs
<1> HIDE DEF t
<1> QED BY <1>1, <1>4, Sets DEF c, RecordIs

LEMMA NoTxRecord ==
    RecordIs(NoTx, "idle", NoOp, "member", NoInv, FALSE, NoRow, NoInv, {})
BY DEF NoTx, RecordIs, Tx, PCs, Roles, NoInv, Outcomes

LEMMA FinishIs ==
    ASSUME TypeOK, NEW q \in Requests, NEW outcome \in Outcomes, Finish(q, outcome)
    PROVE  RequestIs(q, "done", NoOp, "member", NoInv, FALSE, NoRow, NoInv, {})
           /\ tx'[q].outcome = outcome
<1> DEFINE a == [NoTx EXCEPT !.pc = "done"]
           t == [a EXCEPT !.outcome = outcome]
<1>1. tx' = [tx EXCEPT ![q] = t]  BY DEF Finish
<1>2. NoTx \in Tx /\ "done" \in PCs  BY NoTxRecord DEF RecordIs, PCs
<1>3. RecordIs(a, "done", NoOp, "member", NoInv, FALSE, NoRow, NoInv, {})
  BY <1>2, SetPc, NoTxRecord DEF RecordIs
<1> HIDE DEF a
<1>4. RecordIs(t, "done", NoOp, "member", NoInv, FALSE, NoRow, NoInv, {}) /\ t.outcome = outcome
  BY <1>3 DEF RecordIs, Tx
<1> HIDE DEF t
<1>5. RequestIs(q, "done", NoOp, "member", NoInv, FALSE, NoRow, NoInv, {})
  BY <1>1, <1>4, Sets DEF RecordIs
<1> QED BY <1>1, <1>4, <1>5 DEF TypeOK

-----------------------------------------------------------------------------
(* A step of one request that writes no table.                             *)

LEMMA SameReads ==
    ASSUME NEW v \in Requests, tx'[v] = tx[v], UNCHANGED <<member, inv, audit>>, TxOK(v)
    PROVE  TxOK(v)'
<1>1. /\ Inviting(v)' <=> Inviting(v)
      /\ Accepting(v)' <=> Accepting(v)
      /\ Admitting(v)' <=> Admitting(v)
  BY DEF Inviting, Accepting, Admitting, Committing, At
<1>2. InviterOK(v) => InviterOK(v)'
  BY DEF InviterOK, Seat, Pending, Clash
<1>3. InviteeOK(v) => InviteeOK(v)'
  BY <1>1 DEF InviteeOK, Vouched, RoleOf
<1> QED BY <1>1, <1>2, <1>3 DEF TxOK

LEMMA ReadStep ==
    ASSUME IInv, NEW q \in Requests,
           UNCHANGED <<member, inv, expired, tokens, audit, accepted>>,
           nextId' \in {nextId, nextId + 1},
           tx' \in [Requests -> Tx], \A v \in Requests \ {q} : tx'[v] = tx[v],
           tx'[q].old \in Used, tx'[q].seen \subseteq Used,
           Accepting(q)' => <<tx'[q].old, tx'[q].row.org, tx'[q].row.email>> \in Facts,
           Committing(q, "invite")' =>
              /\ tx'[q].id = nextId /\ nextId' = nextId + 1
              /\ \A v \in Requests \ {q} : Committing(v, "invite") =>
                    tx'[q].row.org # tx[v].row.org \/ tx'[q].row.email # tx[v].row.email,
           Admitting(q)' => \A v \in Requests \ {q} : Admitting(v) =>
                    tx'[q].row.org # tx[v].row.org \/ tx'[q].op.by # tx[v].op.by,
           TxOK(q)'
    PROVE  IInv'
<1>1. TypeOK'  BY DEF IInv, TypeOK, Tx, InvIds
<1>2. \A v \in Requests : TxOK(v)'
  <2>1. \A v \in Requests \ {q} : TxOK(v)'  BY SameReads DEF IInv
  <2> QED BY <2>1
<1>3. \A v \in Requests \ {q} : /\ Committing(v, "invite")' <=> Committing(v, "invite")
                                /\ Admitting(v)' <=> Admitting(v)
                                /\ Accepting(v)' <=> Accepting(v)
  BY DEF Committing, Admitting, Accepting, At
<1>4. Exclusive'
  BY <1>3 DEF IInv, Exclusive
<1>5. Used' \subseteq Used
  <2> SUFFICES ASSUME NEW k \in Used' PROVE k \in Used
    OBVIOUS
  <2>1. CASE \E v \in Requests : k = tx'[v].old
    BY <2>1 DEF Used
  <2>2. CASE \E v \in Requests : k \in tx'[v].seen
    BY <2>2 DEF Used
  <2> QED BY <2>1, <2>2 DEF Used
<1>6. Facts' \subseteq Facts
  <2> SUFFICES ASSUME NEW f \in Facts' PROVE f \in Facts
    OBVIOUS
  <2>1. CASE \E v \in Requests : Accepting(v)' /\ f = <<tx'[v].old, tx'[v].row.org, tx'[v].row.email>>
    BY <1>3, <2>1 DEF Facts
  <2>2. CASE \/ \E k \in DOMAIN inv : f = <<k, inv[k].org, inv[k].email>>
             \/ \E m \in member : m.via # NoInv /\ f = <<m.via, m.org, m.user>>
    BY <2>2 DEF Facts
  <2> QED BY <2>1, <2>2 DEF Facts
<1>7. IdsOK'
  <2>1. \A k \in Used : k < nextId /\ k \in Nat
    <3>1. Used \subseteq Nat  BY DEF IInv, TypeOK, Used, InvIds, NoInv, Member
    <3> QED BY <3>1 DEF IInv, IdsOK
  <2>2. nextId \in Nat /\ nextId' \in Nat /\ nextId <= nextId'  BY <1>1 DEF IInv, TypeOK, InvIds
  <2>3. \A k \in Used' : k < nextId'  BY <1>5, <2>1, <2>2
  <2>4. ASSUME NEW v \in Requests, Committing(v, "invite")'
        PROVE  /\ tx'[v].id < nextId' /\ tx'[v].id \notin Used'
               /\ \A u \in Requests \ {v} : Committing(u, "invite")' => tx'[u].id # tx'[v].id
    <3>1. \A u \in Requests \ {q} : Committing(u, "invite") => tx[u].id < nextId /\ tx[u].id \in Nat
                                                             /\ tx[u].id \notin Used
      BY DEF IInv, IdsOK, TypeOK
    <3>2. CASE v = q
      BY <1>3, <1>5, <2>1, <2>2, <2>4, <3>1, <3>2
    <3>3. CASE v # q
      BY <1>3, <1>5, <2>2, <2>4, <3>1, <3>3 DEF IInv, IdsOK
    <3> QED BY <3>2, <3>3
  <2>5. \A f, g \in Facts' : f[1] = g[1] => f = g  BY <1>6 DEF IInv, IdsOK
  <2> QED BY <2>3, <2>4, <2>5 DEF IdsOK
<1>8. InvOK' /\ NoEscalation' /\ AdmittedOnce' /\ OneLiveToken'
  BY DEF IInv, InvOK, Vouched, NoEscalation, AdmittedOnce, OneLiveToken
<1> QED BY <1>1, <1>2, <1>4, <1>7, <1>8 DEF IInv

LEMMA OwnUsed ==
    ASSUME TypeOK, NEW q \in Requests
    PROVE  /\ tx[q].old \in Used /\ tx[q].seen \subseteq Used /\ NoInv \in Used
           /\ DOMAIN inv \subseteq Used /\ DOMAIN inv \in SUBSET InvIds
           /\ tx[q] \in Tx /\ tx[q].role \in Roles /\ tx[q].old \in Nat
           /\ tx[q].row \in Row \cup {NoRow} /\ tx[q].id \in Nat
           /\ tx[q].seen \in SUBSET InvIds /\ NoInv \notin DOMAIN inv
           /\ (Accepting(q) => <<tx[q].old, tx[q].row.org, tx[q].row.email>> \in Facts)
BY DEF TypeOK, Tx, Used, Facts, InvIds, NoInv

\* The request is answered without having changed anything.
LEMMA Answering ==
    ASSUME IInv, NEW q \in Requests, NEW outcome \in Outcomes, Finish(q, outcome),
           UNCHANGED <<member, inv, expired, tokens, audit, accepted>>,
           nextId' \in {nextId, nextId + 1}
    PROVE  IInv'
<1>1. TypeOK  BY DEF IInv
<1>2. RequestIs(q, "done", NoOp, "member", NoInv, FALSE, NoRow, NoInv, {})
  BY <1>1, FinishIs
<1>3. TxOK(q)' /\ ~Accepting(q)' /\ ~Committing(q, "invite")' /\ ~Admitting(q)'
  BY <1>2 DEF RequestIs, RecordIs, TxOK, Inviting, Accepting, Admitting, Committing, At
<1> QED BY <1>1, <1>2, <1>3, OwnUsed, ReadStep DEF RequestIs, RecordIs

LEMMA Starting ==
    ASSUME IInv, NEW q \in Requests, NEW op, NEW pc,
           \/ op \in Invites(Grants) /\ pc = "authorize"
           \/ op \in Accepts(tokens) /\ pc = "redeem",
           Start(q, op, pc)
    PROVE  IInv'
<1>1. TypeOK /\ TxOK(q) /\ tx[q].pc = "idle" /\ UNCHANGED db  BY DEF IInv, Start, At
<1>2. Invites(Grants) \subseteq Invites(Roles) /\ Accepts(tokens) \subseteq Accepts(InvIds)
  BY <1>1, OrgAssumption DEF Invites, Accepts, TypeOK
<1>3. op \in Ops  BY <1>2 DEF Ops
<1>4. pc \in PCs  BY DEF PCs
<1>5. RequestIs(q, pc, op, tx[q].role, tx[q].old, tx[q].hit, tx[q].row, tx[q].id, tx[q].seen)
  BY <1>1, <1>3, <1>4, StartIs DEF Start
<1>6. TxOK(q)' /\ ~Accepting(q)' /\ ~Committing(q, "invite")' /\ ~Admitting(q)'
  BY <1>1, <1>2, <1>5
     DEF RequestIs, RecordIs, TxOK, Inviting, Accepting, Admitting, Committing, At
<1> QED BY <1>1, <1>5, <1>6, OwnUsed, ReadStep DEF RequestIs, RecordIs, db

LEMMA Authorizing ==
    ASSUME IInv, NEW q \in Requests, AuthorizeGrant(q)
    PROVE  IInv'
<1>1. TypeOK /\ TxOK(q) /\ tx[q].pc = "authorize" /\ UNCHANGED db
  BY DEF IInv, AuthorizeGrant, At
<1>2. "refused" \in Outcomes  BY DEF Outcomes
<1>3. CASE Finish(q, "refused")  BY <1>1, <1>2, <1>3, Answering DEF db
<1>4. ASSUME NEW role \in RoleOf(tx[q].op.org, tx[q].op.by), role \in Inviters,
             CanGrant(role, tx[q].op.role),
             tx' = [tx EXCEPT ![q].role = role, ![q].pc = "lookup"]
      PROVE  IInv'
  <2>1. role \in Roles  BY <1>1, <1>4 DEF RoleOf, TypeOK, Member
  <2>2. RequestIs(q, "lookup", tx[q].op, role, tx[q].old, tx[q].hit, tx[q].row, tx[q].id, tx[q].seen)
    BY <1>1, <1>4, <2>1, AuthorizeIs DEF PCs
  <2>3. Seat(tx[q].op.org, tx[q].op.by, role)  BY <1>4 DEF RoleOf, Seat
  <2>4. InviterOK(q)'
    BY <1>1, <1>4, <2>2, <2>3, OwnUsed, ZenonT(40) DEF RequestIs, RecordIs, InviterOK, Seat, TxOK, db
  <2>5. TxOK(q)' /\ ~Accepting(q)' /\ ~Committing(q, "invite")' /\ ~Admitting(q)'
    BY <1>1, <2>2, <2>4 DEF RequestIs, RecordIs, TxOK, Accepting, Admitting, Committing, At
  <2> QED BY <1>1, <2>2, <2>5, OwnUsed, ReadStep, ZenonT(40) DEF RequestIs, RecordIs, db
<1> QED BY <1>3, <1>4 DEF AuthorizeGrant

LEMMA Checking ==
    ASSUME IInv, NEW q \in Requests, CheckNotMember(q)
    PROVE  IInv'
<1>1. TypeOK /\ TxOK(q) /\ tx[q].pc = "lookup" /\ UNCHANGED db
  BY DEF IInv, CheckNotMember, At
<1>2. "refused" \in Outcomes  BY DEF Outcomes
<1>3. CASE Finish(q, "refused")  BY <1>1, <1>2, <1>3, Answering DEF db
<1>4. CASE Goto(q, "select")
  <2>2. RequestIs(q, "select", tx[q].op, tx[q].role, tx[q].old, tx[q].hit, tx[q].row, tx[q].id,
                  tx[q].seen)
    BY <1>1, <1>4, GotoIs DEF PCs
  <2>3. InviterOK(q)  BY <1>1 DEF TxOK, Inviting
  <2>4. InviterOK(q)'
    BY <1>1, <2>2, <2>3 DEF RequestIs, RecordIs, InviterOK, Seat, db
  <2>5. TxOK(q)' /\ ~Accepting(q)' /\ ~Committing(q, "invite")' /\ ~Admitting(q)'
    BY <1>1, <2>2, <2>4 DEF RequestIs, RecordIs, TxOK, Accepting, Admitting, Committing, At
  <2> QED BY <1>1, <2>2, <2>5, OwnUsed, ReadStep DEF RequestIs, RecordIs, db
<1> QED BY <1>3, <1>4 DEF CheckNotMember

LEMMA Selecting ==
    ASSUME IInv, NEW q \in Requests, SelectPending(q)
    PROVE  IInv'
<1>1. TypeOK /\ TxOK(q) /\ tx[q].pc = "select" /\ UNCHANGED db /\ tx[q].old = NoInv
      /\ InviterOK(q) /\ ~tx[q].hit
  BY DEF IInv, SelectPending, At, TxOK, Inviting
<1>2. "refused" \in Outcomes  BY DEF Outcomes
<1>3. CASE Finish(q, "refused")  BY <1>1, <1>2, <1>3, Answering DEF db
<1> DEFINE found == Pending(tx[q].op.org, tx[q].op.email)
<1>4. CASE found = {} /\ tx' = [tx EXCEPT ![q].pc = "insert", ![q].seen = DOMAIN inv]
  <2>1. "insert" \in PCs  BY DEF PCs
  <2>2. RequestIs(q, "insert", tx[q].op, tx[q].role, tx[q].old, tx[q].hit, tx[q].row, tx[q].id,
                  DOMAIN inv)
    BY <1>1, <1>4, <2>1, SelectNoneIs, OwnUsed
  <2>3. Pending(tx[q].op.org, tx[q].op.email)' = {}
    BY <1>1, <1>4, <2>2 DEF Pending, RequestIs, RecordIs, db
  <2>4. InviterOK(q)'
    BY <1>1, <2>2, <2>3, OwnUsed DEF RequestIs, RecordIs, InviterOK, Seat, db
  <2>5. TxOK(q)' /\ ~Accepting(q)' /\ ~Committing(q, "invite")' /\ ~Admitting(q)'
    BY <1>1, <2>2, <2>4 DEF RequestIs, RecordIs, TxOK, Accepting, Admitting, Committing, At
  <2> QED BY <1>1, <2>2, <2>5, OwnUsed, ReadStep DEF RequestIs, RecordIs, db
<1>5. ASSUME NEW k \in found, CanGrant(tx[q].role, inv[k].role),
             tx' = [tx EXCEPT ![q].pc = "delete", ![q].old = k, ![q].seen = DOMAIN inv]
      PROVE  IInv'
  <2>1. "delete" \in PCs  BY DEF PCs
  <2>2. k \in DOMAIN inv /\ k \in Nat /\ inv[k].org = tx[q].op.org /\ inv[k].email = tx[q].op.email
    BY <1>1, <1>5 DEF Pending, TypeOK, InvIds
  <2>3. RequestIs(q, "delete", tx[q].op, tx[q].role, k, tx[q].hit, tx[q].row, tx[q].id, DOMAIN inv)
    BY <1>1, <1>5, <2>1, <2>2, SelectIs, OwnUsed
  <2>4. found \subseteq {k}
    BY <1>5 DEF IInv, OneLiveToken, Pending
  <2>5. InviterOK(q)'
    BY <1>1, <1>5, <2>2, <2>3, <2>4
       DEF RequestIs, RecordIs, InviterOK, Seat, Pending, db
  <2>6. TxOK(q)' /\ ~Accepting(q)' /\ ~Committing(q, "invite")' /\ ~Admitting(q)'
    BY <1>1, <2>3, <2>5 DEF RequestIs, RecordIs, TxOK, Accepting, Admitting, Committing, At
  <2> QED BY <1>1, <2>2, <2>3, <2>6, OwnUsed, ReadStep DEF RequestIs, RecordIs, db
<1> QED BY <1>3, <1>4, <1>5 DEF SelectPending

LEMMA Deleting ==
    ASSUME IInv, NEW q \in Requests, DeletePending(q)
    PROVE  IInv'
<1>1. TypeOK /\ TxOK(q) /\ tx[q].pc = "delete" /\ UNCHANGED db /\ InviterOK(q)
  BY DEF IInv, DeletePending, At, TxOK, Inviting
<1> DEFINE k == tx[q].old
           hit == k \in DOMAIN inv
<1>2. "insert" \in PCs /\ hit \in BOOLEAN  BY DEF PCs
<1>3. tx' = [tx EXCEPT ![q].hit = hit, ![q].pc = "insert"]  BY DEF DeletePending
<1>4. RequestIs(q, "insert", tx[q].op, tx[q].role, k, hit, tx[q].row, tx[q].id, tx[q].seen)
  BY <1>1, <1>2, <1>3, HitIs
<1>5. InviterOK(q)'
  BY <1>1, <1>4 DEF RequestIs, RecordIs, InviterOK, Seat, Pending, db
<1>6. TxOK(q)' /\ ~Accepting(q)' /\ ~Committing(q, "invite")' /\ ~Admitting(q)'
  BY <1>1, <1>4, <1>5 DEF RequestIs, RecordIs, TxOK, Accepting, Admitting, Committing, At
<1> QED BY <1>1, <1>4, <1>6, OwnUsed, ReadStep DEF RequestIs, RecordIs, db

LEMMA Issuing ==
    ASSUME IInv, NEW q \in Requests, InsertInvitation(q)
    PROVE  IInv'
<1>1. /\ TypeOK /\ TxOK(q) /\ tx[q].pc = "insert" /\ WaitsFor(q) = {} /\ InviterOK(q)
      /\ UNCHANGED <<member, inv, expired, tokens, audit, accepted>>
  BY DEF IInv, InsertInvitation, At, TxOK, Inviting
<1>2. "pending" \in Outcomes  BY DEF Outcomes
<1>3. CASE Finish(q, "pending") /\ UNCHANGED nextId  BY <1>1, <1>2, <1>3, Answering
<1> DEFINE op == tx[q].op
           row == NewRow(op, op.email)
<1>4. CASE /\ Clash(q) = {}
           /\ tx' = [tx EXCEPT ![q].pc = "commit", ![q].id = nextId, ![q].row = row]
           /\ nextId' = nextId + 1
  <2>1. "commit" \in PCs /\ nextId \in Nat  BY <1>1 DEF PCs, TypeOK, InvIds
  <2>2. row \in Row /\ row.org = op.org /\ row.email = op.email /\ op.kind = "invite" /\ op \in Ops
    BY <1>1 DEF InviterOK, Invites, Ops, NewRow, Row
  <2>3. RequestIs(q, "commit", op, tx[q].role, tx[q].old, tx[q].hit, row, nextId, tx[q].seen)
    BY <1>1, <1>4, <2>1, <2>2, InsertIs
  <2>4. Clash(q)' = {}
    BY <1>1, <1>4, <2>3 DEF Clash, Pending, RequestIs, RecordIs
  <2>5. InviterOK(q)'
    BY <1>1, <2>3, <2>4 DEF RequestIs, RecordIs, InviterOK, Seat, Pending
  <2>6. TxOK(q)' /\ ~Accepting(q)' /\ ~Admitting(q)'
    BY <1>1, <2>2, <2>3, <2>5
       DEF RequestIs, RecordIs, TxOK, Accepting, Admitting, Committing, At
  <2>7. \A v \in Requests \ {q} : Committing(v, "invite") =>
           row.org # tx[v].row.org \/ row.email # tx[v].row.email
    BY <1>1, <2>2 DEF WaitsFor, Inserting, Committing, At
  <2>8. /\ tx'[q].id = nextId /\ tx'[q].row = row /\ tx'[q].old = tx[q].old
        /\ tx'[q].seen = tx[q].seen
        /\ tx' \in [Requests -> Tx] /\ \A v \in Requests \ {q} : tx'[v] = tx[v]
    BY <2>3 DEF RequestIs, RecordIs
  <2> HIDE DEF row
  <2>9. tx'[q].old \in Used /\ tx'[q].seen \subseteq Used  BY <1>1, <2>8, OwnUsed
  <2> QED BY <1>1, <1>4, <2>6, <2>7, <2>8, <2>9, ReadStep, ZenonT(40)
<1> QED BY <1>3, <1>4 DEF InsertInvitation

LEMMA Redeeming ==
    ASSUME IInv, NEW q \in Requests, Redeem(q)
    PROVE  IInv'
<1>1. TypeOK /\ TxOK(q) /\ tx[q].pc = "redeem" /\ UNCHANGED db /\ tx[q].op \in Accepts(InvIds)
  BY DEF IInv, Redeem, At, TxOK
<1>2. "refused" \in Outcomes  BY DEF Outcomes
<1>3. CASE Finish(q, "refused")  BY <1>1, <1>2, <1>3, Answering DEF db
<1>4. ASSUME NEW k \in DOMAIN inv, k = tx[q].op.token, NEW row, row = inv[k],
             row.email = tx[q].op.by,
             tx' = [tx EXCEPT ![q].pc = "join", ![q].old = k, ![q].row = row]
      PROVE  IInv'
  <2>1. "join" \in PCs /\ k \in Nat /\ k # NoInv /\ row \in Row
    BY <1>1, <1>4 DEF PCs, TypeOK, InvIds, NoInv
  <2>2. RequestIs(q, "join", tx[q].op, tx[q].role, k, tx[q].hit, row, tx[q].id, tx[q].seen)
    BY <1>1, <1>4, <2>1, RedeemIs
  <2>3. Vouched(row.org, row.role, row.email)'
    BY <1>1, <1>4 DEF IInv, InvOK, Vouched, db
  <2>4. <<k, row.org, row.email>> \in Facts /\ k \in Used  BY <1>4 DEF Facts, Used
  <2>5. tx'[q].row = row /\ tx'[q].old = k /\ tx'[q].op = tx[q].op /\ tx'[q].pc = "join"
    BY <2>2 DEF RequestIs, RecordIs
  <2>6. ~Admitting(q)' /\ ~Committing(q, "invite")'  BY <2>5 DEF Admitting, Committing, At
  <2>7. InviteeOK(q)'
    BY <1>1, <1>4, <2>1, <2>3, <2>5, <2>6 DEF InviteeOK
  <2>8. TxOK(q)'
    BY <1>1, <2>2, <2>7 DEF RequestIs, RecordIs, TxOK, Inviting, Committing, At
  <2> QED BY <1>1, <2>2, <2>4, <2>5, <2>6, <2>8, OwnUsed, ReadStep DEF RequestIs, RecordIs, db
<1> QED BY <1>3, <1>4 DEF Redeem

LEMMA Joins ==
    ASSUME IInv, NEW q \in Requests, InsertMember(q)
    PROVE  IInv'
<1>1. TypeOK /\ TxOK(q) /\ tx[q].pc = "join" /\ UNCHANGED db /\ InviteeOK(q) /\ Accepting(q)
      /\ WaitsFor(q) = {}
  BY DEF IInv, InsertMember, At, TxOK, Accepting
<1>2. "refused" \in Outcomes  BY DEF Outcomes
<1>3. CASE Finish(q, "refused")  BY <1>1, <1>2, <1>3, Answering DEF db
<1>4. CASE RoleOf(tx[q].row.org, tx[q].op.by) = {} /\ Goto(q, "mark")
  <2>1. RequestIs(q, "mark", tx[q].op, tx[q].role, tx[q].old, tx[q].hit, tx[q].row, tx[q].id,
                  tx[q].seen)
    BY <1>1, <1>4, GotoIs DEF PCs
  <2>a. tx'[q].row = tx[q].row /\ tx'[q].old = tx[q].old /\ tx'[q].op = tx[q].op
    BY <2>1 DEF RequestIs, RecordIs
  <2>2. InviteeOK(q)'
    BY <1>1, <1>4, <2>a DEF InviteeOK, Vouched, RoleOf, db
  <2>3. TxOK(q)' /\ ~Committing(q, "invite")'
    BY <1>1, <2>1, <2>2 DEF RequestIs, RecordIs, TxOK, Inviting, Committing, At
  <2>4. \A v \in Requests \ {q} : Admitting(v) =>
           tx[q].row.org # tx[v].row.org \/ tx[q].op.by # tx[v].op.by
    <3> SUFFICES ASSUME NEW v \in Requests \ {q}, Admitting(v)
                 PROVE  tx[q].row.org # tx[v].row.org \/ tx[q].op.by # tx[v].op.by
      OBVIOUS
    <3>1. TxOK(v) /\ Accepting(v)  BY DEF IInv, Admitting, Accepting, At
    <3>2. tx[v].op.kind = "accept"  BY <3>1 DEF TxOK, InviteeOK, Accepts
    <3>3. v \notin WaitsFor(q)  BY <1>1
    <3> QED BY <1>1, <3>2, <3>3 DEF WaitsFor, Joining, Admitting, Committing, At
  <2> QED BY <1>1, <2>1, <2>3, <2>4, OwnUsed, ReadStep DEF RequestIs, RecordIs, db
<1> QED BY <1>3, <1>4 DEF InsertMember

LEMMA Marking ==
    ASSUME IInv, NEW q \in Requests, MarkAccepted(q)
    PROVE  IInv'
<1>1. TypeOK /\ TxOK(q) /\ tx[q].pc = "mark" /\ UNCHANGED db /\ InviteeOK(q) /\ Accepting(q)
      /\ Admitting(q)
  BY DEF IInv, MarkAccepted, At, TxOK, Accepting, Admitting
<1> DEFINE hit == tx[q].old \in DOMAIN inv
<1>2. "commit" \in PCs /\ hit \in BOOLEAN  BY DEF PCs
<1>3. tx' = [tx EXCEPT ![q].hit = hit, ![q].pc = "commit"]  BY DEF MarkAccepted
<1>4. RequestIs(q, "commit", tx[q].op, tx[q].role, tx[q].old, hit, tx[q].row, tx[q].id, tx[q].seen)
  BY <1>1, <1>2, <1>3, HitIs
<1>5. /\ tx'[q].row = tx[q].row /\ tx'[q].op = tx[q].op /\ tx'[q].old = tx[q].old
      /\ tx'[q].pc = "commit" /\ tx'[q].seen = tx[q].seen
  BY <1>4 DEF RequestIs, RecordIs
<1>6. RoleOf(tx[q].row.org, tx[q].op.by) = {}  BY <1>1 DEF InviteeOK
<1>7. RoleOf(tx[q].row.org, tx[q].op.by)' = {}  BY <1>1, <1>5, <1>6 DEF RoleOf, db
<1>8. InviteeOK(q)'
  BY <1>1, <1>5, <1>7 DEF InviteeOK, Vouched, db
<1>9. tx[q].op.kind = "accept" /\ tx[q].op \in Ops  BY <1>1 DEF InviteeOK, Accepts, Ops
<1>10. TxOK(q)' /\ ~Committing(q, "invite")'
  BY <1>1, <1>4, <1>8, <1>9 DEF RequestIs, RecordIs, TxOK, Inviting, Committing, At
<1>11. \A v \in Requests \ {q} : Admitting(v) =>
         tx[q].row.org # tx[v].row.org \/ tx[q].op.by # tx[v].op.by
  BY <1>1 DEF IInv, Exclusive
<1>12. /\ tx' \in [Requests -> Tx] /\ \A v \in Requests \ {q} : tx'[v] = tx[v]
       /\ nextId' \in {nextId, nextId + 1}
       /\ <<tx'[q].old, tx'[q].row.org, tx'[q].row.email>> \in Facts
       /\ tx'[q].old \in Used /\ tx'[q].seen \subseteq Used
  BY <1>1, <1>4, <1>5, OwnUsed DEF RequestIs, db
<1>13. \A v \in Requests \ {q} : Admitting(v) =>
         tx'[q].row.org # tx[v].row.org \/ tx'[q].op.by # tx[v].op.by
  BY <1>5, <1>11
<1> QED BY <1>1, <1>10, <1>12, <1>13, ReadStep DEF db

-----------------------------------------------------------------------------
(* The steps that write the tables.                                        *)

LEMMA Vouching ==
    ASSUME NEW o, NEW e, NEW role, Vouched(o, role, e), member \subseteq member',
           audit \subseteq audit'
    PROVE  Vouched(o, role, e)'
BY DEF Vouched

\* What a request knows survives what others commit.
LEMMA OthersKnow ==
    ASSUME NEW v \in Requests, TxOK(v), tx'[v] = tx[v],
           member \subseteq member', audit \subseteq audit',
           tx[v].old \in DOMAIN inv' =>
              /\ tx[v].old \in DOMAIN inv
              /\ inv'[tx[v].old].org = inv[tx[v].old].org
              /\ inv'[tx[v].old].email = inv[tx[v].old].email
              /\ inv'[tx[v].old].role = inv[tx[v].old].role,
           Inviting(v) => \A k \in Pending(tx[v].op.org, tx[v].op.email)' :
              \/ k \in Pending(tx[v].op.org, tx[v].op.email)
              \/ k \notin tx[v].seen /\ ~Committing(v, "invite"),
           Admitting(v) => RoleOf(tx[v].row.org, tx[v].op.by)' = {}
    PROVE  TxOK(v)'
<1>1. /\ Inviting(v)' <=> Inviting(v)
      /\ Accepting(v)' <=> Accepting(v)
      /\ Admitting(v)' <=> Admitting(v)
  BY DEF Inviting, Accepting, Admitting, Committing, At
<1>2. ASSUME Inviting(v) PROVE InviterOK(v)'
  <2>1. InviterOK(v)  BY <1>2 DEF TxOK
  <2>2. Seat(tx[v].op.org, tx[v].op.by, tx[v].role)'  BY <2>1 DEF InviterOK, Seat
  <2>3. tx[v].pc \in {"delete", "insert", "commit"} =>
           Pending(tx[v].op.org, tx[v].op.email)' \cap tx[v].seen \subseteq {tx[v].old}
    BY <1>2, <2>1 DEF InviterOK
  <2>4. tx[v].pc = "commit" => Clash(v)' = {}
    <3> SUFFICES ASSUME tx[v].pc = "commit", NEW k \in Clash(v)' PROVE FALSE
      OBVIOUS
    <3>1. Committing(v, "invite")  BY <1>2 DEF Inviting, Committing, At
    <3>2. k \in Pending(tx[v].op.org, tx[v].op.email)  BY <1>2, <3>1 DEF Clash
    <3>3. k \in Clash(v)  BY <3>2 DEF Clash
    <3> QED BY <2>1, <3>3 DEF InviterOK
  <2> QED BY <2>1, <2>2, <2>3, <2>4 DEF InviterOK
<1>3. ASSUME Accepting(v) PROVE InviteeOK(v)'
  BY <1>1, <1>3, Vouching DEF TxOK, InviteeOK
<1> QED BY <1>1, <1>2, <1>3 DEF TxOK

LEMMA Founding ==
    ASSUME IInv, NEW o \in Orgs, NEW u \in Founders, CreateOrganization(o, u)
    PROVE  IInv'
<1> DEFINE m == [role |-> "owner", org |-> o, user |-> u, via |-> NoInv]
<1>1. /\ TypeOK /\ \A n \in member : n.org # o
      /\ member' = member \cup {m}
      /\ UNCHANGED <<inv, nextId, expired, tokens, audit, accepted, tx>>
  BY DEF IInv, CreateOrganization
<1>2. m \in Member /\ m.org = o /\ m.user = u /\ m.via = NoInv
  BY OrgAssumption DEF Member, Roles, NoInv
<1> HIDE DEF m
<1>3. TypeOK'  BY <1>1, <1>2 DEF TypeOK
<1>4. ASSUME NEW v \in Requests PROVE TxOK(v)'
  <2>1. TxOK(v)  BY DEF IInv
  <2>2. ASSUME Admitting(v) PROVE RoleOf(tx[v].row.org, tx[v].op.by)' = {}
    <3>1. InviteeOK(v)  BY <2>1, <2>2 DEF TxOK, Admitting, Accepting, At
    <3>2. tx[v].row.org # o  BY <1>1, <3>1 DEF InviteeOK, Vouched
    <3>3. RoleOf(tx[v].row.org, tx[v].op.by) = {}  BY <2>2, <3>1 DEF InviteeOK
    <3> QED BY <1>1, <1>2, <3>2, <3>3 DEF RoleOf
  <2>3. Pending(tx[v].op.org, tx[v].op.email)' = Pending(tx[v].op.org, tx[v].op.email)
    BY <1>1 DEF Pending
  <2> QED BY <1>1, <2>1, <2>2, <2>3, OthersKnow
<1>5. Used' = Used /\ Facts' = Facts
  <2>1. Used' = Used
    BY <1>1, <1>2 DEF Used
  <2>2. \A v \in Requests : Accepting(v)' <=> Accepting(v)
    BY <1>1 DEF Accepting, Committing, At
  <2>3. {<<n.via, n.org, n.user>> : n \in {l \in member' : l.via # NoInv}}
           = {<<n.via, n.org, n.user>> : n \in {l \in member : l.via # NoInv}}
    BY <1>1, <1>2
  <2>4. {<<tx'[v].old, tx'[v].row.org, tx'[v].row.email>> : v \in {w \in Requests : Accepting(w)'}}
           = {<<tx[v].old, tx[v].row.org, tx[v].row.email>> : v \in {w \in Requests : Accepting(w)}}
    BY <1>1, <2>2
  <2>5. {<<k, inv'[k].org, inv'[k].email>> : k \in DOMAIN inv'}
           = {<<k, inv[k].org, inv[k].email>> : k \in DOMAIN inv}
    BY <1>1
  <2> QED BY <2>1, <2>3, <2>4, <2>5 DEF Facts
<1>6. IdsOK' /\ Exclusive'
  BY <1>1, <1>5 DEF IInv, IdsOK, Exclusive, Committing, Admitting, At
<1>7. InvOK'  BY <1>1, Vouching DEF IInv, InvOK
<1>8. NoEscalation'
  BY <1>1, <1>2 DEF IInv, NoEscalation
<1>9. AdmittedOnce'
  BY <1>1, <1>2 DEF IInv, AdmittedOnce
<1>10. OneLiveToken'  BY <1>1 DEF IInv, OneLiveToken
<1> QED BY <1>3, <1>4, <1>6, <1>7, <1>8, <1>9, <1>10 DEF IInv

LEMMA Aging ==
    ASSUME IInv, expired' \subseteq InvIds,
           UNCHANGED <<member, inv, nextId, tokens, audit, accepted, tx>>
    PROVE  IInv'
<1>1. TypeOK'  BY DEF IInv, TypeOK
<1>2. \A v \in Requests : TxOK(v)'  BY SameReads DEF IInv
<1>3. IdsOK' /\ Exclusive'
  BY DEF IInv, IdsOK, Exclusive, Committing, Admitting, Accepting, At, Used, Facts
<1>4. InvOK' /\ NoEscalation' /\ AdmittedOnce' /\ OneLiveToken'
  BY DEF IInv, InvOK, Vouched, NoEscalation, AdmittedOnce, OneLiveToken
<1> QED BY <1>1, <1>2, <1>3, <1>4 DEF IInv

\* q has committed, and is over.
LEMMA Over ==
    ASSUME TypeOK, NEW q \in Requests, NEW outcome \in {"committed", "error"}, Finish(q, outcome)
    PROVE  /\ tx' \in [Requests -> Tx] /\ \A v \in Requests \ {q} : tx'[v] = tx[v]
           /\ tx'[q].old = NoInv /\ tx'[q].seen = {}
           /\ TxOK(q)' /\ ~Accepting(q)' /\ ~Admitting(q)' /\ ~Committing(q, "invite")'
           /\ \A v \in Requests \ {q} : /\ Committing(v, "invite")' <=> Committing(v, "invite")
                                        /\ Admitting(v)' <=> Admitting(v)
                                        /\ Accepting(v)' <=> Accepting(v)
<1>1. RequestIs(q, "done", NoOp, "member", NoInv, FALSE, NoRow, NoInv, {})
  BY FinishIs DEF Outcomes
<1>2. TxOK(q)' /\ ~Accepting(q)' /\ ~Admitting(q)' /\ ~Committing(q, "invite")'
  BY <1>1 DEF RequestIs, RecordIs, TxOK, Inviting, Accepting, Admitting, Committing, At
<1>3. \A v \in Requests \ {q} : /\ Committing(v, "invite")' <=> Committing(v, "invite")
                                /\ Admitting(v)' <=> Admitting(v)
                                /\ Accepting(v)' <=> Accepting(v)
  BY <1>1 DEF RequestIs, Committing, Admitting, Accepting, At
<1> QED BY <1>1, <1>2, <1>3 DEF RequestIs, RecordIs

LEMMA CommittingAcceptance ==
    ASSUME IInv, NEW q \in Requests, NEW outcome \in {"committed", "error"},
           CommitAccept(q, outcome)
    PROVE  IInv'
<1> DEFINE t == tx[q]
           k == t.old
           m == [role |-> t.row.role, org |-> t.row.org, user |-> t.op.by, via |-> k]
           marked == IF t.hit THEN {k} ELSE {}
<1>0. TypeOK /\ Admitting(q) /\ Accepting(q) /\ TxOK(q)
  BY DEF IInv, CommitAccept, Admitting, Accepting, Committing
<1>1. /\ InviteeOK(q) /\ t.row \in Row /\ k # NoInv /\ k \in Nat /\ t.op.by \in Users
      /\ t.row.email = t.op.by /\ Vouched(t.row.org, t.row.role, t.op.by)
      /\ RoleOf(t.row.org, t.op.by) = {}
  BY <1>0 DEF TxOK, InviteeOK, TypeOK, Accepts
<1>2. /\ member' = member \cup {m}
      /\ inv' = [j \in DOMAIN inv |->
                    IF j \in marked THEN [inv[j] EXCEPT !.accepted = TRUE] ELSE inv[j]]
      /\ accepted' = accepted \cup marked
      /\ Finish(q, outcome)
      /\ UNCHANGED <<nextId, expired, tokens, audit>>
  BY DEF CommitAccept
<1>3. marked \subseteq InvIds  BY <1>1 DEF InvIds, NoInv
<1>4. m \in Member /\ m.org = t.row.org /\ m.user = t.op.by /\ m.via = k /\ m.role = t.row.role
  BY <1>1 DEF Member, Row
<1>5. /\ DOMAIN inv' = DOMAIN inv
      /\ \A j \in DOMAIN inv : /\ inv'[j].org = inv[j].org /\ inv'[j].email = inv[j].email
                               /\ inv'[j].role = inv[j].role /\ inv'[j] \in Row
                               /\ ~inv'[j].accepted => ~inv[j].accepted
  <2> SUFFICES ASSUME NEW j \in DOMAIN inv
               PROVE  /\ inv'[j].org = inv[j].org /\ inv'[j].email = inv[j].email
                      /\ inv'[j].role = inv[j].role /\ inv'[j] \in Row
                      /\ ~inv'[j].accepted => ~inv[j].accepted
    BY <1>2
  <2>1. inv[j] \in Row  BY <1>0 DEF TypeOK
  <2>2. inv'[j] = [inv[j] EXCEPT !.accepted = TRUE] \/ inv'[j] = inv[j]  BY <1>2
  <2> QED BY <2>1, <2>2 DEF Row
<1> HIDE DEF m, marked
<1>6. TypeOK'
  BY <1>0, <1>2, <1>3, <1>4, <1>5, Over DEF TypeOK, Tx
<1>7. \A o, e : Pending(o, e)' \subseteq Pending(o, e)  BY <1>5 DEF Pending
<1>8. ASSUME NEW v \in Requests \ {q} PROVE TxOK(v)'
  <2>1. TxOK(v) /\ tx'[v] = tx[v]  BY <1>0, <1>2, Over DEF IInv
  <2>2. ASSUME Admitting(v) PROVE RoleOf(tx[v].row.org, tx[v].op.by)' = {}
    <3>1. RoleOf(tx[v].row.org, tx[v].op.by) = {}
      BY <2>1, <2>2 DEF TxOK, InviteeOK, Admitting, Accepting, At
    <3>2. t.row.org # tx[v].row.org \/ t.op.by # tx[v].op.by
      BY <1>0, <2>2 DEF IInv, Exclusive
    <3>3. tx'[v] = tx[v]  BY <2>1
    <3> QED BY <1>2, <1>4, <3>1, <3>2, <3>3 DEF RoleOf
  <2>3. Pending(tx[v].op.org, tx[v].op.email)' \subseteq Pending(tx[v].op.org, tx[v].op.email)
    BY <1>7, <2>1
  <2> QED BY <1>2, <1>5, <2>1, <2>2, <2>3, OthersKnow
<1>9. TxOK(q)'  BY <1>0, <1>2, Over
<1>10. Used' \subseteq Used
  <2> SUFFICES ASSUME NEW j \in Used' PROVE j \in Used
    OBVIOUS
  <2>1. k \in Used /\ NoInv \in Used  BY DEF Used
  <2>2. CASE \E v \in Requests : j = tx'[v].old \/ j \in tx'[v].seen
    BY <1>0, <1>2, <2>1, <2>2, Over DEF Used
  <2>3. CASE j \in DOMAIN inv' \/ \E n \in member' : j = n.via
    BY <1>2, <1>4, <1>5, <2>1, <2>3 DEF Used
  <2> QED BY <2>1, <2>2, <2>3 DEF Used
<1>11. <<k, t.row.org, t.op.by>> \in Facts  BY <1>0, <1>1 DEF Facts
<1>12. Facts' \subseteq Facts
  <2> SUFFICES ASSUME NEW f \in Facts' PROVE f \in Facts
    OBVIOUS
  <2>1. CASE \E v \in Requests : Accepting(v)' /\ f = <<tx'[v].old, tx'[v].row.org, tx'[v].row.email>>
    BY <1>0, <1>2, <2>1, Over DEF Facts
  <2>2. CASE \E j \in DOMAIN inv' : f = <<j, inv'[j].org, inv'[j].email>>
    BY <1>5, <2>2 DEF Facts
  <2>3. CASE \E n \in member' : n.via # NoInv /\ f = <<n.via, n.org, n.user>>
    BY <1>2, <1>4, <1>11, <2>3 DEF Facts
  <2> QED BY <2>1, <2>2, <2>3 DEF Facts
<1>13. IdsOK' /\ Exclusive'
  <2>1. \A v \in Requests :
           /\ Committing(v, "invite")' => v # q /\ Committing(v, "invite") /\ tx'[v] = tx[v]
           /\ Admitting(v)' => v # q /\ Admitting(v) /\ tx'[v] = tx[v]
    BY <1>0, <1>2, Over
  <2>2. Exclusive'
    <3> SUFFICES ASSUME NEW u \in Requests, NEW v \in Requests, u # v
                 PROVE  /\ Committing(u, "invite")' /\ Committing(v, "invite")' =>
                              \/ tx'[u].row.org # tx'[v].row.org
                              \/ tx'[u].row.email # tx'[v].row.email
                        /\ Admitting(u)' /\ Admitting(v)' =>
                              \/ tx'[u].row.org # tx'[v].row.org
                              \/ tx'[u].op.by # tx'[v].op.by
      BY DEF Exclusive
    <3> QED BY <2>1 DEF IInv, Exclusive
  <2>3. IdsOK'
    <3>1. \A j \in Used' : j < nextId'  BY <1>2, <1>10 DEF IInv, IdsOK
    <3>2. ASSUME NEW v \in Requests, Committing(v, "invite")'
          PROVE  /\ tx'[v].id < nextId' /\ tx'[v].id \notin Used'
                 /\ \A u \in Requests \ {v} : Committing(u, "invite")' => tx'[u].id # tx'[v].id
      <4>1. Committing(v, "invite") /\ tx'[v] = tx[v]  BY <2>1, <3>2
      <4>2. \A u \in Requests \ {v} : Committing(u, "invite") => tx[u].id # tx[v].id
        BY <4>1 DEF IInv, IdsOK
      <4> QED BY <1>2, <1>10, <2>1, <4>1, <4>2 DEF IInv, IdsOK
    <3>3. \A f, g \in Facts' : f[1] = g[1] => f = g  BY <1>12 DEF IInv, IdsOK
    <3> QED BY <3>1, <3>2, <3>3 DEF IdsOK
  <2> QED BY <2>2, <2>3
<1>14. InvOK'
  <2> SUFFICES ASSUME NEW j \in DOMAIN inv
               PROVE  \E g \in member' : /\ g.org = inv'[j].org /\ g.role \in Inviters
                                         /\ CanGrant(g.role, inv'[j].role)
                                         /\ <<inv'[j].org, g.user, inv'[j].email>> \in audit'
    BY <1>5 DEF InvOK, Vouched
  <2> QED BY <1>2, <1>5 DEF IInv, InvOK, Vouched
<1>15. NoEscalation'
  BY <1>1, <1>2, <1>4 DEF IInv, NoEscalation, Vouched
<1>16. AdmittedOnce'
  <2>1. ASSUME NEW n \in member, \/ n.org = m.org /\ n.user = m.user
                                 \/ n.via = m.via
        PROVE  FALSE
    <3>1. CASE n.via = m.via
      <4>1. <<n.via, n.org, n.user>> \in Facts  BY <1>1, <1>4, <3>1 DEF Facts
      <4>2. <<n.via, n.org, n.user>> = <<k, t.row.org, t.op.by>>
        BY <1>4, <1>11, <3>1, <4>1 DEF IInv, IdsOK
      <4> QED BY <1>1, <4>2 DEF RoleOf
    <3>2. CASE n.org = m.org /\ n.user = m.user
      BY <1>1, <1>4, <3>2 DEF RoleOf
    <3> QED BY <2>1, <3>1, <3>2
  <2> QED BY <1>2, <2>1 DEF IInv, AdmittedOnce
<1>17. OneLiveToken'
  BY <1>5 DEF IInv, OneLiveToken
<1> QED BY <1>6, <1>8, <1>9, <1>13, <1>14, <1>15, <1>16, <1>17 DEF IInv

LEMMA CommittingInvitation ==
    ASSUME IInv, NEW q \in Requests, NEW outcome \in {"committed", "error"},
           CommitInvite(q, outcome)
    PROVE  IInv'
<1> DEFINE t == tx[q]
           op == t.op
           gone == IF t.hit THEN {t.old} ELSE {}
           kept == DOMAIN inv \ gone
<1>0. TypeOK /\ Committing(q, "invite") /\ Inviting(q) /\ TxOK(q) /\ t.pc = "commit"
  BY DEF IInv, CommitInvite, Inviting, Committing, At
<1>1. /\ InviterOK(q) /\ op \in Invites(Roles) /\ t.row = NewRow(op, op.email) /\ Clash(q) = {}
  BY <1>0 DEF TxOK, InviterOK
<1>2. /\ t.row \in Row /\ t.row.org = op.org /\ t.row.email = op.email /\ t.row.role = op.role
      /\ op.org \in Orgs /\ op.by \in Users /\ op.email \in Users
  BY <1>1 DEF NewRow, Invites, Row
<1>3. PICK id \in InvIds : id = t.id /\ id < nextId /\ id \notin Used
  BY <1>0 DEF IInv, IdsOK, TypeOK, InvIds, NoInv, Used
<1>4. /\ inv' = [j \in kept \cup {id} |-> IF j = id THEN t.row ELSE inv[j]]
      /\ audit' = audit \cup {<<op.org, op.by, op.email>>}
      /\ tokens' \subseteq tokens \cup {id}
      /\ Finish(q, outcome)
      /\ UNCHANGED <<member, nextId, expired, accepted>>
  BY <1>3 DEF CommitInvite
<1>5. /\ DOMAIN inv' = kept \cup {id} /\ id \notin DOMAIN inv /\ inv'[id] = t.row
      /\ \A j \in kept : inv'[j] = inv[j] /\ j # id /\ j \in DOMAIN inv
  BY <1>3, <1>4 DEF Used
<1>6. \A j \in kept : ~(inv[j].org = op.org /\ inv[j].email = op.email /\ ~inv[j].accepted)
  BY <1>1 DEF Clash, Pending
<1>7. \A v \in Requests \ {q} : Committing(v, "invite") =>
         /\ tx[v].row.org # t.row.org \/ tx[v].row.email # t.row.email
         /\ tx[v].id # id
  BY <1>0, <1>3 DEF IInv, Exclusive, IdsOK
<1> HIDE DEF gone, kept
<1>8. TypeOK'
  BY <1>0, <1>2, <1>3, <1>4, <1>5, Over DEF TypeOK, Tx
<1>9. ASSUME NEW v \in Requests \ {q} PROVE TxOK(v)'
  <2>1. TxOK(v) /\ tx'[v] = tx[v]  BY <1>0, <1>4, Over DEF IInv
  <2>2. tx[v].old # id /\ id \notin tx[v].seen  BY <1>3 DEF Used
  <2>3. RoleOf(tx[v].row.org, tx[v].op.by)' = RoleOf(tx[v].row.org, tx[v].op.by)
    BY <1>4, <2>1 DEF RoleOf
  <2>4. Admitting(v) => RoleOf(tx[v].row.org, tx[v].op.by)' = {}
    BY <2>1, <2>3 DEF TxOK, InviteeOK, Admitting, Accepting, At
  <2>5. ASSUME Inviting(v), NEW j \in Pending(tx[v].op.org, tx[v].op.email)'
        PROVE  \/ j \in Pending(tx[v].op.org, tx[v].op.email)
               \/ j \notin tx[v].seen /\ ~Committing(v, "invite")
    <3>1. CASE j = id
      <4>1. t.row.org = tx[v].op.org /\ t.row.email = tx[v].op.email
        BY <1>5, <2>1, <2>5, <3>1 DEF Pending
      <4>2. ASSUME Committing(v, "invite") PROVE FALSE
        <5>1. tx[v].row = NewRow(tx[v].op, tx[v].op.email)
          BY <2>1, <2>5, <4>2 DEF TxOK, InviterOK, Committing, At
        <5>2. tx[v].row.org = tx[v].op.org /\ tx[v].row.email = tx[v].op.email
          BY <5>1 DEF NewRow
        <5> QED BY <1>7, <4>1, <4>2, <5>2
      <4> QED BY <2>2, <3>1, <4>2
    <3>2. CASE j # id
      BY <1>5, <2>1, <2>5, <3>2 DEF Pending
    <3> QED BY <3>1, <3>2
  <2>6. audit \subseteq audit' /\ member \subseteq member'  BY <1>4
  <2> QED BY <1>5, <2>1, <2>2, <2>4, <2>5, <2>6, OthersKnow
<1>10. TxOK(q)'  BY <1>0, <1>4, Over
<1>11. Used' \subseteq Used \cup {id}
  <2> SUFFICES ASSUME NEW j \in Used' PROVE j \in Used \cup {id}
    OBVIOUS
  <2>1. NoInv \in Used  BY DEF Used
  <2>2. CASE \E v \in Requests : j = tx'[v].old \/ j \in tx'[v].seen
    BY <1>0, <1>4, <2>1, <2>2, Over DEF Used
  <2>3. CASE j \in DOMAIN inv' \/ \E n \in member' : j = n.via
    BY <1>4, <1>5, <2>3 DEF Used
  <2> QED BY <2>1, <2>2, <2>3 DEF Used
<1>12. \A f \in Facts : f[1] \in Used
  <2> SUFFICES ASSUME NEW f \in Facts PROVE f[1] \in Used
    OBVIOUS
  <2> QED BY DEF Facts, Used
<1>13. Facts' \subseteq Facts \cup {<<id, op.org, op.email>>}
  <2> SUFFICES ASSUME NEW f \in Facts' PROVE f \in Facts \cup {<<id, op.org, op.email>>}
    OBVIOUS
  <2>1. CASE \E v \in Requests : Accepting(v)' /\ f = <<tx'[v].old, tx'[v].row.org, tx'[v].row.email>>
    BY <1>0, <1>4, <2>1, Over DEF Facts
  <2>2. CASE \E j \in DOMAIN inv' : f = <<j, inv'[j].org, inv'[j].email>>
    BY <1>2, <1>5, <2>2 DEF Facts
  <2>3. CASE \E n \in member' : n.via # NoInv /\ f = <<n.via, n.org, n.user>>
    BY <1>4, <2>3 DEF Facts
  <2> QED BY <2>1, <2>2, <2>3 DEF Facts
<1>14. IdsOK' /\ Exclusive'
  <2>1. \A v \in Requests :
           /\ Committing(v, "invite")' => v # q /\ Committing(v, "invite") /\ tx'[v] = tx[v]
           /\ Admitting(v)' => v # q /\ Admitting(v) /\ tx'[v] = tx[v]
    BY <1>0, <1>4, Over
  <2>2. Exclusive'
    <3> SUFFICES ASSUME NEW u \in Requests, NEW v \in Requests, u # v
                 PROVE  /\ Committing(u, "invite")' /\ Committing(v, "invite")' =>
                              \/ tx'[u].row.org # tx'[v].row.org
                              \/ tx'[u].row.email # tx'[v].row.email
                        /\ Admitting(u)' /\ Admitting(v)' =>
                              \/ tx'[u].row.org # tx'[v].row.org
                              \/ tx'[u].op.by # tx'[v].op.by
      BY DEF Exclusive
    <3> QED BY <2>1 DEF IInv, Exclusive
  <2>3. \A f, g \in Facts' : f[1] = g[1] => f = g
    <3>1. <<id, op.org, op.email>>[1] = id  OBVIOUS
    <3> QED BY <1>3, <1>12, <1>13, <3>1 DEF IInv, IdsOK
  <2>4. IdsOK'
    <3>1. \A j \in Used' : j < nextId'  BY <1>3, <1>4, <1>11 DEF IInv, IdsOK
    <3>2. ASSUME NEW v \in Requests, Committing(v, "invite")'
          PROVE  /\ tx'[v].id < nextId' /\ tx'[v].id \notin Used'
                 /\ \A u \in Requests \ {v} : Committing(u, "invite")' => tx'[u].id # tx'[v].id
      <4>1. v # q /\ Committing(v, "invite") /\ tx'[v] = tx[v]  BY <2>1, <3>2
      <4>2. \A u \in Requests \ {v} : Committing(u, "invite") => tx[u].id # tx[v].id
        BY <4>1 DEF IInv, IdsOK
      <4>3. tx[v].id # id  BY <1>7, <4>1
      <4> QED BY <1>4, <1>11, <2>1, <4>1, <4>2, <4>3 DEF IInv, IdsOK
    <3> QED BY <2>3, <3>1, <3>2 DEF IdsOK
  <2> QED BY <2>2, <2>4
<1>15. InvOK'
  <2> SUFFICES ASSUME NEW j \in DOMAIN inv'
               PROVE  \E g \in member : /\ g.org = inv'[j].org /\ g.role \in Inviters
                                        /\ CanGrant(g.role, inv'[j].role)
                                        /\ <<inv'[j].org, g.user, inv'[j].email>> \in audit'
    BY <1>4, ZenonT(40) DEF InvOK, Vouched
  <2>1. CASE j = id
    BY <1>1, <1>2, <1>4, <1>5, <2>1, ZenonT(40) DEF InviterOK, Seat
  <2>2. CASE j # id
    BY <1>4, <1>5, <2>2, ZenonT(40) DEF IInv, InvOK, Vouched
  <2> QED BY <2>1, <2>2
<1>16. NoEscalation' /\ AdmittedOnce'
  BY <1>4 DEF IInv, NoEscalation, AdmittedOnce
<1>17. OneLiveToken'
  BY <1>2, <1>5, <1>6 DEF IInv, OneLiveToken
<1> QED BY <1>8, <1>9, <1>10, <1>14, <1>15, <1>16, <1>17 DEF IInv

-----------------------------------------------------------------------------
LEMMA InitIInv == Init => IInv
<1> SUFFICES ASSUME Init PROVE IInv
  OBVIOUS
<1>1. /\ inv = [k \in {} |-> NoRow] /\ nextId = 1
      /\ expired = {} /\ tokens = {} /\ audit = {} /\ accepted = {}
      /\ tx = [q \in Requests |-> NoTx]
      /\ DOMAIN inv = {}
  BY DEF Init
<1>2. \A q \in Requests : /\ RecordIs(tx[q], "idle", NoOp, "member", NoInv, FALSE, NoRow, NoInv, {})
  BY <1>1, NoTxRecord
<1>3. \A m \in member : \E s \in Seats :
         m = [role |-> s[3], org |-> s[1], user |-> s[2], via |-> NoInv]
  BY DEF Init
<1>4. \A m \in member : m \in Member /\ m.via = NoInv
  BY <1>3, OrgAssumption DEF Member, NoInv
<1>5. TypeOK
  <2>1. member \subseteq Member  BY <1>4
  <2>2. tx \in [Requests -> Tx]  BY <1>1, <1>2 DEF RecordIs
  <2> QED BY <1>1, <2>1, <2>2 DEF TypeOK, Tx, InvIds
<1>6. \A q \in Requests : /\ TxOK(q) /\ ~Accepting(q) /\ ~Admitting(q)
                          /\ ~Committing(q, "invite")
                          /\ tx[q].old = NoInv /\ tx[q].seen = {}
  BY <1>2 DEF RecordIs, TxOK, Inviting, Accepting, Admitting, Committing, At
<1>7. Used \subseteq {NoInv}  BY <1>1, <1>4, <1>6 DEF Used
<1>8. Facts = {}  BY <1>1, <1>4, <1>6 DEF Facts
<1>9. IdsOK  BY <1>1, <1>6, <1>7, <1>8 DEF IdsOK, NoInv
<1>10. Exclusive /\ InvOK /\ OneLiveToken
  BY <1>1, <1>6 DEF Exclusive, InvOK, OneLiveToken
<1>11. NoEscalation  BY <1>4 DEF NoEscalation
<1>12. AdmittedOnce
  <2> SUFFICES ASSUME NEW m \in member, NEW n \in member, m.org = n.org, m.user = n.user
               PROVE  m = n
    BY <1>4 DEF AdmittedOnce
  <2>1. PICK s \in Seats : m = [role |-> s[3], org |-> s[1], user |-> s[2], via |-> NoInv]
    BY <1>3
  <2>2. PICK r \in Seats : n = [role |-> r[3], org |-> r[1], user |-> r[2], via |-> NoInv]
    BY <1>3
  <2>3. s[1] = r[1] /\ s[2] = r[2]  BY <2>1, <2>2
  <2>4. s = r  BY <2>3, OrgAssumption
  <2> QED BY <2>1, <2>2, <2>4
<1> QED BY <1>5, <1>6, <1>9, <1>10, <1>11, <1>12 DEF IInv

LEMMA NextIInv == IInv /\ [Next]_vars => IInv'
<1> SUFFICES ASSUME IInv, [Next]_vars PROVE IInv'
  OBVIOUS
<1>0. TypeOK  BY DEF IInv
<1>1. CASE UNCHANGED vars
  BY <1>0, <1>1, Aging DEF vars, TypeOK
<1>2. ASSUME NEW k \in DOMAIN inv, Expire(k) PROVE IInv'
  BY <1>0, <1>2, Aging DEF Expire, TypeOK
<1>3. ASSUME NEW q \in Requests, Step(q) PROVE IInv'
  BY <1>3, Authorizing, Checking, Selecting, Deleting, Issuing, Redeeming, Joins, Marking,
     CommittingInvitation, CommittingAcceptance DEF Step
<1>4. ASSUME NEW q \in Requests, Abort(q) PROVE IInv'
  BY <1>4, Answering DEF Abort, Outcomes, db
<1>5. ASSUME NEW q \in Requests,
             \/ \E op \in Invites(Grants) : Start(q, op, "authorize")
             \/ \E op \in Accepts(tokens) : Start(q, op, "redeem")
      PROVE  IInv'
  BY <1>5, Starting
<1>6. CASE Quiesce
  BY <1>1, <1>6 DEF Quiesce
<1> QED BY <1>1, <1>2, <1>3, <1>4, <1>5, <1>6, Founding DEF Next

LEMMA SpecIInv == Spec => []IInv
BY InitIInv, NextIInv, PTL DEF Spec

-----------------------------------------------------------------------------
\* Every state of the invitations is well typed.
THEOREM OrgTypeOK == Spec => []TypeOK
<1>1. IInv => TypeOK  BY DEF IInv
<1> QED BY SpecIInv, <1>1, PTL

\* Nobody is admitted above the standing of a member who invited exactly that user
\* (AuthorizeGrant, InviteMember, AcceptInvitation).
THEOREM OrgNoEscalation == Spec => []NoEscalation
<1>1. IInv => NoEscalation  BY DEF IInv
<1> QED BY SpecIInv, <1>1, PTL

\* A user has one seat, a token admits one user, and an address has one live token,
\* however invites and redemptions race (AcceptInvitation, InviteMember).
THEOREM OrgOneTokenOneAdmission == Spec => []OneTokenOneAdmission
<1>1. IInv => OneTokenOneAdmission  BY DEF IInv, OneTokenOneAdmission
<1> QED BY SpecIInv, <1>1, PTL

\* The waits of invites and acceptances for each other's rows and index entries never
\* form a circle, for any number of requests (InviteMember, AcceptInvitation).
THEOREM OrgSomeoneGoesOn == Spec => []SomeoneGoesOn
<1> DEFINE open == {q \in Requests : tx[q].pc \notin {"idle", "done"}}
<1>1. ASSUME IInv, NEW q \in open PROVE \E v \in open : WaitsFor(v) = {}
  <2>1. CASE \E v \in open : tx[v].pc \notin {"delete", "mark", "insert", "join"}
    BY <2>1 DEF WaitsFor, At
  <2>2. ASSUME \A v \in open : tx[v].pc \in {"delete", "mark", "insert", "join"},
               NEW v \in open, At(v, "insert"), WaitsFor(v) # {}
        PROVE  \E u \in open : WaitsFor(u) = {}
    <3>1. \A u \in Requests : ~At(u, "commit")  BY <2>2 DEF At
    <3>2. PICK u \in Requests, k \in Clash(v) : Locks(u, k)
      BY <2>2, <3>1 DEF WaitsFor, At, Inserting
    <3>3. /\ TxOK(u) /\ TxOK(v) /\ At(u, "insert") /\ Inviting(u) /\ Inviting(v)
      BY <1>1, <2>2, <3>1, <3>2 DEF IInv, TxOK, Locks, At, Inviting
    <3>4. /\ k \in DOMAIN inv /\ inv[k].org = tx[v].op.org /\ inv[k].email = tx[v].op.email
      BY <3>2 DEF Clash, Pending
    <3>5. /\ k = tx[u].old /\ tx[u].hit
          /\ inv[k].org = tx[u].op.org /\ inv[k].email = tx[u].op.email
      BY <3>2, <3>3, <3>4 DEF TxOK, InviterOK, Locks
    <3>6. k \in Pending(tx[u].op.org, tx[u].op.email)
      BY <3>2, <3>4, <3>5 DEF Clash
    <3>7. Pending(tx[u].op.org, tx[u].op.email) \subseteq {k}
      BY <1>1, <3>6 DEF IInv, OneLiveToken, Pending
    <3>8. Clash(u) = {}  BY <3>5, <3>7 DEF Clash
    <3>9. WaitsFor(u) = {}  BY <3>1, <3>3, <3>8 DEF WaitsFor, At, Inserting
    <3> QED BY <3>3, <3>9 DEF At
  <2>3. ASSUME \A v \in open : tx[v].pc \in {"delete", "mark", "join"}
        PROVE  \E v \in open : WaitsFor(v) = {}
    <3>1. \A u \in Requests : ~tx[u].hit /\ tx[u].pc # "commit" /\ tx[u].pc # "insert"
      BY <1>1, <2>3 DEF IInv, TxOK
    <3>2. CASE \E v \in open : tx[v].pc \in {"delete", "mark"}
      BY <3>1, <3>2 DEF WaitsFor, At, Locks
    <3>3. CASE \A v \in open : tx[v].pc = "join"
      BY <1>1, <3>1, <3>3 DEF WaitsFor, At, Joining
    <3> QED BY <2>3, <3>2, <3>3
  <2> QED BY <2>1, <2>2, <2>3 DEF At
<1>2. IInv => SomeoneGoesOn  BY <1>1 DEF SomeoneGoesOn
<1> QED BY SpecIInv, <1>2, PTL

-----------------------------------------------------------------------------
(* What a step may take away, and what it may answer.                      *)

\* An invitation is superseded only by a member who could have issued it, whatever
\* happens to the row between the look and the delete (InviteMember).
THEOREM OrgSupersedeRespectsRank == Spec => SupersedeRespectsRank
<1>1. ASSUME IInv, [Next]_vars, NEW k \in DOMAIN inv \ DOMAIN inv'
      PROVE  \E q \in Requests, m \in member :
                /\ tx[q].old = k /\ m.org = inv[k].org /\ m.user = tx[q].op.by
                /\ m.role \in Inviters /\ CanGrant(m.role, inv[k].role)
  <2>1. ~UNCHANGED inv  BY <1>1
  <2>2. PICK q \in Requests : \E outcome : CommitInvite(q, outcome) \/ CommitAccept(q, outcome)
    BY <1>1, <2>1
       DEF Next, Step, vars, db, CreateOrganization, Expire, Start, AuthorizeGrant,
           CheckNotMember, SelectPending, DeletePending, InsertInvitation, Redeem,
           InsertMember, MarkAccepted, Abort, Quiesce
  <2>3. PICK outcome : CommitInvite(q, outcome)  BY <1>1, <2>2 DEF CommitAccept
  <2>4. k = tx[q].old  BY <1>1, <2>3 DEF CommitInvite
  <2>5. InviterOK(q)
    BY <1>1, <2>3 DEF IInv, TxOK, CommitInvite, Inviting, Committing, At
  <2> QED BY <1>1, <2>4, <2>5 DEF InviterOK, Seat
<1>2. IInv /\ [Next]_vars =>
         [\A k \in DOMAIN inv \ DOMAIN inv' :
            \E q \in Requests, m \in member :
               /\ tx[q].old = k /\ m.org = inv[k].org /\ m.user = tx[q].op.by
               /\ m.role \in Inviters /\ CanGrant(m.role, inv[k].role)]_vars
  BY <1>1
<1> QED BY SpecIInv, <1>2, PTL DEF Spec, SupersedeRespectsRank

LEMMA Answers ==
    ASSUME TypeOK, NEW q \in Requests, NEW outcome \in Outcomes, Finish(q, outcome)
    PROVE  tx'[q].outcome = outcome
BY FinishIs

\* The only answer that is "pending" is that of an insert that ran into a row.
LEMMA PendingAnswer ==
    ASSUME IInv, [Next]_vars, NEW q \in Requests, tx[q].outcome # "pending",
           tx'[q].outcome = "pending"
    PROVE  InsertInvitation(q) /\ Clash(q) # {}
<1>0. TypeOK /\ tx \in [Requests -> Tx] /\ tx[q] \in Tx  BY DEF IInv, TypeOK, Tx
<1>1. tx'[q] # tx[q]  OBVIOUS
<1>2. \/ Step(q) \/ Abort(q)
      \/ \E op \in Invites(Grants) : Start(q, op, "authorize")
      \/ \E op \in Accepts(tokens) : Start(q, op, "redeem")
  <2>1. PICK v \in Requests :
           \/ Step(v) \/ Abort(v)
           \/ \E op \in Invites(Grants) : Start(v, op, "authorize")
           \/ \E op \in Accepts(tokens) : Start(v, op, "redeem")
    BY <1>1 DEF Next, vars, CreateOrganization, Expire, Quiesce
  <2>2. v # q => tx'[q] = tx[q]
    BY <1>0, <2>1
       DEF Step, Abort, Start, Finish, Goto, AuthorizeGrant, CheckNotMember, SelectPending,
           DeletePending, InsertInvitation, Redeem, InsertMember, MarkAccepted, CommitInvite,
           CommitAccept
  <2> QED BY <1>1, <2>1, <2>2
<1>3. \A outcome \in Outcomes \ {"pending"} : ~Finish(q, outcome)
  BY <1>0, Answers
<1>4. {"refused", "error", "committed", "pending"} \subseteq Outcomes  BY DEF Outcomes
<1>5. ASSUME NEW pc, Goto(q, pc) PROVE FALSE
  BY <1>0, <1>5 DEF Goto, Tx
<1>6. ASSUME NEW op, NEW pc, Start(q, op, pc) PROVE FALSE
  BY <1>0, <1>6 DEF Start, Tx
<1>7. ~Abort(q)  BY <1>3, <1>4 DEF Abort
<1>8. ~AuthorizeGrant(q)
  <2>1. ASSUME NEW role, tx' = [tx EXCEPT ![q].role = role, ![q].pc = "lookup"] PROVE FALSE
    BY <1>0, <2>1 DEF Tx
  <2> QED BY <1>3, <1>4, <2>1 DEF AuthorizeGrant
<1>9. ~CheckNotMember(q) /\ ~InsertMember(q)
  BY <1>3, <1>4, <1>5 DEF CheckNotMember, InsertMember
<1>10. ~SelectPending(q)
  <2>1. ASSUME tx' = [tx EXCEPT ![q].pc = "insert", ![q].seen = DOMAIN inv] PROVE FALSE
    BY <1>0, <2>1 DEF Tx
  <2>2. ASSUME NEW k,
               tx' = [tx EXCEPT ![q].pc = "delete", ![q].old = k, ![q].seen = DOMAIN inv]
        PROVE  FALSE
    BY <1>0, <2>2 DEF Tx
  <2> QED BY <1>3, <1>4, <2>1, <2>2 DEF SelectPending
<1>11. ~DeletePending(q) /\ ~MarkAccepted(q)
  BY <1>0 DEF DeletePending, MarkAccepted, Tx
<1>12. ~Redeem(q)  BY <1>0, <1>3, <1>4 DEF Redeem, Tx
<1>13. \A outcome \in {"committed", "error"} : ~CommitInvite(q, outcome) /\ ~CommitAccept(q, outcome)
  BY <1>3, <1>4 DEF CommitInvite, CommitAccept
<1>14. InsertInvitation(q)
  BY <1>2, <1>6, <1>7, <1>8, <1>9, <1>10, <1>11, <1>12, <1>13 DEF Step
<1>15. Clash(q) # {}
  BY <1>0, <1>14 DEF InsertInvitation, Tx
<1> QED BY <1>14, <1>15

\* "Already pending" is only answered if the invitation in the way is newer than the
\* inviter's look at the table (InviteMember).
THEOREM OrgPendingOnlyByRace == Spec => PendingOnlyByRace
<1>1. ASSUME IInv, [Next]_vars, NEW q \in Requests, tx[q].outcome # "pending",
             tx'[q].outcome = "pending"
      PROVE  Pending(tx[q].op.org, tx[q].op.email) \ tx[q].seen # {}
  <2>1. At(q, "insert") /\ Clash(q) # {}  BY <1>1, PendingAnswer DEF InsertInvitation
  <2>2. InviterOK(q)  BY <1>1, <2>1 DEF IInv, TxOK, Inviting, At
  <2>3. PICK k \in Clash(q) : TRUE  BY <2>1
  <2>4. k \in Pending(tx[q].op.org, tx[q].op.email) /\ k \in DOMAIN inv
    BY <2>3 DEF Clash, Pending
  <2>5. k # tx[q].old  BY <2>1, <2>2, <2>3, <2>4 DEF InviterOK, Clash, At
  <2> QED BY <2>1, <2>2, <2>4, <2>5 DEF InviterOK, At
<1>2. IInv /\ [Next]_vars =>
         [\A q \in Requests : tx[q].outcome # "pending" /\ tx'[q].outcome = "pending" =>
            Pending(tx[q].op.org, tx[q].op.email) \ tx[q].seen # {}]_vars
  BY <1>1
<1> QED BY SpecIInv, <1>2, PTL DEF Spec, PendingOnlyByRace
==============================================================================
