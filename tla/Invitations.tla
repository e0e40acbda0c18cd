------------------------------ MODULE Invitations ------------------------------
(***************************************************************************)
(* Inviting and admitting members (controlplane/internal/org, tables       *)
(* organization_members / invitations).  InviteMember authorizes its       *)
(* caller and looks for an existing member before its transaction, which   *)
(* supersedes the pending invitation of the address and inserts a new one; *)
(* AcceptInvitation reads the invitation a token names, inserts the        *)
(* member and marks the invitation.  Neither locks what it reads, so the   *)
(* statements of concurrent requests interleave, and wait for each other   *)
(* only on the rows they write and on the two unique indexes.              *)
(*                                                                         *)
(* users.email is unique and both sides normalize, so a user stands for    *)
(* its address.  Memberships and roles never change once made.             *)
(***************************************************************************)
EXTENDS Naturals

CONSTANTS
    Orgs,       \* organization ids
    Users,      \* users, and the addresses they registered
    Requests,   \* HTTP requests; each performs one operation, once
    Seats,      \* the members there are to begin with, as {<<org, user, role>>}
    Founders,   \* the users who create the other organizations
    Grants,     \* the roles that invitations ask for
    NoOp        \* "this request has not started"

Roles == {"owner", "admin", "member"}

ASSUME OrgAssumption ==
    /\ Seats \subseteq Orgs \X Users \X Roles
    /\ \A s, t \in Seats : s[1] = t[1] /\ s[2] = t[2] => s = t
    /\ Founders \subseteq Users
    /\ Grants \subseteq Roles

NoInv  == 0
InvIds == Nat \ {0}

Rank(role) == CASE role = "owner" -> 3 [] role = "admin" -> 2 [] OTHER -> 1

CanGrant(granter, target) == Rank(target) <= Rank(granter)

\* The roles that hold org.members.invite.
Inviters == {"owner", "admin"}

Invites(roles) == [kind : {"invite"}, role : roles, org : Orgs, by : Users, email : Users]
Accepts(ids)   == [kind : {"accept"}, token : ids, by : Users]
Ops            == Invites(Roles) \cup Accepts(InvIds)

-----------------------------------------------------------------------------
VARIABLES
    member,     \* organization_members rows; via is a history field
    inv,        \* invitations: id -> row
    nextId,     \* the invitations id sequence
    expired,    \* invitations whose expires_at has passed
    tokens,     \* invitations whose raw token was handed to their inviter
    audit,      \* member.invited events, as <<org, actor, email>>
    accepted,   \* history: invitations whose accepted_at has been stored
    tx          \* each request

db   == <<member, inv, nextId, expired, tokens, audit, accepted>>
vars == <<member, inv, nextId, expired, tokens, audit, accepted, tx>>

\* via is the invitation a member was admitted by.
Member == [role : Roles, org : Orgs, user : Users, via : Nat]
Row    == [role : Roles, org : Orgs, by : Users, email : Users, accepted : BOOLEAN]
NoRow  == [role |-> NoOp, org |-> NoOp, by |-> NoOp, email |-> NoOp, accepted |-> FALSE]

\* "refused" stands for every sentinel error but ErrInvitationPending.
Outcomes == {"none", "refused", "pending", "error", "committed"}

PCs == {"idle", "authorize", "lookup", "select", "delete", "insert",
        "redeem", "join", "mark", "commit", "done"}

\* role: the inviter's.  old: the invitation found.  hit: the statement on it wrote it.
\* seen is a history field: the invitations stored when the inviter looked.
NoTx == [role |-> "member", pc |-> "idle", op |-> NoOp, old |-> NoInv, hit |-> FALSE,
         row |-> NoRow, id |-> NoInv, seen |-> {}, outcome |-> "none"]

At(q, pc)   == tx[q].pc = pc
Goto(q, pc) == tx' = [tx EXCEPT ![q].pc = pc]
Finish(q, outcome) ==
    tx' = [tx EXCEPT ![q] = [NoTx EXCEPT !.pc = "done", !.outcome = outcome]]

RoleOf(o, u) == {m.role : m \in {n \in member : n.org = o /\ n.user = u}}

\* The partial unique index: rows of an address that are not accepted.
Pending(o, e) == {k \in DOMAIN inv : inv[k].org = o /\ inv[k].email = e /\ ~inv[k].accepted}

\* What open transactions have written and not committed.
Locks(v, k)        == tx[v].hit /\ tx[v].old = k
Inserting(v, o, e) == At(v, "commit") /\ tx[v].op.kind = "invite"
                        /\ tx[v].row.org = o /\ tx[v].row.email = e
Joining(v, o, u)   == tx[v].pc \in {"mark", "commit"} /\ tx[v].op.kind = "accept"
                        /\ tx[v].row.org = o /\ tx[v].op.by = u

\* The pending invitations an insert runs into: its own delete is out of the way.
Clash(q) == Pending(tx[q].op.org, tx[q].op.email) \ (IF tx[q].hit THEN {tx[q].old} ELSE {})

\* Mutation: the insert runs on a connection of its own, beside its transaction.
WaitsForOnOwnConnection(q) ==
    {v \in Requests :
        \/ tx[q].pc \in {"delete", "mark"} /\ v # q /\ Locks(v, tx[q].old)
        \/ At(q, "insert") /\ \E k \in Pending(tx[q].op.org, tx[q].op.email) : Locks(v, k)
        \/ At(q, "join") /\ v # q /\ Joining(v, tx[q].row.org, tx[q].op.by)}

\* The open transactions whose end the next statement of q waits for.
WaitsFor(q) ==
    {v \in Requests \ {q} :
        \/ tx[q].pc \in {"delete", "mark"} /\ Locks(v, tx[q].old)
        \/ At(q, "insert") /\ (Inserting(v, tx[q].op.org, tx[q].op.email)
                                  \/ \E k \in Clash(q) : Locks(v, k))
        \/ At(q, "join") /\ Joining(v, tx[q].row.org, tx[q].op.by)}

Init ==
    /\ member = {[role |-> s[3], org |-> s[1], user |-> s[2], via |-> NoInv] : s \in Seats}
    /\ inv = [k \in {} |-> NoRow]
    /\ nextId = 1
    /\ expired = {} /\ tokens = {} /\ audit = {} /\ accepted = {}
    /\ tx = [q \in Requests |-> NoTx]

-----------------------------------------------------------------------------
(* CreateOrganization: the organization and its first owner in one         *)
(* transaction.                                                            *)
CreateOrganization(o, u) ==
    /\ \A m \in member : m.org # o
    /\ member' = member \cup {[role |-> "owner", org |-> o, user |-> u, via |-> NoInv]}
    /\ UNCHANGED <<inv, nextId, expired, tokens, audit, accepted, tx>>

(* Time passes.                                                            *)
Expire(k) ==
    /\ k \notin expired /\ ~inv[k].accepted
    /\ expired' = expired \cup {k}
    /\ UNCHANGED <<member, inv, nextId, tokens, audit, accepted, tx>>

(* A request arrives; whoever holds a token may present it.                *)
Start(q, op, pc) ==
    /\ At(q, "idle")
    /\ tx' = [tx EXCEPT ![q].op = op, ![q].pc = pc]
    /\ UNCHANGED db

-----------------------------------------------------------------------------
(* InviteMember.                                                           *)

\* Mutation: whoever may invite may grant any role.
AuthorizeAnyGrant(q) ==
    LET op == tx[q].op IN
    /\ At(q, "authorize")
    /\ \E role \in RoleOf(op.org, op.by) :
          role \in Inviters /\ tx' = [tx EXCEPT ![q].role = role, ![q].pc = "lookup"]
    /\ UNCHANGED db

(* AuthorizeGrant, before the transaction.                                 *)
AuthorizeGrant(q) ==
    LET op == tx[q].op IN
    /\ At(q, "authorize")
    /\ \/ RoleOf(op.org, op.by) = {} /\ Finish(q, "refused")
       \/ \E role \in RoleOf(op.org, op.by) :
             \/ role \notin Inviters /\ Finish(q, "refused")
             \/ role \in Inviters /\ ~CanGrant(role, op.role) /\ Finish(q, "refused")
             \/ /\ role \in Inviters /\ CanGrant(role, op.role)
                /\ tx' = [tx EXCEPT ![q].role = role, ![q].pc = "lookup"]
    /\ UNCHANGED db

(* userByEmailIsMember, before the transaction too.                        *)
CheckNotMember(q) ==
    LET op == tx[q].op IN
    /\ At(q, "lookup")
    /\ \/ RoleOf(op.org, op.email) # {} /\ Finish(q, "refused")
       \/ RoleOf(op.org, op.email) = {} /\ Goto(q, "select")
    /\ UNCHANGED db

\* Mutation: the pending invitation is not looked at before it is superseded.
SelectPendingWithoutBound(q) ==
    LET op == tx[q].op
        found == Pending(op.org, op.email)
    IN
    /\ At(q, "select")
    /\ \/ found = {} /\ tx' = [tx EXCEPT ![q].pc = "insert", ![q].seen = DOMAIN inv]
       \/ \E k \in found :
             tx' = [tx EXCEPT ![q].pc = "delete", ![q].old = k, ![q].seen = DOMAIN inv]
    /\ UNCHANGED db

\* Mutation: an expired invitation is not superseded.
SelectUnexpired(q) ==
    LET op == tx[q].op
        found == Pending(op.org, op.email) \ expired
    IN
    /\ At(q, "select")
    /\ \/ found = {} /\ tx' = [tx EXCEPT ![q].pc = "insert", ![q].seen = DOMAIN inv]
       \/ \E k \in found :
             \/ ~CanGrant(tx[q].role, inv[k].role) /\ Finish(q, "refused")
             \/ /\ CanGrant(tx[q].role, inv[k].role)
                /\ tx' = [tx EXCEPT ![q].pc = "delete", ![q].old = k, ![q].seen = DOMAIN inv]
    /\ UNCHANGED db

(* The transaction begins: the address's pending invitation, which the     *)
(* inviter must be able to have issued.                                    *)
SelectPending(q) ==
    LET op == tx[q].op
        found == Pending(op.org, op.email)
    IN
    /\ At(q, "select")
    /\ \/ found = {} /\ tx' = [tx EXCEPT ![q].pc = "insert", ![q].seen = DOMAIN inv]
       \/ \E k \in found :
             \/ ~CanGrant(tx[q].role, inv[k].role) /\ Finish(q, "refused")
             \/ /\ CanGrant(tx[q].role, inv[k].role)
                /\ tx' = [tx EXCEPT ![q].pc = "delete", ![q].old = k, ![q].seen = DOMAIN inv]
    /\ UNCHANGED db

(* DELETE ... WHERE id: waits for whoever is writing the row, then deletes *)
(* it in whatever state it is, or nothing if it is gone.                   *)
DeletePending(q) ==
    LET k == tx[q].old IN
    /\ At(q, "delete") /\ WaitsFor(q) = {}
    /\ tx' = [tx EXCEPT ![q].hit = k \in DOMAIN inv, ![q].pc = "insert"]
    /\ UNCHANGED db

NewRow(op, email) ==
    [role |-> op.role, org |-> op.org, by |-> op.by, email |-> email, accepted |-> FALSE]

\* Mutation: without the partial unique index.
InsertUnchecked(q) ==
    LET op == tx[q].op IN
    /\ At(q, "insert")
    /\ tx' = [tx EXCEPT ![q].pc = "commit", ![q].id = nextId,
                        ![q].row = NewRow(op, op.email)]
    /\ nextId' = nextId + 1
    /\ UNCHANGED <<member, inv, expired, tokens, audit, accepted>>

\* Mutation: the address is stored as it was typed, which is no user's.
InsertAsTyped(q) ==
    LET op == tx[q].op IN
    /\ At(q, "insert") /\ WaitsFor(q) = {} /\ Clash(q) = {}
    /\ tx' = [tx EXCEPT ![q].pc = "commit", ![q].id = nextId,
                        ![q].row = NewRow(op, NoOp)]
    /\ nextId' = nextId + 1
    /\ UNCHANGED <<member, inv, expired, tokens, audit, accepted>>

(* INSERT: waits for an open transaction that decides about the address,   *)
(* then collides with a pending invitation or takes an id.                 *)
InsertInvitation(q) ==
    LET op == tx[q].op IN
    /\ At(q, "insert") /\ WaitsFor(q) = {}
    /\ \/ Clash(q) # {} /\ Finish(q, "pending") /\ UNCHANGED nextId
       \/ /\ Clash(q) = {}
          /\ tx' = [tx EXCEPT ![q].pc = "commit", ![q].id = nextId,
                              ![q].row = NewRow(op, op.email)]
          /\ nextId' = nextId + 1
    /\ UNCHANGED <<member, inv, expired, tokens, audit, accepted>>

(* COMMIT of the delete, the insert and the audit event; the token goes to *)
(* the inviter unless the answer is lost.                                  *)
CommitInvite(q, outcome) ==
    LET t == tx[q]
        kept == DOMAIN inv \ (IF t.hit THEN {t.old} ELSE {})
    IN
    /\ At(q, "commit") /\ t.op.kind = "invite"
    /\ inv' = [k \in kept \cup {t.id} |-> IF k = t.id THEN t.row ELSE inv[k]]
    /\ audit' = audit \cup {<<t.op.org, t.op.by, t.op.email>>}
    /\ tokens' = IF outcome = "committed" THEN tokens \cup {t.id} ELSE tokens
    /\ Finish(q, outcome)
    /\ UNCHANGED <<member, nextId, expired, accepted>>

-----------------------------------------------------------------------------
(* AcceptInvitation.                                                       *)

(* SELECT by token, not accepted and not expired, without a lock; the      *)
(* address must be the caller's.                                           *)
Redeem(q) ==
    LET k == tx[q].op.token
        redeemable == k \in DOMAIN inv /\ ~inv[k].accepted /\ k \notin expired
                        /\ inv[k].email = tx[q].op.by
    IN
    /\ At(q, "redeem")
    /\ \/ ~redeemable /\ Finish(q, "refused")
       \/ redeemable /\ tx' = [tx EXCEPT ![q].pc = "join", ![q].old = k, ![q].row = inv[k]]
    /\ UNCHANGED db

(* INSERT of the member: waits for an open insert of the same member, then *)
(* collides with it or goes on.                                            *)
InsertMember(q) ==
    LET o == tx[q].row.org
        u == tx[q].op.by
    IN
    /\ At(q, "join") /\ WaitsFor(q) = {}
    /\ \/ RoleOf(o, u) # {} /\ Finish(q, "refused")
       \/ RoleOf(o, u) = {} /\ Goto(q, "mark")
    /\ UNCHANGED db

(* UPDATE ... SET accepted_at WHERE id: waits for whoever is writing the   *)
(* row; a row that is gone is not an error.                                *)
MarkAccepted(q) ==
    LET k == tx[q].old IN
    /\ At(q, "mark") /\ WaitsFor(q) = {}
    /\ tx' = [tx EXCEPT ![q].hit = k \in DOMAIN inv, ![q].pc = "commit"]
    /\ UNCHANGED db

CommitAccept(q, outcome) ==
    LET t == tx[q]
        marked == IF t.hit THEN {t.old} ELSE {}
    IN
    /\ At(q, "commit") /\ t.op.kind = "accept"
    /\ member' = member \cup {[role |-> t.row.role, org |-> t.row.org, user |-> t.op.by,
                               via |-> t.old]}
    /\ inv' = [k \in DOMAIN inv |->
                  IF k \in marked THEN [inv[k] EXCEPT !.accepted = TRUE] ELSE inv[k]]
    /\ accepted' = accepted \cup marked
    /\ Finish(q, outcome)
    /\ UNCHANGED <<nextId, expired, tokens, audit>>

(* A statement fails, the request is cancelled or the server dies: the     *)
(* transaction, if one is open, rolls back.                                *)
Abort(q) ==
    /\ tx[q].pc \notin {"idle", "done"}
    /\ Finish(q, "error")
    /\ UNCHANGED db

Quiesce ==
    /\ \A q \in Requests : At(q, "done")
    /\ UNCHANGED vars

Step(q) ==
    \/ AuthorizeGrant(q) \/ CheckNotMember(q) \/ SelectPending(q) \/ DeletePending(q)
    \/ InsertInvitation(q) \/ Redeem(q) \/ InsertMember(q) \/ MarkAccepted(q)
    \/ \E outcome \in {"committed", "error"} :
          CommitInvite(q, outcome) \/ CommitAccept(q, outcome)

Next ==
    \/ \E o \in Orgs, u \in Founders : CreateOrganization(o, u)
    \/ \E k \in DOMAIN inv : Expire(k)
    \/ \E q \in Requests :
          \/ \E op \in Invites(Grants) : Start(q, op, "authorize")
          \/ \E op \in Accepts(tokens) : Start(q, op, "redeem")
          \/ Step(q) \/ Abort(q)
    \/ Quiesce

Spec == Init /\ [][Next]_vars

-----------------------------------------------------------------------------
(* Properties.                                                             *)

TypeOK ==
    /\ member \subseteq Member
    /\ DOMAIN inv \subseteq InvIds /\ \A k \in DOMAIN inv : inv[k] \in Row
    /\ nextId \in InvIds
    /\ expired \subseteq InvIds /\ tokens \subseteq InvIds /\ accepted \subseteq InvIds
    /\ audit \subseteq Orgs \X Users \X Users
    /\ tx \in [Requests -> [pc : PCs, op : Ops \cup {NoOp}, role : Roles, old : Nat,
                           hit : BOOLEAN, row : Row \cup {NoRow}, id : Nat,
                           seen : SUBSET InvIds, outcome : Outcomes]]

(* Nobody is admitted above the standing of a member who could invite and   *)
(* is on record as having invited exactly that user: no chain of            *)
(* invitations, supersedes and stale reads makes an owner of an admin's     *)
(* guest.                                                                   *)
NoEscalation ==
    \A m \in member : m.via # NoInv =>
        \E g \in member : /\ g.org = m.org /\ g.role \in Inviters
                         /\ CanGrant(g.role, m.role)
                         /\ <<m.org, g.user, m.user>> \in audit

(* Concurrent redemptions admit once: a user has one seat in an             *)
(* organization, and a token admits one user.                               *)
AdmittedOnce ==
    \A m, n \in member :
        \/ m.org = n.org /\ m.user = n.user
        \/ m.via = n.via /\ m.via # NoInv
        => m = n

(* An address has at most one pending invitation in an organization, so at  *)
(* most one live token, however invites race.                               *)
OneLiveToken ==
    \A j, k \in DOMAIN inv :
        /\ inv[j].org = inv[k].org /\ inv[j].email = inv[k].email
        /\ ~inv[j].accepted /\ ~inv[k].accepted
        => j = k

(* Of all the tokens an address is ever sent one lives at a time, and each  *)
(* admits once at most.                                                     *)
OneTokenOneAdmission == AdmittedOnce /\ OneLiveToken

(* An invitation is superseded only by a member who could have issued it,   *)
(* although others may change the row between the look and the delete.      *)
SupersedeRespectsRank ==
    [][\A k \in DOMAIN inv \ DOMAIN inv' :
          \E q \in Requests, m \in member :
             /\ tx[q].old = k /\ m.org = inv[k].org /\ m.user = tx[q].op.by
             /\ m.role \in Inviters /\ CanGrant(m.role, inv[k].role)]_vars

(* "Already pending" is only ever the answer to a race: the invitation that *)
(* stood in the way was not there when the inviter looked, so a re-invite   *)
(* on its own always goes through, expired invitations included.            *)
PendingOnlyByRace ==
    [][\A q \in Requests : tx[q].outcome # "pending" /\ tx'[q].outcome = "pending" =>
          Pending(tx[q].op.org, tx[q].op.email) \ tx[q].seen # {}]_vars

(* The locks and index entries that invites and acceptances wait for never  *)
(* form a circle, and nobody waits for a request that is over: while any    *)
(* is unanswered, one of them can go on.                                    *)
SomeoneGoesOn ==
    LET open == {q \in Requests : tx[q].pc \notin {"idle", "done"}}
    IN  open # {} => \E q \in open : WaitsFor(q) = {}

(* models.go: accepted rows are exempt (from being superseded), "so history *)
(* is preserved".                                                           *)
AcceptedHistoryKept == accepted \subseteq DOMAIN inv
=============================================================================
