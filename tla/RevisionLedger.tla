---------------------------- MODULE RevisionLedger ----------------------------
(***************************************************************************)
(* What the revision store promises its readers: per project, an           *)
(* append-only chain.  One step appends one immutable, valid revision      *)
(* whose parent is the project's tip, and moves the tip to it.             *)
(***************************************************************************)
EXTENDS Naturals

CONSTANTS Projects, ProjectSpecs, Valid(_)

VARIABLES tip, node

ledger == <<tip, node>>

Init ==
    /\ tip = [p \in Projects |-> 0]
    /\ node = [k \in {} |-> 0]

Append(id) ==
    /\ id \notin DOMAIN node
    /\ DOMAIN node' = DOMAIN node \cup {id}
    /\ \A k \in DOMAIN node : node'[k] = node[k]
    /\ LET new == node'[id] IN
       /\ new.project \in Projects
       /\ new.parent = tip[new.project]
       /\ new.spec \in ProjectSpecs /\ Valid(new.spec)
       /\ tip' = [tip EXCEPT ![new.project] = id]

Next == \E id \in DOMAIN node' : Append(id)

Spec == Init /\ [][Next]_ledger
=============================================================================
