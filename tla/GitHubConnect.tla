---------------------------- MODULE GitHubConnect ----------------------------
(***************************************************************************)
(* Linking a user to a GitHub account                                      *)
(* (controlplane/internal/githubconnect/service.go).                       *)
(*                                                                         *)
(* Starting the flow stores a state bound to the user; the browser comes   *)
(* back from GitHub with a state and a code. The callback consumes the     *)
(* state in a transaction of its own, exchanges the code and stores the    *)
(* token. Callbacks run concurrently and may be repeated; a code belongs   *)
(* to whoever was logged in at GitHub, so nothing but the state ties it to *)
(* the user.                                                               *)
(***************************************************************************)
EXTENDS Naturals, FiniteSets

CONSTANTS Users,
          Calls,       \* callbacks that may run at one time
          MaxStates,   \* bound on the flows started
          NoState      \* no state, no connection

ASSUME ConnectAssumption ==
    /\ MaxStates \in Nat
    /\ NoState \notin Calls \cup 1..MaxStates

VARIABLES rows,        \* OAuthState: state -> [user, expired], for the stored ones
          minted,      \* how many states there have been
          call,        \* a callback: [pc, user, state]
          locked,      \* state -> the callback that holds its row
          conn,        \* Connection: user -> the state it was made with
          spent,       \* state -> how many connections were stored with it
          owner        \* state -> the user it was minted for

connectVars == <<rows, minted, call, locked, conn, spent, owner>>

States == 1..MaxStates
Free == [pc |-> "idle", user |-> NoState, state |-> NoState]
At(c, l) == call[c].pc = l
GoTo(c, l) == call' = [call EXCEPT ![c].pc = l]
EndCall(c) == call' = [call EXCEPT ![c] = Free]
Unlock(s) == locked' = [locked EXCEPT ![s] = NoState]
Delete(s) == rows' = [t \in DOMAIN rows \ {s} |-> rows[t]]

StartConnect(u) ==
    /\ minted < MaxStates
    /\ minted' = minted + 1
    /\ rows' = [s \in DOMAIN rows \cup {minted'} |->
                   IF s = minted' THEN [user |-> u, expired |-> FALSE] ELSE rows[s]]
    /\ owner' = [owner EXCEPT ![minted'] = u]
    /\ UNCHANGED <<call, locked, conn, spent>>

Expire(s) ==
    /\ s \in DOMAIN rows /\ ~rows[s].expired
    /\ rows' = [rows EXCEPT ![s].expired = TRUE]
    /\ UNCHANGED <<minted, call, locked, conn, spent, owner>>

\* A callback arrives in the session of u with a state anyone may have minted.
Callback(c, u, s) ==
    /\ At(c, "idle") /\ s <= minted
    /\ call' = [call EXCEPT ![c] = [pc |-> "consume", user |-> u, state |-> s]]
    /\ UNCHANGED <<rows, minted, locked, conn, spent, owner>>

\* Mutant: the row is read without FOR UPDATE.
lockStateNot(c) ==
    /\ At(c, "consume")
    /\ LET s == call[c].state
       IN  IF s \in DOMAIN rows /\ rows[s].user = call[c].user /\ ~rows[s].expired
           THEN GoTo(c, "delete") ELSE EndCall(c)
    /\ UNCHANGED <<rows, minted, locked, conn, spent, owner>>

\* SELECT ... FOR UPDATE, and the checks. A row that is gone, another user's or
\* expired ends the call; deleting the expired one is undone by the rollback.
lockState(c) ==
    /\ At(c, "consume")
    /\ LET s == call[c].state
       IN  IF s \notin DOMAIN rows THEN EndCall(c) /\ UNCHANGED locked
           ELSE /\ locked[s] = NoState
                /\ IF rows[s].user # call[c].user \/ rows[s].expired
                   THEN EndCall(c) /\ UNCHANGED locked
                   ELSE GoTo(c, "delete") /\ locked' = [locked EXCEPT ![s] = c]
    /\ UNCHANGED <<rows, minted, conn, spent, owner>>

\* The delete commits; or it is rolled back; or it commits and the answer is lost.
consumeState(c) ==
    /\ At(c, "delete")
    /\ Unlock(call[c].state)
    /\ \/ Delete(call[c].state) /\ GoTo(c, "exchange")
       \/ Delete(call[c].state) /\ EndCall(c)
       \/ UNCHANGED rows /\ EndCall(c)
    /\ UNCHANGED <<minted, conn, spent, owner>>

ExchangeCode(c) ==
    /\ At(c, "exchange")
    /\ GoTo(c, "store") \/ EndCall(c)
    /\ UNCHANGED <<rows, minted, locked, conn, spent, owner>>

\* One connection per user: the last one stored stands.
CompleteConnect(c) ==
    /\ At(c, "store")
    /\ LET s == call[c].state
       IN  \/ /\ conn' = [conn EXCEPT ![call[c].user] = s]
              /\ spent' = [spent EXCEPT ![s] = @ + 1]
           \/ UNCHANGED <<conn, spent>>
    /\ EndCall(c)
    /\ UNCHANGED <<rows, minted, locked, owner>>

ConnectInit ==
    /\ rows = [s \in {} |-> Free] /\ minted = 0
    /\ call = [c \in Calls |-> Free]
    /\ locked = [s \in States |-> NoState]
    /\ conn = [u \in Users |-> NoState]
    /\ spent = [s \in States |-> 0]
    /\ owner = [s \in States |-> NoState]

ConnectNext ==
    \/ \E u \in Users : StartConnect(u)
    \/ \E s \in States : Expire(s)
    \/ \E c \in Calls :
          \/ \E u \in Users, s \in States : Callback(c, u, s)
          \/ lockState(c) \/ consumeState(c) \/ ExchangeCode(c) \/ CompleteConnect(c)

ConnectSpec == ConnectInit /\ [][ConnectNext]_connectVars

----------------------------------------------------------------------------
\* A connection comes from a flow its own user started, and no flow makes two,
\* however often and however concurrently its callback is called (CompleteConnect's
\* comment; the row lock in consumeState).
ConnectedByOwnFlow ==
    /\ \A u \in Users : conn[u] # NoState => owner[conn[u]] = u
    /\ \A s \in States : spent[s] <= 1
=============================================================================
