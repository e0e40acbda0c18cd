-------------------------- MODULE IntegrationsProofs --------------------------
(***************************************************************************)
(* What the control plane does with Cloud and with GitHub: StaysInProject  *)
(* and PreviewAnswers for any projects, names, requests and bounds, and    *)
(* ConnectedByOwnFlow for any users, callbacks and number of flows.        *)
(***************************************************************************)
EXTENDS CloudEnvironments, GitHubConnect, TLAPS

-----------------------------------------------------------------------------
(* Cloud. What a request has checked stays true until its call although    *)
(* environments come and go: an environment never changes its project, and *)
(* a deployment never its environment.                                     *)


Positions == {"idle", "head", "create", "find", "list", "call", "logs"} \cup Ended
AnyName == EnvNames \cup {PreviewName(r) : r \in 1..LastRev}
Environment == [project : Projects, name : AnyName, rev : 0..LastRev, chosen : BOOLEAN,
                alive : BOOLEAN]
Deployment == [env : Nat, project : Projects, build : Projects]
Request == [op : {"none", "preview", "write", "read"}, pc : Positions,
            project : Projects \cup {Nobody}, name : AnyName \cup {Nobody}, named : BOOLEAN,
            rev : 0..LastRev, env : Nat, deployment : Nat, raced : BOOLEAN]

ShapeOK ==
    /\ head \in [Projects -> 0..LastRev]
    /\ envs \in Seq(Environment)
    /\ deployments \in Seq(Deployment)
    /\ req \in [Requests -> Request]

\* A deployment is in an environment of the project it was asked on.
DeployedInside(E, D) ==
    \A d \in DOMAIN D : D[d].env \in DOMAIN E /\ E[D[d].env].project = D[d].project

\* What a request knows of the environment and the deployment it names.
Knows(r, E, D) ==
    /\ r.pc # "idle" => r.project \in Projects
    /\ r.pc = "create" \/ (r.pc = "head" /\ r.named) => r.name \in AnyName
    /\ r.pc = "list" => r.env \in DOMAIN E
    /\ r.pc = "call" => r.env \in DOMAIN E /\ E[r.env].project = r.project
    /\ r.pc \in {"logs", "answered"} =>
          r.deployment \in DOMAIN D /\ E[D[r.deployment].env].project = r.project

CloudInv ==
    /\ ShapeOK
    /\ DeployedInside(envs, deployments)
    /\ \A q \in Requests : Knows(req[q], envs, deployments)

\* Environments and deployments are only ever added.
Grows(E, F) == DOMAIN E \subseteq DOMAIN F /\ \A e \in DOMAIN E : F[e].project = E[e].project
GrowsBy(D, G) == DOMAIN D \subseteq DOMAIN G /\ \A d \in DOMAIN D : G[d] = D[d]

LEMMA StillKnows ==
    ASSUME NEW r, NEW E, NEW D, NEW F, NEW G,
           Knows(r, E, D), DeployedInside(E, D), Grows(E, F), GrowsBy(D, G)
    PROVE  Knows(r, F, G)
BY DEF Knows, DeployedInside, Grows, GrowsBy

LEMMA AppendFields ==
    ASSUME NEW S, NEW s \in Seq(S), NEW x \in S
    PROVE  /\ Append(s, x) \in Seq(S)
           /\ DOMAIN Append(s, x) = DOMAIN s \cup {Len(s) + 1}
           /\ \A i \in DOMAIN s : Append(s, x)[i] = s[i]
           /\ Append(s, x)[Len(s) + 1] = x
           /\ Len(s) + 1 \notin DOMAIN s
OBVIOUS

LEMMA IdleRequest ==
    ASSUME NEW E, NEW D
    PROVE  Idle \in Request /\ Knows(Idle, E, D)
BY CloudAssumption DEF Idle, Request, Positions, Knows, Ended

\* Only q's request changes, to what has the shape of one.
Serving(q) ==
    /\ req' \in [Requests -> Request]
    /\ \A o \in Requests \ {q} : req'[o] = req[o]
SameTarget(q) ==
    /\ req'[q].project = req[q].project
    /\ req'[q].env = req[q].env
    /\ req'[q].deployment = req[q].deployment

\* A request whose position, revision or name is set is a request with that one
\* field changed.
LEMMA PcSet ==
    ASSUME NEW r \in Request, NEW l \in Positions
    PROVE  LET t == [r EXCEPT !.pc = l]
           IN  /\ t \in Request /\ t.pc = l
               /\ t.project = r.project /\ t.env = r.env /\ t.deployment = r.deployment
               /\ t.name = r.name /\ t.named = r.named /\ t.raced = r.raced
BY DEF Request

LEMMA RevSet ==
    ASSUME NEW r \in Request, NEW v \in 0..LastRev
    PROVE  LET t == [r EXCEPT !.rev = v]
           IN  /\ t \in Request /\ t.rev = v /\ t.pc = r.pc /\ t.project = r.project
               /\ t.name = r.name /\ t.named = r.named /\ t.raced = r.raced
BY DEF Request

LEMMA NameSet ==
    ASSUME NEW r \in Request, NEW n \in AnyName
    PROVE  LET t == [r EXCEPT !.name = n]
           IN  /\ t \in Request /\ t.pc = r.pc /\ t.project = r.project /\ t.name = n
               /\ t.rev = r.rev /\ t.named = r.named
BY DEF Request

LEMMA RacedSet ==
    ASSUME NEW r \in Request, NEW b \in BOOLEAN
    PROVE  LET t == [r EXCEPT !.raced = b]
           IN  /\ t \in Request /\ t.raced = b /\ t.pc = r.pc /\ t.project = r.project
               /\ t.name = r.name /\ t.named = r.named /\ t.rev = r.rev /\ t.env = r.env
BY DEF Request

LEMMA EnvSet ==
    ASSUME NEW r \in Request, NEW e \in Nat
    PROVE  LET t == [r EXCEPT !.env = e]
           IN  /\ t \in Request /\ t.env = e /\ t.pc = r.pc /\ t.project = r.project
               /\ t.name = r.name /\ t.named = r.named
BY DEF Request

LEMMA Steps ==
    ASSUME ShapeOK, NEW q \in Requests, NEW l \in Positions, Step(q, l)
    PROVE  Serving(q) /\ SameTarget(q) /\ req'[q].pc = l
<1>1. req' = [req EXCEPT ![q] = [req[q] EXCEPT !.pc = l]]
  BY DEF Step, ShapeOK
<1>2. req[q] \in Request  BY DEF ShapeOK
<1>3. /\ [req[q] EXCEPT !.pc = l] \in Request
      /\ [req[q] EXCEPT !.pc = l].pc = l
      /\ [req[q] EXCEPT !.pc = l].project = req[q].project
      /\ [req[q] EXCEPT !.pc = l].env = req[q].env
      /\ [req[q] EXCEPT !.pc = l].deployment = req[q].deployment
  BY <1>2, PcSet
<1> QED BY <1>1, <1>3 DEF Serving, SameTarget, ShapeOK

LEMMA Ends ==
    ASSUME ShapeOK, NEW q \in Requests, End(q), NEW E, NEW D
    PROVE  Serving(q) /\ Knows(req'[q], E, D)
BY IdleRequest DEF End, Serving, ShapeOK

\* A step of a request that leaves no other request with less than it knew.
LEMMA Served ==
    ASSUME CloudInv, NEW q \in Requests, Serving(q), head' = head,
           envs' \in Seq(Environment), deployments' \in Seq(Deployment),
           Grows(envs, envs'), GrowsBy(deployments, deployments'),
           DeployedInside(envs', deployments'), Knows(req'[q], envs', deployments')
    PROVE  CloudInv'
<1>1. \A o \in Requests : Knows(req'[o], envs', deployments')
  BY StillKnows DEF CloudInv, Serving
<1> QED BY <1>1 DEF CloudInv, ShapeOK, Serving

\* The same when Cloud holds what it held.
LEMMA ServedQuietly ==
    ASSUME CloudInv, NEW q \in Requests, Serving(q), UNCHANGED <<head, envs, deployments>>,
           Knows(req'[q], envs, deployments)
    PROVE  CloudInv'
BY Served DEF CloudInv, ShapeOK, Grows, GrowsBy

LEMMA Answers ==
    ASSUME ShapeOK, NEW q \in Requests, NEW e \in Nat, AnswerEnv(q, e), NEW E, NEW D,
           req[q].project \in Projects
    PROVE  Serving(q) /\ Knows(req'[q], E, D)
<1>1. req[q] \in Request  BY DEF ShapeOK
<1> DEFINE t == [[req[q] EXCEPT !.pc = "environment"] EXCEPT !.env = e]
<1>2. req' = [req EXCEPT ![q] = t]
  BY <1>1 DEF AnswerEnv, ShapeOK
<1>3. t \in Request /\ t.pc = "environment" /\ t.project = req[q].project
  BY <1>1 DEF Request, Positions, Ended
<1> HIDE DEF t
<1> QED BY <1>2, <1>3 DEF Serving, ShapeOK, Knows

\* A preview's request learns the revision, and has a name from then on.
LEMMA ReadsHead ==
    ASSUME CloudInv, NEW q \in Requests, readHead(q)
    PROVE  CloudInv'
<1>1. /\ UNCHANGED <<head, envs, deployments>>  /\ req[q].pc = "head"
      /\ ShapeOK /\ req[q] \in Request /\ req[q].project \in Projects
      /\ req[q].named => req[q].name \in AnyName
  BY DEF readHead, CloudInv, ShapeOK, Knows
<1> DEFINE rev == head[req[q].project]
           n == IF req[q].named THEN req[q].name ELSE PreviewName(rev)
           t == [[[req[q] EXCEPT !.pc = "create"] EXCEPT !.rev = rev] EXCEPT !.name = n]
<1>2. CASE End(q)
  BY <1>1, <1>2, Ends, ServedQuietly
<1>3. CASE rev # 0 /\ req' = [req EXCEPT ![q] = t]
  <2>1. rev \in 1..LastRev  BY <1>1, <1>3, CloudAssumption DEF ShapeOK
  <2>2. n \in AnyName  BY <1>1, <2>1 DEF AnyName
  <2> HIDE DEF n, rev
  <2> DEFINE a == [req[q] EXCEPT !.pc = "create"]
             b == [a EXCEPT !.rev = rev]
  <2>a. a \in Request /\ a.pc = "create" /\ a.project = req[q].project
    BY <1>1, PcSet DEF Positions
  <2> HIDE DEF a
  <2>b. b \in Request /\ b.pc = "create" /\ b.project = req[q].project
    BY <2>1, <2>a, RevSet, 1..LastRev \subseteq 0..LastRev
  <2> HIDE DEF b
  <2>c. [b EXCEPT !.name = n] \in Request /\ [b EXCEPT !.name = n].pc = "create"
        /\ [b EXCEPT !.name = n].name = n /\ [b EXCEPT !.name = n].project = req[q].project
    BY <2>2, <2>b, NameSet
  <2>d. t = [b EXCEPT !.name = n]  BY DEF a, b
  <2>3. t \in Request /\ t.pc = "create" /\ t.name = n /\ t.project = req[q].project
    BY <2>c, <2>d
  <2> HIDE DEF t
  <2>4. Serving(q) /\ Knows(req'[q], envs, deployments)
    BY <1>1, <1>3, <2>2, <2>3 DEF Serving, ShapeOK, Knows, Ended
  <2> QED BY <1>1, <2>4, ServedQuietly
<1>4. End(q) \/ (rev # 0 /\ req' = [req EXCEPT ![q] = t])
  BY <1>1 DEF readHead, ShapeOK
<1> QED BY <1>2, <1>3, <1>4

\* Cloud makes one more environment: what it had stays where it is.
LEMMA EnvironmentAdded ==
    ASSUME CloudInv, NEW x \in Environment, envs' = Append(envs, x), UNCHANGED deployments
    PROVE  /\ envs' \in Seq(Environment) /\ deployments' \in Seq(Deployment)
           /\ Grows(envs, envs') /\ GrowsBy(deployments, deployments')
           /\ DeployedInside(envs', deployments') /\ Len(envs') \in Nat
BY AppendFields DEF CloudInv, ShapeOK, Grows, GrowsBy, DeployedInside

\* And one more deployment, of an environment of the project.
LEMMA DeploymentAdded ==
    ASSUME CloudInv, NEW e \in DOMAIN envs, NEW p \in Projects, envs[e].project = p,
           NEW b \in Projects, UNCHANGED envs,
           deployments' = Append(deployments, [env |-> e, project |-> p, build |-> b])
    PROVE  /\ envs' \in Seq(Environment) /\ deployments' \in Seq(Deployment)
           /\ Grows(envs, envs') /\ GrowsBy(deployments, deployments')
           /\ DeployedInside(envs', deployments')
<1>1. [env |-> e, project |-> p, build |-> b] \in Deployment
  BY DEF CloudInv, ShapeOK, Deployment
<1> QED BY <1>1, AppendFields DEF CloudInv, ShapeOK, Grows, GrowsBy, DeployedInside

LEMMA CreatesPreview ==
    ASSUME CloudInv, NEW q \in Requests, createPreviewEnvironment(q)
    PROVE  CloudInv'
<1>1. /\ UNCHANGED <<head, deployments>>  /\ req[q].pc = "create"
      /\ ShapeOK /\ req[q] \in Request /\ req[q].project \in Projects
      /\ req[q].name \in AnyName
  BY DEF createPreviewEnvironment, CloudInv, ShapeOK, Knows
<1> DEFINE r == req[q]
           x == [project |-> r.project, name |-> r.name, rev |-> r.rev,
                 chosen |-> r.named, alive |-> TRUE]
           t == [[r EXCEPT !.pc = "find"] EXCEPT !.rev = 0]
<1>2. x \in Environment  BY <1>1 DEF Request, Environment
<1>3. CASE UNCHANGED envs /\ req' = [req EXCEPT ![q] = t]
  <2> DEFINE a == [r EXCEPT !.pc = "find"]
  <2>a. a \in Request /\ a.pc = "find" /\ a.project = req[q].project
    BY <1>1, PcSet DEF Positions
  <2>b. t = [a EXCEPT !.rev = 0] /\ 0 \in 0..LastRev  BY CloudAssumption
  <2> HIDE DEF a
  <2>1. t \in Request /\ t.pc = "find" /\ t.project = req[q].project
    BY <2>a, <2>b, RevSet
  <2> HIDE DEF t
  <2> QED BY <1>1, <1>3, <2>1, ServedQuietly DEF Serving, ShapeOK, Knows, Ended
<1>4. CASE envs' = Append(envs, x) /\ AnswerEnv(q, Len(envs'))
  <2> HIDE DEF x
  <2> QED BY <1>1, <1>2, <1>4, EnvironmentAdded, Answers, Served
<1>5. CASE envs' = Append(envs, x) /\ End(q)
  <2> HIDE DEF x
  <2> QED BY <1>1, <1>2, <1>5, EnvironmentAdded, Ends, Served
<1>6. CASE UNCHANGED envs /\ End(q)
  BY <1>1, <1>6, Ends, ServedQuietly
<1> QED BY <1>3, <1>4, <1>5, <1>6, <1>1 DEF createPreviewEnvironment, ShapeOK

LEMMA FindsEnvironment ==
    ASSUME CloudInv, NEW q \in Requests, findEnvironmentByName(q)
    PROVE  CloudInv'
<1>1. /\ UNCHANGED <<head, envs, deployments>>  /\ req[q].pc = "find"
      /\ ShapeOK /\ req[q] \in Request /\ req[q].project \in Projects
  BY DEF findEnvironmentByName, CloudInv, ShapeOK, Knows
<1> DEFINE t == [[req[q] EXCEPT !.pc = "conflict"] EXCEPT !.raced = TRUE]
<1>2. CASE \E e \in Taken(req[q].project, req[q].name) : AnswerEnv(q, e)
  <2>1. PICK e \in Nat : AnswerEnv(q, e)  BY <1>1, <1>2 DEF Taken, ShapeOK
  <2> QED BY <1>1, <2>1, Answers, ServedQuietly
<1>3. CASE Step(q, "conflict")
  <2>1. Serving(q) /\ SameTarget(q) /\ req'[q].pc = "conflict"
    BY <1>1, <1>3, Steps DEF Positions, Ended
  <2> QED BY <1>1, <2>1, ServedQuietly DEF SameTarget, Knows
<1>4. CASE req' = [req EXCEPT ![q] = t]
  <2>1. t \in Request /\ t.pc = "conflict" /\ t.project = req[q].project
    BY <1>1 DEF Request, Positions, Ended
  <2> HIDE DEF t
  <2> QED BY <1>1, <1>4, <2>1, ServedQuietly DEF Serving, ShapeOK, Knows
<1> QED BY <1>1, <1>2, <1>3, <1>4 DEF findEnvironmentByName, ShapeOK

\* A checked request calls Cloud: for its own project's environment.
LEMMA CallsCloud ==
    ASSUME CloudInv, NEW q \in Requests,
           authorizedEnv(q) \/ createDeployment(q) \/ rollback(q)
    PROVE  CloudInv'
<1>1. ShapeOK /\ req[q] \in Request /\ Knows(req[q], envs, deployments)
  BY DEF CloudInv, ShapeOK
<1>2. CASE authorizedEnv(q)
  <2>1. /\ req[q].pc = "list" /\ UNCHANGED <<head, envs, deployments>>
        /\ End(q) \/ (envs[req[q].env].project = req[q].project /\ Step(q, "call"))
    BY <1>2 DEF authorizedEnv
  <2>2. CASE End(q)  BY <1>1, <2>1, <2>2, Ends, ServedQuietly
  <2>3. CASE envs[req[q].env].project = req[q].project /\ Step(q, "call")
    <3>1. Serving(q) /\ SameTarget(q) /\ req'[q].pc = "call"
      BY <1>1, <2>3, Steps DEF Positions
    <3> QED BY <1>1, <2>1, <2>3, <3>1, ServedQuietly DEF SameTarget, Knows
  <2> QED BY <2>1, <2>2, <2>3
<1>3. CASE createDeployment(q) \/ rollback(q)
  <2>1. /\ req[q].pc = "call" /\ UNCHANGED <<head, envs>> /\ End(q)
        /\ UNCHANGED deployments \/ \E b \in Projects : Deploy(q, b)
    <3>1. \A d \in Deployed(req[q].env) : deployments[d].build \in Projects
      <4>1. \A d \in DOMAIN deployments : deployments[d] \in Deployment  BY <1>1 DEF ShapeOK
      <4>2. Deployed(req[q].env) \subseteq DOMAIN deployments  BY DEF Deployed
      <4> QED BY <4>1, <4>2 DEF Deployment
    <3> QED BY <1>3, <3>1 DEF createDeployment, rollback
  <2>2. /\ req[q].env \in DOMAIN envs /\ req[q].project \in Projects
        /\ envs[req[q].env].project = req[q].project
    BY <1>1, <2>1 DEF Knows
  <2>3. CASE UNCHANGED deployments
    BY <1>1, <2>1, <2>3, Ends, ServedQuietly
  <2>4. ASSUME NEW b \in Projects, Deploy(q, b) PROVE CloudInv'
    <3>1. /\ envs' \in Seq(Environment) /\ deployments' \in Seq(Deployment)
          /\ Grows(envs, envs') /\ GrowsBy(deployments, deployments')
          /\ DeployedInside(envs', deployments')
      BY <2>1, <2>2, <2>4, DeploymentAdded DEF Deploy
    <3> QED BY <1>1, <2>1, <3>1, Ends, Served
  <2> QED BY <2>1, <2>3, <2>4
<1> QED BY <1>2, <1>3

\* What is read of a deployment was found in the request's own environment.
LEMMA Reads ==
    ASSUME CloudInv, NEW q \in Requests,
           getDeployment(q) \/ deploymentLogs(q) \/ Finish(q)
    PROVE  CloudInv'
<1>1. /\ ShapeOK /\ req[q] \in Request /\ Knows(req[q], envs, deployments)
      /\ UNCHANGED <<head, envs, deployments>>
  BY DEF CloudInv, ShapeOK, getDeployment, deploymentLogs, Finish
<1>2. CASE End(q)  BY <1>1, <1>2, Ends, ServedQuietly
<1>3. ASSUME NEW l \in {"logs", "answered"}, Step(q, l),
             req[q].pc = "logs" \/ (req[q].pc = "call" /\ req[q].deployment \in Deployed(req[q].env))
      PROVE CloudInv'
  <2>1. Serving(q) /\ SameTarget(q) /\ req'[q].pc = l
    BY <1>1, <1>3, Steps DEF Positions, Ended
  <2>2. /\ req[q].project \in Projects
        /\ req[q].deployment \in DOMAIN deployments
        /\ envs[deployments[req[q].deployment].env].project = req[q].project
    BY <1>1, <1>3 DEF Knows, Deployed
  <2> QED BY <1>1, <2>1, <2>2, ServedQuietly DEF SameTarget, Knows
<1> QED BY <1>2, <1>3 DEF getDeployment, deploymentLogs, Finish

\* The request a caller begins with, one field after the other.
LEMMA NewRequest ==
    ASSUME NEW p \in Projects, NEW o \in {"preview", "write", "read"},
           NEW l \in {"head", "list"}
    PROVE  LET t == [Idle EXCEPT !.op = o, !.pc = l, !.project = p]
           IN  t \in Request /\ t.pc = l /\ t.project = p /\ t.named = FALSE
<1> DEFINE a == [Idle EXCEPT !.op = o]
           b == [a EXCEPT !.pc = l]
           t == [b EXCEPT !.project = p]
<1>1. Idle \in Request /\ Idle.named = FALSE  BY IdleRequest DEF Idle
<1>2. a \in Request /\ a.named = FALSE  BY <1>1 DEF Request
<1>3. [Idle EXCEPT !.op = o, !.pc = l, !.project = p] = t  OBVIOUS
<1> HIDE DEF a
<1>4. b \in Request /\ b.named = FALSE /\ b.pc = l  BY <1>2 DEF Request, Positions
<1> HIDE DEF b
<1>5. t \in Request /\ t.named = FALSE /\ t.pc = l /\ t.project = p  BY <1>4 DEF Request
<1> QED BY <1>3, <1>5

LEMMA NewNamed ==
    ASSUME NEW r \in Request, NEW n \in EnvNames
    PROVE  LET t == [r EXCEPT !.name = n, !.named = TRUE]
           IN  t \in Request /\ t.pc = r.pc /\ t.project = r.project /\ t.name \in AnyName
<1> DEFINE a == [r EXCEPT !.name = n]
           t == [a EXCEPT !.named = TRUE]
<1>1. a \in Request /\ a.pc = r.pc /\ a.project = r.project /\ a.name \in AnyName
  BY NameSet DEF AnyName
<1>2. [r EXCEPT !.name = n, !.named = TRUE] = t  OBVIOUS
<1> HIDE DEF a
<1>3. t \in Request /\ t.pc = r.pc /\ t.project = r.project /\ t.name \in AnyName
  BY <1>1 DEF Request
<1> QED BY <1>2, <1>3

LEMMA NewOn ==
    ASSUME NEW r \in Request, NEW e \in Nat
    PROVE  LET t == [r EXCEPT !.env = e]
           IN  t \in Request /\ t.pc = r.pc /\ t.project = r.project /\ t.env = e
BY DEF Request

\* A new request knows no more than its project and what the caller named.
LEMMA Begins ==
    ASSUME CloudInv, NEW q \in Requests, Begin(q)
    PROVE  CloudInv'
<1>0. ShapeOK  BY DEF CloudInv
<1>1. ASSUME NEW t \in Request, loadAuthorized(q, t), Knows(t, envs, deployments)
      PROVE CloudInv'
  BY <1>0, <1>1, ServedQuietly DEF loadAuthorized, Serving, ShapeOK
<1> DEFINE base(p, o, l) == [Idle EXCEPT !.op = o, !.pc = l, !.project = p]
<1>2. PICK p \in Projects :
        \/ loadAuthorized(q, base(p, "preview", "head"))
        \/ \E n \in EnvNames : loadAuthorized(q,
              [base(p, "preview", "head") EXCEPT !.name = n, !.named = TRUE])
        \/ \E e \in DOMAIN envs : loadAuthorized(q, [base(p, "write", "list") EXCEPT !.env = e])
        \/ \E e \in DOMAIN envs, d \in DOMAIN deployments :
              loadAuthorized(q, [base(p, "read", "list") EXCEPT !.env = e, !.deployment = d])
  BY Zenon DEF Begin
<1>3. /\ base(p, "preview", "head") \in Request /\ base(p, "preview", "head").pc = "head"
      /\ base(p, "preview", "head").project = p /\ base(p, "preview", "head").named = FALSE
      /\ base(p, "write", "list") \in Request /\ base(p, "write", "list").pc = "list"
      /\ base(p, "write", "list").project = p
      /\ base(p, "read", "list") \in Request /\ base(p, "read", "list").pc = "list"
      /\ base(p, "read", "list").project = p
  BY NewRequest
<1> HIDE DEF base
<1>4. CASE loadAuthorized(q, base(p, "preview", "head"))
  <2>1. Knows(base(p, "preview", "head"), envs, deployments)  BY <1>3 DEF Knows
  <2> QED BY <1>1, <1>3, <1>4, <2>1
<1>5. ASSUME NEW n \in EnvNames,
             loadAuthorized(q, [base(p, "preview", "head") EXCEPT !.name = n, !.named = TRUE])
      PROVE CloudInv'
  <2> DEFINE t == [base(p, "preview", "head") EXCEPT !.name = n, !.named = TRUE]
  <2>1. t \in Request /\ t.pc = "head" /\ t.project = p /\ t.name \in AnyName
    BY <1>3, NewNamed
  <2>2. loadAuthorized(q, t)  BY <1>5
  <2> HIDE DEF t
  <2> QED BY <1>1, <2>1, <2>2 DEF Knows
<1>6. ASSUME NEW e \in DOMAIN envs, loadAuthorized(q, [base(p, "write", "list") EXCEPT !.env = e])
      PROVE CloudInv'
  <2> DEFINE t == [base(p, "write", "list") EXCEPT !.env = e]
  <2>1. e \in Nat  BY <1>0 DEF ShapeOK
  <2>2. t \in Request /\ t.pc = "list" /\ t.project = p /\ t.env = e  BY <1>3, <2>1, NewOn
  <2>3. loadAuthorized(q, t)  BY <1>6
  <2> HIDE DEF t
  <2> QED BY <1>1, <2>2, <2>3 DEF Knows
<1>7. ASSUME NEW e \in DOMAIN envs, NEW d \in DOMAIN deployments,
             loadAuthorized(q, [base(p, "read", "list") EXCEPT !.env = e, !.deployment = d])
      PROVE CloudInv'
  <2> DEFINE r == base(p, "read", "list")
             t == [r EXCEPT !.env = e, !.deployment = d]
  <2>1. e \in Nat /\ d \in Nat  BY <1>0 DEF ShapeOK
  <2>a. r \in Request /\ r.pc = "list" /\ r.project = p  BY <1>3
  <2>b. loadAuthorized(q, t)  BY <1>7
  <2> HIDE DEF r
  <2> DEFINE n == [r EXCEPT !.env = e]
  <2>c. n \in Request /\ n.pc = "list" /\ n.project = p /\ n.env = e  BY <2>1, <2>a, NewOn
  <2>d. t = [n EXCEPT !.deployment = d]  OBVIOUS
  <2> HIDE DEF n, t
  <2>2. t \in Request /\ t.pc = "list" /\ t.project = p /\ t.env = e
    BY <2>1, <2>c, <2>d DEF Request
  <2> QED BY <1>1, <2>b, <2>2 DEF Knows
<1> QED BY <1>2, <1>4, <1>5, <1>6, <1>7

\* What happens beside the requests takes nothing from what they know.
LEMMA Meanwhile ==
    ASSUME CloudInv, UNCHANGED deployments, Grows(envs, envs'),
           envs' \in Seq(Environment), head' \in [Projects -> 0..LastRev],
           req' \in [Requests -> Request],
           \A q \in Requests : \A f \in {"pc", "project", "name", "named", "env", "deployment"} :
               req'[q][f] = req[q][f]
    PROVE  CloudInv'
<1>1. DeployedInside(envs', deployments')  BY DEF CloudInv, DeployedInside, Grows
<1>2. \A q \in Requests : Knows(req[q], envs', deployments')
  BY StillKnows DEF CloudInv, GrowsBy
<1>3. \A q \in Requests : Knows(req'[q], envs', deployments')
  BY <1>2 DEF Knows
<1> QED BY <1>1, <1>3 DEF CloudInv, ShapeOK

LEMMA Removes ==
    ASSUME CloudInv, NEW e \in DOMAIN envs, CloudRemoves(e)
    PROVE  CloudInv'
<1>0. ShapeOK /\ UNCHANGED <<head, deployments>>  BY DEF CloudInv, CloudRemoves
<1>1. envs[e] \in Environment /\ envs' = [envs EXCEPT ![e] = [envs[e] EXCEPT !.alive = FALSE]]
  BY <1>0 DEF ShapeOK, CloudRemoves
<1>2. [envs[e] EXCEPT !.alive = FALSE] \in Environment
      /\ [envs[e] EXCEPT !.alive = FALSE].project = envs[e].project
  BY <1>1 DEF Environment
<1>3. envs' \in Seq(Environment) /\ Grows(envs, envs')
  BY <1>0, <1>1, <1>2 DEF ShapeOK, Grows
<1> DEFINE b(q) == req[q].raced \/ (req[q].pc = "find" /\ req[q].project = envs[e].project
                                     /\ req[q].name = envs[e].name)
           t(q) == [req[q] EXCEPT !.raced = b(q)]
<1>4. req' = [q \in Requests |-> t(q)]  BY <1>0 DEF CloudRemoves, ShapeOK
<1>5. ASSUME NEW q \in Requests
      PROVE  /\ t(q) \in Request
             /\ \A f \in {"pc", "project", "name", "named", "env", "deployment"} :
                   t(q)[f] = req[q][f]
  <2>1. req[q] \in Request /\ b(q) \in BOOLEAN  BY <1>0 DEF ShapeOK
  <2> HIDE DEF b
  <2> QED BY <2>1 DEF Request
<1> HIDE DEF t
<1>6. req' \in [Requests -> Request]  BY <1>4, <1>5
<1>7. \A q \in Requests : \A f \in {"pc", "project", "name", "named", "env", "deployment"} :
          req'[q][f] = req[q][f]
  BY <1>4, <1>5
<1> QED BY <1>0, <1>3, <1>6, <1>7, Meanwhile DEF ShapeOK

LEMMA CloudInit == ASSUME Init PROVE CloudInv
<1>1. ShapeOK  BY IdleRequest, CloudAssumption DEF Init, ShapeOK
<1>2. \A q \in Requests : Knows(req[q], envs, deployments)  BY IdleRequest DEF Init
<1>3. DeployedInside(envs, deployments)  BY DEF Init, DeployedInside
<1> QED BY <1>1, <1>2, <1>3 DEF CloudInv

\* No step of the routes, of Cloud or of the editors breaks it.
LEMMA CloudNext ==
    ASSUME CloudInv, [Next]_cloudVars PROVE CloudInv'
<1>0. ShapeOK  BY DEF CloudInv
<1>1. CASE UNCHANGED cloudVars
  BY <1>1 DEF cloudVars, CloudInv, ShapeOK, DeployedInside, Knows
<1>2. ASSUME NEW q \in Requests, Begin(q) \/ Serve(q) PROVE CloudInv'
  BY <1>2, Begins, ReadsHead, CreatesPreview, FindsEnvironment, CallsCloud, Reads DEF Serve
<1>3. ASSUME NEW p \in Projects, Edit(p) PROVE CloudInv'
  <2>1. head' \in [Projects -> 0..LastRev] /\ UNCHANGED <<envs, deployments, req>>
    BY <1>0, <1>3, CloudAssumption DEF Edit, ShapeOK
  <2> QED BY <1>0, <2>1, Meanwhile DEF ShapeOK, Grows
<1>4. ASSUME NEW p \in Projects, NEW n \in EnvNames, CloudCreates(p, n) PROVE CloudInv'
  <2> DEFINE x == [project |-> p, name |-> n, rev |-> 0, chosen |-> TRUE, alive |-> TRUE]
  <2>1. x \in Environment  BY CloudAssumption DEF Environment, AnyName
  <2>2. envs' = Append(envs, x) /\ UNCHANGED <<head, deployments, req>>
    BY <1>4 DEF CloudCreates
  <2> HIDE DEF x
  <2> QED BY <1>0, <2>1, <2>2, EnvironmentAdded, Meanwhile DEF ShapeOK
<1>5. ASSUME NEW e \in DOMAIN envs, CloudRemoves(e) PROVE CloudInv'
  BY <1>5, Removes
<1> QED BY <1>1, <1>2, <1>3, <1>4, <1>5 DEF Next

\* Whatever environment and deployment a request names, and whatever comes and goes
\* between its check and its call: deployments and rollbacks are in environments of
\* the project they were asked on, and what is answered of a deployment is of one in
\* them (authorizedEnv and deploymentLogs in controlplane/internal/cloudbuild/routes.go).
\* Any build may be what is deployed.
THEOREM CloudStaysInProject == Spec => []StaysInProject
<1>1. Init => CloudInv  BY CloudInit
<1>2. CloudInv /\ [Next]_cloudVars => CloudInv'  BY CloudNext
<1>3. CloudInv => StaysInProject
  BY DEF CloudInv, DeployedInside, Knows, StaysInProject
<1> QED BY <1>1, <1>2, <1>3, PTL DEF Spec

-----------------------------------------------------------------------------
(* PreviewAnswers. An environment Forge named for the caller carries the   *)
(* name of its revision's preview for good, and a request that met a taken *)
(* name finds it taken until the environment that has it goes away.        *)

NamedFor(E) == \A e \in DOMAIN E : E[e].chosen \/ E[e].name = PreviewName(E[e].rev)

Held(E, p, n) == \E e \in DOMAIN E : E[e].alive /\ E[e].project = p /\ E[e].name = n

\* What a request for a preview knows of the name it has, and answers.
Asked(r, E) ==
    /\ r.pc = "create" => r.named \/ r.name = PreviewName(r.rev)
    /\ r.pc = "find" => r.raced = TRUE \/ Held(E, r.project, r.name)
    /\ r.pc = "environment" =>
          /\ r.env \in DOMAIN E /\ E[r.env].project = r.project /\ E[r.env].name = r.name
          /\ r.named \/ E[r.env].chosen \/ r.name = PreviewName(E[r.env].rev)
    /\ r.pc = "conflict" => r.raced = TRUE

PreviewInv == NamedFor(envs) /\ \A q \in Requests : Asked(req[q], envs)

\* What was in Cloud is there, as it was.
Lasts(E, F) == DOMAIN E \subseteq DOMAIN F /\ \A e \in DOMAIN E : F[e] = E[e]

LEMMA StillAsked ==
    ASSUME NEW r, NEW E, NEW F, Asked(r, E), Lasts(E, F)
    PROVE  Asked(r, F)
BY DEF Asked, Lasts, Held

LEMMA AskedOnly ==
    ASSUME PreviewInv, NEW q \in Requests, \A o \in Requests \ {q} : req'[o] = req[o],
           Lasts(envs, envs'), NamedFor(envs'), Asked(req'[q], envs')
    PROVE  PreviewInv'
<1>1. \A o \in Requests : Asked(req'[o], envs')
  BY StillAsked DEF PreviewInv
<1> QED BY <1>1 DEF PreviewInv

\* A step that leaves the environments alone, and the request at no answer.
LEMMA AsksNothing ==
    ASSUME PreviewInv, ShapeOK, NEW q \in Requests, UNCHANGED envs,
           \A o \in Requests \ {q} : req'[o] = req[o],
           req'[q].pc \notin {"create", "find", "environment", "conflict"}
    PROVE  PreviewInv'
<1>1. Asked(req'[q], envs')  BY DEF Asked
<1> QED BY <1>1, AskedOnly DEF PreviewInv, Lasts

LEMMA EndsAsking ==
    ASSUME ShapeOK, NEW q \in Requests, End(q)
    PROVE  /\ \A o \in Requests \ {q} : req'[o] = req[o]
           /\ req'[q].pc = "idle"
           /\ \A E : Asked(req'[q], E)
<1>1. req'[q] = Idle /\ \A o \in Requests \ {q} : req'[o] = req[o]
  BY DEF End, ShapeOK
<1>2. Idle.pc = "idle"  BY DEF Idle
<1> QED BY <1>1, <1>2 DEF Asked

LEMMA EnvAdded ==
    ASSUME ShapeOK, NamedFor(envs), NEW x \in Environment, envs' = Append(envs, x),
           x.chosen \/ x.name = PreviewName(x.rev)
    PROVE  /\ Lasts(envs, envs') /\ NamedFor(envs')
           /\ Len(envs') \in DOMAIN envs' /\ envs'[Len(envs')] = x /\ Len(envs') \in Nat
<1>1. envs \in Seq(Environment)  BY DEF ShapeOK
<1>2. /\ DOMAIN envs' = DOMAIN envs \cup {Len(envs) + 1}
      /\ \A i \in DOMAIN envs : envs'[i] = envs[i]
      /\ envs'[Len(envs) + 1] = x /\ Len(envs') = Len(envs) + 1
  BY <1>1, AppendFields
<1> QED BY <1>1, <1>2 DEF Lasts, NamedFor

\* The answer of an environment that has the name asked for.
LEMMA AnswersAsked ==
    ASSUME ShapeOK, NEW q \in Requests, NEW E, NEW e \in DOMAIN E, e \in Nat, AnswerEnv(q, e),
           NamedFor(E), E[e].project = req[q].project, E[e].name = req[q].name
    PROVE  Asked(req'[q], E) /\ \A o \in Requests \ {q} : req'[o] = req[o]
<1> DEFINE a == [req[q] EXCEPT !.pc = "environment"]
           t == [a EXCEPT !.env = e]
<1>1. req[q] \in Request  BY DEF ShapeOK
<1>2. req' = [req EXCEPT ![q] = t]  BY <1>1 DEF AnswerEnv, ShapeOK
<1>3. a \in Request /\ a.pc = "environment" /\ a.project = req[q].project /\ a.name = req[q].name
  BY <1>1, PcSet DEF Positions, Ended
<1> HIDE DEF a
<1>4. t.pc = "environment" /\ t.env = e /\ t.project = req[q].project /\ t.name = req[q].name
  BY <1>3, EnvSet
<1> HIDE DEF t
<1>5. Asked(t, E)  BY <1>4 DEF Asked, NamedFor
<1> QED BY <1>2, <1>5 DEF ShapeOK

LEMMA PReadsHead ==
    ASSUME CloudInv, PreviewInv, NEW q \in Requests, readHead(q)
    PROVE  PreviewInv'
<1>1. /\ UNCHANGED <<head, envs, deployments>> /\ ShapeOK /\ req[q] \in Request
      /\ req[q].project \in Projects
      /\ req[q].named => req[q].name \in AnyName
  BY DEF readHead, CloudInv, ShapeOK, Knows
<1> DEFINE rev == head[req[q].project]
           n == IF req[q].named THEN req[q].name ELSE PreviewName(rev)
           a == [req[q] EXCEPT !.pc = "create"]
           b == [a EXCEPT !.rev = rev]
           t == [b EXCEPT !.name = n]
<1>2. CASE End(q)
  BY <1>1, <1>2, EndsAsking, AsksNothing
<1>3. CASE rev # 0 /\ req' = [req EXCEPT ![q] = t]
  <2>1. rev \in 1..LastRev /\ rev \in 0..LastRev  BY <1>1, <1>3, CloudAssumption DEF ShapeOK
  <2>2. n \in AnyName /\ (req[q].named \/ n = PreviewName(rev))  BY <1>1, <2>1 DEF AnyName
  <2> HIDE DEF n, rev
  <2>3. a \in Request /\ a.named = req[q].named  BY <1>1, PcSet DEF Positions
  <2> HIDE DEF a
  <2>4. b \in Request /\ b.named = req[q].named /\ b.rev = rev  BY <2>1, <2>3, RevSet
  <2> HIDE DEF b
  <2>5. t.named = req[q].named /\ t.rev = rev /\ t.name = n  BY <2>2, <2>4, NameSet
  <2>6. t.pc = "create"
    <3>1. a.pc = "create"  BY <1>1, PcSet DEF Positions, a
    <3>2. b.pc = "create"  BY <3>1, <2>1, <2>3, RevSet DEF b
    <3> QED BY <3>2, <2>2, <2>4, NameSet
  <2> HIDE DEF t
  <2>7. Asked(t, envs)  BY <2>2, <2>5, <2>6 DEF Asked
  <2> QED BY <1>1, <1>3, <2>7, AskedOnly DEF ShapeOK, PreviewInv, Lasts
<1>4. End(q) \/ (rev # 0 /\ req' = [req EXCEPT ![q] = t])
  BY <1>1 DEF readHead, ShapeOK
<1> QED BY <1>2, <1>3, <1>4

LEMMA PCreatesPreview ==
    ASSUME CloudInv, PreviewInv, NEW q \in Requests, createPreviewEnvironment(q)
    PROVE  PreviewInv'
<1>1. /\ req[q].pc = "create" /\ ShapeOK /\ req[q] \in Request /\ req[q].project \in Projects
      /\ req[q].name \in AnyName /\ Asked(req[q], envs) /\ NamedFor(envs)
  BY DEF createPreviewEnvironment, CloudInv, ShapeOK, Knows, PreviewInv
<1> DEFINE r == req[q]
           x == [project |-> r.project, name |-> r.name, rev |-> r.rev,
                 chosen |-> r.named, alive |-> TRUE]
           a == [r EXCEPT !.pc = "find"]
           t == [a EXCEPT !.rev = 0]
<1>2. /\ x \in Environment /\ x.project = r.project /\ x.name = r.name
      /\ x.chosen \/ x.name = PreviewName(x.rev)
  BY <1>1 DEF Request, Environment, Asked
<1>3. CASE UNCHANGED envs /\ Taken(r.project, r.name) # {} /\ req' = [req EXCEPT ![q] = t]
  <2>1. a \in Request /\ a.pc = "find" /\ a.project = r.project /\ a.name = r.name
    BY <1>1, PcSet DEF Positions
  <2>2. 0 \in 0..LastRev  BY CloudAssumption
  <2> HIDE DEF a
  <2>3. t.pc = "find" /\ t.project = r.project /\ t.name = r.name  BY <2>1, <2>2, RevSet
  <2> HIDE DEF t
  <2>4. Held(envs, r.project, r.name)  BY <1>3 DEF Held, Taken
  <2>5. Asked(t, envs)  BY <2>3, <2>4 DEF Asked
  <2> QED BY <1>1, <1>3, <2>5, AskedOnly DEF ShapeOK, Lasts
<1>4. CASE envs' = Append(envs, x) /\ AnswerEnv(q, Len(envs'))
  <2> HIDE DEF x
  <2>1. /\ Lasts(envs, envs') /\ NamedFor(envs')
        /\ Len(envs') \in DOMAIN envs' /\ envs'[Len(envs')] = x /\ Len(envs') \in Nat
    BY <1>1, <1>2, <1>4, EnvAdded
  <2>2. Asked(req'[q], envs') /\ \A o \in Requests \ {q} : req'[o] = req[o]
    BY <1>1, <1>2, <1>4, <2>1, AnswersAsked
  <2> QED BY <2>1, <2>2, AskedOnly
<1>5. CASE envs' = Append(envs, x) /\ End(q)
  <2> HIDE DEF x
  <2> QED BY <1>1, <1>2, <1>5, EnvAdded, EndsAsking, AskedOnly
<1>6. CASE UNCHANGED envs /\ End(q)
  BY <1>1, <1>6, EndsAsking, AsksNothing
<1> QED BY <1>3, <1>4, <1>5, <1>6, <1>1 DEF createPreviewEnvironment, ShapeOK

LEMMA PFindsEnvironment ==
    ASSUME CloudInv, PreviewInv, NEW q \in Requests, findEnvironmentByName(q)
    PROVE  PreviewInv'
<1>1. /\ UNCHANGED envs /\ req[q].pc = "find" /\ ShapeOK /\ req[q] \in Request
      /\ Asked(req[q], envs) /\ NamedFor(envs) /\ Lasts(envs, envs')
  BY DEF findEnvironmentByName, CloudInv, ShapeOK, PreviewInv, Lasts
<1> DEFINE a == [req[q] EXCEPT !.pc = "conflict"]
           t == [a EXCEPT !.raced = TRUE]
<1>2. a \in Request /\ a.pc = "conflict" /\ a.raced = req[q].raced
  BY <1>1, PcSet DEF Positions, Ended
<1>3. ASSUME NEW e \in Taken(req[q].project, req[q].name), AnswerEnv(q, e) PROVE PreviewInv'
  <2>1. /\ e \in DOMAIN envs /\ e \in Nat
        /\ envs[e].project = req[q].project /\ envs[e].name = req[q].name
    BY <1>1 DEF Taken, ShapeOK
  <2>2. Asked(req'[q], envs) /\ \A o \in Requests \ {q} : req'[o] = req[o]
    BY <1>1, <1>3, <2>1, AnswersAsked
  <2> QED BY <1>1, <2>2, AskedOnly
<1>4. CASE Taken(req[q].project, req[q].name) = {} /\ req' = [req EXCEPT ![q] = a]
  <2> HIDE DEF a
  <2>1. req[q].raced = TRUE  BY <1>1, <1>4 DEF Asked, Held, Taken
  <2>2. Asked(a, envs)  BY <1>2, <2>1 DEF Asked
  <2> QED BY <1>1, <1>4, <2>2, AskedOnly DEF ShapeOK
<1>5. CASE req' = [req EXCEPT ![q] = t]
  <2> HIDE DEF a
  <2>1. t.pc = "conflict" /\ t.raced = TRUE  BY <1>2, RacedSet
  <2> HIDE DEF t
  <2>2. Asked(t, envs)  BY <2>1 DEF Asked
  <2> QED BY <1>1, <1>5, <2>2, AskedOnly DEF ShapeOK
<1> QED BY <1>1, <1>3, <1>4, <1>5 DEF findEnvironmentByName, Step, ShapeOK

\* The requests for deployments answer no preview.
LEMMA PServesOthers ==
    ASSUME CloudInv, PreviewInv, NEW q \in Requests,
           \/ authorizedEnv(q) \/ createDeployment(q) \/ rollback(q)
           \/ getDeployment(q) \/ deploymentLogs(q) \/ Finish(q)
    PROVE  PreviewInv'
<1>1. ShapeOK /\ UNCHANGED envs
  BY DEF CloudInv, authorizedEnv, createDeployment, rollback, getDeployment, deploymentLogs, Finish
<1>2. CASE End(q)  BY <1>1, <1>2, EndsAsking, AsksNothing
<1>3. ASSUME NEW l \in {"call", "logs", "answered"}, Step(q, l) PROVE PreviewInv'
  <2>1. Serving(q) /\ req'[q].pc = l  BY <1>1, <1>3, Steps DEF Positions, Ended
  <2> QED BY <1>1, <2>1, AsksNothing DEF Serving
<1> QED BY <1>2, <1>3
    DEF authorizedEnv, createDeployment, rollback, getDeployment, deploymentLogs, Finish

\* A request begins by reading the head or by listing.
LEMMA PBegins ==
    ASSUME CloudInv, PreviewInv, NEW q \in Requests, Begin(q)
    PROVE  PreviewInv'
<1>0. ShapeOK  BY DEF CloudInv
<1> DEFINE base(p, o, l) == [Idle EXCEPT !.op = o, !.pc = l, !.project = p]
<1>a. PICK p \in Projects :
        \/ loadAuthorized(q, base(p, "preview", "head"))
        \/ \E n \in EnvNames : loadAuthorized(q,
              [base(p, "preview", "head") EXCEPT !.name = n, !.named = TRUE])
        \/ \E e \in DOMAIN envs : loadAuthorized(q, [base(p, "write", "list") EXCEPT !.env = e])
        \/ \E e \in DOMAIN envs, d \in DOMAIN deployments :
              loadAuthorized(q, [base(p, "read", "list") EXCEPT !.env = e, !.deployment = d])
  BY Zenon DEF Begin
<1>b. /\ base(p, "preview", "head").pc = "head"
      /\ \A n : [base(p, "preview", "head") EXCEPT !.name = n, !.named = TRUE].pc = "head"
      /\ \A e : [base(p, "write", "list") EXCEPT !.env = e].pc = "list"
      /\ \A e, d : [base(p, "read", "list") EXCEPT !.env = e, !.deployment = d].pc = "list"
  BY DEF Idle
<1> HIDE DEF base
<1>1. ASSUME NEW t, loadAuthorized(q, t), t.pc \in {"head", "list"} PROVE PreviewInv'
  <2>1. /\ UNCHANGED envs /\ req'[q] = t /\ \A o \in Requests \ {q} : req'[o] = req[o]
    BY <1>0, <1>1 DEF loadAuthorized, ShapeOK
  <2> QED BY <1>0, <1>1, <2>1, AsksNothing
<1>2. CASE loadAuthorized(q, base(p, "preview", "head"))
  BY <1>1, <1>2, <1>b
<1>3. ASSUME NEW n \in EnvNames,
             loadAuthorized(q, [base(p, "preview", "head") EXCEPT !.name = n, !.named = TRUE])
      PROVE  PreviewInv'
  BY <1>1, <1>3, <1>b
<1>4. ASSUME NEW e \in DOMAIN envs, loadAuthorized(q, [base(p, "write", "list") EXCEPT !.env = e])
      PROVE  PreviewInv'
  BY <1>1, <1>4, <1>b
<1>5. ASSUME NEW e \in DOMAIN envs, NEW d \in DOMAIN deployments,
             loadAuthorized(q, [base(p, "read", "list") EXCEPT !.env = e, !.deployment = d])
      PROVE  PreviewInv'
  BY <1>1, <1>5, <1>b
<1> QED BY <1>a, <1>2, <1>3, <1>4, <1>5

\* Where an environment goes, whoever was looking for its name learns of the race.
LEMMA PRemoves ==
    ASSUME CloudInv, PreviewInv, NEW e \in DOMAIN envs, CloudRemoves(e)
    PROVE  PreviewInv'
<1>0. ShapeOK  BY DEF CloudInv
<1>1. envs[e] \in Environment /\ envs' = [envs EXCEPT ![e] = [envs[e] EXCEPT !.alive = FALSE]]
  BY <1>0 DEF ShapeOK, CloudRemoves
<1>2. LET y == [envs[e] EXCEPT !.alive = FALSE]
      IN  /\ y.project = envs[e].project /\ y.name = envs[e].name /\ y.rev = envs[e].rev
          /\ y.chosen = envs[e].chosen
  BY <1>1 DEF Environment
<1>3. /\ DOMAIN envs' = DOMAIN envs
      /\ \A f \in DOMAIN envs : /\ envs'[f].project = envs[f].project
                                /\ envs'[f].name = envs[f].name
                                /\ envs'[f].rev = envs[f].rev
                                /\ envs'[f].chosen = envs[f].chosen
                                /\ f # e => envs'[f] = envs[f]
  BY <1>0, <1>1, <1>2 DEF ShapeOK
<1>4. NamedFor(envs')  BY <1>3 DEF PreviewInv, NamedFor
<1> DEFINE b(q) == req[q].raced \/ (req[q].pc = "find" /\ req[q].project = envs[e].project
                                     /\ req[q].name = envs[e].name)
           t(q) == [req[q] EXCEPT !.raced = b(q)]
<1>5. req' = [q \in Requests |-> t(q)]  BY <1>0 DEF CloudRemoves, ShapeOK
<1>6. ASSUME NEW q \in Requests PROVE Asked(t(q), envs')
  <2>1. req[q] \in Request /\ b(q) \in BOOLEAN /\ Asked(req[q], envs)
    BY <1>0 DEF ShapeOK, PreviewInv
  <2>2. req[q].raced = TRUE => b(q) = TRUE  OBVIOUS
  <2>3. req[q].pc = "find" /\ Held(envs, req[q].project, req[q].name) =>
           b(q) = TRUE \/ Held(envs', req[q].project, req[q].name)
    BY <1>3 DEF Held
  <2> HIDE DEF b
  <2>4. /\ t(q).raced = b(q) /\ t(q).pc = req[q].pc /\ t(q).project = req[q].project
        /\ t(q).name = req[q].name /\ t(q).named = req[q].named /\ t(q).rev = req[q].rev
        /\ t(q).env = req[q].env
    BY <2>1, RacedSet
  <2> HIDE DEF t
  <2> QED BY <1>3, <2>1, <2>2, <2>3, <2>4 DEF Asked
<1> HIDE DEF t
<1> QED BY <1>4, <1>5, <1>6 DEF PreviewInv

LEMMA PNext ==
    ASSUME CloudInv, PreviewInv, [Next]_cloudVars PROVE PreviewInv'
<1>0. ShapeOK /\ NamedFor(envs)  BY DEF CloudInv, PreviewInv
<1>1. CASE UNCHANGED <<envs, req>>
  BY <1>1 DEF PreviewInv, NamedFor, Asked, Held
<1>2. ASSUME NEW q \in Requests, Begin(q) \/ Serve(q) PROVE PreviewInv'
  BY <1>2, PBegins, PReadsHead, PCreatesPreview, PFindsEnvironment, PServesOthers DEF Serve
<1>3. ASSUME NEW p \in Projects, NEW n \in EnvNames, CloudCreates(p, n) PROVE PreviewInv'
  <2> DEFINE x == [project |-> p, name |-> n, rev |-> 0, chosen |-> TRUE, alive |-> TRUE]
  <2>1. x \in Environment /\ x.chosen  BY CloudAssumption DEF Environment, AnyName
  <2>2. envs' = Append(envs, x) /\ UNCHANGED req  BY <1>3 DEF CloudCreates
  <2> HIDE DEF x
  <2>3. Lasts(envs, envs') /\ NamedFor(envs')  BY <1>0, <2>1, <2>2, EnvAdded
  <2> QED BY <2>2, <2>3, StillAsked DEF PreviewInv
<1>4. ASSUME NEW e \in DOMAIN envs, CloudRemoves(e) PROVE PreviewInv'
  BY <1>4, PRemoves
<1> QED BY <1>1, <1>2, <1>3, <1>4 DEF Next, Edit, cloudVars

\* Creating a preview answers the project's environment of that name, the preview of
\* the head where Forge chose the name and nobody else took it, and a conflict only
\* where the holder of the name went or could not be looked up
\* (createPreviewEnvironment in controlplane/internal/cloudbuild/routes.go).
THEOREM CloudPreviewAnswers == Spec => []PreviewAnswers
<1>1. Init => CloudInv /\ PreviewInv
  <2> SUFFICES ASSUME Init PROVE PreviewInv  BY CloudInit
  <2>1. \A q \in Requests : req[q].pc = "idle"  BY DEF Init, Idle
  <2> QED BY <2>1 DEF Init, PreviewInv, NamedFor, Asked
<1>2. CloudInv /\ PreviewInv /\ [Next]_cloudVars => (CloudInv /\ PreviewInv)'
  BY CloudNext, PNext
<1>3. PreviewInv => PreviewAnswers
  BY DEF PreviewInv, Asked, PreviewAnswers
<1> QED BY <1>1, <1>2, <1>3, PTL DEF Spec

-----------------------------------------------------------------------------
(* GitHub. Two callbacks with one state meet at its row: the lock keeps a  *)
(* second one out between the check and the delete, and after the delete   *)
(* the row is gone. So a state is held by at most one callback past the    *)
(* check, and that one is of the user it was minted for.                   *)


CallPositions == {"idle", "consume", "delete", "exchange", "store"}
Past == {"exchange", "store"}       \* the state is consumed, not yet used

\* Every variable has the shape its comment says.
ConnectShapeOK ==
    /\ minted \in 0..MaxStates
    /\ DOMAIN rows \subseteq 1..minted
    /\ call \in [Calls -> [pc : CallPositions, user : Users \cup {NoState},
                           state : States \cup {NoState}]]
    /\ locked \in [States -> Calls \cup {NoState}]
    /\ conn \in [Users -> States \cup {NoState}]
    /\ spent \in [States -> Nat]
    /\ owner \in [States -> Users \cup {NoState}]

\* A stored state is its owner's and unused; so is one that is not minted yet.
RowsOK ==
    /\ \A s \in DOMAIN rows : rows[s].user = owner[s] /\ spent[s] = 0
    /\ \A s \in States : s > minted => spent[s] = 0

\* A callback about to delete has the row, its lock and the right to it.
DeletersOK ==
    \A c \in Calls : At(c, "delete") =>
        /\ call[c].state \in DOMAIN rows
        /\ locked[call[c].state] = c
        /\ call[c].user = owner[call[c].state]
        /\ call[c].user \in Users

\* A callback past the delete is the only one with its state, which is unused.
HoldersOK ==
    /\ \A c \in Calls : call[c].pc \in Past =>
          /\ call[c].state \in 1..minted
          /\ call[c].state \notin DOMAIN rows
          /\ spent[call[c].state] = 0
          /\ call[c].user = owner[call[c].state]
          /\ call[c].user \in Users
    /\ \A c, d \in Calls :
          c # d /\ call[c].pc \in Past /\ call[d].pc \in Past => call[c].state # call[d].state

ComersOK == \A c \in Calls : At(c, "consume") =>
    call[c].user \in Users /\ call[c].state \in 1..minted

UsedOK == \A u \in Users : conn[u] # NoState => conn[u] \in 1..minted /\ owner[conn[u]] = u

ConnectInv ==
    /\ ConnectShapeOK /\ RowsOK /\ ComersOK /\ DeletersOK /\ HoldersOK /\ UsedOK
    /\ \A s \in States : spent[s] <= 1

\* A step of a callback changes its position and nothing else of it.
Moved(r, l) == [pc |-> l, user |-> r.user, state |-> r.state]

LEMMA GoToMoves ==
    ASSUME ConnectShapeOK, NEW c \in Calls, NEW l, GoTo(c, l)
    PROVE call' = [call EXCEPT ![c] = Moved(call[c], l)]
<1>1. PICK p \in CallPositions, u \in Users \cup {NoState}, t \in States \cup {NoState} :
         call[c] = [pc |-> p, user |-> u, state |-> t]
  BY DEF ConnectShapeOK
<1>2. [call[c] EXCEPT !.pc = l] = Moved(call[c], l)
  BY <1>1 DEF Moved
<1> QED BY <1>2 DEF GoTo

\* What a callback holds; nobody else's callback changes with it.
LEMMA CallFields ==
    ASSUME ConnectShapeOK, NEW c \in Calls
    PROVE  /\ call[c] \in [pc : CallPositions, user : Users \cup {NoState},
                            state : States \cup {NoState}]
           /\ call[c].pc \in CallPositions
           /\ call[c].user \in Users \cup {NoState}
           /\ call[c].state \in States \cup {NoState}
BY DEF ConnectShapeOK

\* The callback c goes on to l, or ends; the others stay where they are.
Calling == [Calls -> [pc : CallPositions, user : Users \cup {NoState},
                      state : States \cup {NoState}]]
Others(c) == call' \in Calling /\ \A d \in Calls \ {c} : call'[d] = call[d]
WentTo(c, l) ==
    call'[c].pc = l /\ call'[c].user = call[c].user /\ call'[c].state = call[c].state

LEMMA CallGoes ==
    ASSUME ConnectShapeOK, NEW c \in Calls, NEW l \in CallPositions, GoTo(c, l)
    PROVE  Others(c) /\ WentTo(c, l)
BY GoToMoves, CallFields DEF ConnectShapeOK, Moved, Others, Calling, WentTo

LEMMA CallEnds ==
    ASSUME ConnectShapeOK, NEW c \in Calls, EndCall(c)
    PROVE  Others(c) /\ call'[c].pc = "idle"
BY DEF ConnectShapeOK, Others, Calling, EndCall, Free, CallPositions

\* The invariant holds before the first flow.
LEMMA InvHoldsAtStart == ASSUME ConnectInit PROVE ConnectInv
BY ConnectAssumption
DEF ConnectInit, ConnectInv, ConnectShapeOK, RowsOK, ComersOK, DeletersOK, HoldersOK,
       UsedOK, CallPositions, Past, Free, At, States

\* No step of a flow breaks it.
LEMMA InvHoldsAfterStep ==
    ASSUME ConnectInv, [ConnectNext]_connectVars PROVE ConnectInv'
<1> USE ConnectAssumption DEF ConnectInv, States
<1>1. CASE UNCHANGED connectVars
  BY <1>1 DEF connectVars, ConnectShapeOK, RowsOK, ComersOK, DeletersOK, HoldersOK, UsedOK, At
<1>2. ASSUME NEW u \in Users, StartConnect(u) PROVE ConnectInv'
  <2> USE <1>2 DEF StartConnect
  <2>1. ConnectShapeOK'  BY DEF ConnectShapeOK
  <2>2. RowsOK'   BY DEF RowsOK, ConnectShapeOK
  <2>3. ComersOK' /\ DeletersOK'  BY DEF ComersOK, DeletersOK, ConnectShapeOK, At
  <2>4. HoldersOK'  BY DEF HoldersOK, ConnectShapeOK, Past
  <2>5. UsedOK' /\ \A s \in States : spent'[s] <= 1  BY DEF UsedOK, ConnectShapeOK
  <2> QED BY <2>1, <2>2, <2>3, <2>4, <2>5
<1>3. ASSUME NEW s \in States, Expire(s) PROVE ConnectInv'
  <2>0. /\ UNCHANGED <<minted, call, locked, conn, spent, owner>>
        /\ DOMAIN rows' = DOMAIN rows
        /\ \A t \in DOMAIN rows : rows'[t].user = rows[t].user
    BY <1>3 DEF Expire, RowsOK
  <2> USE <2>0
  <2>1. ConnectShapeOK'  BY DEF ConnectShapeOK
  <2>2. RowsOK'   BY DEF RowsOK, ConnectShapeOK
  <2>3. ComersOK' /\ DeletersOK' /\ HoldersOK'  BY DEF ComersOK, DeletersOK, HoldersOK, At
  <2>4. UsedOK' /\ \A t \in States : spent'[t] <= 1  BY DEF UsedOK
  <2> QED BY <2>1, <2>2, <2>3, <2>4
<1>4. ASSUME NEW c \in Calls, NEW u \in Users, NEW s \in States, Callback(c, u, s)
      PROVE ConnectInv'
  <2> USE <1>4 DEF Callback, At
  <2>1. ConnectShapeOK' /\ RowsOK'  BY DEF ConnectShapeOK, RowsOK, CallPositions
  <2>2. ComersOK'  BY DEF ComersOK, ConnectShapeOK
  <2>3. DeletersOK' /\ HoldersOK'  BY DEF DeletersOK, HoldersOK, ConnectShapeOK, Past
  <2>4. UsedOK' /\ \A t \in States : spent'[t] <= 1  BY DEF UsedOK
  <2> QED BY <2>1, <2>2, <2>3, <2>4
<1>5. ASSUME NEW c \in Calls, lockState(c) PROVE ConnectInv'
  <2>0. /\ call[c].pc = "consume" /\ Others(c)
        /\ UNCHANGED <<rows, minted, conn, spent, owner>>
        /\ \/ call'[c].pc = "idle" /\ UNCHANGED locked
           \/ /\ WentTo(c, "delete")
              /\ call[c].state \in DOMAIN rows /\ locked[call[c].state] = NoState
              /\ rows[call[c].state].user = call[c].user
              /\ locked' = [locked EXCEPT ![call[c].state] = c]
    BY <1>5, CallGoes, CallEnds DEF lockState, At, CallPositions
  <2>a. call[c].user \in Users /\ call[c].state \in States
    BY <2>0 DEF ComersOK, At, ConnectShapeOK
  <2> USE <2>0, <2>a DEF At, Others, WentTo
  <2>1. ConnectShapeOK'  BY DEF ConnectShapeOK, Calling
  <2>2. RowsOK' /\ UsedOK' /\ \A t \in States : spent'[t] <= 1
    BY SMTT(30) DEF RowsOK, UsedOK
  <2>3. ComersOK'  BY DEF ComersOK
  <2>4. ASSUME NEW d \in Calls, call'[d].pc = "delete"
        PROVE  /\ call'[d].state \in DOMAIN rows
               /\ locked'[call'[d].state] = d
               /\ call'[d].user = owner[call'[d].state]
               /\ call'[d].user \in Users
    <3>1. CASE d = c
      BY <3>1, <2>4 DEF RowsOK, ConnectShapeOK
    <3>2. CASE d # c
      BY <3>2, <2>4 DEF DeletersOK, ConnectShapeOK
    <3> QED BY <3>1, <3>2
  <2>5. HoldersOK'  BY DEF HoldersOK, Past
  <2> QED BY <2>1, <2>2, <2>3, <2>4, <2>5 DEF DeletersOK
<1>6. ASSUME NEW c \in Calls, consumeState(c) PROVE ConnectInv'
  <2>0. /\ call[c].pc = "delete" /\ Others(c)
        /\ UNCHANGED <<minted, conn, spent, owner>>
        /\ locked' = [locked EXCEPT ![call[c].state] = NoState]
        /\ \/ Delete(call[c].state) /\ WentTo(c, "exchange")
           \/ (Delete(call[c].state) \/ UNCHANGED rows) /\ call'[c].pc = "idle"
    BY <1>6, CallGoes, CallEnds DEF consumeState, At, CallPositions, Unlock
  <2>a. /\ call[c].state \in DOMAIN rows /\ locked[call[c].state] = c
        /\ call[c].state \in 1..minted /\ call[c].state \in States
        /\ call[c].user = owner[call[c].state] /\ call[c].user \in Users
    BY <2>0 DEF DeletersOK, ConnectShapeOK, At
  <2>b. /\ DOMAIN rows' \subseteq DOMAIN rows
        /\ \A t \in DOMAIN rows' : rows'[t] = rows[t]
        /\ \A t \in DOMAIN rows : t # call[c].state => t \in DOMAIN rows'
        /\ WentTo(c, "exchange") => call[c].state \notin DOMAIN rows'
    BY <2>0 DEF Delete, WentTo
  <2> USE <2>0, <2>a, <2>b DEF At, Others, WentTo
  <2>1. ConnectShapeOK'  BY DEF ConnectShapeOK, Calling
  <2>2. RowsOK' /\ UsedOK' /\ \A t \in States : spent'[t] <= 1
    BY SMTT(30) DEF RowsOK, UsedOK
  <2>3. ComersOK'  BY DEF ComersOK
  <2>4. DeletersOK'
    <3> SUFFICES ASSUME NEW d \in Calls, call'[d].pc = "delete"
                 PROVE  /\ call'[d].state \in DOMAIN rows'
                        /\ locked'[call'[d].state] = d
                        /\ call'[d].user = owner[call'[d].state]
                        /\ call'[d].user \in Users
      BY DEF DeletersOK
    <3>1. d # c /\ call'[d] = call[d]  OBVIOUS
    <3>2. call[d].state \in DOMAIN rows /\ locked[call[d].state] = d
      BY <3>1 DEF DeletersOK
    <3>3. call[d].state # call[c].state  BY <3>1, <3>2
    <3> QED BY <3>1, <3>2, <3>3 DEF DeletersOK, ConnectShapeOK
  <2>5. HoldersOK'
    <3>1. ASSUME NEW d \in Calls, call'[d].pc \in Past
          PROVE  /\ call'[d].state \in 1..minted
                 /\ call'[d].state \notin DOMAIN rows'
                 /\ spent[call'[d].state] = 0
                 /\ call'[d].user = owner[call'[d].state]
                 /\ call'[d].user \in Users
      <4>1. CASE d = c  BY <4>1, <3>1 DEF RowsOK, Past
      <4>2. CASE d # c  BY <4>2, <3>1 DEF HoldersOK
      <4> QED BY <4>1, <4>2
    <3>2. ASSUME NEW d \in Calls, NEW e \in Calls, d # e,
                 call'[d].pc \in Past, call'[e].pc \in Past
          PROVE  call'[d].state # call'[e].state
      <4>1. CASE d # c /\ e # c  BY <4>1, <3>2 DEF HoldersOK
      <4>2. CASE d = c  BY <4>2, <3>2 DEF HoldersOK, Past
      <4>3. CASE e = c  BY <4>3, <3>2 DEF HoldersOK, Past
      <4> QED BY <4>1, <4>2, <4>3
    <3> QED BY <3>1, <3>2 DEF HoldersOK
  <2> QED BY <2>1, <2>2, <2>3, <2>4, <2>5
<1>7. ASSUME NEW c \in Calls, ExchangeCode(c) PROVE ConnectInv'
  <2>0. /\ call[c].pc = "exchange" /\ Others(c)
        /\ UNCHANGED <<rows, minted, locked, conn, spent, owner>>
        /\ WentTo(c, "store") \/ call'[c].pc = "idle"
    BY <1>7, CallGoes, CallEnds DEF ExchangeCode, At, CallPositions
  <2> USE <2>0 DEF At, Others, WentTo
  <2>1. ConnectShapeOK'  BY DEF ConnectShapeOK, Calling
  <2>2. RowsOK' /\ UsedOK' /\ \A t \in States : spent'[t] <= 1
    BY SMTT(30) DEF RowsOK, UsedOK
  <2>3. ComersOK' /\ DeletersOK'  BY DEF ComersOK, DeletersOK
  <2>4. HoldersOK'  BY DEF HoldersOK, Past
  <2> QED BY <2>1, <2>2, <2>3, <2>4
<1>8. ASSUME NEW c \in Calls, CompleteConnect(c) PROVE ConnectInv'
  <2> DEFINE s == call[c].state
  <2>0. /\ call[c].pc = "store" /\ Others(c) /\ call'[c].pc = "idle"
        /\ UNCHANGED <<rows, minted, locked, owner>>
        /\ \/ /\ conn' = [conn EXCEPT ![call[c].user] = s]
              /\ spent' = [spent EXCEPT ![s] = @ + 1]
           \/ UNCHANGED <<conn, spent>>
    BY <1>8, CallEnds DEF CompleteConnect, At
  <2>a. /\ s \in 1..minted /\ s \in States /\ spent[s] = 0 /\ s \notin DOMAIN rows
        /\ call[c].user = owner[s] /\ call[c].user \in Users
        /\ \A d \in Calls : d # c /\ call[d].pc \in Past => call[d].state # s
    BY <2>0 DEF HoldersOK, Past, ConnectShapeOK
  <2>b. /\ spent' \in [States -> Nat] /\ conn' \in [Users -> States \cup {NoState}]
        /\ \A t \in States : t # s => spent'[t] = spent[t]
        /\ spent'[s] <= 1
    <3> s \in States /\ spent[s] = 0 /\ call[c].user \in Users  BY <2>a
    <3> spent \in [States -> Nat] /\ conn \in [Users -> States \cup {NoState}]  BY DEF ConnectShapeOK
    <3> HIDE DEF s
    <3>1. CASE UNCHANGED <<conn, spent>>  BY <3>1
    <3>2. CASE /\ conn' = [conn EXCEPT ![call[c].user] = s]
               /\ spent' = [spent EXCEPT ![s] = @ + 1]
      BY <3>2
    <3> QED BY <2>0, <3>1, <3>2
  <2>1. ConnectShapeOK'  BY <2>0, <2>b DEF ConnectShapeOK, Calling, Others
  <2>2. RowsOK' /\ \A t \in States : spent'[t] <= 1
    <3> s \in 1..minted /\ s \notin DOMAIN rows /\ minted \in Nat /\ DOMAIN rows \subseteq States
      BY <2>a DEF ConnectShapeOK
    <3>1. \A t \in States : spent'[t] <= 1  BY <2>b
    <3>2. \A t \in DOMAIN rows : spent'[t] = 0  BY <2>b DEF RowsOK
    <3>3. \A t \in States : t > minted => spent'[t] = 0  BY <2>b DEF RowsOK
    <3> QED BY <2>0, <3>1, <3>2, <3>3 DEF RowsOK
  <2>3. UsedOK'  BY <2>0, <2>a DEF UsedOK, ConnectShapeOK
  <2>4. ComersOK' /\ DeletersOK'  BY <2>0 DEF ComersOK, DeletersOK, At, Others
  <2>5. HoldersOK'
    <3>1. ASSUME NEW d \in Calls, call'[d].pc \in Past
          PROVE  d # c /\ call'[d] = call[d] /\ call[d].state # s /\ call[d].state \in States
      BY <2>0, <2>a, <3>1 DEF Others, Past, HoldersOK, ConnectShapeOK
    <3>2. \A d \in Calls : call'[d].pc \in Past =>
             spent'[call'[d].state] = spent[call[d].state]
      BY <3>1, <2>b
    <3> QED BY <2>0, <3>1, <3>2 DEF HoldersOK
  <2> QED BY <2>1, <2>2, <2>3, <2>4, <2>5
<1> QED BY <1>1, <1>2, <1>3, <1>4, <1>5, <1>6, <1>7, <1>8 DEF ConnectNext

\* A connection comes from a flow its own user started and no flow makes two, for
\* any users and any number of flows and callbacks (CompleteConnect, consumeState).
THEOREM ConnectOwnFlow ==
    ConnectSpec => []ConnectedByOwnFlow
<1>1. ConnectInit => ConnectInv  BY InvHoldsAtStart
<1>2. ConnectInv /\ [ConnectNext]_connectVars => ConnectInv'  BY InvHoldsAfterStep
<1>3. ConnectInv => ConnectedByOwnFlow  BY DEF ConnectInv, UsedOK, ConnectedByOwnFlow
<1> QED BY <1>1, <1>2, <1>3, PTL DEF ConnectSpec
=============================================================================
