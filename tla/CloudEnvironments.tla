-------------------------- MODULE CloudEnvironments --------------------------
(***************************************************************************)
(* Previews, deployments and their logs through Gombit Cloud               *)
(* (controlplane/internal/cloudbuild/routes.go, cloudclient/client.go).    *)
(*                                                                         *)
(* Forge calls Cloud with one service token for all tenants, so each route *)
(* first checks the caller's capability on the project (Invitations is the *)
(* module about capabilities; a request here is one that passed) and that  *)
(* the environment is one of the project's; then it calls Cloud, some time *)
(* later. Environments come and go in Cloud, a call may fail, and its      *)
(* answer may be lost after it took effect. Cloud itself is modelled from  *)
(* how these routes use it.                                                *)
(***************************************************************************)
EXTENDS Naturals, Sequences, FiniteSets

CONSTANTS Projects,      \* the projects linked to Cloud
          EnvNames,      \* names a caller may choose
          Requests,      \* requests that may run at one time
          LastRev,       \* bound on the revisions of all projects
          MaxEnvs, MaxDeployments,   \* bounds on what Cloud ever creates
          Nobody

ASSUME CloudAssumption == LastRev \in Nat /\ Nobody \notin Projects

VARIABLES head,          \* project -> its head revision, 0 before the first
          envs,          \* Cloud: the environments ever made, in order
          deployments,   \* Cloud: [env, project it was asked on, project whose build it is]
          req            \* the requests being served, and what they answered

cloudVars == <<head, envs, deployments, req>>

PreviewName(rev) == <<"preview", rev>>
Idle == [op |-> "none", pc |-> "idle", project |-> Nobody, name |-> Nobody, named |-> FALSE,
         rev |-> 0, env |-> 0, deployment |-> 0, raced |-> FALSE]

Taken(p, n) == {e \in DOMAIN envs : envs[e].alive /\ envs[e].project = p /\ envs[e].name = n}
Deployed(e) == {d \in DOMAIN deployments : deployments[d].env = e}

Step(q, l) == req' = [req EXCEPT ![q].pc = l]
\* The request ends with an answer that tells nothing: not found, a fault, accepted.
End(q) == req' = [req EXCEPT ![q] = Idle]
AnswerEnv(q, e) == req' = [req EXCEPT ![q].pc = "environment", ![q].env = e]
Ended == {"environment", "conflict", "answered"}

----------------------------------------------------------------------------
(* A route up to its first call of Cloud *)

loadAuthorized(q, r) ==
    /\ req[q].pc = "idle"
    /\ req' = [req EXCEPT ![q] = r]
    /\ UNCHANGED <<head, envs, deployments>>

\* ListEnvironments of the project has to hold the environment asked for.
authorizedEnv(q) ==
    /\ req[q].pc = "list"
    /\ LET e == envs[req[q].env]
       IN  \/ e.alive /\ e.project = req[q].project /\ Step(q, "call")
           \/ End(q)
    /\ UNCHANGED <<head, envs, deployments>>

----------------------------------------------------------------------------
(* Previews *)

\* Mutant: the preview's default name does not follow the head.
readHeadOnce(q) ==
    /\ req[q].pc = "head"
    /\ \/ /\ head[req[q].project] # 0
          /\ req' = [req EXCEPT ![q].pc = "create", ![q].rev = head[req[q].project],
                                ![q].name = IF req[q].named THEN @ ELSE PreviewName(2)]
       \/ End(q)
    /\ UNCHANGED <<head, envs, deployments>>

\* No revision, or a fault, ends the request.
readHead(q) ==
    /\ req[q].pc = "head"
    /\ LET rev == head[req[q].project]
       IN  \/ /\ rev # 0
              /\ req' = [req EXCEPT ![q].pc = "create", ![q].rev = rev,
                                    ![q].name = IF req[q].named THEN @ ELSE PreviewName(rev)]
           \/ End(q)
    /\ UNCHANGED <<head, envs, deployments>>

\* Cloud keeps names unique among a project's environments. The environment may
\* have been made when the call fails.
createPreviewEnvironment(q) ==
    /\ req[q].pc = "create"
    /\ LET r == req[q]
           made == [project |-> r.project, name |-> r.name, rev |-> r.rev,
                    chosen |-> r.named, alive |-> TRUE]
       IN  \/ /\ Taken(r.project, r.name) # {} /\ UNCHANGED envs
              /\ req' = [req EXCEPT ![q].pc = "find", ![q].rev = 0]
           \/ /\ Taken(r.project, r.name) = {} /\ Len(envs) < MaxEnvs
              /\ envs' = Append(envs, made)
              /\ AnswerEnv(q, Len(envs')) \/ End(q)
           \/ End(q) /\ UNCHANGED envs
    /\ UNCHANGED <<head, deployments>>

\* After a 409: the environment that has the name; the conflict if none has it now,
\* or the listing fails.
findEnvironmentByName(q) ==
    /\ req[q].pc = "find"
    /\ LET there == Taken(req[q].project, req[q].name)
       IN  \/ \E e \in there : AnswerEnv(q, e)
           \/ there = {} /\ Step(q, "conflict")
           \/ req' = [req EXCEPT ![q].pc = "conflict", ![q].raced = TRUE]
    /\ UNCHANGED <<head, envs, deployments>>

----------------------------------------------------------------------------
(* Deployments *)

Deploy(q, b) ==
    deployments' = Append(deployments, [env |-> req[q].env, project |-> req[q].project,
                                        build |-> b])

\* A new deployment of an environment that still exists; the caller may not learn
\* of it. The build is any the caller named: its id goes to Cloud as it came, and
\* whether to take another project's is left to Cloud.
createDeployment(q) ==
    /\ req[q].pc = "call" /\ req[q].op = "write"
    /\ \/ /\ envs[req[q].env].alive /\ Len(deployments) < MaxDeployments
          /\ \E b \in Projects : Deploy(q, b)
       \/ UNCHANGED deployments
    /\ End(q)
    /\ UNCHANGED <<head, envs>>

\* Cloud redeploys what was there before, if there was anything.
rollback(q) ==
    /\ req[q].pc = "call" /\ req[q].op = "write"
    /\ \/ /\ envs[req[q].env].alive /\ Len(deployments) < MaxDeployments
          /\ \E d \in Deployed(req[q].env) : Deploy(q, deployments[d].build)
       \/ UNCHANGED deployments
    /\ End(q)
    /\ UNCHANGED <<head, envs>>

\* Mutant: the logs are addressed by deployment alone.
getDeploymentAny(q) ==
    /\ req[q].pc = "call" /\ req[q].op = "read"
    /\ Step(q, "logs")
    /\ UNCHANGED <<head, envs, deployments>>

\* Cloud answers for a deployment of the environment named with it only. That is the
\* answer, or the logs are asked for next.
getDeployment(q) ==
    /\ req[q].pc = "call" /\ req[q].op = "read"
    /\ \/ /\ req[q].deployment \in Deployed(req[q].env) /\ envs[req[q].env].alive
          /\ Step(q, "logs") \/ Step(q, "answered")
       \/ End(q)
    /\ UNCHANGED <<head, envs, deployments>>

\* GetDeploymentLogs: by the deployment's id, whatever environment it is in.
deploymentLogs(q) ==
    /\ req[q].pc = "logs"
    /\ Step(q, "answered") \/ End(q)
    /\ UNCHANGED <<head, envs, deployments>>

Finish(q) ==
    /\ req[q].pc \in Ended
    /\ End(q)
    /\ UNCHANGED <<head, envs, deployments>>

----------------------------------------------------------------------------
(* What happens beside the requests *)

\* Revision ids are the database's: no two projects have one in common.
Edit(p) ==
    /\ \E rev \in 1..LastRev :
          /\ \A o \in Projects : head[o] < rev
          /\ head' = [head EXCEPT ![p] = rev]
    /\ UNCHANGED <<envs, deployments, req>>

\* Someone sets up an environment in Cloud itself.
CloudCreates(p, n) ==
    /\ Len(envs) < MaxEnvs /\ Taken(p, n) = {}
    /\ envs' = Append(envs, [project |-> p, name |-> n, rev |-> 0, chosen |-> TRUE,
                             alive |-> TRUE])
    /\ UNCHANGED <<head, deployments, req>>

\* A preview reaches the end of its life, or an environment is removed.
CloudRemoves(e) ==
    /\ envs[e].alive
    /\ envs' = [envs EXCEPT ![e].alive = FALSE]
    /\ req' = [q \in Requests |->
                  [req[q] EXCEPT !.raced = @ \/ (req[q].pc = "find"
                                                 /\ req[q].project = envs[e].project
                                                 /\ req[q].name = envs[e].name)]]
    /\ UNCHANGED <<head, deployments>>

----------------------------------------------------------------------------
Init ==
    /\ head = [p \in Projects |-> 0]
    /\ envs = <<>> /\ deployments = <<>>
    /\ req = [q \in Requests |-> Idle]

Begin(q) ==
    \E p \in Projects :
        LET new(o, l) == [Idle EXCEPT !.op = o, !.pc = l, !.project = p]
        IN  \/ loadAuthorized(q, new("preview", "head"))
            \/ \E n \in EnvNames :
                  loadAuthorized(q, [new("preview", "head") EXCEPT !.name = n, !.named = TRUE])
            \/ \E e \in DOMAIN envs :
                  loadAuthorized(q, [new("write", "list") EXCEPT !.env = e])
            \/ \E e \in DOMAIN envs, d \in DOMAIN deployments :
                  loadAuthorized(q, [new("read", "list") EXCEPT !.env = e, !.deployment = d])

Serve(q) ==
    \/ authorizedEnv(q)
    \/ readHead(q) \/ createPreviewEnvironment(q) \/ findEnvironmentByName(q)
    \/ createDeployment(q) \/ rollback(q) \/ getDeployment(q) \/ deploymentLogs(q)
    \/ Finish(q)

Next ==
    \/ \E q \in Requests : Begin(q) \/ Serve(q)
    \/ \E p \in Projects : Edit(p)
    \/ \E p \in Projects, n \in EnvNames : CloudCreates(p, n)
    \/ \E e \in DOMAIN envs : CloudRemoves(e)

Spec == Init /\ [][Next]_cloudVars

----------------------------------------------------------------------------
(* Properties *)

\* Whatever environment and deployment a request named, and whatever came and went
\* between the check and the call: deployments and rollbacks are in environments of
\* the project they were asked on, and a deployment's status and logs are answered
\* only for a deployment in one of them (authorizedEnv, and deploymentLogs' check that
\* the deployment is in the environment). It says nothing of what is deployed:
\* createDeployment does not look whose build the caller named.
StaysInProject ==
    /\ \A d \in DOMAIN deployments : envs[deployments[d].env].project = deployments[d].project
    /\ \A q \in Requests :
          req[q].pc = "answered" =>
             envs[deployments[req[q].deployment].env].project = req[q].project

\* Creating a preview is idempotent: it answers an environment of the project under
\* the name asked for, and where Forge chose the name, the preview of the revision
\* that was the head, unless someone gave that name to another environment. A
\* conflict is answered only when the environment that had the name went away, or
\* could not be looked up, before it was found (createPreviewEnvironment).
PreviewAnswers ==
    \A q \in Requests :
        LET r == req[q]
        IN  /\ r.pc = "environment" =>
                  LET e == envs[r.env]
                  IN  /\ e.project = r.project /\ e.name = r.name
                      /\ r.named \/ e.chosen \/ r.name = PreviewName(e.rev)
            /\ r.pc = "conflict" => r.raced
=============================================================================
