----------------------------- MODULE Deployment -----------------------------
(***************************************************************************)
(* Deployments from request to settled run(), composed with the deployment *)
(* queue (DeployQueue) and with everything that touches the same service   *)
(* at the same time: the HTTP handlers that create, deactivate, activate   *)
(* and delete it, the container's own crashes, and a restart of the server *)
(* process, which loses all memory and keeps database and containers.      *)
(*                                                                         *)
(* Every await in the code is a point where other handlers run, so every   *)
(* action below is the code between two awaits.  A database write is       *)
(* atomic: it takes place, or it throws and changes nothing, as it always  *)
(* does for a deleted row (Prisma P2025).                                  *)
(*                                                                         *)
(* A deployment row is numbered by its place in the order of the enqueue   *)
(* calls; a row created but not yet enqueued is held by its handler.  A    *)
(* Caddy reload is one step that may fail: CaddyReloader shows that a      *)
(* reload that succeeds delivers a state no older than the call.           *)
(***************************************************************************)
EXTENDS DeployQueue, FiniteSets

CONSTANTS
    Request,      \* slots for concurrently running HTTP handlers
    LaunchMode,   \* deployMode values given to new services
    MaxRestarts   \* bound: restarts of the server process

ASSUME DeploymentAssumption ==
    /\ LaunchMode \subseteq {"server", "static"}
    /\ MaxRestarts \in Nat

VARIABLES
    svc,        \* Service rows
    dep,        \* Deployment.status by job id
    pc,         \* where run() of each job is
    plan,       \* deployMode read by run() when the job started
    container,  \* Docker's container with the service's canonical name
    req,        \* HTTP handlers in flight
    caddy,      \* what Caddy serves for each service's routes
    booting,    \* the start-up reload has not finished
    restarts,
    sticky,     \* observer: services whose container Docker failed to remove
    unsynced    \* observer: services Caddy may be stale about (see below)

jobVars == <<dep, pc, plan>>
observers == <<sticky, unsynced>>
vars == <<queueVars, svc, dep, pc, plan, container, req, caddy, booting,
          restarts, sticky, unsynced>>

JobId == 1..MaxJobs
Mode == {"server", "static"}
NoService == "none"
ASSUME NoServiceAssumption == NoService \notin Service
Idle == [op |-> "idle", at |-> "idle", target |-> NoService]
NoRow == [row |-> "absent", active |-> FALSE, mode |-> "server", status |-> "idle",
          named |-> FALSE]
NoContainer == [by |-> 0, state |-> "none"]
Terminal == {"success", "failed"}

Present(s) == svc[s].row = "present"
JobsOf(s) == {j \in executing \union Waiting : j.service = s}

-----------------------------------------------------------------------------
(***************************************************************************)
(* What buildCaddyConfig renders for a service that has a route            *)
(* (toServiceRoutes, appendRouteBody).                                     *)
(***************************************************************************)
HasSuccess(s) == \E d \in JobId : dep[d] = [service |-> s, status |-> "success"]

StaticReady(s) ==
    /\ svc[s].mode = "static"
    /\ \/ svc[s].status = "running"
       \/ svc[s].status = "building" /\ HasSuccess(s)

Up == {s \in Service : container[s].state = "up"}

ServerReady(s, listed) ==
    /\ svc[s].mode = "server"
    /\ svc[s].named
    /\ s \in listed

Render(s, listed) ==
    IF ~Present(s) \/ ~svc[s].active THEN "absent"
    ELSE IF StaticReady(s) THEN "static"
    ELSE IF ServerReady(s, listed) THEN "proxy"
    ELSE "pending"

\* A rendering is delivered; `listed' is what listRunningContainerNames returned.
Deliver(listed) ==
    /\ caddy' = [s \in Service |-> Render(s, listed)]
    /\ unsynced' = {s \in Service : Render(s, listed) # Render(s, Up)}

\* reloadCaddy(): delivers, if Docker cannot be asked as if no container ran,
\* or fails and leaves Caddy as it was.
Reload ==
    \/ Deliver(Up)
    \/ Deliver({})
    \/ unsynced' = Service /\ UNCHANGED caddy

\* What Caddy should serve for s may have changed, and a reload need not follow.
Stale(s) == unsynced' = IF Present(s) THEN unsynced \union {s} ELSE unsynced

(***************************************************************************)
(* stopAndRemoveContainer(): swallows every Docker error, so the container *)
(* may survive the call, still running or only stopped.                    *)
(***************************************************************************)
StopAndRemove(s) ==
    \/ /\ container' = [container EXCEPT ![s] = NoContainer]
       /\ sticky' = sticky \ {s}
    \/ /\ container[s] # NoContainer
       /\ sticky' = sticky \union {s}
       /\ \/ UNCHANGED container
          \/ container' = [container EXCEPT ![s].state = "stopped"]

-----------------------------------------------------------------------------
(* HTTP handlers *)

Handler(r, at) == req[r].op # "idle" /\ req[r].at = at
Target(r) == req[r].target
Goto(r, at) == req' = [req EXCEPT ![r].at = at]
Return(r) == req' = [req EXCEPT ![r] = Idle]
Begin(r, op, at, s) ==
    /\ req[r] = Idle
    /\ req' = [req EXCEPT ![r] = [op |-> op, at |-> at, target |-> s]]

WriteService(s, row) == svc' = [svc EXCEPT ![s] = row]

(***************************************************************************)
(* deploy.trigger, and githubWebhookHandler and hookHandler for each of    *)
(* their targets: the service is read, a row is created if it was active,  *)
(* and the row is enqueued.                                                *)
(***************************************************************************)
Trigger(r, s) ==
    /\ Present(s)
    /\ svc[s].active
    /\ Begin(r, "trigger", "createRow", s)
    /\ UNCHANGED <<queueVars, svc, jobVars, container, caddy, booting,
                   restarts, observers>>

\* deployment.create: throws out of the handler, as it does if the service is
\* gone (the foreign key fails).
CreateRow(r) ==
    /\ Handler(r, "createRow")
    /\ \/ Present(Target(r)) /\ Goto(r, "enqueue")
       \/ Return(r)
    /\ UNCHANGED <<queueVars, svc, jobVars, container, caddy, booting,
                   restarts, observers>>

\* services.create: one transaction makes the service and its first row.
Launch(r, s, mode) ==
    /\ svc[s].row = "absent"
    /\ Begin(r, "launch", "enqueue", s)
    /\ WriteService(s, [row |-> "present", active |-> TRUE, mode |-> mode,
                        status |-> "idle", named |-> FALSE])
    /\ UNCHANGED <<queueVars, jobVars, container, caddy, booting, restarts,
                   observers>>

\* enqueueDeployment, synchronous after the row is committed.
EnqueueRow(r) ==
    /\ Handler(r, "enqueue")
    /\ Enqueue(Target(r))
    /\ dep' = [dep EXCEPT ![enqueued + 1] =
                  [service |-> Target(r),
                   status |-> IF Present(Target(r)) THEN "queued" ELSE "gone"]]
    /\ pc' = [pc EXCEPT ![enqueued + 1] = "load"]
    /\ IF req[r].op = "launch" THEN Goto(r, "reload") ELSE Return(r)
    /\ UNCHANGED <<svc, plan, container, caddy, booting, restarts, observers>>

\* services.deactivate: reads the row, stops the container of a server
\* service, then writes; an inactive service only gets a reload.
Deactivate(r, s) ==
    /\ Present(s)
    /\ Begin(r, "deactivate", IF ~svc[s].active THEN "reload"
                              ELSE IF svc[s].mode = "server" THEN "stop"
                              ELSE "write", s)
    /\ UNCHANGED <<queueVars, svc, jobVars, container, caddy, booting,
                   restarts, observers>>

Activate(r, s) ==
    /\ Present(s)
    /\ Begin(r, "activate", IF svc[s].active THEN "reload" ELSE "write", s)
    /\ UNCHANGED <<queueVars, svc, jobVars, container, caddy, booting,
                   restarts, observers>>

\* services.delete of an unprotected service.
Delete(r, s) ==
    /\ Present(s)
    /\ Begin(r, "delete", "stop", s)
    /\ UNCHANGED <<queueVars, svc, jobVars, container, caddy, booting,
                   restarts, observers>>

HandlerStops(r) ==
    /\ Handler(r, "stop")
    /\ StopAndRemove(Target(r))
    /\ Stale(Target(r))
    /\ Goto(r, "write")
    /\ UNCHANGED <<queueVars, svc, jobVars, caddy, booting, restarts>>

\* The database write of deactivate, activate and delete.
HandlerWrites(r) ==
    LET s  == Target(r)
        op == req[r].op
    IN  /\ Handler(r, "write")
        /\ Present(s)
        /\ Goto(r, "reload")
        /\ WriteService(s,
             CASE op = "deactivate" ->
                    [svc[s] EXCEPT !.active = FALSE, !.status = "stopped",
                                   !.named = FALSE]
               [] op = "activate" -> [svc[s] EXCEPT !.active = TRUE]
               [] op = "delete"   -> [svc[s] EXCEPT !.row = "deleted"])
        /\ IF op = "delete"        \* onDelete: Cascade
           THEN dep' = [d \in JobId |-> IF dep[d].service = s
                           THEN [dep[d] EXCEPT !.status = "gone"] ELSE dep[d]]
           ELSE UNCHANGED dep
        /\ UNCHANGED <<queueVars, pc, plan, container, caddy, booting, restarts,
                       observers>>

\* That write throws: the handler ends without a reload, though the container
\* may have been stopped.
HandlerThrows(r) ==
    /\ Handler(r, "write")
    /\ Return(r)
    /\ UNCHANGED <<queueVars, svc, jobVars, container, caddy, booting, restarts,
                   observers>>

\* routingWarning(): the last step of the handler, whether or not it succeeds.
HandlerReloads(r) ==
    /\ Handler(r, "reload")
    /\ Reload
    /\ Return(r)
    /\ UNCHANGED <<queueVars, svc, jobVars, container, booting, restarts, sticky>>

\* services.update of deployMode: written without a Caddy reload.
SetMode(s, mode) ==
    /\ Present(s)
    /\ mode # svc[s].mode
    /\ WriteService(s, [svc[s] EXCEPT !.mode = mode])
    /\ unsynced' = unsynced \union {s}
    /\ UNCHANGED <<queueVars, jobVars, container, req, caddy, booting, restarts,
                   sticky>>

-----------------------------------------------------------------------------
(* runDeployment: one step of the executing job j *)

At(j, at) == j \in executing /\ pc[j.id] = at
Advance(j, at) == pc' = [pc EXCEPT ![j.id] = at]
RowExists(j) == dep[j.id].status # "gone"
Mark(j, status) == dep' = [dep EXCEPT ![j.id].status = status]

\* run() rejects or resolves: the queue's finally block.
Finish(j, how) == Settle(j) /\ Advance(j, how)

\* findUniqueOrThrow, then the log directory.  Both are outside the try block,
\* so a failure rejects run() and nothing records it: the row stays queued.
Load(j) ==
    /\ At(j, "load")
    /\ \/ /\ Present(j.service)
          /\ Advance(j, "markDep")
          /\ plan' = [plan EXCEPT ![j.id] = svc[j.service].mode]
          /\ UNCHANGED queueVars
       \/ /\ Finish(j, "lost")
          /\ UNCHANGED plan
    /\ UNCHANGED <<svc, dep, container, req, caddy, booting, restarts, observers>>

MarkDep(j) ==
    /\ At(j, "markDep")
    /\ \/ RowExists(j) /\ Mark(j, "building") /\ Advance(j, "markSvc")
       \/ UNCHANGED dep /\ Advance(j, "failDep")
    /\ UNCHANGED <<queueVars, svc, plan, container, req, caddy, booting,
                   restarts, observers>>

\* Faulty variant: the service row is not marked "building".
MarkSvcSkipped(j) ==
    /\ At(j, "markSvc")
    /\ Advance(j, IF Present(j.service) THEN "build" ELSE "failDep")
    /\ UNCHANGED <<queueVars, svc, dep, plan, container, req, caddy, booting,
                   restarts, observers>>

MarkSvc(j) ==
    /\ At(j, "markSvc")
    /\ \/ /\ Present(j.service)
          /\ WriteService(j.service, [svc[j.service] EXCEPT !.status = "building"])
          /\ Advance(j, "build")
       \/ UNCHANGED svc /\ Advance(j, "failDep")
    /\ UNCHANGED <<queueVars, dep, plan, container, req, caddy, booting,
                   restarts, observers>>

\* Network, token, clone, commit columns (which need the row), image or static
\* build: nothing the model keeps changes, and each of them may throw.
Build(j) ==
    /\ At(j, "build")
    /\ \/ Advance(j, "failDep")
       \/ /\ RowExists(j)
          /\ Advance(j, IF plan[j.id] = "static" THEN "markSuccess" ELSE "remove")
    /\ UNCHANGED <<queueVars, svc, dep, plan, container, req, caddy, booting,
                   restarts, observers>>

\* runOrReplaceContainer: remove, create, start.
RemoveOld(j) ==
    /\ At(j, "remove")
    /\ StopAndRemove(j.service)
    /\ Advance(j, "create")
    /\ UNCHANGED <<queueVars, svc, dep, plan, req, caddy, booting, restarts,
                   unsynced>>

\* Docker refuses a name that is in use.
CreateContainer(j) ==
    /\ At(j, "create")
    /\ \/ /\ container[j.service] = NoContainer
          /\ container' = [container EXCEPT ![j.service] =
                              [by |-> j.id, state |-> "created"]]
          /\ Advance(j, "start")
       \/ Advance(j, "failDep") /\ UNCHANGED container
    /\ UNCHANGED <<queueVars, svc, dep, plan, req, caddy, booting, restarts,
                   observers>>

\* start() of the created container; a handler may have removed it meanwhile.
StartContainer(j) ==
    /\ At(j, "start")
    /\ \/ /\ container[j.service].by = j.id
          /\ container' = [container EXCEPT ![j.service].state = "up"]
          /\ Advance(j, "verify")
       \/ Advance(j, "failDep") /\ UNCHANGED container
    /\ UNCHANGED <<queueVars, svc, dep, plan, req, caddy, booting, restarts,
                   observers>>

\* sleep(3000), inspect, then image pruning (listImages may throw as well).
Verify(j) ==
    /\ At(j, "verify")
    /\ \/ /\ container[j.service] = [by |-> j.id, state |-> "up"]
          /\ Advance(j, "markSuccess")
       \/ Advance(j, "failDep")
    /\ UNCHANGED <<queueVars, svc, dep, plan, container, req, caddy, booting,
                   restarts, observers>>

MarkSuccess(j) ==
    /\ At(j, "markSuccess")
    /\ \/ RowExists(j) /\ Mark(j, "success") /\ Advance(j, "publish")
       \/ UNCHANGED dep /\ Advance(j, "failDep")
    /\ UNCHANGED <<queueVars, svc, plan, container, req, caddy, booting,
                   restarts, observers>>

Publish(j) ==
    /\ At(j, "publish")
    /\ \/ /\ Present(j.service)
          /\ WriteService(j.service,
                [svc[j.service] EXCEPT !.status = "running",
                                       !.named = (plan[j.id] = "server")])
          /\ Advance(j, "reload")
       \/ UNCHANGED svc /\ Advance(j, "failDep")
    /\ UNCHANGED <<queueVars, dep, plan, container, req, caddy, booting,
                   restarts, observers>>

\* Faulty variant: the catch block only logs.
FailDepUnrecorded(j) ==
    /\ At(j, "failDep")
    /\ Finish(j, "done")
    /\ UNCHANGED <<svc, dep, plan, container, req, caddy, booting, restarts,
                   observers>>

\* handleFailure records the failure, even on a row that says "success".
FailDep(j) ==
    /\ At(j, "failDep")
    /\ RowExists(j)
    /\ Mark(j, "failed")
    /\ Advance(j, "failSvc")
    /\ UNCHANGED <<queueVars, svc, plan, container, req, caddy, booting, restarts,
                   observers>>

\* Faulty variant: handleFailure records the failure on the deployment only.
FailSvcSkipped(j) ==
    /\ At(j, "failSvc")
    /\ Advance(j, "reload")
    /\ UNCHANGED <<queueVars, svc, dep, plan, container, req, caddy, booting,
                   restarts, observers>>

\* Faulty variant: the service row gets a status of another table.
FailSvcError(j) ==
    /\ At(j, "failSvc")
    /\ WriteService(j.service, [svc[j.service] EXCEPT !.status = "error"])
    /\ Advance(j, "reload")
    /\ UNCHANGED <<queueVars, dep, plan, container, req, caddy, booting,
                   restarts, observers>>

FailSvc(j) ==
    /\ At(j, "failSvc")
    /\ Present(j.service)
    /\ WriteService(j.service, [svc[j.service] EXCEPT !.status = "failed",
                                                      !.named = FALSE])
    /\ Advance(j, "reload")
    /\ UNCHANGED <<queueVars, dep, plan, container, req, caddy, booting, restarts,
                   observers>>

\* A write of handleFailure throws, which rejects run(): the rows stay as they
\* are, and Caddy is not reloaded.
FailThrows(j) ==
    /\ \/ At(j, "failDep")
       \/ At(j, "failSvc")
    /\ Finish(j, "unrecorded")
    /\ Stale(j.service)
    /\ UNCHANGED <<svc, dep, plan, container, req, caddy, booting, restarts, sticky>>

\* Faulty variant: runDeployment ends without a reload.
JobEnds(j) ==
    /\ At(j, "reload")
    /\ Finish(j, "done")
    /\ UNCHANGED <<svc, dep, plan, container, req, caddy, booting, restarts,
                   observers>>

\* Faulty variant: a failed reload falls through to the outer catch.
JobReloadsStrictly(j) ==
    /\ At(j, "reload")
    /\ Reload
    /\ IF unsynced' = {}
       THEN Finish(j, "done")
       ELSE UNCHANGED queueVars /\ Advance(j, "failDep")
    /\ UNCHANGED <<svc, dep, plan, container, req, booting, restarts, sticky>>

\* The best-effort reload that ends runDeployment and handleFailure.
JobReloads(j) ==
    /\ At(j, "reload")
    /\ Reload
    /\ Finish(j, "done")
    /\ UNCHANGED <<svc, dep, plan, container, req, booting, restarts, sticky>>

JobStep(j) ==
    \/ Load(j) \/ MarkDep(j) \/ MarkSvc(j) \/ Build(j) \/ RemoveOld(j)
    \/ CreateContainer(j) \/ StartContainer(j) \/ Verify(j) \/ MarkSuccess(j)
    \/ Publish(j) \/ FailDep(j) \/ FailSvc(j) \/ FailThrows(j) \/ JobReloads(j)

-----------------------------------------------------------------------------
(* The environment: the application in the container, and the process *)

\* The application exits by itself; Docker's restart policy brings it back.
AppExits(s) ==
    /\ container[s].state = "up"
    /\ container' = [container EXCEPT ![s].state = "exited"]
    /\ unsynced' = unsynced \union {s}
    /\ UNCHANGED <<queueVars, svc, jobVars, req, caddy, booting, restarts, sticky>>

AppRestarts(s) ==
    /\ container[s].state = "exited"
    /\ container' = [container EXCEPT ![s].state = "up"]
    /\ unsynced' = unsynced \union {s}
    /\ UNCHANGED <<queueVars, svc, jobVars, req, caddy, booting, restarts, sticky>>

\* The process dies and starts again.  Nothing at start-up looks at
\* deployments that were queued or building.
Restart ==
    /\ restarts < MaxRestarts
    /\ restarts' = restarts + 1
    /\ queue' = <<>>
    /\ running' = {}
    /\ executing' = {}
    /\ pc' = [d \in JobId |-> IF pc[d] \in {"none", "done", "lost", "unrecorded"}
                                THEN pc[d] ELSE "dead"]
    /\ req' = [r \in Request |-> Idle]
    /\ booting' = TRUE
    /\ unsynced' = Service
    /\ UNCHANGED <<enqueued, svc, dep, plan, container, caddy, sticky>>

\* main(): the initial push, not awaited, so it races with the first requests.
StartupReload ==
    /\ booting
    /\ booting' = FALSE
    /\ Reload
    /\ UNCHANGED <<queueVars, svc, jobVars, container, req, restarts, sticky>>

-----------------------------------------------------------------------------
Init ==
    /\ QueueInit
    /\ svc = [s \in Service |-> NoRow]
    /\ dep = [d \in JobId |-> [service |-> NoService, status |-> "none"]]
    /\ pc = [d \in JobId |-> "none"]
    /\ plan = [d \in JobId |-> "none"]
    /\ container = [s \in Service |-> NoContainer]
    /\ req = [r \in Request |-> Idle]
    /\ caddy = [s \in Service |-> "absent"]
    /\ booting = FALSE
    /\ restarts = 0
    /\ sticky = {}
    /\ unsynced = {}

HandlerStep(r) ==
    \/ CreateRow(r)
    \/ EnqueueRow(r)
    \/ HandlerStops(r)
    \/ HandlerWrites(r)
    \/ HandlerThrows(r)
    \/ HandlerReloads(r)

Arrives(r) ==
    \E s \in Service :
        \/ \E mode \in LaunchMode : Launch(r, s, mode)
        \/ Trigger(r, s)
        \/ Deactivate(r, s)
        \/ Activate(r, s)
        \/ Delete(r, s)

Next ==
    \/ \E r \in Request : Arrives(r) \/ HandlerStep(r)
    \/ \E j \in executing : JobStep(j)
    \/ \E s \in Service :
          \/ \E mode \in Mode : SetMode(s, mode)
          \/ AppExits(s)
          \/ AppRestarts(s)
    \/ Restart
    \/ StartupReload

Spec == Init /\ [][Next]_vars

(***************************************************************************)
(* Fairness.  Node runs every continuation whose promise settled; that     *)
(* Docker, git, SQLite and Caddy answer or fail is assumed (the clients    *)
(* have time-outs or surface errors).  No request has to arrive, the       *)
(* application need not crash and the process need not restart.            *)
(***************************************************************************)
JobProgress(d) == \E j \in executing : j.id = d /\ JobStep(j)

Fairness ==
    /\ \A d \in JobId : WF_vars(JobProgress(d))
    /\ \A r \in Request : WF_vars(HandlerStep(r))
    /\ WF_vars(StartupReload)

FairSpec == Spec /\ Fairness

-----------------------------------------------------------------------------
TypeOK ==
    /\ QueueTypeOK
    /\ svc \in [Service -> [row: {"absent", "present", "deleted"}, active: BOOLEAN,
                            mode: Mode, named: BOOLEAN,
                            status: {"idle", "building", "running", "failed", "stopped"}]]
    /\ dep \in [JobId -> [service: Service \union {NoService},
                          status: {"none", "queued", "building", "gone"} \union Terminal]]
    /\ pc \in [JobId -> {"none", "load", "markDep", "markSvc", "build", "remove",
                         "create", "start", "verify", "markSuccess", "publish",
                         "failDep", "failSvc", "reload", "done", "lost", "unrecorded", "dead"}]
    /\ plan \in [JobId -> Mode \union {"none"}]
    /\ container \in [Service -> [by: 0..MaxJobs,
                                  state: {"none", "created", "up", "exited", "stopped"}]]
    /\ req \in [Request -> [op: {"idle", "trigger", "launch", "deactivate", "activate", "delete"},
                            at: {"idle", "createRow", "enqueue", "stop", "write", "reload"},
                            target: Service \union {NoService}]]
    /\ caddy \in [Service -> {"absent", "pending", "static", "proxy"}]
    /\ booting \in BOOLEAN
    /\ restarts \in 0..MaxRestarts
    /\ sticky \in SUBSET Service
    /\ unsynced \in SUBSET Service

\* No handler works on s and no deployment of s is queued or running.
Quiet(s) ==
    /\ JobsOf(s) = {}
    /\ \A r \in Request : Target(r) # s

SuccessesOf(s) == {d \in JobId : dep[d] = [service |-> s, status |-> "success"]}
DeploymentsOf(s) == {d \in JobId : dep[d].service = s}
Newest(D) == CHOOSE d \in D : \A e \in D : e <= d

(***************************************************************************)
(* createContainer is reached with the service's container name free,      *)
(* unless Docker itself refused to remove the old container: deployments   *)
(* of one service never overlap between remove and create, whatever the    *)
(* lifecycle handlers do meanwhile and however often the process restarts. *)
(***************************************************************************)
ContainerNameFree ==
    \A j \in executing : At(j, "create") =>
        container[j.service] = NoContainer \/ j.service \in sticky

(***************************************************************************)
(* A service row that says "running" with a container name never points at *)
(* an unverified or superseded container: if the container exists, it is   *)
(* the one made by the newest successful deployment.                       *)
(***************************************************************************)
RunningIsNewestSuccess ==
    \A s \in Service :
        (Present(s) /\ svc[s].status = "running" /\ svc[s].named
            /\ container[s] # NoContainer)
        => /\ SuccessesOf(s) # {}
           /\ container[s].by = Newest(SuccessesOf(s))

(***************************************************************************)
(* Once the newest deployment of a service has run to its end, the service *)
(* row tells its outcome, or says "stopped" because of a deactivation.     *)
(***************************************************************************)
StatusTellsOutcome ==
    \A s \in Service :
        (Present(s) /\ DeploymentsOf(s) # {} /\ pc[Newest(DeploymentsOf(s))] = "done")
        => LET d == Newest(DeploymentsOf(s))
           IN  /\ dep[d].status \in Terminal
               /\ svc[s].status \in
                     {"stopped", IF dep[d].status = "success" THEN "running" ELSE "failed"}

(***************************************************************************)
(* A deployment row stays "building" only while its job is in run(), or    *)
(* because the process died under it, or handleFailure could not write:    *)
(* every other throw inside runDeployment's try block ends in a recorded   *)
(* failure.                                                                *)
(***************************************************************************)
BuildingHasJob ==
    \A d \in JobId : dep[d].status = "building" =>
        pc[d] \in {"dead", "unrecorded"} \/ \E j \in executing : j.id = d

(***************************************************************************)
(* When nothing is in flight Caddy serves what the database and Docker     *)
(* imply, except where it may be stale: the last reload failed or could not*)
(* ask Docker, the app exited by itself, deployMode was edited (no reload),*)
(* or a throw ended a run() or a handler that had changed something before *)
(* its reload.  In particular, an inactive or deleted service has no routes*)
(***************************************************************************)
CaddyCurrentWhenQuiet ==
    (\A s \in Service : Quiet(s)) =>
        \A s \in Service \ unsynced : caddy[s] = Render(s, Up)

(***************************************************************************)
(* failed is final, and so is success once the service's row was written   *)
(* with it: no later step of this or another job rewrites such a           *)
(* deployment (a delete removes it), and the reload that ends it may fail  *)
(* without failing it.  Only when that write throws, handleFailure of the  *)
(* same run() turns success into failed (deployment.ts:471-512).           *)
(***************************************************************************)
PublishFailed(d) == pc[d] = "failDep" /\ svc[dep[d].service].status # "running"

OutcomeIsFinal ==
    [][\A d \in JobId : dep[d].status = "failed" \/ (dep[d].status = "success" /\ ~PublishFailed(d)) =>
           dep'[d].status \in {dep[d].status, "gone"}]_vars

(***************************************************************************)
(* Every accepted deployment ends as success or failed, unless its service *)
(* is deleted, its run() rejects (before the try block, or because         *)
(* handleFailure cannot write), or the process dies.                       *)
(***************************************************************************)
EveryDeploymentEnds ==
    \A d \in JobId :
        dep[d].status = "queued" ~>
            dep[d].status \in Terminal \union {"gone"} \/ pc[d] \in {"lost", "unrecorded", "dead"}

(***************************************************************************)
(* "When deactivated, container is stopped and Caddy routes are removed"   *)
(* (schema.prisma:101): an inactive service at rest has no running         *)
(* container, unless Docker failed to remove it.                           *)
(***************************************************************************)
InactiveHasNoContainer ==
    \A s \in Service :
        (Present(s) /\ ~svc[s].active /\ Quiet(s))
        => container[s].state # "up" \/ s \in sticky

(***************************************************************************)
(* activate: "Put the routes back in Caddy. Static sites serve again right *)
(* away" (services.ts:817).  An active static service whose newest         *)
(* deployment succeeded is served, not shown as pending, once nothing is   *)
(* in flight and the last reload was delivered.                            *)
(***************************************************************************)
ActivatedStaticServes ==
    \A s \in Service :
        (/\ Present(s) /\ svc[s].active /\ svc[s].mode = "static"
         /\ SuccessesOf(s) # {}
         /\ Newest(SuccessesOf(s)) = Newest(DeploymentsOf(s))
         /\ plan[Newest(SuccessesOf(s))] = "static"
         /\ Quiet(s) /\ s \notin unsynced)
        => caddy[s] = "static"

(* Together: rows have their types, none waits for a job that is gone, and the
   service's status is the outcome of its last deployment. *)
RowsAreSound == TypeOK /\ BuildingHasJob /\ StatusTellsOutcome

=============================================================================
