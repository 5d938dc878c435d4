-------------------------- MODULE DeploymentProofs --------------------------
(***************************************************************************)
(* Proofs about deployments, for any services, deployments, concurrent     *)
(* handlers and restarts.                                                  *)
(***************************************************************************)
EXTENDS Deployment, DeployQueueProofs, FiniteSetTheorems, WellFoundedInduction

SvcRows == [row: {"absent", "present", "deleted"}, active: BOOLEAN,
            mode: Mode, named: BOOLEAN,
            status: {"idle", "building", "running", "failed", "stopped"}]
DepRows == [service: Service \union {NoService},
            status: {"none", "queued", "building", "gone"} \union Terminal]
Pcs == {"none", "load", "markDep", "markSvc", "build", "remove", "create", "start", "verify",
        "markSuccess", "publish", "failDep", "failSvc", "reload", "done", "lost", "unrecorded", "dead"}
Containers == [by: 0..MaxJobs, state: {"none", "created", "up", "exited", "stopped"}]
Handlers == [op: {"idle", "trigger", "launch", "deactivate", "activate", "delete"},
             at: {"idle", "createRow", "enqueue", "stop", "write", "reload"},
             target: Service \union {NoService}]
Served == {"absent", "pending", "static", "proxy"}

\* TypeOK without the queue.
RowTypes ==
    /\ svc \in [Service -> SvcRows]
    /\ dep \in [JobId -> DepRows]
    /\ pc \in [JobId -> Pcs]
    /\ plan \in [JobId -> Mode \union {"none"}]
    /\ container \in [Service -> Containers]
    /\ req \in [Request -> Handlers]
    /\ caddy \in [Service -> Served]
    /\ booting \in BOOLEAN
    /\ restarts \in 0..MaxRestarts
    /\ sticky \in SUBSET Service
    /\ unsynced \in SUBSET Service

\* A handler works on a service that was made, if only to be deleted since, and
\* is at a step of its operation.
HandlerSound(r) ==
    req[r].op # "idle" =>
        /\ Target(r) \in Service
        /\ svc[Target(r)].row # "absent"
        /\ req[r].at \in {"stop", "write"} => req[r].op \in {"deactivate", "activate", "delete"}
        /\ req[r].at = "enqueue" => req[r].op \in {"trigger", "launch"}
        /\ req[r].at = "createRow" => req[r].op = "trigger"
        /\ req[r].at # "idle"

HandlersSound == \A r \in Request : HandlerSound(r)

TypeInv == RowTypes /\ QueueInv /\ HandlersSound

-----------------------------------------------------------------------------
(* Types                                                                   *)

LEMMA TypesFolded == TypeOK <=> QueueTypeOK /\ RowTypes
BY DEF TypeOK, RowTypes, SvcRows, DepRows, Pcs, Containers, Handlers, Served

LEMMA QueueKept == QueueInv /\ UNCHANGED queueVars => QueueInv'
BY Queue_Step

\* Jobs and the ids of their deployments.
LEMMA JobFacts ==
    ASSUME QueueInv, NEW j \in executing \union Waiting
    PROVE  j \in Job /\ j.id \in JobId /\ j.service \in Service /\ j.id <= enqueued
<1>1. j \in Job
  BY DEF QueueInv, QueueTypeOK, Waiting
<1> QED
  BY <1>1 DEF QueueInv, Job, JobId

LEMMA TypeInit == Init => TypeInv
<1> SUFFICES ASSUME Init PROVE TypeInv
  OBVIOUS
<1>1. QueueInv
  BY QueueInit_Inv DEF Init
<1>2. RowTypes
  <2>1. /\ svc \in [Service -> SvcRows] /\ plan \in [JobId -> Mode \union {"none"}]
    BY DEF Init, SvcRows, NoRow, Mode
  <2>2. dep \in [JobId -> DepRows] /\ pc \in [JobId -> Pcs]
    BY DEF Init, DepRows, Pcs
  <2>3. container \in [Service -> Containers]
    BY MaxJobsAssumption DEF Init, Containers, NoContainer
  <2>4. req \in [Request -> Handlers] /\ caddy \in [Service -> Served]
    BY DEF Init, Handlers, Idle, Served
  <2>5. booting \in BOOLEAN /\ sticky \in SUBSET Service /\ unsynced \in SUBSET Service
    BY DEF Init
  <2>6. restarts \in 0..MaxRestarts
    BY DeploymentAssumption DEF Init
  <2> QED
    BY <2>1, <2>2, <2>3, <2>4, <2>5, <2>6 DEF RowTypes
<1>3. HandlersSound
  BY DEF Init, HandlersSound, HandlerSound, Idle
<1> QED
  BY <1>1, <1>2, <1>3 DEF TypeInv

LEMMA RenderType ==
    ASSUME NEW s, NEW listed
    PROVE  Render(s, listed) \in Served
BY DEF Render, Served

LEMMA ReloadTypes ==
    ASSUME RowTypes, Reload
    PROVE  caddy' \in [Service -> Served] /\ unsynced' \in SUBSET Service
BY RenderType DEF Reload, Deliver, RowTypes

LEMMA RemoveTypes ==
    ASSUME RowTypes, NEW s \in Service, StopAndRemove(s)
    PROVE  container' \in [Service -> Containers] /\ sticky' \in SUBSET Service
<1>1. container \in [Service -> Containers] /\ sticky \in SUBSET Service
  BY DEF RowTypes
<1>2. NoContainer \in Containers
  BY MaxJobsAssumption DEF NoContainer, Containers
<1>3. [container[s] EXCEPT !.state = "stopped"] \in Containers
  BY <1>1 DEF Containers
<1> QED
  BY <1>1, <1>2, <1>3 DEF StopAndRemove

\* Handlers that go on, return or begin.
LEMMA GotoTypes ==
    ASSUME RowTypes, NEW r \in Request, NEW at, Goto(r, at),
           at \in {"enqueue", "write", "reload"}
    PROVE  /\ req' \in [Request -> Handlers]
           /\ req'[r].op = req[r].op /\ req'[r].target = req[r].target /\ req'[r].at = at
           /\ \A q \in Request \ {r} : req'[q] = req[q]
BY DEF RowTypes, Goto, Handlers

LEMMA IdleTypes == Idle \in Handlers
BY DEF Idle, Handlers

LEMMA BeginTypes ==
    ASSUME RowTypes, NEW r \in Request, NEW op, NEW at, NEW s \in Service, Begin(r, op, at, s),
           op \in {"trigger", "launch", "deactivate", "activate", "delete"},
           at \in {"createRow", "enqueue", "stop", "write", "reload"}
    PROVE  /\ req' \in [Request -> Handlers]
           /\ req'[r] = [op |-> op, at |-> at, target |-> s]
           /\ \A q \in Request \ {r} : req'[q] = req[q]
<1>1. [op |-> op, at |-> at, target |-> s] \in Handlers
  BY DEF Handlers
<1> QED
  BY <1>1 DEF RowTypes, Begin

\* Rows of services never become absent again, so handlers stay sound.
RowsStay == \A s \in Service : svc[s].row # "absent" => svc'[s].row # "absent"

LEMMA HandlersStay ==
    ASSUME HandlersSound, RowsStay, NEW r \in Request,
           \A q \in Request \ {r} : req'[q] = req[q], HandlerSound(r)'
    PROVE  HandlersSound'
BY DEF HandlersSound, HandlerSound, RowsStay, Target

LEMMA HandlersUntouched ==
    ASSUME HandlersSound, RowsStay, req' = req
    PROVE  HandlersSound'
BY DEF HandlersSound, HandlerSound, RowsStay, Target

LEMMA WriteTypes ==
    ASSUME RowTypes, NEW s \in Service, NEW row \in SvcRows, WriteService(s, row),
           row.row # "absent"
    PROVE  svc' \in [Service -> SvcRows] /\ RowsStay /\ svc'[s] = row
BY DEF RowTypes, WriteService, RowsStay

LEMMA MarkTypes ==
    ASSUME RowTypes, NEW j, j.id \in JobId, NEW status \in {"building", "success", "failed"},
           Mark(j, status)
    PROVE  dep' \in [JobId -> DepRows]
<1>1. [dep[j.id] EXCEPT !.status = status] \in DepRows
  BY DEF RowTypes, DepRows, Terminal
<1> QED
  BY <1>1 DEF RowTypes, Mark

LEMMA AdvanceTypes ==
    ASSUME RowTypes, NEW j, j.id \in JobId, NEW at \in Pcs, Advance(j, at)
    PROVE  pc' \in [JobId -> Pcs]
BY DEF RowTypes, Advance

-----------------------------------------------------------------------------
(* Types: the handlers                                                     *)

\* Nothing but handlers, and what is typed already.
LEMMA ArrivalTypes ==
    ASSUME TypeInv, NEW r \in Request, Arrives(r)
    PROVE  TypeInv'
<1> SUFFICES ASSUME NEW s \in Service,
                    \/ \E mode \in LaunchMode : Launch(r, s, mode)
                    \/ Trigger(r, s) \/ Deactivate(r, s) \/ Activate(r, s) \/ Delete(r, s)
             PROVE  TypeInv'
  BY DEF Arrives
<1>1. RowTypes /\ QueueInv /\ HandlersSound
  BY DEF TypeInv
<1>2. UNCHANGED <<queueVars, jobVars, container, caddy, booting, restarts, observers>>
  BY DEF Launch, Trigger, Deactivate, Activate, Delete
<1>3. /\ svc' \in [Service -> SvcRows] /\ RowsStay /\ svc'[s].row # "absent"
  <2>1. ASSUME NEW mode \in LaunchMode, Launch(r, s, mode)
        PROVE  svc' \in [Service -> SvcRows] /\ RowsStay /\ svc'[s].row # "absent"
    <3>1. [row |-> "present", active |-> TRUE, mode |-> mode, status |-> "idle",
           named |-> FALSE] \in SvcRows
      BY DeploymentAssumption DEF SvcRows, Mode
    <3> QED
      BY <1>1, <2>1, <3>1, WriteTypes DEF Launch
  <2>2. CASE Present(s) /\ svc' = svc
    BY <1>1, <2>2 DEF RowTypes, RowsStay, Present
  <2> QED
    BY <2>1, <2>2 DEF Trigger, Deactivate, Activate, Delete
<1>4. PICK op \in {"trigger", "launch", "deactivate", "activate", "delete"},
           at \in {"createRow", "enqueue", "stop", "write", "reload"} :
        /\ Begin(r, op, at, s)
        /\ at \in {"stop", "write"} => op \in {"deactivate", "activate", "delete"}
        /\ at = "enqueue" => op \in {"trigger", "launch"}
        /\ at = "createRow" => op = "trigger"
  BY DEF Launch, Trigger, Deactivate, Activate, Delete
<1>5. /\ req' \in [Request -> Handlers]
      /\ req'[r] = [op |-> op, at |-> at, target |-> s]
      /\ \A q \in Request \ {r} : req'[q] = req[q]
  BY <1>1, <1>4, BeginTypes
<1>6. HandlerSound(r)'
  BY <1>3, <1>4, <1>5 DEF HandlerSound, Target
<1>7. HandlersSound'
  BY <1>1, <1>3, <1>5, <1>6, HandlersStay
<1>8. QueueInv'
  BY <1>1, <1>2, QueueKept
<1>9. RowTypes'
  BY <1>1, <1>2, <1>3, <1>5 DEF RowTypes, jobVars, observers
<1> QED
  BY <1>7, <1>8, <1>9 DEF TypeInv

\* A handler that is at a step.
LEMMA HandlerFacts ==
    ASSUME TypeInv, NEW r \in Request, NEW at, Handler(r, at)
    PROVE  Target(r) \in Service /\ svc[Target(r)].row # "absent"
BY DEF TypeInv, HandlersSound, HandlerSound, Handler

\* What a handler's step does to the handlers: it goes on, or returns.
LEMMA HandlerMoves ==
    ASSUME TypeInv, NEW r \in Request, RowsStay, req[r].op # "idle",
           \/ Return(r)
           \/ \E at \in {"write", "reload", "enqueue"} :
                /\ Goto(r, at)
                /\ at = "enqueue" => req[r].op \in {"trigger", "launch"}
                /\ at = "write" => req[r].op \in {"deactivate", "activate", "delete"}
    PROVE  req' \in [Request -> Handlers] /\ HandlersSound'
<1>1. RowTypes /\ HandlersSound /\ Target(r) \in Service /\ svc[Target(r)].row # "absent"
  BY DEF TypeInv, HandlersSound, HandlerSound
<1>2. CASE Return(r)
  <2>1. req' \in [Request -> Handlers] /\ req'[r] = Idle
        /\ \A q \in Request \ {r} : req'[q] = req[q]
    BY <1>1, <1>2, IdleTypes DEF RowTypes, Return
  <2> QED
    BY <1>1, <2>1, HandlersStay DEF HandlerSound, Idle
<1>3. ASSUME NEW at \in {"write", "reload", "enqueue"}, Goto(r, at),
             at = "enqueue" => req[r].op \in {"trigger", "launch"},
             at = "write" => req[r].op \in {"deactivate", "activate", "delete"}
      PROVE  req' \in [Request -> Handlers] /\ HandlersSound'
  <2>1. /\ req' \in [Request -> Handlers]
        /\ req'[r].op = req[r].op /\ req'[r].target = req[r].target /\ req'[r].at = at
        /\ \A q \in Request \ {r} : req'[q] = req[q]
    BY <1>1, <1>3, GotoTypes
  <2>2. HandlerSound(r)'
    BY <1>1, <1>3, <2>1 DEF HandlerSound, RowsStay, Target
  <2> QED
    BY <1>1, <2>1, <2>2, HandlersStay
<1> QED
  BY <1>2, <1>3

LEMMA CreateRowTypes ==
    ASSUME TypeInv, NEW r \in Request, CreateRow(r)
    PROVE  TypeInv'
<1>1. RowsStay
  BY DEF CreateRow, RowsStay
<1>2. req[r].op = "trigger"
  BY DEF TypeInv, HandlersSound, HandlerSound, CreateRow, Handler
<1>3. req' \in [Request -> Handlers] /\ HandlersSound'
  BY <1>1, <1>2, HandlerMoves DEF CreateRow
<1> QED
  BY <1>3, QueueKept DEF TypeInv, RowTypes, CreateRow, jobVars, observers

\* The new deployment.
LEMMA EnqueueRowTypes ==
    ASSUME TypeInv, NEW r \in Request, EnqueueRow(r)
    PROVE  TypeInv'
<1>1. RowTypes /\ QueueInv /\ Target(r) \in Service /\ req[r].op # "idle"
  BY HandlerFacts DEF EnqueueRow, TypeInv, Handler
<1>2. RowsStay
  BY DEF EnqueueRow, RowsStay
<1>3. Enqueue(Target(r))
  BY DEF EnqueueRow
<1>4. QueueInv'
  BY <1>1, <1>3, Enqueue_Inv
<1> DEFINE row == [service |-> Target(r),
                   status |-> IF Present(Target(r)) THEN "queued" ELSE "gone"]
<1>5. row \in DepRows
  BY <1>1 DEF DepRows
<1>6. dep' = [dep EXCEPT ![enqueued + 1] = row] /\ pc' = [pc EXCEPT ![enqueued + 1] = "load"]
  BY DEF EnqueueRow
<1> HIDE DEF row
<1>7. dep' \in [JobId -> DepRows] /\ pc' \in [JobId -> Pcs]
  BY <1>1, <1>5, <1>6 DEF RowTypes, Pcs
<1>8. req' \in [Request -> Handlers] /\ HandlersSound'
  BY <1>1, <1>2, HandlerMoves DEF EnqueueRow
<1>9. UNCHANGED <<svc, plan, container, caddy, booting, restarts, observers>>
  BY DEF EnqueueRow
<1> QED
  BY <1>1, <1>4, <1>7, <1>8, <1>9 DEF TypeInv, RowTypes, observers

LEMMA HandlerStopsTypes ==
    ASSUME TypeInv, NEW r \in Request, HandlerStops(r)
    PROVE  TypeInv'
<1>1. RowTypes /\ QueueInv /\ Target(r) \in Service /\ req[r].op # "idle"
      /\ req[r].op \in {"deactivate", "activate", "delete"}
  BY HandlerFacts DEF HandlerStops, TypeInv, Handler, HandlersSound, HandlerSound
<1>2. RowsStay
  BY DEF HandlerStops, RowsStay
<1>3. req' \in [Request -> Handlers] /\ HandlersSound'
  BY <1>1, <1>2, HandlerMoves DEF HandlerStops
<1>4. container' \in [Service -> Containers] /\ sticky' \in SUBSET Service
  BY <1>1, RemoveTypes DEF HandlerStops
<1>5. UNCHANGED <<queueVars, svc, jobVars, caddy, booting, restarts>>
  BY DEF HandlerStops
<1>6. unsynced' \in SUBSET Service
  BY <1>1 DEF HandlerStops, Stale, RowTypes
<1> QED
  BY <1>1, <1>3, <1>4, <1>5, <1>6, QueueKept DEF TypeInv, RowTypes, jobVars

\* What the write of a handler does to the row of its service.
LEMMA HandlerWritesRow ==
    ASSUME TypeInv, NEW r \in Request, HandlerWrites(r), Present(Target(r))
    PROVE  \E row \in SvcRows :
             /\ WriteService(Target(r), row)
             /\ row.row = IF req[r].op = "delete" THEN "deleted" ELSE "present"
             /\ row.mode = svc[Target(r)].mode
             /\ req[r].op = "deactivate" =>
                  ~row.active /\ row.status = "stopped" /\ ~row.named
             /\ req[r].op # "deactivate" =>
                  row.status = svc[Target(r)].status /\ row.named = svc[Target(r)].named
<1> DEFINE s == Target(r)
           row == CASE req[r].op = "deactivate" ->
                         [svc[s] EXCEPT !.active = FALSE, !.status = "stopped", !.named = FALSE]
                    [] req[r].op = "activate" -> [svc[s] EXCEPT !.active = TRUE]
                    [] req[r].op = "delete"   -> [svc[s] EXCEPT !.row = "deleted"]
<1>1. s \in Service /\ svc[s] \in SvcRows /\ svc[s].row = "present"
      /\ req[r].op \in {"deactivate", "activate", "delete"}
  BY HandlerFacts
     DEF HandlerWrites, TypeInv, RowTypes, Handler, HandlersSound, HandlerSound, Present
<1>2. WriteService(s, row)
  BY DEF HandlerWrites
<1> HIDE DEF s
<1>3. CASE req[r].op = "deactivate"
  BY <1>1, <1>2, <1>3 DEF SvcRows, s
<1>4. CASE req[r].op = "activate"
  <2>1. row = [svc[s] EXCEPT !.active = TRUE]
    BY <1>4 DEF s
  <2>2. /\ row \in SvcRows /\ row.row = "present" /\ row.mode = svc[s].mode
        /\ row.status = svc[s].status /\ row.named = svc[s].named
    BY <1>1, <2>1 DEF SvcRows
  <2> QED
    BY <1>2, <1>4, <2>2 DEF s
<1>5. CASE req[r].op = "delete"
  BY <1>1, <1>2, <1>5 DEF SvcRows, s
<1> QED
  BY <1>1, <1>3, <1>4, <1>5

LEMMA HandlerWritesTypes ==
    ASSUME TypeInv, NEW r \in Request, HandlerWrites(r)
    PROVE  TypeInv'
<1>1. RowTypes /\ QueueInv /\ Target(r) \in Service /\ req[r].op # "idle"
      /\ req[r].op \in {"deactivate", "activate", "delete"}
  BY HandlerFacts DEF HandlerWrites, TypeInv, Handler, HandlersSound, HandlerSound
<1>2. svc' \in [Service -> SvcRows] /\ RowsStay
  BY <1>1, HandlerWritesRow, WriteTypes DEF HandlerWrites
<1>3. req' \in [Request -> Handlers] /\ HandlersSound'
  BY <1>1, <1>2, HandlerMoves DEF HandlerWrites
<1>4. dep' \in [JobId -> DepRows]
  <2>1. \A d \in JobId : [dep[d] EXCEPT !.status = "gone"] \in DepRows
    BY <1>1 DEF RowTypes, DepRows
  <2>2. \/ dep' = dep
        \/ dep' = [d \in JobId |-> IF dep[d].service = Target(r)
                                   THEN [dep[d] EXCEPT !.status = "gone"] ELSE dep[d]]
    BY DEF HandlerWrites
  <2> QED
    BY <1>1, <2>1, <2>2 DEF RowTypes
<1>5. UNCHANGED <<queueVars, pc, plan, container, caddy, booting, restarts, observers>>
  BY DEF HandlerWrites
<1> QED
  BY <1>1, <1>2, <1>3, <1>4, <1>5, QueueKept DEF TypeInv, RowTypes, observers

LEMMA HandlerThrowsTypes ==
    ASSUME TypeInv, NEW r \in Request, HandlerThrows(r)
    PROVE  TypeInv'
<1>1. RowTypes /\ QueueInv /\ req[r].op # "idle" /\ Return(r)
      /\ UNCHANGED <<queueVars, svc, jobVars, container, caddy, booting, restarts, observers>>
  BY DEF HandlerThrows, TypeInv, Handler
<1>2. RowsStay
  BY <1>1 DEF RowsStay
<1>3. req' \in [Request -> Handlers] /\ HandlersSound'
  BY <1>1, <1>2, HandlerMoves
<1> QED
  BY <1>1, <1>3, QueueKept DEF TypeInv, RowTypes, jobVars, observers

LEMMA HandlerReloadsTypes ==
    ASSUME TypeInv, NEW r \in Request, HandlerReloads(r)
    PROVE  TypeInv'
<1>1. RowTypes /\ QueueInv /\ req[r].op # "idle"
  BY DEF HandlerReloads, TypeInv, Handler
<1>2. RowsStay
  BY DEF HandlerReloads, RowsStay
<1>3. req' \in [Request -> Handlers] /\ HandlersSound'
  BY <1>1, <1>2, HandlerMoves DEF HandlerReloads
<1>4. caddy' \in [Service -> Served] /\ unsynced' \in SUBSET Service
  BY <1>1, ReloadTypes DEF HandlerReloads
<1>5. UNCHANGED <<queueVars, svc, jobVars, container, booting, restarts, sticky>>
  BY DEF HandlerReloads
<1> QED
  BY <1>1, <1>3, <1>4, <1>5, QueueKept DEF TypeInv, RowTypes, jobVars

LEMMA SetModeTypes ==
    ASSUME TypeInv, NEW s \in Service, NEW mode \in Mode, SetMode(s, mode)
    PROVE  TypeInv'
<1>1. RowTypes /\ QueueInv /\ svc[s] \in SvcRows /\ svc[s].row = "present"
  BY DEF TypeInv, RowTypes, SetMode, Present
<1>2. [svc[s] EXCEPT !.mode = mode] \in SvcRows /\ [svc[s] EXCEPT !.mode = mode].row = "present"
  BY <1>1 DEF SvcRows
<1>3. svc' \in [Service -> SvcRows] /\ RowsStay
  BY <1>1, <1>2, WriteTypes DEF SetMode
<1>4. /\ UNCHANGED <<queueVars, jobVars, container, req, caddy, booting, restarts, sticky>>
      /\ unsynced' = unsynced \union {s}
  BY DEF SetMode
<1>5. HandlersSound'
  BY <1>3, <1>4, HandlersUntouched DEF TypeInv
<1> QED
  BY <1>1, <1>3, <1>4, <1>5, QueueKept DEF TypeInv, RowTypes, jobVars

-----------------------------------------------------------------------------
(* Types: the other steps                                                  *)

LEMMA AppTypes ==
    ASSUME TypeInv, NEW s \in Service, AppExits(s) \/ AppRestarts(s)
    PROVE  TypeInv'
<1>1. RowTypes /\ QueueInv /\ container[s] \in Containers
  BY DEF TypeInv, RowTypes
<1>2. /\ UNCHANGED <<queueVars, svc, jobVars, req, caddy, booting, restarts, sticky>>
      /\ unsynced' = unsynced \union {s}
      /\ \E state \in {"up", "exited"} : container' = [container EXCEPT ![s].state = state]
  BY DEF AppExits, AppRestarts
<1>3. \A state \in {"up", "exited"} : [container[s] EXCEPT !.state = state] \in Containers
  BY <1>1 DEF Containers
<1>4. container' \in [Service -> Containers]
  BY <1>1, <1>2, <1>3 DEF RowTypes
<1>5. HandlersSound'
  BY <1>2, HandlersUntouched DEF TypeInv, RowsStay
<1> QED
  BY <1>1, <1>2, <1>4, <1>5, QueueKept DEF TypeInv, RowTypes, jobVars

LEMMA RestartTypes ==
    ASSUME TypeInv, Restart
    PROVE  TypeInv'
<1>1. RowTypes /\ QueueInv
  BY DEF TypeInv
<1>2. QueueInv'
  <2>1. enqueued' = enqueued /\ queue' = <<>> /\ running' = {} /\ executing' = {}
    BY DEF Restart
  <2>2. Waiting' = {}
    BY <2>1 DEF Waiting
  <2> QED
    BY <1>1, <2>1, <2>2
       DEF QueueInv, QueueTypeOK, OneJobPerService, NoStartableJobWaits, StartsInOrder
<1>3. HandlersSound' /\ req' \in [Request -> Handlers]
  BY IdleTypes DEF Restart, HandlersSound, HandlerSound, Idle
<1>4. pc' \in [JobId -> Pcs]
  BY DEF Restart, Pcs
<1>5. restarts' \in 0..MaxRestarts
  BY <1>1, DeploymentAssumption DEF Restart, RowTypes
<1>6. /\ UNCHANGED <<svc, dep, plan, container, caddy, sticky>>
      /\ booting' = TRUE /\ unsynced' = Service
  BY DEF Restart
<1> QED
  BY <1>1, <1>2, <1>3, <1>4, <1>5, <1>6 DEF TypeInv, RowTypes

LEMMA StartupReloadTypes ==
    ASSUME TypeInv, StartupReload
    PROVE  TypeInv'
<1>1. RowTypes /\ QueueInv
  BY DEF TypeInv
<1>2. caddy' \in [Service -> Served] /\ unsynced' \in SUBSET Service
  BY <1>1, ReloadTypes DEF StartupReload
<1>3. /\ UNCHANGED <<queueVars, svc, jobVars, container, req, restarts, sticky>>
      /\ booting' = FALSE
  BY DEF StartupReload
<1>4. HandlersSound'
  BY <1>3, HandlersUntouched DEF TypeInv, RowsStay
<1> QED
  BY <1>1, <1>2, <1>3, <1>4, QueueKept DEF TypeInv, RowTypes, jobVars

-----------------------------------------------------------------------------
(* Types: the steps of a job                                               *)

\* A step leaves the queue alone, or settles the job.
LEMMA JobQueue ==
    ASSUME QueueInv, NEW j \in executing, UNCHANGED queueVars \/ Settle(j)
    PROVE  QueueInv'
BY QueueKept, Settle_Inv

\* A job's step writes at most one record of each variable.
LEMMA JobStepTypes ==
    ASSUME TypeInv, NEW j \in executing, JobStep(j)
    PROVE  TypeInv'
<1>1. RowTypes /\ QueueInv /\ HandlersSound
  BY DEF TypeInv
<1>2. j.id \in JobId /\ j.service \in Service
  BY <1>1, JobFacts
<1>3. UNCHANGED queueVars \/ Settle(j)
  BY DEF JobStep, Load, MarkDep, MarkSvc, Build, RemoveOld, CreateContainer, StartContainer,
         Verify, MarkSuccess, Publish, FailDep, FailSvc, FailThrows, JobReloads, Finish
<1>4. QueueInv'
  BY <1>1, <1>3, JobQueue
<1>5. \E at \in Pcs : Advance(j, at)
  BY DEF JobStep, Load, MarkDep, MarkSvc, Build, RemoveOld, CreateContainer, StartContainer,
         Verify, MarkSuccess, Publish, FailDep, FailSvc, FailThrows, JobReloads, Finish, Pcs
<1>6. pc' \in [JobId -> Pcs]
  BY <1>1, <1>2, <1>5, AdvanceTypes
<1>7. dep' = dep \/ \E status \in {"building", "success", "failed"} : Mark(j, status)
  BY DEF JobStep, Load, MarkDep, MarkSvc, Build, RemoveOld, CreateContainer, StartContainer,
         Verify, MarkSuccess, Publish, FailDep, FailSvc, FailThrows, JobReloads
<1>8. dep' \in [JobId -> DepRows]
  BY <1>1, <1>2, <1>7, MarkTypes DEF RowTypes
<1>9. svc' = svc \/ \E row \in SvcRows : row.row = "present" /\ WriteService(j.service, row)
  <2>1. CASE MarkSvc(j) /\ Present(j.service)
    <3>1. svc[j.service] \in SvcRows /\ svc[j.service].row = "present"
      BY <1>1, <1>2, <2>1 DEF RowTypes, Present
    <3>2. [svc[j.service] EXCEPT !.status = "building"] \in SvcRows
          /\ [svc[j.service] EXCEPT !.status = "building"].row = "present"
      BY <3>1 DEF SvcRows
    <3> QED
      BY <2>1, <3>2 DEF MarkSvc
  <2>2. CASE Publish(j) /\ Present(j.service)
    <3> DEFINE named == plan[j.id] = "server"
               row == [svc[j.service] EXCEPT !.status = "running", !.named = named]
    <3>1. svc[j.service] \in SvcRows /\ svc[j.service].row = "present" /\ named \in BOOLEAN
      BY <1>1, <1>2, <2>2 DEF RowTypes, Present
    <3>2. svc' = svc \/ WriteService(j.service, row)
      BY <2>2 DEF Publish
    <3> HIDE DEF named
    <3>3. row \in SvcRows /\ row.row = "present"
      BY <3>1 DEF SvcRows
    <3> QED
      BY <3>2, <3>3
  <2>3. CASE FailSvc(j) /\ Present(j.service)
    <3>1. svc[j.service] \in SvcRows /\ svc[j.service].row = "present"
      BY <1>1, <1>2, <2>3 DEF RowTypes, Present
    <3>2. [svc[j.service] EXCEPT !.status = "failed", !.named = FALSE] \in SvcRows
          /\ [svc[j.service] EXCEPT !.status = "failed", !.named = FALSE].row = "present"
      BY <3>1 DEF SvcRows
    <3> QED
      BY <2>3, <3>2 DEF FailSvc
  <2>4. ~((MarkSvc(j) \/ Publish(j) \/ FailSvc(j)) /\ Present(j.service)) => svc' = svc
    BY DEF JobStep, Load, MarkDep, MarkSvc, Build, RemoveOld, CreateContainer, StartContainer,
           Verify, MarkSuccess, Publish, FailDep, FailSvc, FailThrows, JobReloads
  <2> QED
    BY <2>1, <2>2, <2>3, <2>4
<1>10. svc' \in [Service -> SvcRows] /\ RowsStay
  <2>1. CASE svc' = svc
    BY <1>1, <2>1 DEF RowTypes, RowsStay
  <2> QED
    BY <1>1, <1>2, <1>9, <2>1, WriteTypes
<1>11. /\ container' \in [Service -> Containers] /\ sticky' \in SUBSET Service
  <2>1. container[j.service] \in Containers
    BY <1>1, <1>2 DEF RowTypes
  <2>2. [by |-> j.id, state |-> "created"] \in Containers
    BY <1>2 DEF Containers, JobId
  <2>3. [container[j.service] EXCEPT !.state = "up"] \in Containers
    BY <2>1 DEF Containers
  <2>4. CASE RemoveOld(j)
    BY <1>1, <1>2, <2>4, RemoveTypes DEF RemoveOld
  <2>5. CASE ~RemoveOld(j)
    <3>1. sticky' = sticky
      BY <2>5 DEF JobStep, Load, MarkDep, MarkSvc, Build, CreateContainer, StartContainer,
                  Verify, MarkSuccess, Publish, FailDep, FailSvc, FailThrows, JobReloads, observers
    <3>2. container' = container
            \/ container' = [container EXCEPT ![j.service] =
                               [by |-> j.id, state |-> "created"]]
            \/ container' = [container EXCEPT ![j.service] =
                               [container[j.service] EXCEPT !.state = "up"]]
      BY <1>1, <1>2, <2>5
         DEF JobStep, Load, MarkDep, MarkSvc, Build, CreateContainer, StartContainer, RowTypes,
             Verify, MarkSuccess, Publish, FailDep, FailSvc, FailThrows, JobReloads, observers
    <3> QED
      BY <1>1, <2>2, <2>3, <3>1, <3>2 DEF RowTypes
  <2> QED
    BY <2>4, <2>5
<1>12. caddy' \in [Service -> Served] /\ unsynced' \in SUBSET Service
  <2>1. CASE JobReloads(j)
    BY <1>1, <2>1, ReloadTypes DEF JobReloads
  <2>2. CASE FailThrows(j)
    BY <1>1, <1>2, <2>2 DEF FailThrows, Stale, RowTypes
  <2>3. CASE ~JobReloads(j) /\ ~FailThrows(j)
    BY <1>1, <2>3 DEF JobStep, Load, MarkDep, MarkSvc, Build, RemoveOld, CreateContainer,
                      StartContainer, Verify, MarkSuccess, Publish, FailDep, FailSvc,
                      observers, RowTypes
  <2> QED
    BY <2>1, <2>2, <2>3
<1>13. plan' \in [JobId -> Mode \union {"none"}]
  <2>1. plan' = plan \/ plan' = [plan EXCEPT ![j.id] = svc[j.service].mode]
    BY DEF JobStep, Load, MarkDep, MarkSvc, Build, RemoveOld, CreateContainer, StartContainer,
           Verify, MarkSuccess, Publish, FailDep, FailSvc, FailThrows, JobReloads, jobVars
  <2> QED
    BY <1>1, <1>2, <2>1 DEF RowTypes, SvcRows
<1>14. UNCHANGED <<req, booting, restarts>>
  BY DEF JobStep, Load, MarkDep, MarkSvc, Build, RemoveOld, CreateContainer, StartContainer,
         Verify, MarkSuccess, Publish, FailDep, FailSvc, FailThrows, JobReloads
<1>15. HandlersSound'
  BY <1>1, <1>10, <1>14, HandlersUntouched
<1>16. RowTypes'
  BY <1>1, <1>6, <1>8, <1>10, <1>11, <1>12, <1>13, <1>14 DEF RowTypes
<1> QED
  BY <1>4, <1>15, <1>16 DEF TypeInv

LEMMA TypeStep == TypeInv /\ [Next]_vars => TypeInv'
<1> SUFFICES ASSUME TypeInv, [Next]_vars PROVE TypeInv'
  OBVIOUS
<1>1. ASSUME NEW r \in Request, HandlerStep(r)
      PROVE  TypeInv'
  BY <1>1, CreateRowTypes, EnqueueRowTypes, HandlerStopsTypes, HandlerWritesTypes,
     HandlerThrowsTypes, HandlerReloadsTypes DEF HandlerStep
<1>2. CASE UNCHANGED vars
  <2>1. RowsStay
    BY <1>2 DEF vars, RowsStay
  <2> QED
    BY <1>2, <2>1, QueueKept, HandlersUntouched DEF TypeInv, vars, RowTypes
<1> QED
  BY <1>1, <1>2, ArrivalTypes, SetModeTypes, AppTypes, RestartTypes, StartupReloadTypes,
     JobStepTypes DEF Next

-----------------------------------------------------------------------------
(* Jobs and their rows                                                     *)

Over == {"done", "lost", "unrecorded", "dead"}
Live == Pcs \ (Over \union {"none"})
Active == Live \ {"load"}

\* What the row of a deployment says while its run() is at a step, if it exists.
StatusFits(at, status) ==
    \/ at \in {"load", "markDep", "lost"} /\ status = "queued"
    \/ at \in {"markSvc", "build", "remove", "create", "start", "verify", "markSuccess"}
       /\ status = "building"
    \/ at = "publish" /\ status = "success"
    \/ at = "failDep" /\ status \in {"queued", "building", "success"}
    \/ at = "failSvc" /\ status = "failed"
    \/ at \in {"reload", "done"} /\ status \in {"success", "failed"}
    \/ at \in {"unrecorded", "dead"} /\ status \in {"queued", "building", "success", "failed"}
    \/ at # "none" /\ status = "gone"

\* Rows exist for the deployments enqueued so far, as long as the service does.
RowSound(d) ==
    IF d > enqueued
    THEN dep[d].service = NoService /\ dep[d].status = "none" /\ pc[d] = "none"
    ELSE /\ dep[d].service \in Service
         /\ StatusFits(pc[d], dep[d].status)
         /\ svc[dep[d].service].row # "absent"
         /\ dep[d].status = "gone" <=> svc[dep[d].service].row = "deleted"

RowsSound == \A d \in JobId : RowSound(d)

\* The queue's jobs are the runs that are not over; a waiting one has not begun.
JobsSound ==
    /\ \A j \in executing \union Waiting : pc[j.id] \in Live /\ dep[j.id].service = j.service
    /\ \A j \in Waiting : pc[j.id] = "load"
    /\ \A d \in JobId : pc[d] \in Live => \E j \in executing \union Waiting : j.id = d

\* The runs of a service come to their ends in order.
OverInOrder ==
    \A d, e \in JobId :
        e < d /\ dep[e].service = dep[d].service /\ pc[d] \in Over => pc[e] \in Over

JobInv == TypeInv /\ RowsSound /\ JobsSound /\ OverInOrder

LEMMA JobInit == Init => JobInv
<1> SUFFICES ASSUME Init PROVE JobInv
  OBVIOUS
<1>1. TypeInv
  BY TypeInit
<1>2. enqueued = 0 /\ queue = <<>> /\ executing = {}
  BY DEF Init, QueueInit
<1>3. Waiting = {}
  BY <1>2 DEF Waiting
<1>4. RowsSound
  BY <1>2 DEF Init, RowsSound, RowSound, JobId
<1>5. JobsSound /\ OverInOrder
  BY <1>2, <1>3 DEF Init, JobsSound, OverInOrder, Live, Over
<1> QED
  BY <1>1, <1>4, <1>5 DEF JobInv

\* An id belongs to one job.
LEMMA SameId ==
    ASSUME TypeInv, JobsSound,
           NEW j \in executing \union Waiting, NEW k \in executing \union Waiting, j.id = k.id
    PROVE  j = k
<1>1. j.service = k.service
  BY DEF JobsSound
<1>2. j \in Job /\ k \in Job
  BY JobFacts DEF TypeInv
<1> QED
  BY <1>1, <1>2 DEF Job

\* No earlier deployment of its service is live while a job runs.
LEMMA OldestLives ==
    ASSUME JobInv, NEW j \in executing, NEW e \in JobId,
           dep[e].service = j.service, pc[e] \in Live
    PROVE  e >= j.id
<1>1. PICK k \in executing \union Waiting : k.id = e
  BY DEF JobInv, JobsSound
<1>2. k.service = j.service
  BY <1>1 DEF JobInv, JobsSound
<1>3. j.id \in Nat /\ k.id \in Nat
  BY JobFacts DEF JobInv, TypeInv, JobId
<1>4. CASE k \in executing
  BY <1>1, <1>2, <1>3, <1>4 DEF JobInv, TypeInv, QueueInv, OneJobPerService
<1>5. CASE k \in Waiting
  BY <1>1, <1>2, <1>3, <1>5 DEF JobInv, TypeInv, QueueInv, StartsInOrder
<1> QED
  BY <1>1, <1>4, <1>5

\* A run that has begun is the one its service executes.
LEMMA OneActive ==
    ASSUME JobInv, NEW j \in executing, NEW e \in JobId,
           dep[e].service = j.service, pc[e] \in Active
    PROVE  e = j.id
<1>1. PICK k \in executing \union Waiting : k.id = e
  BY DEF JobInv, JobsSound, Active
<1>2. k \in executing /\ k.service = j.service
  BY <1>1 DEF JobInv, JobsSound, Active
<1> QED
  BY <1>1, <1>2 DEF JobInv, TypeInv, QueueInv, OneJobPerService

LEMMA ActiveExecutes ==
    ASSUME JobInv, NEW d \in JobId, pc[d] \in Active
    PROVE  \E j \in executing : j.id = d /\ j.service = dep[d].service
BY DEF JobInv, JobsSound, Active

KeepsRows == \A s \in Service : svc'[s].row = svc[s].row

\* The row of a deployment changes its status; it does not come or go.
Writes(d, status) ==
    /\ dep' = [dep EXCEPT ![d].status = status]
    /\ status = "gone" <=> dep[d].status = "gone"

LEMMA WriteFacts ==
    ASSUME JobInv, NEW d \in JobId, NEW status, Writes(d, status)
    PROVE  /\ dep'[d].status = status
           /\ \A e \in JobId : dep'[e].service = dep[e].service
           /\ \A e \in JobId \ {d} : dep'[e] = dep[e]
BY DEF JobInv, TypeInv, RowTypes, DepRows, Writes

\* Rows after a step of job j.
LEMMA RowsAfter ==
    ASSUME JobInv, NEW j \in executing, NEW at, NEW status,
           enqueued' = enqueued, Advance(j, at), Writes(j.id, status), KeepsRows,
           StatusFits(at, status)
    PROVE  RowsSound'
<1>1. j.id \in JobId /\ j.id <= enqueued /\ enqueued \in Nat
  BY JobFacts DEF JobInv, TypeInv, QueueInv, QueueTypeOK
<1>2. /\ dep'[j.id].status = status
      /\ \A e \in JobId : dep'[e].service = dep[e].service
      /\ \A e \in JobId \ {j.id} : dep'[e] = dep[e] /\ pc'[e] = pc[e]
      /\ pc'[j.id] = at
  BY <1>1, WriteFacts DEF Advance, JobInv, TypeInv, RowTypes
<1>3. \A e \in JobId : RowSound(e)
  BY DEF JobInv, RowsSound
<1>4. ASSUME NEW e \in JobId PROVE RowSound(e)'
  <2>1. CASE e = j.id
    <3>1. ~(e > enqueued)
      BY <1>1, <2>1 DEF JobId
    <3> QED
      BY <1>2, <1>3, <2>1, <3>1 DEF RowSound, KeepsRows, Writes
  <2>2. CASE e # j.id
    BY <1>2, <1>3, <2>2 DEF RowSound, KeepsRows
  <2> QED
    BY <2>1, <2>2
<1> QED
  BY <1>4 DEF RowsSound

\* The run goes on.
LEMMA MoveSound ==
    ASSUME JobInv, TypeInv', NEW j \in executing, NEW at \in Active, NEW status,
           UNCHANGED queueVars, Advance(j, at), Writes(j.id, status), KeepsRows,
           StatusFits(at, status)
    PROVE  JobInv'
<1>1. RowsSound'
  BY RowsAfter DEF queueVars
<1>2. j.id \in JobId
  BY JobFacts DEF JobInv, TypeInv
<1>3. /\ \A e \in JobId : dep'[e].service = dep[e].service
      /\ \A e \in JobId \ {j.id} : pc'[e] = pc[e]
      /\ pc'[j.id] = at
  BY <1>2, WriteFacts DEF Advance, JobInv, TypeInv, RowTypes
<1>4. executing' = executing /\ Waiting' = Waiting
  BY DEF queueVars, Waiting
<1>5. \A k \in executing \union Waiting : k.id \in JobId
  BY JobFacts DEF JobInv, TypeInv
<1>6. j \notin Waiting
  BY <1>2 DEF JobInv, TypeInv, QueueInv, StartsInOrder, JobId
<1>7. JobsSound'
  <2>1. ASSUME NEW k \in executing \union Waiting
        PROVE  pc'[k.id] \in Live /\ dep'[k.id].service = k.service
    BY <1>3, <1>5 DEF JobInv, JobsSound, Active
  <2>2. ASSUME NEW k \in Waiting
        PROVE  pc'[k.id] = "load"
    <3>1. k.id # j.id
      BY <1>6, SameId DEF JobInv
    <3> QED
      BY <1>3, <1>5, <3>1 DEF JobInv, JobsSound
  <2>3. ASSUME NEW d \in JobId, pc'[d] \in Live
        PROVE  \E k \in executing \union Waiting : k.id = d
    BY <1>3, <2>3 DEF JobInv, JobsSound
  <2> QED
    BY <1>4, <2>1, <2>2, <2>3 DEF JobsSound
<1>8. OverInOrder'
  <2>1. pc[j.id] \in Live /\ at \notin Over
    BY DEF JobInv, JobsSound, Active, Live
  <2> QED
    BY <1>3, <2>1 DEF JobInv, OverInOrder, Live
<1> QED
  BY <1>1, <1>7, <1>8 DEF JobInv

\* The run ends, and the queue starts the next one of the service.
LEMMA FinishSound ==
    ASSUME JobInv, TypeInv', NEW j \in executing, NEW at \in {"done", "lost", "unrecorded"}, NEW status,
           Settle(j), Advance(j, at), Writes(j.id, status), KeepsRows,
           StatusFits(at, status)
    PROVE  JobInv'
<1>1. enqueued' = enqueued
  BY DEF Settle
<1>2. RowsSound'
  BY <1>1, RowsAfter
<1>3. j.id \in JobId /\ j.id \in Nat
  BY JobFacts DEF JobInv, TypeInv, JobId
<1>4. /\ \A e \in JobId : dep'[e].service = dep[e].service
      /\ \A e \in JobId \ {j.id} : pc'[e] = pc[e]
      /\ pc'[j.id] = at
  BY <1>3, WriteFacts DEF Advance, JobInv, TypeInv, RowTypes
<1>5. j \notin Waiting
  BY <1>3 DEF JobInv, TypeInv, QueueInv, StartsInOrder
<1>6. /\ executing' \union Waiting' = (executing \union Waiting) \ {j}
      /\ Waiting' \subseteq Waiting
  <2>1. Lanes!Complete(j)
    BY Settle_Completes DEF JobInv, TypeInv
  <2>2. \A k \in Lanes!Lane(j.service, Waiting) : k \in Waiting
    BY DEF Lanes!Lane
  <2> QED
    BY <1>5, <2>1, <2>2 DEF Lanes!Complete
<1>7. \A k \in executing \union Waiting : k.id \in JobId
  BY JobFacts DEF JobInv, TypeInv
<1>8. \A k \in executing' \union Waiting' : k.id # j.id
  BY <1>6, SameId DEF JobInv
<1>9. JobsSound'
  <2>1. ASSUME NEW k \in executing' \union Waiting'
        PROVE  pc'[k.id] \in Live /\ dep'[k.id].service = k.service
    BY <1>4, <1>6, <1>7, <1>8 DEF JobInv, JobsSound
  <2>2. ASSUME NEW k \in Waiting'
        PROVE  pc'[k.id] = "load"
    BY <1>4, <1>6, <1>7, <1>8 DEF JobInv, JobsSound
  <2>3. ASSUME NEW d \in JobId, pc'[d] \in Live
        PROVE  \E k \in executing' \union Waiting' : k.id = d
    <3>1. d # j.id
      BY <1>4, <2>3 DEF Live, Over
    <3>2. PICK k \in executing \union Waiting : k.id = d
      BY <1>4, <2>3, <3>1 DEF JobInv, JobsSound
    <3> QED
      BY <1>6, <3>1, <3>2
  <2> QED
    BY <2>1, <2>2, <2>3 DEF JobsSound
<1>10. OverInOrder'
  <2> SUFFICES ASSUME NEW d \in JobId, NEW e \in JobId, e < d,
                      dep'[e].service = dep'[d].service, pc'[d] \in Over
               PROVE  pc'[e] \in Over
    BY DEF OverInOrder
  <2>1. dep[e].service = dep[d].service
    BY <1>4
  <2>2. CASE e = j.id
    BY <1>4, <2>2 DEF Over
  <2>3. CASE d # j.id /\ e # j.id
    BY <1>4, <2>1, <2>3 DEF JobInv, OverInOrder
  <2>4. CASE d = j.id
    <3>1. dep[e].service = j.service
      BY <2>1, <2>4 DEF JobInv, JobsSound
    <3>2. pc[e] \notin Live
      BY <1>3, <2>4, <3>1, OldestLives DEF JobId
    <3>3. pc[e] # "none"
      <4>1. j.id <= enqueued /\ enqueued \in Nat
        BY JobFacts DEF JobInv, TypeInv, QueueInv, QueueTypeOK
      <4>2. ~(e > enqueued)
        BY <2>4, <4>1 DEF JobId
      <4> QED
        BY <4>2 DEF JobInv, RowsSound, RowSound, StatusFits
    <3>4. pc[e] \in Pcs
      BY DEF JobInv, TypeInv, RowTypes
    <3>5. e # j.id
      BY <1>3, <2>4
    <3> QED
      BY <1>4, <3>2, <3>3, <3>4, <3>5 DEF Live
  <2> QED
    BY <2>2, <2>3, <2>4
<1> QED
  BY <1>2, <1>9, <1>10 DEF JobInv

\* A job, its deployment and its service's row.
LEMMA JobRow ==
    ASSUME JobInv, NEW j \in executing
    PROVE  /\ j.id \in JobId /\ j.service \in Service
           /\ dep[j.id].service = j.service
           /\ StatusFits(pc[j.id], dep[j.id].status)
           /\ svc[j.service].row \in {"present", "deleted"}
           /\ RowExists(j) <=> Present(j.service)
           /\ svc[j.service] \in SvcRows
<1>1. j.id \in JobId /\ j.service \in Service /\ j.id <= enqueued /\ enqueued \in Nat
  BY JobFacts DEF JobInv, TypeInv, QueueInv, QueueTypeOK
<1>2. ~(j.id > enqueued)
  BY <1>1 DEF JobId
<1>3. dep[j.id].service = j.service /\ svc[j.service] \in SvcRows
  BY <1>1 DEF JobInv, JobsSound, TypeInv, RowTypes
<1>4. RowSound(j.id)
  BY <1>1 DEF JobInv, RowsSound
<1>5. svc[j.service].row \in {"absent", "present", "deleted"}
  BY <1>3 DEF SvcRows
<1> QED
  BY <1>1, <1>2, <1>3, <1>4, <1>5 DEF RowSound, RowExists, Present

\* No write is a write of what was there.
LEMMA NoWrite ==
    ASSUME JobInv, NEW d \in JobId, dep' = dep
    PROVE  Writes(d, dep[d].status)
<1>1. dep \in [JobId -> DepRows] /\ dep[d] \in DepRows
  BY DEF JobInv, TypeInv, RowTypes
<1>2. dep[d] = [dep[d] EXCEPT !.status = dep[d].status]
  BY <1>1 DEF DepRows
<1>3. dep = [dep EXCEPT ![d] = dep[d]]
  BY <1>1
<1> QED
  BY <1>2, <1>3 DEF Writes

LEMMA NoRowWrite == UNCHANGED svc => KeepsRows
BY DEF KeepsRows

LEMMA RowWrite ==
    ASSUME JobInv, NEW s \in Service, NEW row \in SvcRows, WriteService(s, row),
           row.row = svc[s].row
    PROVE  KeepsRows
BY DEF KeepsRows, WriteService, JobInv, TypeInv, RowTypes

\* The row of a service as a job leaves it.
LEMMA JobKeepsRows ==
    ASSUME JobInv, NEW j \in executing, JobStep(j)
    PROVE  KeepsRows
<1>1. j.service \in Service /\ svc[j.service] \in SvcRows
  BY JobRow
<1>2. \A status \in {"building", "running", "failed"}, named \in BOOLEAN :
        /\ [svc[j.service] EXCEPT !.status = status] \in SvcRows
        /\ [svc[j.service] EXCEPT !.status = status].row = svc[j.service].row
        /\ [svc[j.service] EXCEPT !.status = status, !.named = named] \in SvcRows
        /\ [svc[j.service] EXCEPT !.status = status, !.named = named].row = svc[j.service].row
  BY <1>1 DEF SvcRows
<1>3. CASE MarkSvc(j)
  BY <1>1, <1>2, <1>3, RowWrite, NoRowWrite DEF MarkSvc
<1>4. CASE Publish(j)
  <2> DEFINE named == plan[j.id] = "server"
  <2>1. named \in BOOLEAN
    OBVIOUS
  <2>2. svc' = svc
          \/ WriteService(j.service, [svc[j.service] EXCEPT !.status = "running", !.named = named])
    BY <1>4 DEF Publish
  <2> HIDE DEF named
  <2> QED
    BY <1>1, <1>2, <2>1, <2>2, RowWrite, NoRowWrite
<1>5. CASE FailSvc(j)
  BY <1>1, <1>2, <1>5, RowWrite, NoRowWrite DEF FailSvc
<1> QED
  BY <1>3, <1>4, <1>5, NoRowWrite
     DEF JobStep, Load, MarkDep, Build, RemoveOld, CreateContainer, StartContainer,
         Verify, MarkSuccess, FailDep, FailThrows, JobReloads

LEMMA JobStepSound ==
    ASSUME JobInv, NEW j \in executing, JobStep(j)
    PROVE  JobInv'
<1> DEFINE status == dep[j.id].status
<1>1. /\ TypeInv' /\ KeepsRows /\ j.id \in JobId
      /\ StatusFits(pc[j.id], status) /\ (RowExists(j) <=> Present(j.service))
  BY JobRow, JobStepTypes, JobKeepsRows DEF JobInv
<1>2. dep' = dep => Writes(j.id, status)
  BY <1>1, NoWrite
<1>3. \A new \in {"building", "success", "failed"} :
        Mark(j, new) /\ RowExists(j) => Writes(j.id, new)
  BY DEF Mark, RowExists, Writes
<1> HIDE DEF status
<1>4. CASE Load(j)
  <2>1. \A at \in {"markDep", "lost"} : StatusFits(at, status)
    BY <1>1, <1>4 DEF Load, At, StatusFits
  <2>2. "markDep" \in Active
    BY DEF Active, Live, Over, Pcs
  <2> QED
    BY <1>1, <1>2, <1>4, <2>1, <2>2, MoveSound, FinishSound DEF Load, Finish
<1>5. CASE MarkDep(j)
  <2>1. StatusFits("markSvc", "building")
    BY DEF StatusFits
  <2>2. StatusFits("failDep", status)
    BY <1>1, <1>5 DEF MarkDep, At, StatusFits
  <2>3. {"markSvc", "failDep"} \subseteq Active
    BY DEF Active, Live, Over, Pcs
  <2> QED
    BY <1>1, <1>2, <1>3, <1>5, <2>1, <2>2, <2>3, MoveSound DEF MarkDep
<1>6. CASE MarkSvc(j) \/ Build(j) \/ RemoveOld(j) \/ CreateContainer(j) \/ StartContainer(j)
             \/ Verify(j)
  <2>1. \A at \in {"build", "remove", "create", "start", "verify", "markSuccess", "failDep"} :
          StatusFits(at, status)
    BY <1>1, <1>6 DEF MarkSvc, Build, RemoveOld, CreateContainer, StartContainer, Verify, At,
                      StatusFits
  <2>2. {"build", "remove", "create", "start", "verify", "markSuccess", "failDep"}
          \subseteq Active
    BY DEF Active, Live, Over, Pcs
  <2>3. \E at \in {"build", "remove", "create", "start", "verify", "markSuccess", "failDep"} :
          Advance(j, at)
    BY <1>6 DEF MarkSvc, Build, RemoveOld, CreateContainer, StartContainer, Verify
  <2>4. UNCHANGED queueVars /\ dep' = dep
    BY <1>6 DEF MarkSvc, Build, RemoveOld, CreateContainer, StartContainer, Verify
  <2> QED
    BY <1>1, <1>2, <2>1, <2>2, <2>3, <2>4, MoveSound
<1>7. CASE MarkSuccess(j)
  <2>1. StatusFits("publish", "success")
    BY DEF StatusFits
  <2>2. StatusFits("failDep", status)
    BY <1>1, <1>7 DEF MarkSuccess, At, StatusFits
  <2>3. {"publish", "failDep"} \subseteq Active
    BY DEF Active, Live, Over, Pcs
  <2> QED
    BY <1>1, <1>2, <1>3, <1>7, <2>1, <2>2, <2>3, MoveSound DEF MarkSuccess
<1>8. CASE Publish(j)
  <2>1. StatusFits("reload", status) /\ StatusFits("failDep", status)
    BY <1>1, <1>8 DEF Publish, At, StatusFits
  <2>2. {"reload", "failDep"} \subseteq Active
    BY DEF Active, Live, Over, Pcs
  <2> QED
    BY <1>1, <1>2, <1>8, <2>1, <2>2, MoveSound DEF Publish
<1>9. CASE FailDep(j)
  <2>1. StatusFits("failSvc", "failed")
    BY DEF StatusFits
  <2>2. "failSvc" \in Active
    BY DEF Active, Live, Over, Pcs
  <2> QED
    BY <1>1, <1>3, <1>9, <2>1, <2>2, MoveSound DEF FailDep
<1>10. CASE FailSvc(j)
  <2>1. StatusFits("reload", status)
    BY <1>1, <1>10 DEF FailSvc, At, StatusFits
  <2>2. "reload" \in Active
    BY DEF Active, Live, Over, Pcs
  <2> QED
    BY <1>1, <1>2, <1>10, <2>1, <2>2, MoveSound DEF FailSvc
<1>11. CASE JobReloads(j)
  <2>1. StatusFits("done", status)
    BY <1>1, <1>11 DEF JobReloads, At, StatusFits
  <2> QED
    BY <1>1, <1>2, <1>11, <2>1, FinishSound DEF JobReloads, Finish
<1>12. CASE FailThrows(j)
  <2>1. StatusFits("unrecorded", status)
    BY <1>1, <1>12 DEF FailThrows, At, StatusFits
  <2> QED
    BY <1>1, <1>2, <1>12, <2>1, FinishSound DEF FailThrows, Finish
<1> QED
  BY <1>4, <1>5, <1>6, <1>7, <1>8, <1>9, <1>10, <1>11, <1>12 DEF JobStep

\* Services are made at most; none is deleted.
RowsMade ==
    \A s \in Service :
        svc'[s].row = svc[s].row \/ (svc[s].row = "absent" /\ svc'[s].row = "present")

\* Steps of others leave jobs and deployments alone, and make services at most.
LEMMA AloneSound ==
    ASSUME JobInv, TypeInv', UNCHANGED queueVars, dep' = dep, pc' = pc, RowsMade
    PROVE  JobInv'
<1>1. Waiting' = Waiting /\ executing' = executing /\ enqueued' = enqueued
  BY DEF Waiting, queueVars
<1>2. RowsSound'
  BY <1>1 DEF JobInv, RowsSound, RowSound, RowsMade
<1>3. JobsSound' /\ OverInOrder'
  BY <1>1 DEF JobInv, JobsSound, OverInOrder
<1> QED
  BY <1>2, <1>3 DEF JobInv

\* A delete takes the rows of the deployments with it.
LEMMA HandlerWritesSound ==
    ASSUME JobInv, NEW r \in Request, HandlerWrites(r)
    PROVE  JobInv'
<1> DEFINE s == Target(r)
<1>1. TypeInv /\ TypeInv' /\ s \in Service
  BY HandlerWritesTypes, HandlerFacts DEF JobInv, HandlerWrites
<1>2. UNCHANGED queueVars /\ pc' = pc
  BY DEF HandlerWrites
<1>3. Present(s)
  BY DEF HandlerWrites
<1>4. JobInv'
  <2>1. PICK row \in SvcRows :
          /\ WriteService(s, row)
          /\ row.row = IF req[r].op = "delete" THEN "deleted" ELSE "present"
    BY <1>1, <1>3, HandlerWritesRow
  <2>2. svc' = [svc EXCEPT ![s] = row] /\ svc \in [Service -> SvcRows]
        /\ svc[s].row = "present"
    BY <1>1, <1>3, <2>1 DEF WriteService, TypeInv, RowTypes, Present
  <2>3. CASE req[r].op # "delete"
    <3>1. dep' = dep
      BY <2>3 DEF HandlerWrites
    <3>2. RowsMade
      BY <1>1, <2>1, <2>2, <2>3 DEF RowsMade
    <3> QED
      BY <1>1, <1>2, <3>1, <3>2, AloneSound
  <2>4. CASE req[r].op = "delete"
    <3>1. dep' = [d \in JobId |-> IF dep[d].service = s
                                  THEN [dep[d] EXCEPT !.status = "gone"] ELSE dep[d]]
      BY <2>4 DEF HandlerWrites
    <3>2. \A d \in JobId :
            /\ dep'[d].service = dep[d].service
            /\ dep[d].service = s => dep'[d].status = "gone"
            /\ dep[d].service # s => dep'[d] = dep[d]
      BY <1>1, <3>1 DEF TypeInv, RowTypes, DepRows
    <3>3. executing' = executing /\ Waiting' = Waiting /\ enqueued' = enqueued /\ pc' = pc
      BY <1>2 DEF queueVars, Waiting
    <3>4. svc'[s].row = "deleted" /\ \A t \in Service \ {s} : svc'[t] = svc[t]
      BY <1>1, <2>1, <2>2, <2>4
    <3> HIDE DEF s
    <3>5. ASSUME NEW d \in JobId PROVE RowSound(d)'
      <4>1. RowSound(d)
        BY DEF JobInv, RowsSound
      <4>2. CASE d > enqueued
        BY <1>1, <3>2, <3>3, <4>1, <4>2, NoServiceAssumption DEF RowSound
      <4>3. CASE ~(d > enqueued) /\ dep[d].service = s
        <5>1. StatusFits(pc[d], "gone")
          BY <4>1, <4>3 DEF RowSound, StatusFits
        <5> QED
          BY <1>1, <3>2, <3>3, <3>4, <4>3, <5>1 DEF RowSound
      <4>4. CASE ~(d > enqueued) /\ dep[d].service # s
        BY <3>2, <3>3, <3>4, <4>1, <4>4 DEF RowSound
      <4> QED
        BY <4>2, <4>3, <4>4
    <3>6. JobsSound'
      <4>1. \A k \in executing \union Waiting : k.id \in JobId
        BY JobFacts DEF JobInv, TypeInv
      <4> QED
        BY <3>2, <3>3, <4>1 DEF JobInv, JobsSound
    <3>7. OverInOrder'
      BY <3>2, <3>3 DEF JobInv, OverInOrder
    <3> QED
      BY <1>1, <3>5, <3>6, <3>7 DEF JobInv, RowsSound
  <2> QED
    BY <2>3, <2>4
<1> QED
  BY <1>4

\* The new deployment is the newest, and its run is not over.
LEMMA EnqueueRowSound ==
    ASSUME JobInv, NEW r \in Request, EnqueueRow(r)
    PROVE  JobInv'
<1> DEFINE s == Target(r)
           new == enqueued + 1
           job == [id |-> new, service |-> s]
           status == IF Present(s) THEN "queued" ELSE "gone"
<1>1. /\ TypeInv /\ TypeInv' /\ s \in Service /\ QueueInv
      /\ svc[s] \in SvcRows /\ svc[s].row # "absent"
  BY EnqueueRowTypes, HandlerFacts DEF JobInv, EnqueueRow, TypeInv, RowTypes
<1>2. /\ enqueued \in Nat /\ new \in JobId /\ enqueued' = new
      /\ \A d \in JobId : d \in Nat
  BY <1>1, MaxJobsAssumption DEF EnqueueRow, Enqueue, QueueInv, QueueTypeOK, JobId
<1>3. /\ executing' \union Waiting' = (executing \union Waiting) \union {job}
      /\ Waiting' \subseteq Waiting \union {job}
  <2>1. Lanes!Submit(s)
    BY <1>1, Enqueue_Submits DEF EnqueueRow
  <2> QED
    BY <2>1 DEF Lanes!Submit
<1>4. /\ dep'[new] = [service |-> s, status |-> status] /\ pc'[new] = "load"
      /\ \A d \in JobId \ {new} : dep'[d] = dep[d] /\ pc'[d] = pc[d]
      /\ svc' = svc
  BY <1>1, <1>2 DEF EnqueueRow, TypeInv, RowTypes
<1>5. \A k \in executing \union Waiting : k.id \in JobId /\ k.id # new
  <2>1. \A k \in executing \union Waiting : k.id \in JobId /\ k.id <= enqueued
    BY <1>1, JobFacts
  <2> QED
    BY <1>2, <2>1
<1>6. status = "gone" <=> svc[s].row = "deleted"
  BY <1>1 DEF Present, SvcRows
<1>7. StatusFits("load", status)
  BY DEF StatusFits
<1> HIDE DEF s, status
<1>8. RowsSound'
  <2> SUFFICES ASSUME NEW d \in JobId PROVE RowSound(d)'
    BY DEF RowsSound
  <2>1. RowSound(d)
    BY DEF JobInv, RowsSound
  <2>2. CASE d = new
    <3>1. ~(d > enqueued')
      BY <1>2, <2>2
    <3> HIDE DEF new
    <3> QED
      BY <1>1, <1>4, <1>6, <1>7, <2>2, <3>1 DEF RowSound
  <2>3. CASE d # new
    <3>1. d > enqueued' <=> d > enqueued
      BY <1>2, <2>3
    <3> HIDE DEF new
    <3> QED
      BY <1>4, <2>1, <2>3, <3>1 DEF RowSound
  <2> QED
    BY <2>2, <2>3
<1>9. "load" \in Live /\ "load" \notin Over
  BY DEF Live, Over, Pcs
<1>10. pc[new] = "none" /\ "none" \notin Live /\ "none" \notin Over
  <2>1. new > enqueued
    BY <1>2
  <2> QED
    BY <1>2, <2>1 DEF JobInv, RowsSound, RowSound, Live, Over
<1>11. JobsSound'
  <2>1. ASSUME NEW k \in executing' \union Waiting'
        PROVE  pc'[k.id] \in Live /\ dep'[k.id].service = k.service
    <3> HIDE DEF new
    <3> QED
      BY <1>3, <1>4, <1>5, <1>9 DEF JobInv, JobsSound
  <2>2. ASSUME NEW k \in Waiting'
        PROVE  pc'[k.id] = "load"
    <3> HIDE DEF new
    <3> QED
      BY <1>3, <1>4, <1>5 DEF JobInv, JobsSound
  <2>3. ASSUME NEW d \in JobId, pc'[d] \in Live
        PROVE  \E k \in executing' \union Waiting' : k.id = d
    <3>1. CASE d = new
      <4>1. job \in executing' \union Waiting' /\ job.id = new
        BY <1>3
      <4> QED
        BY <3>1, <4>1
    <3>2. CASE d # new
      <4> HIDE DEF new
      <4> QED
        BY <1>3, <1>4, <2>3, <3>2 DEF JobInv, JobsSound
    <3> QED
      BY <3>1, <3>2
  <2> QED
    BY <2>1, <2>2, <2>3 DEF JobsSound
<1>12. OverInOrder'
  <2> SUFFICES ASSUME NEW d \in JobId, NEW e \in JobId, e < d,
                      dep'[e].service = dep'[d].service, pc'[d] \in Over
               PROVE  pc'[e] \in Over
    BY DEF OverInOrder
  <2>1. d # new
    BY <1>4, <1>9
  <2>2. e # new
    <3>1. ~(d > enqueued)
      BY <1>4, <1>10, <2>1 DEF JobInv, RowsSound, RowSound
    <3> QED
      BY <1>2, <3>1
  <2> HIDE DEF new
  <2> QED
    BY <1>4, <2>1, <2>2 DEF JobInv, OverInOrder
<1> QED
  BY <1>1, <1>8, <1>11, <1>12 DEF JobInv

\* A restart ends every run.
LEMMA RestartSound ==
    ASSUME JobInv, Restart
    PROVE  JobInv'
<1>1. TypeInv' /\ executing' = {} /\ Waiting' = {} /\ enqueued' = enqueued
      /\ UNCHANGED <<svc, dep>>
  BY RestartTypes DEF JobInv, Restart, Waiting
<1>2. \A d \in JobId :
        /\ pc'[d] = IF pc[d] \in {"none", "done", "lost", "unrecorded"} THEN pc[d] ELSE "dead"
        /\ pc[d] \in Pcs
  BY DEF Restart, JobInv, TypeInv, RowTypes
<1>3. RowsSound'
  <2> SUFFICES ASSUME NEW d \in JobId PROVE RowSound(d)'
    BY DEF RowsSound
  <2>1. RowSound(d)
    BY DEF JobInv, RowsSound
  <2>2. CASE d > enqueued
    BY <1>1, <1>2, <2>1, <2>2 DEF RowSound
  <2>3. CASE ~(d > enqueued)
    <3>1. StatusFits(pc'[d], dep[d].status)
      BY <1>2, <2>1, <2>3 DEF RowSound, StatusFits
    <3> QED
      BY <1>1, <2>1, <2>3, <3>1 DEF RowSound
  <2> QED
    BY <2>2, <2>3
<1>4. \A d \in JobId : pc'[d] \in Over \union {"none"}
  BY <1>2 DEF Over
<1>5. JobsSound'
  BY <1>1, <1>4 DEF JobsSound, Live
<1>6. OverInOrder'
  <2> SUFFICES ASSUME NEW d \in JobId, NEW e \in JobId, e < d,
                      dep[e].service = dep[d].service, pc'[d] \in Over
               PROVE  pc'[e] \in Over
    BY <1>1 DEF OverInOrder
  <2>1. RowSound(d) /\ RowSound(e) /\ pc[d] # "none"
    BY <1>2 DEF JobInv, RowsSound, Over
  <2>2. ~(d > enqueued) /\ d \in Nat /\ e \in Nat /\ enqueued \in Nat
    BY <2>1 DEF RowSound, JobId, JobInv, TypeInv, QueueInv, QueueTypeOK
  <2>3. ~(e > enqueued)
    BY <2>2
  <2>4. pc[e] # "none"
    BY <2>1, <2>3 DEF RowSound, StatusFits
  <2> QED
    BY <1>2, <2>4 DEF Over
<1> QED
  BY <1>1, <1>3, <1>5, <1>6 DEF JobInv

\* Arrivals, SetMode, the application and reloads.
LEMMA OthersSound ==
    ASSUME JobInv, TypeInv', UNCHANGED queueVars, dep' = dep, pc' = pc,
           svc' = svc
             \/ \E s \in Service, mode \in Mode : SetMode(s, mode)
    PROVE  JobInv'
<1>1. CASE svc' = svc
  <2>1. RowsMade
    BY <1>1 DEF RowsMade
  <2> QED
    BY <2>1, AloneSound
<1>2. ASSUME NEW s \in Service, NEW mode \in Mode, SetMode(s, mode)
      PROVE  JobInv'
  <2>1. svc \in [Service -> SvcRows] /\ svc[s] \in SvcRows
        /\ svc' = [svc EXCEPT ![s] = [svc[s] EXCEPT !.mode = mode]]
    BY <1>2 DEF JobInv, TypeInv, RowTypes, SetMode, WriteService
  <2>2. [svc[s] EXCEPT !.mode = mode].row = svc[s].row
    BY <2>1 DEF SvcRows
  <2>3. RowsMade
    BY <2>1, <2>2 DEF RowsMade
  <2> QED
    BY <2>3, AloneSound
<1> QED
  BY <1>1, <1>2

LEMMA LaunchSound ==
    ASSUME JobInv, NEW r \in Request, NEW s \in Service, NEW mode \in LaunchMode,
           Launch(r, s, mode)
    PROVE  JobInv'
<1>1. svc[s].row = "absent" /\ svc'[s].row = "present"
      /\ \A t \in Service \ {s} : svc'[t] = svc[t]
  BY DEF Launch, WriteService, JobInv, TypeInv, RowTypes
<1>2. RowsMade
  BY <1>1 DEF RowsMade
<1>3. TypeInv'
  BY ArrivalTypes DEF Arrives, JobInv
<1>4. UNCHANGED queueVars /\ dep' = dep /\ pc' = pc
  BY DEF Launch, jobVars
<1> QED
  BY <1>2, <1>3, <1>4, AloneSound

LEMMA JobInvStep == JobInv /\ [Next]_vars => JobInv'
<1> SUFFICES ASSUME JobInv, [Next]_vars PROVE JobInv'
  OBVIOUS
<1>1. TypeInv'
  BY TypeStep DEF JobInv
<1>2. ASSUME NEW r \in Request, Arrives(r)
      PROVE  JobInv'
  <2>1. UNCHANGED queueVars /\ dep' = dep /\ pc' = pc
    BY <1>2 DEF Arrives, Launch, Trigger, Deactivate, Activate, Delete, jobVars
  <2>2. \/ svc' = svc
        \/ \E q \in Request, s \in Service, mode \in LaunchMode : Launch(q, s, mode)
    BY <1>2 DEF Arrives, Trigger, Deactivate, Activate, Delete
  <2>3. CASE svc' = svc
    BY <1>1, <2>1, <2>3, OthersSound
  <2>4. ASSUME NEW q \in Request, NEW s \in Service, NEW mode \in LaunchMode,
               Launch(q, s, mode)
        PROVE  JobInv'
    BY <2>4, LaunchSound
  <2> QED
    BY <2>2, <2>3, <2>4
<1>3. ASSUME NEW r \in Request,
             CreateRow(r) \/ HandlerStops(r) \/ HandlerThrows(r) \/ HandlerReloads(r)
      PROVE  JobInv'
  BY <1>1, <1>3, OthersSound DEF CreateRow, HandlerStops, HandlerThrows, HandlerReloads, jobVars
<1>4. ASSUME NEW r \in Request, HandlerStep(r)
      PROVE  JobInv'
  BY <1>3, <1>4, EnqueueRowSound, HandlerWritesSound DEF HandlerStep
<1>5. ASSUME NEW s \in Service, NEW mode \in Mode, SetMode(s, mode)
      PROVE  JobInv'
  BY <1>1, <1>5, OthersSound DEF SetMode, jobVars
<1>6. ASSUME NEW s \in Service, AppExits(s) \/ AppRestarts(s)
      PROVE  JobInv'
  BY <1>1, <1>6, OthersSound DEF AppExits, AppRestarts, jobVars
<1>7. CASE StartupReload
  BY <1>1, <1>7, OthersSound DEF StartupReload, jobVars
<1>8. CASE UNCHANGED vars
  BY <1>1, <1>8, OthersSound DEF vars
<1> QED
  BY <1>2, <1>4, <1>5, <1>6, <1>7, <1>8, JobStepSound, RestartSound DEF Next

-----------------------------------------------------------------------------
(* Deployments and their service                                           *)

\* Started, but not over.
Making == {"build", "remove", "create", "start", "verify", "markSuccess", "publish"}
Told(status) == IF status = "success" THEN "running" ELSE "failed"
NewestOf(d) == \A e \in JobId : dep[e].service = dep[d].service => e <= d

NameFree(d) ==
    pc[d] = "create" => container[dep[d].service] = NoContainer \/ dep[d].service \in sticky

\* The container that a run has made, unless a handler has removed it since.
OwnContainer(d) ==
    pc[d] \in {"start", "verify", "markSuccess", "publish"} /\ plan[d] = "server" =>
        container[dep[d].service] = NoContainer \/ container[dep[d].service].by = d

\* The row of the service waits for the outcome of the run, also when it could
\* not be written.
Unpublished(d) ==
    pc[d] \in Making \/ (pc[d] = "failDep" /\ dep[d].status = "success")

Marked(d) ==
    Unpublished(d) /\ Present(dep[d].service) =>
        svc[dep[d].service].status \in {"building", "stopped"}

Outcome(d) ==
    pc[d] \in {"reload", "done"} /\ Present(dep[d].service) /\ NewestOf(d) =>
        svc[dep[d].service].status \in {"stopped", Told(dep[d].status)}

RunSound(d) == NameFree(d) /\ OwnContainer(d) /\ Marked(d) /\ Outcome(d)
RunsSound == \A d \in JobId : RunSound(d)

\* What a step of somebody else does to a deployment, its service and container.
ServicesKept(d) ==
    \A e \in JobId : dep[e].service = dep[d].service => dep'[e].service = dep[e].service

RowKept(d, s) ==
    (svc'[s].row = "present") =>
        /\ svc[s].row = "present"
        /\ dep'[d].status = dep[d].status
        /\ svc'[s].status \in {svc[s].status, "stopped"}

ContainerKept(s) ==
    \/ container'[s] = NoContainer
    \/ /\ container[s] # NoContainer /\ container'[s].by = container[s].by
       /\ s \in sticky => s \in sticky'

LEMMA RunKept ==
    ASSUME JobInv, NEW d \in JobId, RunSound(d),
           pc'[d] = pc[d] \/ pc'[d] = "dead", plan'[d] = plan[d],
           ServicesKept(d), RowKept(d, dep[d].service), ContainerKept(dep[d].service)
    PROVE  RunSound(d)'
<1> DEFINE s == dep[d].service
<1>1. dep'[d].service = s
  BY DEF ServicesKept
<1>2. NewestOf(d)' => NewestOf(d)
  BY <1>1 DEF NewestOf, ServicesKept
<1>3. NameFree(d)'
  BY <1>1 DEF RunSound, NameFree, ContainerKept
<1>4. OwnContainer(d)'
  BY <1>1 DEF RunSound, OwnContainer, ContainerKept
<1>5. Marked(d)'
  BY <1>1 DEF RunSound, Marked, Unpublished, RowKept, Making, Present
<1>6. Outcome(d)'
  BY <1>1, <1>2 DEF RunSound, Outcome, RowKept, Present
<1> QED
  BY <1>3, <1>4, <1>5, <1>6 DEF RunSound

\* A run that has not begun, or has died, promises nothing.
LEMMA RunIdle ==
    ASSUME NEW d \in JobId, pc'[d] \notin Making \union {"reload", "done"},
           pc'[d] = "failDep" => dep'[d].status # "success"
    PROVE  RunSound(d)'
BY DEF RunSound, NameFree, OwnContainer, Marked, Unpublished, Outcome, Making

LEMMA RunsInit == Init => RunsSound
BY DEF Init, RunsSound, RunSound, NameFree, OwnContainer, Marked, Unpublished, Outcome, Making


\* A deployment that was enqueued.
LEMMA Enqueued ==
    ASSUME JobInv, NEW d \in JobId
    PROVE  \/ pc[d] = "none" /\ dep[d].service = NoService
           \/ /\ dep[d].service \in Service
              /\ svc[dep[d].service].row # "absent"
              /\ ~(d > enqueued)
              /\ dep[d].status = "gone" <=> svc[dep[d].service].row = "deleted"
              /\ StatusFits(pc[d], dep[d].status)
BY DEF JobInv, RowsSound, RowSound

\* A step that leaves every run where it is.
LEMMA RunsKept ==
    ASSUME JobInv, RunsSound, pc' = pc, plan' = plan,
           \A e \in JobId : dep'[e].service = dep[e].service,
           \A d \in JobId : dep[d].service \in Service /\ svc[dep[d].service].row # "absent" =>
               RowKept(d, dep[d].service) /\ ContainerKept(dep[d].service)
    PROVE  RunsSound'
<1> SUFFICES ASSUME NEW d \in JobId PROVE RunSound(d)'
  BY DEF RunsSound
<1>1. RunSound(d) /\ ServicesKept(d)
  BY DEF RunsSound, ServicesKept
<1>2. CASE pc[d] = "none"
  <2>1. pc'[d] \notin Making \union {"reload", "done", "failDep"}
    BY <1>2 DEF Making
  <2> QED
    BY <2>1, RunIdle
<1>3. CASE pc[d] # "none"
  <2>1. dep[d].service \in Service /\ svc[dep[d].service].row # "absent"
    BY <1>3, Enqueued
  <2>2. RowKept(d, dep[d].service) /\ ContainerKept(dep[d].service)
    BY <2>1
  <2>3. pc'[d] = pc[d] /\ plan'[d] = plan[d]
    OBVIOUS
  <2> QED
    BY <1>1, <2>2, <2>3, RunKept
<1> QED
  BY <1>2, <1>3

LEMMA StopKeeps ==
    ASSUME JobInv, NEW s \in Service, StopAndRemove(s)
    PROVE  \A t \in Service : ContainerKept(t)
<1> SUFFICES ASSUME NEW t \in Service PROVE ContainerKept(t)
  OBVIOUS
<1>1. container \in [Service -> Containers] /\ sticky \subseteq Service
  BY DEF JobInv, TypeInv, RowTypes
<1>2. [container[s] EXCEPT !.state = "stopped"].by = container[s].by
  BY <1>1 DEF Containers
<1>3. CASE container' = [container EXCEPT ![s] = NoContainer] /\ sticky' = sticky \ {s}
  BY <1>1, <1>3 DEF ContainerKept
<1>4. CASE container[s] # NoContainer /\ sticky' = sticky \union {s} /\ container' = container
  BY <1>1, <1>4 DEF ContainerKept
<1>5. CASE /\ container[s] # NoContainer /\ sticky' = sticky \union {s}
           /\ container' = [container EXCEPT ![s] = [container[s] EXCEPT !.state = "stopped"]]
  BY <1>1, <1>2, <1>5 DEF ContainerKept
<1> QED
  BY <1>1, <1>3, <1>4, <1>5 DEF StopAndRemove

LEMMA UntouchedKept ==
    ASSUME container' = container, sticky' = sticky
    PROVE  \A t \in Service : ContainerKept(t)
BY DEF ContainerKept

\* The steps of handlers and of the application.
LEMMA ArrivesKept ==
    ASSUME JobInv, RunsSound, NEW r \in Request, Arrives(r)
    PROVE  RunsSound'
<1>1. pc' = pc /\ plan' = plan /\ dep' = dep /\ container' = container /\ sticky' = sticky
  BY DEF Arrives, Launch, Trigger, Deactivate, Activate, Delete, jobVars, observers
<1>2. \A t \in Service : ContainerKept(t)
  BY <1>1, UntouchedKept
<1>3. \A s \in Service : svc[s].row = "absent" \/ svc'[s] = svc[s]
  <2>1. svc \in [Service -> SvcRows]
    BY DEF JobInv, TypeInv, RowTypes
  <2> QED
    BY <2>1 DEF Arrives, Launch, Trigger, Deactivate, Activate, Delete, WriteService
<1>4. \A d \in JobId : dep[d].service \in Service /\ svc[dep[d].service].row # "absent" =>
        RowKept(d, dep[d].service)
  BY <1>1, <1>3 DEF RowKept
<1>5. \A e \in JobId : dep'[e].service = dep[e].service
  BY <1>1
<1> QED
  BY <1>1, <1>2, <1>4, <1>5, RunsKept

\* Steps that leave deployments and services alone.
LEMMA QuietKept ==
    ASSUME JobInv, RunsSound, pc' = pc, plan' = plan, dep' = dep, svc' = svc,
           \A t \in Service : ContainerKept(t)
    PROVE  RunsSound'
<1>1. \A d \in JobId : RowKept(d, dep[d].service)
  BY DEF RowKept
<1>2. \A e \in JobId : dep'[e].service = dep[e].service
  OBVIOUS
<1> QED
  BY <1>1, <1>2, RunsKept

LEMMA SetModeKept ==
    ASSUME JobInv, RunsSound, NEW s \in Service, NEW mode \in Mode, SetMode(s, mode)
    PROVE  RunsSound'
<1>1. pc' = pc /\ plan' = plan /\ dep' = dep /\ container' = container /\ sticky' = sticky
  BY DEF SetMode, jobVars
<1>2. svc \in [Service -> SvcRows] /\ svc[s] \in SvcRows
      /\ svc' = [svc EXCEPT ![s] = [svc[s] EXCEPT !.mode = mode]]
  BY DEF SetMode, WriteService, JobInv, TypeInv, RowTypes
<1>3. [svc[s] EXCEPT !.mode = mode].row = svc[s].row
      /\ [svc[s] EXCEPT !.mode = mode].status = svc[s].status
  BY <1>2 DEF SvcRows
<1>4. \A t \in Service : svc'[t].row = svc[t].row /\ svc'[t].status = svc[t].status
  BY <1>2, <1>3
<1>5. \A d \in JobId : dep[d].service \in Service => RowKept(d, dep[d].service)
  BY <1>1, <1>4 DEF RowKept
<1>6. \A t \in Service : ContainerKept(t)
  BY <1>1, UntouchedKept
<1>7. \A e \in JobId : dep'[e].service = dep[e].service
  BY <1>1
<1> QED
  BY <1>1, <1>5, <1>6, <1>7, RunsKept

LEMMA HandlerWritesKept ==
    ASSUME JobInv, RunsSound, NEW r \in Request, HandlerWrites(r)
    PROVE  RunsSound'
<1> DEFINE s == Target(r)
<1>1. TypeInv /\ s \in Service
  BY HandlerFacts DEF JobInv, HandlerWrites
<1>2. pc' = pc /\ plan' = plan /\ container' = container /\ sticky' = sticky
  BY DEF HandlerWrites, observers
<1>3. \A t \in Service : ContainerKept(t)
  BY <1>2, UntouchedKept
<1>4. Present(s)
  BY DEF HandlerWrites
<1>5. RunsSound'
  <2>1. PICK row \in SvcRows :
          /\ WriteService(s, row)
          /\ row.row = IF req[r].op = "delete" THEN "deleted" ELSE "present"
          /\ req[r].op = "deactivate" => row.status = "stopped"
          /\ req[r].op # "deactivate" => row.status = svc[s].status
    BY <1>1, <1>4, HandlerWritesRow
  <2>2. svc'[s] = row /\ \A t \in Service \ {s} : svc'[t] = svc[t]
    BY <1>1, <2>1 DEF WriteService, TypeInv, RowTypes
  <2>3. \/ dep' = dep
        \/ /\ req[r].op = "delete"
           /\ dep' = [d \in JobId |-> IF dep[d].service = s
                                  THEN [dep[d] EXCEPT !.status = "gone"] ELSE dep[d]]
    BY DEF HandlerWrites
  <2>4. /\ \A d \in JobId : dep'[d].service = dep[d].service
        /\ \A d \in JobId : dep'[d] = dep[d] \/ (req[r].op = "delete" /\ dep[d].service = s)
    <3>1. CASE dep' = dep
      BY <3>1
    <3>2. \A d \in JobId : [dep[d] EXCEPT !.status = "gone"].service = dep[d].service
      BY <1>1 DEF TypeInv, RowTypes, DepRows
    <3> HIDE DEF s
    <3> QED
      BY <2>3, <3>1, <3>2
  <2>5. svc[s].row = "present"
    BY <1>4 DEF Present
  <2> HIDE DEF s
  <2>6. \A d \in JobId : dep[d].service \in Service => RowKept(d, dep[d].service)
    <3> SUFFICES ASSUME NEW d \in JobId, dep[d].service \in Service
                 PROVE  RowKept(d, dep[d].service)
      OBVIOUS
    <3>1. CASE dep[d].service = s
      BY <2>1, <2>2, <2>4, <2>5, <3>1 DEF RowKept
    <3>2. CASE dep[d].service # s
      BY <2>2, <2>4, <3>2 DEF RowKept
    <3> QED
      BY <3>1, <3>2
  <2> QED
    BY <1>2, <1>3, <2>4, <2>6, RunsKept
<1> QED
  BY <1>5

\* The container of an application that exits or comes back.
LEMMA AppKeeps ==
    ASSUME JobInv, NEW s \in Service, AppExits(s) \/ AppRestarts(s)
    PROVE  \A t \in Service : ContainerKept(t)
<1>1. container \in [Service -> Containers] /\ container[s] \in Containers
  BY DEF JobInv, TypeInv, RowTypes
<1>2. \A state \in {"up", "exited"} : [container[s] EXCEPT !.state = state].by = container[s].by
  BY <1>1 DEF Containers
<1>3. container[s] # NoContainer
  BY DEF AppExits, AppRestarts, NoContainer
<1>4. /\ sticky' = sticky
      /\ \E state \in {"up", "exited"} :
           container' = [container EXCEPT ![s] = [container[s] EXCEPT !.state = state]]
  BY DEF AppExits, AppRestarts
<1> QED
  BY <1>1, <1>2, <1>3, <1>4 DEF ContainerKept

LEMMA AppKept ==
    ASSUME JobInv, RunsSound, NEW s \in Service, AppExits(s) \/ AppRestarts(s)
    PROVE  RunsSound'
<1>1. pc' = pc /\ plan' = plan /\ dep' = dep /\ svc' = svc
  BY DEF AppExits, AppRestarts, jobVars
<1>2. \A t \in Service : ContainerKept(t)
  BY AppKeeps
<1> QED
  BY <1>1, <1>2, QuietKept

LEMMA RestartKept ==
    ASSUME JobInv, RunsSound, Restart
    PROVE  RunsSound'
<1> SUFFICES ASSUME NEW d \in JobId PROVE RunSound(d)'
  BY DEF RunsSound
<1>1. /\ plan' = plan /\ dep' = dep /\ svc' = svc /\ sticky' = sticky /\ container' = container
      /\ pc'[d] = IF pc[d] \in {"none", "done", "lost", "unrecorded"} THEN pc[d] ELSE "dead"
  BY DEF Restart
<1>2. CASE pc[d] = "none"
  BY <1>1, <1>2, RunIdle DEF Making
<1>3. CASE pc[d] # "none"
  <2>1. dep[d].service \in Service
    BY <1>3, Enqueued
  <2>2. RunSound(d) /\ ServicesKept(d) /\ RowKept(d, dep[d].service)
    BY <1>1 DEF RunsSound, ServicesKept, RowKept
  <2>3. ContainerKept(dep[d].service)
    BY <1>1, <2>1, UntouchedKept
  <2>4. pc'[d] = pc[d] \/ pc'[d] = "dead"
    BY <1>1
  <2>5. plan'[d] = plan[d]
    BY <1>1
  <2> QED
    BY <2>2, <2>3, <2>4, <2>5, RunKept
<1> QED
  BY <1>2, <1>3

LEMMA EnqueueRowKept ==
    ASSUME JobInv, RunsSound, NEW r \in Request, EnqueueRow(r)
    PROVE  RunsSound'
<1> DEFINE new == enqueued + 1
<1>1. /\ enqueued \in Nat /\ new \in JobId /\ \A d \in JobId : d \in Nat
      /\ dep \in [JobId -> DepRows] /\ pc \in [JobId -> Pcs]
  BY MaxJobsAssumption
     DEF EnqueueRow, Enqueue, JobInv, TypeInv, RowTypes, QueueInv, QueueTypeOK, JobId
<1>2. /\ \A d \in JobId \ {new} : dep'[d] = dep[d] /\ pc'[d] = pc[d]
      /\ pc'[new] = "load"
      /\ plan' = plan /\ svc' = svc /\ sticky' = sticky /\ container' = container
  BY <1>1 DEF EnqueueRow, observers
<1>3. pc[new] = "none" /\ dep[new].service = NoService
  <2>1. new > enqueued
    BY <1>1
  <2> QED
    BY <1>1, <2>1 DEF JobInv, RowsSound, RowSound
<1> HIDE DEF new
<1> SUFFICES ASSUME NEW d \in JobId PROVE RunSound(d)'
  BY DEF RunsSound
<1>4. CASE d = new \/ pc[d] = "none"
  <2>1. pc'[d] \in {"load", "none"}
    BY <1>2, <1>4
  <2> QED
    BY <2>1, RunIdle DEF Making
<1>5. CASE d # new /\ pc[d] # "none"
  <2>1. dep[d].service \in Service
    BY <1>5, Enqueued
  <2>2. RunSound(d) /\ RowKept(d, dep[d].service)
    BY <1>2, <1>5 DEF RunsSound, RowKept
  <2>3. ServicesKept(d)
    BY <1>2, <1>3, <2>1, NoServiceAssumption DEF ServicesKept
  <2>4. ContainerKept(dep[d].service)
    BY <1>2, <2>1, UntouchedKept
  <2>5. pc'[d] = pc[d] /\ plan'[d] = plan[d]
    BY <1>2, <1>5
  <2> QED
    BY <2>2, <2>3, <2>4, <2>5, RunKept
<1> QED
  BY <1>4, <1>5


-----------------------------------------------------------------------------
(* Deployments and their service: the steps of a job                       *)

\* A step of a job leaves other deployments and other services alone.
LEMMA JobEffects ==
    ASSUME JobInv, NEW j \in executing, JobStep(j)
    PROVE  /\ \A e \in JobId \ {j.id} : pc'[e] = pc[e] /\ dep'[e] = dep[e] /\ plan'[e] = plan[e]
           /\ dep'[j.id].service = j.service
           /\ \A t \in Service \ {j.service} :
                /\ svc'[t] = svc[t] /\ container'[t] = container[t]
                /\ t \in sticky <=> t \in sticky'
<1>1. /\ j.id \in JobId /\ j.service \in Service /\ dep[j.id].service = j.service
      /\ dep[j.id] \in DepRows
  BY JobRow DEF JobInv, TypeInv, RowTypes
<1>2. /\ svc \in [Service -> SvcRows] /\ dep \in [JobId -> DepRows] /\ pc \in [JobId -> Pcs]
      /\ plan \in [JobId -> Mode \union {"none"}] /\ container \in [Service -> Containers]
  BY DEF JobInv, TypeInv, RowTypes
<1>3. \A e \in JobId \ {j.id} : pc'[e] = pc[e] /\ plan'[e] = plan[e]
  BY <1>2
     DEF JobStep, Load, MarkDep, MarkSvc, Build, RemoveOld, CreateContainer, StartContainer,
         Verify, MarkSuccess, Publish, FailDep, FailSvc, FailThrows, JobReloads, Finish, Advance, jobVars
<1>4. /\ \A e \in JobId \ {j.id} : dep'[e] = dep[e]
      /\ dep'[j.id].service = j.service
  <2>1. \/ dep' = dep
        \/ \E status \in {"building", "success", "failed"} :
             dep' = [dep EXCEPT ![j.id] = [dep[j.id] EXCEPT !.status = status]]
    BY DEF JobStep, Load, MarkDep, MarkSvc, Build, RemoveOld, CreateContainer, StartContainer,
           Verify, MarkSuccess, Publish, FailDep, FailSvc, FailThrows, JobReloads, Mark
  <2>2. \A status : [dep[j.id] EXCEPT !.status = status].service = dep[j.id].service
    BY <1>1 DEF DepRows
  <2>3. ASSUME NEW status \in {"building", "success", "failed"},
               dep' = [dep EXCEPT ![j.id] = [dep[j.id] EXCEPT !.status = status]]
        PROVE  /\ \A e \in JobId \ {j.id} : dep'[e] = dep[e]
               /\ dep'[j.id].service = j.service
    <3>1. dep'[j.id] = [dep[j.id] EXCEPT !.status = status]
      BY <1>1, <1>2, <2>3
    <3> QED
      BY <1>1, <1>2, <2>2, <2>3, <3>1
  <2> QED
    BY <1>1, <2>1, <2>3
<1>5. \A t \in Service \ {j.service} : svc'[t] = svc[t]
  BY <1>2
     DEF JobStep, Load, MarkDep, MarkSvc, Build, RemoveOld, CreateContainer, StartContainer,
         Verify, MarkSuccess, Publish, FailDep, FailSvc, FailThrows, JobReloads, WriteService
<1>6. \A t \in Service \ {j.service} : container'[t] = container[t]
  BY <1>2
     DEF JobStep, Load, MarkDep, MarkSvc, Build, RemoveOld, CreateContainer, StartContainer,
         Verify, MarkSuccess, Publish, FailDep, FailSvc, FailThrows, JobReloads, StopAndRemove
<1>7. \A t \in Service \ {j.service} : t \in sticky <=> t \in sticky'
  BY <1>2
     DEF JobStep, Load, MarkDep, MarkSvc, Build, RemoveOld, CreateContainer, StartContainer,
         Verify, MarkSuccess, Publish, FailDep, FailSvc, FailThrows, JobReloads, StopAndRemove, observers
<1> QED
  BY <1>3, <1>4, <1>5, <1>6, <1>7

\* The other runs.
LEMMA JobOthersKept ==
    ASSUME JobInv, RunsSound, NEW j \in executing, JobStep(j), NEW d \in JobId, d # j.id
    PROVE  RunSound(d)'
<1> DEFINE s == dep[d].service
<1>1. /\ pc'[d] = pc[d] /\ dep'[d] = dep[d] /\ plan'[d] = plan[d]
      /\ \A e \in JobId : dep'[e].service = dep[e].service
      /\ dep'[j.id].service = j.service /\ j.id \in JobId
  BY JobEffects, JobRow
<1>2. CASE pc[d] = "none"
  <2>1. pc'[d] \notin Making \union {"reload", "done", "failDep"}
    BY <1>1, <1>2 DEF Making
  <2> QED
    BY <2>1, RunIdle
<1>3. CASE pc[d] # "none" /\ s # j.service
  <2>1. s \in Service
    BY <1>3, Enqueued
  <2>2. svc'[s] = svc[s] /\ container'[s] = container[s] /\ (s \in sticky <=> s \in sticky')
    BY <1>3, <2>1, JobEffects
  <2>3. RunSound(d) /\ ServicesKept(d) /\ RowKept(d, s) /\ ContainerKept(s)
    BY <1>1, <2>2 DEF RunsSound, ServicesKept, RowKept, ContainerKept
  <2> QED
    BY <1>1, <2>3, RunKept
<1>4. CASE s = j.service
  <2>1. pc[d] \notin Active
    BY <1>4, OneActive
  <2>2. pc'[d] \notin Making \union {"reload", "failDep"}
    BY <1>1, <2>1 DEF Active, Live, Over, Pcs, Making
  <2>3. pc[j.id] \in Live /\ d \in Nat /\ j.id \in Nat
    BY <1>1 DEF JobInv, JobsSound, JobId
  <2>4. pc[j.id] \notin Over
    BY <2>3 DEF Live
  <2>5. CASE pc'[d] = "done"
    <3>1. ~(j.id < d)
      BY <1>1, <1>4, <2>4, <2>5, JobRow DEF JobInv, OverInOrder, Over
    <3>2. j.id > d
      BY <2>3, <3>1
    <3>3. ~NewestOf(d)'
      BY <1>1, <1>4, <2>3, <3>2 DEF NewestOf
    <3> QED
      BY <2>5, <3>3 DEF RunSound, NameFree, OwnContainer, Marked, Unpublished, Outcome, Making
  <2>6. CASE pc'[d] # "done"
    BY <2>2, <2>6, RunIdle
  <2> QED
    BY <2>5, <2>6
<1> QED
  BY <1>2, <1>3, <1>4

\* The run that makes the step.
LEMMA JobSelfKept ==
    ASSUME JobInv, RunsSound, NEW j \in executing, JobStep(j)
    PROVE  RunSound(j.id)'
<1> DEFINE d == j.id
           s == j.service
<1>1. /\ d \in JobId /\ s \in Service /\ dep[d].service = s /\ dep'[d].service = s
      /\ StatusFits(pc[d], dep[d].status) /\ (RowExists(j) <=> Present(s))
      /\ svc[s] \in SvcRows /\ RunSound(d)
  BY JobRow, JobEffects DEF RunsSound
<1>2. /\ svc \in [Service -> SvcRows] /\ dep \in [JobId -> DepRows] /\ pc \in [JobId -> Pcs]
      /\ plan \in [JobId -> Mode \union {"none"}] /\ container \in [Service -> Containers]
      /\ sticky \subseteq Service
  BY DEF JobInv, TypeInv, RowTypes
<1>3. \A at : Advance(j, at) => pc'[d] = at
  BY <1>1, <1>2 DEF Advance
<1>4. Present(s)' => Present(s)
  BY <1>1, JobKeepsRows DEF KeepsRows, Present
<1>5. NewestOf(d)' => NewestOf(d)
  <2>1. \A e \in JobId : dep'[e].service = dep[e].service
    BY <1>1, JobEffects
  <2> QED
    BY <1>1, <2>1 DEF NewestOf
<1>6. CASE Load(j) \/ MarkDep(j)
  <2>1. pc'[d] \in {"markDep", "lost", "markSvc", "failDep"}
    BY <1>3, <1>6 DEF Load, MarkDep, Finish
  <2>2. pc'[d] = "failDep" => dep'[d].status # "success"
    BY <1>1, <1>3, <1>6 DEF Load, MarkDep, Finish, At, StatusFits
  <2> QED
    BY <1>1, <2>1, <2>2, RunIdle DEF Making
<1>7. CASE MarkSvc(j)
  <2>1. CASE pc'[d] = "build"
    <3>1. svc'[s].status = "building"
      BY <1>1, <1>2, <1>3, <1>7, <2>1 DEF MarkSvc, WriteService, SvcRows
    <3> QED
      BY <1>1, <2>1, <3>1 DEF RunSound, NameFree, OwnContainer, Marked, Outcome
  <2>2. CASE pc'[d] # "build"
    <3>1. pc'[d] = "failDep" /\ dep'[d].status # "success"
      BY <1>1, <1>3, <1>7, <2>2 DEF MarkSvc, At, StatusFits
    <3> QED
      BY <1>1, <3>1, RunIdle DEF Making
  <2> QED
    BY <2>1, <2>2
\* From build to publish the row of the service is left alone.
<1>8. ASSUME svc' = svc, pc[d] \in Making
      PROVE  Marked(d)'
  BY <1>1, <1>8 DEF RunSound, Marked, Unpublished, Present
<1>9. CASE Build(j)
  <2>1. /\ svc' = svc /\ pc[d] \in Making /\ plan'[d] = plan[d]
        /\ pc'[d] \in {"failDep", "remove", "markSuccess"}
        /\ pc'[d] = "markSuccess" => plan[d] = "static"
    BY <1>3, <1>9 DEF Build, At, Making
  <2>2. Marked(d)'
    BY <1>8, <2>1
  <2> QED
    BY <2>1, <2>2 DEF RunSound, NameFree, OwnContainer, Outcome
<1>10. CASE RemoveOld(j)
  <2>1. svc' = svc /\ pc[d] \in Making /\ pc'[d] = "create"
    BY <1>3, <1>10 DEF RemoveOld, At, Making
  <2>2. container'[s] = NoContainer \/ s \in sticky'
    BY <1>1, <1>2, <1>10 DEF RemoveOld, StopAndRemove
  <2>3. Marked(d)'
    BY <1>8, <2>1
  <2> QED
    BY <1>1, <2>1, <2>2, <2>3 DEF RunSound, NameFree, OwnContainer, Outcome
<1>11. CASE CreateContainer(j) \/ StartContainer(j) \/ Verify(j)
  <2>1. /\ svc' = svc /\ pc[d] \in Making
        /\ pc'[d] \in {"start", "verify", "markSuccess", "failDep"}
    BY <1>3, <1>11 DEF CreateContainer, StartContainer, Verify, At, Making
  <2>2. pc'[d] # "failDep" => container'[s].by = d
    <3>1. [by |-> d, state |-> "created"].by = d
      OBVIOUS
    <3>2. [container[s] EXCEPT !.state = "up"].by = container[s].by
      BY <1>1, <1>2 DEF Containers
    <3>3. CASE CreateContainer(j)
      BY <1>1, <1>2, <1>3, <3>1, <3>3 DEF CreateContainer
    <3>4. CASE StartContainer(j)
      BY <1>1, <1>2, <1>3, <3>2, <3>4 DEF StartContainer
    <3>5. CASE Verify(j)
      BY <1>1, <1>2, <1>3, <3>5 DEF Verify
    <3> QED
      BY <1>11, <3>3, <3>4, <3>5
  <2>3. Marked(d)'
    BY <1>8, <2>1
  <2> QED
    BY <1>1, <2>1, <2>2, <2>3 DEF RunSound, NameFree, OwnContainer, Outcome
<1>12. CASE MarkSuccess(j)
  <2>1. /\ svc' = svc /\ pc[d] = "markSuccess" /\ pc'[d] \in {"publish", "failDep"}
        /\ container' = container /\ plan' = plan
    BY <1>3, <1>12 DEF MarkSuccess, At
  <2>2. Marked(d)'
    BY <1>8, <2>1 DEF Making
  <2>3. OwnContainer(d)'
    BY <1>1, <2>1 DEF RunSound, OwnContainer
  <2> QED
    BY <2>1, <2>2, <2>3 DEF RunSound, NameFree, Outcome
<1>13. CASE Publish(j)
  <2>1. CASE pc'[d] = "reload"
    <3> DEFINE named == plan[d] = "server"
    <3>1. svc' = [svc EXCEPT ![s] = [svc[s] EXCEPT !.status = "running", !.named = named]]
          /\ dep' = dep /\ Present(s)
      BY <1>3, <1>13, <2>1 DEF Publish, WriteService
    <3>2. svc'[s].status = "running"
      <4> HIDE DEF named
      <4> QED
        BY <1>1, <1>2, <3>1 DEF SvcRows
    <3>3. dep[d].status = "success"
      BY <1>1, <1>13, <3>1 DEF Publish, At, StatusFits, RowExists
    <3> QED
      BY <1>1, <2>1, <3>1, <3>2, <3>3 DEF RunSound, NameFree, OwnContainer, Marked, Unpublished,
                                          Outcome, Making, Told
  <2>2. CASE pc'[d] # "reload"
    <3>1. pc'[d] = "failDep" /\ svc' = svc /\ pc[d] = "publish"
      BY <1>3, <1>13, <2>2 DEF Publish, At
    <3>2. Marked(d)'
      BY <1>8, <3>1 DEF Making
    <3> QED
      BY <3>1, <3>2 DEF RunSound, NameFree, OwnContainer, Outcome
  <2> QED
    BY <2>1, <2>2
<1>14. CASE FailThrows(j)
  <2>1. pc'[d] = "unrecorded"
    BY <1>3, <1>14 DEF FailThrows, Finish
  <2> QED
    BY <1>1, <2>1, RunIdle DEF Making
<1>15. CASE FailDep(j)
  <2>1. pc'[d] = "failSvc"
    BY <1>1, <1>3, <1>15 DEF FailDep
  <2> QED
    BY <1>1, <2>1, RunIdle DEF Making
<1>16. CASE FailSvc(j)
  <2>1. svc' = [svc EXCEPT ![s] = [svc[s] EXCEPT !.status = "failed", !.named = FALSE]]
        /\ pc'[d] = "reload" /\ dep' = dep /\ Present(s)
    BY <1>3, <1>16 DEF FailSvc, WriteService
  <2>2. svc'[s].status = "failed"
    BY <1>1, <1>2, <2>1 DEF SvcRows
  <2>3. dep[d].status = "failed"
    BY <1>1, <1>16, <2>1 DEF FailSvc, At, StatusFits, RowExists
  <2> QED
    BY <1>1, <2>1, <2>2, <2>3 DEF RunSound, NameFree, OwnContainer, Marked, Unpublished, Outcome,
                                  Making, Told
<1>17. CASE JobReloads(j)
  <2>1. pc'[d] = "done" /\ pc[d] = "reload" /\ svc' = svc /\ dep' = dep
    BY <1>3, <1>17 DEF JobReloads, Finish, At
  <2>2. Outcome(d)'
    BY <1>1, <1>5, <2>1 DEF RunSound, Outcome, Present
  <2> QED
    BY <2>1, <2>2 DEF RunSound, NameFree, OwnContainer, Marked, Unpublished, Making
<1> QED
  BY <1>6, <1>7, <1>9, <1>10, <1>11, <1>12, <1>13, <1>14, <1>15, <1>16, <1>17 DEF JobStep

LEMMA RunsStep == JobInv /\ RunsSound /\ [Next]_vars => RunsSound'
<1> SUFFICES ASSUME JobInv, RunsSound, [Next]_vars PROVE RunsSound'
  OBVIOUS
<1>1. ASSUME NEW j \in executing, JobStep(j)
      PROVE  RunsSound'
  BY <1>1, JobOthersKept, JobSelfKept DEF RunsSound
<1>2. ASSUME pc' = pc, plan' = plan, dep' = dep, svc' = svc, container' = container,
             sticky' = sticky
      PROVE  RunsSound'
  BY <1>2, QuietKept, UntouchedKept
<1>3. ASSUME NEW r \in Request, HandlerStep(r)
      PROVE  RunsSound'
  <2>1. CASE CreateRow(r) \/ HandlerThrows(r) \/ HandlerReloads(r)
    BY <1>2, <2>1 DEF CreateRow, HandlerThrows, HandlerReloads, jobVars, observers
  <2>2. CASE HandlerStops(r)
    <3>1. StopAndRemove(Target(r)) /\ Target(r) \in Service
      BY <2>2, HandlerFacts DEF HandlerStops, JobInv
    <3>2. \A t \in Service : ContainerKept(t)
      BY <3>1, StopKeeps
    <3>3. pc' = pc /\ plan' = plan /\ dep' = dep /\ svc' = svc
      BY <2>2 DEF HandlerStops, jobVars
    <3> QED
      BY <3>2, <3>3, QuietKept
  <2> QED
    BY <1>3, <2>1, <2>2, EnqueueRowKept, HandlerWritesKept DEF HandlerStep
<1>4. CASE StartupReload
  BY <1>2, <1>4 DEF StartupReload, jobVars
<1>5. CASE UNCHANGED vars
  BY <1>2, <1>5 DEF vars, jobVars
<1> QED
  BY <1>1, <1>3, <1>4, <1>5, ArrivesKept, SetModeKept, AppKept, RestartKept DEF Next


-----------------------------------------------------------------------------
(* What a running service points at                                        *)

IsSuccess(d, s) == dep[d] = [service |-> s, status |-> "success"]
SaysRunning(s) == svc[s].row = "present" /\ svc[s].status = "running" /\ svc[s].named

\* The container of a service that says "running" is of the newest success.
ServingSound(s) ==
    SaysRunning(s) /\ container[s] # NoContainer =>
        /\ container[s].by \in JobId /\ IsSuccess(container[s].by, s)
        /\ \A e \in JobId : IsSuccess(e, s) => e <= container[s].by

ServingsSound == \A s \in Service : ServingSound(s)

\* The service does not come to say "running", its container is the same or
\* gone, and the deployments that succeeded are the same.
ServingKept(s) ==
    \/ ~SaysRunning(s)'
    \/ /\ SaysRunning(s)
       /\ \/ container'[s] = NoContainer
          \/ container[s] # NoContainer /\ container'[s].by = container[s].by
       /\ \A d \in JobId : IsSuccess(d, s)' <=> IsSuccess(d, s)

LEMMA ServingStays ==
    ASSUME NEW s \in Service, ServingSound(s), ServingKept(s)
    PROVE  ServingSound(s)'
BY DEF ServingSound, ServingKept

LEMMA ServingInit == Init => ServingsSound
BY DEF Init, ServingsSound, ServingSound, SaysRunning, NoRow

\* A step that leaves deployments alone, and services but for a status that is
\* not "running".
LEMMA ServingsStay ==
    ASSUME JobInv, ServingsSound, dep' = dep, \A t \in Service : ContainerKept(t),
           \A t \in Service : SaysRunning(t)' => SaysRunning(t)
    PROVE  ServingsSound'
<1> SUFFICES ASSUME NEW s \in Service PROVE ServingSound(s)'
  BY DEF ServingsSound
<1>1. ServingKept(s)
  BY DEF ServingKept, ContainerKept, IsSuccess
<1> QED
  BY <1>1, ServingStays DEF ServingsSound

LEMMA EnqueueRowServes ==
    ASSUME JobInv, ServingsSound, NEW r \in Request, EnqueueRow(r)
    PROVE  ServingsSound'
<1> DEFINE new == enqueued + 1
<1>1. /\ enqueued \in Nat /\ new \in JobId /\ \A d \in JobId : d \in Nat
      /\ dep \in [JobId -> DepRows]
  BY MaxJobsAssumption
     DEF EnqueueRow, Enqueue, JobInv, TypeInv, RowTypes, QueueInv, QueueTypeOK, JobId
<1>2. /\ \A d \in JobId \ {new} : dep'[d] = dep[d]
      /\ dep'[new].status \in {"queued", "gone"} /\ svc' = svc /\ container' = container
  BY <1>1 DEF EnqueueRow
<1>3. dep[new].status = "none"
  <2>1. new > enqueued
    BY <1>1
  <2> QED
    BY <1>1, <2>1 DEF JobInv, RowsSound, RowSound
<1> HIDE DEF new
<1> SUFFICES ASSUME NEW s \in Service PROVE ServingSound(s)'
  BY DEF ServingsSound
<1>4. \A d \in JobId : IsSuccess(d, s)' <=> IsSuccess(d, s)
  <2> SUFFICES ASSUME NEW d \in JobId PROVE IsSuccess(d, s)' <=> IsSuccess(d, s)
    OBVIOUS
  <2>1. CASE d = new
    <3>1. dep[d].status # "success" /\ dep'[d].status # "success"
      BY <1>2, <1>3, <2>1
    <3> QED
      BY <3>1 DEF IsSuccess
  <2>2. CASE d # new
    BY <1>2, <2>2 DEF IsSuccess
  <2> QED
    BY <2>1, <2>2
<1>5. ServingKept(s)
  BY <1>2, <1>4 DEF ServingKept, SaysRunning
<1> QED
  BY <1>5, ServingStays DEF ServingsSound

LEMMA HandlerWritesServes ==
    ASSUME JobInv, ServingsSound, NEW r \in Request, HandlerWrites(r)
    PROVE  ServingsSound'
<1> DEFINE s == Target(r)
<1>1. TypeInv /\ s \in Service
  BY HandlerFacts DEF JobInv, HandlerWrites
<1>2. container' = container /\ sticky' = sticky
  BY DEF HandlerWrites, observers
<1>3. \A t \in Service : ContainerKept(t)
  BY <1>2, UntouchedKept
<1>4. Present(s)
  BY DEF HandlerWrites
<1>5. ServingsSound'
  <2>1. PICK row \in SvcRows :
          /\ WriteService(s, row)
          /\ row.row = IF req[r].op = "delete" THEN "deleted" ELSE "present"
          /\ req[r].op = "deactivate" => row.status = "stopped"
          /\ req[r].op # "deactivate" => row.status = svc[s].status /\ row.named = svc[s].named
    BY <1>1, <1>4, HandlerWritesRow
  <2>2. svc'[s] = row /\ \A t \in Service \ {s} : svc'[t] = svc[t]
    BY <1>1, <2>1 DEF WriteService, TypeInv, RowTypes
  <2>3. svc[s].row = "present"
    BY <1>4 DEF Present
  <2> HIDE DEF s
  <2>4. \A t \in Service : SaysRunning(t)' => SaysRunning(t)
    BY <2>1, <2>2, <2>3 DEF SaysRunning
  <2>5. CASE dep' = dep
    BY <1>3, <2>4, <2>5, ServingsStay
  <2>6. CASE /\ req[r].op = "delete"
             /\ dep' = [d \in JobId |-> IF dep[d].service = s
                                  THEN [dep[d] EXCEPT !.status = "gone"] ELSE dep[d]]
    <3> SUFFICES ASSUME NEW t \in Service PROVE ServingSound(t)'
      BY DEF ServingsSound
    <3>1. CASE t = s
      <4>1. ~SaysRunning(t)'
        BY <2>1, <2>2, <2>6, <3>1 DEF SaysRunning
      <4> QED
        BY <4>1 DEF ServingSound
    <3>2. CASE t # s
      <4>1. \A d \in JobId : [dep[d] EXCEPT !.status = "gone"].service = dep[d].service
        BY <1>1 DEF TypeInv, RowTypes, DepRows
      <4>2. \A d \in JobId : IsSuccess(d, t)' <=> IsSuccess(d, t)
        <5> SUFFICES ASSUME NEW d \in JobId PROVE IsSuccess(d, t)' <=> IsSuccess(d, t)
          OBVIOUS
        <5>1. CASE dep[d].service = s
          <6>1. dep'[d].service = s
            BY <2>6, <4>1, <5>1
          <6> QED
            BY <3>2, <5>1, <6>1 DEF IsSuccess
        <5>2. CASE dep[d].service # s
          BY <2>6, <5>2 DEF IsSuccess
        <5> QED
          BY <5>1, <5>2
      <4>3. ServingKept(t)
        BY <1>2, <2>4, <4>2 DEF ServingKept
      <4> QED
        BY <4>3, ServingStays DEF ServingsSound
    <3> QED
      BY <3>1, <3>2
  <2>7. dep' = dep \/ (/\ req[r].op = "delete"
                       /\ dep' = [d \in JobId |-> IF dep[d].service = s
                                  THEN [dep[d] EXCEPT !.status = "gone"] ELSE dep[d]])
    BY DEF HandlerWrites, s
  <2> QED
    BY <2>5, <2>6, <2>7
<1> QED
  BY <1>5

LEMMA SetModeServes ==
    ASSUME JobInv, ServingsSound, NEW s \in Service, NEW mode \in Mode, SetMode(s, mode)
    PROVE  ServingsSound'
<1>1. dep' = dep /\ container' = container /\ sticky' = sticky
  BY DEF SetMode, jobVars
<1>2. svc \in [Service -> SvcRows] /\ svc[s] \in SvcRows
      /\ svc' = [svc EXCEPT ![s] = [svc[s] EXCEPT !.mode = mode]]
  BY DEF SetMode, WriteService, JobInv, TypeInv, RowTypes
<1>3. /\ [svc[s] EXCEPT !.mode = mode].row = svc[s].row
      /\ [svc[s] EXCEPT !.mode = mode].status = svc[s].status
      /\ [svc[s] EXCEPT !.mode = mode].named = svc[s].named
  BY <1>2 DEF SvcRows
<1>4. \A t \in Service : SaysRunning(t)' => SaysRunning(t)
  BY <1>2, <1>3 DEF SaysRunning
<1>5. \A t \in Service : ContainerKept(t)
  BY <1>1, UntouchedKept
<1> QED
  BY <1>1, <1>4, <1>5, ServingsStay

LEMMA ArrivesServes ==
    ASSUME JobInv, ServingsSound, NEW r \in Request, Arrives(r)
    PROVE  ServingsSound'
<1>1. dep' = dep /\ container' = container /\ sticky' = sticky
  BY DEF Arrives, Launch, Trigger, Deactivate, Activate, Delete, jobVars, observers
<1>2. \A t \in Service : svc'[t] = svc[t] \/ svc'[t].status = "idle"
  <2>1. svc \in [Service -> SvcRows]
    BY DEF JobInv, TypeInv, RowTypes
  <2> QED
    BY <2>1 DEF Arrives, Launch, Trigger, Deactivate, Activate, Delete, WriteService
<1>3. \A t \in Service : SaysRunning(t)' => SaysRunning(t)
  BY <1>2 DEF SaysRunning
<1>4. \A t \in Service : ContainerKept(t)
  BY <1>1, UntouchedKept
<1> QED
  BY <1>1, <1>3, <1>4, ServingsStay

\* No later deployment of its service has succeeded while a job runs.
LEMMA NewestSuccess ==
    ASSUME JobInv, NEW j \in executing, NEW e \in JobId, IsSuccess(e, j.service)
    PROVE  e <= j.id
<1>1. dep[e].service = j.service /\ dep[e].status = "success"
  BY DEF IsSuccess
<1>2. /\ j.id \in JobId /\ j.service \in Service /\ dep[j.id].service = j.service
      /\ pc[j.id] \in Live /\ j.id \in Nat /\ e \in Nat
  BY JobRow DEF JobInv, JobsSound, JobId
<1>3. StatusFits(pc[e], "success") /\ pc[e] # "none"
  BY <1>1, <1>2, Enqueued, NoServiceAssumption DEF StatusFits
<1>4. CASE pc[e] \in Active
  <2>1. e = j.id
    BY <1>1, <1>4, OneActive
  <2> QED
    BY <1>2, <2>1
<1>5. CASE pc[e] \notin Active
  <2>1. pc[e] \in Over
    BY <1>3, <1>5 DEF StatusFits, Active, Live, Over, Pcs
  <2>2. ~(j.id < e)
    BY <1>1, <1>2, <2>1 DEF JobInv, OverInOrder, Live
  <2> QED
    BY <1>2, <2>2
<1> QED
  BY <1>4, <1>5

LEMMA JobStepServes ==
    ASSUME JobInv, RunsSound, ServingsSound, NEW j \in executing, JobStep(j)
    PROVE  ServingsSound'
<1> DEFINE d == j.id
           s == j.service
<1>1. /\ d \in JobId /\ s \in Service /\ dep[d].service = s /\ dep'[d].service = s
      /\ StatusFits(pc[d], dep[d].status) /\ (RowExists(j) <=> Present(s))
      /\ svc[s] \in SvcRows /\ RunSound(d) /\ ServingSound(s)
  BY JobRow, JobEffects DEF RunsSound, ServingsSound
<1>2. /\ svc \in [Service -> SvcRows] /\ dep \in [JobId -> DepRows] /\ pc \in [JobId -> Pcs]
      /\ dep[d] \in DepRows
      /\ plan \in [JobId -> Mode \union {"none"}] /\ container \in [Service -> Containers]
  BY <1>1 DEF JobInv, TypeInv, RowTypes
<1>3. \A e \in JobId \ {d} : dep'[e] = dep[e]
  BY JobEffects
<1>4. ASSUME NEW t \in Service, t # s
      PROVE  ServingSound(t)'
  <2>1. svc'[t] = svc[t] /\ container'[t] = container[t]
    BY <1>4, JobEffects
  <2>2. \A e \in JobId : IsSuccess(e, t)' <=> IsSuccess(e, t)
    <3>1. ~IsSuccess(d, t) /\ ~IsSuccess(d, t)'
      BY <1>1, <1>4 DEF IsSuccess
    <3> QED
      BY <1>3, <3>1 DEF IsSuccess
  <2>3. ServingKept(t) \/ (container[t] = NoContainer /\ container'[t] = NoContainer)
    BY <2>1, <2>2 DEF ServingKept, SaysRunning
  <2> QED
    BY <2>3, ServingStays DEF ServingSound, ServingsSound
<1> SUFFICES ServingSound(s)'
  BY <1>4 DEF ServingsSound
\* While the run makes a container, the service does not say "running".
<1>5. ASSUME svc' = svc, Unpublished(d)
      PROVE  ServingSound(s)'
  <2>1. ~SaysRunning(s)
    BY <1>1, <1>5 DEF RunSound, Marked, SaysRunning, Present
  <2>2. ~SaysRunning(s)'
    BY <1>5, <2>1 DEF SaysRunning
  <2> QED
    BY <2>2 DEF ServingSound
\* A row that is not of a success, and does not become one.
<1>6. ASSUME svc' = svc, container' = container, dep[d].status # "success",
             dep'[d].status # "success"
      PROVE  ServingSound(s)'
  <2>1. \A e \in JobId : IsSuccess(e, s)' <=> IsSuccess(e, s)
    <3>1. ~IsSuccess(d, s) /\ ~IsSuccess(d, s)'
      BY <1>6 DEF IsSuccess
    <3> QED
      BY <1>3, <3>1 DEF IsSuccess
  <2>2. SaysRunning(s)' <=> SaysRunning(s)
    BY <1>6 DEF SaysRunning
  <2> QED
    BY <1>1, <1>6, <2>1, <2>2 DEF ServingSound
<1>7. ASSUME svc' = svc, container' = container, dep' = dep
      PROVE  ServingSound(s)'
  BY <1>1, <1>7 DEF ServingSound, SaysRunning, IsSuccess
<1>8. CASE Load(j) \/ JobReloads(j)
  BY <1>7, <1>8 DEF Load, JobReloads
<1>9. CASE MarkDep(j)
  <2>1. CASE Mark(j, "building")
    <3>1. dep[d].status # "success"
      BY <1>1, <1>9 DEF MarkDep, At, StatusFits
    <3>2. dep'[d].status = "building"
      BY <1>1, <1>2, <1>9, <2>1 DEF Mark, DepRows
    <3> QED
      BY <1>6, <1>9, <3>1, <3>2 DEF MarkDep
  <2> QED
    BY <1>7, <1>9, <2>1 DEF MarkDep
<1>10. CASE MarkSvc(j)
  <2>1. CASE svc' # svc
    <3>1. svc'[s].status = "building"
      BY <1>1, <1>2, <1>10, <2>1 DEF MarkSvc, WriteService, SvcRows
    <3> QED
      BY <3>1 DEF ServingSound, SaysRunning
  <2> QED
    BY <1>7, <1>10, <2>1 DEF MarkSvc
<1>11. CASE \/ Build(j) \/ RemoveOld(j) \/ CreateContainer(j) \/ StartContainer(j) \/ Verify(j)
            \/ MarkSuccess(j)
  BY <1>5, <1>11 DEF Build, RemoveOld, CreateContainer, StartContainer, Verify, MarkSuccess, At,
                     Making, Unpublished
<1>12. CASE Publish(j)
  <2>1. CASE svc' # svc
    <3>1. /\ svc'[s].named => plan[d] = "server"
          /\ container' = container /\ dep' = dep /\ pc[d] = "publish"
      <4> DEFINE named == plan[d] = "server"
      <4>1. svc' = [svc EXCEPT ![s] = [svc[s] EXCEPT !.status = "running", !.named = named]]
        BY <1>12, <2>1 DEF Publish, WriteService
      <4>2. svc'[s].named = named
        <5> HIDE DEF named
        <5> QED
          BY <1>1, <1>2, <4>1 DEF SvcRows
      <4>3. container' = container /\ dep' = dep /\ pc[d] = "publish"
        BY <1>12 DEF Publish, At
      <4> QED
        BY <4>2, <4>3
    <3>2. dep[d].status = "success"
      BY <1>1, <1>12, <2>1, <3>1 DEF Publish, StatusFits, RowExists
    <3>3. IsSuccess(d, s)
      BY <1>1, <1>2, <3>2 DEF IsSuccess, DepRows
    <3>4. \A e \in JobId : IsSuccess(e, s) => e <= d
      BY NewestSuccess
    <3>5. SaysRunning(s)' /\ container'[s] # NoContainer => container[s].by = d
      BY <1>1, <3>1 DEF RunSound, OwnContainer, SaysRunning
    <3> HIDE DEF d, s
    <3> QED
      BY <1>1, <3>1, <3>3, <3>4, <3>5 DEF ServingSound, IsSuccess
  <2> QED
    BY <1>7, <1>12, <2>1 DEF Publish
<1>13. CASE FailDep(j)
  <2>1. CASE dep[d].status # "success"
    <3>1. dep'[d].status = "failed"
      BY <1>1, <1>2, <1>13, <2>1 DEF FailDep, Mark, DepRows
    <3> QED
      BY <1>6, <1>13, <2>1, <3>1 DEF FailDep
  <2>2. CASE dep[d].status = "success"
    BY <1>5, <1>13, <2>2 DEF FailDep, At, Unpublished
  <2> QED
    BY <2>1, <2>2
<1>14. CASE FailSvc(j)
  <2>1. svc' = [svc EXCEPT ![s] = [svc[s] EXCEPT !.status = "failed", !.named = FALSE]]
    BY <1>14 DEF FailSvc, WriteService
  <2>2. svc'[s].status = "failed"
    BY <1>1, <1>2, <2>1 DEF SvcRows
  <2> QED
    BY <2>2 DEF ServingSound, SaysRunning
<1>15. CASE FailThrows(j)
  BY <1>7, <1>15 DEF FailThrows
<1> QED
  BY <1>15, <1>8, <1>9, <1>10, <1>11, <1>12, <1>13, <1>14 DEF JobStep

LEMMA ServingsStep == JobInv /\ RunsSound /\ ServingsSound /\ [Next]_vars => ServingsSound'
<1> SUFFICES ASSUME JobInv, RunsSound, ServingsSound, [Next]_vars PROVE ServingsSound'
  OBVIOUS
<1>1. ASSUME dep' = dep, svc' = svc, \A t \in Service : ContainerKept(t)
      PROVE  ServingsSound'
  <2>1. \A t \in Service : SaysRunning(t)' => SaysRunning(t)
    BY <1>1 DEF SaysRunning
  <2> QED
    BY <1>1, <2>1, ServingsStay
<1>2. ASSUME dep' = dep, svc' = svc, container' = container, sticky' = sticky
      PROVE  ServingsSound'
  BY <1>1, <1>2, UntouchedKept
<1>3. ASSUME NEW r \in Request, HandlerStep(r)
      PROVE  ServingsSound'
  <2>1. CASE CreateRow(r) \/ HandlerThrows(r) \/ HandlerReloads(r)
    BY <1>2, <2>1 DEF CreateRow, HandlerThrows, HandlerReloads, jobVars, observers
  <2>2. CASE HandlerStops(r)
    <3>1. StopAndRemove(Target(r)) /\ Target(r) \in Service
      BY <2>2, HandlerFacts DEF HandlerStops, JobInv
    <3>2. \A t \in Service : ContainerKept(t)
      BY <3>1, StopKeeps
    <3>3. dep' = dep /\ svc' = svc
      BY <2>2 DEF HandlerStops, jobVars
    <3> QED
      BY <1>1, <3>2, <3>3
  <2> QED
    BY <1>3, <2>1, <2>2, EnqueueRowServes, HandlerWritesServes DEF HandlerStep
<1>4. ASSUME NEW s \in Service, AppExits(s) \/ AppRestarts(s)
      PROVE  ServingsSound'
  <2>1. \A t \in Service : ContainerKept(t)
    BY <1>4, AppKeeps
  <2> QED
    BY <1>1, <1>4, <2>1 DEF AppExits, AppRestarts, jobVars
<1>5. CASE StartupReload \/ Restart
  BY <1>2, <1>5 DEF StartupReload, Restart, jobVars
<1>6. CASE UNCHANGED vars
  BY <1>2, <1>6 DEF vars, jobVars
<1> QED
  BY <1>3, <1>4, <1>5, <1>6, ArrivesServes, SetModeServes, JobStepServes DEF Next


-----------------------------------------------------------------------------
(* What Caddy serves                                                       *)

\* Steps of a run that a reload follows, as long as the service exists.
Ending == Making \union {"failDep", "failSvc", "reload"}

\* A handler is about to reload after a change that concerns service s.
HandlerDue(r, s) ==
    /\ req[r].target = s
    /\ \/ req[r].at = "reload"
       \/ svc[s].row = "present" /\ req[r].op = "launch" /\ req[r].at = "enqueue"

JobDue(s) ==
    /\ svc[s].row = "present"
    /\ \E j \in executing : j.service = s /\ pc[j.id] \in Ending

DueFor(s) == (\E r \in Request : HandlerDue(r, s)) \/ JobDue(s)

CurrentOrDue(s) == s \in unsynced \/ caddy[s] = Render(s, Up) \/ DueFor(s)
CaddySound == \A s \in Service : CurrentOrDue(s)

LEMMA RenderKept ==
    ASSUME NEW s \in Service, svc'[s] = svc[s], container'[s] = container[s],
           HasSuccess(s)' <=> HasSuccess(s)
    PROVE  Render(s, Up)' = Render(s, Up)
BY DEF Render, Present, StaticReady, ServerReady, Up

LEMMA GoneIsAbsent ==
    ASSUME NEW s \in Service, svc[s].row # "present"
    PROVE  Render(s, Up) = "absent"
BY DEF Render, Present

LEMMA CaddyInit == Init => CaddySound
<1> SUFFICES ASSUME Init, NEW s \in Service PROVE CurrentOrDue(s)
  BY DEF CaddySound
<1>1. svc[s].row # "present" /\ caddy[s] = "absent"
  BY DEF Init, NoRow
<1> QED
  BY <1>1, GoneIsAbsent DEF CurrentOrDue

LEMMA SuccessesKept ==
    ASSUME dep' = dep
    PROVE  \A s \in Service : HasSuccess(s)' <=> HasSuccess(s)
BY DEF HasSuccess

LEMMA ReloadCurrent ==
    ASSUME Reload, svc' = svc, dep' = dep, container' = container
    PROVE  CaddySound'
<1> SUFFICES ASSUME NEW s \in Service PROVE CurrentOrDue(s)'
  BY DEF CaddySound
<1>1. Render(s, Up)' = Render(s, Up)
  BY RenderKept, SuccessesKept
<1>2. ASSUME NEW listed, Deliver(listed)
      PROVE  CurrentOrDue(s)'
  BY <1>1, <1>2 DEF Deliver, CurrentOrDue
<1>3. CASE unsynced' = Service
  BY <1>3 DEF CurrentOrDue
<1> QED
  BY <1>2, <1>3 DEF Reload

\* A step without a reload.
Followed(s) ==
    \/ s \in unsynced'
    \/ DueFor(s)'
    \/ Render(s, Up)' = Render(s, Up) /\ (DueFor(s) => DueFor(s)')

LEMMA CurrentStays ==
    ASSUME CaddySound, caddy' = caddy, unsynced \subseteq unsynced',
           \A s \in Service : Followed(s)
    PROVE  CaddySound'
BY DEF CaddySound, CurrentOrDue, Followed

\* Who was to reload still is, if it is not the one that makes the step.
LEMMA DueKept ==
    ASSUME NEW s \in Service, executing \subseteq executing',
           \A j \in executing : pc'[j.id] = pc[j.id],
           svc'[s].row = svc[s].row,
           \A r \in Request : HandlerDue(r, s) => HandlerDue(r, s)'
    PROVE  DueFor(s) => DueFor(s)'
BY DEF DueFor, JobDue

LEMMA HandlerDueKept ==
    ASSUME NEW s \in Service, NEW r \in Request, req'[r] = req[r], svc'[s].row = svc[s].row
    PROVE  HandlerDue(r, s) => HandlerDue(r, s)'
BY DEF HandlerDue

LEMMA ArrivesFollowed ==
    ASSUME JobInv, CaddySound, NEW r \in Request, Arrives(r)
    PROVE  CaddySound'
<1>1. /\ executing' = executing /\ pc' = pc /\ dep' = dep /\ container' = container
      /\ caddy' = caddy /\ unsynced' = unsynced
  BY DEF Arrives, Launch, Trigger, Deactivate, Activate, Delete, jobVars, observers, queueVars
<1>2. /\ svc \in [Service -> SvcRows] /\ req \in [Request -> Handlers]
      /\ req[r] = Idle /\ \A q \in Request \ {r} : req'[q] = req[q]
  BY DEF Arrives, Launch, Trigger, Deactivate, Activate, Delete, Begin, JobInv, TypeInv,
         RowTypes
<1>3. \A s \in Service : Followed(s)
  <2> SUFFICES ASSUME NEW s \in Service PROVE Followed(s)
    OBVIOUS
  <2>1. CASE svc'[s] = svc[s]
    <3>1. Render(s, Up)' = Render(s, Up)
      BY <1>1, <2>1, RenderKept, SuccessesKept
    <3>2. \A q \in Request : HandlerDue(q, s) => HandlerDue(q, s)'
      <4>1. ~HandlerDue(r, s)
        BY <1>2, NoServiceAssumption DEF HandlerDue, Idle
      <4> QED
        BY <1>2, <2>1, <4>1, HandlerDueKept
    <3>3. DueFor(s) => DueFor(s)'
      BY <1>1, <2>1, <3>2, DueKept
    <3> QED
      BY <3>1, <3>3 DEF Followed
  <2>2. CASE svc'[s] # svc[s]
    <3>1. PICK t \in Service, mode \in LaunchMode : Launch(r, t, mode)
      BY <2>2 DEF Arrives, Trigger, Deactivate, Activate, Delete
    <3>2. /\ svc' = [svc EXCEPT ![t] = [row |-> "present", active |-> TRUE, mode |-> mode,
                                        status |-> "idle", named |-> FALSE]]
          /\ req' = [req EXCEPT ![r] = [op |-> "launch", at |-> "enqueue", target |-> t]]
      BY <3>1 DEF Launch, WriteService, Begin
    <3>3. s = t
      BY <1>2, <2>2, <3>2
    <3>4. /\ svc'[s].row = "present"
          /\ req'[r] = [op |-> "launch", at |-> "enqueue", target |-> s]
      BY <1>2, <3>2, <3>3
    <3>5. HandlerDue(r, s)'
      BY <3>4 DEF HandlerDue
    <3> QED
      BY <3>5 DEF Followed, DueFor
  <2> QED
    BY <2>1, <2>2
<1> QED
  BY <1>1, <1>3, CurrentStays

\* A handler's step that leaves rows and containers alone.
LEMMA CreateRowFollowed ==
    ASSUME JobInv, CaddySound, NEW r \in Request, CreateRow(r) \/ HandlerThrows(r)
    PROVE  CaddySound'
<1>1. /\ executing' = executing /\ pc' = pc /\ dep' = dep /\ container' = container
      /\ caddy' = caddy /\ unsynced' = unsynced /\ svc' = svc
      /\ req[r].at \in {"createRow", "write"} /\ \A q \in Request \ {r} : req'[q] = req[q]
  BY DEF CreateRow, HandlerThrows, jobVars, observers, queueVars, Handler, Goto, Return, JobInv, TypeInv,
         RowTypes
<1>2. \A s \in Service : Followed(s)
  <2> SUFFICES ASSUME NEW s \in Service PROVE Followed(s)
    OBVIOUS
  <2>1. Render(s, Up)' = Render(s, Up)
    BY <1>1, RenderKept, SuccessesKept
  <2>2. \A q \in Request : HandlerDue(q, s) => HandlerDue(q, s)'
    <3>1. ~HandlerDue(r, s)
      BY <1>1 DEF HandlerDue
    <3> QED
      BY <1>1, <3>1, HandlerDueKept
  <2>3. DueFor(s) => DueFor(s)'
    BY <1>1, <2>2, DueKept
  <2> QED
    BY <2>1, <2>3 DEF Followed
<1> QED
  BY <1>1, <1>2, CurrentStays

LEMMA EnqueueRowFollowed ==
    ASSUME JobInv, CaddySound, NEW r \in Request, EnqueueRow(r)
    PROVE  CaddySound'
<1>1. PICK new \in JobId : new = enqueued + 1
  BY MaxJobsAssumption
     DEF EnqueueRow, Enqueue, JobInv, TypeInv, QueueInv, QueueTypeOK, JobId
<1>2. /\ \A d \in JobId \ {new} : dep'[d] = dep[d] /\ pc'[d] = pc[d]
      /\ dep'[new].status \in {"queued", "gone"} /\ svc' = svc /\ container' = container
      /\ caddy' = caddy /\ unsynced' = unsynced /\ req[r].at = "enqueue"
      /\ \A q \in Request \ {r} : req'[q] = req[q]
  BY <1>1 DEF EnqueueRow, observers, Handler, Goto, Return, JobInv, TypeInv, RowTypes
<1>3. dep[new].status = "none"
  <2>1. new > enqueued /\ enqueued \in Nat
    BY <1>1 DEF JobInv, TypeInv, QueueInv, QueueTypeOK
  <2> QED
    BY <1>1, <2>1 DEF JobInv, RowsSound, RowSound
<1>4. \A j \in executing : pc'[j.id] = pc[j.id]
  <2>1. \A j \in executing : j.id \in JobId /\ j.id <= enqueued /\ enqueued \in Nat
    BY JobFacts DEF JobInv, TypeInv, QueueInv, QueueTypeOK
  <2>2. \A j \in executing : j.id # new
    BY <1>1, <2>1 DEF JobId
  <2> QED
    BY <1>2, <2>1, <2>2
<1>5. executing \subseteq executing'
  BY DEF EnqueueRow, Enqueue, ProcessNext, Start
<1>6. \A s \in Service : Followed(s)
  <2> SUFFICES ASSUME NEW s \in Service PROVE Followed(s)
    OBVIOUS
  <2>1. HasSuccess(s)' <=> HasSuccess(s)
    <3>1. ASSUME NEW d \in JobId
          PROVE  dep'[d] = [service |-> s, status |-> "success"]
                   <=> dep[d] = [service |-> s, status |-> "success"]
      <4>1. CASE d = new
        BY <1>2, <1>3, <4>1
      <4>2. CASE d # new
        BY <1>2, <4>2
      <4> QED
        BY <4>1, <4>2
    <3> QED
      BY <3>1 DEF HasSuccess
  <2>2. Render(s, Up)' = Render(s, Up)
    BY <1>2, <2>1, RenderKept
  <2>3. HandlerDue(r, s) => HandlerDue(r, s)'
    <3>1. CASE req[r].op = "launch"
      <4>1. req' = [req EXCEPT ![r].at = "reload"]
        BY <3>1 DEF EnqueueRow, Goto
      <4>2. req'[r].at = "reload" /\ req'[r].target = req[r].target
        BY <4>1 DEF JobInv, TypeInv, RowTypes, Handlers
      <4> QED
        BY <4>2 DEF HandlerDue
    <3>2. CASE req[r].op # "launch"
      BY <1>2, <3>2 DEF HandlerDue
    <3> QED
      BY <3>1, <3>2
  <2>4. \A q \in Request : HandlerDue(q, s) => HandlerDue(q, s)'
    BY <1>2, <2>3, HandlerDueKept
  <2>5. DueFor(s) => DueFor(s)'
    BY <1>2, <1>4, <1>5, <2>4, DueKept
  <2> QED
    BY <2>2, <2>5 DEF Followed
<1> QED
  BY <1>2, <1>6, CurrentStays

LEMMA HandlerStopsFollowed ==
    ASSUME JobInv, CaddySound, NEW r \in Request, HandlerStops(r)
    PROVE  CaddySound'
<1>1. /\ executing' = executing /\ pc' = pc /\ dep' = dep /\ svc' = svc
      /\ caddy' = caddy /\ Stale(Target(r)) /\ req[r].at = "stop"
  BY DEF HandlerStops, jobVars, queueVars, Handler
<1>2. \A q \in Request \ {r} : req'[q] = req[q]
  BY DEF HandlerStops, Goto, JobInv, TypeInv, RowTypes
<1>3. \A t \in Service \ {Target(r)} : container'[t] = container[t]
  BY DEF HandlerStops, StopAndRemove, JobInv, TypeInv, RowTypes
<1>4. \A s \in Service : Followed(s)
  <2> SUFFICES ASSUME NEW s \in Service PROVE Followed(s)
    OBVIOUS
  <2>1. CASE s = Target(r) /\ svc[s].row = "present"
    BY <1>1, <2>1 DEF Followed, Stale, Present
  <2>2. CASE ~(s = Target(r) /\ svc[s].row = "present")
    <3>1. Render(s, Up)' = Render(s, Up)
      <4>1. CASE s # Target(r)
        BY <1>1, <1>3, <4>1, RenderKept, SuccessesKept
      <4>2. CASE svc[s].row # "present"
        BY <1>1, <4>2 DEF Render, Present
      <4> QED
        BY <2>2, <4>1, <4>2
    <3>2. ~HandlerDue(r, s)
      BY <1>1 DEF HandlerDue
    <3>3. \A q \in Request : HandlerDue(q, s) => HandlerDue(q, s)'
      BY <1>1, <1>2, <3>2, HandlerDueKept
    <3>4. DueFor(s) => DueFor(s)'
      BY <1>1, <3>3, DueKept
    <3> QED
      BY <3>1, <3>4 DEF Followed
  <2> QED
    BY <2>1, <2>2
<1>5. unsynced \subseteq unsynced'
  BY <1>1 DEF Stale
<1> QED
  BY <1>1, <1>4, <1>5, CurrentStays

LEMMA HandlerWritesFollowed ==
    ASSUME JobInv, CaddySound, NEW r \in Request, HandlerWrites(r)
    PROVE  CaddySound'
<1>1. /\ executing' = executing /\ pc' = pc /\ container' = container
      /\ caddy' = caddy /\ unsynced' = unsynced /\ req[r].at = "write"
  BY DEF HandlerWrites, observers, queueVars, Handler
<1>2. \A q \in Request \ {r} : req'[q] = req[q]
  BY DEF HandlerWrites, Goto, Return, JobInv, TypeInv, RowTypes
<1>3. \A t \in Service \ {Target(r)} : svc'[t] = svc[t] /\ (HasSuccess(t)' <=> HasSuccess(t))
  <2> SUFFICES ASSUME NEW t \in Service, t # Target(r)
               PROVE  svc'[t] = svc[t] /\ (HasSuccess(t)' <=> HasSuccess(t))
    OBVIOUS
  <2>1. svc'[t] = svc[t]
    BY DEF HandlerWrites, WriteService, JobInv, TypeInv, RowTypes
  <2>2. dep' = dep \/ dep' = [d \in JobId |-> IF dep[d].service = Target(r)
                                  THEN [dep[d] EXCEPT !.status = "gone"] ELSE dep[d]]
    BY DEF HandlerWrites
  <2>3. ASSUME NEW d \in JobId
        PROVE  dep'[d] = [service |-> t, status |-> "success"]
                 <=> dep[d] = [service |-> t, status |-> "success"]
    <3>1. [dep[d] EXCEPT !.status = "gone"].service = dep[d].service
      BY DEF JobInv, TypeInv, RowTypes, DepRows
    <3>2. CASE dep' = dep \/ dep[d].service # Target(r)
      BY <2>2, <3>2
    <3>3. CASE dep' # dep /\ dep[d].service = Target(r)
      <4>1. dep'[d].service = Target(r)
        BY <2>2, <3>1, <3>3
      <4> QED
        BY <3>3, <4>1
    <3> QED
      BY <3>2, <3>3
  <2> QED
    BY <2>1, <2>3 DEF HasSuccess
<1>4. \A s \in Service : Followed(s)
  <2> SUFFICES ASSUME NEW s \in Service PROVE Followed(s)
    OBVIOUS
  <2>1. CASE s = Target(r)
    <3>1. Goto(r, "reload")
      BY DEF HandlerWrites
    <3>2. req'[r].at = "reload" /\ req'[r].target = s
      BY <2>1, <3>1 DEF Goto, Target, JobInv, TypeInv, RowTypes, Handlers
    <3>3. HandlerDue(r, s)'
      BY <3>2 DEF HandlerDue
    <3> QED
      BY <3>3 DEF Followed, DueFor
  <2>2. CASE s # Target(r)
    <3>1. Render(s, Up)' = Render(s, Up) /\ svc'[s].row = svc[s].row
      BY <1>1, <1>3, <2>2, RenderKept
    <3>2. ~HandlerDue(r, s)
      BY <2>2 DEF HandlerDue, Target
    <3>3. \A q \in Request : HandlerDue(q, s) => HandlerDue(q, s)'
      BY <1>2, <3>1, <3>2, HandlerDueKept
    <3>4. DueFor(s) => DueFor(s)'
      BY <1>1, <3>1, <3>3, DueKept
    <3> QED
      BY <3>1, <3>4 DEF Followed
  <2> QED
    BY <2>1, <2>2
<1> QED
  BY <1>1, <1>4, CurrentStays

\* A step of the application, and an edit of the mode: others are not touched.
LEMMA OneStale ==
    ASSUME JobInv, CaddySound, NEW s \in Service, executing' = executing, pc' = pc, dep' = dep,
           req' = req, caddy' = caddy, unsynced' = unsynced \union {s},
           \A t \in Service \ {s} : svc'[t] = svc[t] /\ container'[t] = container[t]
    PROVE  CaddySound'
<1>1. \A t \in Service : Followed(t)
  <2> SUFFICES ASSUME NEW t \in Service PROVE Followed(t)
    OBVIOUS
  <2>1. CASE t = s
    BY <2>1 DEF Followed
  <2>2. CASE t # s
    <3>1. Render(t, Up)' = Render(t, Up) /\ svc'[t].row = svc[t].row
      BY <2>2, RenderKept, SuccessesKept
    <3>2. \A q \in Request : HandlerDue(q, t) => HandlerDue(q, t)'
      BY <3>1, HandlerDueKept
    <3>3. DueFor(t) => DueFor(t)'
      BY <3>1, <3>2, DueKept
    <3> QED
      BY <3>1, <3>3 DEF Followed
  <2> QED
    BY <2>1, <2>2
<1>2. unsynced \subseteq unsynced'
  OBVIOUS
<1> QED
  BY <1>1, <1>2, CurrentStays

LEMMA SetModeFollowed ==
    ASSUME JobInv, CaddySound, NEW s \in Service, NEW mode \in Mode, SetMode(s, mode)
    PROVE  CaddySound'
<1>1. /\ executing' = executing /\ pc' = pc /\ dep' = dep /\ req' = req /\ caddy' = caddy
      /\ unsynced' = unsynced \union {s}
  BY DEF SetMode, jobVars, queueVars
<1>2. \A t \in Service \ {s} : svc'[t] = svc[t] /\ container'[t] = container[t]
  BY DEF SetMode, WriteService, JobInv, TypeInv, RowTypes
<1> QED
  BY <1>1, <1>2, OneStale

LEMMA AppFollowed ==
    ASSUME JobInv, CaddySound, NEW s \in Service, AppExits(s) \/ AppRestarts(s)
    PROVE  CaddySound'
<1>1. /\ executing' = executing /\ pc' = pc /\ dep' = dep /\ req' = req /\ caddy' = caddy
      /\ unsynced' = unsynced \union {s}
  BY DEF AppExits, AppRestarts, jobVars, queueVars
<1>2. \A t \in Service \ {s} : svc'[t] = svc[t] /\ container'[t] = container[t]
  BY DEF AppExits, AppRestarts, JobInv, TypeInv, RowTypes
<1> QED
  BY <1>1, <1>2, OneStale

LEMMA JobStepFollowed ==
    ASSUME JobInv, CaddySound, NEW j \in executing, JobStep(j)
    PROVE  CaddySound'
<1> DEFINE d == j.id
           s == j.service
<1>1. /\ d \in JobId /\ s \in Service /\ dep[d].service = s /\ dep'[d].service = s
      /\ StatusFits(pc[d], dep[d].status) /\ (RowExists(j) <=> Present(s))
  BY JobRow, JobEffects
<1>2. /\ \A e \in JobId \ {d} : dep'[e] = dep[e] /\ pc'[e] = pc[e]
      /\ \A t \in Service \ {s} : svc'[t] = svc[t] /\ container'[t] = container[t]
      /\ \A t \in Service : svc'[t].row = svc[t].row
  BY JobEffects, JobKeepsRows DEF KeepsRows
<1>3. req' = req
  BY DEF JobStep, Load, MarkDep, MarkSvc, Build, RemoveOld, CreateContainer, StartContainer,
         Verify, MarkSuccess, Publish, FailDep, FailSvc, FailThrows, JobReloads
<1>4. executing \ {j} \subseteq executing'
  <2>1. UNCHANGED queueVars \/ Settle(j)
    BY DEF JobStep, Load, MarkDep, MarkSvc, Build, RemoveOld, CreateContainer, StartContainer,
           Verify, MarkSuccess, Publish, FailDep, FailSvc, FailThrows, JobReloads, Finish
  <2> QED
    BY <2>1 DEF queueVars, Settle, ProcessNext, Start
<1>5. \A k \in executing \ {j} : k.id \in JobId \ {d}
  BY JobFacts, SameId DEF JobInv, TypeInv
\* Who was to reload still is, but for the job itself.
<1>6. ASSUME NEW t \in Service, t # s \/ pc[d] \notin Ending \/ svc[t].row # "present"
      PROVE  DueFor(t) => DueFor(t)'
  <2>1. \A r \in Request : HandlerDue(r, t) => HandlerDue(r, t)'
    BY <1>2, <1>3, HandlerDueKept
  <2>2. JobDue(t) => JobDue(t)'
    <3> SUFFICES ASSUME JobDue(t) PROVE JobDue(t)'
      OBVIOUS
    <3>1. PICK k \in executing : k.service = t /\ pc[k.id] \in Ending
      BY DEF JobDue
    <3>2. k # j
      BY <1>6, <3>1 DEF JobDue
    <3>3. k \in executing' /\ pc'[k.id] = pc[k.id]
      BY <1>2, <1>4, <1>5, <3>2
    <3> QED
      BY <1>2, <3>1, <3>3 DEF JobDue
  <2> QED
    BY <2>1, <2>2 DEF DueFor
<1>7. ASSUME NEW t \in Service, t # s
      PROVE  Followed(t)
  <2>1. ASSUME NEW e \in JobId
        PROVE  dep'[e] = [service |-> t, status |-> "success"]
                 <=> dep[e] = [service |-> t, status |-> "success"]
    <3>1. CASE e = d
      BY <1>1, <1>7, <3>1
    <3>2. CASE e # d
      BY <1>2, <3>2
    <3> QED
      BY <3>1, <3>2
  <2>2. HasSuccess(t)' <=> HasSuccess(t)
    BY <2>1 DEF HasSuccess
  <2>3. Render(t, Up)' = Render(t, Up)
    BY <1>2, <1>7, <2>2, RenderKept
  <2> QED
    BY <1>6, <1>7, <2>3 DEF Followed
<1>8. CASE JobReloads(j)
  BY <1>8, ReloadCurrent DEF JobReloads
<1>9. CASE FailThrows(j)
  <2>1. caddy' = caddy /\ Stale(s) /\ svc' = svc
    BY <1>9 DEF FailThrows
  <2>2. Followed(s)
    <3>1. CASE svc[s].row # "present"
      <4>1. Render(s, Up)' = Render(s, Up)
        BY <1>1, <1>2, <3>1 DEF Render, Present
      <4> QED
        BY <1>1, <1>6, <3>1, <4>1 DEF Followed
    <3>2. CASE svc[s].row = "present"
      BY <2>1, <3>2 DEF Followed, Stale, Present
    <3> QED
      BY <3>1, <3>2
  <2>3. \A t \in Service : Followed(t)
    BY <1>7, <2>2
  <2>4. unsynced \subseteq unsynced'
    BY <2>1 DEF Stale
  <2> QED
    BY <2>1, <2>3, <2>4, CurrentStays
<1>10. CASE ~JobReloads(j) /\ ~FailThrows(j)
  <2>1. caddy' = caddy /\ unsynced' = unsynced
    BY <1>10 DEF JobStep, Load, MarkDep, MarkSvc, Build, RemoveOld, CreateContainer,
                StartContainer, Verify, MarkSuccess, Publish, FailDep, FailSvc, observers
  <2>2. Followed(s)
    <3>1. CASE svc[s].row # "present"
      <4>1. Render(s, Up)' = Render(s, Up)
        BY <1>1, <1>2, <3>1 DEF Render, Present
      <4> QED
        BY <1>1, <1>6, <3>1, <4>1 DEF Followed
    <3>2. CASE svc[s].row = "present" /\ (Load(j) \/ MarkDep(j))
      <4>1. svc' = svc /\ container' = container /\ pc[d] \notin Ending
        BY <3>2 DEF Load, MarkDep, At, Ending, Making
      <4>2. \A e \in JobId : dep'[e] = [service |-> s, status |-> "success"]
                               <=> dep[e] = [service |-> s, status |-> "success"]
        <5>1. CASE dep' = dep
          BY <5>1
        <5>2. CASE dep' # dep
          <6>1. dep[d].status = "queued" /\ dep'[d].status = "building"
            BY <1>1, <3>2, <5>2
               DEF Load, MarkDep, Mark, At, StatusFits, RowExists, JobInv, TypeInv, RowTypes,
                   DepRows
          <6> SUFFICES ASSUME NEW e \in JobId
                       PROVE  dep'[e] = [service |-> s, status |-> "success"]
                               <=> dep[e] = [service |-> s, status |-> "success"]
            OBVIOUS
          <6>2. CASE e = d
            BY <6>1, <6>2
          <6>3. CASE e # d
            BY <1>2, <6>3
          <6> QED
            BY <6>2, <6>3
        <5> QED
          BY <5>1, <5>2
      <4>3. HasSuccess(s)' <=> HasSuccess(s)
        BY <4>2 DEF HasSuccess
      <4>4. Render(s, Up)' = Render(s, Up)
        BY <1>1, <4>1, <4>3, RenderKept
      <4> QED
        BY <1>1, <1>6, <4>1, <4>4 DEF Followed
    <3>3. CASE svc[s].row = "present" /\ ~(Load(j) \/ MarkDep(j))
      <4>1. \E at \in Ending : Advance(j, at)
        BY <1>1, <1>10, <3>3
           DEF JobStep, MarkSvc, Build, RemoveOld, CreateContainer, StartContainer, Verify,
               MarkSuccess, Publish, FailDep, FailSvc, Ending, Making, Present
      <4>2. UNCHANGED queueVars
        BY <1>1, <1>10, <3>3
           DEF JobStep, MarkSvc, Build, RemoveOld, CreateContainer, StartContainer, Verify,
               MarkSuccess, Publish, FailDep, FailSvc, Present
      <4>3. pc'[d] \in Ending /\ j \in executing'
        BY <1>1, <4>1, <4>2 DEF Advance, queueVars, JobInv, TypeInv, RowTypes
      <4>4. JobDue(s)'
        BY <1>1, <1>2, <3>3, <4>3 DEF JobDue
      <4> QED
        BY <4>4 DEF Followed, DueFor
    <3> QED
      BY <3>1, <3>2, <3>3
  <2>3. \A t \in Service : Followed(t)
    BY <1>7, <2>2
  <2> QED
    BY <2>1, <2>3, CurrentStays
<1> QED
  BY <1>8, <1>9, <1>10

LEMMA CaddyStep == JobInv /\ CaddySound /\ [Next]_vars => CaddySound'
<1> SUFFICES ASSUME JobInv, CaddySound, [Next]_vars PROVE CaddySound'
  OBVIOUS
<1>1. ASSUME NEW r \in Request, HandlerStep(r)
      PROVE  CaddySound'
  <2>1. CASE HandlerReloads(r)
    BY <2>1, ReloadCurrent DEF HandlerReloads, jobVars
  <2> QED
    BY <1>1, <2>1, CreateRowFollowed, EnqueueRowFollowed, HandlerStopsFollowed,
       HandlerWritesFollowed DEF HandlerStep
<1>2. CASE Restart
  BY <1>2 DEF Restart, CaddySound, CurrentOrDue
<1>3. CASE StartupReload
  BY <1>3, ReloadCurrent DEF StartupReload, jobVars
<1>4. CASE UNCHANGED vars
  <2>1. /\ executing' = executing /\ pc' = pc /\ dep' = dep /\ container' = container
        /\ caddy' = caddy /\ unsynced' = unsynced /\ svc' = svc /\ req' = req
    BY <1>4 DEF vars, jobVars, queueVars
  <2>2. \A s \in Service : Followed(s)
    <3> SUFFICES ASSUME NEW s \in Service PROVE Followed(s)
      OBVIOUS
    <3>1. Render(s, Up)' = Render(s, Up)
      BY <2>1, RenderKept, SuccessesKept
    <3>2. DueFor(s) => DueFor(s)'
      BY <2>1, HandlerDueKept, DueKept
    <3> QED
      BY <3>1, <3>2 DEF Followed
  <2> QED
    BY <2>1, <2>2, CurrentStays
<1> QED
  BY <1>1, <1>2, <1>3, <1>4, ArrivesFollowed, SetModeFollowed, AppFollowed, JobStepFollowed
     DEF Next


-----------------------------------------------------------------------------
(* The newest of some deployments                                          *)

\* A non-empty set of ids has a greatest one: no set of the ids from one of
\* them on is minimal but that of the greatest.
LEMMA HasGreatest ==
    ASSUME NEW D, D \subseteq JobId, D # {}
    PROVE  \E d \in D : \A e \in D : e <= d
<1> DEFINE From(d) == {e \in D : e >= d}
           Segments == {From(d) : d \in D}
           R == StrictSubsetOrdering(D)
<1>1. IsFiniteSet(D) /\ D \subseteq Nat
  <2>1. MaxJobs \in Int /\ 1 \in Int
    BY MaxJobsAssumption
  <2>2. IsFiniteSet(1..MaxJobs)
    BY <2>1, FS_Interval
  <2>3. D \subseteq 1..MaxJobs
    BY DEF JobId
  <2>4. IsFiniteSet(D)
    BY <2>2, <2>3, FS_Subset
  <2> QED
    BY <2>3, <2>4
<1>2. IsWellFoundedOn(R, SUBSET D)
  BY <1>1, FS_StrictSubsetOrderingWellFounded, FS_FiniteSubsetsOfFinite
<1>3. Segments \subseteq SUBSET D /\ Segments # {}
  OBVIOUS
<1>4. PICK A \in Segments : \A B \in Segments : ~(<<B, A>> \in R)
  <2> HIDE DEF R, Segments
  <2> QED
    BY <1>2, <1>3, WFMin
<1>5. PICK d \in D : A = From(d)
  BY <1>4
<1>6. ASSUME NEW e \in D, d < e
      PROVE  FALSE
  <2>1. From(e) \in Segments /\ From(e) \subseteq From(d)
    <3>1. From(e) \in Segments
      OBVIOUS
    <3>2. ASSUME NEW z \in D, z >= e
          PROVE  z >= d
      <4>1. z \in Nat /\ e \in Nat /\ d \in Nat
        BY <1>1
      <4> QED
        BY <1>6, <3>2, <4>1
    <3> QED
      BY <3>1, <3>2
  <2>2. d \in From(d) /\ d \notin From(e)
    BY <1>1, <1>6
  <2>3. <<From(e), From(d)>> \in R
    BY <2>1, <2>2 DEF StrictSubsetOrdering
  <2> QED
    BY <1>4, <1>5, <2>1, <2>3
<1> QED
  BY <1>1, <1>6

LEMMA NewestFacts ==
    ASSUME NEW D, D \subseteq JobId, D # {}
    PROVE  Newest(D) \in D /\ \A e \in D : e <= Newest(D)
BY HasGreatest DEF Newest

-----------------------------------------------------------------------------
(* Theorems                                                                *)

\* Types, rows and jobs, the service's row and container, and Caddy's routes.
DeployInv == JobInv /\ RunsSound /\ ServingsSound /\ CaddySound

LEMMA DeployInvariant == Spec => []DeployInv
<1>1. Init => DeployInv
  BY JobInit, RunsInit, ServingInit, CaddyInit DEF DeployInv
<1>2. DeployInv /\ [Next]_vars => DeployInv'
  BY JobInvStep, RunsStep, ServingsStep, CaddyStep DEF DeployInv
<1> QED
  BY <1>1, <1>2, PTL DEF Spec

LEMMA TypesHold == JobInv => TypeOK
BY TypesFolded DEF JobInv, TypeInv, QueueInv

LEMMA BuildingImplied == JobInv => BuildingHasJob
<1> SUFFICES ASSUME JobInv, NEW d \in JobId, dep[d].status = "building"
             PROVE  pc[d] \in {"dead", "unrecorded"} \/ \E j \in executing : j.id = d
  BY DEF BuildingHasJob
<1>1. RowSound(d)
  BY DEF JobInv, RowsSound
<1>2. pc[d] \in {"dead", "unrecorded"} \/ pc[d] \in Active
  BY <1>1 DEF RowSound, StatusFits, Active, Live, Over, Pcs
<1> QED
  BY <1>2, ActiveExecutes

LEMMA StatusImplied == JobInv /\ RunsSound => StatusTellsOutcome
<1> SUFFICES ASSUME JobInv, RunsSound, NEW s \in Service, Present(s), DeploymentsOf(s) # {},
                    pc[Newest(DeploymentsOf(s))] = "done"
             PROVE  LET d == Newest(DeploymentsOf(s))
                    IN  /\ dep[d].status \in Terminal
                        /\ svc[s].status \in {"stopped", IF dep[d].status = "success"
                                                         THEN "running" ELSE "failed"}
  BY DEF StatusTellsOutcome
<1> DEFINE d == Newest(DeploymentsOf(s))
<1>1. d \in DeploymentsOf(s) /\ \A e \in DeploymentsOf(s) : e <= d
  BY NewestFacts DEF DeploymentsOf
<1> HIDE DEF d
<1>2. d \in JobId /\ dep[d].service = s /\ NewestOf(d)
  BY <1>1 DEF DeploymentsOf, NewestOf
<1>3. pc[d] = "done"
  BY DEF d
<1>4. dep[d].status \in {"success", "failed"}
  BY <1>2, <1>3, Enqueued DEF Present, StatusFits
<1>5. svc[s].status \in {"stopped", Told(dep[d].status)}
  BY <1>2, <1>3 DEF RunsSound, RunSound, Outcome
<1> QED
  BY <1>4, <1>5 DEF Terminal, Told, d

LEMMA NameImplied == JobInv /\ RunsSound => ContainerNameFree
<1> SUFFICES ASSUME JobInv, RunsSound, NEW j \in executing, At(j, "create")
             PROVE  container[j.service] = NoContainer \/ j.service \in sticky
  BY DEF ContainerNameFree
<1>1. j.id \in JobId /\ dep[j.id].service = j.service
  BY JobRow
<1> QED
  BY <1>1 DEF RunsSound, RunSound, NameFree, At

LEMMA RunningImplied == JobInv /\ ServingsSound => RunningIsNewestSuccess
<1> SUFFICES ASSUME JobInv, ServingsSound, NEW s \in Service, Present(s),
                    svc[s].status = "running", svc[s].named, container[s] # NoContainer
             PROVE  SuccessesOf(s) # {} /\ container[s].by = Newest(SuccessesOf(s))
  BY DEF RunningIsNewestSuccess
<1> DEFINE d == container[s].by
<1>1. d \in JobId /\ IsSuccess(d, s) /\ \A e \in JobId : IsSuccess(e, s) => e <= d
  BY DEF ServingsSound, ServingSound, SaysRunning, Present
<1> HIDE DEF d
<1>2. d \in SuccessesOf(s) /\ \A e \in SuccessesOf(s) : e <= d
  BY <1>1 DEF SuccessesOf, IsSuccess
<1>3. SuccessesOf(s) \subseteq JobId
  BY DEF SuccessesOf
<1>4. Newest(SuccessesOf(s)) \in SuccessesOf(s) /\ d <= Newest(SuccessesOf(s))
  BY <1>2, <1>3, NewestFacts
<1>5. Newest(SuccessesOf(s)) <= d /\ Newest(SuccessesOf(s)) \in Nat /\ d \in Nat
  BY <1>1, <1>2, <1>3, <1>4 DEF JobId
<1>6. Newest(SuccessesOf(s)) = d
  BY <1>4, <1>5
<1> QED
  BY <1>2, <1>6 DEF d

LEMMA CaddyImplied == JobInv /\ CaddySound => CaddyCurrentWhenQuiet
<1> SUFFICES ASSUME JobInv, CaddySound, \A s \in Service : Quiet(s),
                    NEW s \in Service \ unsynced
             PROVE  caddy[s] = Render(s, Up)
  BY DEF CaddyCurrentWhenQuiet
<1>1. ~DueFor(s)
  BY DEF DueFor, HandlerDue, JobDue, Quiet, JobsOf, Target
<1> QED
  BY <1>1 DEF CaddySound, CurrentOrDue

(* Rows have their types; a deployment stays "building" only while its run()
   goes on, because the process died under it, or because handleFailure could
   not write; and once the newest deployment of a service is done, the service's row tells its outcome or a deactivation
   (runDeployment, handleFailure, and the lifecycle handlers in services.ts). *)
THEOREM RowsAreSoundHolds == Spec => []RowsAreSound
<1>1. DeployInv => RowsAreSound
  BY TypesHold, BuildingImplied, StatusImplied DEF DeployInv, RowsAreSound
<1> QED
  BY <1>1, DeployInvariant, PTL

(* createContainer finds the name of the service's container free, unless Docker
   failed to remove the old one: whatever deployments, handlers, crashes and
   restarts come between remove and create. *)
THEOREM ContainerNameFreeHolds == Spec => []ContainerNameFree
<1>1. DeployInv => ContainerNameFree
  BY NameImplied DEF DeployInv
<1> QED
  BY <1>1, DeployInvariant, PTL

(* The container of a service whose row says "running" and names it was made by
   the newest deployment of the service that succeeded. *)
THEOREM RunningIsNewestSuccessHolds == Spec => []RunningIsNewestSuccess
<1>1. DeployInv => RunningIsNewestSuccess
  BY RunningImplied DEF DeployInv
<1> QED
  BY <1>1, DeployInvariant, PTL

(* With nothing in flight Caddy serves what the database and Docker imply, but
   for services it may be stale about: every change of a row or a container by a
   handler or a run is followed by a reload. *)
THEOREM CaddyCurrentWhenQuietHolds == Spec => []CaddyCurrentWhenQuiet
<1>1. DeployInv => CaddyCurrentWhenQuiet
  BY CaddyImplied DEF DeployInv
<1> QED
  BY <1>1, DeployInvariant, PTL

\* What a step may do to a deployment that has its outcome.
Final ==
    \A d \in JobId : dep[d].status = "failed" \/ (dep[d].status = "success" /\ ~PublishFailed(d)) =>
        dep'[d].status \in {dep[d].status, "gone"}

LEMMA FinalStep == JobInv /\ RunsSound /\ [Next]_vars => Final
<1> SUFFICES ASSUME JobInv, RunsSound, [Next]_vars, NEW d \in JobId, dep[d].status \in Terminal,
                    dep[d].status = "success" => ~PublishFailed(d)
             PROVE  dep'[d].status \in {dep[d].status, "gone"}
  BY DEF Final, Terminal
<1>1. dep \in [JobId -> DepRows] /\ dep[d] \in DepRows
  BY DEF JobInv, TypeInv, RowTypes
<1>2. RowSound(d)
  BY DEF JobInv, RowsSound
<1>3. ASSUME NEW j \in executing, JobStep(j)
      PROVE  dep'[d].status \in {dep[d].status, "gone"}
  <2>1. j.id \in JobId /\ StatusFits(pc[j.id], dep[j.id].status)
    BY JobRow
  <2>2. CASE d # j.id
    BY <1>3, <2>2, JobEffects
  <2>3. CASE d = j.id
    <3>1. ~MarkDep(j) /\ ~MarkSuccess(j) /\ ~FailDep(j)
      <4>1. pc[d] \notin {"markDep", "markSuccess"}
        BY <2>1, <2>3 DEF StatusFits, Terminal
      <4>2. pc[d] = "failDep" => dep[d].status = "success" /\ RowExists(j)
        BY <2>1, <2>3 DEF StatusFits, Terminal, RowExists
      <4>3. pc[d] # "failDep"
        <5> SUFFICES ASSUME pc[d] = "failDep" PROVE FALSE
          OBVIOUS
        <5>1. Present(j.service) /\ dep[d].service = j.service
          BY <2>3, <4>2, JobRow
        <5>2. Marked(d)
          BY DEF RunsSound, RunSound
        <5>3. svc[j.service].status \in {"building", "stopped"}
          BY <4>2, <5>1, <5>2 DEF Marked, Unpublished
        <5> QED
          BY <4>2, <5>1, <5>3 DEF PublishFailed
      <4> QED
        BY <2>3, <4>1, <4>3 DEF MarkDep, MarkSuccess, FailDep, At
    <3>2. dep' = dep
      BY <1>3, <3>1
         DEF JobStep, Load, MarkDep, MarkSvc, Build, RemoveOld, CreateContainer,
             StartContainer, Verify, MarkSuccess, Publish, FailDep, FailSvc, FailThrows, JobReloads,
             Terminal
    <3> QED
      BY <3>2
  <2> QED
    BY <2>2, <2>3
<1>4. ASSUME NEW r \in Request, EnqueueRow(r)
      PROVE  dep'[d].status \in {dep[d].status, "gone"}
  <2>1. d # enqueued + 1
    <3>1. ~(d > enqueued) /\ enqueued \in Nat /\ d \in Nat
      BY <1>2 DEF RowSound, Terminal, JobInv, TypeInv, QueueInv, QueueTypeOK, JobId
    <3> QED
      BY <3>1
  <2>2. dep'[d] = dep[d]
    BY <1>1, <1>4, <2>1 DEF EnqueueRow
  <2> QED
    BY <2>2
<1>5. ASSUME NEW r \in Request, HandlerWrites(r)
      PROVE  dep'[d].status \in {dep[d].status, "gone"}
  <2>1. [dep[d] EXCEPT !.status = "gone"].status = "gone"
    BY <1>1 DEF DepRows
  <2>2. dep' = dep \/ dep' = [e \in JobId |-> IF dep[e].service = Target(r)
                                 THEN [dep[e] EXCEPT !.status = "gone"] ELSE dep[e]]
    BY <1>5 DEF HandlerWrites
  <2>3. dep'[d] = dep[d] \/ dep'[d] = [dep[d] EXCEPT !.status = "gone"]
    BY <2>2
  <2> QED
    BY <2>1, <2>3
<1>6. ASSUME NEW r \in Request,
             CreateRow(r) \/ HandlerStops(r) \/ HandlerThrows(r) \/ HandlerReloads(r)
      PROVE  dep' = dep
  BY <1>6 DEF CreateRow, HandlerStops, HandlerThrows, HandlerReloads, jobVars
<1>7. ASSUME NEW r \in Request, Arrives(r)
      PROVE  dep' = dep
  BY <1>7 DEF Arrives, Launch, Trigger, Deactivate, Activate, Delete, jobVars
<1>8. ASSUME NEW s \in Service,
             (\E mode \in Mode : SetMode(s, mode)) \/ AppExits(s) \/ AppRestarts(s)
      PROVE  dep' = dep
  BY <1>8 DEF SetMode, AppExits, AppRestarts, jobVars
<1>9. ASSUME Restart \/ StartupReload \/ UNCHANGED vars
      PROVE  dep' = dep
  BY <1>9 DEF Restart, StartupReload, vars, jobVars
<1> QED
  BY <1>3, <1>4, <1>5, <1>6, <1>7, <1>8, <1>9 DEF Next, HandlerStep

(* No later step of this or another job rewrites a deployment that failed, or
   that succeeded and has told its service; only a delete of the service removes
   it.  Whatever handlers do meanwhile, a success whose service's row was written
   does not become a failure. *)
THEOREM OutcomeIsFinalHolds == Spec => OutcomeIsFinal
<1>1. DeployInv /\ [Next]_vars => [Final]_vars
  BY FinalStep DEF DeployInv
<1>2. [Final]_vars =>
        [\A d \in JobId :
            dep[d].status = "failed" \/ (dep[d].status = "success" /\ ~PublishFailed(d)) =>
                dep'[d].status \in {dep[d].status, "gone"}]_vars
  BY DEF Final
<1> QED
  BY <1>1, <1>2, DeployInvariant, PTL DEF Spec, OutcomeIsFinal

=============================================================================
