------------------------------ MODULE Siteyctl ------------------------------
(***************************************************************************)
(* One run of the siteyctl command (commands.ts, verify.ts) against a      *)
(* server that other clients use and whose deployments go on.  Every       *)
(* request is a step: between two of them services are renamed, deleted,   *)
(* deployed and routed by others.                                          *)
(*                                                                         *)
(* A poll's probes take any page: "own", "other" (another service answers),*)
(* "pending" (the placeholder, 502 to 504 or no answer), "error", or a     *)
(* redirect to a scheme of the same host or away from it.                  *)
(***************************************************************************)
EXTENDS Naturals, Sequences

CONSTANTS CtlServices,   \* bound: services ever created; their ids count up
          CtlNames, CtlRoutes,
          CtlHttpOnly,   \* the routes that are http:// ones
          CtlCommands,   \* the commands that may be run
          CtlFailAfter,  \* polls with a failing route that end the wait
          CtlPolls, CtlDeployments, CtlMoves  \* bounds: polls, deployments, moves of others

CtlNoName == ""

ASSUME CtlAssumption == /\ CtlServices \in Nat \ {0} /\ CtlHttpOnly \subseteq CtlRoutes
                        /\ CtlNoName \notin CtlNames
                        /\ CtlCommands \subseteq {"deploy", "deploy wait", "status", "status wait", "create",
                                                  "delete", "rename", "activate", "deactivate",
                                                  "route add", "route remove"}
                        /\ {CtlFailAfter, CtlPolls} \subseteq Nat \ {0} /\ {CtlDeployments, CtlMoves} \subseteq Nat

VARIABLES ctlSvc,    \* Service rows by id: [name, active, routes]
          ctlNext,   \* the id of the next Service row
          ctlDep,    \* Deployment rows, oldest first: [svc, status]
          ctlMoves,  \* moves of others so far
          ctl        \* the command that is run

CtlVars == <<ctlSvc, ctlNext, ctlDep, ctlMoves, ctl>>

CtlExits == {0, 1, 2, 3, 4}  \* EXIT: OK, ERROR, USAGE, CONFLICT_OR_NOT_FOUND, TIMEOUT
CtlStates == {"pass", "pending", "fail"}
CtlPages == {"own", "other", "pending", "error"}

(* What a poll saw: the view of describe, the deployment's status and for every
   probed route whether its certificate is valid and the page at the end.
   reports are the polls so far; fails is routeFailures. *)
CtlNoView == [active |-> FALSE, routes |-> {}, dep |-> 0, status |-> "none"]
CtlIdle == [cmd |-> "none", step |-> "idle", ref |-> [id |-> 0, name |-> CtlNoName], word |-> CtlNoName, route |-> {}, svc |-> 0,
            dep |-> 0, view |-> CtlNoView, seen |-> <<>>, reports |-> <<>>, fails |-> 0, made |-> 0, exit |-> 0]

CtlInit ==
  /\ \E n \in CtlNames, R \in SUBSET CtlRoutes :
       ctlSvc = [i \in {1} |-> [name |-> n, active |-> TRUE, routes |-> R]]
  /\ ctlNext = 2 /\ ctlDep = <<>> /\ ctlMoves = 0 /\ ctl = CtlIdle

CtlAt(step) == ctl.step = step
CtlExit(code) == ctl' = [ctl EXCEPT !.step = "done", !.exit = code]
CtlRest == UNCHANGED <<ctlSvc, ctlNext, ctlDep, ctlMoves>>
CtlNewest(i) ==
  LET own == {k \in DOMAIN ctlDep : ctlDep[k].svc = i}
  IN IF own = {} THEN {0} ELSE {k \in own : \A j \in own : j <= k}
CtlTakenRoutes == UNION {ctlSvc[i].routes : i \in DOMAIN ctlSvc}
CtlTakenNames == {ctlSvc[i].name : i \in DOMAIN ctlSvc}

-----------------------------------------------------------------------------
(* The command and its service *)

CtlRefs == {[id |-> i, name |-> CtlNoName] : i \in 1 .. CtlServices} \cup {[id |-> 0, name |-> n] : n \in CtlNames}

(* word: the new name of rename and create, the name confirmed for delete. *)
CtlRun ==
  /\ CtlAt("idle")
  /\ \E c \in CtlCommands, r \in CtlRefs, w \in CtlNames, R \in {{}} \cup {{x} : x \in CtlRoutes} :
       /\ c \notin {"rename", "create", "delete"} => w = CHOOSE n \in CtlNames : TRUE
       /\ c = "create" => r = CHOOSE q \in CtlRefs : TRUE
       /\ (c \in {"route add", "route remove"} => R # {})
       /\ c \notin {"create", "route add", "route remove"} => R = {}
       /\ ctl' = [ctl EXCEPT !.cmd = c, !.ref = r, !.word = w, !.route = R,
                             !.step = IF c = "create" THEN "preflight" ELSE "resolve"]
  /\ CtlRest

(* resolve: an id or the current name; names never look like ids. *)
CtlMatches(ref) == {i \in DOMAIN ctlSvc : i = ref.id \/ ctlSvc[i].name = ref.name}

CtlResolve ==
  /\ CtlAt("resolve")
  /\ IF CtlMatches(ctl.ref) = {} THEN CtlExit(3)
     ELSE \E i \in CtlMatches(ctl.ref) :
          IF ctl.cmd = "delete" /\ ctl.word # ctlSvc[i].name THEN CtlExit(2)
          ELSE ctl' = [ctl EXCEPT !.svc = i,
                         !.step = IF ctl.cmd \in {"status", "status wait"} THEN "describe"
                                  ELSE IF ctl.cmd = "delete" THEN "confirm" ELSE "mutate"]
  /\ CtlRest

\* Faulty variant: the request names the service by what was typed.
CtlTargetByName(c) == CtlMatches(c.ref)

(* Requests name the service by the id that was resolved. *)
CtlTarget(c) == {c.svc} \cap DOMAIN ctlSvc

(* What a mutation makes of the row. *)
CtlChanged(row) ==
  [row EXCEPT !.name = IF ctl.cmd = "rename" THEN ctl.word ELSE @,
              !.active = IF ctl.cmd = "activate" THEN TRUE ELSE IF ctl.cmd = "deactivate" THEN FALSE ELSE @,
              !.routes = IF ctl.cmd = "route add" THEN @ \cup ctl.route
                         ELSE IF ctl.cmd = "route remove" THEN @ \ ctl.route ELSE @]

\* Faulty variant: only names are checked.
CtlConflictName(i) == ctl.cmd = "rename" /\ ctl.word \in {ctlSvc[j].name : j \in DOMAIN ctlSvc \ {i}}

(* The conflicts: a name or a route that another service has. *)
CtlConflict(i) ==
  \/ ctl.cmd = "rename" /\ ctl.word \in {ctlSvc[j].name : j \in DOMAIN ctlSvc \ {i}}
  \/ ctl.cmd = "route add" /\ ctl.route \cap UNION {ctlSvc[j].routes : j \in DOMAIN ctlSvc \ {i}} # {}

(* A mutation is answered, or its answer is lost (after 120 s). *)
CtlMutate ==
  /\ CtlAt("mutate") /\ ctl.cmd \notin {"deploy", "deploy wait"}
  /\ IF CtlTarget(ctl) = {} THEN CtlExit(3) /\ UNCHANGED ctlSvc
     ELSE \E i \in CtlTarget(ctl) :
          IF CtlConflict(i) THEN CtlExit(3) /\ UNCHANGED ctlSvc
          ELSE (CtlExit(0) \/ CtlExit(1)) /\ ctlSvc' = [ctlSvc EXCEPT ![i] = CtlChanged(@)]
  /\ UNCHANGED <<ctlNext, ctlDep, ctlMoves>>

-----------------------------------------------------------------------------
(* delete *)

(* The server compares the name again, then stops containers. *)
CtlDeleteConfirm ==
  /\ CtlAt("confirm")
  /\ IF CtlTarget(ctl) = {} THEN CtlExit(3)
     ELSE IF \A i \in CtlTarget(ctl) : ctlSvc[i].name # ctl.word THEN CtlExit(2)
     ELSE ctl' = [ctl EXCEPT !.step = "deleting"]
  /\ CtlRest

(* Deployments go with their service. *)
CtlWithout(i) ==
  /\ ctlSvc' = [j \in DOMAIN ctlSvc \ {i} |-> ctlSvc[j]]
  /\ ctlDep' = [k \in DOMAIN ctlDep |-> IF ctlDep[k].svc = i THEN [ctlDep[k] EXCEPT !.status = "gone"] ELSE ctlDep[k]]

CtlDelete ==
  /\ CtlAt("deleting") /\ UNCHANGED <<ctlNext, ctlMoves>>
  /\ IF CtlTarget(ctl) = {} THEN CtlExit(1) /\ UNCHANGED <<ctlSvc, ctlDep>>
     ELSE (CtlExit(0) \/ CtlExit(1)) /\ \E i \in CtlTarget(ctl) : CtlWithout(i)

-----------------------------------------------------------------------------
(* create *)

(* checkRoute for every --route, before anything is created; the flags and the
   repository are checked too. *)
CtlPreflight ==
  /\ CtlAt("preflight")
  /\ \/ \E code \in {1, 2} : CtlExit(code)
     \/ IF ctl.route \cap CtlTakenRoutes # {} THEN CtlExit(3) ELSE ctl' = [ctl EXCEPT !.step = "create"]
  /\ CtlRest

(* The new row. *)
CtlStores(name, routes) ==
  /\ ctlNext <= CtlServices /\ ctlNext' = ctlNext + 1
  /\ ctlSvc' = [i \in DOMAIN ctlSvc \cup {ctlNext} |->
                  IF i = ctlNext THEN [name |-> name, active |-> TRUE, routes |-> routes] ELSE ctlSvc[i]]

\* Faulty variant: the routes are added after the service is stored.
CtlCreatePiecewise ==
  /\ CtlAt("create") /\ Len(ctlDep) < CtlDeployments /\ UNCHANGED ctlMoves
  /\ IF ctl.word \in CtlTakenNames THEN CtlExit(3) /\ UNCHANGED <<ctlSvc, ctlNext, ctlDep>>
     ELSE LET taken == ctl.route \cap CtlTakenRoutes # {} IN
          /\ ctl' = [ctl EXCEPT !.step = "done", !.made = ctlNext, !.exit = IF taken THEN 3 ELSE 0]
          /\ CtlStores(ctl.word, IF taken THEN {} ELSE ctl.route)
          /\ ctlDep' = Append(ctlDep, [svc |-> ctlNext, status |-> "queued"])

(* The service, its routes and its first deployment, in one transaction. *)
CtlCreate ==
  /\ CtlAt("create") /\ Len(ctlDep) < CtlDeployments /\ UNCHANGED ctlMoves
  /\ IF ctl.word \in CtlTakenNames \/ ctl.route \cap CtlTakenRoutes # {}
     THEN CtlExit(3) /\ UNCHANGED <<ctlSvc, ctlNext, ctlDep>>
     ELSE /\ \E code \in {0, 1} : ctl' = [ctl EXCEPT !.step = "done", !.made = ctlNext, !.exit = code]
          /\ CtlStores(ctl.word, ctl.route)
          /\ ctlDep' = Append(ctlDep, [svc |-> ctlNext, status |-> "queued"])

-----------------------------------------------------------------------------
(* deploy, status: the live check *)

CtlTrigger ==
  /\ CtlAt("mutate") /\ ctl.cmd \in {"deploy", "deploy wait"} /\ UNCHANGED <<ctlSvc, ctlNext, ctlMoves>>
  /\ Len(ctlDep) < CtlDeployments
  /\ IF CtlTarget(ctl) = {} THEN CtlExit(3) /\ UNCHANGED ctlDep
     ELSE IF \E i \in CtlTarget(ctl) : ~ctlSvc[i].active THEN CtlExit(2) /\ UNCHANGED ctlDep
     ELSE \E i \in CtlTarget(ctl) :
          /\ ctlDep' = Append(ctlDep, [svc |-> i, status |-> "queued"])
          /\ \/ ctl' = [ctl EXCEPT !.dep = Len(ctlDep) + 1, !.exit = 0,
                                   !.step = IF ctl.cmd = "deploy" THEN "done" ELSE "describe"]
             \/ CtlExit(1)

(* load() asks for the service, and for the deployment by id if it has one. *)
CtlDescribe ==
  /\ CtlAt("describe")
  /\ IF ctl.svc \notin DOMAIN ctlSvc THEN CtlExit(3)
     ELSE \E k \in CtlNewest(ctl.svc) :
          ctl' = [ctl EXCEPT !.step = IF ctl.dep # 0 THEN "deployment" ELSE "check", !.seen = <<>>,
                    !.view = [active |-> ctlSvc[ctl.svc].active, routes |-> ctlSvc[ctl.svc].routes,
                              dep |-> k, status |-> IF k = 0 THEN "none" ELSE ctlDep[k].status]]
  /\ CtlRest

\* Faulty variant: the newest deployment is checked.
CtlFollowedNewest == ctl.view.dep

CtlFollowed == ctl.dep

CtlGetDeployment ==
  /\ CtlAt("deployment")
  /\ LET k == CtlFollowed IN
     IF ctlDep[k].status = "gone" THEN CtlExit(3)
     ELSE ctl' = [ctl EXCEPT !.step = "check", !.view = [@ EXCEPT !.dep = k, !.status = ctlDep[k].status]]
  /\ CtlRest

\* Faulty variant: a deployment that runs counts as one that succeeded.
CtlDeploymentStateStarted(status) ==
  IF status \in {"building", "success"} THEN "pass" ELSE IF status \in {"failed", "none"} THEN "fail" ELSE "pending"

(* deploymentCheck *)
CtlDeploymentState(status) ==
  IF status = "success" THEN "pass" ELSE IF status \in {"failed", "none"} THEN "fail" ELSE "pending"

(* The checks of the service and its deployment, which end a wait when they
   fail: "pass" means that the routes are probed. *)
CtlHard(view) ==
  IF ~view.active THEN "fail"
  ELSE IF CtlDeploymentState(view.status) # "pass" THEN CtlDeploymentState(view.status)
  ELSE IF view.routes = {} THEN "fail" ELSE "pass"

(* probeHttp follows redirects within the host, never from https to http; a
   redirect to the scheme it comes from stands for a chain that is too long. *)
CtlArrives(web, scheme) ==
  LET last == IF scheme = "http" /\ web["http"] = "to https" THEN web["https"] ELSE web[scheme]
  IN IF last \in CtlPages THEN last ELSE "error"

\* Faulty variant: any page with status 200 will do.
CtlPageStateAny(page) ==
  IF page \in {"own", "other", "pending"} THEN "pass" ELSE "fail"

CtlPageState(page) ==
  IF page = "own" THEN "pass" ELSE IF page = "pending" THEN "pending" ELSE "fail"

CtlSeenToo(r, answer) == [q \in DOMAIN ctl.seen \cup {r} |-> IF q = r THEN answer ELSE ctl.seen[q]]

(* One route: for https the certificate, then the page. *)
CtlProbe(r) ==
  /\ CtlAt("check") /\ CtlHard(ctl.view) = "pass" /\ r \in ctl.view.routes \ DOMAIN ctl.seen
  /\ \E cert \in BOOLEAN, web \in [{"http", "https"} -> CtlPages \cup {"to http", "to https", "away"}] :
       /\ r \in CtlHttpOnly => cert
       /\ ctl' = [ctl EXCEPT !.seen = CtlSeenToo(r, [cert |-> cert,
                    page |-> CtlArrives(web, IF r \in CtlHttpOnly THEN "http" ELSE "https"),
                    deployed |-> ctlDep[ctl.view.dep].status \in {"success", "gone"}])]
  /\ CtlRest

(* runChecks: a failing route outweighs one that is not ready. *)
CtlRouteStates == {CtlPageState(ctl.seen[r].page) : r \in DOMAIN ctl.seen}
                    \cup {IF ctl.seen[r].cert THEN "pass" ELSE "pending" : r \in DOMAIN ctl.seen}

CtlState ==
  IF CtlHard(ctl.view) # "pass" THEN CtlHard(ctl.view)
  ELSE IF "fail" \in CtlRouteStates THEN "fail" ELSE IF "pending" \in CtlRouteStates THEN "pending" ELSE "pass"

\* Faulty variant: failures are counted whatever lies between them.
CtlFailuresTotal == IF CtlState = "fail" THEN ctl.fails + 1 ELSE ctl.fails

(* routeFailures *)
CtlFailures == IF CtlState = "fail" THEN ctl.fails + 1 ELSE 0

(* waitForLive, or one check without --wait: a report is judged.  The time may
   be up after any poll. *)
CtlJudge ==
  /\ CtlAt("check")
  /\ CtlHard(ctl.view) = "pass" => DOMAIN ctl.seen = ctl.view.routes
  /\ LET goes(step, code) == ctl' = [ctl EXCEPT !.step = step, !.exit = code, !.fails = CtlFailures,
                                               !.reports = Append(@, CtlState)]
         done(code) == goes("done", code)
     IN IF CtlState = "pass" THEN done(0)
        ELSE IF ctl.cmd = "status" THEN done(1)
        ELSE IF CtlState = "fail" /\ (CtlHard(ctl.view) = "fail" \/ CtlFailures >= CtlFailAfter) THEN done(1)
        ELSE \/ done(4)
             \/ Len(ctl.reports) + 1 < CtlPolls /\ goes("describe", 0)
  /\ CtlRest

-----------------------------------------------------------------------------
(* The server's deployments and its other clients *)

CtlOthers == ctlMoves < CtlMoves /\ ctlMoves' = ctlMoves + 1 /\ UNCHANGED ctl

CtlDeploymentMoves ==
  /\ UNCHANGED <<ctlSvc, ctlNext, ctlMoves, ctl>>
  /\ \E k \in DOMAIN ctlDep, s \in {"building", "success", "failed"} :
       /\ ctlDep[k].status \in (IF s = "building" THEN {"queued"} ELSE {"building"})
       /\ ctlDep' = [ctlDep EXCEPT ![k] = [@ EXCEPT !.status = s]]

CtlOtherDeploys ==
  /\ CtlOthers /\ UNCHANGED <<ctlSvc, ctlNext>> /\ Len(ctlDep) < CtlDeployments
  /\ \E i \in DOMAIN ctlSvc : ctlSvc[i].active /\ ctlDep' = Append(ctlDep, [svc |-> i, status |-> "queued"])

CtlOtherEdits ==
  /\ CtlOthers /\ UNCHANGED <<ctlNext, ctlDep>>
  /\ \E i \in DOMAIN ctlSvc, n \in CtlNames \ CtlTakenNames, r \in CtlRoutes :
       \/ ctlSvc' = [ctlSvc EXCEPT ![i] = [@ EXCEPT !.name = n]]
       \/ ctlSvc' = [ctlSvc EXCEPT ![i] = [@ EXCEPT !.active = ~ctlSvc[i].active]]
       \/ r \notin CtlTakenRoutes /\ ctlSvc' = [ctlSvc EXCEPT ![i] = [@ EXCEPT !.routes = ctlSvc[i].routes \cup {r}]]

CtlOtherCreates ==
  /\ CtlOthers /\ UNCHANGED ctlDep
  /\ \E n \in CtlNames \ CtlTakenNames, R \in SUBSET (CtlRoutes \ CtlTakenRoutes) :
       CtlStores(n, R)

CtlOtherDeletes == CtlOthers /\ UNCHANGED ctlNext /\ \E i \in DOMAIN ctlSvc : CtlWithout(i)

CtlNext ==
  \/ CtlRun \/ CtlResolve \/ CtlMutate \/ CtlDeleteConfirm \/ CtlDelete \/ CtlPreflight \/ CtlCreate
  \/ CtlTrigger \/ CtlDescribe \/ CtlGetDeployment \/ CtlJudge \/ \E r \in CtlRoutes : CtlProbe(r)
  \/ CtlDeploymentMoves \/ CtlOtherDeploys \/ CtlOtherEdits \/ CtlOtherCreates \/ CtlOtherDeletes

CtlSpec == CtlInit /\ [][CtlNext]_CtlVars
-----------------------------------------------------------------------------
(* Types.  A command is answered with one of the exit codes. *)
CtlTypeOK ==
  /\ DOMAIN ctlSvc \subseteq 1 .. ctlNext - 1
  /\ \A i \in DOMAIN ctlSvc : /\ ctlSvc[i].name \in CtlNames /\ ctlSvc[i].routes \subseteq CtlRoutes
                             /\ \A j \in DOMAIN ctlSvc \ {i} : /\ ctlSvc[i].name # ctlSvc[j].name
                                                              /\ ctlSvc[i].routes \cap ctlSvc[j].routes = {}
  /\ \A k \in DOMAIN ctlDep : ctlDep[k].status \in {"queued", "building", "success", "failed", "gone"}
  /\ ctl.exit \in CtlExits /\ Len(ctl.reports) <= CtlPolls
  /\ \A k \in DOMAIN ctl.reports : ctl.reports[k] \in CtlStates
  /\ DOMAIN ctl.seen \subseteq ctl.view.routes

(* Exit code 0 of a live check means that the service was active, that the
   deployment asked for had succeeded before any route was probed, and that
   every route of the service then answered with the service's own page and,
   for https, with a valid certificate (verify.ts:221-272, commands.ts:250-310). *)
LiveIsProven ==
  ctl.step = "done" /\ ctl.exit = 0 /\ ctl.cmd \in {"status", "status wait", "deploy wait"} =>
    /\ ctl.view.active /\ ctl.view.routes # {}
    /\ ctl.cmd = "deploy wait" => ctl.view.dep = ctl.dep
    /\ \A r \in ctl.view.routes : r \in DOMAIN ctl.seen /\ ctl.seen[r].page = "own"
                                 /\ ctl.seen[r].cert /\ ctl.seen[r].deployed

(* When deploy --wait gives up because a deployment failed, it is the one the
   command queued, whatever was deployed since (commands.ts:256-268). *)
FailureIsOwn ==
  ctl.step = "done" /\ ctl.exit = 1 /\ ctl.cmd = "deploy wait" /\ ctl.view.active /\ ctl.view.status = "failed"
    => ctl.view.dep = ctl.dep /\ ctlDep[ctl.dep].status \in {"failed", "gone"}

(* A wait is ended by a failing route only after failing in CtlFailAfter polls
   in a row (verify.ts:274-316, "must repeat this many polls to count"). *)
RouteFailureRepeats ==
  ctl.step = "done" /\ ctl.exit = 1 /\ ctl.cmd \in {"status wait", "deploy wait"}
    /\ Len(ctl.reports) > 0 /\ CtlHard(ctl.view) = "pass"
    => /\ Len(ctl.reports) >= CtlFailAfter
       /\ \A k \in 0 .. CtlFailAfter - 1 : ctl.reports[Len(ctl.reports) - k] = "fail"

(* A create that ends with the exit code of a conflict has created nothing,
   whoever took the name or a route meanwhile (commands.ts:492-500, "Nothing
   was created"; the transaction of services.ts:502-567). *)
ConflictCreatesNothing == ctl.cmd = "create" /\ ctl.exit = 3 => ctl.made = 0

(* A command changes no other service than the one its argument named when it
   was resolved, however the services are renamed meanwhile (serviceRef.ts:4-7,
   "A service's permanent identity is its numeric id"). *)
ActsOnResolved ==
  [][ctl.step \in {"mutate", "deleting"} /\ ctl'.step = "done"
     => \A i \in DOMAIN ctlSvc \ {ctl.svc} : i \in DOMAIN ctlSvc' /\ ctlSvc'[i] = ctlSvc[i]]_CtlVars

(* Together: the exit code tells what has happened, whatever others did. *)
VerdictIsSound ==
  CtlTypeOK /\ LiveIsProven /\ FailureIsOwn /\ RouteFailureRepeats /\ ConflictCreatesNothing

=============================================================================
