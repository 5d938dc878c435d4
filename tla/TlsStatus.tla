----------------------------- MODULE TlsStatus -----------------------------
(***************************************************************************)
(* The TLS status of domains and routes: background probes started by page *)
(* loads, their results, and the plain-HTTP fallback blocks that Caddy     *)
(* serves for the domains whose status is not "active" (services/caddy.ts, *)
(* routers/domains.ts, routers/services.ts).                               *)
(*                                                                         *)
(* A reload is the abstract one of ConfigDelivery: once asked for, it      *)
(* delivers the rows as they are then, or fails and is logged.             *)
(***************************************************************************)
EXTENDS Naturals

CONSTANTS TlsDomains, TlsRoutes,
          TlsOwner,      \* the domain of each route
          TlsLoopback,   \* domains named localhost and the like
          TlsHttpOnly,   \* routes served over plain HTTP
          TlsProbes,     \* bound: refreshes started per domain
          TlsRouteProbes \* bound: probes of a route at a time

ASSUME TlsAssumption == /\ TlsLoopback \subseteq TlsDomains
                        /\ TlsOwner \in [TlsRoutes -> TlsDomains]
                        /\ TlsHttpOnly \subseteq TlsRoutes /\ {TlsProbes, TlsRouteProbes} \subseteq Nat

VARIABLES
  tlsRow,       \* Domain rows; "by" numbers the refresh that wrote the status
  tlsJob,       \* refreshes; two per domain could be told apart
  tlsInFlight,  \* inFlightRefreshes
  tlsAsked,     \* refreshes started so far
  tlsReload,    \* "asked": a reload is due, "failed": the last one failed
  tlsServed,    \* domains Caddy serves with a fallback block
  tlsSilent,    \* observer: status changed, and nobody asked for a reload
  tlsRoute      \* ServiceRoute.tlsStatus, and the probes of each route

TlsVars == <<tlsRow, tlsJob, tlsInFlight, tlsAsked, tlsReload, tlsServed, tlsSilent, tlsRoute>>

TlsStatuses == {"pending", "active", "error"}

\* Faulty variant: a time-out has a status of its own.
TlsFoundTimeout == TlsStatuses \cup {"timeout"}

\* What a probe reports.
TlsFound == {"pending", "active", "error"}
TlsIdle == [step |-> "idle", found |-> "pending", seen |-> "pending", number |-> 0]
TlsFallback == {d \in TlsDomains : tlsRow[d].state = "here" /\ tlsRow[d].status # "active"}

TlsInit ==
  /\ tlsRow = [d \in TlsDomains |-> [state |-> "none", status |-> "pending", fresh |-> FALSE, by |-> 0]]
  /\ tlsJob = [d \in TlsDomains |-> [k \in {1, 2} |-> TlsIdle]]
  /\ tlsInFlight = {} /\ tlsServed = {} /\ tlsSilent = {}
  /\ tlsAsked = [d \in TlsDomains |-> 0]
  /\ tlsReload = "none"
  /\ \E R \in SUBSET TlsRoutes :
       tlsRoute = [r \in TlsRoutes |-> [here |-> r \in R, status |-> "unchecked", probes |-> 0]]

-----------------------------------------------------------------------------
(* Refreshes *)

(* Faulty variants: no check of the probes in flight; none of the name. *)
TlsMayStartAlways(d) == d \notin TlsLoopback
TlsMayStartLoopback(d) == d \notin tlsInFlight

TlsMayStart(d) == d \notin TlsLoopback /\ d \notin tlsInFlight

(* scheduleDomainStatusRefresh for every stale domain of a page. *)
TlsStart(S) ==
  LET idle(d) == {k \in {1, 2} : tlsJob[d][k].step = "idle"}
      started == {d \in S : /\ tlsRow[d].state = "here" /\ ~tlsRow[d].fresh /\ TlsMayStart(d)
                            /\ idle(d) # {} /\ tlsAsked[d] < TlsProbes}
  IN /\ tlsInFlight' = tlsInFlight \cup started
     /\ tlsAsked' = [d \in TlsDomains |-> IF d \in started THEN tlsAsked[d] + 1 ELSE tlsAsked[d]]
     /\ tlsJob' = [d \in TlsDomains |->
          IF d \notin started THEN tlsJob[d]
          ELSE [tlsJob[d] EXCEPT ![CHOOSE k \in idle(d) : TRUE] =
                  [TlsIdle EXCEPT !.step = "probing", !.number = tlsAsked[d] + 1]]]

TlsJobStep(d, k, step) == tlsJob[d][k].step = step
TlsJobBecomes(d, k, rec) == tlsJob' = [tlsJob EXCEPT ![d][k] = rec]

(* Faulty variant: the set is left only when the row was written. *)
TlsEndIfWritten(d, k) ==
  /\ TlsJobBecomes(d, k, TlsIdle)
  /\ tlsInFlight' = IF tlsRow[d].state = "here" THEN tlsInFlight \ {d} ELSE tlsInFlight

(* The chain of promises ends, with or without an error. *)
TlsEnd(d, k) == TlsJobBecomes(d, k, TlsIdle) /\ tlsInFlight' = tlsInFlight \ {d}

(* The handshake ends: certificate, time-out or error.  A throw of connect
   itself rejects instead. *)
TlsProbed(d, k) ==
  /\ TlsJobStep(d, k, "probing")
  /\ \/ \E f \in TlsFound : TlsJobBecomes(d, k, [tlsJob[d][k] EXCEPT !.step = "read", !.found = f])
     \/ TlsJobBecomes(d, k, [tlsJob[d][k] EXCEPT !.step = "rejected"])
  /\ UNCHANGED <<tlsRow, tlsInFlight, tlsAsked, tlsReload, tlsServed, tlsSilent, tlsRoute>>

TlsRead(d, k) ==
  /\ TlsJobStep(d, k, "read")
  /\ TlsJobBecomes(d, k, [tlsJob[d][k] EXCEPT !.step = "write",
       !.seen = IF tlsRow[d].state = "here" THEN tlsRow[d].status ELSE "gone"])
  /\ UNCHANGED <<tlsRow, tlsInFlight, tlsAsked, tlsReload, tlsServed, tlsSilent, tlsRoute>>

(* Faulty variant: only a certificate that was obtained leads to a reload. *)
TlsChangedToActive(job) == job.found = "active" /\ job.seen # "active"

TlsChanged(job) == job.seen # "gone" /\ job.seen # job.found

TlsStored(d, status, number) ==
  tlsRow' = [tlsRow EXCEPT ![d].status = status, ![d].fresh = TRUE, ![d].by = number]

(* The update throws when the domain has been deleted; it overwrites, without
   noticing, a status an administrator has set since the read. *)
TlsWrite(d, k) ==
  LET job == tlsJob[d][k]
  IN /\ TlsJobStep(d, k, "write")
     /\ IF tlsRow[d].state # "here"
        THEN TlsEnd(d, k) /\ UNCHANGED <<tlsRow, tlsReload, tlsSilent>>
        ELSE /\ TlsStored(d, job.found, job.number)
             /\ tlsSilent' = IF tlsRow[d].status = job.seen THEN tlsSilent ELSE tlsSilent \cup {d}
             /\ IF TlsChanged(job)
                THEN /\ tlsReload' = "asked"
                     /\ TlsJobBecomes(d, k, [job EXCEPT !.step = "reload"])
                     /\ UNCHANGED tlsInFlight
                ELSE TlsEnd(d, k) /\ UNCHANGED tlsReload
     /\ UNCHANGED <<tlsAsked, tlsServed, tlsRoute>>

TlsReloaded(d, k) ==
  /\ TlsJobStep(d, k, "reload") /\ tlsReload # "asked"
  /\ TlsEnd(d, k)
  /\ UNCHANGED <<tlsRow, tlsAsked, tlsReload, tlsServed, tlsSilent, tlsRoute>>

(* A rejected probe stores an error and reloads nothing. *)
TlsRejected(d, k) ==
  /\ TlsJobStep(d, k, "rejected")
  /\ IF tlsRow[d].state # "here" THEN UNCHANGED <<tlsRow, tlsSilent>>
     ELSE TlsStored(d, "error", tlsJob[d][k].number) /\ tlsSilent' = tlsSilent \cup {d}
  /\ TlsEnd(d, k)
  /\ UNCHANGED <<tlsAsked, tlsReload, tlsServed, tlsRoute>>

(* Caddy takes the configuration built from the rows, or the reload fails. *)
TlsDeliver ==
  /\ tlsReload = "asked"
  /\ \/ tlsReload' = "none" /\ tlsServed' = TlsFallback /\ tlsSilent' = {}
     \/ tlsReload' = "failed" /\ UNCHANGED <<tlsServed, tlsSilent>>
  /\ UNCHANGED <<tlsRow, tlsJob, tlsInFlight, tlsAsked, tlsRoute>>

-----------------------------------------------------------------------------
(* Handlers *)

TlsCreate(d) ==
  /\ tlsRow[d].state = "none"
  /\ tlsRow' = [tlsRow EXCEPT ![d].state = "here",
                              ![d].status = IF d \in TlsLoopback THEN "active" ELSE "pending"]
  /\ tlsReload' = "asked"
  /\ UNCHANGED <<tlsJob, tlsInFlight, tlsAsked, tlsServed, tlsSilent, tlsRoute>>

TlsDelete(d) ==
  /\ tlsRow[d].state = "here"
  /\ tlsRow' = [tlsRow EXCEPT ![d].state = "gone"]
  /\ tlsReload' = "asked"
  /\ tlsRoute' = [r \in TlsRoutes |-> [tlsRoute[r] EXCEPT !.here = @ /\ TlsOwner[r] # d]]
  /\ UNCHANGED <<tlsJob, tlsInFlight, tlsAsked, tlsServed, tlsSilent>>

(* update() may set a status; only the panel's switch asks for a reload. *)
TlsAdminUpdate(d) ==
  /\ tlsRow[d].state = "here"
  /\ \E s \in TlsStatuses :
       /\ s # tlsRow[d].status
       /\ tlsRow' = [tlsRow EXCEPT ![d].status = s]
       /\ tlsSilent' = tlsSilent \cup {d}
  /\ UNCHANGED <<tlsJob, tlsInFlight, tlsAsked, tlsReload, tlsServed, tlsRoute>>

TlsSwitchPanel(d) ==
  /\ tlsRow[d].state = "here" /\ tlsReload # "asked"
  /\ tlsReload' = "asked"
  /\ UNCHANGED <<tlsRow, tlsJob, tlsInFlight, tlsAsked, tlsServed, tlsSilent, tlsRoute>>

TlsList ==
  /\ TlsStart(TlsDomains \ TlsLoopback) /\ tlsJob' # tlsJob
  /\ UNCHANGED <<tlsRow, tlsReload, tlsServed, tlsSilent, tlsRoute>>

(* Faulty variant: the route's own flag is not consulted. *)
TlsProbeAllowedAny(r) == tlsRoute[r].here

TlsProbeAllowed(r) == tlsRoute[r].here /\ r \notin TlsHttpOnly

(* services.get: the domains of the service's routes, and unchecked routes. *)
TlsGetService(R) ==
  LET new == {r \in R : /\ TlsProbeAllowed(r) /\ tlsRoute[r].status = "unchecked"
                                /\ tlsRoute[r].probes < TlsRouteProbes}
  IN /\ TlsStart({TlsOwner[r] : r \in R})
     /\ tlsRoute' = [r \in TlsRoutes |-> IF r \in new THEN [tlsRoute[r] EXCEPT !.probes = @ + 1]
                                         ELSE tlsRoute[r]]
     /\ <<tlsJob, tlsRoute>>' # <<tlsJob, tlsRoute>>
     /\ UNCHANGED <<tlsRow, tlsReload, tlsServed, tlsSilent>>

TlsRetryRoute(r) ==
  /\ TlsProbeAllowed(r) /\ tlsRoute[r].probes < TlsRouteProbes
  /\ tlsRoute' = [tlsRoute EXCEPT ![r].probes = @ + 1]
  /\ UNCHANGED <<tlsRow, tlsJob, tlsInFlight, tlsAsked, tlsReload, tlsServed, tlsSilent>>

(* probeRouteTls: anything but a certificate is an error; no row, no update. *)
TlsRouteProbed(r) ==
  /\ tlsRoute[r].probes > 0
  /\ \E s \in {"active", "error"} :
       tlsRoute' = [tlsRoute EXCEPT ![r].probes = @ - 1,
                                    ![r].status = IF tlsRoute[r].here THEN s ELSE @]
  /\ UNCHANGED <<tlsRow, tlsJob, tlsInFlight, tlsAsked, tlsReload, tlsServed, tlsSilent>>

(* Five minutes pass. *)
TlsExpire(d) ==
  /\ tlsRow[d].fresh
  /\ tlsRow' = [tlsRow EXCEPT ![d].fresh = FALSE]
  /\ UNCHANGED <<tlsJob, tlsInFlight, tlsAsked, tlsReload, tlsServed, tlsSilent, tlsRoute>>

TlsRefreshStep(d, k) ==
  TlsProbed(d, k) \/ TlsRead(d, k) \/ TlsWrite(d, k) \/ TlsReloaded(d, k) \/ TlsRejected(d, k)

TlsNext ==
  \/ \E d \in TlsDomains :
       \/ \E k \in {1, 2} : TlsRefreshStep(d, k)
       \/ TlsCreate(d) \/ TlsDelete(d) \/ TlsAdminUpdate(d) \/ TlsSwitchPanel(d) \/ TlsExpire(d)
  \/ TlsDeliver \/ TlsList
  \/ \E R \in SUBSET TlsRoutes : TlsGetService(R)
  \/ \E r \in TlsRoutes : TlsRetryRoute(r) \/ TlsRouteProbed(r)

TlsSpec == TlsInit /\ [][TlsNext]_TlsVars

-----------------------------------------------------------------------------
(* Types. *)
TlsTypeOK ==
  /\ tlsRow \in [TlsDomains -> [state : {"none", "here", "gone"}, status : TlsStatuses,
                                fresh : BOOLEAN, by : 0 .. TlsProbes]]
  /\ tlsJob \in [TlsDomains -> [{1, 2} ->
       [step : {"idle", "probing", "read", "write", "reload", "rejected"},
        found : TlsStatuses, seen : TlsStatuses \cup {"gone"}, number : 0 .. TlsProbes]]]
  /\ tlsInFlight \subseteq TlsDomains /\ tlsServed \subseteq TlsDomains
  /\ tlsSilent \subseteq TlsDomains
  /\ tlsReload \in {"none", "asked", "failed"}
  /\ tlsRoute \in [TlsRoutes -> [here : BOOLEAN, status : {"unchecked", "active", "error"},
                                 probes : 0 .. TlsRouteProbes]]

(* Unless a reload failed, or an administrator or a rejected probe wrote a
   status (which asks for none), Caddy answers plain HTTP for exactly the domains whose
   stored status is not "active" (caddy.ts:844-870, 527-534). *)
FallbackFollowsStatus ==
  tlsReload = "none" => tlsServed \ tlsSilent = TlsFallback \ tlsSilent

(* A domain is never shut out of refreshes: whatever happens to its row, it
   leaves inFlightRefreshes when its refresh ends (caddy.ts:835-837, 884-890). *)
InFlightIsRunning ==
  \A d \in tlsInFlight : \E k \in {1, 2} : tlsJob[d][k].step # "idle"

(* The stored status never goes back to the result of an older refresh
   (caddy.ts:835: at most one refresh of a domain is in flight). *)
NewestProbeKept == [][\A d \in TlsDomains : tlsRow'[d].by >= tlsRow[d].by]_TlsVars

(* No probe writes the status of a loopback domain, which nothing serves over
   TLS, or of an HTTP-only route (caddy.ts:833-834, 309, 331; services.ts:296-306,
   which schedules without looking at the name). *)
NothingToProbe ==
  /\ \A d \in TlsLoopback : tlsRow[d].by = 0
  /\ \A r \in TlsHttpOnly : tlsRoute[r].status = "unchecked"

(* Together: statuses are those of probes that were due, no domain is shut out
   of them, and Caddy's fallback follows. *)
TlsIsSound == TlsTypeOK /\ FallbackFollowsStatus /\ InFlightIsRunning /\ NothingToProbe

=============================================================================
