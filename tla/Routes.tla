------------------------------- MODULE Routes -------------------------------
(***************************************************************************)
(* The route table: server/src/services/routes.ts, the route procedures of *)
(* server/src/routers/services.ts, the Domain rows of routers/domains.ts   *)
(* and the built-in root route of services/bootstrap.ts.                   *)
(*                                                                         *)
(* A host is served through a Domain row with exactly its name, or through *)
(* the wildcard row of its zone with its first label as subdomain; both    *)
(* name the same effective host.  A handler resolves its routes, checks    *)
(* them against the management host, and inserts them, with other handlers *)
(* running between these steps.  Interactive transactions are atomic: the  *)
(* adapter serialises them (routes.ts:128-136).                            *)
(*                                                                         *)
(* Names are model values; the syntax of route strings is left out.  The   *)
(* variable SITEY_DOMAIN and the one for SITEY_URL are unset.              *)
(***************************************************************************)
EXTENDS Integers, Sequences, FiniteSets

CONSTANTS
    Request,      \* concurrent API requests
    Host,         \* host names, not wildcards
    Zone,         \* wildcard names, *.<rest>
    ZoneOf,       \* the zone whose label a host is, or None
    PanelHost,    \* sitey.<rest> of each zone
    Loopback,     \* hosts for which isLoopbackHost holds
    Path,         \* path prefixes
    Root,         \* the empty path prefix
    None,
    MaxDomain,    \* bound: Domain rows ever created
    MaxRoute,     \* bound: routes ever created
    MaxService,   \* bound: services ever created
    MaxWant       \* bound: routes in one services.create

ASSUME NameAssumption ==
    /\ None \notin Host \union Zone
    /\ Host \intersect Zone = {}
    /\ ZoneOf \in [Host -> Zone \union {None}]
    /\ PanelHost \in [Zone -> Host]
    /\ Loopback \subseteq Host
    /\ Root \in Path
ASSUME BoundAssumption ==
    {MaxDomain, MaxRoute, MaxService, MaxWant} \subseteq Nat

VARIABLES
    domains,      \* Domain rows
    nextDomain,
    routes,       \* ServiceRoute rows
    nextRoute,
    services,     \* ids of the Service rows
    nextService,
    sitey,        \* id of the protected service, 0 before there is one
    site,         \* host of the configured public site URL, or None
    req,          \* what each request is doing
    boot          \* "up" once bootstrap() is over and requests are served

tableVars == <<routes, nextRoute>>
domainVars == <<domains, nextDomain>>
serviceVars == <<services, nextService, sitey>>
vars == <<tableVars, domainVars, serviceVars, site, req, boot>>

DomainId == 1..MaxDomain
ServiceId == 1..MaxService
DomainRow == [id : DomainId, name : Host \union Zone, panel : BOOLEAN]
RouteRow == [id : 1..MaxRoute, service : ServiceId, domain : 0..MaxDomain,
             host : Host \union {None}, path : Path, httpOnly : BOOLEAN,
             protected : BOOLEAN]

\* A resolved route: the Domain row (0: none), and the host it stands for; the
\* subdomain of a wildcard row is kept as the host it names.
Want == [domain : 0..MaxDomain, host : Host \union {None}, path : Path,
         httpOnly : BOOLEAN]

Idle == [kind |-> "idle"]
IsIdle(q) == boot = "up" /\ req[q] = Idle
Becomes(q, state) == req' = [req EXCEPT ![q] = state]

-----------------------------------------------------------------------------
(* Hosts and rows *)

Covers(d, h) == d.name = h \/ d.name = ZoneOf[h]

\* resolveRouteHost: the exact row of the host, else the row of its zone.
ResolveRouteHost(h) ==
    LET exact == {d \in domains : d.name = h}
    IN IF exact # {} THEN exact ELSE {d \in domains : d.name = ZoneOf[h]}

\* Faulty variant: only the row that was resolved is looked at.
RoutesForRow(h) ==
    {r \in routes : r.host = h /\ \E d \in ResolveRouteHost(h) : r.domain = d.id}

\* routesForHost: by effective host, over exact and wildcard rows.
RoutesForHost(h) ==
    {r \in routes : \E d \in domains :
        /\ d.id = r.domain
        /\ \/ d.name = h
           \/ d.name = ZoneOf[h] /\ r.host = h}

\* resolvePublicSiteUrl: the configured URL, else the panel of the oldest
\* wildcard row that has it enabled.
PanelRows == {d \in domains : d.name \in Zone /\ d.panel}
ManagementHost ==
    IF site # None THEN site
    ELSE IF PanelRows = {} THEN None
    ELSE PanelHost[(CHOOSE d \in PanelRows : \A e \in PanelRows : d.id <= e.id).name]

\* assertRouteAllowed
RouteAllowed(w) ==
    /\ w.host \in Loopback => w.httpOnly
    /\ w.host = ManagementHost => w.path # Root /\ ~w.httpOnly

-----------------------------------------------------------------------------
(* addRoute and create *)

\* addRoute with a route string.
AddByHost(q, s, h, p, b) ==
    /\ IsIdle(q)
    /\ s \in services
    /\ \E d \in ResolveRouteHost(h) :
         Becomes(q, [kind |-> "adding", service |-> s, allowed |-> 0,
                     want |-> <<[domain |-> d.id, host |-> h, path |-> p, httpOnly |-> b]>>])
    /\ UNCHANGED <<tableVars, domainVars, serviceVars, site, boot>>

\* addRoute with a domainId: any row that covers the host, the exact one or not;
\* generateUniqueSubdomain picks one such host.
AddByRow(q, s, d, h, p, b) ==
    /\ IsIdle(q)
    /\ s \in services
    /\ d \in domains
    /\ Covers(d, h)
    /\ Becomes(q, [kind |-> "adding", service |-> s, allowed |-> 0,
                   want |-> <<[domain |-> d.id, host |-> h, path |-> p, httpOnly |-> b]>>])
    /\ UNCHANGED <<tableVars, domainVars, serviceVars, site, boot>>

\* addRoute without a domain: nothing to check before the transaction.
AddDomainless(q, s, p, b) ==
    /\ IsIdle(q)
    /\ s \in services
    /\ Becomes(q, [kind |-> "adding", service |-> s, allowed |-> 1,
                   want |-> <<[domain |-> 0, host |-> None, path |-> p, httpOnly |-> b]>>])
    /\ UNCHANGED <<tableVars, domainVars, serviceVars, site, boot>>

\* create with its initial routes; the service has no id yet.
Create(q, want) ==
    /\ IsIdle(q)
    /\ nextService <= MaxService
    /\ \A i \in DOMAIN want : \E d \in ResolveRouteHost(want[i].host) : d.id = want[i].domain
    /\ Becomes(q, [kind |-> "adding", service |-> 0, allowed |-> 0, want |-> want])
    /\ UNCHANGED <<tableVars, domainVars, serviceVars, site, boot>>

\* assertRouteAllowed for the next route of the request; it throws if not.
Allow(q) ==
    /\ req[q].kind = "adding"
    /\ req[q].allowed < Len(req[q].want)
    /\ IF RouteAllowed(req[q].want[req[q].allowed + 1])
       THEN req' = [req EXCEPT ![q].allowed = @ + 1]
       ELSE Becomes(q, Idle)
    /\ UNCHANGED <<tableVars, domainVars, serviceVars, site, boot>>

\* The routes claimRoute finds for one that is wanted.
Existing(w) ==
    IF w.domain = 0 THEN {r \in routes : r.domain = 0 /\ r.path = w.path}
    ELSE {r \in RoutesForHost(w.host) : r.path = w.path}

SameKey(v, w) == v.host = w.host /\ v.path = w.path

\* claimRoute: what exists is the service's own.
Claimable(s, want) == \A i \in DOMAIN want : \A r \in Existing(want[i]) : r.service = s

\* assertCompatibleHost, against the table and the routes of the same request;
\* not asked for a route without a domain.
Compatible(want) ==
    \A i \in DOMAIN want : want[i].domain # 0 =>
        /\ \A r \in RoutesForHost(want[i].host) : r.httpOnly = want[i].httpOnly
        /\ \A j \in DOMAIN want :
             want[j].host = want[i].host => want[j].httpOnly = want[i].httpOnly

\* The foreign keys: rows found earlier may be gone by now.
RowsExist(s, want) ==
    /\ s = 0 \/ s \in services
    /\ \A i \in DOMAIN want :
         want[i].domain = 0 \/ \E d \in domains : d.id = want[i].domain

\* Routes of the request that have no row yet, each once.
Missing(want) ==
    {i \in DOMAIN want :
        /\ Existing(want[i]) = {}
        /\ \A j \in 1..(i - 1) : ~SameKey(want[j], want[i])}

NewRow(i, s, w) ==
    [id |-> nextRoute + i - 1, service |-> s, domain |-> w.domain, host |-> w.host,
     path |-> w.path, httpOnly |-> w.httpOnly, protected |-> FALSE]

\* Faulty variant: routes that exist are overwritten, whoever has them.
InsertOver(q) ==
    /\ req[q].kind = "adding"
    /\ req[q].allowed = Len(req[q].want)
    /\ LET want == req[q].want
           s == IF req[q].service = 0 THEN nextService ELSE req[q].service
       IN /\ s <= MaxService
          /\ IF Compatible(want) /\ RowsExist(req[q].service, want)
             THEN /\ nextRoute + Len(want) <= MaxRoute + 1
                  /\ routes' = {r \in routes : \A i \in DOMAIN want : ~SameKey(r, want[i])}
                         \union {NewRow(i, s, want[i]) : i \in DOMAIN want}
                  /\ nextRoute' = nextRoute + Len(want)
                  /\ services' = services \union {s}
                  /\ nextService' = IF s = nextService THEN s + 1 ELSE nextService
             ELSE UNCHANGED <<tableVars, services, nextService>>
    /\ Becomes(q, Idle)
    /\ UNCHANGED <<domainVars, sitey, site, boot>>

\* The transaction: insertResolvedRoute or insertDomainlessRoute for each
\* route, after inserting the service if it is a create; all or nothing.
Insert(q) ==
    /\ req[q].kind = "adding"
    /\ req[q].allowed = Len(req[q].want)
    /\ LET want == req[q].want
           isNew == req[q].service = 0
           s == IF isNew THEN nextService ELSE req[q].service
       IN /\ s <= MaxService
          /\ IF Claimable(s, want) /\ Compatible(want) /\ RowsExist(req[q].service, want)
             THEN /\ nextRoute + Len(want) <= MaxRoute + 1
                  /\ routes' = routes \union {NewRow(i, s, want[i]) : i \in Missing(want)}
                  /\ nextRoute' = nextRoute + Len(want)
                  /\ services' = services \union {s}
                  /\ nextService' = IF isNew THEN nextService + 1 ELSE nextService
             ELSE UNCHANGED <<tableVars, services, nextService>>
    /\ Becomes(q, Idle)
    /\ UNCHANGED <<domainVars, sitey, site, boot>>

-----------------------------------------------------------------------------
(* removeRoute, and services.delete *)

\* Finds the route by its host, or by its id; for is who asked, 0 when by id.
FindByHost(q, s, h, p) ==
    /\ IsIdle(q)
    /\ s \in services
    /\ \E r \in RoutesForHost(h) :
         /\ r.service = s /\ r.path = p /\ ~r.protected
         /\ Becomes(q, [kind |-> "removing", id |-> r.id, for |-> s, host |-> h, path |-> p])
    /\ UNCHANGED <<tableVars, domainVars, serviceVars, site, boot>>

FindById(q, r) ==
    /\ IsIdle(q)
    /\ r \in routes
    /\ ~r.protected
    /\ Becomes(q, [kind |-> "removing", id |-> r.id, for |-> 0, host |-> r.host,
                   path |-> r.path])
    /\ UNCHANGED <<tableVars, domainVars, serviceVars, site, boot>>

\* Faulty variant: deletes by host and path what was found by id.
RemoveByKey(q) ==
    /\ req[q].kind = "removing"
    /\ routes' = {r \in routes : ~SameKey(r, req[q])}
    /\ Becomes(q, Idle)
    /\ UNCHANGED <<nextRoute, domainVars, serviceVars, site, boot>>

\* The delete; it throws when the row is gone by now.
Remove(q) ==
    /\ req[q].kind = "removing"
    /\ routes' = {r \in routes : r.id # req[q].id}
    /\ Becomes(q, Idle)
    /\ UNCHANGED <<nextRoute, domainVars, serviceVars, site, boot>>

\* services.delete; the routes go with the service.
DeleteService(s) ==
    /\ boot = "up"
    /\ s \in services \ {sitey}
    /\ services' = services \ {s}
    /\ routes' = {r \in routes : r.service # s}
    /\ UNCHANGED <<nextRoute, domainVars, nextService, sitey, site, req, boot>>

-----------------------------------------------------------------------------
(* Domains and the public site URL *)

\* domains.create; its lookup decides nothing that the unique index on the name
\* would not decide at the insert.
CreateDomain(n) ==
    /\ boot = "up"
    /\ nextDomain <= MaxDomain
    /\ \A d \in domains : d.name # n
    /\ domains' = domains \union {[id |-> nextDomain, name |-> n, panel |-> TRUE]}
    /\ nextDomain' = nextDomain + 1
    /\ UNCHANGED <<tableVars, serviceVars, site, req, boot>>

\* Faulty variant: the routes of the row stay.
DeleteRowOnly(d) ==
    /\ boot = "up"
    /\ d \in domains
    /\ domains' = domains \ {d}
    /\ UNCHANGED <<tableVars, nextDomain, serviceVars, site, req, boot>>

\* domains.delete; the routes go with the row.
DeleteDomain(d) ==
    /\ boot = "up"
    /\ d \in domains
    /\ domains' = domains \ {d}
    /\ routes' = {r \in routes : r.domain # d.id}
    /\ UNCHANGED <<nextRoute, nextDomain, serviceVars, site, req, boot>>

\* domains.update of siteySubdomainsEnabled, of interest on wildcard rows only.
SetPanel(d, b) ==
    /\ boot = "up"
    /\ d \in domains
    /\ d.name \in Zone
    /\ domains' = (domains \ {d}) \union {[d EXCEPT !.panel = b]}
    /\ UNCHANGED <<tableVars, nextDomain, serviceVars, site, req, boot>>

\* setPublicSiteUrl refuses loopback hosts; clearPublicSiteUrl.
SetPublicSiteUrl(h) ==
    /\ boot = "up"
    /\ h \in (Host \ Loopback) \union {None}
    /\ site' = h
    /\ UNCHANGED <<tableVars, domainVars, serviceVars, req, boot>>

-----------------------------------------------------------------------------
(* bootstrap *)

\* bootstrap looks for the protected service only, and creates it.
BootService ==
    /\ boot = "down"
    /\ IF sitey # 0
       THEN boot' = "up" /\ UNCHANGED serviceVars
       ELSE /\ nextService <= MaxService
            /\ boot' = "service"
            /\ sitey' = nextService
            /\ services' = services \union {nextService}
            /\ nextService' = nextService + 1
    /\ UNCHANGED <<tableVars, domainVars, site, req>>

\* The catch-all root route of the new service.
BootRoute ==
    /\ boot = "service"
    /\ nextRoute <= MaxRoute
    /\ routes' = routes \union {[id |-> nextRoute, service |-> sitey, domain |-> 0,
                                 host |-> None, path |-> Root, httpOnly |-> FALSE,
                                 protected |-> TRUE]}
    /\ nextRoute' = nextRoute + 1
    /\ boot' = "up"
    /\ UNCHANGED <<domainVars, serviceVars, site, req>>

\* The process dies in between and is started again.  Elsewhere a crash only
\* drops requests that have written nothing yet.
BootDies ==
    /\ boot = "service"
    /\ boot' = "down"
    /\ UNCHANGED <<tableVars, domainVars, serviceVars, site, req>>

-----------------------------------------------------------------------------

Init ==
    /\ domains = {} /\ nextDomain = 1
    /\ routes = {} /\ nextRoute = 1
    /\ services = {} /\ nextService = 1
    /\ sitey = 0
    /\ site = None
    /\ req = [q \in Request |-> Idle]
    /\ boot = "down"

\* Routes a create may ask for.
WantedRoute == {w \in Want : w.domain # 0 /\ w.host # None}

Adding(q) ==
    \/ \E s \in services, h \in Host, p \in Path, b \in BOOLEAN : AddByHost(q, s, h, p, b)
    \/ \E s \in services, d \in domains, h \in Host, p \in Path, b \in BOOLEAN :
         AddByRow(q, s, d, h, p, b)
    \/ \E s \in services, p \in Path, b \in BOOLEAN : AddDomainless(q, s, p, b)
    \/ \E n \in 0..MaxWant : \E want \in [1..n -> WantedRoute] : Create(q, want)
    \/ Allow(q)
    \/ Insert(q)

Removing(q) ==
    \/ \E s \in services, h \in Host, p \in Path : FindByHost(q, s, h, p)
    \/ \E r \in routes : FindById(q, r)
    \/ Remove(q)

Settings ==
    \/ \E n \in Host \union Zone : CreateDomain(n)
    \/ \E s \in services : DeleteService(s)
    \/ \E d \in domains : DeleteDomain(d)
    \/ \E d \in domains, b \in BOOLEAN : SetPanel(d, b)
    \/ \E h \in Host \union {None} : SetPublicSiteUrl(h)

Next ==
    \/ \E q \in Request : Adding(q) \/ Removing(q)
    \/ Settings
    \/ BootService \/ BootRoute \/ BootDies

Spec == Init /\ [][Next]_vars

-----------------------------------------------------------------------------
(* Properties *)

ResolvedRequest ==
    [kind : {"adding"}, service : 0..MaxService, allowed : Nat, want : Seq(Want)]
RemovalRequest ==
    [kind : {"removing"}, id : 1..MaxRoute, for : 0..MaxService,
     host : Host \union {None}, path : Path]

TypeOK ==
    /\ domains \subseteq DomainRow
    /\ nextDomain \in 1..(MaxDomain + 1)
    /\ routes \subseteq RouteRow
    /\ nextRoute \in 1..(MaxRoute + 1)
    /\ services \subseteq ServiceId
    /\ nextService \in 1..(MaxService + 1)
    /\ sitey \in 0..MaxService
    /\ site \in (Host \ Loopback) \union {None}
    /\ req \in [Request -> {Idle} \union ResolvedRequest \union RemovalRequest]
    /\ boot \in {"down", "service", "up"}

\* Every route belongs to a service and a Domain row that exist, and is about a
\* host that row covers (what the foreign keys and their cascades keep).
RoutesHaveRows ==
    \A r \in routes :
        /\ r.service \in services
        /\ IF r.domain = 0 THEN r.host = None
           ELSE r.host \in Host /\ \E d \in domains : d.id = r.domain /\ Covers(d, r.host)

\* An effective host and path is routed to one service at most, through whatever
\* Domain rows and by whatever requests running at the same time
\* (routes.ts:128-136, docs/design/remote-cli.md:209-212).
OneOwner == \A r, t \in routes : SameKey(r, t) => r = t

\* All routes of a host are HTTP-only, or none is: Caddy gets one site block for
\* the host (routes.ts:86-96).
OneScheme ==
    \A r, t \in routes : r.host # None /\ r.host = t.host => r.httpOnly = t.httpOnly

\* Routes on loopback hosts are HTTP-only, whoever inserted them (routes.ts:68-72).
LoopbackIsHttpOnly == \A r \in routes : r.host \in Loopback => r.httpOnly

\* A removal by route string takes away only a route of the service it names,
\* though the key may have changed hands since the lookup (services.ts:960-977).
RemovesOnlyOwn ==
    [][\A q \in Request : req[q].kind = "removing" /\ req'[q] = Idle /\ boot' = "up"
          /\ req[q].for # 0 =>
             \A r \in routes \ routes' : r.service = req[q].for]_vars

\* The table implements exclusive ownership of keys: nothing passes from one
\* service to another in a step, and a create takes all its keys or none.
OwnedKey == (Host \union {None}) \X Path
RouteAt(k) == {r \in routes : r.host = k[1] /\ r.path = k[2]}
Ownership == INSTANCE RouteOwnership WITH
    Key <- OwnedKey, Service <- ServiceId, Nobody <- 0,
    owner <- [k \in OwnedKey |->
                IF RouteAt(k) = {} THEN 0 ELSE (CHOOSE r \in RouteAt(k) : TRUE).service]
ImplementsOwnership == Ownership!OwnershipSpec

\* "The management hostname's root is reserved for Sitey."
\* (docs/design/remote-cli.md:212-213): no service route sits there.
ManagementRootReserved ==
    \A r \in routes : r.host # None /\ r.path = Root => r.host # ManagementHost

(* Together: no route dangles, and none has a rival. *)
TableIsSound == RoutesHaveRows /\ OneOwner

=============================================================================
