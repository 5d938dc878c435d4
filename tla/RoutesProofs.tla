---------------------------- MODULE RoutesProofs ----------------------------
(***************************************************************************)
(* Proofs about the route table, for any hosts, zones and path prefixes,   *)
(* any number of concurrent requests, rows and routes per create.          *)
(***************************************************************************)
EXTENDS TLAPS, Routes

(***************************************************************************)
(* Domain rows have distinct ids, and a new row takes an id that no row    *)
(* ever had: a request that resolved a route keeps an id, not the row.     *)
(***************************************************************************)
DomainIds ==
    /\ \A d, e \in domains : d.id = e.id => d = e
    /\ \A d \in domains : d.id < nextDomain

(***************************************************************************)
(* A resolved route is about a host that its Domain row covers, if there   *)
(* still is such a row; what assertRouteAllowed let pass is HTTP-only on a *)
(* loopback host.                                                          *)
(***************************************************************************)
WantSound(w) ==
    IF w.domain = 0 THEN w.host = None
    ELSE /\ w.host \in Host
         /\ w.domain < nextDomain
         /\ \A d \in domains : d.id = w.domain => Covers(d, w.host)

WantsSound ==
    \A q \in Request : req[q].kind = "adding" =>
        \A i \in 1..Len(req[q].want) : WantSound(req[q].want[i])

AllowedSound ==
    \A q \in Request : req[q].kind = "adding" =>
        \A i \in 1..Len(req[q].want) :
            i <= req[q].allowed /\ req[q].want[i].host \in Loopback
                => req[q].want[i].httpOnly

(***************************************************************************)
(* Nothing is served and no route exists before there is a protected       *)
(* service, and none is added before bootstrap is over.                    *)
(***************************************************************************)
BootSound ==
    /\ sitey = 0 => routes = {} /\ boot = "down"
    /\ boot = "service" => routes = {} /\ sitey \in services
    /\ boot # "up" => \A q \in Request : req[q] = Idle

TableInv ==
    /\ TypeOK
    /\ BootSound
    /\ DomainIds
    /\ WantsSound
    /\ AllowedSound
    /\ RoutesHaveRows
    /\ OneOwner
    /\ OneScheme
    /\ LoopbackIsHttpOnly

-----------------------------------------------------------------------------

LEMMA TableInit == Init => TableInv
BY NameAssumption, BoundAssumption
   DEF Init, TableInv, TypeOK, BootSound, DomainIds, WantsSound, AllowedSound, RoutesHaveRows,
       OneOwner, OneScheme, LoopbackIsHttpOnly, Idle, ServiceId

\* What a request of each kind looks like.
LEMMA AddingRequest ==
    ASSUME TypeOK, NEW q \in Request, req[q].kind = "adding"
    PROVE  /\ req[q] \in ResolvedRequest
           /\ req[q].want \in Seq(Want)
           /\ req[q].allowed \in Nat
           /\ req[q].service \in 0..MaxService
           /\ \A i \in 1..Len(req[q].want) : req[q].want[i] \in Want
BY DEF TypeOK, Idle, ResolvedRequest, RemovalRequest

\* An action that leaves the rows alone and gives a request another occupation
\* than adding, or none, preserves the invariant.
LEMMA OtherOccupation ==
    ASSUME TableInv, boot = "up", NEW q \in Request,
           NEW state \in {Idle} \union RemovalRequest,
           Becomes(q, state),
           UNCHANGED <<tableVars, domainVars, serviceVars, site, boot>>
    PROVE  TableInv'
<1> USE DEF tableVars, domainVars, serviceVars
<1>1. TypeOK'
  BY DEF TableInv, TypeOK, Becomes
<1>2. state.kind # "adding"
  BY DEF Idle, RemovalRequest
<1>3. \A p \in Request : req'[p].kind = "adding" => req'[p] = req[p]
  BY <1>2 DEF TableInv, TypeOK, Becomes
<1>4. WantsSound' /\ AllowedSound'
  BY <1>3 DEF TableInv, WantsSound, AllowedSound, WantSound
<1>5. /\ BootSound' /\ DomainIds' /\ RoutesHaveRows'
      /\ OneOwner' /\ OneScheme' /\ LoopbackIsHttpOnly'
  BY DEF TableInv, BootSound, DomainIds, RoutesHaveRows, OneOwner, OneScheme, LoopbackIsHttpOnly
<1> QED
  BY <1>1, <1>4, <1>5 DEF TableInv

\* So does one that starts adding routes that are sound.
LEMMA StartsAdding ==
    ASSUME TableInv, boot = "up", NEW q \in Request, NEW state \in ResolvedRequest,
           Becomes(q, state),
           \A i \in 1..Len(state.want) :
               /\ WantSound(state.want[i])
               /\ i <= state.allowed => state.want[i].host \notin Loopback,
           UNCHANGED <<tableVars, domainVars, serviceVars, site, boot>>
    PROVE  TableInv'
<1> USE DEF tableVars, domainVars, serviceVars
<1>1. TypeOK'
  BY DEF TableInv, TypeOK, Becomes
<1>2. \A p \in Request : req'[p] = IF p = q THEN state ELSE req[p]
  BY DEF TableInv, TypeOK, Becomes
<1>3. WantsSound'
  BY <1>2 DEF TableInv, WantsSound, WantSound
<1>4. AllowedSound'
  BY <1>2 DEF TableInv, AllowedSound
<1>5. /\ BootSound' /\ DomainIds' /\ RoutesHaveRows'
      /\ OneOwner' /\ OneScheme' /\ LoopbackIsHttpOnly'
  BY DEF TableInv, BootSound, DomainIds, RoutesHaveRows, OneOwner, OneScheme, LoopbackIsHttpOnly
<1> QED
  BY <1>1, <1>3, <1>4, <1>5 DEF TableInv

\* In particular with one route.
LEMMA StartsAddingOne ==
    ASSUME TableInv, boot = "up", NEW q \in Request, NEW s \in 0..MaxService, NEW n \in Nat,
           NEW w \in Want, WantSound(w), n = 0 \/ w.host \notin Loopback,
           Becomes(q, [kind |-> "adding", service |-> s, allowed |-> n, want |-> <<w>>]),
           UNCHANGED <<tableVars, domainVars, serviceVars, site, boot>>
    PROVE  TableInv'
<1> DEFINE state == [kind |-> "adding", service |-> s, allowed |-> n, want |-> <<w>>]
<1>1. <<w>> \in Seq(Want) /\ Len(<<w>>) = 1 /\ <<w>>[1] = w
  OBVIOUS
<1>2. state \in ResolvedRequest
  BY <1>1 DEF ResolvedRequest
<1>3. \A i \in 1..Len(state.want) : i = 1 /\ state.want[i] = w
  BY <1>1
<1>4. state.allowed = n
  OBVIOUS
<1>5. Becomes(q, state)
  OBVIOUS
<1> HIDE DEF state
<1>6. \A i \in 1..Len(state.want) :
        /\ WantSound(state.want[i])
        /\ i <= state.allowed => state.want[i].host \notin Loopback
  BY <1>3, <1>4 DEF WantSound
<1> QED
  BY <1>2, <1>5, <1>6, StartsAdding

\* A route without a domain is sound, and so is one on a row that covers its host.
LEMMA DomainlessSound ==
    ASSUME NEW w, w.domain = 0, w.host = None
    PROVE  WantSound(w)
BY DEF WantSound

LEMMA CoveredSound ==
    ASSUME TableInv, NEW d \in domains, NEW h \in Host, Covers(d, h),
           NEW w, w.domain = d.id, w.host = h
    PROVE  WantSound(w)
BY DEF TableInv, TypeOK, DomainIds, WantSound, DomainRow, DomainId

LEMMA ResolvedCovers ==
    ASSUME NEW h \in Host, NEW d \in ResolveRouteHost(h)
    PROVE  d \in domains /\ Covers(d, h)
BY DEF ResolveRouteHost, Covers

-----------------------------------------------------------------------------
(* Requests that resolve, are checked, or look something up. *)

LEMMA AddByHostStep ==
    ASSUME TableInv, NEW q \in Request, NEW s \in services, NEW h \in Host,
           NEW p \in Path, NEW b \in BOOLEAN, AddByHost(q, s, h, p, b)
    PROVE  TableInv'
<1>1. PICK d \in ResolveRouteHost(h) :
        Becomes(q, [kind |-> "adding", service |-> s, allowed |-> 0,
                    want |-> <<[domain |-> d.id, host |-> h, path |-> p, httpOnly |-> b]>>])
  BY DEF AddByHost
<1> DEFINE w == [domain |-> d.id, host |-> h, path |-> p, httpOnly |-> b]
<1>2. d \in domains /\ Covers(d, h)
  BY ResolvedCovers
<1>3. w.domain = d.id /\ w.host = h
  OBVIOUS
<1>4. w \in Want /\ s \in 0..MaxService
  BY <1>2, BoundAssumption DEF TableInv, TypeOK, DomainRow, DomainId, ServiceId, Want
<1>5. boot = "up" /\ UNCHANGED <<tableVars, domainVars, serviceVars, site, boot>>
  BY DEF AddByHost, IsIdle
<1> HIDE DEF w
<1>6. WantSound(w)
  BY <1>2, <1>3, CoveredSound
<1> QED
  BY <1>1, <1>4, <1>5, <1>6, StartsAddingOne DEF w

LEMMA AddByRowStep ==
    ASSUME TableInv, NEW q \in Request, NEW s \in services, NEW d \in domains,
           NEW h \in Host, NEW p \in Path, NEW b \in BOOLEAN,
           AddByRow(q, s, d, h, p, b)
    PROVE  TableInv'
<1> DEFINE w == [domain |-> d.id, host |-> h, path |-> p, httpOnly |-> b]
<1>1. Becomes(q, [kind |-> "adding", service |-> s, allowed |-> 0, want |-> <<w>>])
  BY DEF AddByRow
<1>2. w.domain = d.id /\ w.host = h
  OBVIOUS
<1>3. w \in Want /\ s \in 0..MaxService
  BY BoundAssumption DEF TableInv, TypeOK, DomainRow, DomainId, ServiceId, Want
<1>4. /\ boot = "up"
      /\ UNCHANGED <<tableVars, domainVars, serviceVars, site, boot>>
      /\ Covers(d, h)
  BY DEF AddByRow, IsIdle
<1> HIDE DEF w
<1>5. WantSound(w)
  BY <1>2, <1>4, CoveredSound
<1> QED
  BY <1>1, <1>3, <1>4, <1>5, StartsAddingOne

LEMMA AddDomainlessStep ==
    ASSUME TableInv, NEW q \in Request, NEW s \in services, NEW p \in Path,
           NEW b \in BOOLEAN, AddDomainless(q, s, p, b)
    PROVE  TableInv'
<1> DEFINE w == [domain |-> 0, host |-> None, path |-> p, httpOnly |-> b]
<1>1. Becomes(q, [kind |-> "adding", service |-> s, allowed |-> 1, want |-> <<w>>])
  BY DEF AddDomainless
<1>2. w.domain = 0 /\ w.host = None
  OBVIOUS
<1>3. w \in Want /\ s \in 0..MaxService
  BY BoundAssumption DEF TableInv, TypeOK, ServiceId, Want
<1>4. boot = "up" /\ UNCHANGED <<tableVars, domainVars, serviceVars, site, boot>>
  BY DEF AddDomainless, IsIdle
<1> HIDE DEF w
<1>5. WantSound(w)
  BY <1>2, DomainlessSound
<1>6. w.host \notin Loopback
  BY <1>2, NameAssumption
<1> QED
  BY <1>1, <1>3, <1>4, <1>5, <1>6, StartsAddingOne

LEMMA CreateStep ==
    ASSUME TableInv, NEW q \in Request, NEW n \in 0..MaxWant,
           NEW want \in [1..n -> WantedRoute], Create(q, want)
    PROVE  TableInv'
<1> DEFINE state == [kind |-> "adding", service |-> 0, allowed |-> 0, want |-> want]
<1>1. Becomes(q, state)
  BY DEF Create
<1>2. /\ want \in Seq(Want)
      /\ Len(want) = n
      /\ \A i \in 1..n : want[i] \in WantedRoute
  BY BoundAssumption DEF WantedRoute
<1>3. ASSUME NEW i \in 1..n
      PROVE  WantSound(want[i])
  <2>1. PICK d \in ResolveRouteHost(want[i].host) : d.id = want[i].domain
    BY <1>3, <1>2 DEF Create
  <2>2. want[i].host \in Host
    BY <1>2 DEF WantedRoute, Want
  <2>3. d \in domains /\ Covers(d, want[i].host)
    BY <2>2, ResolvedCovers
  <2> QED
    BY <2>1, <2>2, <2>3, CoveredSound
<1>4. state \in ResolvedRequest
  BY <1>2, BoundAssumption DEF ResolvedRequest
<1>5. boot = "up" /\ UNCHANGED <<tableVars, domainVars, serviceVars, site, boot>>
  BY DEF Create, IsIdle
<1>6. \A i \in 1..Len(state.want) :
        /\ WantSound(state.want[i])
        /\ i <= state.allowed => state.want[i].host \notin Loopback
  BY <1>2, <1>3
<1> HIDE DEF state
<1> QED
  BY <1>1, <1>4, <1>5, <1>6, StartsAdding

LEMMA AllowStep ==
    ASSUME TableInv, NEW q \in Request, Allow(q)
    PROVE  TableInv'
<1> DEFINE rest == UNCHANGED <<tableVars, domainVars, serviceVars, site, boot>>
<1>1. rest /\ boot = "up"
  BY DEF Allow, TableInv, BootSound, Idle
<1>2. CASE ~RouteAllowed(req[q].want[req[q].allowed + 1])
  <2>1. Becomes(q, Idle)
    BY <1>2 DEF Allow
  <2> QED
    BY <1>1, <2>1, OtherOccupation
<1>3. CASE RouteAllowed(req[q].want[req[q].allowed + 1])
  <2>1. req' = [req EXCEPT ![q].allowed = @ + 1] /\ req[q].kind = "adding"
    BY <1>3 DEF Allow
  <2>2. /\ req[q] \in ResolvedRequest
        /\ req[q].allowed \in Nat
    BY <2>1, AddingRequest DEF TableInv
  <2>3. req'[q] \in ResolvedRequest /\ req'[q].want = req[q].want
        /\ req'[q].allowed = req[q].allowed + 1 /\ req'[q].kind = "adding"
    BY <2>1, <2>2 DEF TableInv, TypeOK, ResolvedRequest
  <2>4. \A p \in Request : p # q => req'[p] = req[p]
    BY <2>1 DEF TableInv, TypeOK
  <2>5. TypeOK'
    BY <1>1, <2>1, <2>3, <2>4
       DEF TableInv, TypeOK, tableVars, domainVars, serviceVars
  <2>6. WantsSound'
    BY <1>1, <2>1, <2>3, <2>4
       DEF TableInv, WantsSound, WantSound, domainVars
  <2>7. AllowedSound'
    BY <1>1, <1>3, <2>1, <2>2, <2>3, <2>4 DEF TableInv, AllowedSound, RouteAllowed
  <2>8. /\ BootSound' /\ DomainIds' /\ RoutesHaveRows'
        /\ OneOwner' /\ OneScheme' /\ LoopbackIsHttpOnly'
    BY <1>1 DEF TableInv, BootSound, DomainIds, RoutesHaveRows, OneOwner, OneScheme,
                LoopbackIsHttpOnly, tableVars, domainVars, serviceVars
  <2> QED
    BY <2>5, <2>6, <2>7, <2>8 DEF TableInv
<1> QED
  BY <1>2, <1>3

LEMMA FindByHostStep ==
    ASSUME TableInv, NEW q \in Request, NEW s \in services, NEW h \in Host,
           NEW p \in Path, FindByHost(q, s, h, p)
    PROVE  TableInv'
<1>1. PICK r \in RoutesForHost(h) :
        Becomes(q, [kind |-> "removing", id |-> r.id, for |-> s, host |-> h, path |-> p])
  BY DEF FindByHost
<1> DEFINE state == [kind |-> "removing", id |-> r.id, for |-> s, host |-> h, path |-> p]
<1>2. state \in RemovalRequest
  <2>1. r \in RouteRow
    BY DEF RoutesForHost, TableInv, TypeOK
  <2>2. s \in 0..MaxService
    BY BoundAssumption DEF TableInv, TypeOK, ServiceId
  <2> QED
    BY <2>1, <2>2 DEF RemovalRequest, RouteRow
<1>3. boot = "up" /\ UNCHANGED <<tableVars, domainVars, serviceVars, site, boot>>
  BY DEF FindByHost, IsIdle
<1> HIDE DEF state
<1> QED
  BY <1>1, <1>2, <1>3, OtherOccupation DEF state

LEMMA FindByIdStep ==
    ASSUME TableInv, NEW q \in Request, NEW r \in routes, FindById(q, r)
    PROVE  TableInv'
<1>1. [kind |-> "removing", id |-> r.id, for |-> 0, host |-> r.host, path |-> r.path]
        \in RemovalRequest
  BY BoundAssumption DEF RemovalRequest, TableInv, TypeOK, RouteRow
<1> QED
  BY <1>1, OtherOccupation DEF FindById, IsIdle

-----------------------------------------------------------------------------
(* Rows that go away: a subset of the routes stays sound as long as its *)
(* services and domains do. *)

LEMMA FewerRoutes ==
    ASSUME TableInv, routes' \subseteq routes
    PROVE  OneOwner' /\ OneScheme' /\ LoopbackIsHttpOnly'
BY DEF TableInv, OneOwner, OneScheme, LoopbackIsHttpOnly, SameKey

LEMMA RemoveStep ==
    ASSUME TableInv, NEW q \in Request, Remove(q)
    PROVE  TableInv'
<1> USE DEF tableVars, domainVars, serviceVars
<1>1. routes' \subseteq routes /\ boot = "up"
  BY DEF Remove, TableInv, BootSound, Idle
<1>2. TypeOK'
  BY <1>1 DEF Remove, TableInv, TypeOK, Becomes
<1>3. \A p \in Request : req'[p].kind = "adding" => req'[p] = req[p]
  BY DEF Remove, TableInv, TypeOK, Becomes, Idle
<1>4. WantsSound' /\ AllowedSound'
  BY <1>3 DEF Remove, TableInv, WantsSound, AllowedSound, WantSound
<1>5. BootSound' /\ DomainIds' /\ RoutesHaveRows'
  BY <1>1 DEF Remove, TableInv, BootSound, DomainIds, RoutesHaveRows
<1> QED
  BY <1>1, <1>2, <1>4, <1>5, FewerRoutes DEF TableInv

LEMMA DeleteServiceStep ==
    ASSUME TableInv, NEW s \in services, DeleteService(s)
    PROVE  TableInv'
<1> USE DEF tableVars, domainVars, serviceVars
<1>1. routes' \subseteq routes
  BY DEF DeleteService
<1>2. TypeOK'
  BY <1>1 DEF DeleteService, TableInv, TypeOK
<1>3. WantsSound' /\ AllowedSound'
  BY DEF DeleteService, TableInv, WantsSound, AllowedSound, WantSound
<1>4. BootSound' /\ DomainIds' /\ RoutesHaveRows'
  BY <1>1 DEF DeleteService, TableInv, BootSound, DomainIds, RoutesHaveRows
<1> QED
  BY <1>1, <1>2, <1>3, <1>4, FewerRoutes DEF TableInv

LEMMA DeleteDomainStep ==
    ASSUME TableInv, NEW d \in domains, DeleteDomain(d)
    PROVE  TableInv'
<1> USE DEF tableVars, domainVars, serviceVars
<1>1. routes' \subseteq routes
  BY DEF DeleteDomain
<1>2. TypeOK'
  BY <1>1 DEF DeleteDomain, TableInv, TypeOK
<1>3. WantsSound' /\ AllowedSound'
  BY DEF DeleteDomain, TableInv, WantsSound, AllowedSound, WantSound
<1>4. BootSound' /\ DomainIds'
  BY <1>1 DEF DeleteDomain, TableInv, BootSound, DomainIds
<1>5. RoutesHaveRows'
  BY <1>1 DEF DeleteDomain, TableInv, RoutesHaveRows
<1> QED
  BY <1>1, <1>2, <1>3, <1>4, <1>5, FewerRoutes DEF TableInv

-----------------------------------------------------------------------------
(* Domain rows and settings. *)

LEMMA CreateDomainStep ==
    ASSUME TableInv, NEW n \in Host \union Zone, CreateDomain(n)
    PROVE  TableInv'
<1> DEFINE row == [id |-> nextDomain, name |-> n, panel |-> TRUE]
<1>1. /\ domains' = domains \union {row}
      /\ nextDomain' = nextDomain + 1
      /\ nextDomain <= MaxDomain
      /\ UNCHANGED <<routes, nextRoute, services, nextService, sitey, site, req, boot>>
  BY DEF CreateDomain, tableVars, serviceVars
<1>2. nextDomain \in Nat /\ nextDomain' \in 1..(MaxDomain + 1)
  BY <1>1, BoundAssumption DEF TableInv, TypeOK
<1>3. row \in DomainRow
  BY <1>1, <1>2, BoundAssumption DEF DomainRow, DomainId, TableInv, TypeOK
<1>4. row.id = nextDomain
  OBVIOUS
<1>5. \A d \in domains : d.id < nextDomain /\ d.id \in Nat
  BY DEF TableInv, TypeOK, DomainIds, DomainRow, DomainId
<1> HIDE DEF row
<1>6. TypeOK'
  BY <1>1, <1>2, <1>3 DEF TableInv, TypeOK
<1>7. DomainIds'
  <2>1. \A d, e \in domains' : d.id = e.id => d = e
    BY <1>1, <1>4, <1>5 DEF TableInv, DomainIds
  <2>2. \A d \in domains' : d.id < nextDomain'
    BY <1>1, <1>2, <1>4, <1>5
  <2> QED
    BY <2>1, <2>2 DEF DomainIds
<1>8. WantsSound'
  <2> SUFFICES ASSUME NEW p \in Request, req[p].kind = "adding",
                      NEW i \in 1..Len(req[p].want)
               PROVE  WantSound(req[p].want[i])'
    BY <1>1 DEF WantsSound
  <2> DEFINE w == req[p].want[i]
  <2>1. WantSound(w) /\ w.domain \in Nat
    BY AddingRequest, BoundAssumption DEF TableInv, WantsSound, Want
  <2>2. req'[p].want[i] = w
    BY <1>1
  <2> HIDE DEF w
  <2> QED
    BY <1>1, <1>2, <1>4, <2>1, <2>2 DEF WantSound, Covers
<1>9. AllowedSound' /\ BootSound' /\ RoutesHaveRows'
  BY <1>1 DEF TableInv, AllowedSound, BootSound, RoutesHaveRows
<1> QED
  BY <1>1, <1>6, <1>7, <1>8, <1>9, FewerRoutes DEF TableInv

LEMMA SetPanelStep ==
    ASSUME TableInv, NEW d \in domains, NEW b \in BOOLEAN, SetPanel(d, b)
    PROVE  TableInv'
<1> USE DEF tableVars, serviceVars
<1> DEFINE new == [d EXCEPT !.panel = b]
<1>1. new \in DomainRow /\ new.id = d.id /\ new.name = d.name
  BY DEF TableInv, TypeOK, DomainRow
<1>2. domains' = (domains \ {d}) \union {new}
  BY DEF SetPanel
<1>3. UNCHANGED <<routes, nextRoute, nextDomain, services, nextService, sitey, site, req,
                  boot>>
  BY DEF SetPanel
<1> HIDE DEF new
<1>4. TypeOK'
  BY <1>1, <1>2, <1>3 DEF TableInv, TypeOK
<1>5. DomainIds'
  BY <1>1, <1>2, <1>3 DEF TableInv, DomainIds
<1>6. WantsSound'
  BY <1>1, <1>2, <1>3 DEF TableInv, WantsSound, WantSound, Covers
<1>7. AllowedSound' /\ BootSound'
  BY <1>3 DEF TableInv, AllowedSound, BootSound
<1>8. RoutesHaveRows'
  BY <1>1, <1>2, <1>3 DEF TableInv, RoutesHaveRows, Covers
<1> QED
  BY <1>3, <1>4, <1>5, <1>6, <1>7, <1>8, FewerRoutes DEF TableInv

LEMMA SetPublicSiteUrlStep ==
    ASSUME TableInv, NEW h, SetPublicSiteUrl(h)
    PROVE  TableInv'
<1> USE DEF tableVars, domainVars, serviceVars
<1>1. TypeOK'
  BY DEF SetPublicSiteUrl, TableInv, TypeOK
<1>2. /\ WantsSound' /\ AllowedSound' /\ BootSound' /\ DomainIds' /\ RoutesHaveRows'
      /\ routes' = routes
  BY DEF SetPublicSiteUrl, TableInv, WantsSound, WantSound, AllowedSound, BootSound,
         DomainIds, RoutesHaveRows
<1> QED
  BY <1>1, <1>2, FewerRoutes DEF TableInv

-----------------------------------------------------------------------------
(* bootstrap. *)

LEMMA BootServiceStep ==
    ASSUME TableInv, BootService
    PROVE  TableInv'
<1> USE DEF tableVars, domainVars, serviceVars
<1>1. UNCHANGED <<domains, nextDomain, routes, nextRoute, site, req>>
      /\ boot = "down"
  BY DEF BootService
<1>2. services \subseteq services'
  BY DEF BootService
<1>3. TypeOK'
  <2>1. CASE sitey # 0
    BY <2>1 DEF BootService, TableInv, TypeOK
  <2>2. CASE sitey = 0
    <3>1. /\ boot' = "service" /\ sitey' = nextService /\ nextService' = nextService + 1
          /\ services' = services \union {nextService}
          /\ nextService <= MaxService
      BY <2>2 DEF BootService
    <3>2. nextService \in ServiceId /\ nextService' \in 1..(MaxService + 1)
          /\ sitey' \in 0..MaxService
      BY <3>1, BoundAssumption DEF TableInv, TypeOK, ServiceId
    <3> QED
      BY <1>1, <3>1, <3>2 DEF TableInv, TypeOK
  <2> QED
    BY <2>1, <2>2
<1>4. WantsSound' /\ AllowedSound' /\ DomainIds' /\ RoutesHaveRows'
  BY <1>1, <1>2 DEF TableInv, WantsSound, WantSound, AllowedSound, DomainIds, RoutesHaveRows
<1>5. BootSound'
  <2>1. CASE sitey # 0
    BY <1>1, <2>1 DEF BootService, TableInv, BootSound
  <2>2. CASE sitey = 0
    <3>1. boot' = "service" /\ sitey' = nextService /\ nextService \in 1..(MaxService + 1)
          /\ services' = services \union {nextService}
      BY <2>2 DEF BootService, TableInv, TypeOK
    <3>2. routes = {} /\ \A q \in Request : req[q] = Idle
      BY <1>1, <2>2 DEF TableInv, BootSound
    <3>3. sitey' # 0
      BY <3>1, BoundAssumption
    <3> QED
      BY <1>1, <3>1, <3>2, <3>3 DEF BootSound
  <2> QED
    BY <2>1, <2>2
<1> QED
  BY <1>1, <1>3, <1>4, <1>5, FewerRoutes DEF TableInv

LEMMA BootRouteStep ==
    ASSUME TableInv, BootRoute
    PROVE  TableInv'
<1> USE DEF domainVars, serviceVars
<1> DEFINE row == [id |-> nextRoute, service |-> sitey, domain |-> 0, host |-> None,
                   path |-> Root, httpOnly |-> FALSE, protected |-> TRUE]
<1>1. /\ routes' = routes \union {row}
      /\ nextRoute' = nextRoute + 1
      /\ boot' = "up"
      /\ boot = "service"
      /\ nextRoute <= MaxRoute
      /\ UNCHANGED <<domains, nextDomain, services, nextService, sitey, site, req>>
  BY DEF BootRoute
<1>2. routes = {} /\ sitey \in services
  BY <1>1 DEF TableInv, BootSound
<1>3. row \in RouteRow
  BY <1>1, <1>2, NameAssumption, BoundAssumption DEF RouteRow, TableInv, TypeOK
<1>4. row.host = None /\ row.domain = 0 /\ row.service = sitey
  OBVIOUS
<1> HIDE DEF row
<1>5. TypeOK'
  BY <1>1, <1>3, BoundAssumption DEF TableInv, TypeOK
<1>6. WantsSound' /\ AllowedSound' /\ DomainIds'
  BY <1>1 DEF TableInv, WantsSound, WantSound, AllowedSound, DomainIds
<1>7. BootSound'
  BY <1>1, <1>2, BoundAssumption DEF TableInv, BootSound, TypeOK, ServiceId
<1>8. RoutesHaveRows' /\ OneOwner' /\ OneScheme' /\ LoopbackIsHttpOnly'
  BY <1>1, <1>2, <1>4, NameAssumption
     DEF RoutesHaveRows, OneOwner, OneScheme, LoopbackIsHttpOnly
<1> QED
  BY <1>5, <1>6, <1>7, <1>8 DEF TableInv

LEMMA BootDiesStep ==
    ASSUME TableInv, BootDies
    PROVE  TableInv'
<1> USE DEF tableVars, domainVars, serviceVars
<1>1. TypeOK'
  BY DEF BootDies, TableInv, TypeOK
<1>2. /\ WantsSound' /\ AllowedSound' /\ BootSound' /\ DomainIds' /\ RoutesHaveRows'
      /\ routes' = routes
  BY DEF BootDies, TableInv, WantsSound, WantSound, AllowedSound, BootSound, DomainIds,
         RoutesHaveRows, Idle
<1> QED
  BY <1>1, <1>2, FewerRoutes DEF TableInv

-----------------------------------------------------------------------------
(* The transaction. *)

\* The lookup by Domain rows finds every route on the host.
LEMMA LookupComplete ==
    ASSUME RoutesHaveRows, NEW r \in routes, r.host # None
    PROVE  r \in RoutesForHost(r.host)
BY DEF RoutesHaveRows, RoutesForHost, Covers

\* A route that is missing has no other row with its key.
LEMMA MissingIsFree ==
    ASSUME TableInv, NEW w \in Want, WantSound(w), Existing(w) = {},
           NEW r \in routes
    PROVE  ~SameKey(r, w)
<1> SUFFICES ASSUME SameKey(r, w) PROVE FALSE
  OBVIOUS
<1>1. RoutesHaveRows
  BY DEF TableInv
<1>2. CASE w.domain = 0
  <2>1. r.host = None
    BY <1>2 DEF WantSound, SameKey
  <2>2. r.domain = 0
    BY <1>1, <2>1, NameAssumption DEF RoutesHaveRows
  <2> QED
    BY <1>2, <2>2 DEF Existing, SameKey
<1>3. CASE w.domain # 0
  <2>1. w.host \in Host /\ r.host = w.host
    BY <1>3 DEF WantSound, SameKey
  <2>2. r \in RoutesForHost(w.host)
    BY <1>1, <2>1, NameAssumption, LookupComplete
  <2> QED
    BY <1>3, <2>2 DEF Existing, SameKey
<1> QED
  BY <1>2, <1>3

LEMMA NewRowType ==
    ASSUME NEW i, NEW s \in ServiceId, NEW w \in Want, nextRoute + i - 1 \in 1..MaxRoute
    PROVE  NewRow(i, s, w) \in RouteRow
<1>1. /\ w.domain \in 0..MaxDomain
      /\ w.host \in Host \union {None}
      /\ w.path \in Path
      /\ w.httpOnly \in BOOLEAN
  BY DEF Want
<1> DEFINE n == nextRoute + i - 1
<1>2. n \in 1..MaxRoute
  OBVIOUS
<1> HIDE DEF n
<1>3. NewRow(i, s, w) = [id |-> n, service |-> s, domain |-> w.domain, host |-> w.host,
                         path |-> w.path, httpOnly |-> w.httpOnly, protected |-> FALSE]
  BY DEF NewRow, n
<1> QED
  BY <1>1, <1>2, <1>3 DEF RouteRow

LEMMA InsertStep ==
    ASSUME TableInv, NEW q \in Request, Insert(q)
    PROVE  TableInv'
<1> USE DEF domainVars
<1> DEFINE want == req[q].want
           s == IF req[q].service = 0 THEN nextService ELSE req[q].service
           row(i) == NewRow(i, s, want[i])
<1>1. /\ boot = "up"
      /\ req[q].kind = "adding"
      /\ req[q].allowed = Len(want)
      /\ Becomes(q, Idle)
      /\ UNCHANGED <<domainVars, sitey, site, boot>>
  BY DEF Insert, TableInv, BootSound, Idle
<1>2. CASE UNCHANGED <<tableVars, services, nextService>>
  BY <1>1, <1>2, OtherOccupation DEF serviceVars
<1>3. CASE ~UNCHANGED <<tableVars, services, nextService>>
  <2>1. /\ s <= MaxService
        /\ nextRoute + Len(want) <= MaxRoute + 1
        /\ Claimable(s, want) /\ Compatible(want) /\ RowsExist(req[q].service, want)
        /\ routes' = routes \union {row(i) : i \in Missing(want)}
        /\ nextRoute' = nextRoute + Len(want)
        /\ services' = services \union {s}
        /\ nextService' = IF req[q].service = 0 THEN nextService + 1 ELSE nextService
    BY <1>3 DEF Insert
  <2>2. /\ want \in Seq(Want) /\ Len(want) \in Nat
        /\ req[q].service \in 0..MaxService
        /\ \A i \in 1..Len(want) : want[i] \in Want
    BY <1>1, AddingRequest DEF TableInv
  <2>3. \A i \in 1..Len(want) : WantSound(want[i])
    BY <1>1 DEF TableInv, WantsSound
  <2>4. \A i \in 1..Len(want) : want[i].host \in Loopback => want[i].httpOnly
    BY <1>1, <2>2 DEF TableInv, AllowedSound
  <2>5. s \in ServiceId /\ s \in services'
    BY <2>1, <2>2, BoundAssumption DEF ServiceId, TableInv, TypeOK
  <2>6. \A i \in Missing(want) :
          /\ i \in 1..Len(want)
          /\ Existing(want[i]) = {}
          /\ \A j \in 1..(i - 1) : ~SameKey(want[j], want[i])
    BY <2>2 DEF Missing
  <2>7. \A i \in Missing(want) :
          /\ row(i).service = s
          /\ row(i).domain = want[i].domain
          /\ row(i).host = want[i].host
          /\ row(i).path = want[i].path
          /\ row(i).httpOnly = want[i].httpOnly
    BY DEF NewRow
  <2>8. \A i \in Missing(want) : row(i) \in RouteRow
    <3> SUFFICES ASSUME NEW i \in Missing(want) PROVE row(i) \in RouteRow
      OBVIOUS
    <3>1. want[i] \in Want /\ i \in 1..Len(want)
      BY <2>2, <2>6
    <3>2. nextRoute + i - 1 \in 1..MaxRoute
      <4>1. nextRoute \in Nat /\ nextRoute >= 1 /\ MaxRoute \in Nat
        BY BoundAssumption DEF TableInv, TypeOK
      <4>2. Len(want) \in Nat /\ nextRoute + Len(want) <= MaxRoute + 1
        BY <2>1, <2>2
      <4>3. i \in Nat /\ i >= 1 /\ i <= Len(want)
        BY <3>1, <4>2
      <4> HIDE DEF want
      <4> QED
        BY <4>1, <4>2, <4>3
    <3>3. s \in ServiceId
      BY <2>5
    <3> HIDE DEF want, s
    <3> QED
      BY <3>1, <3>2, <3>3, NewRowType
  <2>9. req' = [req EXCEPT ![q] = Idle]
    BY <1>1 DEF Becomes
  <2>10. /\ nextRoute' \in 1..(MaxRoute + 1)
         /\ nextService' \in 1..(MaxService + 1)
         /\ services' \subseteq ServiceId
    <3>1. nextRoute' \in 1..(MaxRoute + 1)
      BY <2>1, <2>2, BoundAssumption DEF TableInv, TypeOK
    <3>2. nextService' \in 1..(MaxService + 1)
      BY <2>1, BoundAssumption DEF TableInv, TypeOK
    <3>3. services' \subseteq ServiceId
      BY <2>1, <2>5 DEF TableInv, TypeOK
    <3> QED
      BY <3>1, <3>2, <3>3
  <2> HIDE DEF want, s, row
  <2>11. TypeOK'
    BY <1>1, <2>1, <2>8, <2>9, <2>10 DEF TableInv, TypeOK
  <2>12. \A p \in Request : req'[p].kind = "adding" => req'[p] = req[p]
    BY <2>9 DEF TableInv, TypeOK, Idle
  <2>13. WantsSound' /\ AllowedSound' /\ DomainIds'
    BY <1>1, <2>12 DEF TableInv, WantsSound, AllowedSound, WantSound, DomainIds
  <2>14. BootSound'
    BY <1>1, <2>1 DEF TableInv, BootSound
  <2>15. RoutesHaveRows'
    <3> SUFFICES ASSUME NEW r \in routes'
                 PROVE  /\ r.service \in services'
                        /\ IF r.domain = 0 THEN r.host = None
                           ELSE /\ r.host \in Host
                                /\ \E d \in domains : d.id = r.domain /\ Covers(d, r.host)
      BY <1>1 DEF RoutesHaveRows, Covers
    <3>1. CASE r \in routes
      BY <2>1, <3>1 DEF TableInv, RoutesHaveRows
    <3>2. CASE r \notin routes
      <4>1. PICK i \in Missing(want) : r = row(i)
        BY <2>1, <3>2
      <4>2. /\ r.service = s /\ r.domain = want[i].domain /\ r.host = want[i].host
            /\ WantSound(want[i])
        BY <2>3, <2>6, <2>7, <4>1
      <4>3. want[i].domain = 0 \/ \E d \in domains : d.id = want[i].domain
        BY <2>1, <2>2, <2>6 DEF RowsExist
      <4> QED
        BY <2>5, <4>2, <4>3 DEF WantSound
    <3> QED
      BY <3>1, <3>2
  <2>16. OneOwner'
    <3>1. ASSUME NEW i \in Missing(want), NEW r \in routes
          PROVE  ~SameKey(r, row(i)) /\ ~SameKey(row(i), r)
      <4>1. ~SameKey(r, want[i])
        BY <2>2, <2>3, <2>6, MissingIsFree
      <4> QED
        BY <2>7, <4>1 DEF SameKey
    <3>2. ASSUME NEW i \in Missing(want), NEW j \in Missing(want), SameKey(row(i), row(j))
          PROVE  i = j
      <4>1. SameKey(want[i], want[j]) /\ SameKey(want[j], want[i])
        BY <2>7, <3>2 DEF SameKey
      <4>2. i \in Nat /\ j \in Nat /\ i >= 1 /\ j >= 1
        BY <2>2, <2>6
      <4>3. ~(i < j)
        BY <2>6, <4>1, <4>2
      <4>4. ~(j < i)
        BY <2>6, <4>1, <4>2
      <4> QED
        BY <4>2, <4>3, <4>4
    <3>3. \A r, t \in routes : SameKey(r, t) => r = t
      BY DEF TableInv, OneOwner
    <3> SUFFICES ASSUME NEW r \in routes', NEW t \in routes', SameKey(r, t)
                 PROVE  r = t
      BY DEF OneOwner, SameKey
    <3>4. CASE r \in routes /\ t \in routes
      BY <3>3, <3>4
    <3>5. CASE r \in routes /\ t \notin routes
      <4>1. PICK i \in Missing(want) : t = row(i)
        BY <2>1, <3>5
      <4> QED
        BY <3>1, <3>5, <4>1
    <3>6. CASE r \notin routes /\ t \in routes
      <4>1. PICK i \in Missing(want) : r = row(i)
        BY <2>1, <3>6
      <4> QED
        BY <3>1, <3>6, <4>1
    <3>7. CASE r \notin routes /\ t \notin routes
      <4>1. PICK i \in Missing(want), j \in Missing(want) : r = row(i) /\ t = row(j)
        BY <2>1, <3>7
      <4> QED
        BY <3>2, <4>1
    <3> QED
      BY <3>4, <3>5, <3>6, <3>7
  <2>17. OneScheme'
    <3>1. ASSUME NEW i \in Missing(want), NEW r \in routes, want[i].host # None,
                 r.host = want[i].host
          PROVE  r.httpOnly = want[i].httpOnly
      <4>1. want[i].domain # 0
        BY <2>3, <2>6, <3>1 DEF WantSound
      <4>2. r \in RoutesForHost(want[i].host)
        BY <3>1, LookupComplete DEF TableInv
      <4> QED
        BY <2>1, <2>2, <2>6, <4>1, <4>2 DEF Compatible
    <3>2. ASSUME NEW i \in Missing(want), NEW j \in Missing(want), want[i].host # None,
                 want[i].host = want[j].host
          PROVE  want[i].httpOnly = want[j].httpOnly
      <4>1. want[i].domain # 0
        BY <2>3, <2>6, <3>2 DEF WantSound
      <4> QED
        BY <2>1, <2>2, <2>6, <3>2, <4>1 DEF Compatible
    <3>3. \A r, t \in routes : r.host # None /\ r.host = t.host => r.httpOnly = t.httpOnly
      BY DEF TableInv, OneScheme
    <3> QED
      BY <2>1, <2>7, <3>1, <3>2, <3>3 DEF OneScheme
  <2>18. LoopbackIsHttpOnly'
    BY <2>1, <2>4, <2>6, <2>7 DEF TableInv, LoopbackIsHttpOnly
  <2> QED
    BY <2>11, <2>13, <2>14, <2>15, <2>16, <2>17, <2>18 DEF TableInv
<1> QED
  BY <1>2, <1>3

-----------------------------------------------------------------------------

LEMMA TableStep == TableInv /\ [Next]_vars => TableInv'
<1> SUFFICES ASSUME TableInv, [Next]_vars PROVE TableInv'
  OBVIOUS
<1>1. CASE UNCHANGED vars
  <2>1. /\ TypeOK' /\ BootSound' /\ DomainIds' /\ WantsSound' /\ AllowedSound'
        /\ RoutesHaveRows' /\ routes' = routes
    BY <1>1 DEF vars, tableVars, domainVars, serviceVars, TableInv, TypeOK, BootSound,
                DomainIds, WantsSound, WantSound, AllowedSound, RoutesHaveRows
  <2> QED
    BY <2>1, FewerRoutes DEF TableInv
<1>2. ASSUME NEW q \in Request, Adding(q) PROVE TableInv'
  BY <1>2, AddByHostStep, AddByRowStep, AddDomainlessStep, CreateStep, AllowStep,
     InsertStep DEF Adding
<1>3. ASSUME NEW q \in Request, Removing(q) PROVE TableInv'
  BY <1>3, FindByHostStep, FindByIdStep, RemoveStep DEF Removing
<1>4. CASE Settings
  BY <1>4, CreateDomainStep, DeleteServiceStep, DeleteDomainStep, SetPanelStep,
     SetPublicSiteUrlStep DEF Settings
<1> QED
  BY <1>1, <1>2, <1>3, <1>4, BootServiceStep, BootRouteStep, BootDiesStep DEF Next

\* The invariant holds in every reachable state.
THEOREM TableInvariant == Spec => []TableInv
BY TableInit, TableStep, PTL DEF Spec

\* The tables keep their types.
THEOREM RoutesTypeCorrect == Spec => []TypeOK
BY TableInvariant, PTL DEF TableInv

\* No route outlives its service or its Domain row.
THEOREM RoutesHaveRowsHolds == Spec => []RoutesHaveRows
BY TableInvariant, PTL DEF TableInv

\* However many requests run at the same time, a host and path has one owner.
THEOREM OneOwnerHolds == Spec => []OneOwner
BY TableInvariant, PTL DEF TableInv

\* Together: no route dangles, and none has a rival.
THEOREM TableIsSoundHolds == Spec => []TableIsSound
BY TableInvariant, PTL DEF TableInv, TableIsSound

\* All routes of a host agree on being HTTP-only.
THEOREM OneSchemeHolds == Spec => []OneScheme
BY TableInvariant, PTL DEF TableInv

\* Routes on loopback hosts are HTTP-only.
THEOREM LoopbackIsHttpOnlyHolds == Spec => []LoopbackIsHttpOnly
BY TableInvariant, PTL DEF TableInv

-----------------------------------------------------------------------------
(* The table implements exclusive ownership of keys. *)

Owner == [k \in OwnedKey |->
            IF RouteAt(k) = {} THEN 0 ELSE (CHOOSE r \in RouteAt(k) : TRUE).service]

\* With one owner per key, the owner is the service of any route there.
LEMMA OwnerOfRoute ==
    ASSUME TypeOK, OneOwner, NEW r \in routes
    PROVE  /\ <<r.host, r.path>> \in OwnedKey
           /\ Owner[<<r.host, r.path>>] = r.service
<1> DEFINE k == <<r.host, r.path>>
<1>1. k \in OwnedKey
  BY DEF TypeOK, RouteRow, OwnedKey
<1>2. RouteAt(k) = {r}
  BY DEF RouteAt, OneOwner, SameKey
<1>3. (CHOOSE t \in RouteAt(k) : TRUE) = r
  BY <1>2
<1> QED
  BY <1>1, <1>2, <1>3 DEF Owner

LEMMA OwnerOfFree ==
    ASSUME NEW k \in OwnedKey, RouteAt(k) = {}
    PROVE  Owner[k] = 0
BY DEF Owner

\* A key that is not free has a route with that host and path.
LEMMA RouteOfKey ==
    ASSUME NEW k \in OwnedKey, RouteAt(k) # {}
    PROVE  \E r \in routes : k = <<r.host, r.path>>
BY DEF RouteAt, OwnedKey

\* A step takes routes away, or adds routes of one service.
Added(s) == routes \subseteq routes' /\ \A r \in routes' \ routes : r.service = s

LEMMA TableChange ==
    ASSUME TableInv, [Next]_vars
    PROVE  routes' \subseteq routes \/ \E s \in ServiceId : Added(s)
<1>1. ASSUME NEW q \in Request, Insert(q)
      PROVE  routes' \subseteq routes \/ \E s \in ServiceId : Added(s)
  <2> DEFINE s == IF req[q].service = 0 THEN nextService ELSE req[q].service
  <2>1. CASE routes' = routes
    BY <2>1
  <2>2. CASE routes' # routes
    <3>1. /\ s <= MaxService
          /\ routes' = routes \union
                 {NewRow(i, s, req[q].want[i]) : i \in Missing(req[q].want)}
          /\ req[q].kind = "adding"
      BY <1>1, <2>2 DEF Insert, tableVars
    <3>2. s \in ServiceId
      BY <3>1, AddingRequest, BoundAssumption DEF TableInv, TypeOK, ServiceId
    <3>3. Added(s)
      BY <3>1 DEF Added, NewRow
    <3> QED
      BY <3>2, <3>3
  <2> QED
    BY <2>1, <2>2
<1>2. ASSUME NEW q \in Request, Adding(q), ~Insert(q)
      PROVE  routes' = routes
  BY <1>2 DEF Adding, AddByHost, AddByRow, AddDomainless, Create, Allow, tableVars
<1>3. ASSUME NEW q \in Request, Removing(q)
      PROVE  routes' \subseteq routes
  BY <1>3 DEF Removing, FindByHost, FindById, Remove, tableVars
<1>4. CASE Settings
  BY <1>4 DEF Settings, CreateDomain, DeleteService, DeleteDomain, SetPanel, SetPublicSiteUrl,
              tableVars
<1>5. CASE BootRoute
  <2>1. sitey \in ServiceId
    BY <1>5 DEF BootRoute, TableInv, BootSound, TypeOK
  <2>2. Added(sitey)
    BY <1>5 DEF BootRoute, Added
  <2> QED
    BY <2>1, <2>2
<1>6. CASE BootService \/ BootDies \/ UNCHANGED vars
  BY <1>6 DEF BootService, BootDies, vars, tableVars
<1> QED
  BY <1>1, <1>2, <1>3, <1>4, <1>5, <1>6 DEF Next

LEMMA RemovalReleases ==
    ASSUME TableInv, TableInv', routes' \subseteq routes
    PROVE  \E keys \in SUBSET OwnedKey :
             Owner' = [k \in OwnedKey |-> IF k \in keys THEN 0 ELSE Owner[k]]
<1> DEFINE keys == {k \in OwnedKey : RouteAt(k)' = {}}
<1>1. Owner' = [k \in OwnedKey |-> Owner'[k]]
  BY DEF Owner
<1>2. ASSUME NEW k \in OwnedKey
      PROVE  Owner'[k] = IF k \in keys THEN 0 ELSE Owner[k]
  <2>1. CASE k \in keys
    BY <2>1 DEF Owner
  <2>2. CASE k \notin keys
    <3>1. PICK r \in routes' : k = <<r.host, r.path>>
      BY <2>2 DEF RouteAt, OwnedKey
    <3>2. Owner[k] = r.service
      BY <3>1, OwnerOfRoute DEF TableInv
    <3>3. Owner'[k] = r.service
      <4>1. TypeOK' /\ OneOwner'
        BY DEF TableInv
      <4>2. RouteAt(k)' = {r}
        BY <3>1, <4>1 DEF RouteAt, OneOwner, SameKey
      <4>3. Owner'[k] = (CHOOSE t \in {r} : TRUE).service
        BY <4>2 DEF Owner
      <4> QED
        BY <4>3
    <3> QED
      BY <2>2, <3>2, <3>3
  <2> QED
    BY <2>1, <2>2
<1> QED
  BY <1>1, <1>2

LEMMA AdditionClaims ==
    ASSUME TableInv, TableInv', NEW s \in ServiceId, Added(s)
    PROVE  \E keys \in SUBSET OwnedKey :
             /\ \A k \in keys : Owner[k] \in {0, s}
             /\ Owner' = [k \in OwnedKey |-> IF k \in keys THEN s ELSE Owner[k]]
<1> DEFINE keys == {k \in OwnedKey : \E r \in routes' \ routes : k = <<r.host, r.path>>}
<1>1. Owner' = [k \in OwnedKey |-> Owner'[k]]
  BY DEF Owner
<1>2. OneOwner' /\ routes \subseteq routes' /\ \A r \in routes' \ routes : r.service = s
  BY DEF TableInv, Added
<1>3. ASSUME NEW k \in keys
      PROVE  Owner[k] = 0 /\ Owner'[k] = s
  <2>1. PICK r \in routes' \ routes : k = <<r.host, r.path>>
    OBVIOUS
  <2>2. RouteAt(k) = {}
    BY <1>2, <2>1 DEF RouteAt, OneOwner, SameKey
  <2>3. RouteAt(k)' = {r}
    BY <1>2, <2>1 DEF RouteAt, OneOwner, SameKey
  <2>4. Owner'[k] = (CHOOSE t \in {r} : TRUE).service
    BY <2>3 DEF Owner
  <2>5. (CHOOSE t \in {r} : TRUE) = r
    OBVIOUS
  <2> QED
    BY <1>2, <2>1, <2>2, <2>4, <2>5, OwnerOfFree
<1>4. ASSUME NEW k \in OwnedKey, k \notin keys
      PROVE  Owner'[k] = Owner[k]
  <2>1. RouteAt(k)' = RouteAt(k)
    BY <1>2, <1>4 DEF RouteAt, OwnedKey
  <2> QED
    BY <2>1 DEF Owner
<1> QED
  BY <1>1, <1>3, <1>4

\* Routes only change hands by way of nobody: the table implements RouteOwnership.
THEOREM RoutesImplementOwnership == Spec => ImplementsOwnership
<1>1. Init => Ownership!OwnershipInit
  BY DEF Init, Ownership!OwnershipInit, RouteAt
<1>2. TableInv /\ TableInv' /\ [Next]_vars => [Ownership!OwnershipNext]_Owner
  <2> SUFFICES ASSUME TableInv, TableInv', [Next]_vars PROVE Ownership!OwnershipNext
    OBVIOUS
  <2>1. CASE routes' \subseteq routes
    BY <2>1, RemovalReleases DEF Ownership!OwnershipNext, Ownership!Release, Owner
  <2>2. ASSUME NEW s \in ServiceId, Added(s) PROVE Ownership!OwnershipNext
    BY <2>2, AdditionClaims DEF Ownership!OwnershipNext, Ownership!Claim, Owner
  <2> QED
    BY <2>1, <2>2, TableChange
<1>3. TableInv /\ TableInv' /\ [Next]_vars
        => [Ownership!OwnershipNext]_([k \in OwnedKey |->
             IF RouteAt(k) = {} THEN 0 ELSE (CHOOSE r \in RouteAt(k) : TRUE).service])
  BY <1>2 DEF Owner
<1> QED
  BY <1>1, <1>3, TableInvariant, PTL
     DEF Spec, ImplementsOwnership, Ownership!OwnershipSpec
-----------------------------------------------------------------------------
(* A removal takes away what its lookup found.                             *)

\* Ids are never given out twice.
IdsAreFresh ==
    /\ \A r \in routes : r.id < nextRoute
    /\ \A r, t \in routes : r.id = t.id => r = t

\* The id a removal goes by is that of a row of the service it names, or of no
\* row any more, now and for ever: it was given out already.
RemovalSound(id, s) ==
    /\ id < nextRoute
    /\ s # 0 => \A r \in routes : r.id = id => r.service = s

RemovalsSound ==
    \A q \in Request : req[q].kind = "removing" => RemovalSound(req[q].id, req[q].for)

OwnInv == TableInv /\ IdsAreFresh /\ RemovalsSound

LEMMA OwnInit == Init => OwnInv
<1>1. Init => IdsAreFresh /\ RemovalsSound
  BY DEF Init, IdsAreFresh, RemovalsSound, Idle
<1> QED
  BY <1>1, TableInit DEF OwnInv

\* The rows a step adds take ids from where the counter stood.
FreshRows ==
    /\ nextRoute <= nextRoute'
    /\ \A r \in routes' \ routes : nextRoute <= r.id /\ r.id < nextRoute'
    /\ \A r, t \in routes' \ routes : r.id = t.id => r = t

LEMMA InsertedAreFresh ==
    ASSUME TableInv, NEW q \in Request, Insert(q)
    PROVE  FreshRows
<1> DEFINE want == req[q].want
           s == IF req[q].service = 0 THEN nextService ELSE req[q].service
           row(i) == NewRow(i, s, want[i])
<1>1. nextRoute \in Nat /\ want \in Seq(Want) /\ Len(want) \in Nat
  BY AddingRequest DEF TableInv, TypeOK, Insert
<1>2. CASE UNCHANGED <<tableVars, services, nextService>>
  BY <1>1, <1>2 DEF tableVars, FreshRows
<1>3. CASE ~UNCHANGED <<tableVars, services, nextService>>
  <2>1. /\ routes' = routes \union {row(i) : i \in Missing(want)}
        /\ nextRoute' = nextRoute + Len(want)
    BY <1>3 DEF Insert
  <2>2. \A i \in Missing(want) : i \in 1..Len(want) /\ row(i).id = nextRoute + i - 1
    BY <1>1 DEF Missing, NewRow
  <2> HIDE DEF want, s, row
  <2>3. \A r \in routes' \ routes : \E i \in Missing(want) : r = row(i)
    BY <2>1
  <2>4. \A i \in Missing(want) : nextRoute <= row(i).id /\ row(i).id < nextRoute'
    BY <1>1, <2>1, <2>2
  <2>5. \A i, j \in Missing(want) : row(i).id = row(j).id => i = j
    BY <1>1, <2>2
  <2>6. nextRoute <= nextRoute'
    BY <1>1, <2>1
  <2> QED
    BY <2>3, <2>4, <2>5, <2>6 DEF FreshRows
<1> QED
  BY <1>2, <1>3

LEMMA RowsAreFresh ==
    ASSUME TableInv, [Next]_vars
    PROVE  FreshRows
<1>1. nextRoute \in Nat
  BY DEF TableInv, TypeOK
<1>2. CASE routes' \subseteq routes /\ nextRoute' = nextRoute
  BY <1>1, <1>2 DEF FreshRows
<1>3. ASSUME NEW q \in Request, Adding(q), ~Insert(q)
      PROVE  FreshRows
  BY <1>2, <1>3 DEF Adding, AddByHost, AddByRow, AddDomainless, Create, Allow, tableVars
<1>4. ASSUME NEW q \in Request, Removing(q)
      PROVE  FreshRows
  BY <1>2, <1>4 DEF Removing, FindByHost, FindById, Remove, tableVars
<1>5. CASE Settings
  BY <1>2, <1>5 DEF Settings, CreateDomain, DeleteService, DeleteDomain, SetPanel,
                    SetPublicSiteUrl, tableVars
<1>6. CASE BootRoute
  <2> DEFINE row == [id |-> nextRoute, service |-> sitey, domain |-> 0, host |-> None,
                     path |-> Root, httpOnly |-> FALSE, protected |-> TRUE]
  <2>1. /\ routes' = routes \union {row}
        /\ row.id = nextRoute
        /\ nextRoute' = nextRoute + 1
    BY <1>6 DEF BootRoute
  <2> HIDE DEF row
  <2>2. \A r \in routes' \ routes : r = row
    BY <2>1
  <2> QED
    BY <1>1, <2>1, <2>2 DEF FreshRows
<1>7. CASE BootService \/ BootDies \/ UNCHANGED vars
  BY <1>2, <1>7 DEF BootService, BootDies, vars, tableVars
<1> QED
  BY <1>3, <1>4, <1>5, <1>6, <1>7, InsertedAreFresh DEF Next

\* A row has just been found for the request, under the eyes of its service.
JustFound(q) ==
    /\ UNCHANGED tableVars
    /\ \E r \in routes : req'[q].id = r.id /\ req'[q].for \in {0, r.service}

\* A request that is about to remove was so before, or has just found the row.
LEMMA RemovalsArise ==
    ASSUME TableInv, [Next]_vars, NEW q \in Request, req'[q].kind = "removing"
    PROVE  req'[q] = req[q] \/ JustFound(q)
<1>1. ASSUME NEW p \in Request, NEW state, Becomes(p, state), state.kind # "removing"
      PROVE  req'[q] = req[q]
  BY <1>1 DEF Becomes, TableInv, TypeOK
<1>2. ASSUME NEW p \in Request, Adding(p)
      PROVE  req'[q] = req[q]
  <2>1. ASSUME NEW s, NEW want, NEW n,
               Becomes(p, [kind |-> "adding", service |-> s, allowed |-> n, want |-> want])
        PROVE  req'[q] = req[q]
    BY <1>1, <2>1
  <2>2. Becomes(p, Idle) => req'[q] = req[q]
    BY <1>1 DEF Idle
  <2>3. ASSUME Allow(p), ~Becomes(p, Idle)
        PROVE  req'[q] = req[q]
    <3>1. /\ req' = [req EXCEPT ![p].allowed = @ + 1]
          /\ req[p].kind = "adding"
      BY <2>3 DEF Allow
    <3>2. CASE p = q
      <4>1. req[q] \in ResolvedRequest
        BY <3>1, <3>2, AddingRequest DEF TableInv
      <4>2. req'[q].kind = "adding"
        BY <3>1, <3>2, <4>1 DEF TableInv, TypeOK, ResolvedRequest
      <4> QED
        BY <4>2
    <3>3. CASE p # q
      BY <3>1, <3>3 DEF TableInv, TypeOK
    <3> QED
      BY <3>2, <3>3
  <2>4. Insert(p) => Becomes(p, Idle)
    BY DEF Insert
  <2>5. CASE Allow(p) \/ Insert(p)
    BY <2>2, <2>3, <2>4, <2>5
  <2>6. ASSUME NEW s \in services, NEW h \in Host, NEW x \in Path, NEW b \in BOOLEAN,
               AddByHost(p, s, h, x, b)
        PROVE  req'[q] = req[q]
    BY <2>1, <2>6 DEF AddByHost
  <2>7. ASSUME NEW s \in services, NEW d \in domains, NEW h \in Host, NEW x \in Path,
               NEW b \in BOOLEAN, AddByRow(p, s, d, h, x, b)
        PROVE  req'[q] = req[q]
    BY <2>1, <2>7 DEF AddByRow
  <2>8. ASSUME NEW s \in services, NEW x \in Path, NEW b \in BOOLEAN,
               AddDomainless(p, s, x, b)
        PROVE  req'[q] = req[q]
    BY <2>1, <2>8 DEF AddDomainless
  <2>9. ASSUME NEW n \in 0..MaxWant, NEW want \in [1..n -> WantedRoute], Create(p, want)
        PROVE  req'[q] = req[q]
    BY <2>1, <2>9 DEF Create
  <2> QED
    BY <1>2, <2>5, <2>6, <2>7, <2>8, <2>9 DEF Adding
<1>3. ASSUME NEW p \in Request, Removing(p)
      PROVE  req'[q] = req[q] \/ JustFound(q)
  <2>1. CASE p # q
    <3>1. \E state : req' = [req EXCEPT ![p] = state]
      BY <1>3 DEF Removing, FindByHost, FindById, Remove, Becomes
    <3> QED
      BY <2>1, <3>1 DEF TableInv, TypeOK
  <2>2. CASE p = q
    <3>1. ASSUME NEW s \in services, NEW h \in Host, NEW x \in Path, FindByHost(q, s, h, x)
          PROVE  JustFound(q)
      <4>1. PICK r \in RoutesForHost(h) :
              /\ r.service = s
              /\ Becomes(q, [kind |-> "removing", id |-> r.id, for |-> s, host |-> h, path |-> x])
        BY <3>1 DEF FindByHost
      <4>2. r \in routes /\ req'[q].id = r.id /\ req'[q].for = r.service
        BY <4>1 DEF Becomes, TableInv, TypeOK, RoutesForHost
      <4> QED
        BY <3>1, <4>2 DEF FindByHost, JustFound
    <3>2. ASSUME NEW r \in routes, FindById(q, r)
          PROVE  JustFound(q)
      <4>1. req'[q].id = r.id /\ req'[q].for = 0
        BY <3>2 DEF FindById, Becomes, TableInv, TypeOK
      <4> QED
        BY <3>2, <4>1 DEF FindById, JustFound
    <3>3. ~Remove(q)
      BY DEF Remove, Becomes, TableInv, TypeOK, Idle
    <3> QED
      BY <1>3, <2>2, <3>1, <3>2, <3>3 DEF Removing
  <2> QED
    BY <2>1, <2>2
<1>4. CASE Settings \/ BootService \/ BootRoute \/ BootDies \/ UNCHANGED vars
  BY <1>4 DEF Settings, CreateDomain, DeleteService, DeleteDomain, SetPanel, SetPublicSiteUrl,
              BootService, BootRoute, BootDies, vars
<1> QED
  BY <1>2, <1>3, <1>4 DEF Next

LEMMA OwnStep == OwnInv /\ [Next]_vars => OwnInv'
<1> SUFFICES ASSUME OwnInv, [Next]_vars PROVE OwnInv'
  OBVIOUS
<1>1. TableInv /\ TableInv' /\ IdsAreFresh /\ RemovalsSound /\ FreshRows
  BY TableStep, RowsAreFresh DEF OwnInv
<1>2. /\ nextRoute \in Nat /\ nextRoute' \in Nat
      /\ \A r \in routes \union routes' : r.id \in Nat
  BY <1>1 DEF TableInv, TypeOK, RouteRow
<1>3. IdsAreFresh'
  <2>1. \A r \in routes' : r.id < nextRoute'
    BY <1>1, <1>2 DEF IdsAreFresh, FreshRows
  <2>2. ASSUME NEW r \in routes', NEW t \in routes', r.id = t.id
        PROVE  r = t
    BY <1>1, <1>2, <2>2 DEF IdsAreFresh, FreshRows
  <2> QED
    BY <2>1, <2>2 DEF IdsAreFresh
<1>4. ASSUME NEW q \in Request, req'[q].kind = "removing"
      PROVE  RemovalSound(req[q].id, req[q].for)'
  <2>1. CASE req'[q] = req[q]
    <3>1. RemovalSound(req[q].id, req[q].for) /\ req[q] \in RemovalRequest
      BY <1>1, <1>4, <2>1 DEF RemovalsSound, TableInv, TypeOK, Idle, ResolvedRequest
    <3>2. req[q].id \in Nat
      BY <3>1 DEF RemovalRequest
    <3>3. req[q].id < nextRoute'
      BY <1>1, <1>2, <3>1, <3>2 DEF RemovalSound, FreshRows
    <3>4. \A r \in routes' : r.id = req[q].id => r \in routes
      BY <1>1, <1>2, <3>1, <3>2 DEF RemovalSound, FreshRows
    <3> QED
      BY <2>1, <3>1, <3>3, <3>4 DEF RemovalSound
  <2>2. CASE JustFound(q)
    BY <1>1, <2>2 DEF JustFound, IdsAreFresh, RemovalSound, tableVars
  <2> QED
    BY <1>1, <1>4, <2>1, <2>2, RemovalsArise
<1> QED
  BY <1>1, <1>3, <1>4 DEF OwnInv, RemovalsSound

LEMMA OwnRemoval ==
    ASSUME OwnInv, [Next]_vars, NEW q \in Request,
           req[q].kind = "removing", req'[q] = Idle, req[q].for # 0,
           NEW r \in routes \ routes'
    PROVE  r.service = req[q].for
<1>1. req'[q] # req[q] /\ ~IsIdle(q)
  BY DEF Idle, IsIdle
<1>2. ASSUME NEW p \in Request, p # q
      PROVE  \A state : req' # [req EXCEPT ![p] = state]
  BY <1>1, <1>2 DEF OwnInv, TableInv, TypeOK
<1>3. ASSUME NEW p \in Request, Adding(p)
      PROVE  FALSE
  <2>1. p = q
    <3>1. Allow(p) => req' = [req EXCEPT ![p].allowed = @ + 1] \/ Becomes(p, Idle)
      BY DEF Allow
    <3>2. \E state : req' = [req EXCEPT ![p] = state]
      BY <1>3, <3>1 DEF Adding, AddByHost, AddByRow, AddDomainless, Create, Insert, Becomes
    <3> QED
      BY <1>2, <3>2
  <2>2. Allow(q) \/ Insert(q) => req[q].kind = "adding"
    BY DEF Allow, Insert
  <2> QED
    BY <1>1, <1>3, <2>1, <2>2 DEF Adding, AddByHost, AddByRow, AddDomainless, Create
<1>4. ASSUME NEW p \in Request, Removing(p)
      PROVE  Remove(q)
  <2>1. p = q
    <3>1. \E state : req' = [req EXCEPT ![p] = state]
      BY <1>4 DEF Removing, FindByHost, FindById, Remove, Becomes
    <3> QED
      BY <1>2, <3>1
  <2> QED
    BY <1>1, <1>4, <2>1 DEF Removing, FindByHost, FindById
<1>5. ~(Settings \/ BootService \/ BootRoute \/ BootDies \/ UNCHANGED vars)
  BY <1>1 DEF Settings, CreateDomain, DeleteService, DeleteDomain, SetPanel,
               SetPublicSiteUrl, BootService, BootRoute, BootDies, vars
<1>6. Remove(q)
  BY <1>3, <1>4, <1>5 DEF Next
<1>7. r.id = req[q].id
  BY <1>6 DEF Remove
<1> QED
  BY <1>7 DEF OwnInv, RemovalsSound, RemovalSound

\* A removal by route string never takes away another service's route, whatever
\* other requests did to the key since its lookup.
THEOREM RemovesOnlyOwnHolds == Spec => RemovesOnlyOwn
<1>1. OwnInv /\ [Next]_vars =>
        [\A q \in Request : req[q].kind = "removing" /\ req'[q] = Idle /\ boot' = "up"
            /\ req[q].for # 0 =>
               \A r \in routes \ routes' : r.service = req[q].for]_vars
  BY OwnRemoval
<1> QED
  BY <1>1, OwnInit, OwnStep, PTL DEF Spec, RemovesOnlyOwn
=============================================================================
