----------------------------- MODULE CaddySites -----------------------------
(***************************************************************************)
(* The site blocks of the Caddyfile that buildCaddyConfig of               *)
(* services/caddy.ts makes from the Domain rows, their routes and the      *)
(* name of the management site.                                            *)
(*                                                                         *)
(* One base domain: a row or host is named by its label, "" is the base    *)
(* itself and "*" the wildcard row.  A row's address for certificates is   *)
(* its name.  The text of a block is abstracted to the handlers it has.    *)
(***************************************************************************)
EXTENDS Naturals, Sequences, FiniteSets

CONSTANTS SiteLabels,    \* labels of hosts, "" among them
          SiteRowNames,  \* names of Domain rows
          SitePanels,    \* names the management site may have
          SitePrefixes,  \* path prefixes, "" among them
          SiteServices,
          SiteRows, SiteRoutes  \* bounds: Domain rows, routes

SiteBase == ""      \* the label of the base domain, and of a route without one
SiteCatchAll == ""  \* the prefix of a route that takes every path

(* A label is one of the DNS, which is neither the wildcard nor Caddy's
   address for every host. *)
ASSUME SiteAssumption == /\ {SiteBase, "sitey", "sitey-dns-check"} \subseteq SiteLabels
                         /\ SiteLabels \cap {"*", ":80"} = {}
                         /\ SiteRowNames \subseteq SiteLabels \cup {"*"}
                         /\ SitePanels \subseteq SiteLabels /\ SiteCatchAll \in SitePrefixes
                         /\ {SiteRows, SiteRoutes} \subseteq Nat

VARIABLES siteRow,    \* Domain rows with their routes, oldest first
          siteSvc,    \* services: "inactive", or what their routes serve
          sitePanel   \* <<name>> of the management site, <<>> for an address

SiteVars == <<siteRow, siteSvc, sitePanel>>

-----------------------------------------------------------------------------
(* Rendering *)

(* The elements of a sequence, and those of a set in the order they have. *)
SiteIn(s) == {s[k] : k \in DOMAIN s}

SiteKept(s, keep) ==
  LET kept[n \in 0 .. Len(s)] ==
        IF n = 0 THEN <<>>
        ELSE IF s[n] \in keep THEN Append(kept[n - 1], s[n]) ELSE kept[n - 1]
  IN kept[Len(s)]

(* resolveRouteHostname: none for a wildcard's route without a label. *)
SiteHostOf(row, route) ==
  IF row.name # "*" THEN {row.name} ELSE IF route.label = SiteBase THEN {} ELSE {route.label}

(* toServiceRoutes *)
SiteLive(row) == {r \in SiteIn(row.routes) : siteSvc[r.service] # "inactive"}

SiteActive(row) == SiteKept(row.routes, SiteLive(row))

(* add(): routes of several rows meet under their host; an exact row decides
   about the certificate. *)
SiteAdd(hosts, row, host, routes, probe) ==
  LET exact == row.name # "*"
      cur == hosts[host]
      new == [routes |-> routes, email |-> row.name, fallback |-> ~row.active,
              exact |-> exact, probe |-> probe]
      met == [routes |-> cur.routes \o routes,
              email |-> IF exact THEN row.name ELSE cur.email,
              fallback |-> IF exact THEN ~row.active ELSE cur.fallback,
              exact |-> cur.exact \/ exact,
              probe |-> cur.probe /\ ~exact /\ routes = <<>>]
  IN [h \in DOMAIN hosts \cup {host} |->
        IF h # host THEN hosts[h] ELSE IF host \in DOMAIN hosts THEN met ELSE new]

SiteAddIfNew(hosts, row, host, probe) ==
  IF host \in DOMAIN hosts THEN hosts ELSE SiteAdd(hosts, row, host, <<>>, probe)

(* The loop over a wildcard row's routes. *)
SiteAddLabel(hosts, row, r) ==
  IF SiteHostOf(row, r) = {} THEN hosts ELSE SiteAdd(hosts, row, r.label, <<r>>, FALSE)

SiteAddLabels(hosts, row, routes) ==
  LET added[n \in 0 .. Len(routes)] ==
        IF n = 0 THEN hosts ELSE SiteAddLabel(added[n - 1], row, routes[n])
  IN added[Len(routes)]

(* A wildcard row: its routes, the host that probes its certificate, and the
   panel's host where that is switched on. *)
SiteAddWild(hosts, row) ==
  LET probed == SiteAddIfNew(SiteAddLabels(hosts, row, SiteActive(row)), row, "sitey-dns-check", TRUE)
  IN IF row.panel THEN SiteAddIfNew(probed, row, "sitey", FALSE) ELSE probed

SiteAddRow(hosts, row) ==
  IF row.name = "*" THEN SiteAddWild(hosts, row)
  ELSE SiteAdd(hosts, row, row.name, SiteActive(row), FALSE)

(* The loop over the rows. *)
SiteHosts(rows) ==
  LET made[n \in 0 .. Len(rows)] == IF n = 0 THEN <<>> ELSE SiteAddRow(made[n - 1], rows[n])
  IN made[Len(rows)]

(* A handler, and whether it serves the app or the placeholder. *)
SiteHandler(r) == [prefix |-> r.prefix, service |-> r.service, serves |-> siteSvc[r.service]]

(* buildSiteBlockBodyLines: without routes the control panel; without a
   catch-all among them a 404 page. *)
SiteBody(routes) ==
  [handlers |-> [k \in DOMAIN routes |-> SiteHandler(routes[k])],
   rest |-> IF routes = <<>> THEN "admin"
            ELSE IF \E r \in SiteIn(routes) : r.prefix = SiteCatchAll THEN "none" ELSE "404"]

SitePlain(host, e) == [label |-> <<"http", host>>, body |-> SiteBody(e.routes), email |-> <<>>]

SiteMain(host, e) == [label |-> <<"https", host>>, body |-> SiteBody(e.routes), email |-> <<e.email>>]

SiteProbe(host, e) ==
  [label |-> <<"https", host>>, body |-> [handlers |-> <<>>, rest |-> "204"], email |-> <<e.email>>]

(* appendSiteBlock, appendProbeSiteBlock: what is served under one host. *)
SiteBlocksOf(host, e) ==
  IF e.probe /\ e.routes = <<>> /\ ~e.exact THEN {SiteProbe(host, e)}
  ELSE IF \E r \in SiteIn(e.routes) : r.httpOnly THEN {SitePlain(host, e)}
  ELSE IF e.fallback THEN {SitePlain(host, e), SiteMain(host, e)} ELSE {SiteMain(host, e)}

SiteEmitted(hosts) == DOMAIN hosts \ SiteIn(sitePanel)

SiteUnmerged(hosts) == UNION {SiteBlocksOf(h, hosts[h]) : h \in SiteEmitted(hosts)}

\* Faulty variant: blocks are merged whatever their certificates.
SiteSignatureBody(b) == b.body

SiteSignature(b) == <<b.body, b.email>>

(* mergeRenderedSiteBlocks: the first block gives body and certificate, the
   others of its signature add their labels. *)
SiteMerged(blocks) ==
  {[labels |-> {c.label : c \in group}, first |-> CHOOSE c \in group : TRUE] :
     group \in {{c \in blocks : SiteSignature(c) = SiteSignature(b)} : b \in blocks}}

SitePrefixed(routes) == SiteKept(routes, {r \in SiteIn(routes) : r.prefix # SiteCatchAll})

(* :80 and the management site: its path-prefixed routes, then the panel. *)
SitePanelBody(hosts) ==
  LET routes == IF sitePanel # <<>> /\ SiteIn(sitePanel) \subseteq DOMAIN hosts
                THEN SitePrefixed(hosts[sitePanel[1]].routes) ELSE <<>>
  IN [handlers |-> [k \in DOMAIN routes |-> SiteHandler(routes[k])], rest |-> "admin"]

SitePanelBlocks(hosts) ==
  {[label |-> <<"http", ":80">>, body |-> SitePanelBody(hosts), email |-> <<>>]}
    \cup {[label |-> <<"https", h>>, body |-> SitePanelBody(hosts), email |-> <<"env">>] : h \in SiteIn(sitePanel)}

(* buildCaddyConfig *)
SiteFile(rows) ==
  LET hosts == SiteHosts(rows)
  IN {[labels |-> {b.label}, first |-> b] : b \in SitePanelBlocks(hosts)}
       \cup SiteMerged(SiteUnmerged(hosts))

-----------------------------------------------------------------------------
(* The rows change by the handlers that Routes and TlsStatus model. *)

SiteInit == siteRow = <<>> /\ siteSvc = [s \in SiteServices |-> "pending"] /\ sitePanel = <<>>

SiteAllRoutes == UNION {{<<k, i>> : i \in DOMAIN siteRow[k].routes} : k \in DOMAIN siteRow}
SiteOnHost(h) == {q \in SiteAllRoutes : SiteHostOf(siteRow[q[1]], siteRow[q[1]].routes[q[2]]) = {h}}

SiteAddDomain ==
  /\ Len(siteRow) < SiteRows
  /\ \E n \in SiteRowNames \ {siteRow[k].name : k \in DOMAIN siteRow}, a \in BOOLEAN :
       siteRow' = Append(siteRow, [name |-> n, active |-> a, panel |-> FALSE, routes |-> <<>>])
  /\ UNCHANGED <<siteSvc, sitePanel>>

(* insertResolvedRoute: one route per host and prefix, one HTTP-only setting
   per host; the management host takes no catch-all and no HTTP-only route. *)
SiteAddRoute ==
  /\ Cardinality(SiteAllRoutes) < SiteRoutes
  /\ \E k \in DOMAIN siteRow, l \in SiteLabels, p \in SitePrefixes, o \in BOOLEAN, s \in SiteServices :
       LET route == [label |-> l, prefix |-> p, httpOnly |-> o, service |-> s]
           host == SiteHostOf(siteRow[k], route)
           there == UNION {SiteOnHost(h) : h \in host}
       IN /\ siteRow[k].name # "*" => l = SiteBase
          /\ \A q \in there : LET r == siteRow[q[1]].routes[q[2]] IN r.prefix # p /\ r.httpOnly = o
          /\ host \cap SiteIn(sitePanel) # {} => p # SiteCatchAll /\ ~o
          /\ siteRow' = [siteRow EXCEPT ![k].routes = Append(@, route)]
  /\ UNCHANGED <<siteSvc, sitePanel>>

SiteWithout(s, k) == [j \in 1 .. Len(s) - 1 |-> IF j < k THEN s[j] ELSE s[j + 1]]

SiteSwitch ==
  /\ \E k \in DOMAIN siteRow :
       \/ siteRow[k].name = "*" /\ siteRow' = [siteRow EXCEPT ![k].panel = ~@]
       \/ siteRow' = [siteRow EXCEPT ![k].active = ~@]
       \/ siteRow' = SiteWithout(siteRow, k)
  /\ UNCHANGED <<siteSvc, sitePanel>>

SiteServiceChanges ==
  /\ \E s \in SiteServices, v \in {"inactive", "pending", "ready"} :
       v # siteSvc[s] /\ siteSvc' = [siteSvc EXCEPT ![s] = v]
  /\ UNCHANGED <<siteRow, sitePanel>>

(* The site URL is set; routes of the host may already be there. *)
SiteSetPanel ==
  /\ \E p \in {<<n>> : n \in SitePanels} \cup {<<>>} : p # sitePanel /\ sitePanel' = p
  /\ UNCHANGED <<siteRow, siteSvc>>

SiteNext == SiteAddDomain \/ SiteAddRoute \/ SiteSwitch \/ SiteServiceChanges \/ SiteSetPanel

SiteSpec == SiteInit /\ [][SiteNext]_SiteVars

-----------------------------------------------------------------------------
(* Types: the names of the rows differ, and the routes of a host agree on
   HTTP-only. *)
SiteRouteType == [label : SiteLabels, prefix : SitePrefixes, httpOnly : BOOLEAN, service : SiteServices]
SiteRowType ==
  [name : SiteRowNames, active : BOOLEAN, panel : BOOLEAN, routes : Seq(SiteRouteType)]

SiteNamesDiffer ==
  \A j, k \in DOMAIN siteRow : siteRow[j].name = siteRow[k].name => j = k

SiteRoutesAgree ==
  \A row, other \in SiteIn(siteRow) : \A r \in SiteIn(row.routes), q \in SiteIn(other.routes) :
    SiteHostOf(row, r) \cap SiteHostOf(other, q) # {} => r.httpOnly = q.httpOnly

SiteTypeOK ==
  /\ siteRow \in Seq(SiteRowType) /\ SiteNamesDiffer /\ SiteRoutesAgree
  /\ siteSvc \in [SiteServices -> {"inactive", "pending", "ready"}]
  /\ sitePanel \in {<<>>} \cup {<<n>> : n \in SitePanels}

(* Every address is defined by one block of the file: Caddy refuses a file
   that defines one twice, and with it every later reload (caddy.ts:790-803). *)
AddressesUnique ==
  \A b, c \in SiteFile(siteRow) : b.labels \cap c.labels # {} => b = c

(* Merging keeps for every block its address, handlers and certificate
   (caddy.ts:487-513). *)
MergeKeepsBlocks ==
  LET blocks == SiteUnmerged(SiteHosts(siteRow)) IN
  \A b \in blocks : \E m \in SiteMerged(blocks) :
     b.label \in m.labels /\ m.first.body = b.body /\ m.first.email = b.email

(* What the file serves at each address, apart from the order of handlers. *)
SiteServed(rows) ==
  UNION {{[label |-> l, handlers |-> SiteIn(m.first.body.handlers), rest |-> m.first.body.rest,
           email |-> m.first.email] : l \in m.labels} : m \in SiteFile(rows)}

SiteOrders(D) == {f \in [D -> D] : \A w \in D : \E v \in D : f[v] = w}

(* What is served at an address does not depend on the order in which the
   Domain rows were created: exact rows decide, wildcard routes are never lost
   (caddy.ts:716-767, "Exact-domain settings take precedence without discarding
   wildcard routes"). *)
OrderOfRowsIsIrrelevant ==
  \A f \in SiteOrders(DOMAIN siteRow) :
    SiteServed([k \in DOMAIN siteRow |-> siteRow[f[k]]]) = SiteServed(siteRow)

(* A route of an active service is handled on its host, over HTTP or HTTPS as
   it asks; a route without an active service is handled nowhere.  On the
   management host only path-prefixed routes are (caddy.ts:579-618, 769-803). *)
RoutesAreServed ==
  \A row \in SiteIn(siteRow) : \A r \in SiteIn(row.routes) : \A h \in SiteHostOf(row, r) :
    LET scheme == IF r.httpOnly THEN "http" ELSE "https"
        handles(m) == SiteHandler(r) \in SiteIn(m.first.body.handlers)
    IN IF siteSvc[r.service] = "inactive"
       THEN \A m \in SiteFile(siteRow) : ~handles(m)
       ELSE (h \in SiteIn(sitePanel) => r.prefix # SiteCatchAll /\ ~r.httpOnly)
            => \E m \in SiteFile(siteRow) : <<scheme, h>> \in m.labels /\ handles(m)

(* What an address hands to a service is a route of its own host, though blocks
   are merged across hosts; ":80" hands on what the management host does
   (caddy.ts:487-513, 769-803). *)
NothingElseIsServed ==
  \A m \in SiteFile(siteRow) : \A l \in m.labels : \A x \in SiteIn(m.first.body.handlers) :
    \E row \in SiteIn(siteRow) : \E r \in SiteIn(row.routes) :
      /\ SiteHandler(r) = x
      /\ SiteHostOf(row, r) = IF l[2] = ":80" THEN SiteIn(sitePanel) ELSE {l[2]}

(* Together: Caddy accepts the file, and it serves what the rows say. *)
SitesAreSound ==
  /\ SiteTypeOK /\ AddressesUnique /\ MergeKeepsBlocks
  /\ OrderOfRowsIsIrrelevant /\ RoutesAreServed /\ NothingElseIsServed

=============================================================================
