----------------------------- MODULE MCDomains -----------------------------
(***************************************************************************)
(* TLC instance of the parts about domains, which share no state here: a   *)
(* behaviour is one of a single part, chosen at the start, while the       *)
(* others rest in one state.                                               *)
(***************************************************************************)
EXTENDS MCRoutes, CaddySites, TlsStatus

CONSTANT MaxRows  \* bound: rows of all kinds ever created

VARIABLE part

MCTlsOwner == [r \in TlsRoutes |-> IF r = "h" THEN "lo" ELSE "ex"]

MCInit ==
  /\ part \in {"routes", "sites", "tls"}
  /\ Init /\ SiteInit /\ TlsInit
  /\ \E r \in TlsRoutes : \A s \in TlsRoutes : tlsRoute[s].here = (s = r /\ part = "tls")

MCRows == nextDomain + nextRoute + nextService - 3

(* Bounds: the loopback domain and a route to probe are not in one state; with
   a route to probe, a domain is probed once. *)
MCTlsApart ==
  (\E r \in TlsRoutes \ TlsHttpOnly : tlsRoute[r].here)
    => /\ tlsRow["lo"].state = "none"
       /\ \A d \in TlsDomains : tlsAsked[d] <= 1

(* A part at its bounds rests. *)
MCNext ==
  \/ part = "routes" /\ Next /\ MCRows' <= MaxRows /\ UNCHANGED <<part, SiteVars, TlsVars>>
  \/ part = "sites" /\ SiteNext /\ UNCHANGED <<part, vars, TlsVars>>
  \/ part = "tls" /\ TlsNext /\ MCTlsApart' /\ UNCHANGED <<part, vars, SiteVars>>
  \/ part # "routes" /\ UNCHANGED <<part, vars, SiteVars, TlsVars>>

MCVars == <<part, vars, SiteVars, TlsVars>>

MCSpec == MCInit /\ [][MCNext]_MCVars
=============================================================================
