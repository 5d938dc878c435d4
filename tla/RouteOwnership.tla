--------------------------- MODULE RouteOwnership ---------------------------
(***************************************************************************)
(* What the route table of Sitey promises (docs/design/remote-cli.md,      *)
(* "Ownership checks"): a host and path belong to at most one service, and *)
(* only pass to another service after the first one has given them up.     *)
(***************************************************************************)
CONSTANTS
    Key,      \* a host (or none) with a path prefix
    Service,
    Nobody

VARIABLE owner   \* the service each key is routed to

\* A service takes keys that nobody else has: all of them, or none.
Claim(s, keys) ==
    /\ \A k \in keys : owner[k] \in {Nobody, s}
    /\ owner' = [k \in Key |-> IF k \in keys THEN s ELSE owner[k]]

\* Removing a route, a service or a domain frees its keys.
Release(keys) == owner' = [k \in Key |-> IF k \in keys THEN Nobody ELSE owner[k]]

OwnershipInit == owner = [k \in Key |-> Nobody]

OwnershipNext ==
    \/ \E s \in Service, keys \in SUBSET Key : Claim(s, keys)
    \/ \E keys \in SUBSET Key : Release(keys)

OwnershipSpec == OwnershipInit /\ [][OwnershipNext]_owner
=============================================================================
