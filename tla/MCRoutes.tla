------------------------------ MODULE MCRoutes ------------------------------
(***************************************************************************)
(* TLC instances of Routes: one host that may have a row of its own, may   *)
(* be a label of the wildcard row, and is the one the panel would take.    *)
(***************************************************************************)
EXTENDS Routes, TLC

CONSTANTS panel, zone

MCZoneOf == [h \in Host |-> zone]
MCPanelHost == [z \in Zone |-> panel]

RequestSymmetry == Permutations(Request)
=============================================================================
