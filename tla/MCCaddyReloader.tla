--------------------------- MODULE MCCaddyReloader ---------------------------
(***************************************************************************)
(* The TLC instance of CaddyReloader: two parts of the configuration and   *)
(* two callers, each named by a liveness property, so no symmetry is used. *)
(***************************************************************************)
EXTENDS CaddyReloader
=============================================================================
