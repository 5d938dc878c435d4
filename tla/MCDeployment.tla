---------------------------- MODULE MCDeployment ----------------------------
(***************************************************************************)
(* TLC instances of Deployment.  Handler slots are interchangeable, and no *)
(* safety property names one.                                              *)
(***************************************************************************)
EXTENDS Deployment, FiniteSets, TLC

RequestSymmetry == Permutations(Request)

(***************************************************************************)
(* Bound: handlers overlap, Docker fails to remove a container,            *)
(* handleFailure cannot write, and the server restarts in different        *)
(* behaviours: from the step of such a fault on handlers do not overlap,   *)
(* and there is no other one.                                              *)
(***************************************************************************)
OneAtATime == Cardinality({r \in Request : req[r] # Idle}) <= 1
Unrecorded == {d \in JobId : pc[d] = "unrecorded"}
Faults == restarts + Cardinality(sticky) + Cardinality(Unrecorded)

FaultsApart == Faults' > 0 => Faults' = 1 /\ OneAtATime /\ OneAtATime'
=============================================================================
