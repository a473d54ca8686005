-------------------------- MODULE MCServiceProcess --------------------------
(***************************************************************************)
(* Instances of ServiceProcess for TLC: authorize waits for the store,     *)
(* health does not.                                                        *)
(***************************************************************************)
EXTENDS ServiceProcess

CONSTANTS n1, n2, n3, authorize, health

BothRoutes == {authorize, health}
HealthOnly == {health}
=============================================================================
