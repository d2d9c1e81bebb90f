-------------------------- MODULE MCEmergencyGuard --------------------------
(* A small instance of the emergency guard for its liveness.                *)
EXTENDS EmergencyGuard

TwoInstances == {1, 2}

\* Docker can restart the first; the second runs once.
Processes == <<2, 1>>
=============================================================================
