------------------------------ MODULE MCGateway ------------------------------
(***************************************************************************)
(* The inference gateway: one request's stream and the route map, checked  *)
(* side by side.  A behaviour picks one of them and never moves the other, *)
(* so the state space is the sum of theirs.                                *)
(***************************************************************************)
EXTENDS GenerationRelay, RouteRegistry

CONSTANTS a, b
VARIABLE part

gatewayVars == <<part, relayVars, routeVars>>

\* One instance is served twice and never starts, the other restarts once.
MaxRouteGenDef == a :> 2 @@ b :> 1
MaxRouteProcDef == a :> 0 @@ b :> 2

RelayOnly == part = "relay" /\ UNCHANGED <<part, routeVars>>
RoutesOnly == part = "routes" /\ UNCHANGED <<part, relayVars>>

\* The part that is not picked stays in one of its initial states.
Init ==
  /\ part \in {"relay", "routes"}
  /\ RelayInit /\ RouteInit
  /\ part = "routes" => request = [protocol |-> "chat", stream |-> FALSE, omit |-> FALSE, budget |-> 2]

Next == (RelayOnly /\ RelayNext) \/ (RoutesOnly /\ RouteNext)

Fairness ==
  /\ WF_gatewayVars(RelayOnly /\ RelayStep)
  /\ WF_gatewayVars(RoutesOnly /\ ReconcilePass)
  /\ \A i \in RouteNames : WF_gatewayVars(RoutesOnly /\ Write(i))

Spec == Init /\ [][Next]_gatewayVars /\ Fairness
=============================================================================
