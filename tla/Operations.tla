----------------------------- MODULE Operations -----------------------------
(***************************************************************************)
(* The states of a durable operation and the transition relation that      *)
(* state.rs enforces on every write of the operations table.  The module   *)
(* has no state of its own: the modules that keep operations share it.     *)
(***************************************************************************)

\* OperationState
OpState == {"accepted", "running", "succeeded", "failed", "cancelled"}

\* OperationState::is_terminal
Terminal == {"succeeded", "failed", "cancelled"}

\* The states selected by  state IN ('accepted','running').
Active == {"accepted", "running"}

LegalPairs == { <<"accepted", "running">>,
                <<"running", "running">>,
                <<"accepted", "cancelled">>,
                <<"running", "succeeded">>,
                <<"running", "failed">>,
                <<"running", "cancelled">> }

\* legal_operation_transition
LegalTransition(current, next) == <<current, next>> \in LegalPairs

\* The state column after transition(), whether it answers Ok or Conflict.
TransitionTo(current, next) ==
  IF LegalTransition(current, next) THEN next ELSE current
=============================================================================
