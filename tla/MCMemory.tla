------------------------------ MODULE MCMemory ------------------------------
(***************************************************************************)
(* The two guards of the host's memory, admission before a start and the   *)
(* emergency guard after it, side by side.  A behaviour picks one of them  *)
(* and never moves the other, so the state space is the sum of theirs.     *)
(***************************************************************************)
EXTENDS EmergencyGuard, Admission, TLC

VARIABLE part

memoryVars == <<part, vars, admissionVars>>

OneInstance == {1}
Processes == <<2>>

\* Two instances that do not fit together.
EnvelopeDef == "a" :> 2 @@ "b" :> 3

MemoryInit == part \in {"guard", "admission"} /\ Init /\ AdmissionInit

GuardMoves == part = "guard" /\ Next /\ UNCHANGED <<part, admissionVars>>
AdmissionMoves == part = "admission" /\ AdmissionNext /\ UNCHANGED <<part, vars>>

MemorySpec == MemoryInit /\ [][GuardMoves \/ AdmissionMoves]_memoryVars
=============================================================================
