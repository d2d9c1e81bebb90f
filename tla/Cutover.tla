------------------------------ MODULE Cutover ------------------------------
(* What an appliance migration promises to the clients outside it: the door *)
(* is open to the legacy appliance until it is closed, a decision is taken  *)
(* only while the door is closed, and once the decision is taken the door   *)
(* opens to the current appliance and never to the legacy one again.        *)
CONSTANTS Legacy, Current

VARIABLES
    open,      \* the appliances an outside client can reach
    decided    \* the migration is committed

vars == <<open, decided>>

CutoverType == /\ open \in {{}, {Legacy}, {Current}}
               /\ decided \in BOOLEAN

Init == /\ open = {Legacy}
        /\ decided = FALSE

Close == /\ open' = {}
         /\ UNCHANGED decided

OpenLegacy == /\ open = {}
              /\ ~decided
              /\ open' = {Legacy}
              /\ UNCHANGED decided

Decide == /\ open = {}
          /\ decided' = TRUE
          /\ UNCHANGED open

OpenCurrent == /\ open = {}
               /\ decided
               /\ open' = {Current}
               /\ UNCHANGED decided

Next == Close \/ OpenLegacy \/ Decide \/ OpenCurrent

Spec == Init /\ [][Next]_vars
=============================================================================
