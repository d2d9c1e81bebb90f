------------------------- MODULE MCInstanceLifecycle -------------------------
(* Small instances of InstanceLifecycle.                                    *)
EXTENDS InstanceLifecycle, FiniteSets, TLC

MCSymmetry == Permutations(Serve) \union Permutations(Stop)

\* A behaviour with a cancel has no second serve, and a stop or a fault beside
\* it, not both.
SecondServeOrCancel ==
  \/ \A t \in Cancel : task[t].pc = "new"
  \/ /\ Cardinality({t \in Serve : task[t].pc # "new"}) <= 1
     /\ faults = 0 \/ \A t \in Stop : task[t].pc = "new"
=============================================================================
