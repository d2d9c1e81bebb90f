---------------------------- MODULE MCStateActor ----------------------------
(* Model checking StateActor: three operations, two created tokens under a  *)
(* limit of one active token, and crashes at any transaction boundary.      *)
EXTENDS StateActor, TLC

MCHash == CreateBody \union TokenId \union {OtherBody}
MCSymmetry == Permutations(OpId) \union Permutations(TokenId)
=============================================================================
