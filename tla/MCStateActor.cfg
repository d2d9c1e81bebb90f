SPECIFICATION Spec
CONSTANTS
  OpId = {o1, o2, o3}
  Caller = {c1}
  Kind = {"token.create", "token.revoke", "instance.recover"}
  Key = {k1, k2}
  TokenId = {t1, t2}
  Hash <- MCHash
  MaxEvents = 3
  MaxActiveTokens = 1
  MaxCrashes = 2
INVARIANTS
  LogIsLegalPath
  OneOperationPerRequest
  SucceededRevokeIsInForce
  TokensAreAccounted
  RecoveriesSettledAtBoot
  
  ActorNeverStalls
PROPERTIES
  TerminalImmutable
SYMMETRY MCSymmetry
CHECK_DEADLOCK FALSE
