SPECIFICATION FairSpec
CONSTANTS
  MaxFaults = 3
  MaxReboots = 2
  MaxWrites = 2
  MaxGeneration = 5
  RestartPolicies = {"no", "unless-stopped"}
INVARIANTS JournalIsFaithful OneAppliance CommitKeepsEveryWrite
PROPERTIES CommitIsFinal  ImplementsCutover SettlesWithoutReboot
CHECK_DEADLOCK FALSE
