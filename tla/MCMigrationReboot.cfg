SPECIFICATION FairSpec
CONSTANTS
  MaxFaults = 0
  MaxReboots = 1
  MaxWrites = 0
  MaxGeneration = 2
  RestartPolicies = {"unless-stopped"}
PROPERTIES Settles
CHECK_DEADLOCK FALSE
