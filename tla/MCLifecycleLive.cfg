SPECIFICATION FairSpec
CONSTANTS
  Serve = {s1}
  Stop = {p1}
  Cancel = {}
  RestartLimit = 2
  MaxGen = 1
  MaxFaults = 2
PROPERTIES
  StoppedIsDrained
  
CHECK_DEADLOCK FALSE
