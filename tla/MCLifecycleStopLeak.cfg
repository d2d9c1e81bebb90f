SPECIFICATION FairSpec
CONSTANTS
  Serve = {s1}
  Stop = {p1}
  Cancel = {}
  RestartLimit = 2
  MaxGen = 1
  MaxFaults = 0
PROPERTIES
  StoppedIsRemoved
