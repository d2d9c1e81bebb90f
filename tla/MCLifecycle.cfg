SPECIFICATION Spec
CONSTANTS
  Serve = {s1, s2}
  Stop = {p1}
  Cancel = {c1}
  RestartLimit = 2
  MaxGen = 2
  MaxFaults = 1
INVARIANTS
  StartsHoldTheLease
  
  
PROPERTIES
  StartsAreAuthorised
  IntentNeedsNewGeneration
SYMMETRY MCSymmetry
CONSTRAINT SecondServeOrCancel
