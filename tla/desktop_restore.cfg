SPECIFICATION Spec
CONSTANTS
  i1 = i1
  i2 = i2
  p1 = p1
  p2 = p2
  p3 = p3
  App <- Launches
  Process <- Daemons
  Manual <- StartedByHand
  Phrase = Phrase
  NoProcess = NoProcess
  NoApp = NoApp
  MaxRestarts = 1
  Faults = {}
PROPERTY
  RestoredAddressStays
CHECK_DEADLOCK FALSE
