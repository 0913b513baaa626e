SPECIFICATION FairProgSpec
CONSTANTS
  t1 = t1
  t2 = t2
  t3 = t3
  t4 = t4
  NoTask = none
  Tasks <- MCTasks
  Steady = {t4}
  BadVfp = {}
  BootOrders <- MCOrders
  Sigs = {16}
  FpVals <- MCFloats
  FpZero = 0
  Rounds = 0
  FloatExact = 0
  Every = 1
  Draws = 1
PROPERTIES
  ListenersRun
  FaultyRetired
