SPECIFICATION ProgSpec
CONSTANTS
  t1 = t1
  t2 = t2
  t3 = t3
  t4 = t4
  NoTask = none
  Tasks <- MCTasks
  Steady = {t4}
  BadVfp = {}
  BootOrders <- MCOrders
  Sigs = {16}
  FpVals <- MCFloats
  FpZero = 0
  Rounds = 1
  FloatExact = 3
  Every = 3
  Draws = 5
INVARIANTS
  NeverFunny
PROPERTY
  ToldIsHeard
