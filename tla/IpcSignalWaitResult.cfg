SPECIFICATION Spec
CONSTANTS
  t1 = t1
  t2 = t2
  t3 = t3
  none = none
  zero = zero
  one = one
  Tasks = {t1, t3}
  Steady = {t3}
  BadVfp = {}
  BootOrders <- MCOrders
  NoTask = none
  Sigs = {0, 1}
  FpVals = {zero}
  FpZero = zero
PROPERTY
  WaitReturnsReceived
