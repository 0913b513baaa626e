SPECIFICATION RunningSpec
CONSTANTS
  t1 = t1
  t2 = t2
  t3 = t3
  none = none
  zero = zero
  one = one
  Tasks = {t1, t3}
  Steady = {t3}
  BadVfp = {t1}
  BootOrders <- MCOrders
  NoTask = none
  Sigs = {}
  FpVals = {zero}
  FpZero = zero
PROPERTY
  BadCodeRetired
