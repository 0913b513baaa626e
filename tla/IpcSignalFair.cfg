SPECIFICATION FairSpec
CONSTANTS
  t1 = t1
  t2 = t2
  t3 = t3
  none = none
  zero = zero
  one = one
  Tasks = {t1, t2, t3}
  Steady = {t2, t3}
  BadVfp = {t1}
  BootOrders <- MCOneOrder
  NoTask = none
  Sigs = {0}
  FpVals = {zero}
  FpZero = zero
PROPERTY
  ReadyRuns
