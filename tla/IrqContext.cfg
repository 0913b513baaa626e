SPECIFICATION FairSpec
CONSTANTS
  t1 = t1
  t2 = t2
  t3 = t3
  none = none
  junk = junk
  zero = zero
  one = one
  Tasks = {t1, t2, t3}
  NoTask = none
  Demos = {"irq-context", "irq-timer", "irq-context-fp"}
  Steady = {t2, t3}
  BootOrder <- MCOrder
  Words = {zero, one}
  Junk = junk
  FpVals = {zero, one}
INVARIANTS
  IInv
PROPERTIES
  OwnRegisters
  OneTurnPerEvent
  AllRun
