SPECIFICATION Spec
CONSTANTS
  Nodes <- MCFewNodes
  Key <- MCFewKey
INVARIANT
  Balanced
CHECK_DEADLOCK FALSE
