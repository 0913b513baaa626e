SPECIFICATION FullSpec
CONSTANTS
  Nodes <- MCNodes
  Key <- MCKey
INVARIANTS
  SearchTree
  SearchesAgree
\* the model stops where a null pointer has been used
CHECK_DEADLOCK FALSE
