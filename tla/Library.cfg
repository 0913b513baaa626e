SPECIFICATION LibSpec
CONSTANTS
  n1 = n1
  n2 = n2
  n3 = n3
  n4 = n4
  ready = ready
  wait = wait
  Nodes <- MCNodes
  Lists <- MCLists
  NoNode = NoNode
  Deepest = 3
  Width = 96
  Height = 52
  SRATE = 48000
  WVLEN = 20
  TraceWidth = 4
  TraceEvery = 32
  Sizes = {1, 8, 9, 64, 80}
  Starts = {0, 1, 5, 15}
  Texts = {1, 250, 256}
  Datas = {3, 30, 260}
  WordDigits = 3
  LINE = 6
  Keys = {8, 32, 48, 49, 102, 109, 120}
  Units <- MCUnits
  Tones <- MCTones
INVARIANTS
  ChainsIntact
  WalkVisitsAll
  EmptyListAgrees
  CriticalUndisturbed
  DrawsInBitmap
  BoxesPainted
  IdentityMap
  BootMapRight
  NumbersReadBack
PROPERTIES
  ImplementsLists
  ToneSteady
  SweepSilent
SYMMETRY Symmetry
\* the page tables are built once, and then the processor goes on to main
CHECK_DEADLOCK FALSE
