SPECIFICATION FairSpec
CHECK_DEADLOCK FALSE
CONSTANTS
  Registers <- ChipRegisters
  Script <- MCScript
  Before <- LeftOn
  Aborts = 1
  TxFifo = 2
  RxFifo = 4
  Tune = 3
  Dump = 3
INVARIANTS
  CallsDoTheirWork
  ChannelsKept
  ReadsReceived
PROPERTIES
  ConfiguredWhileOff
  TunePlayed
  WaveGoesOn
