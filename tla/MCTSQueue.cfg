SPECIFICATION Spec
CONSTANTS
  Threads <- MCThreads
  Modes <- BothModes
  MaxPushes = 3
INVARIANTS
  TypeOK
  Conserved
  NodesApart
  TailInQueue
PROPERTIES
  ImplementsFifo
  NonBlocking
