CONSTANTS
  Cap = 2
  Chunk = 2
  SndBuf = 1
  RetryMax = 2
  MaxLen = 3
  MaxBytes = 3
  MaxCuts = 2
SPECIFICATION Spec
INVARIANTS TypeOK InOrder Accounted NoProducerDrop DropsCounted
PROPERTIES ChannelSpec WriteReturns Delivered TxTaskEnds
