CONSTANTS
  Tab = {a}
  RxMax = 2
  RxKeep = 1
  ReadMax = 1
  MaxStarts = 2
  MaxConns = 2
  MaxDgram = 2
  MaxBytes = 3
SPECIFICATION Spec
INVARIANTS BridgeInv StoppedUnlessLate ServedUnlessLate PeerIsServed BufferedUnlessLate
PROPERTIES DialAnswered RequestsReturn
