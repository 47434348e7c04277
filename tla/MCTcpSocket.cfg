CONSTANTS
  NFd = 3
  NConn = 4
  MayClose = TRUE
SPECIFICATION Spec
INVARIANTS SocketInv TwoDescriptors
PROPERTIES ConnectionSpec Reconnects DeleteReturns
