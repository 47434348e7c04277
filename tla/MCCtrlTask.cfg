CONSTANTS
  LineMax = 3
  RxMax = 2
  MaxLines = 2
  MaxLineLen = 3
  MaxBreaks = 1
  MaxStarts = 2
SPECIFICATION Spec
INVARIANTS CtrlInv LinesInOrder
PROPERTIES CommandsSpec AllDispatched StopReturns
