CONSTANTS
  LineMax = 3
  RxMax = 2
  MaxLines = 2
  MaxLineLen = 3
  MaxBreaks = 1
  MaxStarts = 1
SPECIFICATION Spec
INVARIANT OneLineEach
