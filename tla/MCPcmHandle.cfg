CONSTANTS
  Handle = {a, b}
  Usb = {u}
  Uart = {v}
  RetryMax = 2
  MaxBytes = 2
SPECIFICATION Spec
CHECK_DEADLOCK FALSE
INVARIANTS TypeOK LiveHasDriver NoDriverLeft ReaderSafe WritesTruthful
PROPERTIES CallsReturn
