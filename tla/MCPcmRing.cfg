CONSTANTS
  Byte <- MCByte
  Uninit = Uninit
  Cap = 3
  MaxWrite = 4
  MaxRead = 2
SPECIFICATION Spec
INVARIANT RingInv
PROPERTY FifoSpec
