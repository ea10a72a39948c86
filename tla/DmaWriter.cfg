SPECIFICATION Spec
CONSTANTS
  Addrs = {0, 8}
  MaxLen = 3
  LenMod = 4
  ByteWrap = 5
  Words = {w1, w2}
INVARIANTS Accounting
PROPERTIES ImplementsWriteStream CommandCompletes
