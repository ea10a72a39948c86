SPECIFICATION Spec
CONSTANTS
  Addrs = {0, 8}
  MaxLen = 6
  MaxBurst = 3
  ByteWrap = 5
INVARIANTS Accounting
PROPERTIES ImplementsReadStream CommandCompletes
