SPECIFICATION Spec
CONSTANTS
  Names = {1, 2, 3}
  Addrs = {0, 1, 2}
  None = None
  MaxSyms = 3
INVARIANTS TypeOK ArraysAgree
PROPERTY ImplementsSymbolSpec
CHECK_DEADLOCK FALSE
