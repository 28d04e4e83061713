SPECIFICATION Spec
CONSTANTS
  MaxInput = 5
  MaxStack = 3
  MaxArity = 3
  Line = 7
INVARIANTS TypeOK LinesAsDirected SymbolsSpanTokens TextIsOwn
CHECK_DEADLOCK FALSE
