SPECIFICATION MCSpec
CONSTANTS
  Scalars <- MCScalars
  Lens <- MCLens
  MaxTypes = 5
  MaxElems = 2
  MaxStructs = 2
  MaxFuncs = 1
INVARIANTS TypeOK LayoutAsC ArgumentsFit
CHECK_DEADLOCK FALSE
