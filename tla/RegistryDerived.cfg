CONSTANTS
  MaxObjs = 4
  MaxMods = 1
  MaxElems = 1
  MaxNest = 2
  NoName = NoName
  Intrinsics = {int}
  Tags = {S}
  TypeNames = {T}
  ElemNames = {x}
  GlobalNames = {g}
  Lens <- MCLens
  Calls = {"intrinsic", "pointer", "array", "placeholder", "bitfield", "typedef", "func", "global"}
SPECIFICATION Spec
INVARIANTS OnePointerType ArraysDecay OneOpenArrayType
PROPERTIES CachesStable
CHECK_DEADLOCK FALSE
