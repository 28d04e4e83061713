CONSTANTS
  MaxObjs = 3
  MaxMods = 2
  MaxElems = 1
  MaxNest = 2
  NoName = NoName
  Intrinsics = {int}
  Tags = {S}
  TypeNames = {T}
  ElemNames = {x}
  GlobalNames = {g}
  Lens <- MCLens
  Calls = {"reset", "module", "intrinsic", "struct", "forward", "enum"}
SPECIFICATION Spec
INVARIANTS TypeOK OneTypePerTag StructsNest
PROPERTIES IntrinsicsShared
CHECK_DEADLOCK FALSE
