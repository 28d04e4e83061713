SPECIFICATION Spec
CONSTANTS
  MaxObjs = 4
  MaxMods = 3
  NoName = NoName
  Intrinsics = {"int", "..."}
  Tags = {S}
  TypeNames = {T}
  ElemNames = {x}
  GlobalNames = {g}
  Varargs = "..."
  Literals = {3}
  Exprs = {}
  Syntax = {"struct", "enum", "body", "inline"}
  MaxDepth = 6
  MaxList = 2
  MaxConstants = 6
INVARIANTS NoAssertFails NoDanglingReference StructStacksAgree DeclaredAsWritten OutputNests
CHECK_DEADLOCK FALSE
