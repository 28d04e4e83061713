SPECIFICATION Spec
CONSTANTS
  MaxObjs = 6
  MaxMods = 3
  NoName = NoName
  Intrinsics = {"int", "..."}
  Tags = {S}
  TypeNames = {T}
  ElemNames = {x}
  GlobalNames = {g}
  Varargs = "..."
  Literals = {3}
  Exprs = {}
  Syntax = {"paren"}
  MaxDepth = 5
  MaxList = 1
  MaxConstants = 3
INVARIANTS DeclaredAsWritten
CHECK_DEADLOCK FALSE
