SPECIFICATION Spec
CONSTANTS
  MaxObjs = 7
  MaxMods = 3
  NoName = NoName
  Intrinsics = {"int", "short", "..."}
  Tags = {S}
  TypeNames = {}
  ElemNames = {x}
  GlobalNames = {g}
  Varargs = "..."
  Literals = {3}
  Exprs = {N}
  Syntax = {}
  MaxDepth = 5
  MaxList = 1
  MaxConstants = 2
INVARIANTS DeclaredAsWritten
CHECK_DEADLOCK FALSE
