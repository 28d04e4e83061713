SPECIFICATION Spec
CONSTANTS
  MaxObjs = 4
  MaxMods = 3
  NoName = NoName
  Intrinsics = {"int", "..."}
  Tags = {S}
  TypeNames = {T}
  ElemNames = {x}
  GlobalNames = {g}
  Varargs = "..."
  Literals = {3}
  Exprs = {N}
  Syntax = {"struct", "union", "enum", "body", "inline", "paren", "sizeof", "forward", "typename", "enumref", "padding", "specifiers", "error"}
  MaxDepth = 6
  MaxList = 1
  MaxConstants = 3
INVARIANTS TypeOK ConstantsDefined StacksMirrorGrammar
CHECK_DEADLOCK FALSE
