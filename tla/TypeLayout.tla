----------------------------- MODULE TypeLayout -----------------------------
(***************************************************************************)
(* Size and alignment of types (ggrt.c): scalars, pointers and functions   *)
(* know theirs when they are made; those of arrays, structs and unions are *)
(* computed when first asked for, and kept (c_sizeof, c_alignof, zero when *)
(* not known), and a new member of a struct makes it forget them.          *)
(*                                                                         *)
(* Names, caches and modules of types are module Registry's.  Sizes are    *)
(* those of a machine with 8-byte pointers where a scalar is aligned to    *)
(* its size.                                                               *)
(***************************************************************************)
EXTENDS Integers, Sequences, FiniteSets, SequencesExt

CONSTANTS
  Scalars,    \* the sizes of the intrinsic types, which are the first types
  Lens,       \* lengths of arrays; UNSPEC for T[]
  MaxTypes,   \* bound: types ever made
  MaxElems,   \* bound: members of a struct, parameters of a function
  MaxStructs, \* bound: structs and unions
  MaxFuncs    \* bound: function types

UNSPEC == -1
PointerSize == 8
IntSize == 4

ASSUME ScalarsAssumption == Scalars \in Seq(Nat \ {0}) /\ IntSize \in Range(Scalars)
ASSUME LensAssumption == Lens \subseteq Nat \cup {UNSPEC}
ASSUME BoundsAssumption == {MaxTypes, MaxElems, MaxStructs, MaxFuncs} \subseteq Nat

VARIABLES
  types,      \* the type objects; a type is referred to by its place here
  ended       \* the structs and unions whose definitions have ended

TypeId == DOMAIN types

Composite == {"struct", "union"}
Elem == [type : Nat, offset : Nat]
Type == [kind : {"scalar", "pointer", "array", "function"} \cup Composite,
         rtn : Nat, len : Nat \cup {UNSPEC}, elems : Seq(Elem),
         size : Nat, align : Nat]

NewType(kind, rtn, len, params, size) ==
  [kind |-> kind, rtn |-> rtn, len |-> len,
   elems |-> [i \in DOMAIN params |-> [type |-> params[i], offset |-> 0]],
   size |-> size, align |-> size]

Larger(m, n) == IF m > n THEN m ELSE n

-----------------------------------------------------------------------------
(* ggrt_type_sizeof and ggrt_type_alignof: what they leave in the types.   *)

(* Mutant: the operands of the padding are swapped.                        *)
AlignUpSwapped(n, a) == IF n % a = 0 THEN n ELSE n + ((n % a) - a)
AlignUp(n, a) == IF n % a = 0 THEN n ELSE n + (a - (n % a))

RECURSIVE Measure(_, _)

(* ggrt_type_alignof, after ggrt_type_sizeof.                              *)
MeasureBoth(ts, t) ==
  LET us == Measure(ts, t) IN IF us[t].align # 0 THEN us ELSE Measure(us, t)

MeasureArray(ts, t) ==
  LET us == MeasureBoth(ts, ts[t].rtn)
      of == us[ts[t].rtn]
  IN  [us EXCEPT ![t].size = IF ts[t].len = UNSPEC THEN 0 ELSE of.size * ts[t].len,
                 ![t].align = of.align]

(* The members in turn; so far are the types, the size and the alignment.  *)
Place(t, far, i) ==
  LET u  == far.types[t].elems[i].type
      us == MeasureBoth(far.types, u)
      at == IF us[t].kind = "struct" THEN AlignUp(far.size, us[u].align) ELSE 0
  IN  [types |-> [us EXCEPT ![t].elems[i].offset = at],
       size  |-> Larger(far.size, at + us[u].size),
       align |-> Larger(far.align, us[u].align)]

(* A struct is padded to the alignment of each member, so that an array of *)
(* it aligns them all; a union is as large as its largest member.          *)
(* Mutant: the end is not padded.                                          *)
PadNothing(ts, t, size) == size
Pad(ts, t, size) ==
  IF ts[t].kind = "union" THEN size
  ELSE FoldLeft(LAMBDA n, e : AlignUp(n, ts[e.type].align), size, ts[t].elems)

MeasureMembers(ts, t) ==
  LET placed == FoldLeft(LAMBDA far, i : Place(t, far, i),
                         [types |-> ts, size |-> 0, align |-> 0],
                         [i \in DOMAIN ts[t].elems |-> i])
  IN  [placed.types EXCEPT ![t].size = Pad(placed.types, t, placed.size),
                           ![t].align = placed.align]

Measure(ts, t) ==
  CASE ts[t].size # 0           -> ts
    [] ts[t].kind = "array"     -> MeasureArray(ts, t)
    [] ts[t].kind \in Composite /\ ts[t].elems # <<>> -> MeasureMembers(ts, t)
    [] OTHER                    -> ts

-----------------------------------------------------------------------------
(* Making types.                                                           *)

Room == Len(types) < MaxTypes
Count(kinds) == Cardinality({t \in TypeId : types[t].kind \in kinds})
Make(type) == Room /\ types' = Append(types, type) /\ UNCHANGED ended

(* The types a declaration may make a member or an array of: a struct is   *)
(* complete when its definition has ended.  C has no empty struct, whose   *)
(* alignment of zero the code divides by.                                  *)
RECURSIVE Complete(_)
Complete(t) ==
  CASE types[t].kind \in Composite  -> t \in ended /\ types[t].elems # <<>>
    [] types[t].kind = "array"      -> Complete(types[t].rtn)
    [] types[t].kind = "function"   -> FALSE
    [] OTHER                        -> TRUE

(* A type has one pointer and one open array.                              *)
Has(kind, t) ==
  \E u \in TypeId : types[u].kind = kind /\ types[u].rtn = t /\ types[u].len \in {0, UNSPEC}

MakePointer(t) ==
  ~ Has("pointer", t) /\ Make(NewType("pointer", t, 0, <<>>, PointerSize))
MakeArray(t, len) ==
  /\ Complete(t)
  /\ len \in {0, UNSPEC} => ~ Has("array", t)
  /\ Make(NewType("array", t, len, <<>>, 0))
MakeFunc(t, params) ==
  /\ Count({"function"}) < MaxFuncs
  /\ Make(NewType("function", t, 0, params, 0))
MakeStruct(su) ==
  /\ Count(Composite) < MaxStructs
  /\ Make(NewType(su, 0, 0, <<>>, 0))

(* ggrt_struct_elem                                                        *)
(* Mutant: what was computed of the struct is kept.                        *)
WithElemKept(ts, st, t) ==
  [ts EXCEPT ![st].elems = Append(@, [type |-> t, offset |-> 0])]
WithElem(ts, st, t) ==
  [ts EXCEPT ![st].elems = Append(@, [type |-> t, offset |-> 0]),
             ![st].size = 0, ![st].align = 0]

StructElem(st, t) ==
  /\ types[st].kind \in Composite /\ st \notin ended
  /\ Len(types[st].elems) < MaxElems /\ Complete(t)
  /\ types' = WithElem(types, st, t)
  /\ UNCHANGED ended

StructEnd(st) ==
  /\ types[st].kind \in Composite /\ st \notin ended
  /\ ended' = ended \cup {st}
  /\ UNCHANGED types

(* A caller asks for a size; a function has none, and it aborts.           *)
Sizeof(t) ==
  /\ types[t].kind # "function"
  /\ types' = MeasureBoth(types, t)
  /\ UNCHANGED ended

LayoutInit ==
  /\ types = [i \in DOMAIN Scalars |-> NewType("scalar", 0, 0, <<>>, Scalars[i])]
  /\ ended = {}

-----------------------------------------------------------------------------
(* Properties.                                                             *)

LayoutTypeOK ==
  /\ types \in Seq(Type)
  /\ ended \subseteq TypeId

(* What C says of a type, from its declaration alone.                      *)
RECURSIVE CSize(_), CAlign(_), CEnd(_, _)
COffset(t, i) ==
  IF types[t].kind = "union" THEN 0
  ELSE CHOOSE o \in CEnd(t, i - 1)..CEnd(t, i - 1) + 15 :
         /\ o % CAlign(types[t].elems[i].type) = 0
         /\ \A p \in CEnd(t, i - 1)..o - 1 : p % CAlign(types[t].elems[i].type) # 0
CEnd(t, i) == IF i = 0 THEN 0 ELSE COffset(t, i) + CSize(types[t].elems[i].type)
CAlign(t) ==
  CASE types[t].kind \in Composite ->
         LET aligns == {CAlign(e.type) : e \in Range(types[t].elems)}
         IN  CHOOSE a \in aligns : \A b \in aligns : b <= a
    [] types[t].kind = "array" -> CAlign(types[t].rtn)
    [] types[t].kind = "pointer" -> PointerSize
    [] OTHER -> Scalars[t]
CSize(t) ==
  CASE types[t].kind \in Composite ->
         LET ends == {CEnd(t, i) : i \in DOMAIN types[t].elems}
             end == CHOOSE n \in ends : \A m \in ends : m <= n
         IN  CHOOSE n \in end..end + 15 :
               n % CAlign(t) = 0 /\ \A m \in end..n - 1 : m % CAlign(t) # 0
    [] types[t].kind = "array" ->
         IF types[t].len = UNSPEC THEN 0 ELSE types[t].len * CSize(types[t].rtn)
    [] types[t].kind = "pointer" -> PointerSize
    [] OTHER -> Scalars[t]

(* A union whose largest member is no multiple of its alignment, which C   *)
(* pads and the code does not, and what contains one.                      *)
RECURSIVE Uneven(_)
Uneven(t) ==
  CASE types[t].kind \in Composite ->
         \/ \E e \in Range(types[t].elems) : Uneven(e.type)
         \/ /\ types[t].kind = "union"
            /\ types[t].elems # <<>>
            /\ \A e \in Range(types[t].elems) : CSize(e.type) < CSize(t)
    [] types[t].kind = "array" -> Uneven(types[t].rtn)
    [] OTHER -> FALSE

(* Whatever was asked of whichever types at whatever time between their    *)
(* members, a size or an alignment that is kept is the one that C gives,   *)
(* and then so are the offsets of the members.                             *)
LayoutAsC ==
  \A t \in TypeId :
    types[t].kind # "function" /\ ~ Uneven(t) =>
      /\ types[t].align # 0 => types[t].align = CAlign(t) /\ types[t].size = CSize(t)
      /\ types[t].size # 0 => types[t].align # 0
      /\ types[t].kind \in Composite /\ types[t].size # 0 =>
           \A i \in DOMAIN types[t].elems : types[t].elems[i].offset = COffset(t, i)
=============================================================================
