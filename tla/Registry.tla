------------------------------ MODULE Registry ------------------------------
(***************************************************************************)
(* The C type registry of ggrt: the heap of type objects, the modules with *)
(* their symbol tables, and every operation of ggrt.c and ctx.c that       *)
(* creates, caches, names, opens or closes a type.                         *)
(*                                                                         *)
(* Each C function is an operator from a registry value to the next one,   *)
(* so that callers which make several calls in one step (the declarator    *)
(* code of gghc) can compose them.  TypeRegistry runs the operators as a   *)
(* state machine of their own, Compiler runs them as the parser does.      *)
(* Layout (sizeof, alignof, te numbers) and the callbacks are not part of  *)
(* this module.                                                            *)
(***************************************************************************)
EXTENDS Integers, Sequences

CONSTANTS
  MaxObjs,      \* bound: objects ggrt_malloc hands out for types and typedefs
  MaxMods,      \* bound: modules ever created
  NoName,       \* the name of an anonymous type (NULL or "")
  Intrinsics,   \* names of intrinsic types ("int", "double", "...")
  Tags,         \* struct, union and enum tags
  TypeNames,    \* names a typedef may introduce
  ElemNames,    \* names of fields and enumerators
  GlobalNames   \* names of globals

ASSUME BoundsAssumption == MaxObjs \in Nat /\ MaxMods \in Nat \ {0}
(* The lexer keeps keywords and identifiers apart, so a name that is       *)
(* declared is never the name of an intrinsic.                             *)
ASSUME NamesAssumption ==
  /\ NoName \notin Tags \cup TypeNames \cup Intrinsics
  /\ Intrinsics \cap (TypeNames \cup ElemNames \cup GlobalNames) = {}

-----------------------------------------------------------------------------
(* Objects.  0 is the NULL pointer; a reference is a C pointer.            *)

ObjId == 1..MaxObjs
Ref   == 0..MaxObjs
ModId == 1..MaxMods

UNSPEC == -1       \* (size_t) -1, the length of T[]

TypeKinds == {"intrinsic", "pointer", "array", "struct", "union", "enum",
              "function", "bitfield", "placeholder"}
Kinds == TypeKinds \cup {"free", "typedef"}
Tables == {"type", "struct", "union", "enum", "global"}
AllNames == {NoName} \cup Intrinsics \cup Tags \cup TypeNames \cup ElemNames \cup GlobalNames

Elem   == [name : AllNames, type : Ref, val : Int]
Symbol == [name : AllNames, addr : Ref, type : Ref]
Object == [kind : Kinds, name : AllNames, rtn : Ref, len : Int,
           elems : Seq(Elem), pointer_to : Ref, array0_of : Ref,
           prev : Ref, scope : Ref, last : Int]
Module == [prev : 0..MaxMods, intrinsic : 0..MaxMods,
           tab : [Tables -> SUBSET Symbol],
           current_struct : Ref, current_enum : Ref]

Registry == [heap : [ObjId -> Object], next : 1..MaxObjs + 1,
             mods : [ModId -> Module], nmods : 0..MaxMods,
             itab : [ModId -> SUBSET Symbol],
             cur : 0..MaxMods, def : 0..MaxMods,
             halt : {"no", "abort", "segv"}]

NewObject(kind, name, rtn, len, elems) ==
  [kind |-> kind, name |-> name, rtn |-> rtn, len |-> len, elems |-> elems,
   pointer_to |-> 0, array0_of |-> 0, prev |-> 0, scope |-> 0, last |-> -1]

FreeObject == NewObject("free", NoName, 0, 0, <<>>)

NewModule(prev, intrinsic) ==
  [prev |-> prev, intrinsic |-> intrinsic, tab |-> [k \in Tables |-> {}],
   current_struct |-> 0, current_enum |-> 0]

EmptyRegistry ==
  [heap |-> [i \in ObjId |-> FreeObject], next |-> 1,
   mods |-> [m \in ModId |-> NewModule(0, 0)], nmods |-> 0,
   itab |-> [m \in ModId |-> {}], cur |-> 0, def |-> 0, halt |-> "no"]

(* The objects handed out so far, and those of them that are types.        *)
Live(r)    == {i \in ObjId : i < r.next}
IsType(r, t) == t \in Live(r) /\ r.heap[t].kind \in TypeKinds
TypesOf(r)   == {t \in ObjId : IsType(r, t)}

(* Guards of the bounded model: n more objects, one more module.           *)
Room(r, n)  == r.next + n <= MaxObjs + 1
ModRoom(r)  == r.nmods < MaxMods

-----------------------------------------------------------------------------
(* Modules and symbol tables.                                              *)

CurrentModule(r) == IF r.cur # 0 THEN r.cur ELSE r.def
Cur(r) == r.mods[CurrentModule(r)]

(* Mutant: every module gets an intrinsic table of its own.                *)
MModuleOwnIntrinsics(r) ==
  LET m == r.nmods + 1 IN [r EXCEPT !.nmods = m, !.mods[m] = NewModule(0, m)]

(* ggrt_m_module: intrinsics are shared with the default module when there *)
(* is one; every other table is new.                                       *)
MModule(r) ==
  LET m == r.nmods + 1
      itab == IF r.def # 0 THEN r.mods[r.def].intrinsic ELSE m
  IN  [r EXCEPT !.nmods = m, !.mods[m] = NewModule(0, itab)]

ModuleBegin(r) ==
  LET s == MModule(r)
  IN  [s EXCEPT !.mods[s.nmods].prev = r.cur, !.cur = s.nmods]

(* ggrt_module_end(mod), mod already resolved to a module.                 *)
ModuleEnd(r, m) == [r EXCEPT !.cur = r.mods[m].prev]

CtxReset(r) ==
  LET s == MModule(r) IN [s EXCEPT !.def = s.nmods, !.cur = 0]

(* A lookup by name: the symbol, as the set of those found.                *)
Matches(tab, name) == {s \in tab : s.name = name}
Found(tab, name)   == Matches(tab, name) # {}
Lookup(tab, name)  == CHOOSE s \in Matches(tab, name) : TRUE

IntrinsicTable(r) == r.itab[Cur(r).intrinsic]

(* Mutant: the addr and type arguments reach the fields as name and addr.  *)
AddSymbolShifted(r, k, name, addr, type) ==
  [r EXCEPT !.mods[CurrentModule(r)].tab[k] =
     @ \cup {[name |-> addr, addr |-> type, type |-> 0]}]

AddSymbol(r, k, name, addr, type) ==
  [r EXCEPT !.mods[CurrentModule(r)].tab[k] =
     @ \cup {[name |-> name, addr |-> addr, type |-> type]}]

AddIntrinsic(r, name, addr) ==
  [r EXCEPT !.itab[Cur(r).intrinsic] =
     @ \cup {[name |-> name, addr |-> addr, type |-> 0]}]

(* ggrt_type: the addr of the symbol found, intrinsics first.              *)
TypeByName(r, name) ==
  IF Found(IntrinsicTable(r), name) THEN Lookup(IntrinsicTable(r), name).addr
  ELSE IF Found(Cur(r).tab["type"], name) THEN Lookup(Cur(r).tab["type"], name).addr
  ELSE 0

-----------------------------------------------------------------------------
(* Making types.                                                           *)

Alloc(r, obj) == [r EXCEPT !.heap[r.next] = obj, !.next = r.next + 1]
Halt(r, how)  == [r EXCEPT !.halt = how]

Intrinsic(r, name) ==
  IF Found(IntrinsicTable(r), name) THEN r
  ELSE AddSymbol(
         AddIntrinsic(Alloc(r, NewObject("intrinsic", name, 0, 0, <<>>)), name, r.next),
         "type", name, r.next, 0)

(* ggrt_typedef aborts when the name is known and its symbol's addr is not *)
(* the type itself; for a typedef the addr is the typedef object.          *)
Typedef(r, name, t) ==
  IF Found(Cur(r).tab["type"], name)
  THEN IF Lookup(Cur(r).tab["type"], name).addr = t THEN r ELSE Halt(r, "abort")
  ELSE AddSymbol(Alloc(r, NewObject("typedef", name, t, 0, <<>>)),
                 "type", name, r.next, t)

(* ggrt_pointer: the pointer type is cached in its target, except for a    *)
(* placeholder.  The result of a call is PointerRef.                       *)
PointerRef(r, t) == IF r.heap[t].pointer_to # 0 THEN r.heap[t].pointer_to ELSE r.next
(* Mutants: the cache is not written; the cache is not read.               *)
PointerNotCached(r, t) ==
  IF r.heap[t].pointer_to # 0 THEN r
  ELSE Alloc(r, NewObject("pointer", NoName, t, 0, <<>>))
PointerCacheIgnored(r, t) ==
  LET s == Alloc(r, NewObject("pointer", NoName, t, 0, <<>>))
  IN  IF r.heap[t].kind = "placeholder" THEN s
      ELSE [s EXCEPT !.heap[t].pointer_to = r.next]
Pointer(r, t) ==
  IF r.heap[t].pointer_to # 0 THEN r
  ELSE LET s == Alloc(r, NewObject("pointer", NoName, t, 0, <<>>))
       IN  IF r.heap[t].kind = "placeholder" THEN s
           ELSE [s EXCEPT !.heap[t].pointer_to = r.next]

(* ggrt_array: T[0] and T[] share one cached type; an array's pointer_to   *)
(* is the pointer to its element, since &a and &a[0] have one type.        *)
IsOpenLen(len) == len \in {0, UNSPEC}
ArrayCached(r, t, len) == IsOpenLen(len) /\ r.heap[t].array0_of # 0
ArrayRef(r, t, len) == IF ArrayCached(r, t, len) THEN r.heap[t].array0_of ELSE r.next
(* Mutants: T[0] is not cached, only T[] is; an array has its own pointer. *)
ArrayZeroNotCached(r, t, len) ==
  IF ArrayCached(r, t, len) THEN r
  ELSE LET a == r.next
           s == Alloc(r, NewObject("array", NoName, t, len, <<>>))
           u == IF r.heap[t].kind # "placeholder" /\ len = UNSPEC
                THEN [s EXCEPT !.heap[t].array0_of = a] ELSE s
       IN  [Pointer(u, t) EXCEPT !.heap[a].pointer_to = PointerRef(u, t)]
ArrayNotDecaying(r, t, len) ==
  IF ArrayCached(r, t, len) THEN r
  ELSE LET a == r.next
           s == Alloc(r, NewObject("array", NoName, t, len, <<>>))
           u == IF r.heap[t].kind # "placeholder" /\ IsOpenLen(len)
                THEN [s EXCEPT !.heap[t].array0_of = a] ELSE s
       IN  Pointer(u, a)
Array(r, t, len) ==
  IF ArrayCached(r, t, len) THEN r
  ELSE LET a == r.next
           s == Alloc(r, NewObject("array", NoName, t, len, <<>>))
           u == IF r.heap[t].kind # "placeholder" /\ IsOpenLen(len)
                THEN [s EXCEPT !.heap[t].array0_of = a] ELSE s
       IN  [Pointer(u, t) EXCEPT !.heap[a].pointer_to = PointerRef(u, t)]

Bitfield(r, t)    == Alloc(r, NewObject("bitfield", NoName, t, 0, <<>>))
Placeholder(r, n) == Alloc(r, NewObject("placeholder", n, 0, 0, <<>>))

(* ggrt_func: one unnamed element for each parameter type.                 *)
Func(r, rtn, params) ==
  Alloc(r, NewObject("function", NoName, rtn, 0,
          [i \in DOMAIN params |-> [name |-> NoName, type |-> params[i], val |-> 0]]))

Global(r, name, t) == AddSymbol(r, "global", name, 0, t)

-----------------------------------------------------------------------------
(* Structs and unions: su is "struct" or "union".                          *)

StructKnown(r, su, name) == name # NoName /\ Found(Cur(r).tab[su], name)
StructRef(r, su, name) ==
  IF StructKnown(r, su, name) THEN Lookup(Cur(r).tab[su], name).addr ELSE r.next

(* Mutant: a tag that is known is declared again.                          *)
StructForwardAgain(r, su, name) ==
  LET s == Alloc(r, NewObject(su, name, 0, 0, <<>>))
  IN  IF name = NoName THEN s ELSE AddSymbol(s, su, name, r.next, 0)

(* _ggrt_struct, which is all of ggrt_struct_forward.                      *)
StructForward(r, su, name) ==
  IF StructKnown(r, su, name) THEN r
  ELSE LET s == Alloc(r, NewObject(su, name, 0, 0, <<>>))
       IN  IF name = NoName THEN s ELSE AddSymbol(s, su, name, r.next, 0)

Struct(r, su, name) ==
  LET s  == StructForward(r, su, name)
      st == StructRef(r, su, name)
      cs == Cur(r).current_struct
  IN  [s EXCEPT !.heap[st] = [@ EXCEPT !.scope = cs, !.prev = cs],
                !.mods[CurrentModule(r)].current_struct = st]

AppendElem(r, t, name, type, val) ==
  [r EXCEPT !.heap[t].elems =
     Append(@, [name |-> name, type |-> type, val |-> val])]

StructElem(r, st, name, t) == AppendElem(r, st, name, t, 0)

(* Mutant: ending a struct ends all that are open.                         *)
StructEndAll(r, st) == [r EXCEPT !.mods[CurrentModule(r)].current_struct = 0]
StructEnd(r, st) ==
  [r EXCEPT !.mods[CurrentModule(r)].current_struct = r.heap[st].prev]

-----------------------------------------------------------------------------
(* Enums.                                                                  *)

EnumKnown(r, name) == name # NoName /\ Found(Cur(r).tab["enum"], name)
EnumRef(r, name) ==
  IF EnumKnown(r, name) THEN Lookup(Cur(r).tab["enum"], name).addr ELSE r.next

(* _ggrt_enum, which is all of ggrt_enum_forward: the new symbol carries   *)
(* the type in its type field and NULL in its addr.                        *)
EnumForward(r, name) ==
  IF EnumKnown(r, name) THEN r
  ELSE LET s == Alloc(r, NewObject("enum", name, 0, 0, <<>>))
       IN  IF name = NoName THEN s ELSE AddSymbol(s, "enum", name, 0, r.next)

(* ggrt_enum writes through the reference it got.                          *)
Enum(r, name) ==
  LET s  == EnumForward(r, name)
      et == EnumRef(r, name)
      m  == CurrentModule(r)
  IN  IF et = 0 THEN Halt(r, "segv")
      ELSE [s EXCEPT !.heap[et] = [@ EXCEPT !.prev = r.mods[m].current_enum,
                                            !.scope = r.mods[m].current_struct],
                     !.mods[m].current_enum = et]

(* An enumerator takes the value given or the last one plus one.           *)
EnumVal(r, et, explicit, v) == IF explicit THEN v ELSE r.heap[et].last + 1
EnumElem(r, et, name, explicit, v) ==
  LET val == EnumVal(r, et, explicit, v)
  IN  [AppendElem(r, et, name, et, val) EXCEPT !.heap[et].last = val]

EnumEnd(r, et) ==
  [r EXCEPT !.mods[CurrentModule(r)].current_enum = r.heap[et].prev]

=============================================================================
