---------------------------- MODULE TypeRegistry ----------------------------
(***************************************************************************)
(* The type registry as a state machine: any caller of the ggrt API, one   *)
(* call per step, in any order the asserts of ggrt.c allow.                *)
(***************************************************************************)
EXTENDS Registry

CONSTANTS
  MaxElems,     \* bound: elements of one struct, union or enum
  MaxNest,      \* bound: definitions open at one time in a module
  Lens,         \* array lengths a caller may ask for
  Calls         \* the operations the caller uses

ASSUME LimitsAssumption == MaxElems \in Nat /\ MaxNest \in Nat
ASSUME LensAssumption == Lens \subseteq Int

VARIABLES
  rt,      \* the registry: a ggrt_ctx and everything reachable from it
  open,    \* history: per module, the structs and unions being defined
  reopened \* history: some struct was opened while it was already open

vars == <<rt, open, reopened>>

-----------------------------------------------------------------------------
(* The API as a state machine.  A caller passes types, never typedef       *)
(* objects, closes a struct or enum it has open, and adds elements to open *)
(* ones: the asserts of ggrt.c.  A program that aborted does nothing more. *)

OpenHere == open[CurrentModule(rt)]
IsIn(x, s) == \E i \in DOMAIN s : s[i] = x

Init ==
  /\ rt = CtxReset(EmptyRegistry)
  /\ open = [m \in ModId |-> <<>>]
  /\ reopened = FALSE

Call(r) == rt' = r /\ UNCHANGED <<open, reopened>>
Running == rt.halt = "no"

DoReset       == ModRoom(rt) /\ Call(CtxReset(rt))
DoModuleBegin == ModRoom(rt) /\ Call(ModuleBegin(rt))
DoModuleEnd   == rt.cur # 0 /\ Call(ModuleEnd(rt, rt.cur))

DoIntrinsic ==
  \E n \in Intrinsics : Room(rt, 1) /\ Call(Intrinsic(rt, n))

DoTypedef ==
  \E n \in TypeNames, t \in TypesOf(rt) : Room(rt, 1) /\ Call(Typedef(rt, n, t))

DoGlobal ==
  \E n \in GlobalNames, t \in TypesOf(rt) : Call(Global(rt, n, t))

DoPointer == \E t \in TypesOf(rt) : Room(rt, 1) /\ Call(Pointer(rt, t))

DoArray ==
  \E t \in TypesOf(rt), len \in Lens : Room(rt, 2) /\ Call(Array(rt, t, len))

DoBitfield == \E t \in TypesOf(rt) : Room(rt, 1) /\ Call(Bitfield(rt, t))

DoPlaceholder == Room(rt, 1) /\ Call(Placeholder(rt, NoName))

DoFunc ==
  \E t \in TypesOf(rt), n \in 0..1 : \E params \in [1..n -> TypesOf(rt)] :
    Room(rt, 1) /\ Call(Func(rt, t, params))

DoStructForward ==
  \E su \in {"struct", "union"}, n \in Tags :
    Room(rt, 1) /\ Call(StructForward(rt, su, n))

DoStruct ==
  \E su \in {"struct", "union"}, n \in Tags \cup {NoName} :
    LET st == StructRef(rt, su, n)
    IN  /\ Room(rt, 1) /\ Len(OpenHere) < MaxNest
        /\ rt' = Struct(rt, su, n)
        /\ open' = [open EXCEPT ![CurrentModule(rt)] = Append(@, st)]
        /\ reopened' = (reopened \/ IsIn(st, OpenHere))

DoStructElem ==
  \E n \in ElemNames, t \in TypesOf(rt) :
    LET st == Cur(rt).current_struct
    IN  /\ st # 0
        /\ Len(rt.heap[st].elems) < MaxElems
        /\ Call(StructElem(rt, st, n, t))

DoStructEnd ==
  LET st == Cur(rt).current_struct
  IN  /\ st # 0
      /\ OpenHere # <<>>
      /\ rt' = StructEnd(rt, st)
      /\ open' = [open EXCEPT ![CurrentModule(rt)] = SubSeq(@, 1, Len(@) - 1)]
      /\ UNCHANGED reopened

DoEnumForward == \E n \in Tags : Room(rt, 1) /\ Call(EnumForward(rt, n))

DoEnum ==
  \E n \in Tags \cup {NoName} : Room(rt, 1) /\ Call(Enum(rt, n))

DoEnumElem ==
  \E n \in ElemNames, explicit \in BOOLEAN :
    LET et == Cur(rt).current_enum
    IN  /\ et # 0
        /\ Len(rt.heap[et].elems) < MaxElems
        /\ Call(EnumElem(rt, et, n, explicit, 0))

DoEnumEnd ==
  LET et == Cur(rt).current_enum IN et # 0 /\ Call(EnumEnd(rt, et))

May(op) == op \in Calls

Next ==
  /\ Running
  /\ \/ May("reset")     /\ DoReset
     \/ May("module")    /\ (DoModuleBegin \/ DoModuleEnd)
     \/ May("intrinsic") /\ DoIntrinsic
     \/ May("typedef")   /\ DoTypedef
     \/ May("global")    /\ DoGlobal
     \/ May("pointer")   /\ DoPointer
     \/ May("array")     /\ DoArray
     \/ May("bitfield")  /\ DoBitfield
     \/ May("placeholder") /\ DoPlaceholder
     \/ May("func")      /\ DoFunc
     \/ May("forward")   /\ (DoStructForward \/ DoEnumForward)
     \/ May("struct")    /\ (DoStruct \/ DoStructElem \/ DoStructEnd)
     \/ May("enum")      /\ (DoEnum \/ DoEnumElem \/ DoEnumEnd)

Spec == Init /\ [][Next]_vars

-----------------------------------------------------------------------------
(* Properties.                                                             *)

(* Every registry value has its type.                                      *)
TypeOK ==
  /\ rt \in Registry
  /\ open \in [ModId -> Seq(Ref)]
  /\ reopened \in BOOLEAN

(* One pointer type per target: ggrt_pointer and ggrt_array, in whatever   *)
(* order they are called, never leave two pointer types to one type, so    *)
(* that callers may compare types by address (a placeholder is exempt).    *)
OnePointerType ==
  \A p \in TypesOf(rt) :
    LET t == rt.heap[p].rtn
    IN  rt.heap[p].kind = "pointer" =>
          rt.heap[t].kind = "placeholder" \/ rt.heap[t].pointer_to = p

(* An array type is never the target of a pointer type: its pointer_to is  *)
(* the pointer to its element, as typeof(&a) == typeof(&a[0]).             *)
ArraysDecay ==
  \A a \in TypesOf(rt) : rt.heap[a].kind = "array" =>
    LET p == rt.heap[a].pointer_to
        t == rt.heap[a].rtn
    IN  /\ IsType(rt, p) /\ rt.heap[p].kind = "pointer"
        /\ \/ rt.heap[p].rtn = t
           \/ rt.heap[t].kind = "array" /\ p = rt.heap[t].pointer_to
        /\ \A q \in TypesOf(rt) : rt.heap[q].kind = "pointer" => rt.heap[q].rtn # a

(* One open array type T[] per element type, shared by T[0] and T[].       *)
OneOpenArrayType ==
  \A a \in TypesOf(rt) :
    LET t == rt.heap[a].rtn
    IN  rt.heap[a].kind = "array" /\ IsOpenLen(rt.heap[a].len) =>
          rt.heap[t].kind = "placeholder" \/ rt.heap[t].array0_of = a

(* What ggrt_pointer and ggrt_array answered once they answer for ever.    *)
CachesStable ==
  [][\A t \in TypesOf(rt) :
       /\ rt.heap[t].pointer_to # 0 =>
            rt'.heap[t].pointer_to = rt.heap[t].pointer_to
       /\ rt.heap[t].array0_of # 0 =>
            rt'.heap[t].array0_of = rt.heap[t].array0_of]_vars

(* A tag names one type: a forward reference, the definition and every     *)
(* later reference of a module get the same struct or union.               *)
OneTypePerTag ==
  \A m \in 1..rt.nmods, su \in {"struct", "union"} :
    \A s, s2 \in rt.mods[m].tab[su] :
      /\ IsType(rt, s.addr)
      /\ rt.heap[s.addr].kind = su /\ rt.heap[s.addr].name = s.name
      /\ s.name = s2.name => s = s2
      /\ s.addr = s2.addr => s = s2

(* The intrinsic types are the same objects in every module, the default   *)
(* module of every reset included, and an intrinsic name never moves.      *)
IntrinsicsShared ==
  [][\A m \in 1..rt'.nmods, n \in Intrinsics :
       LET tab == rt.itab[rt.mods[1].intrinsic]
       IN  Found(tab, n) =>
             Matches(rt'.itab[rt'.mods[m].intrinsic], n) = Matches(tab, n)]_vars

(* Definitions nest: the chain of current_struct through prev is the stack *)
(* of the structs being defined, unless one was reopened while open.       *)
StructsNest ==
  reopened \/
  \A m \in 1..rt.nmods :
    LET s == open[m]
    IN  /\ rt.mods[m].current_struct = (IF s = <<>> THEN 0 ELSE s[Len(s)])
        /\ \A i \in DOMAIN s :
             rt.heap[s[i]].prev = (IF i = 1 THEN 0 ELSE s[i - 1])
=============================================================================
