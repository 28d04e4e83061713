------------------------- MODULE TypeRegistryProofs -------------------------
(***************************************************************************)
(* Proofs about TypeRegistry, for every value of its constants: the types  *)
(* of its state, and that pointer and open array types are canonical and   *)
(* never change.                                                           *)
(*                                                                         *)
(* The lemmas come in three layers: what one update of a registry value    *)
(* preserves, what each operation of the API preserves, and the steps of   *)
(* the state machine.                                                      *)
(***************************************************************************)
EXTENDS TypeRegistry, SequenceTheorems, TLAPS

(* The current module always exists, and the modules refer to modules that *)
(* exist.                                                                  *)
ModsOK(r) ==
  /\ r.nmods \in 1..MaxMods
  /\ r.def \in 1..r.nmods
  /\ r.cur \in 0..r.nmods
  /\ \A m \in 1..r.nmods :
       r.mods[m].intrinsic \in 1..r.nmods /\ r.mods[m].prev \in 0..r.nmods

Good(r) == r \in Registry /\ ModsOK(r)

(* The part of the heap that pointers and arrays depend on: memory not     *)
(* handed out is free, a pointer or array has a type as target, and it is  *)
(* the one its target remembers.                                           *)
Canonical(r) ==
  /\ \A i \in ObjId : i >= r.next => r.heap[i].kind = "free"
  /\ \A i \in ObjId :
       r.heap[i].kind \in {"pointer", "array"} => IsType(r, r.heap[i].rtn)
  /\ \A p \in ObjId : r.heap[p].kind = "pointer" =>
       \/ r.heap[r.heap[p].rtn].kind = "placeholder"
       \/ r.heap[r.heap[p].rtn].pointer_to = p
  /\ \A a \in ObjId : r.heap[a].kind = "array" /\ IsOpenLen(r.heap[a].len) =>
       \/ r.heap[r.heap[a].rtn].kind = "placeholder"
       \/ r.heap[r.heap[a].rtn].array0_of = a

(* What the two caches remember in r they remember in s.                   *)
KeepsCaches(r, s) ==
  \A t \in TypesOf(r) :
    /\ r.heap[t].pointer_to # 0 => s.heap[t].pointer_to = r.heap[t].pointer_to
    /\ r.heap[t].array0_of # 0 => s.heap[t].array0_of = r.heap[t].array0_of

SameObject(r, s, i) ==
  /\ s.heap[i].kind = r.heap[i].kind
  /\ s.heap[i].rtn = r.heap[i].rtn
  /\ s.heap[i].len = r.heap[i].len
  /\ s.heap[i].pointer_to = r.heap[i].pointer_to
  /\ s.heap[i].array0_of = r.heap[i].array0_of

(* What the caches hold: an array's pointer_to is a pointer to its element *)
(* (for an array of arrays the one its element decays to), any other       *)
(* object's is a pointer to itself, and no pointer has an array as target. *)
ArrayDecays(r, a) ==
  LET p == r.heap[a].pointer_to
      t == r.heap[a].rtn
  IN  /\ IsType(r, p) /\ r.heap[p].kind = "pointer"
      /\ r.heap[p].rtn = t \/ (r.heap[t].kind = "array" /\ p = r.heap[t].pointer_to)
PointerAnswers(r, t) ==
  LET p == r.heap[t].pointer_to
  IN  r.heap[t].kind # "array" /\ p # 0 =>
        IsType(r, p) /\ r.heap[p].kind = "pointer" /\ r.heap[p].rtn = t
(* All of it but for an array type a that is still being made and that no  *)
(* other array has as its element; 0 stands for no such array.             *)
DecaysBut(r, a) ==
  /\ \A b \in ObjId \ {a} : r.heap[b].kind = "array" =>
       ArrayDecays(r, b) /\ r.heap[b].rtn # a
  /\ \A t \in ObjId : PointerAnswers(r, t)
  /\ \A q \in ObjId : r.heap[q].kind = "pointer" =>
       r.heap[r.heap[q].rtn].kind # "array"
Decays(r) == DecaysBut(r, 0)

(* s differs from r in no object, or in one new object that is neither a   *)
(* pointer nor an array and has no pointer type yet.                       *)
SameHeap(r, s) == s.next = r.next /\ \A i \in ObjId : SameObject(r, s, i)
OneNew(r, s) ==
  /\ r.next \in ObjId
  /\ s.next = r.next + 1
  /\ s.heap[r.next].kind \notin {"pointer", "array"}
  /\ s.heap[r.next].pointer_to = 0
  /\ \A i \in ObjId \ {r.next} : SameObject(r, s, i)

(* What every operation but ggrt_pointer and ggrt_array does.              *)
Plain(r, s) == Good(s) /\ (SameHeap(r, s) \/ OneNew(r, s))

-----------------------------------------------------------------------------
(* One update of a registry value.                                         *)

LEMMA NewObjectType ==
  ASSUME NEW kind \in Kinds, NEW name \in AllNames, NEW rtn \in Ref,
         NEW len \in Int, NEW elems \in Seq(Elem)
  PROVE  NewObject(kind, name, rtn, len, elems) \in Object
BY BoundsAssumption DEF NewObject, Object, Ref

LEMMA EmptyObjectType ==
  ASSUME NEW kind \in Kinds, NEW name \in AllNames, NEW rtn \in Ref, NEW len \in Int
  PROVE  LET obj == NewObject(kind, name, rtn, len, <<>>)
         IN  /\ obj \in Object /\ obj.kind = kind /\ obj.rtn = rtn /\ obj.len = len
             /\ obj.pointer_to = 0 /\ obj.array0_of = 0
<1>1. <<>> \in Seq(Elem) OBVIOUS
<1>2. QED BY <1>1, NewObjectType DEF NewObject

LEMMA RefFacts ==
  /\ 0 \in Ref
  /\ \A r : \A t \in TypesOf(r) : t \in Ref /\ t \in ObjId
BY BoundsAssumption DEF Ref, TypesOf, ObjId

LEMMA CurrentModuleType ==
  ASSUME NEW r, Good(r)
  PROVE  /\ CurrentModule(r) \in ModId /\ CurrentModule(r) \in 1..r.nmods
         /\ Cur(r) \in Module /\ Cur(r).intrinsic \in ModId
         /\ IntrinsicTable(r) \in SUBSET Symbol
<1>1. CurrentModule(r) \in 1..r.nmods
  BY DEF Good, ModsOK, CurrentModule
<1>2. CurrentModule(r) \in ModId
  BY <1>1, BoundsAssumption DEF Good, ModsOK, ModId
<1>3. Cur(r) \in Module
  BY <1>2 DEF Good, Registry, Cur
<1>4. Cur(r).intrinsic \in ModId
  BY <1>1, BoundsAssumption DEF Good, ModsOK, ModId, Cur
<1>5. QED BY <1>1, <1>2, <1>3, <1>4 DEF IntrinsicTable, Good, Registry

LEMMA LookupType ==
  ASSUME NEW tab \in SUBSET Symbol, NEW name, Found(tab, name)
  PROVE  Lookup(tab, name) \in Symbol /\ Lookup(tab, name) \in tab
BY DEF Found, Lookup, Matches

LEMMA AllocType ==
  ASSUME NEW r, NEW obj \in Object, Good(r), Room(r, 1)
  PROVE  /\ Good(Alloc(r, obj))
         /\ r.next \in ObjId /\ r.next \in Ref
         /\ Alloc(r, obj).heap = [r.heap EXCEPT ![r.next] = obj]
         /\ Alloc(r, obj).next = r.next + 1
         /\ CurrentModule(Alloc(r, obj)) = CurrentModule(r)
<1>1. r.next + 1 \in 1..MaxObjs + 1 /\ r.next \in ObjId /\ r.next \in Ref
  BY BoundsAssumption DEF Good, Room, Registry, ObjId, Ref
<1>2. QED BY <1>1 DEF Good, ModsOK, Registry, Alloc, CurrentModule

(* A new object that is neither a pointer nor an array is a plain step.    *)
LEMMA AllocPlain ==
  ASSUME NEW r, NEW obj \in Object, Good(r), Room(r, 1),
         obj.kind \notin {"pointer", "array"}, obj.pointer_to = 0
  PROVE  Plain(r, Alloc(r, obj)) /\ OneNew(r, Alloc(r, obj))
<1>1. r.heap \in [ObjId -> Object] BY DEF Good, Registry
<1> DEFINE s == Alloc(r, obj)
<1>2. /\ Good(s) /\ r.next \in ObjId /\ s.next = r.next + 1
      /\ s.heap = [r.heap EXCEPT ![r.next] = obj]
  BY AllocType
<1> HIDE DEF s
<1>3. OneNew(r, s) BY <1>1, <1>2 DEF OneNew, SameObject
<1>4. QED BY <1>2, <1>3 DEF Plain, s

LEMMA UpdateModuleType ==
  ASSUME NEW r, NEW c \in ModId, NEW md \in Module, Good(r),
         md.intrinsic = r.mods[c].intrinsic, md.prev = r.mods[c].prev
  PROVE  LET s == [r EXCEPT !.mods = [@ EXCEPT ![c] = md]]
         IN  /\ Good(s) /\ s.heap = r.heap /\ s.next = r.next
             /\ CurrentModule(s) = CurrentModule(r)
<1> DEFINE s == [r EXCEPT !.mods = [@ EXCEPT ![c] = md]]
<1>1. s.mods \in [ModId -> Module] BY DEF Good, Registry
<1>2. s \in Registry BY <1>1 DEF Good, Registry
<1>3. \A m \in ModId : s.mods[m].intrinsic = r.mods[m].intrinsic
                         /\ s.mods[m].prev = r.mods[m].prev
  BY DEF Good, Registry
<1>4. 1..r.nmods \subseteq ModId BY BoundsAssumption DEF ModId, Good, ModsOK
<1>5. ModsOK(s) BY <1>3, <1>4 DEF Good, ModsOK, Registry
<1>6. QED BY <1>2, <1>5 DEF Good, Registry, CurrentModule

LEMMA AddSymbolType ==
  ASSUME NEW r, NEW k \in Tables, NEW name \in AllNames,
         NEW addr \in Ref, NEW type \in Ref, Good(r)
  PROVE  LET s == AddSymbol(r, k, name, addr, type)
         IN  /\ Good(s) /\ s.heap = r.heap /\ s.next = r.next
             /\ CurrentModule(s) = CurrentModule(r)
<1> DEFINE sym == [name |-> name, addr |-> addr, type |-> type]
           c == CurrentModule(r)
           md == [r.mods[c] EXCEPT !.tab[k] = @ \cup {sym}]
<1>1. c \in ModId BY CurrentModuleType
<1>2. sym \in Symbol BY DEF Symbol
<1>3. r.mods[c] \in Module BY <1>1 DEF Good, Registry
<1>4. md \in Module /\ md.intrinsic = r.mods[c].intrinsic /\ md.prev = r.mods[c].prev
  BY <1>2, <1>3 DEF Module
<1>5. AddSymbol(r, k, name, addr, type) = [r EXCEPT !.mods = [@ EXCEPT ![c] = md]]
   BY DEF AddSymbol
<1> HIDE DEF md, c
<1>6. QED BY <1>1, <1>4, <1>5, UpdateModuleType

LEMMA AddIntrinsicType ==
  ASSUME NEW r, NEW name \in AllNames, NEW addr \in Ref, Good(r)
  PROVE  LET s == AddIntrinsic(r, name, addr)
         IN  /\ Good(s) /\ s.heap = r.heap /\ s.next = r.next
             /\ CurrentModule(s) = CurrentModule(r)
<1> DEFINE sym == [name |-> name, addr |-> addr, type |-> 0]
           i == Cur(r).intrinsic
           tab == r.itab[i] \cup {sym}
<1>1. i \in ModId BY CurrentModuleType
<1>2. sym \in Symbol BY BoundsAssumption DEF Symbol, Ref
<1>3. AddIntrinsic(r, name, addr) = [r EXCEPT !.itab = [@ EXCEPT ![i] = tab]]
   BY DEF AddIntrinsic
<1>4. tab \in SUBSET Symbol BY <1>1, <1>2 DEF Good, Registry
<1> HIDE DEF tab, i
<1>5. QED BY <1>1, <1>3, <1>4 DEF Good, ModsOK, Registry, CurrentModule

(* A new object with a symbol for it, in the table of its kind.            *)
LEMMA AllocAddPlain ==
  ASSUME NEW r, NEW obj \in Object, Good(r), Room(r, 1),
         obj.kind \notin {"pointer", "array"}, obj.pointer_to = 0,
         NEW k \in Tables, NEW name \in AllNames, NEW addr \in Ref, NEW type \in Ref
  PROVE  LET s == AddSymbol(Alloc(r, obj), k, name, addr, type)
         IN  Plain(r, s) /\ OneNew(r, s)
<1> DEFINE u == Alloc(r, obj)
           s == AddSymbol(u, k, name, addr, type)
<1>1. Good(u) /\ OneNew(r, u) BY AllocPlain DEF Plain
<1> HIDE DEF u
<1>2. Good(s) /\ s.heap = u.heap /\ s.next = u.next BY <1>1, AddSymbolType
<1> HIDE DEF s
<1>3. OneNew(r, s) BY <1>1, <1>2 DEF OneNew, SameObject
<1>4. QED BY <1>2, <1>3 DEF Plain, s, u

(* One object updated in a field that the caches do not depend on.         *)
LEMMA UpdateObject ==
  ASSUME NEW r, NEW s, NEW t \in ObjId, NEW obj \in Object, Good(r), Good(s),
         s.next = r.next, s.heap = [r.heap EXCEPT ![t] = obj],
         obj.kind = r.heap[t].kind, obj.rtn = r.heap[t].rtn,
         obj.len = r.heap[t].len, obj.pointer_to = r.heap[t].pointer_to,
         obj.array0_of = r.heap[t].array0_of
  PROVE  SameHeap(r, s)
BY DEF SameHeap, SameObject, Good, Registry

(* Plain steps keep the caches canonical and what they remember.           *)
LEMMA PlainCanonical ==
  ASSUME NEW r, NEW s, Good(r), Plain(r, s), Canonical(r)
  PROVE  Canonical(s) /\ KeepsCaches(r, s)
<1>0. r.heap \in [ObjId -> Object] /\ s.heap \in [ObjId -> Object]
      /\ r.next \in Nat /\ s.next \in Nat
  BY BoundsAssumption DEF Good, Plain, Registry
<1>1. CASE SameHeap(r, s)
  BY <1>0, <1>1 DEF SameHeap, SameObject, Canonical, KeepsCaches, IsType, Live, TypesOf
<1>2. CASE OneNew(r, s)
  <2>1. \A t \in TypesOf(r) : t # r.next /\ SameObject(r, s, t)
    BY <1>0, <1>2 DEF OneNew, IsType, Live, TypesOf
  <2>2. \A i \in ObjId : s.heap[i].kind \in {"pointer", "array"} =>
          i # r.next /\ SameObject(r, s, i)
    BY <1>2 DEF OneNew
  <2>3. \A t : IsType(r, t) => IsType(s, t) /\ t \in TypesOf(r)
    BY <1>0, <1>2, <2>1 DEF OneNew, IsType, Live, TypesOf, SameObject, ObjId
  <2>4. \A i \in ObjId : i >= s.next => s.heap[i].kind = "free"
    BY <1>0, <1>2 DEF OneNew, Canonical, SameObject, ObjId
  <2>5. QED
    BY <2>1, <2>2, <2>3, <2>4 DEF Canonical, KeepsCaches, SameObject
<1>3. QED BY <1>1, <1>2 DEF Plain

-----------------------------------------------------------------------------
(* The operations.                                                         *)

LEMMA MModuleType ==
  ASSUME NEW r \in Registry, r.nmods < MaxMods,
         ModsOK(r) \/ (r.def = 0 /\ r.nmods = 0)
  PROVE  LET s == MModule(r)
         IN  /\ s \in Registry
             /\ s.nmods = r.nmods + 1 /\ s.nmods \in 1..MaxMods
             /\ s.heap = r.heap /\ s.next = r.next
             /\ s.def = r.def /\ s.cur = r.cur
             /\ \A m \in 1..s.nmods : s.mods[m].intrinsic \in 1..s.nmods
                                      /\ s.mods[m].prev \in 0..r.nmods
<1> DEFINE m == r.nmods + 1
           itab == IF r.def # 0 THEN r.mods[r.def].intrinsic ELSE m
           md == NewModule(0, itab)
<1>1. m \in ModId /\ m \in 1..MaxMods /\ r.nmods \in Nat
  BY BoundsAssumption DEF Registry, ModId
<1>2. itab \in 1..m
  BY <1>1 DEF ModsOK
<1> HIDE DEF itab
<1>3. md \in Module /\ md.intrinsic = itab /\ md.prev = 0
  BY <1>1, <1>2, BoundsAssumption DEF NewModule, Module, Ref
<1>4. MModule(r) = [r EXCEPT !.nmods = m, !.mods = [@ EXCEPT ![m] = md]]
  BY DEF MModule, itab
<1> HIDE DEF md, m
<1>5. \A j \in 1..m : j = m \/ j \in 1..r.nmods BY <1>1 DEF m
<1>6. \A j \in 1..r.nmods : j \in ModId /\ j # m BY <1>1, BoundsAssumption DEF m, ModId
<1>7. m > r.nmods BY <1>1 DEF m
<1> DEFINE s == [r EXCEPT !.nmods = m, !.mods = [@ EXCEPT ![m] = md]]
<1>8. r.mods \in [ModId -> Module] BY DEF Registry
<1>9. /\ s.nmods = m /\ s.mods = [r.mods EXCEPT ![m] = md] /\ s.heap = r.heap
      /\ s.next = r.next /\ s.def = r.def /\ s.cur = r.cur
  BY DEF Registry
<1>10. s \in Registry
  <2>1. s.mods \in [ModId -> Module] BY <1>3, <1>8, <1>9, ZenonT(30)
  <2>2. m \in 0..MaxMods BY <1>1
  <2> HIDE DEF m
  <2>3. QED BY <1>9, <2>1, <2>2 DEF Registry
<1>11. ASSUME NEW j \in 1..m
       PROVE  s.mods[j].intrinsic \in 1..m /\ s.mods[j].prev \in 0..r.nmods
  <2>1. CASE j = m BY <1>1, <1>2, <1>3, <1>8, <1>9, <2>1
  <2>2. CASE j \in 1..r.nmods
    <3>1. ModsOK(r) BY <1>1, <2>2
    <3>2. s.mods[j] = r.mods[j] BY <1>6, <1>8, <1>9, <2>2
    <3>3. r.mods[j].intrinsic \in 1..r.nmods /\ r.mods[j].prev \in 0..r.nmods
      BY <2>2, <3>1 DEF ModsOK
    <3>4. QED BY <1>1, <3>2, <3>3 DEF m
  <2>3. QED BY <1>5, <2>1, <2>2
<1>12. QED BY <1>1, <1>4, <1>9, <1>10, <1>11 DEF m

LEMMA CtxResetPlain ==
  ASSUME NEW r, Good(r), ModRoom(r)
  PROVE  Plain(r, CtxReset(r))
<1> DEFINE s == MModule(r)
<1>1. /\ s \in Registry /\ s.nmods \in 1..MaxMods /\ s.heap = r.heap /\ s.next = r.next
      /\ s.nmods = r.nmods + 1 /\ r.nmods \in Nat
      /\ \A m \in 1..s.nmods : s.mods[m].intrinsic \in 1..s.nmods
                               /\ s.mods[m].prev \in 0..r.nmods
  BY MModuleType DEF Good, ModRoom, ModsOK
<1> HIDE DEF s
<1> DEFINE u == [s EXCEPT !.def = s.nmods, !.cur = 0]
<1>2. /\ u \in Registry /\ u.def = s.nmods /\ u.cur = 0 /\ u.mods = s.mods
      /\ u.nmods = s.nmods /\ u.heap = s.heap /\ u.next = s.next
  <2>1. 0 \in 0..MaxMods /\ s.nmods \in 0..MaxMods BY <1>1, BoundsAssumption
  <2>2. QED BY <1>1, <2>1 DEF Registry
<1>3. u = CtxReset(r) BY DEF CtxReset, s
<1> HIDE DEF u
<1>4. Good(u)
  <2>1. \A m \in 1..u.nmods : u.mods[m].intrinsic \in 1..u.nmods
                               /\ u.mods[m].prev \in 0..u.nmods
    BY <1>1, <1>2
  <2>2. QED BY <1>1, <1>2, <2>1 DEF Good, ModsOK
<1>5. QED BY <1>1, <1>2, <1>3, <1>4 DEF Plain, SameHeap, SameObject

LEMMA ModuleBeginPlain ==
  ASSUME NEW r, Good(r), ModRoom(r)
  PROVE  Plain(r, ModuleBegin(r))
<1> DEFINE s == MModule(r)
<1>1. /\ s \in Registry /\ s.nmods \in 1..MaxMods /\ s.heap = r.heap /\ s.next = r.next
      /\ s.nmods = r.nmods + 1 /\ r.nmods \in Nat /\ s.def = r.def
      /\ \A m \in 1..s.nmods : s.mods[m].intrinsic \in 1..s.nmods
                               /\ s.mods[m].prev \in 0..r.nmods
  BY MModuleType DEF Good, ModRoom, ModsOK
<1> HIDE DEF s
<1>2. r.cur \in 0..r.nmods /\ r.def \in 1..r.nmods BY DEF Good, ModsOK
<1> DEFINE md == [s.mods[s.nmods] EXCEPT !.prev = r.cur]
<1>3. s.nmods \in ModId /\ s.mods[s.nmods] \in Module
  BY <1>1, BoundsAssumption DEF Registry, ModId
<1>4. md \in Module /\ md.intrinsic = s.mods[s.nmods].intrinsic /\ md.prev = r.cur
  BY <1>1, <1>2, <1>3, BoundsAssumption DEF Module
<1>5. ModuleBegin(r) = [s EXCEPT !.mods = [@ EXCEPT ![s.nmods] = md], !.cur = s.nmods]
  BY DEF ModuleBegin, s
<1> HIDE DEF md
<1>6. \A j \in 1..s.nmods : j \in ModId
  BY <1>1, BoundsAssumption DEF ModId
<1> DEFINE u == [s EXCEPT !.mods = [@ EXCEPT ![s.nmods] = md], !.cur = s.nmods]
<1>7. /\ u.def = s.def /\ u.cur = s.nmods /\ u.mods = [s.mods EXCEPT ![s.nmods] = md]
      /\ u.nmods = s.nmods /\ u.heap = s.heap /\ u.next = s.next
      /\ s.mods \in [ModId -> Module]
  BY <1>1 DEF Registry
<1>8. u \in Registry
  <2>1. u.mods \in [ModId -> Module] BY <1>4, <1>7, ZenonT(30)
  <2>2. QED BY <1>1, <1>7, <2>1 DEF Registry
<1> HIDE DEF u
<1>9. ASSUME NEW j \in 1..u.nmods
      PROVE  u.mods[j].intrinsic \in 1..u.nmods /\ u.mods[j].prev \in 0..u.nmods
  <2>1. CASE j = s.nmods BY <1>1, <1>2, <1>3, <1>4, <1>7, <2>1
  <2>2. CASE j # s.nmods
    <3>1. u.mods[j] = s.mods[j] BY <1>6, <1>7, <2>2
    <3>2. QED BY <1>1, <1>7, <3>1
  <2>3. QED BY <2>1, <2>2
<1>10. Good(u)
  BY <1>1, <1>2, <1>7, <1>8, <1>9 DEF Good, ModsOK
<1>11. u = ModuleBegin(r) BY <1>5 DEF u
<1>12. QED BY <1>1, <1>7, <1>10, <1>11 DEF Plain, SameHeap, SameObject

LEMMA ModuleEndPlain ==
  ASSUME NEW r, Good(r), r.cur # 0
  PROVE  Plain(r, ModuleEnd(r, r.cur))
<1>1. r.cur \in 1..r.nmods /\ r.mods[r.cur].prev \in 0..r.nmods
  BY DEF Good, ModsOK
<1>2. Good(ModuleEnd(r, r.cur))
  BY <1>1, BoundsAssumption DEF Good, ModsOK, Registry, ModuleEnd
<1>3. QED BY <1>2 DEF Plain, SameHeap, SameObject, ModuleEnd, Good, Registry

LEMMA SamePlain ==
  ASSUME NEW r, Good(r) PROVE Plain(r, r)
BY DEF Plain, SameHeap, SameObject

LEMMA HaltPlain ==
  ASSUME NEW r, NEW how \in {"abort", "segv"}, Good(r) PROVE Plain(r, Halt(r, how))
BY DEF Plain, SameHeap, SameObject, Halt, Good, ModsOK, Registry

LEMMA IntrinsicPlain ==
  ASSUME NEW r, NEW name \in Intrinsics, Good(r), Room(r, 1)
  PROVE  Plain(r, Intrinsic(r, name))
<1> DEFINE obj == NewObject("intrinsic", name, 0, 0, <<>>)
           u == Alloc(r, obj)
           v == AddIntrinsic(u, name, r.next)
           s == AddSymbol(v, "type", name, r.next, 0)
<1>1. CASE Found(IntrinsicTable(r), name)
  BY <1>1, SamePlain DEF Intrinsic
<1>2. CASE ~Found(IntrinsicTable(r), name)
  <2>1. obj \in Object /\ name \in AllNames /\ obj.kind = "intrinsic"
        /\ obj.pointer_to = 0
        /\ 0 \in Ref /\ "type" \in Tables
    BY EmptyObjectType, RefFacts DEF Kinds, TypeKinds, AllNames, Tables
  <2> HIDE DEF obj
  <2>2. Good(u) /\ OneNew(r, u) /\ r.next \in Ref
    BY <2>1, AllocPlain, AllocType DEF Plain
  <2> HIDE DEF u
  <2>3. Good(v) /\ v.heap = u.heap /\ v.next = u.next
    BY <2>1, <2>2, AddIntrinsicType
  <2> HIDE DEF v
  <2>4. Good(s) /\ s.heap = v.heap /\ s.next = v.next
    BY <2>1, <2>2, <2>3, AddSymbolType
  <2> HIDE DEF s
  <2>5. Plain(r, s)
    BY <2>2, <2>3, <2>4 DEF Plain, OneNew, SameObject
  <2>6. QED BY <1>2, <2>5 DEF Intrinsic, s, v, u, obj
<1>3. QED BY <1>1, <1>2

LEMMA TypedefPlain ==
  ASSUME NEW r, NEW name \in TypeNames, NEW t \in TypesOf(r), Good(r), Room(r, 1)
  PROVE  Plain(r, Typedef(r, name, t))
<1> DEFINE obj == NewObject("typedef", name, t, 0, <<>>)
<1>0. name \in AllNames /\ t \in Ref /\ "type" \in Tables /\ r.next \in Ref
  BY RefFacts, BoundsAssumption DEF AllNames, Tables, Good, Registry, Room, Ref
<1>1. obj \in Object /\ obj.kind = "typedef" /\ obj.pointer_to = 0
  <2>1. "typedef" \in Kinds /\ 0 \in Int BY DEF Kinds
  <2>2. QED BY <1>0, <2>1, EmptyObjectType
<1> HIDE DEF obj
<1>2. Plain(r, AddSymbol(Alloc(r, obj), "type", name, r.next, t))
  BY <1>0, <1>1, AllocAddPlain
<1>3. Plain(r, Halt(r, "abort")) /\ Plain(r, r)
  BY HaltPlain, SamePlain
<1>4. QED BY <1>2, <1>3 DEF Typedef, obj

LEMMA GlobalPlain ==
  ASSUME NEW r, NEW name \in GlobalNames, NEW t \in TypesOf(r), Good(r)
  PROVE  Plain(r, Global(r, name, t))
<1>1. name \in AllNames /\ 0 \in Ref /\ t \in Ref /\ "global" \in Tables
  BY BoundsAssumption DEF AllNames, Ref, Tables, TypesOf, ObjId
<1>2. QED BY <1>1, AddSymbolType DEF Global, Plain, SameHeap, SameObject

LEMMA BitfieldPlain ==
  ASSUME NEW r, NEW t \in TypesOf(r), Good(r), Room(r, 1)
  PROVE  Plain(r, Bitfield(r, t))
<1> DEFINE obj == NewObject("bitfield", NoName, t, 0, <<>>)
<1>1. obj \in Object /\ obj.kind = "bitfield" /\ obj.pointer_to = 0
  BY EmptyObjectType, RefFacts DEF Kinds, TypeKinds, AllNames
<1> HIDE DEF obj
<1>2. QED BY <1>1, AllocPlain DEF Bitfield, obj

LEMMA PlaceholderPlain ==
  ASSUME NEW r, Good(r), Room(r, 1)
  PROVE  Plain(r, Placeholder(r, NoName))
<1> DEFINE obj == NewObject("placeholder", NoName, 0, 0, <<>>)
<1>1. obj \in Object /\ obj.kind = "placeholder" /\ obj.pointer_to = 0
  BY EmptyObjectType, RefFacts DEF Kinds, TypeKinds, AllNames
<1> HIDE DEF obj
<1>2. QED BY <1>1, AllocPlain DEF Placeholder, obj

LEMMA FuncPlain ==
  ASSUME NEW r, NEW t \in TypesOf(r), NEW n \in 0..1,
         NEW params \in [1..n -> TypesOf(r)], Good(r), Room(r, 1)
  PROVE  Plain(r, Func(r, t, params))
<1> DEFINE elems == [i \in DOMAIN params |-> [name |-> NoName, type |-> params[i], val |-> 0]]
           obj == NewObject("function", NoName, t, 0, elems)
<1>1. elems \in [1..n -> Elem]
  BY DEF Elem, AllNames, Ref, TypesOf, ObjId
<1>2. elems \in Seq(Elem) BY <1>1
<1> HIDE DEF elems
<1>3. obj \in Object
  <2>1. "function" \in Kinds /\ NoName \in AllNames /\ t \in Ref /\ 0 \in Int
    BY RefFacts DEF Kinds, TypeKinds, AllNames
  <2>2. QED BY <1>2, <2>1, NewObjectType
<1>4. obj.kind = "function" /\ obj.pointer_to = 0 BY DEF NewObject
<1> HIDE DEF obj
<1>5. QED BY <1>3, <1>4, AllocPlain DEF Func, elems, obj

(* An object updated in fields the caches do not depend on; a store through *)
(* a NULL reference is not one of the heap's.                              *)
LEMMA TouchObject ==
  ASSUME NEW r, NEW t \in Ref, NEW obj, Good(r),
         t \in ObjId =>
           /\ obj \in Object /\ obj.kind = r.heap[t].kind /\ obj.rtn = r.heap[t].rtn
           /\ obj.len = r.heap[t].len /\ obj.pointer_to = r.heap[t].pointer_to
           /\ obj.array0_of = r.heap[t].array0_of
  PROVE  LET s == [r EXCEPT !.heap = [@ EXCEPT ![t] = obj]]
         IN  /\ Good(s) /\ SameHeap(r, s) /\ s.mods = r.mods
             /\ CurrentModule(s) = CurrentModule(r)
<1> DEFINE s == [r EXCEPT !.heap = [@ EXCEPT ![t] = obj]]
<1>1. /\ r.heap \in [ObjId -> Object] /\ s.heap = [r.heap EXCEPT ![t] = obj]
      /\ s.next = r.next /\ s.mods = r.mods /\ s.nmods = r.nmods
      /\ s.cur = r.cur /\ s.def = r.def
  BY DEF Good, Registry
<1>2. s.heap \in [ObjId -> Object]
  <2>1. CASE t \in ObjId BY <1>1, <2>1
  <2>2. CASE t \notin ObjId
    <3>1. s.heap = r.heap BY <1>1, <2>2
    <3>2. QED BY <1>1, <3>1
  <2>3. QED BY <2>1, <2>2
<1>3. s \in Registry BY <1>2 DEF Good, Registry
<1>4. SameHeap(r, s) BY <1>1 DEF SameHeap, SameObject
<1>5. QED BY <1>1, <1>3, <1>4 DEF Good, ModsOK, CurrentModule

LEMMA PlainThenSame ==
  ASSUME NEW r, NEW s, NEW u, Plain(r, s), SameHeap(s, u), Good(u)
  PROVE  Plain(r, u)
BY DEF Plain, SameHeap, OneNew, SameObject

(* current_struct or current_enum of the current module set to a reference. *)
LEMMA SetStructType ==
  ASSUME NEW r, Good(r), NEW ref \in Ref
  PROVE  LET s == [r EXCEPT !.mods[CurrentModule(r)].current_struct = ref]
         IN  Good(s) /\ SameHeap(r, s)
<1> DEFINE c == CurrentModule(r)
           md == [r.mods[c] EXCEPT !.current_struct = ref]
<1>1. c \in ModId /\ r.mods[c] \in Module BY CurrentModuleType DEF Good, Registry
<1>2. md \in Module /\ md.intrinsic = r.mods[c].intrinsic /\ md.prev = r.mods[c].prev
  BY <1>1 DEF Module
<1>3. [r EXCEPT !.mods[CurrentModule(r)].current_struct = ref]
        = [r EXCEPT !.mods = [@ EXCEPT ![c] = md]]
  OBVIOUS
<1> HIDE DEF md, c
<1>4. QED BY <1>1, <1>2, <1>3, UpdateModuleType DEF SameHeap, SameObject

LEMMA SetEnumType ==
  ASSUME NEW r, Good(r), NEW ref \in Ref
  PROVE  LET s == [r EXCEPT !.mods[CurrentModule(r)].current_enum = ref]
         IN  Good(s) /\ SameHeap(r, s)
<1> DEFINE c == CurrentModule(r)
           md == [r.mods[c] EXCEPT !.current_enum = ref]
<1>1. c \in ModId /\ r.mods[c] \in Module BY CurrentModuleType DEF Good, Registry
<1>2. md \in Module /\ md.intrinsic = r.mods[c].intrinsic /\ md.prev = r.mods[c].prev
  BY <1>1 DEF Module
<1>3. [r EXCEPT !.mods[CurrentModule(r)].current_enum = ref]
        = [r EXCEPT !.mods = [@ EXCEPT ![c] = md]]
  OBVIOUS
<1> HIDE DEF md, c
<1>4. QED BY <1>1, <1>2, <1>3, UpdateModuleType DEF SameHeap, SameObject

LEMMA StructForwardPlain ==
  ASSUME NEW r, NEW su \in {"struct", "union"}, NEW name \in Tags \cup {NoName},
         Good(r), Room(r, 1)
  PROVE  LET s == StructForward(r, su, name)
         IN  /\ Plain(r, s) /\ Good(s) /\ CurrentModule(s) = CurrentModule(r)
             /\ StructRef(r, su, name) \in Ref
<1> DEFINE obj == NewObject(su, name, 0, 0, <<>>)
<1>1. su \in Kinds /\ name \in AllNames /\ su \in Tables /\ 0 \in Ref /\ 0 \in Int
      /\ su \notin {"pointer", "array"}
  BY RefFacts DEF Kinds, TypeKinds, AllNames, Tables
<1>2. obj \in Object /\ obj.kind = su /\ obj.pointer_to = 0 BY <1>1, EmptyObjectType
<1> HIDE DEF obj
<1>3. r.next \in Ref /\ Plain(r, Alloc(r, obj)) /\ Good(Alloc(r, obj))
      /\ CurrentModule(Alloc(r, obj)) = CurrentModule(r)
  BY <1>1, <1>2, AllocPlain, AllocType
<1>4. /\ Plain(r, AddSymbol(Alloc(r, obj), su, name, r.next, 0))
      /\ CurrentModule(AddSymbol(Alloc(r, obj), su, name, r.next, 0)) = CurrentModule(r)
  BY <1>1, <1>2, <1>3, AllocAddPlain, AddSymbolType
<1>5. Plain(r, r) BY SamePlain
<1>6. StructRef(r, su, name) \in Ref
  <2>1. Cur(r).tab[su] \in SUBSET Symbol BY <1>1, CurrentModuleType DEF Module
  <2>2. StructKnown(r, su, name) => Lookup(Cur(r).tab[su], name) \in Symbol
    BY <2>1, LookupType DEF StructKnown
  <2>3. QED BY <1>3, <2>2 DEF StructRef, Symbol
<1>7. QED BY <1>3, <1>4, <1>5, <1>6 DEF StructForward, Plain, obj

LEMMA StructPlain ==
  ASSUME NEW r, NEW su \in {"struct", "union"}, NEW name \in Tags \cup {NoName},
         Good(r), Room(r, 1)
  PROVE  Plain(r, Struct(r, su, name))
<1> DEFINE s  == StructForward(r, su, name)
           st == StructRef(r, su, name)
           cs == Cur(r).current_struct
           c  == CurrentModule(r)
           obj == [s.heap[st] EXCEPT !.scope = cs, !.prev = cs]
           v == [s EXCEPT !.heap = [@ EXCEPT ![st] = obj]]
           u == [v EXCEPT !.mods[c].current_struct = st]
<1>1. Plain(r, s) /\ Good(s) /\ st \in Ref /\ CurrentModule(s) = c
  BY StructForwardPlain
<1>2. cs \in Ref BY CurrentModuleType DEF Module
<1>3. Struct(r, su, name) = u BY DEF Struct
<1> HIDE DEF s, st, cs, c
<1>4. st \in ObjId =>
        /\ obj \in Object /\ obj.kind = s.heap[st].kind /\ obj.rtn = s.heap[st].rtn
        /\ obj.len = s.heap[st].len /\ obj.pointer_to = s.heap[st].pointer_to
        /\ obj.array0_of = s.heap[st].array0_of
  BY <1>1, <1>2, ZenonT(30) DEF Good, Registry, Object
<1> HIDE DEF obj
<1>5. Good(v) /\ SameHeap(s, v) /\ CurrentModule(v) = c
  BY <1>1, <1>4, TouchObject
<1> HIDE DEF v
<1>6. Good(u) /\ SameHeap(v, u)
  BY <1>1, <1>5, SetStructType
<1> HIDE DEF u
<1>7. Plain(r, v) BY <1>1, <1>5, PlainThenSame
<1>8. Plain(r, u) BY <1>6, <1>7, PlainThenSame
<1>9. QED BY <1>3, <1>8

LEMMA AppendElemPlain ==
  ASSUME NEW r, NEW t \in Ref, NEW name \in AllNames, NEW type \in Ref, NEW val \in Int,
         Good(r)
  PROVE  Plain(r, AppendElem(r, t, name, type, val))
<1> DEFINE e == [name |-> name, type |-> type, val |-> val]
           obj == [r.heap[t] EXCEPT !.elems = Append(@, e)]
<1>1. AppendElem(r, t, name, type, val) = [r EXCEPT !.heap = [@ EXCEPT ![t] = obj]]
  BY DEF AppendElem
<1>2. e \in Elem BY DEF Elem
<1> HIDE DEF e
<1>3. t \in ObjId =>
        /\ obj \in Object /\ obj.kind = r.heap[t].kind /\ obj.rtn = r.heap[t].rtn
        /\ obj.len = r.heap[t].len /\ obj.pointer_to = r.heap[t].pointer_to
        /\ obj.array0_of = r.heap[t].array0_of
  <2> SUFFICES ASSUME t \in ObjId PROVE /\ obj \in Object /\ obj.kind = r.heap[t].kind
        /\ obj.rtn = r.heap[t].rtn /\ obj.len = r.heap[t].len
        /\ obj.pointer_to = r.heap[t].pointer_to /\ obj.array0_of = r.heap[t].array0_of
    OBVIOUS
  <2>1. r.heap[t] \in Object BY DEF Good, Registry
  <2>2. Append(r.heap[t].elems, e) \in Seq(Elem) BY <1>2, <2>1 DEF Object
  <2>3. QED BY <2>1, <2>2 DEF Object
<1> HIDE DEF obj
<1>4. QED BY <1>1, <1>3, TouchObject DEF Plain

LEMMA StructElemPlain ==
  ASSUME NEW r, NEW st \in Ref, NEW name \in ElemNames, NEW t \in TypesOf(r), Good(r)
  PROVE  Plain(r, StructElem(r, st, name, t))
<1>1. name \in AllNames /\ t \in Ref /\ 0 \in Int BY RefFacts DEF AllNames
<1>2. QED BY <1>1, AppendElemPlain DEF StructElem

LEMMA StructEndPlain ==
  ASSUME NEW r, NEW st \in ObjId, Good(r)
  PROVE  Plain(r, StructEnd(r, st))
<1>1. r.heap[st].prev \in Ref BY DEF Good, Registry, Object
<1>2. QED BY <1>1, SetStructType DEF StructEnd, Plain

LEMMA EnumForwardPlain ==
  ASSUME NEW r, NEW name \in Tags \cup {NoName}, Good(r), Room(r, 1)
  PROVE  LET s == EnumForward(r, name)
         IN  /\ Plain(r, s) /\ Good(s) /\ CurrentModule(s) = CurrentModule(r)
             /\ EnumRef(r, name) \in Ref
<1> DEFINE obj == NewObject("enum", name, 0, 0, <<>>)
<1>1. "enum" \in Kinds /\ name \in AllNames /\ "enum" \in Tables /\ 0 \in Ref /\ 0 \in Int
  BY RefFacts DEF Kinds, TypeKinds, AllNames, Tables
<1>2. obj \in Object /\ obj.kind = "enum" /\ obj.pointer_to = 0 BY <1>1, EmptyObjectType
<1> HIDE DEF obj
<1>3. r.next \in Ref /\ Plain(r, Alloc(r, obj)) /\ Good(Alloc(r, obj))
      /\ CurrentModule(Alloc(r, obj)) = CurrentModule(r)
  BY <1>1, <1>2, AllocPlain, AllocType
<1>4. /\ Plain(r, AddSymbol(Alloc(r, obj), "enum", name, 0, r.next))
      /\ CurrentModule(AddSymbol(Alloc(r, obj), "enum", name, 0, r.next)) = CurrentModule(r)
  BY <1>1, <1>2, <1>3, AllocAddPlain, AddSymbolType
<1>5. Plain(r, r) BY SamePlain
<1>6. EnumRef(r, name) \in Ref
  <2>1. Cur(r).tab["enum"] \in SUBSET Symbol BY <1>1, CurrentModuleType DEF Module
  <2>2. EnumKnown(r, name) => Lookup(Cur(r).tab["enum"], name) \in Symbol
    BY <2>1, LookupType DEF EnumKnown
  <2>3. QED BY <1>3, <2>2 DEF EnumRef, Symbol
<1>7. QED BY <1>3, <1>4, <1>5, <1>6 DEF EnumForward, Plain, obj

LEMMA EnumPlain ==
  ASSUME NEW r, NEW name \in Tags \cup {NoName}, Good(r), Room(r, 1)
  PROVE  Plain(r, Enum(r, name))
<1> DEFINE s  == EnumForward(r, name)
           et == EnumRef(r, name)
           c  == CurrentModule(r)
           ce == r.mods[c].current_enum
           cs == r.mods[c].current_struct
           obj == [s.heap[et] EXCEPT !.prev = ce, !.scope = cs]
           v == [s EXCEPT !.heap = [@ EXCEPT ![et] = obj]]
           u == [v EXCEPT !.mods[c].current_enum = et]
<1>1. Plain(r, s) /\ Good(s) /\ et \in Ref /\ CurrentModule(s) = c
  BY EnumForwardPlain
<1>2. ce \in Ref /\ cs \in Ref BY CurrentModuleType DEF Module, Cur
<1>3. Enum(r, name) = IF et = 0 THEN Halt(r, "segv") ELSE u BY DEF Enum
<1> HIDE DEF s, et, ce, cs, c
<1>4. et \in ObjId =>
        /\ obj \in Object /\ obj.kind = s.heap[et].kind /\ obj.rtn = s.heap[et].rtn
        /\ obj.len = s.heap[et].len /\ obj.pointer_to = s.heap[et].pointer_to
        /\ obj.array0_of = s.heap[et].array0_of
  BY <1>1, <1>2, ZenonT(30) DEF Good, Registry, Object
<1> HIDE DEF obj
<1>5. Good(v) /\ SameHeap(s, v) /\ CurrentModule(v) = c
  BY <1>1, <1>4, TouchObject
<1> HIDE DEF v
<1>6. Good(u) /\ SameHeap(v, u)
  BY <1>1, <1>5, SetEnumType
<1> HIDE DEF u
<1>7. Plain(r, v) BY <1>1, <1>5, PlainThenSame
<1>8. Plain(r, u) BY <1>6, <1>7, PlainThenSame
<1>9. QED BY <1>3, <1>8, HaltPlain

LEMMA EnumElemPlain ==
  ASSUME NEW r, NEW et \in ObjId, NEW name \in ElemNames, NEW explicit \in BOOLEAN,
         Good(r)
  PROVE  Plain(r, EnumElem(r, et, name, explicit, 0))
<1> DEFINE val == EnumVal(r, et, explicit, 0)
           s == AppendElem(r, et, name, et, val)
           obj == [s.heap[et] EXCEPT !.last = val]
           u == [s EXCEPT !.heap = [@ EXCEPT ![et] = obj]]
<1>1. r.heap[et].last \in Int BY DEF Good, Registry, Object
<1>2. val \in Int BY <1>1 DEF EnumVal
<1> HIDE DEF val
<1>3. name \in AllNames /\ et \in Ref BY BoundsAssumption DEF AllNames, ObjId, Ref
<1>4. Plain(r, s) /\ Good(s) BY <1>2, <1>3, AppendElemPlain DEF Plain
<1>5. EnumElem(r, et, name, explicit, 0) = u BY DEF EnumElem, val
<1> HIDE DEF s
<1>6. /\ obj \in Object /\ obj.kind = s.heap[et].kind /\ obj.rtn = s.heap[et].rtn
      /\ obj.len = s.heap[et].len /\ obj.pointer_to = s.heap[et].pointer_to
      /\ obj.array0_of = s.heap[et].array0_of
  BY <1>2, <1>4, ZenonT(30) DEF Good, Registry, Object
<1> HIDE DEF obj
<1>7. Good(u) /\ SameHeap(s, u) BY <1>3, <1>4, <1>6, TouchObject
<1> HIDE DEF u
<1>8. QED BY <1>4, <1>5, <1>7, PlainThenSame

LEMMA EnumEndPlain ==
  ASSUME NEW r, NEW et \in ObjId, Good(r)
  PROVE  Plain(r, EnumEnd(r, et))
<1>1. r.heap[et].prev \in Ref BY DEF Good, Registry, Object
<1>2. QED BY <1>1, SetEnumType DEF EnumEnd, Plain

-----------------------------------------------------------------------------
(* The two operations that keep caches.                                    *)

(* What ggrt_pointer does when it makes a type: one new pointer to t, which *)
(* t remembers unless it is a placeholder.                                 *)
MadePointer(r, s, t) ==
  /\ r.next \in ObjId /\ s.next = r.next + 1
  /\ s.heap[r.next].kind = "pointer" /\ s.heap[r.next].rtn = t
  /\ s.heap[r.next].pointer_to = 0
  /\ \A i \in ObjId \ {r.next, t} : SameObject(r, s, i)
  /\ s.heap[t].kind = r.heap[t].kind /\ s.heap[t].rtn = r.heap[t].rtn
  /\ s.heap[t].len = r.heap[t].len /\ s.heap[t].array0_of = r.heap[t].array0_of
  /\ r.heap[t].pointer_to = 0
  /\ \/ s.heap[t].pointer_to = r.next
     \/ r.heap[t].kind = "placeholder" /\ s.heap[t].pointer_to = 0

LEMMA PointerEffect ==
  ASSUME NEW r, Good(r), NEW t \in TypesOf(r), Room(r, 1), r.heap[t].pointer_to = 0
  PROVE  Good(Pointer(r, t)) /\ MadePointer(r, Pointer(r, t), t)
<1> DEFINE obj == NewObject("pointer", NoName, t, 0, <<>>)
           s == Alloc(r, obj)
           u == [s EXCEPT !.heap[t].pointer_to = r.next]
<1>1. "pointer" \in Kinds /\ NoName \in AllNames /\ t \in Ref /\ 0 \in Int /\ t \in ObjId
  BY RefFacts DEF Kinds, TypeKinds, AllNames
<1>2. obj \in Object /\ obj.kind = "pointer" /\ obj.rtn = t /\ obj.pointer_to = 0
  BY <1>1, EmptyObjectType
<1> HIDE DEF obj
<1>3. /\ Good(s) /\ r.next \in ObjId /\ r.next \in Ref /\ s.next = r.next + 1
      /\ s.heap = [r.heap EXCEPT ![r.next] = obj]
  BY <1>2, AllocType
<1>4. t # r.next BY DEF TypesOf, IsType, Live, Good, Registry, ObjId
<1>5. r.heap \in [ObjId -> Object] /\ s.heap \in [ObjId -> Object]
  BY <1>3 DEF Good, Registry
<1> HIDE DEF s
<1>6. CASE r.heap[t].kind = "placeholder"
  <2>1. Pointer(r, t) = s BY <1>6 DEF Pointer, s, obj
  <2>2. QED BY <1>1, <1>2, <1>3, <1>4, <1>5, <1>6, <2>1 DEF MadePointer, SameObject
<1>7. CASE r.heap[t].kind # "placeholder"
  <2>1. Pointer(r, t) = u BY <1>7 DEF Pointer, s, obj
  <2> DEFINE tob == [s.heap[t] EXCEPT !.pointer_to = r.next]
  <2>2. tob \in Object /\ tob.kind = s.heap[t].kind /\ tob.rtn = s.heap[t].rtn
        /\ tob.len = s.heap[t].len /\ tob.array0_of = s.heap[t].array0_of
        /\ tob.pointer_to = r.next
    <3>1. s.heap[t] \in Object BY <1>1, <1>5
    <3>2. QED BY <1>3, <3>1 DEF Object
  <2>3. u = [s EXCEPT !.heap = [@ EXCEPT ![t] = tob]] OBVIOUS
  <2> HIDE DEF tob
  <2>4. /\ u.heap = [s.heap EXCEPT ![t] = tob] /\ u.next = s.next /\ u.mods = s.mods
        /\ u.nmods = s.nmods /\ u.cur = s.cur /\ u.def = s.def /\ u \in Registry
    BY <1>1, <1>3, <2>2, <2>3 DEF Good, Registry
  <2> HIDE DEF u
  <2>5. Good(u) BY <1>3, <2>4 DEF Good, ModsOK
  <2>6. MadePointer(r, u, t)
    BY <1>1, <1>2, <1>3, <1>4, <1>5, <2>2, <2>4 DEF MadePointer, SameObject
  <2>7. QED BY <2>1, <2>5, <2>6
<1>8. QED BY <1>6, <1>7

LEMMA MadePointerCanonical ==
  ASSUME NEW r, NEW s, NEW t \in TypesOf(r), Good(r), Good(s), Canonical(r),
         MadePointer(r, s, t)
  PROVE  /\ Canonical(s) /\ KeepsCaches(r, s)
         /\ \A i : IsType(r, i) => IsType(s, i)
<1>0. /\ r.heap \in [ObjId -> Object] /\ s.heap \in [ObjId -> Object]
      /\ r.next \in Nat /\ s.next \in Nat /\ t \in ObjId /\ t < r.next
      /\ ObjId \subseteq Nat
  BY BoundsAssumption DEF Good, Registry, TypesOf, IsType, Live, ObjId
<1>1. \A i : IsType(r, i) => IsType(s, i) /\ i # r.next /\ i \in ObjId
                             /\ s.heap[i].kind = r.heap[i].kind
  BY <1>0 DEF MadePointer, IsType, Live, SameObject
<1>2. KeepsCaches(r, s)
  BY <1>0, <1>1 DEF MadePointer, KeepsCaches, TypesOf, SameObject
<1>3. \A i \in ObjId : i >= s.next => s.heap[i].kind = "free"
  BY <1>0 DEF MadePointer, Canonical, SameObject
<1>4. \A i \in ObjId : i # r.next => s.heap[i].kind = r.heap[i].kind
        /\ s.heap[i].rtn = r.heap[i].rtn /\ s.heap[i].len = r.heap[i].len
        /\ s.heap[i].array0_of = r.heap[i].array0_of
        /\ (i # t => s.heap[i].pointer_to = r.heap[i].pointer_to)
  BY <1>0 DEF MadePointer, SameObject
<1>5. s.heap[r.next].kind = "pointer" /\ s.heap[r.next].rtn = t /\ r.next \in ObjId
  BY DEF MadePointer
<1>6. \A i \in ObjId : s.heap[i].kind \in {"pointer", "array"} => IsType(s, s.heap[i].rtn)
  BY <1>1, <1>4, <1>5 DEF Canonical, TypesOf
<1>7. ASSUME NEW p \in ObjId, s.heap[p].kind = "pointer"
      PROVE  \/ s.heap[s.heap[p].rtn].kind = "placeholder"
             \/ s.heap[s.heap[p].rtn].pointer_to = p
  <2>1. CASE p = r.next
    BY <1>0, <1>5, <2>1 DEF MadePointer
  <2>2. CASE p # r.next
    <3>1. r.heap[p].kind = "pointer" /\ s.heap[p].rtn = r.heap[p].rtn
      BY <1>4, <1>7, <2>2
    <3>2. IsType(r, r.heap[p].rtn) BY <3>1 DEF Canonical
    <3>3. r.heap[r.heap[p].rtn].kind = "placeholder" \/ r.heap[r.heap[p].rtn].pointer_to = p
      BY <3>1 DEF Canonical
    <3>4. CASE r.heap[p].rtn = t
      BY <1>0, <1>1, <1>4, <3>1, <3>2, <3>3, <3>4 DEF MadePointer, ObjId
    <3>5. CASE r.heap[p].rtn # t
      BY <1>1, <1>4, <3>1, <3>2, <3>3, <3>5
    <3>6. QED BY <3>4, <3>5
  <2>3. QED BY <2>1, <2>2
<1>8. ASSUME NEW a \in ObjId, s.heap[a].kind = "array", IsOpenLen(s.heap[a].len)
      PROVE  \/ s.heap[s.heap[a].rtn].kind = "placeholder"
             \/ s.heap[s.heap[a].rtn].array0_of = a
  <2>1. a # r.next BY <1>5, <1>8
  <2>2. r.heap[a].kind = "array" /\ IsOpenLen(r.heap[a].len)
        /\ s.heap[a].rtn = r.heap[a].rtn
    BY <1>4, <1>8, <2>1
  <2>3. IsType(r, r.heap[a].rtn) BY <2>2 DEF Canonical
  <2>4. QED BY <1>1, <1>4, <2>2, <2>3 DEF Canonical
<1>9. QED BY <1>1, <1>2, <1>3, <1>6, <1>7, <1>8 DEF Canonical

LEMMA PointerCanonical ==
  ASSUME NEW r, Good(r), Canonical(r), NEW t \in TypesOf(r), Room(r, 1)
  PROVE  Good(Pointer(r, t)) /\ Canonical(Pointer(r, t)) /\ KeepsCaches(r, Pointer(r, t))
<1>1. CASE r.heap[t].pointer_to # 0
  BY <1>1 DEF Pointer, KeepsCaches
<1>2. CASE r.heap[t].pointer_to = 0
  BY <1>2, PointerEffect, MadePointerCanonical
<1>3. QED BY <1>1, <1>2

(* The new array type of ggrt_array, before it learns its own pointer type. *)
NewArray(r, t, len) ==
  LET s == Alloc(r, NewObject("array", NoName, t, len, <<>>))
  IN  IF r.heap[t].kind # "placeholder" /\ IsOpenLen(len)
      THEN [s EXCEPT !.heap[t].array0_of = r.next] ELSE s

LEMMA NewArrayEffect ==
  ASSUME NEW r, Good(r), NEW t \in TypesOf(r), NEW len \in Int, Room(r, 1)
  PROVE  LET u == NewArray(r, t, len)
         IN  /\ Good(u) /\ r.next \in ObjId /\ r.next \in Ref /\ u.next = r.next + 1
             /\ u.heap[r.next].kind = "array" /\ u.heap[r.next].rtn = t
             /\ u.heap[r.next].len = len
             /\ \A i \in ObjId \ {r.next, t} : SameObject(r, u, i)
             /\ u.heap[t].kind = r.heap[t].kind /\ u.heap[t].rtn = r.heap[t].rtn
             /\ u.heap[t].len = r.heap[t].len
             /\ u.heap[t].pointer_to = r.heap[t].pointer_to
             /\ u.heap[t].array0_of =
                  IF r.heap[t].kind # "placeholder" /\ IsOpenLen(len)
                  THEN r.next ELSE r.heap[t].array0_of
<1> DEFINE obj == NewObject("array", NoName, t, len, <<>>)
           s == Alloc(r, obj)
           u == [s EXCEPT !.heap[t].array0_of = r.next]
<1>1. "array" \in Kinds /\ NoName \in AllNames /\ t \in Ref /\ t \in ObjId
  BY RefFacts DEF Kinds, TypeKinds, AllNames
<1>2. obj \in Object /\ obj.kind = "array" /\ obj.rtn = t /\ obj.len = len
  BY <1>1, EmptyObjectType
<1>a. NewArray(r, t, len) = IF r.heap[t].kind # "placeholder" /\ IsOpenLen(len)
                            THEN u ELSE s
  BY DEF NewArray
<1> HIDE DEF obj
<1>3. /\ Good(s) /\ r.next \in ObjId /\ r.next \in Ref /\ s.next = r.next + 1
      /\ s.heap = [r.heap EXCEPT ![r.next] = obj]
  BY <1>2, AllocType
<1>4. t # r.next BY DEF TypesOf, IsType, Live, Good, Registry, ObjId
<1>5. r.heap \in [ObjId -> Object] /\ s.heap \in [ObjId -> Object]
  BY <1>3 DEF Good, Registry
<1> HIDE DEF s
<1> DEFINE tob == [s.heap[t] EXCEPT !.array0_of = r.next]
<1>6. tob \in Object /\ tob.kind = s.heap[t].kind /\ tob.rtn = s.heap[t].rtn
      /\ tob.len = s.heap[t].len /\ tob.pointer_to = s.heap[t].pointer_to
      /\ tob.array0_of = r.next
  <2>1. s.heap[t] \in Object BY <1>1, <1>5
  <2>2. QED BY <1>3, <2>1 DEF Object
<1>7. u = [s EXCEPT !.heap = [@ EXCEPT ![t] = tob]] OBVIOUS
<1> HIDE DEF tob
<1>8. /\ u.heap = [s.heap EXCEPT ![t] = tob] /\ u.next = s.next /\ u.mods = s.mods
      /\ u.nmods = s.nmods /\ u.cur = s.cur /\ u.def = s.def /\ u \in Registry
  BY <1>1, <1>3, <1>6, <1>7 DEF Good, Registry
<1> HIDE DEF u
<1>9. Good(u) BY <1>3, <1>8 DEF Good, ModsOK
<1>10. CASE r.heap[t].kind # "placeholder" /\ IsOpenLen(len)
  <2>1. NewArray(r, t, len) = u BY <1>10, <1>a
  <2>2. QED BY <1>1, <1>2, <1>3, <1>4, <1>5, <1>6, <1>8, <1>9, <1>10, <2>1 DEF SameObject
<1>11. CASE ~(r.heap[t].kind # "placeholder" /\ IsOpenLen(len))
  <2>1. NewArray(r, t, len) = s BY <1>11, <1>a
  <2>2. QED BY <1>1, <1>2, <1>3, <1>4, <1>5, <1>11, <2>1 DEF SameObject
<1>12. QED BY <1>10, <1>11

NoPointerTo(r, a) == \A p \in ObjId : r.heap[p].kind = "pointer" => r.heap[p].rtn # a

LEMMA NewArrayCanonical ==
  ASSUME NEW r, Good(r), Canonical(r), NEW t \in TypesOf(r), NEW len \in Int,
         Room(r, 1), ~ArrayCached(r, t, len)
  PROVE  LET u == NewArray(r, t, len)
         IN  /\ Canonical(u) /\ KeepsCaches(r, u) /\ NoPointerTo(u, r.next)
             /\ \A i : IsType(r, i) => IsType(u, i) /\ i # r.next
<1> DEFINE u == NewArray(r, t, len)
<1>1. /\ Good(u) /\ r.next \in ObjId /\ u.next = r.next + 1
      /\ u.heap[r.next].kind = "array" /\ u.heap[r.next].rtn = t
      /\ u.heap[r.next].len = len
      /\ \A i \in ObjId \ {r.next, t} : SameObject(r, u, i)
      /\ u.heap[t].kind = r.heap[t].kind /\ u.heap[t].rtn = r.heap[t].rtn
      /\ u.heap[t].len = r.heap[t].len
      /\ u.heap[t].pointer_to = r.heap[t].pointer_to
      /\ u.heap[t].array0_of =
           IF r.heap[t].kind # "placeholder" /\ IsOpenLen(len)
           THEN r.next ELSE r.heap[t].array0_of
  BY NewArrayEffect
<1> HIDE DEF u
<1>2. /\ r.next \in Nat /\ t \in ObjId /\ t < r.next /\ ObjId \subseteq Nat
  BY BoundsAssumption DEF Good, Registry, TypesOf, IsType, Live, ObjId
<1>3. \A i : IsType(r, i) => IsType(u, i) /\ i # r.next /\ i \in ObjId
                             /\ u.heap[i].kind = r.heap[i].kind
  <2> SUFFICES ASSUME NEW i, IsType(r, i)
               PROVE  IsType(u, i) /\ i # r.next /\ i \in ObjId
                      /\ u.heap[i].kind = r.heap[i].kind
    OBVIOUS
  <2>1. i \in ObjId /\ i < r.next /\ i # r.next /\ i < u.next
    BY <1>1, <1>2 DEF IsType, Live
  <2>2. u.heap[i].kind = r.heap[i].kind BY <1>1, <2>1 DEF SameObject
  <2>3. QED BY <2>1, <2>2 DEF IsType, Live
<1>4. \A i \in ObjId : i # r.next => u.heap[i].kind = r.heap[i].kind
        /\ u.heap[i].rtn = r.heap[i].rtn /\ u.heap[i].len = r.heap[i].len
        /\ u.heap[i].pointer_to = r.heap[i].pointer_to
        /\ (i # t => u.heap[i].array0_of = r.heap[i].array0_of)
  BY <1>1 DEF SameObject
<1>5. IsOpenLen(len) => r.heap[t].array0_of = 0 BY DEF ArrayCached
<1>6. KeepsCaches(r, u)
  BY <1>1, <1>3, <1>4, <1>5 DEF KeepsCaches, TypesOf
<1>7. NoPointerTo(u, r.next)
  <2>1. \A p \in ObjId : u.heap[p].kind = "pointer" =>
          p # r.next /\ r.heap[p].kind = "pointer" /\ u.heap[p].rtn = r.heap[p].rtn
    BY <1>1, <1>4
  <2>2. QED BY <1>3, <2>1 DEF NoPointerTo, Canonical
<1>8. \A i \in ObjId : i >= u.next => u.heap[i].kind = "free"
  BY <1>1, <1>2, <1>4 DEF Canonical
<1>9. \A i \in ObjId : u.heap[i].kind \in {"pointer", "array"} => IsType(u, u.heap[i].rtn)
  BY <1>1, <1>3, <1>4 DEF Canonical, TypesOf
<1>10. \A p \in ObjId : u.heap[p].kind = "pointer" =>
         \/ u.heap[u.heap[p].rtn].kind = "placeholder"
         \/ u.heap[u.heap[p].rtn].pointer_to = p
  <2> SUFFICES ASSUME NEW p \in ObjId, u.heap[p].kind = "pointer"
               PROVE  \/ u.heap[u.heap[p].rtn].kind = "placeholder"
                      \/ u.heap[u.heap[p].rtn].pointer_to = p
    OBVIOUS
  <2>1. p # r.next /\ r.heap[p].kind = "pointer" /\ u.heap[p].rtn = r.heap[p].rtn
    BY <1>1, <1>4
  <2>2. IsType(r, r.heap[p].rtn) BY <2>1 DEF Canonical
  <2>3. QED BY <1>3, <1>4, <2>1, <2>2 DEF Canonical
<1>11. \A a \in ObjId : u.heap[a].kind = "array" /\ IsOpenLen(u.heap[a].len) =>
         \/ u.heap[u.heap[a].rtn].kind = "placeholder"
         \/ u.heap[u.heap[a].rtn].array0_of = a
  <2> SUFFICES ASSUME NEW a \in ObjId, u.heap[a].kind = "array", IsOpenLen(u.heap[a].len)
               PROVE  \/ u.heap[u.heap[a].rtn].kind = "placeholder"
                      \/ u.heap[u.heap[a].rtn].array0_of = a
    OBVIOUS
  <2>1. CASE a = r.next BY <1>1, <2>1
  <2>2. CASE a # r.next
    <3>1. r.heap[a].kind = "array" /\ IsOpenLen(r.heap[a].len)
          /\ u.heap[a].rtn = r.heap[a].rtn
      BY <1>4, <2>2
    <3>2. IsType(r, r.heap[a].rtn) BY <3>1 DEF Canonical
    <3>3. \/ r.heap[r.heap[a].rtn].kind = "placeholder"
          \/ r.heap[r.heap[a].rtn].array0_of = a
      BY <3>1 DEF Canonical
    <3>4. a # 0 BY DEF ObjId
    <3>5. CASE r.heap[a].rtn = t
      BY <1>1, <1>3, <1>5, <3>1, <3>2, <3>3, <3>4, <3>5
    <3>6. CASE r.heap[a].rtn # t
      BY <1>3, <1>4, <3>1, <3>2, <3>3, <3>6
    <3>7. QED BY <3>5, <3>6
  <2>3. QED BY <2>1, <2>2
<1>12. QED BY <1>3, <1>6, <1>7, <1>8, <1>9, <1>10, <1>11 DEF Canonical, u

(* A step that makes no pointer or array leaves what arrays decay to.      *)
LEMMA PlainDecays ==
  ASSUME NEW r, NEW s, Good(r), Plain(r, s), Canonical(r), Decays(r)
  PROVE  Decays(s)
<1>0. r.next \in Nat /\ s.next \in Nat BY BoundsAssumption DEF Good, Plain, Registry
<1> DEFINE New == {i \in ObjId : ~SameObject(r, s, i)}
<1>1. \A i \in ObjId : i \in New => i = r.next /\ s.heap[i].kind \notin {"pointer", "array"}
                                    /\ s.heap[i].pointer_to = 0
  BY DEF Plain, SameHeap, OneNew
<1>2. ASSUME NEW i, IsType(r, i)
      PROVE  IsType(s, i) /\ SameObject(r, s, i) /\ i \in ObjId
  <2>1. i \in ObjId /\ i < r.next /\ r.heap[i].kind \in TypeKinds BY <1>2 DEF IsType, Live
  <2>2. SameObject(r, s, i) BY <1>0, <1>1, <2>1 DEF ObjId
  <2>3. s.next = r.next \/ s.next = r.next + 1 BY DEF Plain, SameHeap, OneNew
  <2>4. i < s.next BY <1>0, <2>1, <2>3 DEF ObjId
  <2>5. QED BY <2>1, <2>2, <2>4 DEF IsType, Live, SameObject
<1>3. \A i \in ObjId : s.heap[i].kind \in {"pointer", "array"} =>
        SameObject(r, s, i) /\ IsType(r, s.heap[i].rtn)
  BY <1>1 DEF Canonical, SameObject
<1>4. ASSUME NEW b \in ObjId \ {0}, s.heap[b].kind = "array"
      PROVE  ArrayDecays(s, b) /\ s.heap[b].rtn # 0
  <2>1. SameObject(r, s, b) /\ r.heap[b].kind = "array" BY <1>3, <1>4 DEF SameObject
  <2>2. ArrayDecays(r, b) BY <2>1 DEF Decays, DecaysBut
  <2>3. IsType(r, r.heap[b].pointer_to) BY <2>2 DEF ArrayDecays
  <2>4. IsType(r, r.heap[b].rtn) BY <2>1 DEF Canonical
  <2>5. ArrayDecays(s, b) BY <1>2, <2>1, <2>2, <2>3, <2>4 DEF ArrayDecays, SameObject
  <2>6. s.heap[b].rtn # 0 BY <2>1, <2>4 DEF IsType, Live, ObjId, SameObject
  <2>7. QED BY <2>5, <2>6
<1>5. ASSUME NEW t \in ObjId PROVE PointerAnswers(s, t)
  <2>1. PointerAnswers(r, t) BY DEF Decays, DecaysBut
  <2>2. CASE t \in New BY <1>1, <2>2 DEF PointerAnswers
  <2>3. CASE t \notin New BY <1>2, <2>1, <2>3 DEF PointerAnswers, SameObject
  <2>4. QED BY <2>2, <2>3
<1>6. ASSUME NEW q \in ObjId, s.heap[q].kind = "pointer"
      PROVE  s.heap[s.heap[q].rtn].kind # "array"
  <2>1. SameObject(r, s, q) /\ IsType(r, s.heap[q].rtn) BY <1>3, <1>6
  <2>2. r.heap[r.heap[q].rtn].kind # "array" BY <1>6, <2>1 DEF Decays, DecaysBut, SameObject
  <2>3. QED BY <1>2, <2>1, <2>2 DEF SameObject
<1>7. QED BY <1>4, <1>5, <1>6 DEF Decays, DecaysBut

(* ggrt_pointer makes a pointer type only to what is not an array.         *)
LEMMA MadePointerDecays ==
  ASSUME NEW r, NEW s, NEW t \in TypesOf(r), NEW a, Good(r), Good(s), Canonical(r),
         MadePointer(r, s, t), DecaysBut(r, a), r.heap[t].kind # "array"
  PROVE  DecaysBut(s, a)
<1>0. r.next \in Nat /\ s.next \in Nat /\ t \in ObjId /\ t < r.next /\ ObjId \subseteq Nat
  BY BoundsAssumption DEF Good, Registry, TypesOf, IsType, Live, ObjId
<1>1. /\ r.next \in ObjId /\ s.heap[r.next].kind = "pointer" /\ s.heap[r.next].rtn = t
      /\ s.heap[r.next].pointer_to = 0 /\ s.next = r.next + 1
      /\ s.heap[t].pointer_to \in {0, r.next} /\ r.heap[t].pointer_to = 0
  BY DEF MadePointer
<1>2. \A i \in ObjId : i # r.next => s.heap[i].kind = r.heap[i].kind
        /\ s.heap[i].rtn = r.heap[i].rtn
        /\ (i # t => s.heap[i].pointer_to = r.heap[i].pointer_to)
  BY <1>0 DEF MadePointer, SameObject
<1>3. \A i : IsType(r, i) => IsType(s, i) /\ i # r.next /\ i \in ObjId
  BY <1>0, <1>1, <1>2 DEF IsType, Live
<1>4. IsType(s, r.next) BY <1>0, <1>1 DEF IsType, Live, TypeKinds
<1>5. ASSUME NEW b \in ObjId \ {a}, s.heap[b].kind = "array"
      PROVE  ArrayDecays(s, b) /\ s.heap[b].rtn # a
  <2>1. b # r.next /\ r.heap[b].kind = "array" /\ b # t BY <1>1, <1>2, <1>5
  <2>2. ArrayDecays(r, b) /\ r.heap[b].rtn # a BY <2>1 DEF DecaysBut
  <2>3. IsType(r, r.heap[b].pointer_to) BY <2>2 DEF ArrayDecays
  <2>4. IsType(r, r.heap[b].rtn) BY <2>1 DEF Canonical
  <2>5. s.heap[b].pointer_to = r.heap[b].pointer_to /\ s.heap[b].rtn = r.heap[b].rtn
    BY <1>2, <2>1
  <2>6. r.heap[r.heap[b].rtn].kind = "array" =>
          s.heap[r.heap[b].rtn].pointer_to = r.heap[r.heap[b].rtn].pointer_to
    BY <1>2, <1>3, <2>4
  <2>7. QED BY <1>2, <1>3, <2>2, <2>3, <2>4, <2>5, <2>6 DEF ArrayDecays
<1>6. ASSUME NEW i \in ObjId PROVE PointerAnswers(s, i)
  <2>1. CASE i = r.next BY <1>1, <2>1 DEF PointerAnswers
  <2>2. CASE i = t BY <1>1, <1>4, <2>2 DEF PointerAnswers
  <2>3. CASE i # r.next /\ i # t
    <3>1. PointerAnswers(r, i) BY DEF DecaysBut
    <3>2. QED BY <1>2, <1>3, <2>3, <3>1 DEF PointerAnswers
  <2>4. QED BY <2>1, <2>2, <2>3
<1>7. ASSUME NEW q \in ObjId, s.heap[q].kind = "pointer"
      PROVE  s.heap[s.heap[q].rtn].kind # "array"
  <2>1. CASE q = r.next BY <1>0, <1>1, <1>2, <2>1
  <2>2. CASE q # r.next
    <3>1. r.heap[q].kind = "pointer" /\ s.heap[q].rtn = r.heap[q].rtn BY <1>2, <1>7, <2>2
    <3>2. IsType(r, r.heap[q].rtn) BY <3>1 DEF Canonical
    <3>3. r.heap[r.heap[q].rtn].kind # "array" BY <3>1 DEF DecaysBut
    <3>4. QED BY <1>2, <1>3, <3>1, <3>2, <3>3
  <2>3. QED BY <2>1, <2>2
<1>8. QED BY <1>5, <1>6, <1>7 DEF DecaysBut

LEMMA PointerDecays ==
  ASSUME NEW r, NEW t \in TypesOf(r), NEW a, Good(r), Canonical(r), Room(r, 1),
         DecaysBut(r, a), t # a
  PROVE  DecaysBut(Pointer(r, t), a)
<1>1. CASE r.heap[t].pointer_to # 0 BY <1>1 DEF Pointer
<1>2. CASE r.heap[t].pointer_to = 0
  <2>1. r.heap[t].kind # "array"
    BY <1>2, RefFacts DEF DecaysBut, ArrayDecays, IsType, Live, ObjId
  <2>2. QED BY <1>2, <2>1, PointerEffect, MadePointerDecays
<1>3. QED BY <1>1, <1>2

LEMMA NewArrayDecays ==
  ASSUME NEW r, NEW t \in TypesOf(r), NEW len \in Int, Good(r), Canonical(r), Decays(r),
         Room(r, 1)
  PROVE  DecaysBut(NewArray(r, t, len), r.next)
<1> DEFINE u == NewArray(r, t, len)
           a == r.next
<1>1. /\ a \in ObjId /\ u.heap[a].kind = "array" /\ u.heap[a].rtn = t /\ u.next = a + 1
      /\ \A i \in ObjId \ {a, t} : SameObject(r, u, i)
      /\ u.heap[t].kind = r.heap[t].kind /\ u.heap[t].rtn = r.heap[t].rtn
      /\ u.heap[t].pointer_to = r.heap[t].pointer_to
  BY NewArrayEffect
<1>2. a \in Nat /\ t \in ObjId /\ t < a /\ ObjId \subseteq Nat
  BY BoundsAssumption DEF Good, Registry, TypesOf, IsType, Live, ObjId
<1> HIDE DEF u
<1>3. \A i \in ObjId : i # a => u.heap[i].kind = r.heap[i].kind
        /\ u.heap[i].rtn = r.heap[i].rtn /\ u.heap[i].pointer_to = r.heap[i].pointer_to
  BY <1>1 DEF SameObject
<1>4. \A i : IsType(r, i) => IsType(u, i) /\ i # a /\ i \in ObjId
  BY <1>1, <1>2, <1>3 DEF IsType, Live
<1>5. ASSUME NEW b \in ObjId \ {a}, u.heap[b].kind = "array"
      PROVE  ArrayDecays(u, b) /\ u.heap[b].rtn # a
  <2>1. r.heap[b].kind = "array" /\ u.heap[b].rtn = r.heap[b].rtn BY <1>3, <1>5
  <2>2. ArrayDecays(r, b)
    <3>1. b \in ObjId \ {0} BY DEF ObjId
    <3>2. QED BY <2>1, <3>1 DEF Decays, DecaysBut
  <2>3. IsType(r, r.heap[b].pointer_to) BY <2>2 DEF ArrayDecays
  <2>4. IsType(r, r.heap[b].rtn) BY <2>1 DEF Canonical
  <2>5. QED BY <1>3, <1>4, <2>1, <2>2, <2>3, <2>4 DEF ArrayDecays
<1>6. ASSUME NEW i \in ObjId PROVE PointerAnswers(u, i)
  <2>1. CASE i = a BY <1>1, <2>1 DEF PointerAnswers
  <2>2. CASE i # a
    <3>1. PointerAnswers(r, i) BY DEF Decays, DecaysBut
    <3>2. QED BY <1>3, <1>4, <2>2, <3>1 DEF PointerAnswers
  <2>3. QED BY <2>1, <2>2
<1>7. ASSUME NEW q \in ObjId, u.heap[q].kind = "pointer"
      PROVE  u.heap[u.heap[q].rtn].kind # "array"
  <2>1. q # a BY <1>1, <1>7
  <2>2. r.heap[q].kind = "pointer" /\ u.heap[q].rtn = r.heap[q].rtn BY <1>3, <1>7, <2>1
  <2>3. IsType(r, r.heap[q].rtn) BY <2>2 DEF Canonical
  <2>4. r.heap[r.heap[q].rtn].kind # "array" BY <2>2 DEF Decays, DecaysBut
  <2>5. QED BY <1>3, <1>4, <2>2, <2>3, <2>4
<1>8. QED BY <1>5, <1>6, <1>7 DEF DecaysBut, u

(* The answer of ggrt_pointer for an element type is what its arrays decay *)
(* to.                                                                     *)
LEMMA PointerRefDecays ==
  ASSUME NEW u, NEW t \in TypesOf(u), NEW a, Good(u), Canonical(u), Room(u, 1),
         DecaysBut(u, a), t # a
  PROVE  LET w == Pointer(u, t)
             p == PointerRef(u, t)
         IN  /\ IsType(w, p) /\ w.heap[p].kind = "pointer" /\ w.heap[t].kind = u.heap[t].kind
             /\ w.heap[p].rtn = t \/ (w.heap[t].kind = "array" /\ p = w.heap[t].pointer_to)
<1>1. CASE u.heap[t].pointer_to # 0
  <2>1. Pointer(u, t) = u /\ PointerRef(u, t) = u.heap[t].pointer_to
    BY <1>1 DEF Pointer, PointerRef
  <2>2. t \in ObjId \ {a} /\ PointerAnswers(u, t) BY RefFacts DEF DecaysBut
  <2>3. CASE u.heap[t].kind = "array"
    <3>1. ArrayDecays(u, t) BY <2>2, <2>3 DEF DecaysBut
    <3>2. QED BY <2>1, <2>3, <3>1 DEF ArrayDecays
  <2>4. CASE u.heap[t].kind # "array"
    BY <1>1, <2>1, <2>2, <2>4 DEF PointerAnswers
  <2>5. QED BY <2>3, <2>4
<1>2. CASE u.heap[t].pointer_to = 0
  <2>1. MadePointer(u, Pointer(u, t), t) BY <1>2, PointerEffect
  <2>2. PointerRef(u, t) = u.next BY <1>2 DEF PointerRef
  <2>3. u.next \in Nat BY BoundsAssumption DEF Good, Registry
  <2>4. QED BY <2>1, <2>2, <2>3 DEF MadePointer, IsType, Live, TypeKinds
<1>3. QED BY <1>1, <1>2

LEMMA ArrayCanonical ==
  ASSUME NEW r, Good(r), Canonical(r), Decays(r), NEW t \in TypesOf(r), NEW len \in Int,
         Room(r, 2)
  PROVE  /\ Good(Array(r, t, len)) /\ Canonical(Array(r, t, len))
         /\ Decays(Array(r, t, len))
         /\ KeepsCaches(r, Array(r, t, len))
<1>1. CASE ArrayCached(r, t, len)
  BY <1>1 DEF Array, KeepsCaches
<1>2. CASE ~ArrayCached(r, t, len)
  <2> DEFINE a == r.next
             u == NewArray(r, t, len)
             w == Pointer(u, t)
             ref == PointerRef(u, t)
             obj == [w.heap[a] EXCEPT !.pointer_to = ref]
             z == [w EXCEPT !.heap = [@ EXCEPT ![a] = obj]]
  <2>1. Array(r, t, len) = z BY <1>2 DEF Array, NewArray
  <2>2. Room(r, 1) BY BoundsAssumption DEF Room, Good, Registry
  <2>3. /\ Good(u) /\ a \in ObjId /\ u.next = r.next + 1
        /\ u.heap[a].kind = "array" /\ u.heap[a].rtn = t
    BY <2>2, NewArrayEffect
  <2>4. /\ Canonical(u) /\ KeepsCaches(r, u) /\ NoPointerTo(u, a)
        /\ \A i : IsType(r, i) => IsType(u, i) /\ i # a
    BY <1>2, <2>2, NewArrayCanonical
  <2>5. t \in TypesOf(u) /\ t # a BY <2>4 DEF TypesOf
  <2>6. Room(u, 1) BY <2>3, BoundsAssumption DEF Room, Good, Registry
  <2>d. DecaysBut(u, a) BY <2>2, NewArrayDecays
  <2> HIDE DEF u, a
  <2>7. Good(w) /\ Canonical(w) /\ KeepsCaches(u, w)
    BY <2>3, <2>4, <2>5, <2>6, PointerCanonical
  <2>8. NoPointerTo(w, a)
    <3>1. CASE u.heap[t].pointer_to # 0 BY <2>4, <3>1 DEF Pointer
    <3>2. CASE u.heap[t].pointer_to = 0
      <4>1. MadePointer(u, w, t) BY <2>3, <2>5, <2>6, <3>2, PointerEffect
      <4> HIDE DEF w
      <4>2. QED BY <2>4, <2>5, <4>1 DEF MadePointer, NoPointerTo, SameObject
    <3>3. QED BY <3>1, <3>2
  <2>e. /\ DecaysBut(w, a) /\ IsType(w, ref) /\ w.heap[ref].kind = "pointer"
        /\ w.heap[ref].rtn = t \/ (w.heap[t].kind = "array" /\ ref = w.heap[t].pointer_to)
    BY <2>3, <2>4, <2>5, <2>6, <2>d, PointerDecays, PointerRefDecays
  <2>f. w.heap[a].kind = "array" /\ w.heap[a].rtn = t
    <3>1. CASE u.heap[t].pointer_to # 0 BY <2>3, <3>1 DEF Pointer
    <3>2. CASE u.heap[t].pointer_to = 0
      <4>1. MadePointer(u, w, t) BY <2>3, <2>5, <2>6, <3>2, PointerEffect
      <4>2. a # u.next BY <2>3, BoundsAssumption DEF Good, Registry, a, ObjId
      <4> HIDE DEF w
      <4>3. QED BY <2>3, <2>5, <4>1, <4>2 DEF MadePointer, SameObject
    <3>3. QED BY <3>1, <3>2
  <2>9. ref \in Ref
    <3>1. u.next \in Ref BY <2>6, <2>3, BoundsAssumption DEF Room, Good, Registry, Ref
    <3>2. t \in ObjId BY RefFacts, <2>5
    <3>3. u.heap[t].pointer_to \in Ref BY <2>3, <3>2 DEF Good, Registry, Object
    <3>4. QED BY <3>1, <3>3 DEF PointerRef
  <2> HIDE DEF w, ref
  <2>10. w.heap \in [ObjId -> Object] BY <2>7 DEF Good, Registry
  <2>11. obj \in Object /\ obj.kind = w.heap[a].kind /\ obj.rtn = w.heap[a].rtn
         /\ obj.len = w.heap[a].len /\ obj.array0_of = w.heap[a].array0_of
         /\ obj.pointer_to = ref
    <3>1. w.heap[a] \in Object BY <2>3, <2>10
    <3>2. QED BY <2>9, <3>1 DEF Object
  <2> HIDE DEF obj
  <2>12. /\ z.heap = [w.heap EXCEPT ![a] = obj] /\ z.next = w.next /\ z.mods = w.mods
         /\ z.nmods = w.nmods /\ z.cur = w.cur /\ z.def = w.def /\ z \in Registry
    BY <2>3, <2>7, <2>11 DEF Good, Registry
  <2> HIDE DEF z
  <2>13. Good(z) BY <2>7, <2>12 DEF Good, ModsOK
  <2>14. \A i \in ObjId : z.heap[i].kind = w.heap[i].kind /\ z.heap[i].rtn = w.heap[i].rtn
           /\ z.heap[i].len = w.heap[i].len /\ z.heap[i].array0_of = w.heap[i].array0_of
           /\ (i # a => z.heap[i].pointer_to = w.heap[i].pointer_to)
    BY <2>10, <2>11, <2>12
  <2>15. \A i : IsType(w, i) <=> IsType(z, i)
    BY <2>12, <2>14 DEF IsType, Live
  <2>16. Canonical(z)
    <3>1. \A i : IsType(w, i) => i \in ObjId BY DEF IsType, Live
    <3>2. QED BY <2>7, <2>8, <2>12, <2>14, <2>15, <3>1 DEF Canonical, NoPointerTo
  <2>17. KeepsCaches(r, z)
    <3>1. \A i \in TypesOf(r) : i \in TypesOf(u) /\ i # a /\ i \in ObjId
      BY <2>4 DEF TypesOf
    <3>2. QED BY <2>4, <2>7, <2>14, <3>1 DEF KeepsCaches
  <2>18. Decays(z)
    <3>0. t \in ObjId /\ 0 \notin ObjId BY <2>5, RefFacts DEF ObjId
    <3>1. z.heap[a].pointer_to = ref /\ z.heap[a].kind = "array" /\ z.heap[a].rtn = t
      BY <2>3, <2>10, <2>11, <2>12, <2>14, <2>f
    <3>2. ArrayDecays(z, a)
      <4>1. ref \in ObjId /\ IsType(z, ref) /\ z.heap[ref].kind = "pointer"
            /\ z.heap[ref].rtn = w.heap[ref].rtn
        BY <2>e, <2>14, <2>15 DEF IsType, Live
      <4>2. z.heap[t].kind = w.heap[t].kind /\ z.heap[t].pointer_to = w.heap[t].pointer_to
        BY <2>5, <2>14, <3>0
      <4>3. QED BY <2>e, <3>1, <4>1, <4>2 DEF ArrayDecays
    <3>3. ASSUME NEW b \in ObjId, z.heap[b].kind = "array"
          PROVE  ArrayDecays(z, b) /\ z.heap[b].rtn # 0
      <4>1. CASE b = a BY <3>0, <3>1, <3>2, <4>1
      <4>2. CASE b # a
        <5>1. w.heap[b].kind = "array" /\ z.heap[b].rtn = w.heap[b].rtn
              /\ z.heap[b].pointer_to = w.heap[b].pointer_to
          BY <2>14, <3>3, <4>2
        <5>2. ArrayDecays(w, b) /\ w.heap[b].rtn # a BY <2>e, <4>2, <5>1 DEF DecaysBut
        <5>3. IsType(w, w.heap[b].rtn) /\ w.heap[b].rtn \in ObjId
          BY <2>7, <5>1 DEF Canonical, IsType, Live
        <5>4. IsType(w, w.heap[b].pointer_to) /\ w.heap[b].pointer_to \in ObjId
          BY <5>2 DEF ArrayDecays, IsType, Live
        <5>5. QED BY <2>14, <2>15, <3>0, <5>1, <5>2, <5>3, <5>4 DEF ArrayDecays
      <4>3. QED BY <4>1, <4>2
    <3>4. ASSUME NEW i \in ObjId PROVE PointerAnswers(z, i)
      <4>1. CASE i = a BY <3>1, <4>1 DEF PointerAnswers
      <4>2. CASE i # a
        <5>1. PointerAnswers(w, i) BY <2>e DEF DecaysBut
        <5>2. \A j : IsType(w, j) => j \in ObjId BY DEF IsType, Live
        <5>3. QED BY <2>14, <2>15, <4>2, <5>1, <5>2 DEF PointerAnswers
      <4>3. QED BY <4>1, <4>2
    <3>5. ASSUME NEW q \in ObjId, z.heap[q].kind = "pointer"
          PROVE  z.heap[z.heap[q].rtn].kind # "array"
      <4>1. w.heap[q].kind = "pointer" /\ z.heap[q].rtn = w.heap[q].rtn BY <2>14, <3>5
      <4>2. w.heap[q].rtn \in ObjId BY <2>7, <4>1 DEF Canonical, IsType, Live
      <4>3. w.heap[w.heap[q].rtn].kind # "array" BY <2>e, <4>1 DEF DecaysBut
      <4>4. QED BY <2>14, <4>1, <4>2, <4>3
    <3>6. QED BY <3>3, <3>4, <3>5 DEF Decays, DecaysBut
  <2>19. QED BY <2>1, <2>13, <2>16, <2>17, <2>18
<1>3. QED BY <1>1, <1>2

-----------------------------------------------------------------------------
(* The state machine.                                                      *)

(* The inductive invariant.                                                *)
IInv ==
  /\ Good(rt) /\ Canonical(rt) /\ Decays(rt)
  /\ open \in [ModId -> Seq(Ref)] /\ reopened \in BOOLEAN

LEMMA InitIInv == Init => IInv
<1> SUFFICES ASSUME Init PROVE IInv OBVIOUS
<1> DEFINE r == EmptyRegistry
<1>1. FreeObject \in Object /\ FreeObject.kind = "free"
  <2>1. "free" \in Kinds BY DEF Kinds
  <2>2. NoName \in AllNames BY DEF AllNames
  <2>3. 0 \in Ref /\ 0 \in Int BY RefFacts
  <2>4. FreeObject.kind = "free" BY DEF FreeObject, NewObject
  <2>5. FreeObject \in Object BY <2>1, <2>2, <2>3, EmptyObjectType DEF FreeObject
  <2>6. QED BY <2>4, <2>5
<1>2. NewModule(0, 0) \in Module
  BY RefFacts, BoundsAssumption DEF NewModule, Module
<1>3. /\ r.heap = [i \in ObjId |-> FreeObject] /\ r.next = 1 /\ r.nmods = 0 /\ r.def = 0
      /\ r \in Registry
  BY <1>1, <1>2, BoundsAssumption DEF EmptyRegistry, Registry
<1> HIDE DEF r
<1> DEFINE s == MModule(r)
<1>4. /\ s \in Registry /\ s.nmods = 1 /\ s.heap = r.heap /\ s.next = r.next
      /\ \A m \in 1..s.nmods : s.mods[m].intrinsic \in 1..s.nmods
                               /\ s.mods[m].prev \in 0..r.nmods
  BY <1>3, BoundsAssumption, MModuleType
<1> HIDE DEF s
<1> DEFINE u == [s EXCEPT !.def = s.nmods, !.cur = 0]
<1>5. /\ u \in Registry /\ u.def = 1 /\ u.cur = 0 /\ u.mods = s.mods
      /\ u.nmods = 1 /\ u.heap = s.heap /\ u.next = s.next
  <2>1. 0 \in 0..MaxMods /\ 1 \in 0..MaxMods BY BoundsAssumption
  <2>2. QED BY <1>4, <2>1 DEF Registry
<1>6. rt = u BY DEF Init, CtxReset, s, u, r
<1> HIDE DEF u
<1>7. Good(u)
  <2>1. 1 \in 1..MaxMods BY BoundsAssumption
  <2>2. QED BY <1>3, <1>4, <1>5, <2>1 DEF Good, ModsOK
<1>8. \A i \in ObjId : u.heap[i].kind = "free" BY <1>1, <1>3, <1>4, <1>5
<1>9. Canonical(u) /\ Decays(u)
  <2>1. FreeObject.pointer_to = 0 BY DEF FreeObject, NewObject
  <2>2. \A i \in ObjId : u.heap[i].pointer_to = 0 BY <1>3, <1>4, <1>5, <2>1
  <2>3. Canonical(u) BY <1>8 DEF Canonical
  <2>4. \A i \in ObjId : PointerAnswers(u, i) BY <2>2 DEF PointerAnswers
  <2>5. QED BY <1>8, <2>3, <2>4 DEF Decays, DecaysBut
<1>10. open \in [ModId -> Seq(Ref)] /\ reopened \in BOOLEAN
  <2>1. << >> \in Seq(Ref) OBVIOUS
  <2>2. open = [m \in ModId |-> << >>] /\ reopened = FALSE BY DEF Init
  <2>3. QED BY <2>1, <2>2
<1>11. QED BY <1>6, <1>7, <1>9, <1>10 DEF IInv

(* A step that leaves the history variables alone.                         *)
LEMMA CallStep ==
  ASSUME IInv, NEW s, Call(s), Good(s), Canonical(s), Decays(s), KeepsCaches(rt, s)
  PROVE  IInv' /\ KeepsCaches(rt, rt')
BY DEF IInv, Call

LEMMA PlainCall ==
  ASSUME IInv, NEW s, Call(s), Plain(rt, s)
  PROVE  IInv' /\ KeepsCaches(rt, rt')
<1>1. Canonical(s) /\ KeepsCaches(rt, s) /\ Decays(s)
  BY PlainCanonical, PlainDecays DEF IInv
<1>2. QED BY <1>1, CallStep DEF Plain

LEMMA CurrentRefs ==
  ASSUME IInv
  PROVE  Cur(rt).current_struct \in Ref /\ Cur(rt).current_enum \in Ref
BY CurrentModuleType DEF IInv, Module

LEMMA NextStep ==
  ASSUME IInv, Next
  PROVE  IInv' /\ KeepsCaches(rt, rt')
<1> USE DEF IInv
<1>r. \A x \in Ref : x # 0 => x \in ObjId BY BoundsAssumption DEF Ref, ObjId
<1>1. CASE DoReset BY <1>1, CtxResetPlain, PlainCall DEF DoReset
<1>2. CASE DoModuleBegin BY <1>2, ModuleBeginPlain, PlainCall DEF DoModuleBegin
<1>3. CASE DoModuleEnd BY <1>3, ModuleEndPlain, PlainCall DEF DoModuleEnd
<1>4. CASE DoIntrinsic BY <1>4, IntrinsicPlain, PlainCall DEF DoIntrinsic
<1>5. CASE DoTypedef BY <1>5, TypedefPlain, PlainCall DEF DoTypedef
<1>6. CASE DoGlobal BY <1>6, GlobalPlain, PlainCall DEF DoGlobal
<1>7. CASE DoPointer 
  <2>1. PICK t \in TypesOf(rt) : Room(rt, 1) /\ Call(Pointer(rt, t)) BY <1>7 DEF DoPointer
  <2>2. t # 0 BY DEF TypesOf, ObjId
  <2>3. Decays(Pointer(rt, t)) BY <2>1, <2>2, PointerDecays DEF Decays
  <2>4. QED BY <2>1, <2>3, PointerCanonical, CallStep
<1>8. CASE DoArray BY <1>8, ArrayCanonical, CallStep, LensAssumption DEF DoArray
<1>9. CASE DoBitfield BY <1>9, BitfieldPlain, PlainCall DEF DoBitfield
<1>10. CASE DoPlaceholder BY <1>10, PlaceholderPlain, PlainCall DEF DoPlaceholder
<1>11. CASE DoFunc BY <1>11, FuncPlain, PlainCall DEF DoFunc
<1>12. CASE DoStructForward
  <2>1. PICK su \in {"struct", "union"}, n \in Tags :
          Room(rt, 1) /\ Call(StructForward(rt, su, n))
    BY <1>12 DEF DoStructForward
  <2>2. Plain(rt, StructForward(rt, su, n)) BY <2>1, StructForwardPlain
  <2>3. QED BY <2>1, <2>2, PlainCall
<1>13. CASE DoStruct
  <2>1. PICK su \in {"struct", "union"}, n \in Tags \cup {NoName} :
          /\ Room(rt, 1) /\ rt' = Struct(rt, su, n)
          /\ open' = [open EXCEPT ![CurrentModule(rt)] = Append(@, StructRef(rt, su, n))]
          /\ reopened' = (reopened \/ IsIn(StructRef(rt, su, n), OpenHere))
    BY <1>13 DEF DoStruct
  <2>2. Plain(rt, rt') BY <2>1, StructPlain
  <2>3. Canonical(rt') /\ KeepsCaches(rt, rt') /\ Good(rt') /\ Decays(rt')
    BY <2>2, PlainCanonical, PlainDecays DEF Plain
  <2>4. StructRef(rt, su, n) \in Ref /\ CurrentModule(rt) \in ModId
    BY <2>1, StructForwardPlain, CurrentModuleType
  <2>5. open' \in [ModId -> Seq(Ref)]
    <3>1. Append(open[CurrentModule(rt)], StructRef(rt, su, n)) \in Seq(Ref) BY <2>4
    <3>2. QED BY <2>1, <2>4, <3>1
  <2>6. reopened' \in BOOLEAN BY <2>1 DEF IsIn
  <2>7. QED BY <2>3, <2>5, <2>6
<1>14. CASE DoStructElem
  BY <1>14, CurrentRefs, StructElemPlain, PlainCall DEF DoStructElem
<1>15. CASE DoStructEnd
  <2> DEFINE st == Cur(rt).current_struct
  <2>1. /\ st # 0 /\ OpenHere # <<>> /\ rt' = StructEnd(rt, st)
        /\ open' = [open EXCEPT ![CurrentModule(rt)] = SubSeq(@, 1, Len(@) - 1)]
        /\ reopened' = reopened
    BY <1>15 DEF DoStructEnd
  <2>2. st \in ObjId BY <1>r, <2>1, CurrentRefs
  <2> HIDE DEF st
  <2>3. Plain(rt, rt') BY <2>1, <2>2, StructEndPlain
  <2>4. Canonical(rt') /\ KeepsCaches(rt, rt') /\ Good(rt') /\ Decays(rt')
    BY <2>3, PlainCanonical, PlainDecays DEF Plain
  <2>5. open' \in [ModId -> Seq(Ref)]
    <3>1. CurrentModule(rt) \in ModId BY CurrentModuleType
    <3>2. open[CurrentModule(rt)] \in Seq(Ref) BY <3>1
    <3>3. SubSeq(open[CurrentModule(rt)], 1, Len(open[CurrentModule(rt)]) - 1) \in Seq(Ref)
      BY <2>1, <3>2 DEF OpenHere
    <3>4. QED BY <2>1, <3>1, <3>3
  <2>6. QED BY <2>1, <2>4, <2>5
<1>16. CASE DoEnumForward
  <2>1. PICK n \in Tags : Room(rt, 1) /\ Call(EnumForward(rt, n))
    BY <1>16 DEF DoEnumForward
  <2>2. Plain(rt, EnumForward(rt, n)) BY <2>1, EnumForwardPlain
  <2>3. QED BY <2>1, <2>2, PlainCall
<1>17. CASE DoEnum BY <1>17, EnumPlain, PlainCall DEF DoEnum
<1>18. CASE DoEnumElem
  BY <1>18, <1>r, CurrentRefs, EnumElemPlain, PlainCall DEF DoEnumElem
<1>19. CASE DoEnumEnd BY <1>19, <1>r, CurrentRefs, EnumEndPlain, PlainCall DEF DoEnumEnd
<1>20. QED
  BY <1>1, <1>2, <1>3, <1>4, <1>5, <1>6, <1>7, <1>8, <1>9, <1>10, <1>11, <1>12, <1>13,
     <1>14, <1>15, <1>16, <1>17, <1>18, <1>19 DEF Next

LEMMA StutterStep ==
  ASSUME IInv, UNCHANGED vars PROVE IInv'
BY DEF IInv, vars

LEMMA Invariance == Spec => []IInv
<1>1. IInv /\ [Next]_vars => IInv' BY NextStep, StutterStep
<1>2. QED BY InitIInv, <1>1, PTL DEF Spec

(* Every reachable registry is well typed: no operation stores a dangling  *)
(* or ill-kinded value, whatever the order of the calls of ggrt.c.         *)
THEOREM TypeCorrect == Spec => []TypeOK
<1>1. IInv => TypeOK BY DEF IInv, Good, TypeOK
<1>2. QED BY <1>1, Invariance, PTL

(* ggrt_pointer never makes a second pointer type to one type.             *)
THEOREM PointersAreCanonical == Spec => []OnePointerType
<1>1. IInv => OnePointerType BY DEF IInv, Canonical, OnePointerType, TypesOf
<1>2. QED BY <1>1, Invariance, PTL

(* ggrt_array never makes a second T[] for one T.                          *)
THEOREM OpenArraysAreCanonical == Spec => []OneOpenArrayType
<1>1. IInv => OneOpenArrayType BY DEF IInv, Canonical, OneOpenArrayType, TypesOf
<1>2. QED BY <1>1, Invariance, PTL

(* An array type is never the target of a pointer type, and its pointer_to *)
(* is the pointer to its element: what typeof(&a) == typeof(&a[0]) rests on. *)
THEOREM ArraysAlwaysDecay == Spec => []ArraysDecay
<1>1. ASSUME IInv PROVE ArraysDecay
  <2> SUFFICES ASSUME NEW a \in TypesOf(rt), rt.heap[a].kind = "array"
               PROVE  ArrayDecays(rt, a)
                      /\ \A q \in TypesOf(rt) : rt.heap[q].kind = "pointer" => rt.heap[q].rtn # a
    BY DEF ArraysDecay, ArrayDecays
  <2>1. a \in ObjId \ {0} BY DEF TypesOf, ObjId
  <2>2. QED BY <1>1, <2>1 DEF IInv, Decays, DecaysBut, TypesOf
<1>2. QED BY <1>1, Invariance, PTL

(* An answer of ggrt_pointer or ggrt_array stays the answer for ever, so a *)
(* caller may keep it and compare it with later ones.                      *)
THEOREM AnswersAreStable == Spec => CachesStable
<1>1. IInv /\ [Next]_vars =>
        [\A t \in TypesOf(rt) :
           /\ rt.heap[t].pointer_to # 0 =>
                rt'.heap[t].pointer_to = rt.heap[t].pointer_to
           /\ rt.heap[t].array0_of # 0 =>
                rt'.heap[t].array0_of = rt.heap[t].array0_of]_vars
  BY NextStep DEF KeepsCaches
<1>2. QED BY <1>1, Invariance, PTL DEF Spec, CachesStable

-----------------------------------------------------------------------------
(***************************************************************************)
(* The names and the nesting: a tag names one struct or union of a module, *)
(* the intrinsic types are the same objects in every module, and the       *)
(* structs being defined are a stack.                                      *)
(*                                                                         *)
(* Most operations are quiet: they touch no tag, no module chain and no    *)
(* prev field.  The others are the two that make a module and the three of *)
(* structs, and each has a lemma of its own.                               *)
(***************************************************************************)

StructKinds == {"struct", "union"}

(* What was handed out as a type stays a type of its kind and name.        *)
SameTypes(r, s) ==
  \A t \in TypesOf(r) :
    /\ t \in TypesOf(s)
    /\ s.heap[t].kind = r.heap[t].kind /\ s.heap[t].name = r.heap[t].name

SamePrev(r, s) == \A t \in TypesOf(r) : s.heap[t].prev = r.heap[t].prev

(* A module keeps its tags; the symbols it gains for enums have no addr.   *)
SameTags(md, nd) ==
  /\ nd.intrinsic = md.intrinsic
  /\ \A su \in StructKinds : nd.tab[su] = md.tab[su]
  /\ \A sym \in nd.tab["enum"] : sym.addr = 0 \/ sym \in md.tab["enum"]

(* An intrinsic name once entered keeps its symbol.                        *)
KeepsIntrinsics(r, s) ==
  \A i \in ModId, n \in Intrinsics :
    Found(r.itab[i], n) => Matches(s.itab[i], n) = Matches(r.itab[i], n)

Quiet(r, s) ==
  /\ SameTypes(r, s) /\ SamePrev(r, s) /\ KeepsIntrinsics(r, s)
  /\ s.nmods = r.nmods
  /\ \A m \in ModId : /\ SameTags(r.mods[m], s.mods[m])
                      /\ s.mods[m].current_struct = r.mods[m].current_struct

-----------------------------------------------------------------------------
(* Quiet operations.                                                       *)

LEMMA QuietSelf == ASSUME NEW r PROVE Quiet(r, r)
BY DEF Quiet, SameTypes, SamePrev, KeepsIntrinsics, SameTags

LEMMA QuietTrans ==
  ASSUME NEW r, NEW s, NEW u, Quiet(r, s), Quiet(s, u) PROVE Quiet(r, u)
<1>1. SameTypes(r, u) BY DEF Quiet, SameTypes
<1>2. SamePrev(r, u) BY DEF Quiet, SameTypes, SamePrev
<1>3. KeepsIntrinsics(r, u) BY DEF Quiet, KeepsIntrinsics, Found
<1>4. \A m \in ModId : /\ SameTags(r.mods[m], u.mods[m])
                       /\ u.mods[m].current_struct = r.mods[m].current_struct
  BY DEF Quiet, SameTags
<1>5. QED BY <1>1, <1>2, <1>3, <1>4 DEF Quiet

LEMMA NextIsNew ==
  ASSUME NEW r, Good(r)
  PROVE  r.next \in Nat /\ r.next \notin TypesOf(r) /\ TypesOf(r) \subseteq ObjId
BY BoundsAssumption DEF Good, Registry, TypesOf, IsType, Live

LEMMA QuietAlloc ==
  ASSUME NEW r, NEW obj \in Object, Good(r), Room(r, 1)
  PROVE  Quiet(r, Alloc(r, obj))
<1> DEFINE s == Alloc(r, obj)
<1>1. s.heap = [r.heap EXCEPT ![r.next] = obj] /\ s.next = r.next + 1 BY AllocType
<1>2. s.mods = r.mods /\ s.nmods = r.nmods /\ s.itab = r.itab
  BY DEF Alloc, Good, Registry
<1> HIDE DEF s
<1>3. r.heap \in [ObjId -> Object] BY DEF Good, Registry
<1>4. \A t \in TypesOf(r) : t \in ObjId /\ t # r.next /\ s.heap[t] = r.heap[t] /\ t < s.next
  BY <1>1, <1>3, NextIsNew DEF TypesOf, IsType, Live, ObjId
<1>5. SameTypes(r, s) /\ SamePrev(r, s)
  BY <1>4 DEF SameTypes, SamePrev, TypesOf, IsType, Live
<1>6. KeepsIntrinsics(r, s) BY <1>2 DEF KeepsIntrinsics
<1>7. QED BY <1>2, <1>5, <1>6 DEF Quiet, SameTags, s

(* An object changed in a field that is neither its kind, name nor prev.   *)
LEMMA QuietTouch ==
  ASSUME NEW r, NEW t \in Ref, NEW obj, Good(r),
         t \in TypesOf(r) =>
           obj.kind = r.heap[t].kind /\ obj.name = r.heap[t].name /\ obj.prev = r.heap[t].prev
  PROVE  Quiet(r, [r EXCEPT !.heap = [@ EXCEPT ![t] = obj]])
<1> DEFINE s == [r EXCEPT !.heap = [@ EXCEPT ![t] = obj]]
<1>1. /\ s.heap = [r.heap EXCEPT ![t] = obj] /\ s.next = r.next /\ s.mods = r.mods
      /\ s.nmods = r.nmods /\ s.itab = r.itab /\ r.heap \in [ObjId -> Object]
  BY DEF Good, Registry
<1> HIDE DEF s
<1>2. \A i \in TypesOf(r) : /\ i \in ObjId /\ s.heap[i].kind = r.heap[i].kind
                            /\ s.heap[i].name = r.heap[i].name
                            /\ s.heap[i].prev = r.heap[i].prev
  BY <1>1, NextIsNew
<1>3. SameTypes(r, s) /\ SamePrev(r, s)
  BY <1>1, <1>2 DEF SameTypes, SamePrev, TypesOf, IsType, Live
<1>4. KeepsIntrinsics(r, s) BY <1>1 DEF KeepsIntrinsics
<1>5. QED BY <1>1, <1>3, <1>4 DEF Quiet, SameTags, s

(* What entering a symbol changes.                                         *)
SymbolEntered(r, s, k, sym) ==
  /\ s.heap = r.heap /\ s.next = r.next /\ s.nmods = r.nmods /\ s.itab = r.itab
  /\ \A m \in ModId :
       /\ s.mods[m].intrinsic = r.mods[m].intrinsic
       /\ s.mods[m].current_struct = r.mods[m].current_struct
       /\ \A j \in Tables :
            s.mods[m].tab[j] = IF m = CurrentModule(r) /\ j = k
                               THEN r.mods[m].tab[j] \cup {sym}
                               ELSE r.mods[m].tab[j]

LEMMA AddSymbolEffect ==
  ASSUME NEW r, NEW k \in Tables, NEW name, NEW addr, NEW type, Good(r)
  PROVE  SymbolEntered(r, AddSymbol(r, k, name, addr, type), k,
                       [name |-> name, addr |-> addr, type |-> type])
<1> DEFINE s == AddSymbol(r, k, name, addr, type)
           sym == [name |-> name, addr |-> addr, type |-> type]
           c == CurrentModule(r)
           tab == [r.mods[c].tab EXCEPT ![k] = @ \cup {sym}]
           md == [r.mods[c] EXCEPT !.tab = tab]
<1>1. c \in ModId BY CurrentModuleType
<1>2. r.mods \in [ModId -> Module] BY DEF Good, Registry
<1>3. s = [r EXCEPT !.mods = [@ EXCEPT ![c] = md]] BY DEF AddSymbol
<1>4. \A j \in Tables : tab[j] = IF j = k THEN r.mods[c].tab[j] \cup {sym} ELSE r.mods[c].tab[j]
  BY <1>1, <1>2 DEF Module
<1> HIDE DEF tab, c, sym
<1>5. md.tab = tab /\ md.intrinsic = r.mods[c].intrinsic
      /\ md.current_struct = r.mods[c].current_struct
  BY <1>1, <1>2 DEF Module
<1> HIDE DEF md, s
<1>6. /\ s.mods = [r.mods EXCEPT ![c] = md]
      /\ s.heap = r.heap /\ s.next = r.next /\ s.nmods = r.nmods /\ s.itab = r.itab
  BY <1>3 DEF Good, Registry
<1>7. ASSUME NEW m \in ModId
      PROVE  /\ s.mods[m].intrinsic = r.mods[m].intrinsic
             /\ s.mods[m].current_struct = r.mods[m].current_struct
             /\ \A j \in Tables : s.mods[m].tab[j] = IF m = c /\ j = k
                                                     THEN r.mods[m].tab[j] \cup {sym}
                                                     ELSE r.mods[m].tab[j]
  <2>1. CASE m = c BY <1>1, <1>2, <1>4, <1>5, <1>6, <2>1
  <2>2. CASE m # c BY <1>1, <1>2, <1>6, <2>2
  <2>3. QED BY <2>1, <2>2
<1>8. QED BY <1>6, <1>7 DEF SymbolEntered, s, c, sym

LEMMA QuietSymbol ==
  ASSUME NEW r, NEW k \in Tables, NEW name \in AllNames,
         NEW addr \in Ref, NEW type \in Ref, Good(r),
         k \in {"type", "global"} \/ (k = "enum" /\ addr = 0)
  PROVE  Quiet(r, AddSymbol(r, k, name, addr, type))
<1> DEFINE s == AddSymbol(r, k, name, addr, type)
           sym == [name |-> name, addr |-> addr, type |-> type]
<1>1. SymbolEntered(r, s, k, sym) BY AddSymbolEffect
<1>2. sym.addr = addr OBVIOUS
<1> HIDE DEF s, sym
<1>3. SameTypes(r, s) /\ SamePrev(r, s) /\ KeepsIntrinsics(r, s)
  BY <1>1 DEF SymbolEntered, SameTypes, SamePrev, KeepsIntrinsics, TypesOf, IsType, Live
<1>4. ASSUME NEW m \in ModId PROVE SameTags(r.mods[m], s.mods[m])
  <2>1. "enum" \in Tables /\ StructKinds \subseteq Tables BY DEF Tables, StructKinds
  <2>2. \A su \in StructKinds : su # k /\ s.mods[m].tab[su] = r.mods[m].tab[su]
    BY <1>1, <2>1 DEF SymbolEntered, StructKinds
  <2>3. ASSUME NEW x \in s.mods[m].tab["enum"] PROVE x.addr = 0 \/ x \in r.mods[m].tab["enum"]
    BY <1>1, <1>2, <2>1 DEF SymbolEntered
  <2>4. QED BY <1>1, <2>2, <2>3 DEF SymbolEntered, SameTags
<1>5. QED BY <1>1, <1>3, <1>4 DEF SymbolEntered, Quiet, s

LEMMA QuietHalt ==
  ASSUME NEW r, NEW how, Good(r) PROVE Quiet(r, Halt(r, how))
<1> DEFINE s == Halt(r, how)
<1>1. /\ s.heap = r.heap /\ s.next = r.next /\ s.mods = r.mods /\ s.nmods = r.nmods
      /\ s.itab = r.itab
  BY DEF Halt, Good, Registry
<1> HIDE DEF s
<1>2. QED
  BY <1>1 DEF s, Quiet, SameTypes, SamePrev, KeepsIntrinsics, SameTags, TypesOf, IsType, Live

LEMMA ModuleEndQuiet ==
  ASSUME NEW r, Good(r) PROVE Quiet(r, ModuleEnd(r, r.cur))
<1> DEFINE s == ModuleEnd(r, r.cur)
<1>1. /\ s.heap = r.heap /\ s.next = r.next /\ s.mods = r.mods /\ s.nmods = r.nmods
      /\ s.itab = r.itab
  BY DEF ModuleEnd, Good, Registry
<1> HIDE DEF s
<1>2. QED
  BY <1>1 DEF s, Quiet, SameTypes, SamePrev, KeepsIntrinsics, SameTags, TypesOf, IsType, Live

LEMMA QuietCurrentEnum ==
  ASSUME NEW r, NEW ref, Good(r)
  PROVE  Quiet(r, [r EXCEPT !.mods[CurrentModule(r)].current_enum = ref])
<1> DEFINE c == CurrentModule(r)
           md == [r.mods[c] EXCEPT !.current_enum = ref]
           s == [r EXCEPT !.mods = [@ EXCEPT ![c] = md]]
<1>1. c \in ModId /\ r.mods[c] \in Module /\ r.mods \in [ModId -> Module]
  BY CurrentModuleType DEF Good, Registry
<1>2. /\ md.intrinsic = r.mods[c].intrinsic /\ md.tab = r.mods[c].tab
      /\ md.current_struct = r.mods[c].current_struct
  BY <1>1 DEF Module
<1>3. [r EXCEPT !.mods[CurrentModule(r)].current_enum = ref] = s OBVIOUS
<1> HIDE DEF md, c
<1>4. /\ s.heap = r.heap /\ s.next = r.next /\ s.mods = [r.mods EXCEPT ![c] = md]
      /\ s.nmods = r.nmods /\ s.itab = r.itab
  BY DEF Good, Registry
<1> HIDE DEF s
<1>5. \A m \in ModId : /\ s.mods[m].intrinsic = r.mods[m].intrinsic
                       /\ s.mods[m].tab = r.mods[m].tab
                       /\ s.mods[m].current_struct = r.mods[m].current_struct
  BY <1>1, <1>2, <1>4
<1>6. QED
  BY <1>3, <1>4, <1>5
  DEF Quiet, SameTypes, SamePrev, KeepsIntrinsics, SameTags, TypesOf, IsType, Live

LEMMA IntrinsicQuiet ==
  ASSUME NEW r, NEW name \in Intrinsics, Good(r), Room(r, 1)
  PROVE  Quiet(r, Intrinsic(r, name))
<1> DEFINE obj == NewObject("intrinsic", name, 0, 0, <<>>)
           u == Alloc(r, obj)
           v == AddIntrinsic(u, name, r.next)
           s == AddSymbol(v, "type", name, r.next, 0)
<1>1. CASE Found(IntrinsicTable(r), name)
  BY <1>1, QuietSelf DEF Intrinsic
<1>2. CASE ~Found(IntrinsicTable(r), name)
  <2>1. obj \in Object /\ name \in AllNames /\ 0 \in Ref /\ "type" \in Tables
    BY EmptyObjectType, RefFacts DEF Kinds, TypeKinds, AllNames, Tables
  <2> HIDE DEF obj
  <2>2. Good(u) /\ r.next \in Ref /\ Quiet(r, u) BY <2>1, AllocType, QuietAlloc
  <2>3. IntrinsicTable(u) = IntrinsicTable(r)
    BY DEF Alloc, IntrinsicTable, Cur, CurrentModule, Good, Registry
  <2> HIDE DEF u
  <2>4. Good(v) BY <2>1, <2>2, AddIntrinsicType
  <2>5. Quiet(u, v)
    <3> DEFINE sym == [name |-> name, addr |-> r.next, type |-> 0]
               i == Cur(u).intrinsic
    <3>1. /\ v.heap = u.heap /\ v.next = u.next /\ v.mods = u.mods /\ v.nmods = u.nmods
          /\ v.itab = [u.itab EXCEPT ![i] = @ \cup {sym}]
      BY <2>2 DEF AddIntrinsic, Good, Registry
    <3>2. i \in ModId /\ u.itab \in [ModId -> SUBSET Symbol]
      BY <2>2, CurrentModuleType DEF Good, Registry
    <3>3. ~Found(u.itab[i], name) BY <1>2, <2>3 DEF IntrinsicTable
    <3>4. sym.name = name OBVIOUS
    <3> HIDE DEF sym, i, v
    <3>5. ASSUME NEW j \in ModId, NEW n \in Intrinsics, Found(u.itab[j], n)
          PROVE  Matches(v.itab[j], n) = Matches(u.itab[j], n)
      <4>1. CASE j # i BY <3>1, <3>2, <4>1
      <4>2. CASE j = i
        <5>1. n # name BY <3>3, <3>5, <4>2
        <5>2. v.itab[j] = u.itab[j] \cup {sym} BY <3>1, <3>2, <4>2
        <5>3. QED BY <3>4, <5>1, <5>2 DEF Matches
      <4>3. QED BY <4>1, <4>2
    <3>6. KeepsIntrinsics(u, v) BY <3>5 DEF KeepsIntrinsics
    <3>7. QED
      BY <3>1, <3>6 DEF Quiet, SameTypes, SamePrev, SameTags, TypesOf, IsType, Live
  <2> HIDE DEF v
  <2>6. Quiet(v, s) BY <2>1, <2>2, <2>4, QuietSymbol DEF AllNames
  <2>7. Quiet(r, s) BY <2>2, <2>5, <2>6, QuietTrans
  <2>8. QED BY <1>2, <2>7 DEF Intrinsic, s, v, u, obj
<1>3. QED BY <1>1, <1>2

LEMMA TypedefQuiet ==
  ASSUME NEW r, NEW name \in TypeNames, NEW t \in TypesOf(r), Good(r), Room(r, 1)
  PROVE  Quiet(r, Typedef(r, name, t))
<1> DEFINE obj == NewObject("typedef", name, t, 0, <<>>)
           u == Alloc(r, obj)
           s == AddSymbol(u, "type", name, r.next, t)
<1>1. name \in AllNames /\ t \in Ref /\ "type" \in Tables /\ "typedef" \in Kinds
  BY RefFacts DEF AllNames, Tables, Kinds
<1>2. obj \in Object BY <1>1, EmptyObjectType
<1> HIDE DEF obj
<1>3. Good(u) /\ r.next \in Ref /\ Quiet(r, u) BY <1>2, AllocType, QuietAlloc
<1> HIDE DEF u
<1>4. Quiet(u, s) BY <1>1, <1>3, QuietSymbol
<1>5. Quiet(r, s) BY <1>3, <1>4, QuietTrans
<1>6. Quiet(r, r) /\ Quiet(r, Halt(r, "abort")) BY QuietSelf, QuietHalt
<1>7. QED BY <1>5, <1>6 DEF Typedef, s, u, obj

LEMMA GlobalQuiet ==
  ASSUME NEW r, NEW name \in GlobalNames, NEW t \in TypesOf(r), Good(r)
  PROVE  Quiet(r, Global(r, name, t))
<1>1. name \in AllNames /\ 0 \in Ref /\ t \in Ref /\ "global" \in Tables
  BY RefFacts DEF AllNames, Tables
<1>2. QED BY <1>1, QuietSymbol DEF Global

(* bitfields, placeholders and functions: one new object.                  *)
LEMMA NewObjectQuiet ==
  ASSUME NEW r, NEW kind \in Kinds, NEW rtn \in Ref, NEW elems \in Seq(Elem),
         Good(r), Room(r, 1)
  PROVE  Quiet(r, Alloc(r, NewObject(kind, NoName, rtn, 0, elems)))
<1>1. NoName \in AllNames /\ 0 \in Int BY DEF AllNames
<1>2. QED BY <1>1, NewObjectType, QuietAlloc

LEMMA BitfieldQuiet ==
  ASSUME NEW r, NEW t \in TypesOf(r), Good(r), Room(r, 1)
  PROVE  Quiet(r, Bitfield(r, t))
<1>1. "bitfield" \in Kinds /\ t \in Ref /\ <<>> \in Seq(Elem)
  BY RefFacts DEF Kinds, TypeKinds
<1>2. QED BY <1>1, NewObjectQuiet DEF Bitfield

LEMMA PlaceholderQuiet ==
  ASSUME NEW r, Good(r), Room(r, 1)
  PROVE  Quiet(r, Placeholder(r, NoName))
<1>1. "placeholder" \in Kinds /\ 0 \in Ref /\ <<>> \in Seq(Elem)
  BY RefFacts DEF Kinds, TypeKinds
<1>2. QED BY <1>1, NewObjectQuiet DEF Placeholder

LEMMA FuncQuiet ==
  ASSUME NEW r, NEW t \in TypesOf(r), NEW n \in 0..1,
         NEW params \in [1..n -> TypesOf(r)], Good(r), Room(r, 1)
  PROVE  Quiet(r, Func(r, t, params))
<1> DEFINE elems == [i \in DOMAIN params |-> [name |-> NoName, type |-> params[i], val |-> 0]]
<1>1. elems \in [1..n -> Elem]
  BY DEF Elem, AllNames, Ref, TypesOf, ObjId
<1>2. elems \in Seq(Elem) BY <1>1
<1> HIDE DEF elems
<1>3. "function" \in Kinds /\ t \in Ref BY RefFacts DEF Kinds, TypeKinds
<1>4. QED BY <1>2, <1>3, NewObjectQuiet DEF Func, elems

LEMMA PointerQuiet ==
  ASSUME NEW r, NEW t \in TypesOf(r), Good(r), Room(r, 1)
  PROVE  Quiet(r, Pointer(r, t))
<1> DEFINE obj == NewObject("pointer", NoName, t, 0, <<>>)
           s == Alloc(r, obj)
           tob == [s.heap[t] EXCEPT !.pointer_to = r.next]
           u == [s EXCEPT !.heap = [@ EXCEPT ![t] = tob]]
<1>1. "pointer" \in Kinds /\ NoName \in AllNames /\ t \in Ref /\ t \in ObjId
  BY RefFacts DEF Kinds, TypeKinds, AllNames
<1>2. obj \in Object BY <1>1, EmptyObjectType
<1>3. Pointer(r, t) \in {r, s, u} BY DEF Pointer
<1> HIDE DEF obj
<1>4. Good(s) /\ Quiet(r, s) BY <1>2, AllocType, QuietAlloc
<1> HIDE DEF s
<1>5. tob.kind = s.heap[t].kind /\ tob.name = s.heap[t].name /\ tob.prev = s.heap[t].prev
  BY <1>1, <1>4 DEF Good, Registry, Object
<1> HIDE DEF tob
<1>6. Quiet(s, u) BY <1>1, <1>4, <1>5, QuietTouch
<1> HIDE DEF u
<1>7. Quiet(r, u) /\ Quiet(r, r) BY <1>4, <1>6, QuietTrans, QuietSelf
<1>8. QED BY <1>3, <1>4, <1>7

LEMMA NewArrayQuiet ==
  ASSUME NEW r, NEW t \in TypesOf(r), NEW len \in Int, Good(r), Room(r, 1)
  PROVE  Quiet(r, NewArray(r, t, len))
<1> DEFINE obj == NewObject("array", NoName, t, len, <<>>)
           s == Alloc(r, obj)
           tob == [s.heap[t] EXCEPT !.array0_of = r.next]
           u == [s EXCEPT !.heap = [@ EXCEPT ![t] = tob]]
<1>1. "array" \in Kinds /\ NoName \in AllNames /\ t \in Ref /\ t \in ObjId
  BY RefFacts DEF Kinds, TypeKinds, AllNames
<1>2. obj \in Object BY <1>1, EmptyObjectType
<1>3. NewArray(r, t, len) \in {s, u} BY DEF NewArray
<1> HIDE DEF obj
<1>4. Good(s) /\ Quiet(r, s) BY <1>2, AllocType, QuietAlloc
<1> HIDE DEF s
<1>5. tob.kind = s.heap[t].kind /\ tob.name = s.heap[t].name /\ tob.prev = s.heap[t].prev
  BY <1>1, <1>4 DEF Good, Registry, Object
<1> HIDE DEF tob
<1>6. Quiet(s, u) BY <1>1, <1>4, <1>5, QuietTouch
<1> HIDE DEF u
<1>7. Quiet(r, u) BY <1>4, <1>6, QuietTrans
<1>8. QED BY <1>3, <1>4, <1>7

LEMMA ArrayQuiet ==
  ASSUME NEW r, NEW t \in TypesOf(r), NEW len \in Int, Good(r), Canonical(r), Room(r, 2)
  PROVE  Quiet(r, Array(r, t, len))
<1>1. CASE ArrayCached(r, t, len)
  BY <1>1, QuietSelf DEF Array
<1>2. CASE ~ArrayCached(r, t, len)
  <2> DEFINE a == r.next
             u == NewArray(r, t, len)
             w == Pointer(u, t)
             obj == [w.heap[a] EXCEPT !.pointer_to = PointerRef(u, t)]
             z == [w EXCEPT !.heap = [@ EXCEPT ![a] = obj]]
  <2>1. Array(r, t, len) = z BY <1>2 DEF Array, NewArray
  <2>2. Room(r, 1) BY BoundsAssumption DEF Room, Good, Registry
  <2>3. Good(u) /\ a \in ObjId /\ a \in Ref /\ u.next = r.next + 1 BY <2>2, NewArrayEffect
  <2>4. Canonical(u) /\ t \in TypesOf(u)
    BY <1>2, <2>2, NewArrayCanonical DEF TypesOf
  <2>5. Quiet(r, u) BY <2>2, NewArrayQuiet
  <2>6. Room(u, 1) BY <2>3, BoundsAssumption DEF Room, Good, Registry
  <2> HIDE DEF u, a
  <2>7. Good(w) /\ Quiet(u, w) BY <2>3, <2>4, <2>6, PointerCanonical, PointerQuiet
  <2> HIDE DEF w
  <2>8. obj.kind = w.heap[a].kind /\ obj.name = w.heap[a].name /\ obj.prev = w.heap[a].prev
    BY <2>3, <2>7 DEF Good, Registry, Object
  <2> HIDE DEF obj
  <2>9. Quiet(w, z) BY <2>3, <2>7, <2>8, QuietTouch
  <2>10. QED BY <2>1, <2>5, <2>7, <2>9, QuietTrans
<1>3. QED BY <1>1, <1>2

LEMMA AppendElemQuiet ==
  ASSUME NEW r, NEW t \in ObjId, NEW name, NEW type, NEW val, Good(r)
  PROVE  Quiet(r, AppendElem(r, t, name, type, val))
<1> DEFINE e == [name |-> name, type |-> type, val |-> val]
           obj == [r.heap[t] EXCEPT !.elems = Append(@, e)]
<1>1. AppendElem(r, t, name, type, val) = [r EXCEPT !.heap = [@ EXCEPT ![t] = obj]]
  BY DEF AppendElem
<1>2. obj.kind = r.heap[t].kind /\ obj.name = r.heap[t].name /\ obj.prev = r.heap[t].prev
  BY DEF Good, Registry, Object
<1> HIDE DEF obj
<1>3. t \in Ref BY BoundsAssumption DEF ObjId, Ref
<1>4. QED BY <1>1, <1>2, <1>3, QuietTouch

LEMMA EnumElemQuiet ==
  ASSUME NEW r, NEW et \in ObjId, NEW name \in ElemNames, NEW explicit \in BOOLEAN,
         Good(r)
  PROVE  Quiet(r, EnumElem(r, et, name, explicit, 0))
<1> DEFINE val == EnumVal(r, et, explicit, 0)
           s == AppendElem(r, et, name, et, val)
           obj == [s.heap[et] EXCEPT !.last = val]
           u == [s EXCEPT !.heap = [@ EXCEPT ![et] = obj]]
<1>1. r.heap[et].last \in Int BY DEF Good, Registry, Object
<1>2. val \in Int BY <1>1 DEF EnumVal
<1> HIDE DEF val
<1>3. name \in AllNames /\ et \in Ref BY BoundsAssumption DEF AllNames, ObjId, Ref
<1>4. Good(s) /\ Quiet(r, s) BY <1>2, <1>3, AppendElemPlain, AppendElemQuiet DEF Plain
<1>5. EnumElem(r, et, name, explicit, 0) = u BY DEF EnumElem, val
<1> HIDE DEF s
<1>6. obj.kind = s.heap[et].kind /\ obj.name = s.heap[et].name /\ obj.prev = s.heap[et].prev
  BY <1>4 DEF Good, Registry, Object
<1> HIDE DEF obj
<1>7. Quiet(s, u) BY <1>3, <1>4, <1>6, QuietTouch
<1>8. QED BY <1>4, <1>5, <1>7, QuietTrans

(* An enum tag that is known has no addr; what ggrt_enum changes is always *)
(* the object it has just made.                                            *)
EnumsNull(r) == \A m \in 1..r.nmods : \A sym \in r.mods[m].tab["enum"] : sym.addr = 0

LEMMA EnumKnownIsNull ==
  ASSUME NEW r, NEW name, Good(r), EnumsNull(r), EnumKnown(r, name)
  PROVE  EnumRef(r, name) = 0
<1>1. CurrentModule(r) \in 1..r.nmods BY CurrentModuleType
<1>2. Lookup(Cur(r).tab["enum"], name) \in Cur(r).tab["enum"]
  BY DEF EnumKnown, Found, Lookup, Matches
<1>3. QED BY <1>1, <1>2 DEF EnumRef, EnumsNull, Cur

LEMMA EnumForwardQuiet ==
  ASSUME NEW r, NEW name \in Tags \cup {NoName}, Good(r), Room(r, 1)
  PROVE  Quiet(r, EnumForward(r, name))
<1> DEFINE obj == NewObject("enum", name, 0, 0, <<>>)
           u == Alloc(r, obj)
           s == AddSymbol(u, "enum", name, 0, r.next)
<1>1. "enum" \in Kinds /\ name \in AllNames /\ "enum" \in Tables /\ 0 \in Ref
  BY RefFacts DEF Kinds, TypeKinds, AllNames, Tables
<1>2. obj \in Object BY <1>1, EmptyObjectType
<1> HIDE DEF obj
<1>3. Good(u) /\ r.next \in Ref /\ Quiet(r, u) BY <1>2, AllocType, QuietAlloc
<1> HIDE DEF u
<1>4. Quiet(u, s) BY <1>1, <1>3, QuietSymbol
<1>5. Quiet(r, s) /\ Quiet(r, r) BY <1>3, <1>4, QuietTrans, QuietSelf
<1>6. QED BY <1>3, <1>5 DEF EnumForward, s, u, obj

LEMMA EnumQuiet ==
  ASSUME NEW r, NEW name \in Tags \cup {NoName}, Good(r), EnumsNull(r), Room(r, 1)
  PROVE  Quiet(r, Enum(r, name))
<1>1. CASE EnumKnown(r, name)
  <2>1. Enum(r, name) = Halt(r, "segv") BY <1>1, EnumKnownIsNull DEF Enum
  <2>2. QED BY <2>1, QuietHalt
<1>2. CASE ~EnumKnown(r, name)
  <2> DEFINE s  == EnumForward(r, name)
             et == r.next
             c  == CurrentModule(r)
             obj == [s.heap[et] EXCEPT !.prev = r.mods[c].current_enum,
                                       !.scope = r.mods[c].current_struct]
             v == [s EXCEPT !.heap = [@ EXCEPT ![et] = obj]]
             u == [v EXCEPT !.mods[c].current_enum = et]
  <2>1. et # 0 /\ et \in Ref /\ et \in ObjId
    BY BoundsAssumption DEF Good, Registry, Room, Ref, ObjId
  <2>2. Enum(r, name) = u BY <1>2, <2>1 DEF Enum, EnumRef
  <2>3. Good(s) /\ CurrentModule(s) = c /\ Quiet(r, s)
    BY EnumForwardPlain, EnumForwardQuiet
  <2>4. r.mods[c].current_enum \in Ref /\ r.mods[c].current_struct \in Ref
    BY CurrentModuleType DEF Module, Cur
  <2> HIDE DEF s, c
  <2>5. /\ obj \in Object /\ obj.kind = s.heap[et].kind /\ obj.rtn = s.heap[et].rtn
        /\ obj.len = s.heap[et].len /\ obj.pointer_to = s.heap[et].pointer_to
        /\ obj.array0_of = s.heap[et].array0_of /\ obj.name = s.heap[et].name
    <3>1. s.heap[et] \in Object BY <2>1, <2>3 DEF Good, Registry
    <3>2. QED BY <2>4, <3>1 DEF Object
  <2> HIDE DEF obj
  <2>6. Good(v) /\ CurrentModule(v) = c BY <2>1, <2>3, <2>5, TouchObject
  <2>7. Quiet(r, v)
    <3>1. /\ v.heap = [s.heap EXCEPT ![et] = obj] /\ v.next = s.next /\ v.mods = s.mods
          /\ v.nmods = s.nmods /\ v.itab = s.itab /\ s.heap \in [ObjId -> Object]
      BY <2>3 DEF Good, Registry
    <3> HIDE DEF v
    <3>2. \A i \in TypesOf(r) : i # et /\ i \in TypesOf(s) /\ i \in ObjId
      BY <2>3, NextIsNew DEF Quiet, SameTypes
    <3>3. \A i \in TypesOf(r) : v.heap[i] = s.heap[i] /\ i \in TypesOf(v)
      BY <3>1, <3>2 DEF TypesOf, IsType, Live
    <3>4. SameTypes(r, v) /\ SamePrev(r, v)
      BY <2>3, <3>3 DEF Quiet, SameTypes, SamePrev
    <3>5. KeepsIntrinsics(r, v) BY <2>3, <3>1 DEF Quiet, KeepsIntrinsics
    <3>6. QED BY <2>3, <3>1, <3>4, <3>5 DEF Quiet
  <2> HIDE DEF v
  <2>8. Quiet(v, u) BY <2>6, QuietCurrentEnum
  <2>9. QED BY <2>2, <2>7, <2>8, QuietTrans
<1>3. QED BY <1>1, <1>2

LEMMA EnumEndQuiet ==
  ASSUME NEW r, NEW et, Good(r) PROVE Quiet(r, EnumEnd(r, et))
BY QuietCurrentEnum DEF EnumEnd

-----------------------------------------------------------------------------
(* The invariant, over a registry and the stacks of structs being defined. *)

(* The symbols of a tag table are types of its kind and have their names;  *)
(* a name has one symbol in a module, and a type one symbol anywhere.      *)
TagsName(r, m, su) ==
  /\ \A sym \in r.mods[m].tab[su] :
       /\ sym.addr \in TypesOf(r)
       /\ r.heap[sym.addr].kind = su /\ r.heap[sym.addr].name = sym.name
  /\ \A sym, sym2 \in r.mods[m].tab[su] : sym.name = sym2.name => sym = sym2
TagsApart(r, m, m2, su) ==
  \A sym \in r.mods[m].tab[su], sym2 \in r.mods[m2].tab[su] :
    sym.addr = sym2.addr => m = m2 /\ sym = sym2
Tagged(r) ==
  \A m \in 1..r.nmods, su \in StructKinds :
    TagsName(r, m, su) /\ \A m2 \in 1..r.nmods : TagsApart(r, m, m2, su)

Shared(r) == \A m \in 1..r.nmods : r.mods[m].intrinsic = r.mods[1].intrinsic

(* A type is a tag of no module but mod.                                   *)
OnlyTagOf(r, t, mod) ==
  \A m \in 1..r.nmods, su \in StructKinds : \A sym \in r.mods[m].tab[su] :
    sym.addr = t => m = mod

(* A module that was never made defines nothing; what a module defines are *)
(* types, and tags of no other module.                                     *)
Apart(r, op) ==
  /\ \A m \in ModId : m > r.nmods => op[m] = <<>>
  /\ \A m \in 1..r.nmods : \A i \in DOMAIN op[m] :
       op[m][i] \in TypesOf(r) /\ OnlyTagOf(r, op[m][i], m)

Tidy(r, op) == Tagged(r) /\ EnumsNull(r) /\ Shared(r) /\ Apart(r, op)

(* StructsNest, without the exemption.                                     *)
StackOf(r, m, stack) ==
  /\ r.mods[m].current_struct = (IF stack = <<>> THEN 0 ELSE stack[Len(stack)])
  /\ \A i \in DOMAIN stack :
       r.heap[stack[i]].prev = (IF i = 1 THEN 0 ELSE stack[i - 1])
Nested(r, op) == \A m \in 1..r.nmods : StackOf(r, m, op[m])

LEMMA ModuleIds ==
  ASSUME NEW r, Good(r)
  PROVE  /\ 1..r.nmods \subseteq ModId /\ r.nmods \in Nat /\ 1 \in 1..r.nmods
         /\ r.mods \in [ModId -> Module] /\ r.heap \in [ObjId -> Object]
BY BoundsAssumption DEF Good, ModsOK, Registry, ModId

LEMMA QuietTidy ==
  ASSUME NEW r, NEW s, NEW op, Good(r), Quiet(r, s), Tidy(r, op)
  PROVE  Tidy(s, op) /\ (Nested(r, op) => Nested(s, op))
<1>1. s.nmods = r.nmods /\ 1..r.nmods \subseteq ModId /\ 1 \in 1..r.nmods
  BY ModuleIds DEF Quiet
<1>2. \A m \in 1..r.nmods, su \in StructKinds : s.mods[m].tab[su] = r.mods[m].tab[su]
  BY <1>1 DEF Quiet, SameTags
<1>3. Tagged(s)
  <2>1. ASSUME NEW m \in 1..r.nmods, NEW su \in StructKinds PROVE TagsName(s, m, su)
    <3>1. TagsName(r, m, su) BY DEF Tidy, Tagged
    <3>2. s.mods[m].tab[su] = r.mods[m].tab[su] BY <1>2
    <3>3. \A t \in TypesOf(r) : t \in TypesOf(s) /\ s.heap[t].kind = r.heap[t].kind
                                /\ s.heap[t].name = r.heap[t].name
      BY DEF Quiet, SameTypes
    <3>4. QED BY <3>1, <3>2, <3>3 DEF TagsName
  <2>2. ASSUME NEW m \in 1..r.nmods, NEW su \in StructKinds, NEW m2 \in 1..r.nmods
        PROVE  TagsApart(s, m, m2, su)
    <3>1. TagsApart(r, m, m2, su) BY DEF Tidy, Tagged
    <3>2. QED BY <1>2, <3>1 DEF TagsApart
  <2>3. QED BY <1>1, <2>1, <2>2 DEF Tagged
<1>4. EnumsNull(s)
  BY <1>1 DEF Tidy, EnumsNull, Quiet, SameTags
<1>5. Shared(s)
  BY <1>1 DEF Tidy, Shared, Quiet, SameTags
<1>6. \A t \in TypesOf(r) : t \in TypesOf(s) /\ s.heap[t].prev = r.heap[t].prev
  BY DEF Quiet, SameTypes, SamePrev
<1>7. \A t, m : OnlyTagOf(r, t, m) => OnlyTagOf(s, t, m)
  BY <1>1, <1>2 DEF OnlyTagOf
<1>8. Apart(s, op) BY <1>1, <1>6, <1>7 DEF Tidy, Apart
<1>9. ASSUME Nested(r, op) PROVE Nested(s, op)
  <2>1. ASSUME NEW m \in 1..r.nmods PROVE StackOf(s, m, op[m])
    <3>1. StackOf(r, m, op[m]) BY <1>9 DEF Nested
    <3>2. s.mods[m].current_struct = r.mods[m].current_struct BY <1>1 DEF Quiet
    <3>3. \A i \in DOMAIN op[m] : s.heap[op[m][i]].prev = r.heap[op[m][i]].prev
      BY <1>6 DEF Tidy, Apart
    <3>4. QED BY <3>1, <3>2, <3>3 DEF StackOf
  <2>2. QED BY <1>1, <2>1 DEF Nested
<1>10. QED BY <1>3, <1>4, <1>5, <1>8, <1>9 DEF Tidy

-----------------------------------------------------------------------------
(* A new module.                                                           *)

(* s is r with one module more, empty and with the intrinsics of the       *)
(* default module.                                                         *)
ModuleMade(r, s) ==
  /\ s.heap = r.heap /\ s.next = r.next /\ s.itab = r.itab /\ s.nmods = r.nmods + 1
  /\ \A m \in 1..r.nmods :
       SameTags(r.mods[m], s.mods[m]) /\ s.mods[m].current_struct = r.mods[m].current_struct
  /\ LET md == s.mods[r.nmods + 1]
     IN  /\ md.intrinsic = r.mods[r.def].intrinsic /\ md.current_struct = 0
         /\ \A k \in Tables : md.tab[k] = {}

LEMMA MModuleMade ==
  ASSUME NEW r, Good(r), ModRoom(r)
  PROVE  ModuleMade(r, MModule(r))
<1> DEFINE n == r.nmods + 1
           md == NewModule(0, r.mods[r.def].intrinsic)
           s == MModule(r)
<1>1. r.def # 0 /\ r.nmods \in Nat /\ n \in ModId /\ 1..r.nmods \subseteq ModId
  BY ModuleIds, BoundsAssumption DEF Good, ModsOK, ModRoom, ModId
<1>2. MModule(r) = [r EXCEPT !.nmods = n, !.mods = [@ EXCEPT ![n] = md]]
  BY <1>1 DEF MModule
<1>3. /\ md.intrinsic = r.mods[r.def].intrinsic /\ md.current_struct = 0
      /\ \A k \in Tables : md.tab[k] = {}
  BY DEF NewModule
<1> HIDE DEF md
<1>4. /\ s.heap = r.heap /\ s.next = r.next /\ s.itab = r.itab /\ s.nmods = n
      /\ s.mods = [r.mods EXCEPT ![n] = md]
  BY <1>2 DEF Good, Registry
<1> HIDE DEF s
<1>5. r.mods \in [ModId -> Module] BY ModuleIds
<1>6. \A m \in 1..r.nmods : s.mods[m] = r.mods[m] BY <1>1, <1>4, <1>5
<1>7. s.mods[n] = md BY <1>1, <1>4, <1>5
<1>8. QED BY <1>3, <1>4, <1>6, <1>7 DEF ModuleMade, SameTags, s

LEMMA CtxResetMade ==
  ASSUME NEW r, Good(r), ModRoom(r)
  PROVE  ModuleMade(r, CtxReset(r))
<1> DEFINE u == MModule(r)
           s == [u EXCEPT !.def = u.nmods, !.cur = 0]
<1>1. ModuleMade(r, u) /\ u \in Registry
  BY MModuleMade, MModuleType DEF Good, ModRoom
<1> HIDE DEF u
<1>2. /\ s.heap = u.heap /\ s.next = u.next /\ s.itab = u.itab /\ s.nmods = u.nmods
      /\ s.mods = u.mods
  BY <1>1 DEF Registry
<1> HIDE DEF s
<1>3. ModuleMade(r, s) BY <1>1, <1>2 DEF ModuleMade
<1>4. QED BY <1>3 DEF CtxReset, s, u

LEMMA ModuleBeginMade ==
  ASSUME NEW r, Good(r), ModRoom(r)
  PROVE  ModuleMade(r, ModuleBegin(r))
<1> DEFINE u == MModule(r)
           n == u.nmods
           md == [u.mods[n] EXCEPT !.prev = r.cur]
           s == [u EXCEPT !.mods = [@ EXCEPT ![n] = md], !.cur = n]
<1>1. /\ ModuleMade(r, u) /\ u \in Registry /\ n = r.nmods + 1
      /\ r.nmods \in Nat /\ n \in ModId /\ 1..r.nmods \subseteq ModId
  BY MModuleMade, MModuleType, ModuleIds DEF Good, ModRoom, ModId
<1>2. ModuleBegin(r) = s BY DEF ModuleBegin
<1> HIDE DEF u
<1>3. u.mods \in [ModId -> Module] /\ u.mods[n] \in Module BY <1>1 DEF Registry
<1>4. /\ md.intrinsic = u.mods[n].intrinsic /\ md.tab = u.mods[n].tab
      /\ md.current_struct = u.mods[n].current_struct
  BY <1>3 DEF Module
<1> HIDE DEF md, n
<1>5. /\ s.heap = u.heap /\ s.next = u.next /\ s.itab = u.itab /\ s.nmods = u.nmods
      /\ s.mods = [u.mods EXCEPT ![n] = md]
  BY <1>1 DEF Registry
<1> HIDE DEF s
<1>6. \A m \in ModId : /\ s.mods[m].intrinsic = u.mods[m].intrinsic
                       /\ s.mods[m].tab = u.mods[m].tab
                       /\ s.mods[m].current_struct = u.mods[m].current_struct
  BY <1>3, <1>4, <1>5
<1>7. ModuleMade(r, s) BY <1>1, <1>5, <1>6 DEF ModuleMade, SameTags
<1>8. QED BY <1>2, <1>7

LEMMA MadeTidy ==
  ASSUME NEW r, NEW s, NEW op, Good(r), ModRoom(r), ModuleMade(r, s), Tidy(r, op)
  PROVE  Tidy(s, op) /\ (Nested(r, op) => Nested(s, op))
<1> DEFINE n == r.nmods + 1
<1>1. /\ r.nmods \in Nat /\ n \in ModId /\ 1..r.nmods \subseteq ModId
      /\ r.def \in 1..r.nmods /\ 1 \in 1..r.nmods
  BY ModuleIds, BoundsAssumption DEF Good, ModsOK, ModRoom, ModId
<1>2. s.nmods = n /\ \A m \in 1..n : m = n \/ m \in 1..r.nmods
  BY <1>1 DEF ModuleMade
<1>3. TypesOf(s) = TypesOf(r) /\ s.heap = r.heap
  BY DEF ModuleMade, TypesOf, IsType, Live
<1>4. \A m \in 1..r.nmods :
        /\ SameTags(r.mods[m], s.mods[m])
        /\ s.mods[m].current_struct = r.mods[m].current_struct
  BY DEF ModuleMade
<1>5. /\ s.mods[n].intrinsic = r.mods[r.def].intrinsic /\ s.mods[n].current_struct = 0
      /\ s.mods[n].tab["enum"] = {} /\ \A su \in StructKinds : s.mods[n].tab[su] = {}
  BY DEF ModuleMade, Tables, StructKinds
<1> HIDE DEF n
<1>6. Tagged(s)
  <2>1. ASSUME NEW m \in 1..n, NEW su \in StructKinds PROVE TagsName(s, m, su)
    <3>1. CASE m = n BY <1>5, <3>1 DEF TagsName
    <3>2. CASE m \in 1..r.nmods
      <4>1. TagsName(r, m, su) BY <3>2 DEF Tidy, Tagged
      <4>2. s.mods[m].tab[su] = r.mods[m].tab[su] BY <1>4, <3>2 DEF SameTags
      <4>3. QED BY <1>3, <4>1, <4>2 DEF TagsName
    <3>3. QED BY <1>2, <3>1, <3>2
  <2>2. ASSUME NEW m \in 1..n, NEW su \in StructKinds, NEW m2 \in 1..n
        PROVE  TagsApart(s, m, m2, su)
    <3>1. CASE m = n \/ m2 = n BY <1>5, <3>1 DEF TagsApart
    <3>2. CASE m \in 1..r.nmods /\ m2 \in 1..r.nmods
      <4>1. TagsApart(r, m, m2, su) BY <3>2 DEF Tidy, Tagged
      <4>2. s.mods[m].tab[su] = r.mods[m].tab[su] /\ s.mods[m2].tab[su] = r.mods[m2].tab[su]
        BY <1>4, <3>2 DEF SameTags
      <4>3. QED BY <4>1, <4>2 DEF TagsApart
    <3>3. QED BY <1>2, <3>1, <3>2
  <2>3. QED BY <1>2, <2>1, <2>2 DEF Tagged
<1>7. EnumsNull(s)
  BY <1>2, <1>4, <1>5 DEF Tidy, EnumsNull, SameTags
<1>8. Shared(s)
  <2>1. \A m \in 1..r.nmods : s.mods[m].intrinsic = r.mods[1].intrinsic
    BY <1>4 DEF Tidy, Shared, SameTags
  <2>2. s.mods[n].intrinsic = r.mods[1].intrinsic BY <1>1, <1>5 DEF Tidy, Shared
  <2>3. QED BY <1>1, <1>2, <2>1, <2>2 DEF Shared
<1>9. Apart(s, op)
  <2>1. ASSUME NEW t, NEW mod, OnlyTagOf(r, t, mod) PROVE OnlyTagOf(s, t, mod)
    BY <1>2, <1>4, <1>5, <2>1 DEF OnlyTagOf, SameTags
  <2>2. op[n] = <<>> BY <1>1 DEF Tidy, Apart, n
  <2>3. \A m \in ModId : m > n => m > r.nmods BY <1>1 DEF n, ModId
  <2>4. ASSUME NEW m \in 1..n, NEW i \in DOMAIN op[m]
        PROVE  op[m][i] \in TypesOf(s) /\ OnlyTagOf(s, op[m][i], m)
    <3>1. CASE m = n BY <2>2, <3>1
    <3>2. CASE m \in 1..r.nmods BY <1>3, <2>1, <3>2 DEF Tidy, Apart
    <3>3. QED BY <1>2, <3>1, <3>2
  <2>5. QED BY <1>2, <2>3, <2>4 DEF Tidy, Apart
<1>10. ASSUME Nested(r, op) PROVE Nested(s, op)
  <2>1. op[n] = <<>> BY <1>1 DEF Tidy, Apart, n
  <2>2. ASSUME NEW m \in 1..n PROVE StackOf(s, m, op[m])
    <3>1. CASE m = n BY <1>5, <2>1, <3>1 DEF StackOf
    <3>2. CASE m \in 1..r.nmods BY <1>3, <1>4, <1>10, <3>2 DEF Nested, StackOf
    <3>3. QED BY <1>2, <3>1, <3>2
  <2>3. QED BY <1>2, <2>2 DEF Nested
<1>11. QED BY <1>6, <1>7, <1>8, <1>9, <1>10 DEF Tidy

-----------------------------------------------------------------------------
(* Structs.                                                                *)

(* What a step may not do to the intrinsic types.                          *)
SameIntrinsics(r, s) ==
  KeepsIntrinsics(r, s) /\ s.mods[1].intrinsic = r.mods[1].intrinsic

(* t is no struct that another module than mod defines.                    *)
NotOpenElsewhere(r, op, t, mod) ==
  \A m \in 1..r.nmods : m # mod => \A i \in DOMAIN op[m] : op[m][i] # t

(* A tag that its module does not have yet, for a type that has no tag.    *)
LEMMA NewTagTidy ==
  ASSUME NEW r, NEW op, NEW su \in StructKinds, NEW name \in AllNames, NEW t \in TypesOf(r),
         Good(r), Tidy(r, op), r.heap[t].kind = su, r.heap[t].name = name,
         ~Found(Cur(r).tab[su], name),
         \A m \in 1..r.nmods, k \in StructKinds : \A x \in r.mods[m].tab[k] : x.addr # t,
         \A m \in 1..r.nmods : \A i \in DOMAIN op[m] : op[m][i] # t
  PROVE  LET s == AddSymbol(r, su, name, t, 0)
         IN  /\ Tidy(s, op) /\ (Nested(r, op) => Nested(s, op))
             /\ t \in TypesOf(s) /\ OnlyTagOf(s, t, CurrentModule(r))
<1> DEFINE s == AddSymbol(r, su, name, t, 0)
           sym == [name |-> name, addr |-> t, type |-> 0]
           c == CurrentModule(r)
<1>0. su \in Tables /\ t \in Ref /\ "enum" \in Tables /\ su # "enum" /\ StructKinds \subseteq Tables
  BY RefFacts DEF Tables, StructKinds
<1>1. SymbolEntered(r, s, su, sym) /\ sym.name = name /\ sym.addr = t
  BY <1>0, AddSymbolEffect
<1>2. c \in 1..r.nmods /\ 1..r.nmods \subseteq ModId /\ 1 \in 1..r.nmods
  BY CurrentModuleType, ModuleIds
<1> HIDE DEF s, sym
<1>3. TypesOf(s) = TypesOf(r) /\ s.heap = r.heap /\ s.nmods = r.nmods
  BY <1>1 DEF SymbolEntered, TypesOf, IsType, Live
<1>4. \A m \in 1..r.nmods :
        /\ s.mods[m].intrinsic = r.mods[m].intrinsic
        /\ s.mods[m].current_struct = r.mods[m].current_struct
        /\ s.mods[m].tab["enum"] = r.mods[m].tab["enum"]
        /\ \A k \in StructKinds :
             s.mods[m].tab[k] = IF m = c /\ k = su THEN r.mods[m].tab[k] \cup {sym}
                                ELSE r.mods[m].tab[k]
  <2> SUFFICES ASSUME NEW m \in 1..r.nmods
               PROVE  /\ s.mods[m].intrinsic = r.mods[m].intrinsic
                      /\ s.mods[m].current_struct = r.mods[m].current_struct
                      /\ s.mods[m].tab["enum"] = r.mods[m].tab["enum"]
                      /\ \A k \in StructKinds :
                           s.mods[m].tab[k] = IF m = c /\ k = su
                                              THEN r.mods[m].tab[k] \cup {sym}
                                              ELSE r.mods[m].tab[k]
    OBVIOUS
  <2>1. m \in ModId BY <1>2
  <2>2. \A j \in Tables : s.mods[m].tab[j] = IF m = c /\ j = su
                                             THEN r.mods[m].tab[j] \cup {sym}
                                             ELSE r.mods[m].tab[j]
    BY <1>1, <2>1 DEF SymbolEntered
  <2>3. s.mods[m].intrinsic = r.mods[m].intrinsic
        /\ s.mods[m].current_struct = r.mods[m].current_struct
    BY <1>1, <2>1 DEF SymbolEntered
  <2> HIDE DEF c
  <2>4. s.mods[m].tab["enum"] = r.mods[m].tab["enum"] BY <1>0, <2>2
  <2>5. QED BY <1>0, <2>2, <2>3, <2>4
<1>a. \A m \in 1..r.nmods, k \in StructKinds : \A x \in s.mods[m].tab[k] :
        x \in r.mods[m].tab[k] \/ (m = c /\ k = su /\ x = sym)
  <2> HIDE DEF c
  <2> SUFFICES ASSUME NEW m \in 1..r.nmods, NEW k \in StructKinds, NEW x \in s.mods[m].tab[k]
               PROVE  x \in r.mods[m].tab[k] \/ (m = c /\ k = su /\ x = sym)
    OBVIOUS
  <2>1. s.mods[m].tab[k] = IF m = c /\ k = su THEN r.mods[m].tab[k] \cup {sym}
                           ELSE r.mods[m].tab[k]
    BY <1>4
  <2>2. CASE m = c /\ k = su
    <3>1. s.mods[m].tab[k] = r.mods[m].tab[k] \cup {sym} BY <2>1, <2>2
    <3>2. QED BY <2>2, <3>1
  <2>3. CASE ~(m = c /\ k = su)
    <3>1. s.mods[m].tab[k] = r.mods[m].tab[k] BY <2>1, <2>3
    <3>2. QED BY <3>1
  <2>4. QED BY <2>2, <2>3
<1>5. \A x \in r.mods[c].tab[su] : x.name # name
  BY DEF Found, Matches, Cur
<1>6. Tagged(s)
  <2>1. ASSUME NEW m \in 1..r.nmods, NEW k \in StructKinds PROVE TagsName(s, m, k)
    <3>1. TagsName(r, m, k) BY DEF Tidy, Tagged
    <3>2. CASE m = c /\ k = su
      <4>1. s.mods[m].tab[k] = r.mods[m].tab[k] \cup {sym} BY <1>4, <3>2
      <4>2. ASSUME NEW x \in s.mods[m].tab[k]
            PROVE  x.addr \in TypesOf(r) /\ r.heap[x.addr].kind = k
                   /\ r.heap[x.addr].name = x.name
        BY <1>1, <3>1, <3>2, <4>1 DEF TagsName
      <4>3. ASSUME NEW x \in s.mods[m].tab[k], NEW y \in s.mods[m].tab[k], x.name = y.name
            PROVE  x = y
        BY <1>1, <1>5, <3>1, <3>2, <4>1, <4>3 DEF TagsName
      <4>4. QED BY <1>3, <4>2, <4>3 DEF TagsName
    <3>3. CASE ~(m = c /\ k = su)
      <4>1. s.mods[m].tab[k] = r.mods[m].tab[k] BY <1>4, <3>3
      <4>2. QED BY <1>3, <3>1, <4>1 DEF TagsName
    <3>4. QED BY <3>2, <3>3
  <2>2. ASSUME NEW m \in 1..r.nmods, NEW k \in StructKinds, NEW m2 \in 1..r.nmods
        PROVE  TagsApart(s, m, m2, k)
    <3>1. SUFFICES ASSUME NEW x \in s.mods[m].tab[k], NEW y \in s.mods[m2].tab[k],
                          x.addr = y.addr
                   PROVE  m = m2 /\ x = y
      BY DEF TagsApart
    <3>2. x \in r.mods[m].tab[k] \/ (m = c /\ k = su /\ x = sym) BY <1>a
    <3>3. y \in r.mods[m2].tab[k] \/ (m2 = c /\ k = su /\ y = sym) BY <1>a
    <3>4. CASE x \in r.mods[m].tab[k] /\ y \in r.mods[m2].tab[k]
      BY <3>1, <3>4 DEF Tidy, Tagged, TagsApart
    <3>5. CASE x = sym \/ y = sym
      <4>1. x.addr = t /\ y.addr = t BY <1>1, <3>1, <3>5
      <4>2. QED BY <3>2, <3>3, <4>1
    <3>6. QED BY <3>2, <3>3, <3>4, <3>5
  <2>3. QED BY <1>3, <2>1, <2>2 DEF Tagged
<1>7. EnumsNull(s) BY <1>3, <1>4 DEF Tidy, EnumsNull
<1>8. Shared(s) BY <1>2, <1>3, <1>4 DEF Tidy, Shared
<1>9. ASSUME NEW x, NEW m, x # t, OnlyTagOf(r, x, m) PROVE OnlyTagOf(s, x, m)
  BY <1>1, <1>3, <1>a, <1>9 DEF OnlyTagOf
<1>10. Apart(s, op) BY <1>3, <1>9 DEF Tidy, Apart
<1>11. Nested(r, op) => Nested(s, op) BY <1>3, <1>4 DEF Nested, StackOf
<1>12. OnlyTagOf(s, t, c) BY <1>3, <1>a DEF OnlyTagOf
<1>13. QED BY <1>3, <1>6, <1>7, <1>8, <1>10, <1>11, <1>12 DEF Tidy, s, c

(* A forward reference: its type is a tag of the current module only, if   *)
(* of any, and no other module defines it.                                 *)
LEMMA StructForwardTidy ==
  ASSUME NEW r, NEW op, NEW su \in StructKinds, NEW name \in Tags \cup {NoName},
         Good(r), Tidy(r, op), Room(r, 1)
  PROVE  LET s  == StructForward(r, su, name)
             st == StructRef(r, su, name)
         IN  /\ Tidy(s, op) /\ (Nested(r, op) => Nested(s, op)) /\ SameIntrinsics(r, s)
             /\ s.nmods = r.nmods
             /\ s.mods[CurrentModule(r)].current_struct = Cur(r).current_struct
             /\ st \in TypesOf(s) /\ OnlyTagOf(s, st, CurrentModule(r))
             /\ NotOpenElsewhere(s, op, st, CurrentModule(r))
<1> DEFINE c == CurrentModule(r)
           obj == NewObject(su, name, 0, 0, <<>>)
           u == Alloc(r, obj)
           t == r.next
<1>0. c \in 1..r.nmods /\ c \in ModId /\ 1..r.nmods \subseteq ModId /\ 1 \in 1..r.nmods
  BY CurrentModuleType, ModuleIds
<1>1. CASE StructKnown(r, su, name)
  <2> DEFINE st == Lookup(Cur(r).tab[su], name).addr
             sym == Lookup(Cur(r).tab[su], name)
  <2>1. sym \in r.mods[c].tab[su] BY <1>1 DEF StructKnown, Found, Lookup, Matches, Cur
  <2>2. StructForward(r, su, name) = r /\ StructRef(r, su, name) = sym.addr
    BY <1>1 DEF StructForward, StructRef
  <2> HIDE DEF sym
  <2>3. /\ TagsName(r, c, su)
        /\ sym.addr \in TypesOf(r) /\ r.heap[sym.addr].kind = su
    BY <1>0, <2>1 DEF Tidy, Tagged, TagsName
  <2>4. ASSUME NEW m \in 1..r.nmods, NEW k \in StructKinds, NEW x \in r.mods[m].tab[k],
               x.addr = sym.addr
        PROVE  m = c
    <3>1. r.heap[x.addr].kind = k BY DEF Tidy, Tagged, TagsName
    <3>2. k = su BY <2>3, <2>4, <3>1
    <3>3. TagsApart(r, m, c, su) BY <1>0 DEF Tidy, Tagged
    <3>4. QED BY <2>1, <2>4, <3>2, <3>3 DEF TagsApart
  <2>5. OnlyTagOf(r, sym.addr, c) BY <2>4 DEF OnlyTagOf
  <2>6. NotOpenElsewhere(r, op, sym.addr, c)
    BY <1>0, <2>1 DEF NotOpenElsewhere, Tidy, Apart, OnlyTagOf
  <2>7. SameIntrinsics(r, r) BY DEF SameIntrinsics, KeepsIntrinsics
  <2>8. QED BY <2>2, <2>3, <2>5, <2>6, <2>7 DEF Cur
<1>2. CASE ~StructKnown(r, su, name)
  <2>1. /\ su \in Kinds /\ su \in TypeKinds /\ su \in Tables /\ name \in AllNames
        /\ 0 \in Ref /\ 0 \in Int
    BY RefFacts DEF Kinds, TypeKinds, AllNames, Tables, StructKinds
  <2>2. obj \in Object /\ obj.kind = su BY <2>1, EmptyObjectType
  <2>3. obj.name = name BY DEF NewObject
  <2>4. StructRef(r, su, name) = t BY <1>2 DEF StructRef
  <2>5. StructForward(r, su, name) = IF name = NoName THEN u ELSE AddSymbol(u, su, name, t, 0)
    BY <1>2 DEF StructForward
  <2> HIDE DEF obj
  <2>6. /\ Good(u) /\ t \in ObjId /\ u.heap = [r.heap EXCEPT ![t] = obj] /\ u.next = t + 1
        /\ CurrentModule(u) = c
    BY <2>2, AllocType
  <2>7. Quiet(r, u) /\ u.nmods = r.nmods BY <2>2, QuietAlloc DEF Quiet
  <2>8. u.mods = r.mods BY DEF Alloc, Good, Registry
  <2>9. Tidy(u, op) /\ (Nested(r, op) => Nested(u, op)) BY <2>7, QuietTidy
  <2>10. t \in Nat /\ t \notin TypesOf(r) BY NextIsNew
  <2>11. u.heap[t] = obj /\ t \in TypesOf(u)
    <3>1. u.heap[t] = obj BY <2>6, ModuleIds
    <3>2. t < u.next BY <2>6, <2>10
    <3>3. QED BY <2>1, <2>2, <2>6, <3>1, <3>2 DEF TypesOf, IsType, Live
  <2> HIDE DEF u
  <2>12. \A m \in 1..u.nmods, k \in StructKinds : \A x \in u.mods[m].tab[k] : x.addr # t
    BY <2>7, <2>8, <2>10 DEF Tidy, Tagged, TagsName
  <2>13. \A m \in 1..u.nmods : \A i \in DOMAIN op[m] : op[m][i] # t
    BY <2>7, <2>10 DEF Tidy, Apart
  <2>14. SameIntrinsics(r, u)
    BY <1>0, <2>7, <2>8 DEF SameIntrinsics, Quiet
  <2>15. CASE name = NoName
    <3>1. OnlyTagOf(u, t, c) BY <2>12 DEF OnlyTagOf
    <3>2. NotOpenElsewhere(u, op, t, c) BY <2>13 DEF NotOpenElsewhere
    <3>3. QED
      BY <2>4, <2>5, <2>7, <2>8, <2>9, <2>11, <2>14, <2>15, <3>1, <3>2 DEF Cur
  <2>16. CASE name # NoName
    <3> DEFINE s == AddSymbol(u, su, name, t, 0)
               sym == [name |-> name, addr |-> t, type |-> 0]
    <3>1. ~Found(Cur(u).tab[su], name)
      BY <1>2, <2>6, <2>8, <2>16 DEF StructKnown, Cur
    <3>2. /\ Tidy(s, op) /\ (Nested(u, op) => Nested(s, op))
          /\ t \in TypesOf(s) /\ OnlyTagOf(s, t, c)
      BY <2>1, <2>2, <2>3, <2>6, <2>9, <2>11, <2>12, <2>13, <3>1, NewTagTidy
    <3>3. SymbolEntered(u, s, su, sym) BY <2>1, <2>6, AddSymbolEffect
    <3> HIDE DEF s, sym
    <3>4. s.nmods = r.nmods BY <2>7, <3>3 DEF SymbolEntered
    <3>5. s.mods[c].current_struct = Cur(r).current_struct
      BY <1>0, <2>8, <3>3 DEF SymbolEntered, Cur
    <3>6. SameIntrinsics(r, s)
      <4>1. s.itab = u.itab BY <3>3 DEF SymbolEntered
      <4>2. s.mods[1].intrinsic = u.mods[1].intrinsic BY <1>0, <3>3 DEF SymbolEntered
      <4>3. QED BY <2>14, <4>1, <4>2 DEF SameIntrinsics, KeepsIntrinsics
    <3>7. NotOpenElsewhere(s, op, t, c) BY <2>7, <2>13, <3>4 DEF NotOpenElsewhere
    <3>8. StructForward(r, su, name) = s BY <2>5, <2>16 DEF s
    <3>9. QED BY <2>4, <2>9, <3>2, <3>4, <3>5, <3>6, <3>7, <3>8
  <2>17. QED BY <2>15, <2>16
<1>3. QED BY <1>1, <1>2

(* The prev and scope of one type written, as ggrt_struct does.            *)
WithPrev(s, t, cs) ==
  [s EXCEPT !.heap = [@ EXCEPT ![t] = [s.heap[t] EXCEPT !.scope = cs, !.prev = cs]]]

LEMMA OpenTypeTidy ==
  ASSUME NEW s, NEW op, NEW t \in TypesOf(s), NEW cs \in Ref, Good(s), Tidy(s, op)
  PROVE  LET v == WithPrev(s, t, cs)
         IN  /\ Good(v) /\ CurrentModule(v) = CurrentModule(s)
             /\ v.nmods = s.nmods /\ v.mods = s.mods /\ v.itab = s.itab
             /\ v.heap[t].prev = cs /\ TypesOf(v) = TypesOf(s)
             /\ \A i \in ObjId : i # t => v.heap[i] = s.heap[i]
             /\ Tagged(v) /\ EnumsNull(v) /\ Shared(v) /\ Apart(v, op)
<1> DEFINE obj == [s.heap[t] EXCEPT !.scope = cs, !.prev = cs]
           v   == [s EXCEPT !.heap = [@ EXCEPT ![t] = obj]]
<1>1. s.heap \in [ObjId -> Object] /\ t \in ObjId /\ t \in Ref
  BY ModuleIds, RefFacts
<1>2. /\ obj \in Object /\ obj.kind = s.heap[t].kind /\ obj.rtn = s.heap[t].rtn
      /\ obj.len = s.heap[t].len /\ obj.pointer_to = s.heap[t].pointer_to
      /\ obj.array0_of = s.heap[t].array0_of /\ obj.name = s.heap[t].name /\ obj.prev = cs
  <2>1. s.heap[t] \in Object BY <1>1
  <2>2. QED BY <2>1 DEF Object
<1> HIDE DEF obj
<1>3. Good(v) /\ CurrentModule(v) = CurrentModule(s)
  BY <1>1, <1>2, TouchObject
<1>4. /\ v.heap = [s.heap EXCEPT ![t] = obj] /\ v.next = s.next
      /\ v.nmods = s.nmods /\ v.mods = s.mods /\ v.itab = s.itab
  BY DEF Good, Registry
<1> HIDE DEF v
<1>5. v.heap[t].prev = cs /\ \A i \in ObjId : i # t => v.heap[i] = s.heap[i]
  BY <1>1, <1>2, <1>4
<1>6. \A i \in ObjId : v.heap[i].kind = s.heap[i].kind /\ v.heap[i].name = s.heap[i].name
  BY <1>1, <1>2, <1>4
<1>7. TypesOf(v) = TypesOf(s)
  BY <1>4, <1>6 DEF TypesOf, IsType, Live
<1>8. Tagged(v)
  <2>1. ASSUME NEW m \in 1..s.nmods, NEW su \in StructKinds PROVE TagsName(v, m, su)
    <3>1. TagsName(s, m, su) BY DEF Tidy, Tagged
    <3>2. TypesOf(s) \subseteq ObjId BY DEF TypesOf
    <3>3. QED BY <1>4, <1>6, <1>7, <3>1, <3>2 DEF TagsName
  <2>2. QED BY <1>4, <2>1 DEF Tidy, Tagged, TagsApart
<1>9. EnumsNull(v) /\ Shared(v) BY <1>4 DEF Tidy, EnumsNull, Shared
<1>10. Apart(v, op) BY <1>4, <1>7 DEF Tidy, Apart, OnlyTagOf
<1>11. QED BY <1>3, <1>4, <1>5, <1>7, <1>8, <1>9, <1>10 DEF WithPrev, v, obj

(* current_struct of the current module written: no tag depends on it.     *)
SetCurrent(r, ref) == [r EXCEPT !.mods[CurrentModule(r)].current_struct = ref]

LEMMA SetCurrentEffect ==
  ASSUME NEW r, NEW ref, Good(r)
  PROVE  LET s == SetCurrent(r, ref)
         IN  /\ s.heap = r.heap /\ s.next = r.next /\ s.nmods = r.nmods /\ s.itab = r.itab
             /\ TypesOf(s) = TypesOf(r)
             /\ \A m \in ModId : SameTags(r.mods[m], s.mods[m])
             /\ s.mods[CurrentModule(r)].current_struct = ref
             /\ \A m \in ModId : m # CurrentModule(r) =>
                  s.mods[m].current_struct = r.mods[m].current_struct
<1> DEFINE c == CurrentModule(r)
           md == [r.mods[c] EXCEPT !.current_struct = ref]
           s == [r EXCEPT !.mods = [@ EXCEPT ![c] = md]]
<1>1. c \in ModId /\ r.mods[c] \in Module /\ r.mods \in [ModId -> Module]
  BY CurrentModuleType DEF Good, Registry
<1>2. /\ md.intrinsic = r.mods[c].intrinsic /\ md.tab = r.mods[c].tab
      /\ md.current_struct = ref
  BY <1>1 DEF Module
<1>3. SetCurrent(r, ref) = s BY DEF SetCurrent
<1> HIDE DEF md, c
<1>4. /\ s.heap = r.heap /\ s.next = r.next /\ s.mods = [r.mods EXCEPT ![c] = md]
      /\ s.nmods = r.nmods /\ s.itab = r.itab
  BY DEF Good, Registry
<1> HIDE DEF s
<1>5. \A m \in ModId : /\ s.mods[m].intrinsic = r.mods[m].intrinsic
                       /\ s.mods[m].tab = r.mods[m].tab
                       /\ (m # c => s.mods[m].current_struct = r.mods[m].current_struct)
  BY <1>1, <1>2, <1>4
<1>6. s.mods[c].current_struct = ref BY <1>1, <1>2, <1>4
<1>7. TypesOf(s) = TypesOf(r) BY <1>4 DEF TypesOf, IsType, Live
<1>8. \A m \in ModId : SameTags(r.mods[m], s.mods[m]) BY <1>5 DEF SameTags
<1>9. QED BY <1>3, <1>4, <1>5, <1>6, <1>7, <1>8 DEF c

LEMMA SetCurrentTidy ==
  ASSUME NEW r, NEW ref, NEW op, Good(r), Tidy(r, op)
  PROVE  Tidy(SetCurrent(r, ref), op) /\ SameIntrinsics(r, SetCurrent(r, ref))
<1> DEFINE s == SetCurrent(r, ref)
<1>1. /\ s.heap = r.heap /\ s.nmods = r.nmods /\ s.itab = r.itab /\ TypesOf(s) = TypesOf(r)
      /\ \A m \in ModId : SameTags(r.mods[m], s.mods[m])
  BY SetCurrentEffect
<1> HIDE DEF s
<1>2. 1..r.nmods \subseteq ModId /\ 1 \in 1..r.nmods BY ModuleIds
<1>3. \A m \in 1..r.nmods : /\ s.mods[m].intrinsic = r.mods[m].intrinsic
                            /\ \A su \in StructKinds : s.mods[m].tab[su] = r.mods[m].tab[su]
                            /\ \A x \in s.mods[m].tab["enum"] :
                                 x.addr = 0 \/ x \in r.mods[m].tab["enum"]
  BY <1>1, <1>2 DEF SameTags
<1>4. Tagged(s) BY <1>1, <1>3 DEF Tidy, Tagged, TagsName, TagsApart
<1>5. EnumsNull(s) BY <1>1, <1>3 DEF Tidy, EnumsNull
<1>6. Shared(s) BY <1>1, <1>2, <1>3 DEF Tidy, Shared
<1>7. Apart(s, op) BY <1>1, <1>3 DEF Tidy, Apart, OnlyTagOf
<1>8. SameIntrinsics(r, s) BY <1>1, <1>2, <1>3 DEF SameIntrinsics, KeepsIntrinsics
<1>9. QED BY <1>4, <1>5, <1>6, <1>7, <1>8 DEF Tidy, s

(* ggrt_struct pushes on the stack of the current module.                  *)
LEMMA StructTidy ==
  ASSUME NEW r, NEW su \in StructKinds, NEW name \in Tags \cup {NoName},
         NEW op \in [ModId -> Seq(Ref)], Good(r), Tidy(r, op), Room(r, 1)
  PROVE  LET s   == Struct(r, su, name)
             st  == StructRef(r, su, name)
             op2 == [op EXCEPT ![CurrentModule(r)] = Append(@, st)]
         IN  /\ Tidy(s, op2) /\ SameIntrinsics(r, s)
             /\ Nested(r, op) /\ ~IsIn(st, op[CurrentModule(r)]) => Nested(s, op2)
<1> DEFINE u   == StructForward(r, su, name)
           st  == StructRef(r, su, name)
           cs  == Cur(r).current_struct
           c   == CurrentModule(r)
           v   == WithPrev(u, st, cs)
           s   == SetCurrent(v, st)
           op2 == [op EXCEPT ![c] = Append(@, st)]
<1>1. /\ Good(u) /\ CurrentModule(u) = c /\ cs \in Ref
      /\ c \in 1..r.nmods /\ c \in ModId /\ 1..r.nmods \subseteq ModId /\ 1 \in 1..r.nmods
  BY StructForwardPlain, CurrentModuleType, ModuleIds DEF Module, StructKinds
<1>2. /\ Tidy(u, op) /\ (Nested(r, op) => Nested(u, op)) /\ SameIntrinsics(r, u)
      /\ u.nmods = r.nmods /\ u.mods[c].current_struct = cs
      /\ st \in TypesOf(u) /\ OnlyTagOf(u, st, c) /\ NotOpenElsewhere(u, op, st, c)
  BY StructForwardTidy
<1> HIDE DEF u, st, cs, c
<1>3. /\ Good(v) /\ CurrentModule(v) = c
      /\ v.nmods = u.nmods /\ v.mods = u.mods /\ v.itab = u.itab
      /\ v.heap[st].prev = cs
      /\ \A i \in ObjId : i # st => v.heap[i] = u.heap[i]
      /\ TypesOf(v) = TypesOf(u) /\ Tidy(v, op)
  BY <1>1, <1>2, OpenTypeTidy DEF Tidy
<1>4. Struct(r, su, name) = s BY <1>3 DEF Struct, SetCurrent, WithPrev, u, st, cs, c
<1>5. TypesOf(v) = TypesOf(u) BY <1>3
<1> HIDE DEF v
<1>6. /\ Tidy(s, op) /\ SameIntrinsics(v, s) /\ s.heap = v.heap /\ s.nmods = v.nmods
      /\ TypesOf(s) = TypesOf(v)
      /\ \A m \in ModId : SameTags(v.mods[m], s.mods[m])
      /\ s.mods[c].current_struct = st
      /\ \A m \in ModId : m # c => s.mods[m].current_struct = v.mods[m].current_struct
  BY <1>3, SetCurrentEffect, SetCurrentTidy
<1> HIDE DEF s
<1>7. SameIntrinsics(r, s)
  <2>1. KeepsIntrinsics(r, u) /\ v.itab = u.itab BY <1>2, <1>3 DEF SameIntrinsics
  <2>2. KeepsIntrinsics(u, v) BY <2>1 DEF KeepsIntrinsics
  <2>3. KeepsIntrinsics(v, s) BY <1>6 DEF SameIntrinsics
  <2>4. KeepsIntrinsics(r, s) BY <2>1, <2>2, <2>3 DEF KeepsIntrinsics, Found
  <2>5. s.mods[1].intrinsic = r.mods[1].intrinsic BY <1>2, <1>3, <1>6 DEF SameIntrinsics
  <2>6. QED BY <2>4, <2>5 DEF SameIntrinsics
<1>8. op[c] \in Seq(Ref) /\ st \in Ref BY <1>1, <1>2, RefFacts
<1>9. /\ \A m \in ModId : m # c => op2[m] = op[m]
      /\ op2[c] = Append(op[c], st) /\ Len(op2[c]) = Len(op[c]) + 1
      /\ DOMAIN op2[c] = 1..Len(op[c]) + 1 /\ DOMAIN op[c] = 1..Len(op[c])
      /\ op2[c][Len(op[c]) + 1] = st /\ Len(op[c]) \in Nat
      /\ \A i \in 1..Len(op[c]) : op2[c][i] = op[c][i]
  BY <1>1, <1>8
<1> HIDE DEF op2
<1>10. OnlyTagOf(s, st, c)
  <2>1. OnlyTagOf(v, st, c) BY <1>2, <1>3 DEF OnlyTagOf
  <2>2. \A m \in 1..v.nmods, k \in StructKinds : s.mods[m].tab[k] = v.mods[m].tab[k]
    BY <1>1, <1>2, <1>3, <1>6 DEF SameTags
  <2>3. QED BY <1>6, <2>1, <2>2 DEF OnlyTagOf
<1>11. Apart(s, op2)
  <2>0. Apart(s, op) BY <1>6 DEF Tidy
  <2>1. \A m \in ModId : m > s.nmods => op2[m] = <<>>
    <3>1. s.nmods = r.nmods BY <1>2, <1>3, <1>6
    <3>2. r.nmods \in Nat /\ ~(c > r.nmods) BY <1>1, ModuleIds
    <3>3. QED BY <1>9, <2>0, <3>1, <3>2 DEF Apart
  <2>2. ASSUME NEW m \in 1..s.nmods, NEW i \in DOMAIN op2[m]
        PROVE  op2[m][i] \in TypesOf(s) /\ OnlyTagOf(s, op2[m][i], m)
    <3>1. m \in ModId BY <1>1, <1>2, <1>3, <1>6
    <3>2. CASE m # c BY <1>9, <2>0, <2>2, <3>1, <3>2 DEF Apart
    <3>3. CASE m = c /\ i = Len(op[c]) + 1
      BY <1>2, <1>5, <1>6, <1>9, <1>10, <3>3
    <3>4. CASE m = c /\ i # Len(op[c]) + 1
      <4>1. i \in DOMAIN op[c] /\ op2[c][i] = op[c][i] BY <1>9, <3>4
      <4>2. QED BY <2>0, <3>4, <4>1 DEF Apart
    <3>5. QED BY <3>2, <3>3, <3>4
  <2>3. QED BY <2>1, <2>2 DEF Apart
<1>12. ASSUME Nested(r, op), ~IsIn(st, op[c]) PROVE Nested(s, op2)
  <2>1. \A m \in 1..u.nmods : StackOf(u, m, op[m]) BY <1>2, <1>12 DEF Nested
  <2>2. ASSUME NEW m \in 1..u.nmods, NEW i \in DOMAIN op[m]
        PROVE  s.heap[op[m][i]].prev = u.heap[op[m][i]].prev
    <3>1. op[m][i] # st BY <1>2, <1>12 DEF NotOpenElsewhere, IsIn
    <3>2. op[m][i] \in ObjId BY <1>2 DEF Tidy, Apart, TypesOf
    <3>3. QED BY <1>3, <1>6, <3>1, <3>2
  <2>3. ASSUME NEW m \in 1..u.nmods, m # c PROVE StackOf(s, m, op2[m])
    <3>1. m \in ModId BY <1>1, <1>2
    <3>2. op2[m] = op[m] /\ s.mods[m].current_struct = u.mods[m].current_struct
      BY <1>3, <1>6, <1>9, <2>3, <3>1
    <3>3. QED BY <2>1, <2>2, <3>2, SMTT(20) DEF StackOf
  <2>4. StackOf(s, c, op2[c])
    <3>1. c \in 1..u.nmods /\ StackOf(u, c, op[c]) BY <1>1, <1>2, <2>1
    <3>2. op2[c] # <<>> /\ op2[c][Len(op2[c])] = st BY <1>8, <1>9
    <3>3. ASSUME NEW i \in DOMAIN op2[c]
          PROVE  s.heap[op2[c][i]].prev = (IF i = 1 THEN 0 ELSE op2[c][i - 1])
      <4>1. CASE i = Len(op[c]) + 1
        <5>1. s.heap[op2[c][i]].prev = cs BY <1>3, <1>6, <1>9, <4>1
        <5>2. cs = (IF op[c] = <<>> THEN 0 ELSE op[c][Len(op[c])])
          BY <1>2, <3>1 DEF StackOf
        <5>3. CASE op[c] = <<>> BY <4>1, <5>1, <5>2, <5>3
        <5>4. CASE op[c] # <<>>
          <6>1. Len(op[c]) \in 1..Len(op[c]) BY <1>8, <5>4
          <6>2. i - 1 = Len(op[c]) /\ i # 1 BY <1>9, <4>1, <6>1
          <6>3. op2[c][i - 1] = op[c][Len(op[c])] BY <1>9, <6>1, <6>2
          <6>4. QED BY <5>1, <5>2, <5>4, <6>2, <6>3
        <5>5. QED BY <5>3, <5>4
      <4>2. CASE i # Len(op[c]) + 1
        <5>1. i \in DOMAIN op[c] /\ i \in 1..Len(op[c]) BY <1>9, <4>2
        <5>2. s.heap[op[c][i]].prev = (IF i = 1 THEN 0 ELSE op[c][i - 1])
          BY <2>2, <3>1, <5>1 DEF StackOf
        <5>3. i # 1 => i - 1 \in 1..Len(op[c]) BY <1>9, <5>1
        <5>4. QED BY <1>9, <5>1, <5>2, <5>3
      <4>3. QED BY <4>1, <4>2
    <3>4. QED BY <1>6, <3>2, <3>3 DEF StackOf
  <2>5. s.nmods = u.nmods BY <1>3, <1>6
  <2>6. QED BY <2>3, <2>4, <2>5 DEF Nested
<1>13. Tidy(s, op2) BY <1>6, <1>11 DEF Tidy
<1>14. QED BY <1>4, <1>7, <1>12, <1>13 DEF op2, st, c

(* ggrt_struct_end pops the stack of the current module.                   *)
LEMMA StructEndTidy ==
  ASSUME NEW r, NEW op \in [ModId -> Seq(Ref)], Good(r), Tidy(r, op),
         op[CurrentModule(r)] # <<>>
  PROVE  LET c   == CurrentModule(r)
             s   == StructEnd(r, Cur(r).current_struct)
             op2 == [op EXCEPT ![c] = SubSeq(@, 1, Len(@) - 1)]
         IN  /\ Tidy(s, op2) /\ SameIntrinsics(r, s)
             /\ Nested(r, op) => Nested(s, op2)
<1> DEFINE c   == CurrentModule(r)
           st  == Cur(r).current_struct
           ref == r.heap[st].prev
           s   == SetCurrent(r, ref)
           op2 == [op EXCEPT ![c] = SubSeq(@, 1, Len(@) - 1)]
           n   == Len(op[c])
<1>1. c \in 1..r.nmods /\ c \in ModId /\ 1..r.nmods \subseteq ModId
  BY CurrentModuleType, ModuleIds
<1>2. /\ Tidy(s, op) /\ SameIntrinsics(r, s) /\ s.heap = r.heap /\ s.nmods = r.nmods
      /\ s.mods[c].current_struct = r.heap[st].prev
      /\ \A m \in ModId : m # c => s.mods[m].current_struct = r.mods[m].current_struct
  <2> HIDE DEF ref
  <2>1. Tidy(s, op) /\ SameIntrinsics(r, s) BY SetCurrentTidy
  <2>2. /\ s.heap = r.heap /\ s.nmods = r.nmods
        /\ s.mods[c].current_struct = ref
        /\ \A m \in ModId : m # c => s.mods[m].current_struct = r.mods[m].current_struct
    BY SetCurrentEffect
  <2>3. QED BY <2>1, <2>2 DEF ref
<1>3. StructEnd(r, Cur(r).current_struct) = s BY DEF StructEnd, SetCurrent
<1> HIDE DEF s
<1>4. op[c] \in Seq(Ref) /\ n \in Nat \ {0} BY <1>1
<1>5. /\ \A m \in ModId : m # c => op2[m] = op[m]
      /\ Len(op2[c]) = n - 1 /\ DOMAIN op2[c] = 1..n - 1 /\ DOMAIN op[c] = 1..n
      /\ \A i \in 1..n - 1 : op2[c][i] = op[c][i]
      /\ (op2[c] = <<>> <=> n = 1)
  <2>1. op2[c] = SubSeq(op[c], 1, n - 1) /\ \A m \in ModId : m # c => op2[m] = op[m]
    BY <1>1
  <2>2. op[c] \in Seq(Ref) /\ n = Len(op[c]) /\ n \in Nat \ {0} BY <1>4
  <2> HIDE DEF op2, n
  <2>3. Len(op2[c]) = n - 1 /\ \A i \in 1..n - 1 : op2[c][i] = op[c][i]
    BY <2>1, <2>2, SubSeqProperties
  <2>4. op2[c] \in Seq(Ref) BY <2>1, <2>2, SubSeqProperties
  <2>5. DOMAIN op2[c] = 1..n - 1 /\ DOMAIN op[c] = 1..n BY <2>2, <2>3, <2>4
  <2>6. op2[c] = <<>> <=> n = 1
    <3>1. op2[c] = <<>> <=> Len(op2[c]) = 0 BY <2>4, EmptySeq
    <3>2. Len(op2[c]) = 0 <=> n = 1 BY <2>2, <2>3
    <3>3. QED BY <3>1, <3>2
  <2>7. QED BY <2>1, <2>3, <2>5, <2>6
<1> HIDE DEF op2, c, n
<1>6. Apart(s, op2)
  <2>0. Apart(s, op) BY <1>2 DEF Tidy
  <2>1. \A m \in ModId : m > s.nmods => op2[m] = <<>>
    <3>1. r.nmods \in Nat /\ ~(c > r.nmods) BY <1>1, ModuleIds
    <3>2. QED BY <1>2, <1>5, <2>0, <3>1 DEF Apart
  <2>2. ASSUME NEW m \in 1..s.nmods, NEW i \in DOMAIN op2[m]
        PROVE  op2[m][i] \in TypesOf(s) /\ OnlyTagOf(s, op2[m][i], m)
    <3>1. m \in ModId BY <1>1, <1>2
    <3>2. CASE m # c BY <1>5, <2>0, <2>2, <3>1, <3>2 DEF Apart
    <3>3. CASE m = c
      <4>0. i \in 1..n - 1 BY <1>5, <3>3
      <4>1. i \in DOMAIN op[c] /\ op2[c][i] = op[c][i] BY <1>4, <1>5, <4>0
      <4>2. QED BY <2>0, <3>3, <4>1 DEF Apart
    <3>4. QED BY <3>2, <3>3
  <2>3. QED BY <2>1, <2>2 DEF Apart
<1>7. ASSUME Nested(r, op) PROVE Nested(s, op2)
  <2>1. ASSUME NEW m \in 1..r.nmods, m # c PROVE StackOf(s, m, op2[m])
    <3>1. m \in ModId /\ StackOf(r, m, op[m]) BY <1>1, <1>7 DEF Nested
    <3>2. op2[m] = op[m] /\ s.mods[m].current_struct = r.mods[m].current_struct
      BY <1>2, <1>5, <2>1, <3>1
    <3>3. QED BY <1>2, <3>1, <3>2 DEF StackOf
  <2>2. StackOf(s, c, op2[c])
    <3>1. StackOf(r, c, op[c]) BY <1>1, <1>7 DEF Nested
    <3>2. op[c] # <<>> BY DEF c
    <3>3. st = op[c][n] /\ n \in DOMAIN op[c] BY <1>4, <1>5, <3>1, <3>2 DEF StackOf, Cur, c, n
    <3>4. s.mods[c].current_struct = (IF n = 1 THEN 0 ELSE op[c][n - 1])
      BY <1>2, <3>1, <3>3 DEF StackOf
    <3>5. s.mods[c].current_struct = (IF op2[c] = <<>> THEN 0 ELSE op2[c][Len(op2[c])])
      BY <1>4, <1>5, <3>4
    <3>6. ASSUME NEW i \in DOMAIN op2[c]
          PROVE  s.heap[op2[c][i]].prev = (IF i = 1 THEN 0 ELSE op2[c][i - 1])
      <4>1. i \in DOMAIN op[c] /\ i \in 1..n - 1 /\ (i # 1 => i - 1 \in 1..n - 1)
        BY <1>4, <1>5
      <4>2. r.heap[op[c][i]].prev = (IF i = 1 THEN 0 ELSE op[c][i - 1])
        BY <3>1, <4>1 DEF StackOf
      <4>3. QED BY <1>2, <1>5, <4>1, <4>2
    <3>7. QED BY <3>5, <3>6 DEF StackOf
  <2>3. QED BY <1>2, <2>1, <2>2 DEF Nested
<1>8. Tidy(s, op2) BY <1>2, <1>6 DEF Tidy
<1>9. QED BY <1>2, <1>3, <1>7, <1>8 DEF op2, c

-----------------------------------------------------------------------------
(* The state machine.                                                      *)

(* The inductive invariant, on top of the one of TypeRegistryProofs.       *)
TagInv == Tidy(rt, open) /\ (reopened \/ Nested(rt, open))

LEMMA InitTagInv == Init => TagInv
<1> SUFFICES ASSUME Init PROVE TagInv OBVIOUS
<1> DEFINE e == EmptyRegistry
           md == NewModule(0, 1)
<1>1. /\ e.nmods = 0 /\ e.def = 0 /\ e.mods \in [ModId -> {NewModule(0, 0)}]
      /\ 1 \in ModId
  BY BoundsAssumption DEF EmptyRegistry, ModId
<1>2. rt.nmods = 1 /\ rt.mods = [e.mods EXCEPT ![1] = md]
  <2>1. MModule(e) = [e EXCEPT !.nmods = 1, !.mods[1] = md]
    BY <1>1 DEF MModule
  <2>2. DOMAIN e = {"heap", "next", "mods", "nmods", "itab", "cur", "def", "halt"}
    BY DEF EmptyRegistry
  <2> HIDE DEF e, md
  <2>3. rt = [MModule(e) EXCEPT !.def = MModule(e).nmods, !.cur = 0]
    BY DEF Init, CtxReset, e
  <2>4. QED BY <2>1, <2>2, <2>3
<1>3. rt.mods[1] = md BY <1>1, <1>2
<1>4. /\ md.current_struct = 0 /\ md.tab["enum"] = {}
      /\ \A su \in StructKinds : md.tab[su] = {}
  BY DEF NewModule, Tables, StructKinds
<1> HIDE DEF md
<1>5. \A m \in 1..rt.nmods : m = 1 BY <1>2
<1>6. \A m \in ModId : open[m] = <<>> BY DEF Init
<1>7. Tagged(rt) /\ EnumsNull(rt) /\ Shared(rt)
  BY <1>3, <1>4, <1>5 DEF Tagged, TagsName, TagsApart, EnumsNull, Shared
<1>8. Apart(rt, open) BY <1>1, <1>5, <1>6 DEF Apart
<1>9. Nested(rt, open) BY <1>1, <1>3, <1>4, <1>5, <1>6 DEF Nested, StackOf
<1>10. QED BY <1>7, <1>8, <1>9 DEF TagInv, Tidy

LEMMA QuietCall ==
  ASSUME IInv, TagInv, NEW s, Call(s), Quiet(rt, s)
  PROVE  TagInv' /\ SameIntrinsics(rt, rt')
<1>1. rt' = s /\ open' = open /\ reopened' = reopened BY DEF Call
<1>2. Tidy(s, open) /\ (Nested(rt, open) => Nested(s, open))
  BY QuietTidy DEF IInv, TagInv
<1>3. SameIntrinsics(rt, s)
  BY ModuleIds DEF IInv, Quiet, SameIntrinsics, SameTags
<1>4. QED BY <1>1, <1>2, <1>3 DEF TagInv

LEMMA MadeCall ==
  ASSUME IInv, TagInv, NEW s, Call(s), ModRoom(rt), ModuleMade(rt, s)
  PROVE  TagInv' /\ SameIntrinsics(rt, rt')
<1>1. rt' = s /\ open' = open /\ reopened' = reopened BY DEF Call
<1>2. Tidy(s, open) /\ (Nested(rt, open) => Nested(s, open))
  BY MadeTidy DEF IInv, TagInv
<1>3. SameIntrinsics(rt, s)
  BY ModuleIds DEF IInv, ModuleMade, SameIntrinsics, KeepsIntrinsics, SameTags
<1>4. QED BY <1>1, <1>2, <1>3 DEF TagInv

LEMMA TagStep ==
  ASSUME IInv, TagInv, Next
  PROVE  TagInv' /\ SameIntrinsics(rt, rt')
<1> USE DEF IInv
<1>r. \A x \in Ref : x # 0 => x \in ObjId BY BoundsAssumption DEF Ref, ObjId
<1>e. EnumsNull(rt) /\ Tidy(rt, open) BY DEF TagInv, Tidy
<1>1. CASE DoReset BY <1>1, CtxResetMade, MadeCall DEF DoReset
<1>2. CASE DoModuleBegin BY <1>2, ModuleBeginMade, MadeCall DEF DoModuleBegin
<1>3. CASE DoModuleEnd BY <1>3, ModuleEndQuiet, QuietCall DEF DoModuleEnd
<1>4. CASE DoIntrinsic BY <1>4, IntrinsicQuiet, QuietCall DEF DoIntrinsic
<1>5. CASE DoTypedef BY <1>5, TypedefQuiet, QuietCall DEF DoTypedef
<1>6. CASE DoGlobal BY <1>6, GlobalQuiet, QuietCall DEF DoGlobal
<1>7. CASE DoPointer BY <1>7, PointerQuiet, QuietCall DEF DoPointer
<1>8. CASE DoArray BY <1>8, ArrayQuiet, QuietCall, LensAssumption DEF DoArray
<1>9. CASE DoBitfield BY <1>9, BitfieldQuiet, QuietCall DEF DoBitfield
<1>10. CASE DoPlaceholder BY <1>10, PlaceholderQuiet, QuietCall DEF DoPlaceholder
<1>11. CASE DoFunc BY <1>11, FuncQuiet, QuietCall DEF DoFunc
<1>12. CASE DoStructForward
  <2>1. PICK su \in StructKinds, n \in Tags :
          Room(rt, 1) /\ Call(StructForward(rt, su, n))
    BY <1>12 DEF DoStructForward, StructKinds
  <2>2. /\ Tidy(StructForward(rt, su, n), open)
        /\ Nested(rt, open) => Nested(StructForward(rt, su, n), open)
        /\ SameIntrinsics(rt, StructForward(rt, su, n))
    BY <1>e, <2>1, StructForwardTidy
  <2>3. QED BY <2>1, <2>2 DEF Call, TagInv
<1>13. CASE DoStruct
  <2>1. PICK su \in StructKinds, n \in Tags \cup {NoName} :
          /\ Room(rt, 1) /\ rt' = Struct(rt, su, n)
          /\ open' = [open EXCEPT ![CurrentModule(rt)] = Append(@, StructRef(rt, su, n))]
          /\ reopened' = (reopened \/ IsIn(StructRef(rt, su, n), OpenHere))
    BY <1>13 DEF DoStruct, StructKinds
  <2>2. /\ Tidy(rt', open') /\ SameIntrinsics(rt, rt')
        /\ Nested(rt, open) /\ ~IsIn(StructRef(rt, su, n), OpenHere) => Nested(rt', open')
    BY <1>e, <2>1, StructTidy DEF OpenHere
  <2>3. QED BY <2>1, <2>2 DEF TagInv
<1>14. CASE DoStructElem
  <2>1. PICK n \in ElemNames, t \in TypesOf(rt) :
          /\ Cur(rt).current_struct # 0
          /\ Call(StructElem(rt, Cur(rt).current_struct, n, t))
    BY <1>14 DEF DoStructElem
  <2>2. Cur(rt).current_struct \in ObjId BY <1>r, <2>1, CurrentRefs
  <2>3. Quiet(rt, StructElem(rt, Cur(rt).current_struct, n, t))
    BY <2>2, AppendElemQuiet DEF StructElem
  <2>4. QED BY <2>1, <2>3, QuietCall
<1>15. CASE DoStructEnd
  <2>1. /\ OpenHere # <<>> /\ rt' = StructEnd(rt, Cur(rt).current_struct)
        /\ open' = [open EXCEPT ![CurrentModule(rt)] = SubSeq(@, 1, Len(@) - 1)]
        /\ reopened' = reopened
    BY <1>15 DEF DoStructEnd
  <2>2. /\ Tidy(rt', open') /\ SameIntrinsics(rt, rt')
        /\ Nested(rt, open) => Nested(rt', open')
    BY <1>e, <2>1, StructEndTidy DEF OpenHere
  <2>3. QED BY <2>1, <2>2 DEF TagInv
<1>16. CASE DoEnumForward
  <2>1. PICK n \in Tags : Room(rt, 1) /\ Call(EnumForward(rt, n))
    BY <1>16 DEF DoEnumForward
  <2>2. QED BY <2>1, EnumForwardQuiet, QuietCall
<1>17. CASE DoEnum BY <1>17, <1>e, EnumQuiet, QuietCall DEF DoEnum
<1>18. CASE DoEnumElem
  BY <1>18, <1>r, CurrentRefs, EnumElemQuiet, QuietCall DEF DoEnumElem
<1>19. CASE DoEnumEnd BY <1>19, EnumEndQuiet, QuietCall DEF DoEnumEnd
<1>20. QED
  BY <1>1, <1>2, <1>3, <1>4, <1>5, <1>6, <1>7, <1>8, <1>9, <1>10, <1>11, <1>12, <1>13,
     <1>14, <1>15, <1>16, <1>17, <1>18, <1>19 DEF Next

LEMMA TagInvariance == Spec => [](IInv /\ TagInv)
<1>1. IInv /\ TagInv /\ [Next]_vars => (IInv /\ TagInv)'
  <2>1. IInv /\ TagInv /\ Next => (IInv /\ TagInv)' BY NextStep, TagStep
  <2>2. IInv /\ TagInv /\ UNCHANGED vars => (IInv /\ TagInv)' BY DEF IInv, TagInv, vars
  <2>3. QED BY <2>1, <2>2
<1>2. Init => IInv /\ TagInv BY InitIInv, InitTagInv
<1>3. QED BY <1>1, <1>2, PTL DEF Spec

(* Within a module a tag names one struct or union, whichever of forward   *)
(* reference, definition and use came first, and no struct has two tags.   *)
THEOREM TagsNameOneType == Spec => []OneTypePerTag
<1>1. ASSUME IInv, TagInv PROVE OneTypePerTag
  <2> SUFFICES ASSUME NEW m \in 1..rt.nmods, NEW su \in StructKinds
               PROVE  \A s, s2 \in rt.mods[m].tab[su] :
                        /\ IsType(rt, s.addr)
                        /\ rt.heap[s.addr].kind = su /\ rt.heap[s.addr].name = s.name
                        /\ s.name = s2.name => s = s2
                        /\ s.addr = s2.addr => s = s2
    BY DEF OneTypePerTag, StructKinds
  <2>1. TagsName(rt, m, su) /\ TagsApart(rt, m, m, su) BY <1>1 DEF TagInv, Tidy, Tagged
  <2>2. QED BY <2>1 DEF TagsName, TagsApart, TypesOf
<1>2. QED BY <1>1, TagInvariance, PTL

(* Struct definitions nest in every module, also when modules are switched *)
(* in the middle of one: prev leads from each to the one around it, unless *)
(* a struct was opened again before it was closed.                         *)
THEOREM StructsAlwaysNest == Spec => []StructsNest
<1>1. IInv /\ TagInv => StructsNest BY DEF TagInv, StructsNest, Nested, StackOf
<1>2. QED BY <1>1, TagInvariance, PTL

(* Every module, the default modules of later resets included, has the     *)
(* intrinsic types of the first, and an intrinsic never moves.             *)
THEOREM IntrinsicsAreShared == Spec => IntrinsicsShared
<1> DEFINE Moved == \A m \in 1..rt'.nmods, n \in Intrinsics :
                      LET tab == rt.itab[rt.mods[1].intrinsic]
                      IN  Found(tab, n) =>
                            Matches(rt'.itab[rt'.mods[m].intrinsic], n) = Matches(tab, n)
<1>1. ASSUME IInv, TagInv, Next PROVE Moved
  <2>1. Shared(rt)' /\ SameIntrinsics(rt, rt') BY <1>1, TagStep DEF TagInv, Tidy
  <2>2. rt.mods[1].intrinsic \in ModId BY <1>1, ModuleIds DEF IInv, Good, ModsOK
  <2>3. \A m \in 1..rt'.nmods : rt'.mods[m].intrinsic = rt.mods[1].intrinsic
    BY <2>1 DEF Shared, SameIntrinsics
  <2>4. QED BY <2>1, <2>2, <2>3 DEF SameIntrinsics, KeepsIntrinsics
<1>2. IInv /\ TagInv /\ [Next]_vars => [Moved]_vars BY <1>1
<1>3. QED BY <1>2, TagInvariance, PTL DEF Spec, IntrinsicsShared
=============================================================================
