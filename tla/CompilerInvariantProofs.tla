----------------------- MODULE CompilerInvariantProofs ----------------------
(***************************************************************************)
(* Proofs about the header compiler (Compiler), for inputs of any length   *)
(* and any nesting: the types of its state, the references between the     *)
(* forms it writes, the nesting of the forms, the asserts, and that what   *)
(* is written is what was declared.                                        *)
(*                                                                         *)
(* All of them follow from one invariant, Sound, which no single one of    *)
(* them could replace: what is written is right because the types are,     *)
(* these are because the registry is well formed and every open position   *)
(* of the grammar says which declaration, declarator, struct, enum or      *)
(* parameter list it is about, and that is because the stacks mirror the   *)
(* grammar.  The layers are those of CompilerProofs: what the stacks hold  *)
(* (Held), the open positions (Places, StackInv), the structs and enums    *)
(* among them (Chain); here, what a position holds (Linked) and what it    *)
(* says of the source (Told) are added to them.                            *)
(***************************************************************************)
EXTENDS CompilerProofs

-----------------------------------------------------------------------------
(* Structs and enums are opened and closed.                                *)

LEMMA HeldGrows ==
  ASSUME NEW s, Held(s), NEW k, TypesOK(k), Grows(s, k), SameStacks(s, k), DOMAIN k = Fields,
         NEW kinds, k.said = s.said \/ Says(s, k, kinds)
  PROVE  Onward(s, k)
<1>1. TypesOK(s) /\ Shaped(s) /\ SaidOK(s) /\ StacksTyped(s) BY DEF Held
<1>2. Shaped(k) BY <1>1 DEF Shaped, SameStacks
<1>3. StacksTyped(k) BY <1>1, TypedGrows DEF StacksTyped, SameStacks
<1>4. SaidOK(k)
  <2>1. \A f \in s.said : FormOK(k, f) BY <1>1 DEF SaidOK, FormOK, Grows
  <2>2. QED BY <2>1 DEF SaidOK, Says
<1>5. QED BY <1>1, <1>2, <1>3, <1>4 DEF Held, Onward

LEMMA NewFrame ==
  ASSUME NEW at, NEW phase, NEW type
  PROVE  LET f == Frame(at, phase, type)
         IN  /\ DOMAIN f = FrameFields
             /\ f.at = at /\ f.phase = phase /\ f.type = type /\ f.n = 0 /\ f.params = <<>>
             /\ f.inner = 0 /\ f.storage = "none" /\ f.name = NoName /\ f.types = <<>>
             /\ f.declares = {}
             /\ \A s : ParamsTyped(s, f)
             /\ at \in {"struct", "enum", "params", "dtor", "body"} =>
                  \A s : FrameOK(s, f)
<1> DEFINE f == Frame(at, phase, type)
<1>1. /\ DOMAIN f = FrameFields
      /\ f.at = at /\ f.phase = phase /\ f.type = type /\ f.n = 0 /\ f.params = <<>>
      /\ f.inner = 0 /\ f.storage = "none" /\ f.name = NoName /\ f.types = <<>>
      /\ f.declares = {}
  BY DEF Frame, FrameFields
<1> HIDE DEF f
<1>2. \A s : ParamsTyped(s, f)
  <2>1. IsSeq(f.params) BY <1>1, NoneIsSeq
  <2>2. DOMAIN f.params = {} BY <1>1
  <2>3. QED BY <2>1, <2>2 DEF ParamsTyped
<1>3. at \in {"struct", "enum", "params", "dtor", "body"} => \A s : FrameOK(s, f)
  BY <1>1, <1>2 DEF FrameOK
<1>4. QED BY <1>1, <1>2, <1>3 DEF f

LEMMA SameEnds == \A s, k : SameStacks(s, k) => EndsMoved(s, k) BY DEF SameStacks, EndsMoved

LEMMA StructOpened ==
  ASSUME NEW s, NEW p, Wired(s, p), Room(s.rt, 1), NEW su \in StructKinds, NEW name,
         ~ s.structs[StructRef(s.rt, su, name)].made, Len(p) >= 1,
         MayLie("struct", HeadAt(p))
  PROVE  LET k == BeginStruct(s, su, name)
             f == Frame("struct", "members", StructTerm(s, su, name))
         IN  /\ Wired(k, Append(p, f)) /\ Kept(s, p, k, Append(p, f), Len(p))
             /\ Onward(s, k) /\ SameStacks(s, k)
             /\ k.rt.halt = s.rt.halt /\ k.constant_id = s.constant_id
             /\ SameTypeNames(s.rt, k.rt) /\ k.said = s.said
<1> DEFINE k == BeginStruct(s, su, name)
           st == StructRef(s.rt, su, name)
           term == StructTerm(s, su, name)
           f == Frame("struct", "members", term)
           q == Append(p, f)
<1>1. Len(p) \in Nat /\ TypesOK(s) /\ Shaped(s) /\ StackInv(s, p) /\ Held(s) BY WiredFacts
<1>2. /\ TypesOK(k) /\ Grows(s, k) /\ SameStacks(s, k) /\ StructBegun(s, k, st, term)
      /\ k.rt.halt = s.rt.halt /\ k.constant_id = s.constant_id
      /\ st \in 1..k.rt.next - 1 /\ st \in ObjId /\ k.rt.heap[st].kind = su
  BY <1>1, BeginStructStep
<1>3. DOMAIN f = FrameFields /\ f.at = "struct" /\ f.type = term /\ FrameOK(k, f) BY NewFrame
<1>4. Untouched(s, k) BY <1>1, StructSteps DEF Shaped
<1>5. Keeps(s, k) BY <1>1, <1>4, UntouchedKeeps
<1> HIDE DEF k, st, term, f
<1>6. StackInv(k, q) BY <1>1, <1>3, <1>5, ListOpened
<1>7. Onward(s, k)
  <2>1. DOMAIN k = Fields BY <1>4 DEF Untouched
  <2>2. k.said = s.said BY <1>2 DEF StructBegun
  <2>3. QED BY <1>1, <1>2, <2>1, <2>2, HeldGrows
<1>8. EndsMoved(s, k) BY <1>2, SameEnds
<1>9. /\ Len(q) = Len(p) + 1 /\ q[Len(p) + 1] = f /\ \A i \in 1..Len(p) : q[i] = p[i]
      /\ Places(q) /\ Linked(k, q) /\ Kept(s, p, k, q, Len(p))
  BY <1>3, <1>6, <1>7, <1>8, Pushing
<1>10. PICK o : Chain(s, p, o) BY DEF Wired
<1>11. \A i \in 1..Len(p) : p[i].at # "enum"
  <2>1. \A i \in 1..Len(p) : p[i].at = "enum" => i = Len(p) BY WiredFacts
  <2>2. HeadAt(p) # "enum" BY DEF MayLie
  <2>3. QED BY <1>1, <2>1, <2>2 DEF HeadAt
<1> HIDE DEF q
<1>12. \E u : Chain(k, q, u)
  <2>1. k.rt.heap[st].kind \in StructKinds /\ ~ s.structs[st].made BY <1>2 DEF st
  <2>2. q[Len(p) + 1].at = "struct" /\ q[Len(p) + 1].type = term BY <1>3, <1>9
  <2>3. TypesOK(s) /\ TypesOK(k) /\ Grows(s, k) /\ StructBegun(s, k, st, term)
    BY <1>1, <1>2
  <2>4. /\ st \in 1..k.rt.next - 1 /\ st \in ObjId
        /\ Len(p) \in Nat /\ Len(q) = Len(p) + 1 /\ \A i \in 1..Len(p) : q[i] = p[i]
    BY <1>1, <1>2, <1>9
  <2>5. QED BY <1>10, <1>11, <2>1, <2>2, <2>3, <2>4, ChainStruct
<1>13. Wired(k, q) BY <1>6, <1>7, <1>9, <1>12 DEF Wired, Onward, q
<1>14. SameTypeNames(s.rt, k.rt) /\ k.said = s.said BY <1>2 DEF StructBegun
<1>15. QED BY <1>2, <1>7, <1>9, <1>13, <1>14 DEF k, f, term, q

LEMMA EnumOpened ==
  ASSUME NEW s, NEW p, Wired(s, p), Room(s.rt, 1), NEW name, ~ EnumKnown(s.rt, name),
         s.rt.halt = "no", Len(p) >= 1, MayLie("enum", HeadAt(p))
  PROVE  LET k == BeginEnum(s, name)
             f == Frame("enum", "members", Tagged("enum", name, UnnamedId(s, "enum", name)))
         IN  /\ Wired(k, Append(p, f)) /\ Kept(s, p, k, Append(p, f), Len(p))
             /\ Onward(s, k) /\ SameStacks(s, k)
             /\ k.rt.halt = s.rt.halt /\ k.constant_id = s.constant_id
             /\ SameTypeNames(s.rt, k.rt) /\ k.said = s.said
<1> DEFINE k == BeginEnum(s, name)
           et == s.rt.next
           term == Tagged("enum", name, UnnamedId(s, "enum", name))
           f == Frame("enum", "members", term)
           q == Append(p, f)
<1>1. Len(p) \in Nat /\ TypesOK(s) /\ Shaped(s) /\ StackInv(s, p) /\ Held(s) BY WiredFacts
<1>2. /\ TypesOK(k) /\ Grows(s, k) /\ SameStacks(s, k) /\ EnumBegun(s, k, et, term)
      /\ k.rt.halt = s.rt.halt /\ k.rt.next = s.rt.next + 1
      /\ k.constant_id = s.constant_id
      /\ et \in ObjId /\ k.rt.heap[et].kind = "enum"
  BY <1>1, BeginEnumStep
<1>3. DOMAIN f = FrameFields /\ f.at = "enum" /\ f.type = term /\ f.n = 0 /\ FrameOK(k, f)
  BY NewFrame
<1>4. Untouched(s, k) BY <1>1, EnumSteps DEF Shaped
<1>5. Keeps(s, k) BY <1>1, <1>4, UntouchedKeeps
<1> HIDE DEF k, term, f
<1>6. StackInv(k, q) BY <1>1, <1>3, <1>5, ListOpened
<1>7. Onward(s, k)
  <2>1. DOMAIN k = Fields BY <1>4 DEF Untouched
  <2>2. k.said = s.said BY <1>2 DEF EnumBegun
  <2>3. QED BY <1>1, <1>2, <2>1, <2>2, HeldGrows
<1>8. EndsMoved(s, k) BY <1>2, SameEnds
<1>9. /\ Len(q) = Len(p) + 1 /\ q[Len(p) + 1] = f /\ \A i \in 1..Len(p) : q[i] = p[i]
      /\ Places(q) /\ Linked(k, q) /\ Kept(s, p, k, q, Len(p))
  BY <1>3, <1>6, <1>7, <1>8, Pushing
<1>10. PICK o : Chain(s, p, o) BY DEF Wired
<1>11. \A i \in 1..Len(p) : p[i].at # "enum"
  <2>1. \A i \in 1..Len(p) : p[i].at = "enum" => i = Len(p) BY WiredFacts
  <2>2. HeadAt(p) # "enum" BY DEF MayLie
  <2>3. QED BY <1>1, <2>1, <2>2 DEF HeadAt
<1> HIDE DEF q, et
<1>12. \E u : Chain(k, q, u)
  <2>1. et = s.rt.next /\ k.rt.next = et + 1 BY <1>2 DEF et
  <2>2. q[Len(p) + 1].at = "enum" /\ q[Len(p) + 1].type = term /\ q[Len(p) + 1].n = 0
    BY <1>3, <1>9
  <2>3. TypesOK(s) /\ TypesOK(k) /\ Grows(s, k) /\ EnumBegun(s, k, et, term) /\ et \in ObjId
    BY <1>1, <1>2
  <2>4. k.rt.heap[et].kind = "enum" /\ Len(p) \in Nat /\ Len(q) = Len(p) + 1
        /\ \A i \in 1..Len(p) : q[i] = p[i]
    BY <1>1, <1>2, <1>9
  <2>5. EnumPushed(s, p, k, q, et, term)
    BY <1>11, <2>1, <2>2, <2>3, <2>4 DEF EnumPushed
  <2>6. QED BY <1>10, <2>3, <2>5, ChainEnum
<1>13. Wired(k, q) BY <1>6, <1>7, <1>9, <1>12 DEF Wired, Onward, q
<1>14. SameTypeNames(s.rt, k.rt) /\ k.said = s.said BY <1>2 DEF EnumBegun
<1>15. QED BY <1>2, <1>7, <1>9, <1>13, <1>14 DEF k, f, term, q

(* What the innermost struct or enum is.                                   *)
LEMMA OpenHere ==
  ASSUME NEW s, NEW p, Wired(s, p), Len(p) >= 1
  PROVE  /\ s.current_struct = Cur(s.rt).current_struct
         /\ p[Len(p)].at = "struct" =>
              /\ s.current_struct \in 1..s.rt.next - 1
              /\ s.rt.heap[s.current_struct].kind \in StructKinds
              /\ s.structs[s.current_struct].prev = s.rt.heap[s.current_struct].prev
              /\ s.text[s.current_struct].term = p[Len(p)].type
              /\ s.emit # 0 => p[Len(p)].type \in s.begun
         /\ p[Len(p)].at = "enum" =>
              LET et == Cur(s.rt).current_enum
              IN  /\ et \in 1..s.rt.next - 1 /\ s.rt.heap[et].kind = "enum"
                  /\ s.text[et].term = p[Len(p)].type
                  /\ s.emit # 0 => p[Len(p)].type \in s.begun
<1>1. PICK o : Chain(s, p, o) BY DEF Wired
<1>2. Len(p) \in Nat BY WiredFacts
<1>3. Len(p) \in 1..Len(p) BY <1>2
<1>4. QED BY <1>1, <1>3 DEF Chain, StructAt, EnumAt

LEMMA StructClosed ==
  ASSUME NEW s, NEW p, Wired(s, p), Len(p) >= 1, p[Len(p)].at = "struct"
  PROVE  LET k == EndStruct(s)
         IN  /\ Wired(k, Front(p)) /\ Kept(s, p, k, Front(p), Len(p) - 1)
             /\ Onward(s, k) /\ SameStacks(s, k) /\ k.rt.halt = s.rt.halt
             /\ k.constant_id = s.constant_id /\ k.rt.next = s.rt.next
             /\ k.rt.heap = s.rt.heap /\ k.text = s.text /\ k.begun = s.begun
             /\ k.said = s.said /\ SameTypeNames(s.rt, k.rt)
<1> DEFINE k == EndStruct(s)
           q == Front(p)
<1>1. Len(p) \in Nat /\ TypesOK(s) /\ Shaped(s) /\ StackInv(s, p) /\ Held(s) BY WiredFacts
<1>2. /\ s.current_struct = Cur(s.rt).current_struct
      /\ s.current_struct \in 1..s.rt.next - 1
  BY OpenHere
<1>3. /\ TypesOK(k) /\ Grows(s, k) /\ SameStacks(s, k) /\ Ended(s, k)
      /\ k.current_struct = s.structs[s.current_struct].prev
      /\ Cur(k.rt).current_struct = s.rt.heap[s.current_struct].prev
  BY <1>1, <1>2, EndStructStep
<1>4. Untouched(s, k) BY <1>1, StructSteps DEF Shaped
<1>5. Keeps(s, k) BY <1>1, <1>4, UntouchedKeeps
<1> HIDE DEF k
<1>6. StackInv(k, q) BY <1>1, <1>5, ListClosed
<1>7. Onward(s, k)
  <2>1. DOMAIN k = Fields BY <1>4 DEF Untouched
  <2>2. k.said = s.said BY <1>3 DEF Ended
  <2>3. QED BY <1>1, <1>3, <2>1, <2>2, HeldGrows
<1>8. EndsMoved(s, k) BY <1>3, SameEnds
<1>9. /\ Len(q) = Len(p) - 1 /\ \A i \in 1..Len(q) : q[i] = p[i]
      /\ Places(q) /\ Linked(k, q) /\ Kept(s, p, k, q, Len(q))
  BY <1>6, <1>7, <1>8, Popping
<1>10. PICK o : Chain(s, p, o) BY DEF Wired
<1> HIDE DEF q
<1>11. Chain(k, q, o)
  <2>1. \A i \in 1..Len(p) - 1 : p[i].at # "enum"
    <3>1. \A i \in 1..Len(p) : p[i].at = "enum" => i = Len(p) BY WiredFacts
    <3>2. QED BY <1>1, <3>1
  <2>2. StructAt(s, o[Len(p)], p[Len(p)], o[Len(p) - 1]) /\ s.current_struct = o[Len(p)]
    <3>1. Len(p) \in 1..Len(p) BY <1>1
    <3>2. QED BY <1>10, <3>1 DEF Chain
  <2>3. k.current_struct = o[Len(q)] /\ Cur(k.rt).current_struct = o[Len(q)]
    BY <1>3, <1>9, <2>2 DEF StructAt
  <2>4. IsOpen(p, Len(p)) BY DEF IsOpen
  <2>5. QED BY <1>1, <1>3, <1>9, <1>10, <2>1, <2>3, <2>4, ChainClosed
<1>12. Wired(k, q) BY <1>6, <1>7, <1>9, <1>11 DEF Wired, Onward, q
<1>13. QED BY <1>3, <1>7, <1>9, <1>12 DEF k, q, Ended

LEMMA EnumClosed ==
  ASSUME NEW s, NEW p, Wired(s, p), Len(p) >= 1, p[Len(p)].at = "enum", p[Len(p)].n > 0
  PROVE  LET k == EndEnum(s)
         IN  /\ Wired(k, Front(p)) /\ Kept(s, p, k, Front(p), Len(p) - 1)
             /\ Onward(s, k) /\ SameStacks(s, k) /\ k.rt.halt = s.rt.halt
             /\ k.constant_id = s.constant_id /\ k.rt.next = s.rt.next
             /\ k.rt.heap = s.rt.heap /\ k.text = s.text /\ k.begun = s.begun
             /\ k.said = s.said /\ SameTypeNames(s.rt, k.rt)
<1> DEFINE k == EndEnum(s)
           q == Front(p)
<1>1. Len(p) \in Nat /\ TypesOK(s) /\ Shaped(s) /\ StackInv(s, p) /\ Held(s) BY WiredFacts
<1>2. Cur(s.rt).current_enum \in 1..s.rt.next - 1 BY OpenHere
<1>3. /\ TypesOK(k) /\ Grows(s, k) /\ SameStacks(s, k) /\ Ended(s, k)
      /\ k.current_struct = s.current_struct
      /\ Cur(k.rt).current_struct = Cur(s.rt).current_struct
  BY <1>1, <1>2, EndEnumStep
<1>4. Untouched(s, k) BY <1>1, EnumSteps DEF Shaped
<1>5. Keeps(s, k) BY <1>1, <1>4, UntouchedKeeps
<1> HIDE DEF k
<1>6. StackInv(k, q) BY <1>1, <1>5, ListClosed
<1>7. Onward(s, k)
  <2>1. DOMAIN k = Fields BY <1>4 DEF Untouched
  <2>2. k.said = s.said BY <1>3 DEF Ended
  <2>3. QED BY <1>1, <1>3, <2>1, <2>2, HeldGrows
<1>8. EndsMoved(s, k) BY <1>3, SameEnds
<1>9. /\ Len(q) = Len(p) - 1 /\ \A i \in 1..Len(q) : q[i] = p[i]
      /\ Places(q) /\ Linked(k, q) /\ Kept(s, p, k, q, Len(q))
  BY <1>6, <1>7, <1>8, Popping
<1>10. PICK o : Chain(s, p, o) BY DEF Wired
<1> HIDE DEF q
<1>11. Chain(k, q, o)
  <2>1. \A i \in 1..Len(p) - 1 : p[i].at # "enum"
    <3>1. \A i \in 1..Len(p) : p[i].at = "enum" => i = Len(p) BY WiredFacts
    <3>2. QED BY <1>1, <3>1
  <2>2. o[Len(p)] = o[Len(p) - 1] /\ s.current_struct = o[Len(p)]
        /\ Cur(s.rt).current_struct = o[Len(p)]
    <3>1. Len(p) \in 1..Len(p) BY <1>1
    <3>2. QED BY <1>10, <3>1 DEF Chain
  <2>3. k.current_struct = o[Len(q)] /\ Cur(k.rt).current_struct = o[Len(q)]
    BY <1>3, <1>9, <2>2
  <2>4. IsOpen(p, Len(p)) BY DEF IsOpen
  <2>5. QED BY <1>1, <1>3, <1>9, <1>10, <2>1, <2>3, <2>4, ChainClosed
<1>12. Wired(k, q) BY <1>6, <1>7, <1>9, <1>11 DEF Wired, Onward, q
<1>13. QED BY <1>3, <1>7, <1>9, <1>12 DEF k, q, Ended

LEMMA EnumeratorRead ==
  ASSUME NEW s, NEW p, Wired(s, p), Len(p) >= 1, p[Len(p)].at = "enum", NEW name
  PROVE  LET k == Enumerator(s, name)
         IN  /\ Wired(k, Counted(p)) /\ Kept(s, p, k, Counted(p), Len(p) - 1)
             /\ Onward(s, k) /\ SameStacks(s, k) /\ k.rt.halt = s.rt.halt
             /\ k.constant_id <= s.constant_id + 1 /\ k.rt.next = s.rt.next
             /\ Says(s, k, {"enumerator"})
             /\ SameTypeNames(s.rt, k.rt)
<1> DEFINE k == Enumerator(s, name)
           f == [p[Len(p)] EXCEPT !.n = @ + 1]
           q == SetTop(p, f)
<1>1. /\ Len(p) \in Nat /\ TypesOK(s) /\ Shaped(s) /\ StackInv(s, p) /\ Held(s)
      /\ FrameOK(s, p[Len(p)]) /\ DOMAIN p[Len(p)] = FrameFields
      /\ Last(p) = p[Len(p)] /\ (p = <<>> <=> Len(p) = 0)
  BY WiredFacts
<1>2. Counted(p) = q BY <1>1 DEF Counted
<1>3. Cur(s.rt).current_enum \in 1..s.rt.next - 1 BY OpenHere
<1>4. /\ TypesOK(k) /\ Grows(s, k) /\ SameStacks(s, k)
      /\ Enumerated(s, k, Cur(s.rt).current_enum)
      /\ Says(s, k, {"enumerator"})
      /\ k.rt.halt = s.rt.halt /\ k.rt.next = s.rt.next /\ k.constant_id <= s.constant_id + 1
  BY <1>1, <1>3, EnumeratorStep
<1>5. Untouched(s, k) BY <1>1, EnumSteps DEF Shaped
<1>6. Keeps(s, k) BY <1>1, <1>5, UntouchedKeeps
<1> HIDE DEF k
<1>7. StackInv(k, q) BY <1>1, <1>2, <1>6, Recounted
<1>8. Onward(s, k)
  <2>1. DOMAIN k = Fields BY <1>5 DEF Untouched
  <2>2. QED BY <1>1, <1>4, <2>1, HeldGrows
<1>9. /\ f.at = "enum" /\ f.type = p[Len(p)].type /\ f.n = p[Len(p)].n + 1
      /\ f.params = p[Len(p)].params /\ p[Len(p)].n \in Nat
  BY <1>1 DEF FrameFields, FrameOK
<1>10. FrameOK(k, f)
  <2>1. ParamsTyped(k, p[Len(p)]) BY <1>1, <1>8, ParamsGrow DEF FrameOK, Onward, Held
  <2>2. ParamsTyped(k, f) BY <1>9, <2>1 DEF ParamsTyped
  <2>3. QED BY <1>9, <2>2 DEF FrameOK
<1> HIDE DEF f
<1>11. /\ Len(q) = Len(p) /\ q[Len(p)] = f /\ \A i \in 1..Len(p) - 1 : q[i] = p[i]
       /\ Places(q) /\ Linked(k, q) /\ Kept(s, p, k, q, Len(p) - 1)
  <2>1. TopMoved(s, p, k) BY <1>4 DEF TopMoved, SameStacks
  <2>2. QED BY <1>7, <1>8, <1>9, <1>10, <2>1, TopSet
<1>12. PICK o : Chain(s, p, o) BY DEF Wired
<1> HIDE DEF q
<1>13. Chain(k, q, o)
  <2>1. \A i \in 1..Len(p) - 1 : p[i].at # "enum"
    <3>1. \A i \in 1..Len(p) : p[i].at = "enum" => i = Len(p) BY WiredFacts
    <3>2. QED BY <1>1, <3>1
  <2>2. q[Len(p)].at = "enum" /\ q[Len(p)].type = p[Len(p)].type
        /\ q[Len(p)].n = p[Len(p)].n + 1
    BY <1>9, <1>11
  <2>3. QED BY <1>1, <1>4, <1>9, <1>11, <1>12, <2>1, <2>2, ChainEnumerator
<1>14. Wired(k, q) BY <1>7, <1>8, <1>11, <1>13 DEF Wired, Onward, q
<1>15. QED BY <1>2, <1>4, <1>8, <1>11, <1>14 DEF k, Enumerated

-----------------------------------------------------------------------------
(* What the open positions, which hold what C says of the source, have in  *)
(* common with the declarations and declarators of the compiler: names,    *)
(* storage, and, where the input is Exact, the texts of the types.         *)

NamesIn(declares) == {x.name : x \in declares}
Named(f) == f.phase \in {"closing", "suffix", "done"}

(* The declarators of a typedef can be introduced, each of them.           *)
Introduces(r, x) ==
  /\ \A j \in DOMAIN x : x[j].identifier \notin TypeNamesOf(r)
  /\ \A i, j \in DOMAIN x : x[i].identifier = x[j].identifier => i = j

DeclSays(s, f, d) ==
  /\ f.at = "decl" =>
       /\ d.storage = f.storage
       /\ NamesIn(f.declares) = IdsAt(d.declarators, DOMAIN d.declarators)
       /\ f.phase = "specs" => d.declarators = <<>> /\ f.declares = {}
       /\ f.storage = "typedef" => Introduces(s.rt, d.declarators)
       /\ Exact => f.declares =
                     DeclarationsAt(s, d.declarators, DOMAIN d.declarators, f.storage)
  /\ Exact /\ f.phase = "dtors" => s.text[d.type].term = f.type

DtorSays(s, f, u, d) ==
  /\ u.at # "pdecl" => d.identifier = f.name /\ u.phase = "dtors"
  /\ u.at = "decl" /\ u.storage = "typedef" /\ Named(f) =>
       f.name \notin NamesIn(u.declares) /\ f.name \notin TypeNamesOf(s.rt)
  /\ u.at = "sdecl" =>
       /\ Resolved /\ Named(f) => f.name # NoName
       /\ f.phase # "done" => d.bits = Literal(0)
  /\ Exact => /\ f.inner = 0 /\ f.phase \notin {"paren", "closing"}
              /\ f.type = IF u.at = "sdecl" THEN MemberText(s, d.type, d.bits)
                          ELSE s.text[d.type].term

ParamsSay(s, f) ==
  Exact => /\ IsSeq(f.types) /\ Len(f.types) = Len(f.params)
           /\ \A j \in 1..Len(f.params) :
                f.types[j] = s.text[f.params[j]].term /\ f.types[j] # Base("void")

PositionSays(s, p, i) ==
  /\ DeclaresAt(p, i) => DeclSays(s, p[i], s.decls[NDecl(p, i)])
  /\ p[i].at = "dtor" => DtorSays(s, p[i], p[i - 1], s.dtors[NDtor(p, i)])
  /\ p[i].at = "params" => ParamsSay(s, p[i]) /\ p[i - 1].phase = "suffix"

Plainly(s) == Exact => \A i \in 1..Len(s.dtors) : ~ s.dtors[i].parenthised

Told(s, p) == Plainly(s) /\ \A i \in 1..Len(p) : PositionSays(s, p, i)

LEMMA DeclSaysGrows ==
  ASSUME NEW s, TypesOK(s), NEW k, TypesOK(k), Grows(s, k), SameTypeNames(s.rt, k.rt),
         NEW f, NEW d, DeclTyped(s, d), DeclSays(s, f, d)
  PROVE  DeclSays(k, f, d)
<1>1. Introduces(s.rt, d.declarators) => Introduces(k.rt, d.declarators)
  BY DEF Introduces, TypeNamesOf, SameTypeNames
<1>2. ASSUME Exact PROVE k.text[d.type].term = s.text[d.type].term
  BY <1>2, TypGrows DEF DeclTyped, Prim
<1>3. ASSUME Exact
      PROVE  DeclarationsAt(k, d.declarators, DOMAIN d.declarators, f.storage) =
               DeclarationsAt(s, d.declarators, DOMAIN d.declarators, f.storage)
  <2>1. \A j \in DOMAIN d.declarators :
          k.text[d.declarators[j].type].term = s.text[d.declarators[j].type].term
    BY <1>3, TypGrows DEF DeclTyped, DtorTyped
  <2>2. QED BY <2>1 DEF DeclarationsAt
<1>4. QED BY <1>1, <1>2, <1>3 DEF DeclSays

LEMMA DtorSaysGrows ==
  ASSUME NEW s, TypesOK(s), NEW k, TypesOK(k), Grows(s, k), SameTypeNames(s.rt, k.rt),
         NEW f, NEW u, NEW d, DtorTyped(s, d), DtorSays(s, f, u, d)
  PROVE  DtorSays(k, f, u, d)
<1>1. TypeNamesOf(k.rt) = TypeNamesOf(s.rt) BY DEF TypeNamesOf, SameTypeNames
<1>2. ASSUME Exact
      PROVE  /\ k.text[d.type].term = s.text[d.type].term
             /\ MemberText(k, d.type, d.bits) = MemberText(s, d.type, d.bits)
  <2>1. k.text[d.type].term = s.text[d.type].term BY <1>2, TypGrows DEF DtorTyped
  <2>2. QED BY <2>1 DEF MemberText
<1>3. QED BY <1>1, <1>2 DEF DtorSays

LEMMA ParamsSayGrow ==
  ASSUME NEW s, TypesOK(s), NEW k, TypesOK(k), Grows(s, k),
         NEW f, ParamsTyped(s, f), ParamsSay(s, f)
  PROVE  ParamsSay(k, f)
<1>1. ASSUME Exact, NEW j \in 1..Len(f.params)
      PROVE  k.text[f.params[j]].term = s.text[f.params[j]].term
  <2>1. j \in DOMAIN f.params BY <1>1, SeqFacts DEF ParamsTyped
  <2>2. QED BY <1>1, <2>1, TypGrows DEF ParamsTyped
<1>2. QED BY <1>1 DEF ParamsSay

(* A step that adds types, and leaves what is open and the typedef names.  *)
Mild(s, k) == Onward(s, k) /\ Beside(s, k) /\ SameTypeNames(s.rt, k.rt)
(* The same of a step that may open or close a struct or an enum.          *)
Calm(s, k) == Onward(s, k) /\ SameTypeNames(s.rt, k.rt)

LEMMA SaysKept ==
  ASSUME NEW s, NEW p, Wired(s, p), NEW k, Calm(s, k),
         NEW q, NEW n \in Nat, Kept(s, p, k, q, n), n <= Len(p),
         NEW i \in 1..n, PositionSays(s, p, i)
  PROVE  PositionSays(k, q, i)
<1>1. /\ Len(p) \in Nat /\ TypesOK(s) /\ StackInv(s, p) /\ Places(p) /\ Held(s)
      /\ Linked(s, p)
  BY WiredFacts
<1>2. TypesOK(k) /\ Grows(s, k) /\ SameTypeNames(s.rt, k.rt) BY DEF Calm, Onward, Held
<1>3. i \in 1..Len(p) /\ q[i] = p[i] BY <1>1 DEF Kept
<1>a. ASSUME p[i].at \in {"dtor", "params"} PROVE q[i - 1] = p[i - 1]
  <2>1. i # 1
    <3>1. PlaceOK(p, i) BY <1>1, <1>3 DEF Places
    <3>2. QED BY <1>a, <3>1 DEF PlaceOK, MayLie
  <2>2. QED BY <2>1 DEF Kept
<1>4. ASSUME DeclaresAt(q, i) PROVE DeclSays(k, q[i], k.decls[NDecl(q, i)])
  <2>1. DeclaresAt(p, i) BY <1>3, <1>4 DEF DeclaresAt
  <2>2. k.decls[NDecl(q, i)] = s.decls[NDecl(p, i)] BY <2>1 DEF Kept
  <2>3. NDecl(p, i) \in 1..Len(s.decls) BY <1>1, <1>3, <2>1, Positions
  <2>4. DeclTyped(s, s.decls[NDecl(p, i)]) BY <1>1, <2>3 DEF Held, StacksTyped
  <2>5. DeclSays(s, p[i], s.decls[NDecl(p, i)]) BY <2>1 DEF PositionSays
  <2>6. DeclSays(k, p[i], s.decls[NDecl(p, i)]) BY <1>1, <1>2, <2>4, <2>5, DeclSaysGrows
  <2>7. QED BY <1>3, <2>2, <2>6
<1>5. ASSUME q[i].at = "dtor" PROVE DtorSays(k, q[i], q[i - 1], k.dtors[NDtor(q, i)])
  <2>1. p[i].at = "dtor" BY <1>3, <1>5
  <2>2. k.dtors[NDtor(q, i)] = s.dtors[NDtor(p, i)] BY <2>1 DEF Kept
  <2>3. NDtor(p, i) \in 1..Len(s.dtors) BY <1>1, <1>3, <2>1, Positions
  <2>4. DtorTyped(s, s.dtors[NDtor(p, i)]) BY <1>1, <2>3 DEF Held, StacksTyped
  <2>5. DtorSays(s, p[i], p[i - 1], s.dtors[NDtor(p, i)]) BY <2>1 DEF PositionSays
  <2>6. DtorSays(k, p[i], p[i - 1], s.dtors[NDtor(p, i)])
    BY <1>1, <1>2, <2>4, <2>5, DtorSaysGrows
  <2>7. q[i - 1] = p[i - 1] BY <1>a, <2>1
  <2>8. QED BY <1>3, <2>2, <2>6, <2>7
<1>6. ASSUME q[i].at = "params" PROVE ParamsSay(k, q[i]) /\ q[i - 1].phase = "suffix"
  <2>1. ParamsTyped(s, p[i]) BY <1>1, <1>3 DEF Linked
  <2>2. ParamsSay(s, p[i]) /\ p[i - 1].phase = "suffix" BY <1>3, <1>6 DEF PositionSays
  <2>3. q[i - 1] = p[i - 1] BY <1>a, <1>3, <1>6
  <2>4. QED BY <1>1, <1>2, <1>3, <2>1, <2>2, <2>3, ParamsSayGrow
<1>7. QED BY <1>4, <1>5, <1>6 DEF PositionSays

-----------------------------------------------------------------------------
(* The inductive invariant of the positions and the stacks.                *)

Tied(s, p) == Wired(s, p) /\ Told(s, p)

LEMMA ToldKept ==
  ASSUME NEW s, NEW p, Tied(s, p), NEW k, Calm(s, k), Plainly(k),
         NEW q, NEW n \in Nat, Kept(s, p, k, q, n), n <= Len(p),
         Len(q) = n \/ (Len(q) = n + 1 /\ PositionSays(k, q, n + 1))
  PROVE  Told(k, q)
<1>1. Wired(s, p) /\ Told(s, p) /\ Len(p) \in Nat BY WiredFacts DEF Tied
<1>2. ASSUME NEW i \in 1..n PROVE PositionSays(k, q, i)
  <2>1. PositionSays(s, p, i) BY <1>1 DEF Told
  <2>2. QED BY <1>1, <2>1, SaysKept
<1>3. \A i \in 1..Len(q) : i \in 1..n \/ (i = n + 1 /\ Len(q) = n + 1) OBVIOUS
<1>4. QED BY <1>2, <1>3 DEF Told

(* What the innermost position f, which lies on u, says of the stacks.     *)
FrameSays(s, f, u) ==
  /\ f.at \in {"decl", "sdecl", "pdecl", "fdef"} => DeclSays(s, f, CurDecl(s))
  /\ f.at = "dtor" => DtorSays(s, f, u, CurDtor(s))
  /\ f.at = "params" => ParamsSay(s, f) /\ u.phase = "suffix"

LEMMA InnermostSays ==
  ASSUME NEW s, NEW p, StackInv(s, p), Places(p), Len(p) >= 1
  PROVE  PositionSays(s, p, Len(p)) <=> FrameSays(s, p[Len(p)], p[Len(p) - 1])
<1>1. Len(p) \in Nat /\ Shaped(s) /\ Len(s.decls) \in Nat /\ Len(s.dtors) \in Nat
  BY Innermost
<1>2. DeclaresAt(p, Len(p)) => s.decls[NDecl(p, Len(p))] = CurDecl(s)
  <2>1. NDecl(p, Len(p)) = Len(s.decls) BY DEF StackInv, Mirrors
  <2>2. QED BY <2>1 DEF CurDecl, Last
<1>3. s.dtors[NDtor(p, Len(p))] = CurDtor(s)
  <2>1. NDtor(p, Len(p)) = Len(s.dtors) BY DEF StackInv, Mirrors
  <2>2. QED BY <2>1 DEF CurDtor, Last
<1>4. QED BY <1>2, <1>3 DEF PositionSays, FrameSays, DeclaresAt

LEMMA TiedFacts ==
  ASSUME NEW s, NEW p, Tied(s, p)
  PROVE  /\ IsSeq(p) /\ Len(p) \in Nat /\ DOMAIN p = 1..Len(p) /\ (p = <<>> <=> Len(p) = 0)
         /\ TypesOK(s) /\ Shaped(s) /\ StackInv(s, p) /\ Places(p) /\ Held(s) /\ Linked(s, p)
         /\ Wired(s, p) /\ Last(p) = p[Len(p)] /\ Plainly(s) /\ StacksTyped(s)
         /\ DOMAIN s = Fields /\ RegOK(s.rt)
         /\ Len(s.decls) \in Nat /\ Len(s.dtors) \in Nat
         /\ Len(p) >= 1 =>
              /\ FrameOK(s, p[Len(p)]) /\ DOMAIN p[Len(p)] = FrameFields
              /\ FrameSays(s, p[Len(p)], p[Len(p) - 1])
              /\ Len(s.decls) >= One(DeclaresAt(p, Len(p)))
              /\ Len(s.dtors) >= One(DeclaratorAt(p, Len(p)))
              /\ MayLie(p[Len(p)].at, IF Len(p) = 1 THEN "none" ELSE p[Len(p) - 1].at)
         /\ \A i \in 1..Len(p) : p[i].at = "enum" => i = Len(p)
<1>1. Wired(s, p) /\ Told(s, p) BY DEF Tied
<1>2. /\ IsSeq(p) /\ Len(p) \in Nat /\ DOMAIN p = 1..Len(p) /\ (p = <<>> <=> Len(p) = 0)
      /\ TypesOK(s) /\ Shaped(s) /\ StackInv(s, p) /\ Places(p) /\ Held(s) /\ Linked(s, p)
      /\ Last(p) = p[Len(p)]
      /\ Len(p) >= 1 => FrameOK(s, p[Len(p)]) /\ DOMAIN p[Len(p)] = FrameFields
      /\ \A i \in 1..Len(p) : p[i].at = "enum" => i = Len(p)
  BY <1>1, WiredFacts
<1>3. Plainly(s) /\ StacksTyped(s) /\ DOMAIN s = Fields /\ RegOK(s.rt)
  BY <1>1, <1>2 DEF Told, Held, TypesOK, StoreOK
<1>4. Len(s.decls) \in Nat /\ Len(s.dtors) \in Nat BY <1>2, Innermost
<1>5. ASSUME Len(p) >= 1
      PROVE  /\ FrameSays(s, p[Len(p)], p[Len(p) - 1])
             /\ Len(s.decls) >= One(DeclaresAt(p, Len(p)))
             /\ Len(s.dtors) >= One(DeclaratorAt(p, Len(p)))
             /\ MayLie(p[Len(p)].at, IF Len(p) = 1 THEN "none" ELSE p[Len(p) - 1].at)
  <2>1. Len(p) \in 1..Len(p)
    <3>1. Len(p) \in Nat BY <1>2
    <3>2. QED BY <1>5, <3>1
  <2>2. PositionSays(s, p, Len(p)) BY <1>1, <2>1 DEF Told
  <2>3. PlaceOK(p, Len(p)) BY <1>2, <2>1 DEF Places
  <2>4. QED BY <1>2, <1>5, <2>2, <2>3, InnermostSays, AtLeast DEF PlaceOK
<1>6. QED BY <1>1, <1>2, <1>3, <1>4, <1>5

(* The innermost position becomes f.                                       *)
LEMMA TopTied ==
  ASSUME NEW s, NEW p, Tied(s, p), Len(p) >= 1, NEW f, NEW k, StackInv(k, SetTop(p, f)),
         Mild(s, k), TopMoved(s, p, k), FrameOK(k, f), SameFrame(p[Len(p)], f),
         Plainly(k), FrameSays(k, f, p[Len(p) - 1])
  PROVE  Tied(k, SetTop(p, f))
<1> DEFINE q == SetTop(p, f)
<1>1. Len(p) \in Nat /\ Wired(s, p) BY TiedFacts
<1>2. Onward(s, k) /\ Beside(s, k) /\ Calm(s, k) BY DEF Mild, Calm
<1>3. Wired(k, q) /\ Kept(s, p, k, q, Len(p) - 1) BY <1>1, <1>2, TopWired
<1>4. /\ Len(q) = Len(p) /\ q[Len(p)] = f /\ \A i \in 1..Len(p) - 1 : q[i] = p[i]
      /\ Places(q)
  BY <1>1, <1>2, TopSet DEF SameFrame
<1>5. PositionSays(k, q, Len(p))
  <2>1. FrameSays(k, q[Len(q)], q[Len(q) - 1])
    <3>1. CASE Len(p) = 1
      <4>1. f.at \notin {"dtor", "params"}
        <5>1. PlaceOK(q, 1) BY <1>4, <3>1 DEF Places
        <5>2. QED BY <1>4, <3>1, <5>1 DEF PlaceOK, MayLie
      <4>2. QED BY <1>4, <4>1 DEF FrameSays
    <3>2. CASE Len(p) # 1
      <4>1. q[Len(q) - 1] = p[Len(p) - 1] BY <1>1, <1>4, <3>2
      <4>2. QED BY <1>4, <4>1
    <3>3. QED BY <3>1, <3>2
  <2>2. QED BY <1>4, <2>1, InnermostSays
<1> HIDE DEF q
<1>6. Told(k, q)
  <2>1. Len(p) - 1 \in Nat /\ Len(p) - 1 <= Len(p) /\ Len(q) = (Len(p) - 1) + 1
        /\ (Len(p) - 1) + 1 = Len(p)
    BY <1>1, <1>4
  <2>2. QED BY <1>2, <1>3, <1>5, <2>1, ToldKept
<1>7. QED BY <1>3, <1>6 DEF Tied, q

(* Nothing happens to the positions or to the stacks.                      *)
LEMMA StillTied ==
  ASSUME NEW s, NEW p, Tied(s, p), NEW k, StackInv(k, p), Mild(s, k), SameStacks(s, k)
  PROVE  Tied(k, p)
<1>1. Len(p) \in Nat /\ Wired(s, p) /\ Plainly(s) BY TiedFacts
<1>2. Onward(s, k) /\ Beside(s, k) /\ Calm(s, k) BY DEF Mild, Calm
<1>3. Wired(k, p) /\ Kept(s, p, k, p, Len(p)) BY <1>1, <1>2, StillWired
<1>4. Plainly(k) BY <1>1 DEF Plainly, SameStacks
<1>5. Told(k, p) BY <1>1, <1>2, <1>3, <1>4, ToldKept
<1>6. QED BY <1>3, <1>5 DEF Tied

(* A position f is opened, or the innermost one is closed.                 *)
LEMMA OpenedTold ==
  ASSUME NEW s, NEW p, Tied(s, p), NEW f, NEW k, Calm(s, k), Plainly(k),
         Wired(k, Append(p, f)), Kept(s, p, k, Append(p, f), Len(p)),
         FrameSays(k, f, p[Len(p)])
  PROVE  Tied(k, Append(p, f))
<1> DEFINE q == Append(p, f)
<1>1. Len(p) \in Nat /\ IsSeq(p) BY TiedFacts
<1>2. Len(q) = Len(p) + 1 /\ q[Len(p) + 1] = f /\ \A i \in 1..Len(p) : q[i] = p[i]
  BY <1>1, Appended
<1>3. StackInv(k, q) /\ Places(q) BY DEF Wired
<1> HIDE DEF q
<1>4. PositionSays(k, q, Len(p) + 1)
  <2>1. FrameSays(k, q[Len(q)], q[Len(q) - 1])
    <3>1. CASE Len(p) = 0
      <4>1. f.at \notin {"dtor", "params"}
        <5>1. PlaceOK(q, 1) BY <1>2, <1>3, <3>1 DEF Places
        <5>2. QED BY <1>2, <3>1, <5>1 DEF PlaceOK, MayLie
      <4>2. QED BY <1>2, <4>1 DEF FrameSays
    <3>2. CASE Len(p) # 0
      <4>1. q[Len(q) - 1] = p[Len(p)] BY <1>1, <1>2, <3>2
      <4>2. QED BY <1>2, <4>1
    <3>3. QED BY <3>1, <3>2
  <2>2. Len(q) >= 1 BY <1>1, <1>2
  <2>3. QED BY <1>2, <1>3, <2>1, <2>2, InnermostSays
<1>5. Told(k, q)
  <2>1. Kept(s, p, k, q, Len(p)) BY DEF q
  <2>2. Len(p) <= Len(p) /\ Len(q) = Len(p) + 1 BY <1>1, <1>2
  <2>3. QED BY <1>1, <1>4, <2>1, <2>2, ToldKept
<1>6. QED BY <1>5 DEF Tied, q

LEMMA PushedTied ==
  ASSUME NEW s, NEW p, Tied(s, p), NEW f, NEW k, StackInv(k, Append(p, f)), Mild(s, k),
         EndsMoved(s, k), FrameOK(k, f), MayLie(f.at, HeadAt(p)),
         f.at \notin {"struct", "enum"}, HeadAt(p) # "enum",
         Plainly(k), FrameSays(k, f, p[Len(p)])
  PROVE  Tied(k, Append(p, f))
<1>1. Wired(s, p) BY TiedFacts
<1>2. Onward(s, k) /\ Beside(s, k) /\ Calm(s, k) BY DEF Mild, Calm
<1>3. Wired(k, Append(p, f)) /\ Kept(s, p, k, Append(p, f), Len(p))
  BY <1>1, <1>2, PushedWired
<1>4. QED BY <1>2, <1>3, OpenedTold

LEMMA ClosedTold ==
  ASSUME NEW s, NEW p, Tied(s, p), Len(p) >= 1, NEW k, Calm(s, k), Plainly(k),
         Wired(k, Front(p)), Kept(s, p, k, Front(p), Len(p) - 1)
  PROVE  Tied(k, Front(p))
<1>1. Len(p) \in Nat /\ IsSeq(p) BY TiedFacts
<1>2. Len(Front(p)) = Len(p) - 1 BY <1>1, Fronted
<1>3. Len(p) - 1 \in Nat /\ Len(p) - 1 <= Len(p) BY <1>1
<1>4. Told(k, Front(p)) BY <1>2, <1>3, ToldKept
<1>5. QED BY <1>4 DEF Tied

LEMMA PoppedTied ==
  ASSUME NEW s, NEW p, Tied(s, p), Len(p) >= 1, NEW k, StackInv(k, Front(p)), Mild(s, k),
         EndsMoved(s, k), p[Len(p)].at \notin {"struct", "enum"}, Plainly(k)
  PROVE  Tied(k, Front(p))
<1>1. Wired(s, p) BY TiedFacts
<1>2. Onward(s, k) /\ Beside(s, k) /\ Calm(s, k) BY DEF Mild, Calm
<1>3. Wired(k, Front(p)) /\ Kept(s, p, k, Front(p), Len(p) - 1) BY <1>1, <1>2, PoppedWired
<1>4. QED BY <1>2, <1>3, ClosedTold

(* What a list collects: one element more.                                 *)
LEMMA CountedTied ==
  ASSUME NEW s, NEW p, Tied(s, p), Len(p) >= 1 => p[Len(p)].at # "enum"
  PROVE  /\ Tied(s, Counted(p))
         /\ Len(p) >= 1 =>
              Counted(p) = SetTop(p, [p[Len(p)] EXCEPT !.n = @ + 1])
<1>1. /\ Len(p) \in Nat /\ (p = <<>> <=> Len(p) = 0) /\ StackInv(s, p) /\ Held(s)
      /\ Last(p) = p[Len(p)] /\ Plainly(s) /\ TypesOK(s) /\ Shaped(s)
  BY TiedFacts
<1>2. CASE Len(p) = 0 BY <1>1, <1>2 DEF Counted
<1>3. CASE Len(p) # 0
  <2> DEFINE u == p[Len(p)]
             f == [u EXCEPT !.n = @ + 1]
  <2>1. Len(p) >= 1 BY <1>1, <1>3
  <2>2. /\ FrameOK(s, u) /\ DOMAIN u = FrameFields /\ FrameSays(s, u, p[Len(p) - 1])
        /\ u.at # "enum"
    BY <2>1, TiedFacts
  <2>3. Counted(p) = SetTop(p, f) BY <1>1, <1>3 DEF Counted
  <2>4. /\ DOMAIN f = FrameFields /\ f.at = u.at /\ f.phase = u.phase /\ f.type = u.type
        /\ f.inner = u.inner /\ f.storage = u.storage /\ f.name = u.name
        /\ f.params = u.params /\ f.types = u.types /\ f.declares = u.declares
        /\ f.n = u.n + 1
    BY <2>2 DEF FrameFields
  <2> HIDE DEF u, f
  <2>5. Keeps(s, s) BY <1>1, KeepsSelf
  <2>6. StackInv(s, SetTop(p, f)) BY <1>1, <2>1, <2>4, <2>5, TopChanged DEF u
  <2>7. Mild(s, s)
    <3>1. Derives(s, s) BY <1>1, DerivesSelf
    <3>2. QED BY <1>1, <3>1, DerivesBeside DEF Mild, Onward
  <2>8. TopMoved(s, p, s) BY DEF TopMoved
  <2>9. FrameOK(s, f)
    <3>1. u.n \in Nat /\ ParamsTyped(s, u) BY <2>2 DEF FrameOK
    <3>2. ParamsTyped(s, f) BY <2>4, <3>1 DEF ParamsTyped
    <3>3. f.n \in Nat /\ f.n >= u.n BY <2>4, <3>1
    <3>4. ASSUME f.at \in {"decl", "sdecl", "pdecl", "fdef"} PROVE Few(f, CurDecl(s))
      <4>1. Few(u, CurDecl(s)) BY <2>2, <2>4, <3>4 DEF FrameOK
      <4>2. IsSeq(CurDecl(s).declarators)
        <5>1. DeclaresAt(p, Len(p)) BY <2>4, <3>4 DEF DeclaresAt, u
        <5>2. Len(s.decls) >= 1 /\ Len(s.decls) \in Nat BY <2>1, <5>1, TiedFacts DEF One
        <5>3. QED BY <1>1, <5>2 DEF Shaped, CurDecl, Last
      <4>3. Len(CurDecl(s).declarators) \in Nat BY <4>2, SeqFacts
      <4>4. QED BY <2>4, <3>1, <3>3, <4>1, <4>3 DEF Few
    <3>5. QED BY <3>2, <3>3, <3>4 DEF FrameOK
  <2>10. SameFrame(u, f) BY <2>2, <2>4 DEF SameFrame
  <2>11. FrameSays(s, f, p[Len(p) - 1])
    <3>1. \A d : DeclSays(s, u, d) => DeclSays(s, f, d) BY <2>4 DEF DeclSays
    <3>2. \A v, d : DtorSays(s, u, v, d) => DtorSays(s, f, v, d) BY <2>4 DEF DtorSays, Named
    <3>3. ParamsSay(s, u) => ParamsSay(s, f) BY <2>4 DEF ParamsSay
    <3>4. QED BY <2>2, <2>4, <3>1, <3>2, <3>3 DEF FrameSays
  <2>12. Tied(s, SetTop(p, f))
    BY <1>1, <2>1, <2>6, <2>7, <2>8, <2>9, <2>10, <2>11, TopTied DEF u
  <2>13. QED BY <1>1, <2>3, <2>12 DEF f, u
<1>4. QED BY <1>2, <1>3

-----------------------------------------------------------------------------
(* The inductive invariant: what holds before and after every step.        *)

(* The type of a declarator that may still get a pointer or an array.      *)
TopPrim(s, p) ==
  Len(p) >= 1 /\ p[Len(p)].at = "dtor" /\ p[Len(p)].phase # "done" =>
    Prim(s, CurDtor(s).type)

Sound(s, p, forms) ==
  /\ Tied(s, p) /\ TopPrim(s, p)
  /\ s.constant_id <= MaxConstants
  /\ Resolved => s.rt.halt = "no"
  /\ Exact => forms = DeclaredBy(s.said)

(* Before the semantic action of a step.                                   *)
Ready(s, p) ==
  /\ Tied(s, p) /\ TopPrim(s, p) /\ s.constant_id <= MaxConstants
  /\ s.rt.halt = "no" /\ s.said = {}

LEMMA NoneDeclared == DeclaredBy({}) = {} BY DEF DeclaredBy

(* k is the outcome of a step that writes nothing.                         *)
LEMMA SoundQuiet ==
  ASSUME NEW k, NEW q, Tied(k, q), TopPrim(k, q), k.constant_id <= MaxConstants,
         Resolved => k.rt.halt = "no", k.said = {}
  PROVE  Sound(k, q, {})
BY NoneDeclared DEF Sound

Silent(s) == [s EXCEPT !.said = {}]

LEMMA SilentStep ==
  ASSUME NEW s, NEW p, Tied(s, p), TopPrim(s, p), StackInv(Silent(s), p)
  PROVE  LET k == Silent(s)
         IN  /\ Tied(k, p) /\ TopPrim(k, p) /\ k.said = {}
             /\ k.rt = s.rt /\ k.constant_id = s.constant_id /\ k.decls = s.decls
             /\ k.dtors = s.dtors /\ k.structs = s.structs /\ k.text = s.text
             /\ k.begun = s.begun /\ k.unnamed = s.unnamed /\ k.emit = s.emit
             /\ DOMAIN k = Fields
<1> DEFINE k == Silent(s)
<1>1. TypesOK(s) /\ Shaped(s) /\ Held(s) /\ DOMAIN s = Fields BY TiedFacts
<1>2. /\ DOMAIN k = Fields /\ k.said = {} /\ k.rt = s.rt /\ k.text = s.text
      /\ k.structs = s.structs
      /\ k.current_struct = s.current_struct /\ k.enums = s.enums /\ k.emit = s.emit
      /\ k.constant_id = s.constant_id /\ k.unnamed = s.unnamed
      /\ k.written = s.written /\ k.begun = s.begun /\ k.forms = s.forms
      /\ k.decls = s.decls /\ k.dtors = s.dtors
  BY <1>1 DEF Fields, Silent
<1> HIDE DEF k
<1>3. TypesOK(k) /\ Grows(s, k)
  <2>1. RegOK(k.rt) /\ StoreOK(s) /\ ConstsOK(s) BY <1>1, <1>2 DEF TypesOK, StoreOK
  <2>2. ConstsOK(k) BY <1>2, <2>1 DEF ConstsOK
  <2>3. /\ DOMAIN k.structs = ObjId /\ DOMAIN k.enums = ObjId
        /\ DOMAIN k.unnamed = {"struct", "enum"}
        /\ \A t \in ObjId : /\ DOMAIN k.structs[t] = StructFields
                            /\ k.structs[t].made = s.structs[t].made
    BY <1>2, <2>1 DEF StoreOK
  <2>4. QED BY <1>1, <1>2, <2>1, <2>2, <2>3, SameTypes
<1>4. SameOpen(s.rt, k.rt) /\ SamePrevs(s.rt, k.rt) /\ SameTypeNames(s.rt, k.rt)
  BY <1>2 DEF SameOpen, SamePrevs, SameTypeNames
<1>5. Beside(s, k) BY <1>2, <1>4 DEF Beside
<1>6. Onward(s, k)
  <2>1. Says(s, s, {}) BY DEF Says
  <2>2. StacksTyped(k)
    <3>1. StacksTyped(s) BY <1>1 DEF Held
    <3>2. QED BY <1>1, <1>2, <1>3, <3>1, TypedGrows DEF StacksTyped
  <2>3. Shaped(k) BY <1>1, <1>2 DEF Shaped
  <2>4. SaidOK(k) BY <1>2 DEF SaidOK
  <2>5. QED BY <1>3, <2>2, <2>3, <2>4 DEF Onward, Held
<1>7. Tied(k, p)
  <2>1. SameStacks(s, k) BY <1>2 DEF SameStacks
  <2>2. Mild(s, k) BY <1>4, <1>5, <1>6 DEF Mild
  <2>3. StackInv(k, p) BY DEF k
  <2>4. QED BY <2>1, <2>2, <2>3, StillTied
<1>8. TopPrim(k, p)
  <2>1. ASSUME Prim(s, CurDtor(s).type) PROVE Prim(k, CurDtor(k).type)
    <3>1. CurDtor(k) = CurDtor(s) BY <1>2 DEF CurDtor
    <3>2. Typ(s, CurDtor(s).type) BY <2>1 DEF Prim
    <3>3. QED BY <1>1, <1>3, <2>1, <3>1, <3>2, TypGrows
  <2>2. QED BY <2>1 DEF TopPrim
<1>9. QED BY <1>2, <1>7, <1>8 DEF k

LEMMA QuietReady ==
  ASSUME Sound(c, parse, meant), Running
  PROVE  /\ Ready(Quiet, parse) /\ Quiet.rt = c.rt /\ Quiet.constant_id = c.constant_id
         /\ Quiet.decls = c.decls /\ Quiet.dtors = c.dtors /\ Quiet.structs = c.structs
         /\ Quiet.text = c.text /\ Quiet.begun = c.begun /\ Quiet.unnamed = c.unnamed
         /\ Quiet.emit = c.emit
         /\ DOMAIN Quiet = Fields /\ CurDtor(Quiet) = CurDtor(c)
<1>1. Tied(c, parse) /\ TopPrim(c, parse) /\ c.constant_id <= MaxConstants BY DEF Sound
<1>2. StackInv(c, parse) BY <1>1, TiedFacts
<1>3. Quiet = Silent(c) BY DEF Quiet, Silent
<1>4. StackInv(Quiet, parse) BY <1>2, QuietSame
<1>5. /\ Tied(Quiet, parse) /\ TopPrim(Quiet, parse) /\ Quiet.said = {}
      /\ Quiet.rt = c.rt /\ Quiet.constant_id = c.constant_id /\ Quiet.decls = c.decls
      /\ Quiet.dtors = c.dtors /\ Quiet.structs = c.structs /\ Quiet.text = c.text
      /\ Quiet.begun = c.begun /\ Quiet.unnamed = c.unnamed /\ Quiet.emit = c.emit
      /\ DOMAIN Quiet = Fields
  BY <1>1, <1>3, <1>4, SilentStep
<1>6. QED BY <1>1, <1>5 DEF Ready, Running, CurDtor

-----------------------------------------------------------------------------
(* Steps that open a position.                                             *)

LEMMA ReadyFacts ==
  ASSUME NEW s, NEW p, Ready(s, p)
  PROVE  /\ Tied(s, p) /\ TopPrim(s, p) /\ s.constant_id <= MaxConstants
         /\ s.rt.halt = "no" /\ s.said = {}
         /\ IsSeq(p) /\ Len(p) \in Nat /\ StackInv(s, p) /\ Held(s) /\ TypesOK(s)
         /\ Plainly(s) /\ Shaped(s) /\ DOMAIN s = Fields
BY TiedFacts DEF Ready

(* Only the stacks change: what is held stays so, and nothing is written.  *)
LEMMA SameMild ==
  ASSUME NEW s, Held(s), NEW k, Held(k), Same(s, k)
  PROVE  /\ Mild(s, k) /\ k.rt = s.rt /\ k.text = s.text /\ k.said = s.said
         /\ k.constant_id = s.constant_id /\ TypesOK(k) /\ Grows(s, k)
<1>1. TypesOK(s) BY DEF Held
<1>2. Grows(s, k) /\ Beside(s, k) /\ SameTypeNames(s.rt, k.rt) /\ TypesOK(k)
  BY <1>1, SameStep
<1>3. QED BY <1>2 DEF Mild, Onward, Same

LEMMA PlainlyLess ==
  ASSUME NEW s, Plainly(s), NEW k, Len(k.dtors) \in Nat,
         \A i \in 1..Len(k.dtors) :
           \/ ~ k.dtors[i].parenthised
           \/ i \in 1..Len(s.dtors) /\ k.dtors[i].parenthised = s.dtors[i].parenthised
  PROVE  Plainly(k)
BY DEF Plainly

LEMMA DeclarationStarts ==
  ASSUME NEW s, NEW p, Ready(s, p), NEW at \in {"decl", "sdecl", "fdef"}, NEW phase, NEW type,
         phase = "specs" \/ (phase = "dtors" /\ type = Base("int")),
         MayLie(at, HeadAt(p))
  PROVE  Sound(DeclarationBegin(s), Append(p, Frame(at, phase, type)), {})
<1> DEFINE k == DeclarationBegin(s)
           f == Frame(at, phase, type)
           t == TypeByName(s.rt, "int")
<1>1. Tied(s, p) /\ StackInv(s, p) /\ Held(s) /\ Len(p) \in Nat /\ Plainly(s)
      /\ s.constant_id <= MaxConstants /\ s.rt.halt = "no" /\ s.said = {}
  BY ReadyFacts
<1>2. /\ Held(k) /\ Same(s, k) /\ k.dtors = s.dtors
      /\ Pushed(s.decls, k.decls, NewDeclaration(t))
      /\ CurDecl(k) = NewDeclaration(t) /\ s.text[t].term = Base("int")
  BY <1>1, DeclarationBeginStep
<1>3. /\ DOMAIN f = FrameFields
      /\ f.at = at /\ f.phase = phase /\ f.type = type /\ f.n = 0
      /\ f.storage = "none" /\ f.declares = {} /\ ParamsTyped(k, f)
  BY NewFrame
<1>4. StackInv(k, Append(p, f)) BY <1>1, <1>3, DeclarationOpened
<1>5. Mild(s, k) /\ k.rt = s.rt /\ k.text = s.text /\ k.said = s.said
      /\ k.constant_id = s.constant_id
  BY <1>1, <1>2, SameMild
<1> DEFINE d == NewDeclaration(t)
<1>6. d.type = t /\ d.storage = "none" /\ d.declarators = <<>>
      /\ DOMAIN d.declarators = {} /\ Len(d.declarators) = 0
  BY DEF NewDeclaration
<1> HIDE DEF k, f, t, d
<1>7. EndsMoved(s, k)
  <2>1. Len(s.decls) \in Nat BY <1>1, Innermost
  <2>2. QED BY <1>2, <2>1 DEF EndsMoved, Pushed
<1>8. FrameOK(k, f)
  <2>1. Few(f, d) BY <1>3, <1>6 DEF Few
  <2>2. QED BY <1>2, <1>3, <2>1 DEF FrameOK, d
<1>9. DeclSays(k, f, d)
  <2>1. IdsAt(d.declarators, DOMAIN d.declarators) = {} BY <1>6 DEF IdsAt
  <2>2. NamesIn(f.declares) = {} BY <1>3 DEF NamesIn
  <2>3. DeclarationsAt(k, d.declarators, DOMAIN d.declarators, f.storage) = {}
    BY <1>6 DEF DeclarationsAt
  <2>4. Introduces(k.rt, d.declarators) BY <1>6 DEF Introduces
  <2>5. ASSUME f.phase = "dtors" PROVE k.text[d.type].term = f.type
    BY <1>2, <1>3, <1>5, <1>6, <2>5
  <2>6. QED BY <1>3, <1>6, <2>1, <2>2, <2>3, <2>4, <2>5 DEF DeclSays
<1>10. FrameSays(k, f, p[Len(p)]) BY <1>2, <1>3, <1>9 DEF FrameSays, d
<1>11. Plainly(k) BY <1>1, <1>2 DEF Plainly
<1>12. Tied(k, Append(p, f))
  <2>1. f.at \notin {"struct", "enum"} /\ HeadAt(p) # "enum" /\ MayLie(f.at, HeadAt(p))
    BY <1>3 DEF MayLie
  <2>2. QED BY <1>1, <1>4, <1>5, <1>7, <1>8, <1>10, <1>11, <2>1, PushedTied
<1>13. TopPrim(k, Append(p, f))
  <2>1. Len(Append(p, f)) = Len(p) + 1 /\ Append(p, f)[Len(p) + 1] = f
    BY <1>1, Appended DEF StackInv, Nests
  <2>2. QED BY <1>3, <2>1 DEF TopPrim
<1>14. Sound(k, Append(p, f), {}) BY <1>1, <1>5, <1>12, <1>13, SoundQuiet
<1>15. QED BY <1>14 DEF k, f

(* A declaration, a member or a function definition begins.                *)
LEMMA DeclarationStartSound ==
  ASSUME Sound(c, parse, meant), DeclarationStart \/ MemberStart \/ DefinitionStart
  PROVE  Sound(c', parse', meant')
<1>1. Tied(c, parse) /\ Len(parse) \in Nat /\ StackInv(c, parse)
      /\ (parse = <<>> <=> Len(parse) = 0)
  BY TiedFacts DEF Sound
<1>2. Running BY DEF DeclarationStart, MemberStart, DefinitionStart, Reduce
<1>3. Ready(Quiet, parse) BY <1>2, QuietReady
<1>4. CASE DeclarationStart
  <2>1. c' = DeclarationBegin(Quiet) /\ parse' = Append(parse, Frame("decl", "specs", NullTerm))
        /\ meant' = {}
    BY <1>4 DEF DeclarationStart, Reduce, Push
  <2>2. MayLie("decl", HeadAt(parse))
    <3>1. parse = <<>> \/ At({"body"}) BY <1>4 DEF DeclarationStart
    <3>2. At({"body"}) => HeadAt(parse) = "body" BY <1>1, AtTop DEF HeadAt
    <3>3. parse = <<>> => HeadAt(parse) = "none" BY <1>1 DEF HeadAt
    <3>4. QED BY <3>1, <3>2, <3>3 DEF MayLie
  <2>3. QED BY <1>3, <2>1, <2>2, DeclarationStarts
<1>5. CASE MemberStart
  <2>1. c' = DeclarationBegin(Quiet) /\ parse' = Append(parse, Frame("sdecl", "specs", NullTerm))
        /\ meant' = {}
    BY <1>5 DEF MemberStart, Reduce, Push
  <2>2. MayLie("sdecl", HeadAt(parse))
    <3>1. At({"struct"}) BY <1>5 DEF MemberStart
    <3>2. HeadAt(parse) = "struct" BY <1>1, <3>1, AtTop DEF HeadAt
    <3>3. QED BY <3>2 DEF MayLie
  <2>3. QED BY <1>3, <2>1, <2>2, DeclarationStarts
<1>6. CASE DefinitionStart
  <2>1. c' = DeclarationBegin(Quiet) /\ meant' = {}
        /\ parse' = Append(parse, Frame("fdef", "dtors", Base("int")))
    BY <1>6 DEF DefinitionStart, Reduce, Push
  <2>2. MayLie("fdef", HeadAt(parse))
    <3>1. HeadAt(parse) = "none" BY <1>1, <1>6 DEF HeadAt, DefinitionStart
    <3>2. QED BY <3>1 DEF MayLie
  <2>3. QED BY <1>3, <2>1, <2>2, DeclarationStarts
<1>7. QED BY <1>4, <1>5, <1>6

LEMMA NoDeclarator ==
  ASSUME NEW p, IsSeq(p), NEW f, f.at # "dtor"
  PROVE  /\ \A k : TopPrim(k, Append(p, f))
         /\ Len(p) >= 1 => \A k : TopPrim(k, SetTop(p, f))
<1>1. Len(Append(p, f)) = Len(p) + 1 /\ Append(p, f)[Len(p) + 1] = f BY Appended
<1>2. ASSUME Len(p) >= 1 PROVE Len(SetTop(p, f)) = Len(p) /\ SetTop(p, f)[Len(p)] = f
  <2>1. IsSeq(Front(p)) /\ Len(Front(p)) = Len(p) - 1 BY <1>2, Fronted
  <2>2. Len(p) \in Nat BY SeqFacts
  <2>3. QED BY <2>1, <2>2, Appended DEF SetTop
<1>3. QED BY <1>1, <1>2 DEF TopPrim

(* A struct, a union or an enum with members.                              *)
LEMMA TagStarts ==
  ASSUME NEW s, NEW p, Ready(s, p), Room(s.rt, 1), Len(p) >= 1
  PROVE  /\ \A su \in StructKinds : \A name :
              ~ s.structs[StructRef(s.rt, su, name)].made /\ MayLie("struct", HeadAt(p)) =>
                Sound(BeginStruct(s, su, name),
                      Append(p, Frame("struct", "members", StructTerm(s, su, name))), {})
         /\ \A name :
              ~ EnumKnown(s.rt, name) /\ MayLie("enum", HeadAt(p)) =>
                Sound(BeginEnum(s, name),
                      Append(p, Frame("enum", "members",
                                      Tagged("enum", name, UnnamedId(s, "enum", name)))), {})
<1>1. /\ Tied(s, p) /\ Wired(s, p) /\ IsSeq(p) /\ s.rt.halt = "no" /\ Plainly(s)
      /\ s.constant_id <= MaxConstants /\ s.said = {}
  BY ReadyFacts DEF Tied
<1>2. ASSUME NEW su \in StructKinds, NEW name,
             ~ s.structs[StructRef(s.rt, su, name)].made, MayLie("struct", HeadAt(p))
      PROVE  Sound(BeginStruct(s, su, name),
                   Append(p, Frame("struct", "members", StructTerm(s, su, name))), {})
  <2> DEFINE k == BeginStruct(s, su, name)
             f == Frame("struct", "members", StructTerm(s, su, name))
  <2>1. /\ Wired(k, Append(p, f)) /\ Kept(s, p, k, Append(p, f), Len(p))
        /\ Onward(s, k) /\ SameStacks(s, k) /\ k.rt.halt = s.rt.halt
        /\ k.constant_id = s.constant_id /\ SameTypeNames(s.rt, k.rt) /\ k.said = s.said
    BY <1>1, <1>2, StructOpened
  <2>2. f.at = "struct" /\ f.type = StructTerm(s, su, name) BY NewFrame
  <2> HIDE DEF k, f
  <2>4. FrameSays(k, f, p[Len(p)]) BY <2>2 DEF FrameSays
  <2>5. Plainly(k) BY <1>1, <2>1 DEF Plainly, SameStacks
  <2>6. Calm(s, k) BY <2>1 DEF Calm
  <2>7. Tied(k, Append(p, f)) BY <1>1, <2>1, <2>4, <2>5, <2>6, OpenedTold
  <2>8. TopPrim(k, Append(p, f)) BY <1>1, <2>2, NoDeclarator
  <2>9. Sound(k, Append(p, f), {}) BY <1>1, <2>1, <2>7, <2>8, SoundQuiet
  <2>10. QED BY <2>9 DEF k, f
<1>3. ASSUME NEW name, ~ EnumKnown(s.rt, name), MayLie("enum", HeadAt(p))
      PROVE  Sound(BeginEnum(s, name),
                   Append(p, Frame("enum", "members",
                                   Tagged("enum", name, UnnamedId(s, "enum", name)))), {})
  <2> DEFINE k == BeginEnum(s, name)
             term == Tagged("enum", name, UnnamedId(s, "enum", name))
             f == Frame("enum", "members", term)
  <2>1. /\ Wired(k, Append(p, f)) /\ Kept(s, p, k, Append(p, f), Len(p))
        /\ Onward(s, k) /\ SameStacks(s, k) /\ k.rt.halt = s.rt.halt
        /\ k.constant_id = s.constant_id /\ SameTypeNames(s.rt, k.rt) /\ k.said = s.said
    BY <1>1, <1>3, EnumOpened
  <2>2. f.at = "enum" /\ f.type = term BY NewFrame
  <2> HIDE DEF k, f
  <2>4. FrameSays(k, f, p[Len(p)]) BY <2>2 DEF FrameSays
  <2>5. Plainly(k) BY <1>1, <2>1 DEF Plainly, SameStacks
  <2>6. Calm(s, k) BY <2>1 DEF Calm
  <2>7. Tied(k, Append(p, f)) BY <1>1, <2>1, <2>4, <2>5, <2>6, OpenedTold
  <2>8. TopPrim(k, Append(p, f)) BY <1>1, <2>2, NoDeclarator
  <2>9. Sound(k, Append(p, f), {}) BY <1>1, <2>1, <2>7, <2>8, SoundQuiet
  <2>10. QED BY <2>9 DEF k, f
<1>4. QED BY <1>2, <1>3

LEMMA AtFacts ==
  ASSUME NEW m, Sound(c, parse, m), NEW kinds
  PROVE  /\ Tied(c, parse) /\ Len(parse) \in Nat /\ StackInv(c, parse) /\ IsSeq(parse)
         /\ (parse = <<>> <=> Len(parse) = 0)
         /\ At(kinds) => /\ Len(parse) >= 1 /\ Top = parse[Len(parse)]
                         /\ DOMAIN Top = FrameFields /\ Top.at \in kinds
                         /\ HeadAt(parse) = Top.at
         /\ UnderAt(kinds) => /\ Len(parse) > 1 /\ Under = parse[Len(parse) - 1]
                              /\ Under.at \in kinds
<1>1. Tied(c, parse) /\ Len(parse) \in Nat /\ StackInv(c, parse) /\ IsSeq(parse)
      /\ (parse = <<>> <=> Len(parse) = 0)
  BY TiedFacts DEF Sound
<1>2. /\ At(kinds) => /\ Len(parse) >= 1 /\ Top = parse[Len(parse)]
                      /\ DOMAIN Top = FrameFields /\ Top.at \in kinds
      /\ UnderAt(kinds) => Len(parse) > 1 /\ parse[Len(parse) - 1].at \in kinds
  BY <1>1, AtTop
<1>3. At(kinds) => HeadAt(parse) = Top.at BY <1>1, <1>2 DEF HeadAt
<1>4. QED BY <1>1, <1>2, <1>3 DEF Under

LEMMA TagOpenSound ==
  ASSUME Sound(c, parse, meant), StructOpen \/ EnumOpen
  PROVE  Sound(c', parse', meant')
<1>1. Running BY DEF StructOpen, EnumOpen, Reduce
<1>2. /\ Ready(Quiet, parse) /\ Quiet.rt = c.rt /\ Quiet.structs = c.structs
      /\ Quiet.unnamed = c.unnamed
  BY <1>1, QuietReady
<1>3. CASE StructOpen
  <2>1. PICK su \in {"struct", "union"}, n \in Tags \cup {NoName} :
          /\ SpecsOpen \/ At({"struct"})
          /\ Space(1) /\ ~ c.structs[StructRef(c.rt, su, n)].made
          /\ Reduce(BeginStruct(Quiet, su, n),
                    Push(Frame("struct", "members", StructTerm(c, su, n))), {})
    BY <1>3 DEF StructOpen
  <2>2. Len(parse) >= 1 /\ MayLie("struct", HeadAt(parse))
    BY <2>1, AtFacts DEF MayLie, SpecsOpen
  <2>3. Room(Quiet.rt, 1) /\ su \in StructKinds BY <1>2, <2>1 DEF Space, StructKinds
  <2>4. StructTerm(Quiet, su, n) = StructTerm(c, su, n)
    BY <1>2 DEF StructTerm, UnnamedId
  <2>5. ~ Quiet.structs[StructRef(Quiet.rt, su, n)].made BY <1>2, <2>1
  <2>6. /\ c' = BeginStruct(Quiet, su, n) /\ meant' = {}
        /\ parse' = Append(parse, Frame("struct", "members", StructTerm(Quiet, su, n)))
    BY <2>1, <2>4 DEF Reduce, Push
  <2>7. QED BY <1>2, <2>2, <2>3, <2>5, <2>6, TagStarts
<1>4. CASE EnumOpen
  <2>1. PICK n \in Tags \cup {NoName} :
          /\ SpecsOpen /\ Space(1) /\ ~ EnumKnown(c.rt, n)
          /\ Reduce(BeginEnum(Quiet, n),
                    Push(Frame("enum", "members",
                               Tagged("enum", n, UnnamedId(c, "enum", n)))), {})
    BY <1>4 DEF EnumOpen
  <2>2. Len(parse) >= 1 /\ MayLie("enum", HeadAt(parse))
    BY <2>1, AtFacts DEF MayLie, SpecsOpen
  <2>3. Room(Quiet.rt, 1) /\ ~ EnumKnown(Quiet.rt, n) BY <1>2, <2>1 DEF Space
  <2>4. UnnamedId(Quiet, "enum", n) = UnnamedId(c, "enum", n) BY <1>2 DEF UnnamedId
  <2>5. /\ c' = BeginEnum(Quiet, n) /\ meant' = {}
        /\ parse' = Append(parse, Frame("enum", "members",
                                        Tagged("enum", n, UnnamedId(Quiet, "enum", n))))
    BY <2>1, <2>4 DEF Reduce, Push
  <2>6. QED BY <1>2, <2>2, <2>3, <2>5, TagStarts
<1>5. QED BY <1>3, <1>4

(* What a declarator frame f says when it has just been opened: it is in   *)
(* its stars, and has the type of the declaration.                         *)
LEMMA FreshDtorSays ==
  ASSUME NEW s, NEW u, NEW d, NEW t,
         d = NewDeclarator(t, d.declaration), u.at # "pdecl" => u.phase = "dtors",
         NEW type, Exact => s.text[t].term = type
  PROVE  DtorSays(s, Frame("dtor", "stars", type), u, d)
<1> DEFINE f == Frame("dtor", "stars", type)
<1>1. /\ f.at = "dtor" /\ f.phase = "stars" /\ f.type = type /\ f.inner = 0
      /\ f.name = NoName
  BY NewFrame
<1>2. d.type = t /\ d.identifier = NoName /\ d.bits = Literal(0) BY DEF NewDeclarator
<1>3. ~ Named(f) BY <1>1 DEF Named
<1>4. MemberText(s, d.type, d.bits) = s.text[d.type].term BY <1>2 DEF MemberText
<1> HIDE DEF f
<1>5. DtorSays(s, f, u, d) BY <1>1, <1>2, <1>3, <1>4 DEF DtorSays
<1>6. QED BY <1>5 DEF f

LEMMA DeclaratorStarts ==
  ASSUME NEW s, NEW p, Ready(s, p), Len(p) >= 1, p[Len(p)].at \in {"decl", "sdecl", "fdef"},
         p[Len(p)].phase = "dtors"
  PROVE  Sound(DeclaratorBegin(s), Append(p, Frame("dtor", "stars", p[Len(p)].type)), {})
<1> DEFINE u == p[Len(p)]
           k == DeclaratorBegin(s)
           f == Frame("dtor", "stars", u.type)
           d == NewDeclarator(CurDecl(s).type, Len(s.decls))
<1>1. /\ Tied(s, p) /\ StackInv(s, p) /\ Held(s) /\ Len(p) \in Nat /\ Plainly(s)
      /\ s.constant_id <= MaxConstants /\ s.rt.halt = "no" /\ s.said = {} /\ IsSeq(p)
  BY ReadyFacts
<1>2. Len(s.decls) >= 1 /\ Len(s.decls) \in Nat /\ Len(s.dtors) \in Nat
      /\ FrameSays(s, u, p[Len(p) - 1])
  BY <1>1, TiedFacts DEF DeclaresAt, One
<1>3. /\ Held(k) /\ Same(s, k) /\ k.decls = s.decls /\ Pushed(s.dtors, k.dtors, d)
      /\ CurDtor(k) = d /\ Prim(k, CurDecl(s).type)
  BY <1>1, <1>2, DeclaratorBeginStep
<1>4. /\ DOMAIN f = FrameFields /\ f.at = "dtor" /\ f.phase = "stars" /\ FrameOK(k, f)
  BY NewFrame
<1>5. d.type = CurDecl(s).type /\ d.declaration = Len(s.decls) /\ ~ d.parenthised
  BY DEF NewDeclarator
<1>6. Mild(s, k) /\ k.rt = s.rt /\ k.text = s.text /\ k.said = s.said
      /\ k.constant_id = s.constant_id
  BY <1>1, <1>3, SameMild
<1>7. StackInv(k, Append(p, f)) BY <1>1, <1>4, DeclaratorOpened
<1>8. DtorSays(k, f, u, d)
  <2>1. DeclSays(s, u, CurDecl(s)) BY <1>2 DEF FrameSays
  <2>2. Exact => k.text[CurDecl(s).type].term = u.type
    BY <1>6, <2>1 DEF DeclSays
  <2>3. d = NewDeclarator(CurDecl(s).type, d.declaration) BY <1>5
  <2>4. QED BY <2>2, <2>3, FreshDtorSays
<1> HIDE DEF k, f, d
<1>9. FrameSays(k, f, u) BY <1>3, <1>4, <1>8 DEF FrameSays
<1>10. EndsMoved(s, k) BY <1>2, <1>3 DEF EndsMoved, Pushed
<1>11. Plainly(k)
  <2>1. Len(k.dtors) = Len(s.dtors) + 1 /\ k.dtors[Len(s.dtors) + 1] = d
        /\ \A i \in 1..Len(s.dtors) : k.dtors[i] = s.dtors[i]
    BY <1>3 DEF Pushed
  <2>2. \A i \in 1..Len(k.dtors) : i = Len(s.dtors) + 1 \/ i \in 1..Len(s.dtors)
    BY <1>2, <2>1
  <2>3. QED BY <1>1, <1>5, <2>1, <2>2 DEF Plainly
<1>12. Tied(k, Append(p, f))
  <2>1. HeadAt(p) = u.at BY DEF HeadAt
  <2>2. f.at \notin {"struct", "enum"} /\ HeadAt(p) # "enum" /\ MayLie(f.at, HeadAt(p))
    BY <1>4, <2>1 DEF MayLie
  <2>3. QED BY <1>1, <1>4, <1>6, <1>7, <1>9, <1>10, <1>11, <2>2, PushedTied
<1>13. TopPrim(k, Append(p, f)) BY <1>3, <1>5 DEF TopPrim
<1>14. Sound(k, Append(p, f), {}) BY <1>1, <1>6, <1>12, <1>13, SoundQuiet
<1>15. QED BY <1>14 DEF k, f

LEMMA FunctionOpens ==
  ASSUME NEW s, NEW p, Ready(s, p), Len(p) >= 1, p[Len(p)].at = "dtor",
         p[Len(p)].phase = "suffix"
  PROVE  Sound(s, Append(p, Frame("params", "params", NullTerm)), {})
<1> DEFINE f == Frame("params", "params", NullTerm)
<1>1. /\ Tied(s, p) /\ StackInv(s, p) /\ Held(s) /\ Len(p) \in Nat /\ Plainly(s)
      /\ s.constant_id <= MaxConstants /\ s.rt.halt = "no" /\ s.said = {} /\ IsSeq(p)
      /\ Shaped(s) /\ DOMAIN s = Fields
  BY ReadyFacts
<1>2. /\ DOMAIN f = FrameFields /\ f.at = "params" /\ FrameOK(s, f) /\ f.params = <<>>
      /\ f.types = <<>>
  BY NewFrame
<1> HIDE DEF f
<1>3. Same(s, s) BY <1>1 DEF Same
<1>4. Mild(s, s) BY <1>1, <1>3, SameMild
<1>5. StackInv(s, Append(p, f)) BY <1>1, <1>2, KeepsSelf, ListOpened
<1>6. ParamsSay(s, f)
  <2>1. IsSeq(f.types) /\ Len(f.types) = 0 /\ Len(f.params) = 0 BY <1>2, NoneIsSeq
  <2>2. QED BY <2>1 DEF ParamsSay
<1>7. FrameSays(s, f, p[Len(p)]) BY <1>2, <1>6 DEF FrameSays
<1>8. Tied(s, Append(p, f))
  <2>1. HeadAt(p) = "dtor" BY DEF HeadAt
  <2>2. f.at \notin {"struct", "enum"} /\ HeadAt(p) # "enum" /\ MayLie(f.at, HeadAt(p))
    BY <1>2, <2>1 DEF MayLie
  <2>3. EndsMoved(s, s) BY DEF EndsMoved
  <2>4. QED BY <1>1, <1>2, <1>4, <1>5, <1>7, <2>2, <2>3, PushedTied
<1>9. TopPrim(s, Append(p, f)) BY <1>1, <1>2, NoDeclarator
<1>10. Sound(s, Append(p, f), {}) BY <1>1, <1>8, <1>9, SoundQuiet
<1>11. QED BY <1>10 DEF f

LEMMA ParameterStarts ==
  ASSUME NEW s, NEW p, Ready(s, p), Len(p) >= 1, p[Len(p)].at = "params"
  PROVE  Sound(DeclaratorBegin(DeclarationBegin(s)),
               Append(p, Frame("pdecl", "specs", NullTerm)), {})
<1> DEFINE m == DeclarationBegin(s)
           t == TypeByName(s.rt, "int")
           e == NewDeclaration(t)
           k == DeclaratorBegin(m)
           f == Frame("pdecl", "specs", NullTerm)
<1>1. /\ Tied(s, p) /\ StackInv(s, p) /\ Held(s) /\ Len(p) \in Nat /\ Plainly(s)
      /\ s.constant_id <= MaxConstants /\ s.rt.halt = "no" /\ s.said = {} /\ IsSeq(p)
      /\ Len(s.decls) \in Nat /\ Len(s.dtors) \in Nat
  BY ReadyFacts, TiedFacts
<1>2. /\ Held(m) /\ Same(s, m) /\ m.dtors = s.dtors
      /\ Pushed(s.decls, m.decls, e) /\ CurDecl(m) = e
  BY <1>1, DeclarationBeginStep
<1>3. Len(m.decls) >= 1
  <2>1. Len(m.decls) = Len(s.decls) + 1 BY <1>2 DEF Pushed
  <2>2. QED BY <1>1, <2>1
<1> DEFINE d == NewDeclarator(CurDecl(m).type, Len(m.decls))
<1>4. /\ Held(k) /\ Same(m, k) /\ k.decls = m.decls /\ Pushed(m.dtors, k.dtors, d)
  BY <1>2, <1>3, DeclaratorBeginStep
<1>5. /\ DOMAIN f = FrameFields /\ f.at = "pdecl" /\ f.phase = "specs" /\ f.n = 0
      /\ ParamsTyped(k, f)
  BY NewFrame
<1>6. StackInv(k, Append(p, f)) BY <1>1, <1>5, ParameterOpened
<1>7. ~ d.parenthised BY DEF NewDeclarator
<1>8. e.declarators = <<>> /\ Len(e.declarators) = 0 BY DEF NewDeclaration
<1> HIDE DEF k, m, f, d, e
<1>9. Same(s, k) BY <1>2, <1>4, SameTwice
<1>10. Mild(s, k) /\ k.rt = s.rt /\ k.text = s.text /\ k.said = s.said
       /\ k.constant_id = s.constant_id
  BY <1>1, <1>4, <1>9, SameMild
<1>11. CurDecl(k) = e BY <1>2, <1>4 DEF CurDecl
<1>12. FrameOK(k, f)
  <2>1. Few(f, e) BY <1>5, <1>8 DEF Few
  <2>2. QED BY <1>5, <1>11, <2>1 DEF FrameOK
<1>13. FrameSays(k, f, p[Len(p)])
  <2>1. DeclSays(k, f, e) BY <1>5 DEF DeclSays
  <2>2. QED BY <1>5, <1>11, <2>1 DEF FrameSays
<1>14. EndsMoved(s, k) BY <1>1, <1>2, <1>4 DEF EndsMoved, Pushed
<1>15. Plainly(k)
  <2>1. Len(k.dtors) = Len(s.dtors) + 1 /\ k.dtors[Len(s.dtors) + 1] = d
        /\ \A i \in 1..Len(s.dtors) : k.dtors[i] = s.dtors[i]
    BY <1>2, <1>4 DEF Pushed
  <2>2. \A i \in 1..Len(k.dtors) : i = Len(s.dtors) + 1 \/ i \in 1..Len(s.dtors)
    BY <1>1, <2>1
  <2>3. QED BY <1>1, <1>7, <2>1, <2>2 DEF Plainly
<1>16. Tied(k, Append(p, f))
  <2>1. HeadAt(p) = "params" BY DEF HeadAt
  <2>2. f.at \notin {"struct", "enum"} /\ HeadAt(p) # "enum" /\ MayLie(f.at, HeadAt(p))
    BY <1>5, <2>1 DEF MayLie
  <2>3. QED BY <1>1, <1>6, <1>10, <1>12, <1>13, <1>14, <1>15, <2>2, PushedTied
<1>17. TopPrim(k, Append(p, f)) BY <1>1, <1>5, NoDeclarator
<1>18. Sound(k, Append(p, f), {}) BY <1>1, <1>10, <1>16, <1>17, SoundQuiet
<1>19. QED BY <1>18 DEF k, m, f

LEMMA DeclaratorStartSound ==
  ASSUME Sound(c, parse, meant), DeclaratorStart \/ FunctionOpen \/ ParamStart
  PROVE  Sound(c', parse', meant')
<1>1. Running BY DEF DeclaratorStart, FunctionOpen, ParamStart, Reduce
<1>2. Ready(Quiet, parse) BY <1>1, QuietReady
<1>3. CASE DeclaratorStart
  <2>1. Len(parse) >= 1 /\ Top = parse[Len(parse)] /\ Top.at \in {"decl", "sdecl", "fdef"}
    BY <1>3, AtFacts DEF DeclaratorStart
  <2>2. /\ c' = DeclaratorBegin(Quiet) /\ meant' = {} /\ Top.phase = "dtors"
        /\ parse' = Append(parse, Frame("dtor", "stars", Top.type))
    BY <1>3 DEF DeclaratorStart, Reduce, Push
  <2>3. QED BY <1>2, <2>1, <2>2, DeclaratorStarts
<1>4. CASE FunctionOpen
  <2>1. Len(parse) >= 1 /\ Top = parse[Len(parse)] /\ Top.at = "dtor"
    BY <1>4, AtFacts DEF FunctionOpen
  <2>2. /\ c' = Quiet /\ meant' = {} /\ Top.phase = "suffix"
        /\ parse' = Append(parse, Frame("params", "params", NullTerm))
    BY <1>4 DEF FunctionOpen, Reduce, Push
  <2>3. QED BY <1>2, <2>1, <2>2, FunctionOpens
<1>5. CASE ParamStart
  <2>1. Len(parse) >= 1 /\ Top = parse[Len(parse)] /\ Top.at = "params"
    BY <1>5, AtFacts DEF ParamStart
  <2>2. /\ c' = DeclaratorBegin(DeclarationBegin(Quiet)) /\ meant' = {}
        /\ parse' = Append(parse, Frame("pdecl", "specs", NullTerm))
    BY <1>5 DEF ParamStart, Reduce, Push
  <2>3. QED BY <1>2, <2>1, <2>2, ParameterStarts
<1>6. QED BY <1>3, <1>4, <1>5

-----------------------------------------------------------------------------
(* Specifiers.                                                             *)

LEMMA TopMade ==
  ASSUME NEW p, IsSeq(p), Len(p) >= 1, NEW f
  PROVE  /\ IsSeq(SetTop(p, f)) /\ Len(SetTop(p, f)) = Len(p) /\ SetTop(p, f)[Len(p)] = f
         /\ \A i \in 1..Len(p) - 1 : SetTop(p, f)[i] = p[i]
<1>1. /\ IsSeq(Front(p)) /\ Len(Front(p)) = Len(p) - 1
      /\ \A i \in 1..Len(p) - 1 : Front(p)[i] = p[i]
  BY Fronted
<1>2. Len(p) \in Nat BY SeqFacts
<1>3. QED BY <1>1, <1>2, Appended DEF SetTop

LEMMA StorageSets ==
  ASSUME NEW s, NEW p, Ready(s, p), Len(p) >= 1, p[Len(p)].at = "decl",
         p[Len(p)].phase = "specs"
  PROVE  Sound([s EXCEPT !.decls[Len(s.decls)].storage = "typedef"],
               SetTop(p, [p[Len(p)] EXCEPT !.storage = "typedef"]), {})
<1> DEFINE u == p[Len(p)]
           f == [u EXCEPT !.storage = "typedef"]
           v == [CurDecl(s) EXCEPT !.storage = "typedef"]
           k == SetDecl(s, v)
<1>1. /\ Tied(s, p) /\ StackInv(s, p) /\ Held(s) /\ Len(p) \in Nat /\ Plainly(s)
      /\ s.constant_id <= MaxConstants /\ s.rt.halt = "no" /\ s.said = {} /\ IsSeq(p)
      /\ Shaped(s) /\ DOMAIN s = Fields
  BY ReadyFacts
<1>2. /\ Len(s.decls) >= 1 /\ Len(s.decls) \in Nat /\ FrameSays(s, u, p[Len(p) - 1])
      /\ FrameOK(s, u) /\ DOMAIN u = FrameFields
  BY <1>1, TiedFacts DEF DeclaresAt, One
<1>3. CurDecl(s) = s.decls[Len(s.decls)] BY DEF CurDecl, Last
<1>4. DOMAIN CurDecl(s) = DeclFields /\ IsSeq(CurDecl(s).declarators)
      /\ DeclTyped(s, CurDecl(s))
  BY <1>1, <1>2, <1>3 DEF Shaped, Held, StacksTyped
<1>5. /\ DOMAIN v = DeclFields /\ v.type = CurDecl(s).type /\ v.storage = "typedef"
      /\ v.declarators = CurDecl(s).declarators
  BY <1>4 DEF DeclFields
<1>6. /\ DOMAIN f = FrameFields /\ f.at = u.at /\ f.phase = u.phase /\ f.n = u.n
      /\ f.type = u.type /\ f.storage = "typedef" /\ f.declares = u.declares
      /\ f.params = u.params
  BY <1>2 DEF FrameFields
<1>7. k = [s EXCEPT !.decls[Len(s.decls)].storage = "typedef"] BY <1>3 DEF SetDecl
<1> HIDE DEF k, f, v
<1>8. Held(k) /\ Same(s, k) /\ k.dtors = s.dtors /\ BelowSame(s.decls, k.decls)
      /\ k.decls[Len(s.decls)] = v
  <2>1. DeclTyped(s, v) BY <1>4, <1>5 DEF DeclTyped
  <2>2. QED BY <1>1, <1>2, <1>4, <1>5, <2>1, SetDeclStep DEF k
<1>9. Mild(s, k) /\ k.rt = s.rt /\ k.text = s.text /\ k.said = s.said
      /\ k.constant_id = s.constant_id
  BY <1>1, <1>8, SameMild
<1>10. CurDecl(k) = v
  <2>1. Len(k.decls) = Len(s.decls) BY <1>8 DEF BelowSame
  <2>2. QED BY <1>8, <2>1 DEF CurDecl, Last
<1>11. StackInv(k, SetTop(p, f))
  <2>1. Keeps(s, k)
    <3>1. Len(k.decls) = Len(s.decls) BY <1>8 DEF BelowSame
    <3>2. Shaped(k) /\ k.emit = s.emit BY <1>8 DEF Held, Same
    <3>3. QED BY <1>8, <3>1, <3>2 DEF Keeps
  <2>2. QED BY <1>1, <1>6, <2>1, TopChanged
<1>12. TopMoved(s, p, k) BY <1>8 DEF TopMoved, DeclaresAt
<1>13. DeclSays(s, u, CurDecl(s)) /\ CurDecl(s).declarators = <<>> /\ u.declares = {}
  BY <1>2 DEF FrameSays, DeclSays
<1>14. FrameOK(k, f)
  <2>1. ParamsTyped(k, f)
    <3>1. ParamsTyped(s, u) /\ TypesOK(s) BY <1>1, <1>2 DEF FrameOK, Held
    <3>2. TypesOK(k) /\ Grows(s, k) BY <1>9 DEF Mild, Onward, Held
    <3>3. ParamsTyped(s, f) BY <1>6, <3>1 DEF ParamsTyped
    <3>4. QED BY <3>1, <3>2, <3>3, ParamsGrow
  <2>2. Few(f, v)
    <3>1. v.declarators = <<>> /\ Len(v.declarators) = 0 BY <1>5, <1>13
    <3>2. f.n \in Nat BY <1>2, <1>6 DEF FrameOK
    <3>3. QED BY <3>1, <3>2 DEF Few
  <2>3. QED BY <1>2, <1>6, <1>10, <2>1, <2>2 DEF FrameOK
<1>15. DeclSays(k, f, v)
  <2>1. DOMAIN v.declarators = {} /\ v.declarators = <<>> BY <1>5, <1>13
  <2>2. /\ IdsAt(v.declarators, DOMAIN v.declarators) = {} /\ NamesIn(f.declares) = {}
        /\ DeclarationsAt(k, v.declarators, DOMAIN v.declarators, f.storage) = {}
        /\ Introduces(k.rt, v.declarators)
    BY <1>6, <1>13, <2>1 DEF IdsAt, NamesIn, DeclarationsAt, Introduces
  <2>3. QED BY <1>5, <1>6, <1>13, <2>1, <2>2 DEF DeclSays
<1>16. Plainly(k) BY <1>1, <1>8 DEF Plainly
<1>17. Tied(k, SetTop(p, f))
  <2>1. SameFrame(u, f) BY <1>6 DEF SameFrame
  <2>2. FrameSays(k, f, p[Len(p) - 1]) BY <1>6, <1>10, <1>15 DEF FrameSays
  <2>3. QED BY <1>1, <1>9, <1>11, <1>12, <1>14, <1>16, <2>1, <2>2, TopTied
<1>18. TopPrim(k, SetTop(p, f)) BY <1>1, <1>6, NoDeclarator
<1>19. Sound(k, SetTop(p, f), {}) BY <1>1, <1>9, <1>17, <1>18, SoundQuiet
<1>20. QED BY <1>7, <1>19 DEF f

LEMMA StorageSound ==
  ASSUME Sound(c, parse, meant), StorageClass
  PROVE  Sound(c', parse', meant')
<1>1. Running BY DEF StorageClass, Reduce
<1>2. Ready(Quiet, parse) /\ Quiet.decls = c.decls BY <1>1, QuietReady
<1>3. Len(parse) >= 1 /\ Top = parse[Len(parse)] /\ Top.at = "decl"
  BY AtFacts DEF StorageClass
<1>4. /\ c' = [Quiet EXCEPT !.decls[Len(Quiet.decls)].storage = "typedef"] /\ meant' = {}
      /\ Top.phase = "specs" /\ parse' = SetTop(parse, [Top EXCEPT !.storage = "typedef"])
  BY <1>2 DEF StorageClass, Reduce
<1>5. QED BY <1>2, <1>3, <1>4, StorageSets

(* A type specifier has been read: t is the type of the current            *)
(* declaration now, and v that of the current declarator.                  *)
LEMMA SpecifierLeft ==
  ASSUME NEW s, NEW p, Tied(s, p), Len(p) >= 1, p[Len(p)].at \in {"decl", "sdecl", "pdecl"},
         NEW t, Prim(s, t), NEW term, Exact => s.text[t].term = term,
         NEW v, Prim(s, v), p[Len(p)].at = "pdecl" => v = t,
         NEW k, Held(k), Same(s, k), TypeSet(s.decls, k.decls, t), Keeps(s, k),
         s.dtors = <<>> => k.dtors = <<>>,
         s.dtors # <<>> => Len(s.dtors) >= 1 /\ TypeSet(s.dtors, k.dtors, v)
  PROVE  LET q == Specified(p, term)
         IN  /\ Tied(k, q) /\ TopPrim(k, q) /\ k.rt = s.rt /\ k.said = s.said
             /\ k.constant_id = s.constant_id
<1> DEFINE u == p[Len(p)]
           f == [u EXCEPT !.phase = "dtors", !.type = term]
           g == Frame("dtor", "stars", term)
           q == SetTop(p, f)
<1>1. /\ StackInv(s, p) /\ Held(s) /\ Len(p) \in Nat /\ Plainly(s) /\ IsSeq(p) /\ Shaped(s)
      /\ Last(p) = u /\ Len(s.decls) \in Nat /\ Len(s.dtors) \in Nat /\ TypesOK(s)
      /\ FrameSays(s, u, p[Len(p) - 1]) /\ FrameOK(s, u) /\ DOMAIN u = FrameFields
      /\ Len(s.decls) >= 1
  BY TiedFacts DEF DeclaresAt, One
<1>2. /\ DOMAIN f = FrameFields /\ f.at = u.at /\ f.phase = "dtors" /\ f.n = u.n
      /\ f.type = term /\ f.storage = u.storage /\ f.declares = u.declares
      /\ f.params = u.params
  BY <1>1 DEF FrameFields
<1>3. /\ Held(k) /\ Same(s, k) /\ TypeSet(s.decls, k.decls, t)
      /\ s.dtors = <<>> => k.dtors = <<>>
      /\ s.dtors # <<>> => Len(s.dtors) >= 1 /\ TypeSet(s.dtors, k.dtors, v)
  OBVIOUS
<1>4. Specified(p, term) = IF f.at = "pdecl" THEN Append(q, g) ELSE q
  BY <1>1 DEF Specified
<1>5. Keeps(s, k) OBVIOUS
<1> HIDE DEF f, g, q
<1>6. Mild(s, k) /\ k.rt = s.rt /\ k.text = s.text /\ k.said = s.said
      /\ k.constant_id = s.constant_id /\ TypesOK(k) /\ Grows(s, k)
  BY <1>1, <1>3, SameMild
<1>7. Len(k.decls) = Len(s.decls) /\ Len(k.dtors) = Len(s.dtors) BY <1>5 DEF Keeps
<1>8. CurDecl(k) = [CurDecl(s) EXCEPT !.type = t]
  BY <1>3, <1>7 DEF TypeSet, CurDecl, Last
<1>9. DOMAIN CurDecl(s) = DeclFields /\ DeclTyped(s, CurDecl(s))
      /\ IsSeq(CurDecl(s).declarators)
  BY <1>1 DEF Shaped, CurDecl, Last, Held, StacksTyped
<1>10. /\ CurDecl(k).type = t /\ CurDecl(k).storage = CurDecl(s).storage
       /\ CurDecl(k).declarators = CurDecl(s).declarators
  BY <1>8, <1>9 DEF DeclFields
<1>11. ASSUME s.dtors # <<>>
       PROVE  /\ CurDtor(k).type = v /\ Prim(k, v)
              /\ CurDtor(k) = [CurDtor(s) EXCEPT !.type = v]
              /\ DOMAIN CurDtor(s) = DtorFields
  <2>1. Len(s.dtors) >= 1 /\ TypeSet(s.dtors, k.dtors, v) BY <1>3, <1>11
  <2>2. CurDtor(k) = [CurDtor(s) EXCEPT !.type = v] BY <1>7, <2>1 DEF TypeSet, CurDtor, Last
  <2>3. DOMAIN CurDtor(s) = DtorFields BY <1>1, <2>1 DEF Shaped, CurDtor, Last
  <2>4. CurDtor(k).type = v BY <2>2, <2>3 DEF DtorFields
  <2>5. Prim(k, v)
    <3>1. Typ(s, v) BY DEF Prim
    <3>2. QED BY <1>1, <1>6, <3>1, TypGrows
  <2>6. QED BY <2>2, <2>3, <2>4, <2>5
<1>12. Plainly(k)
  <2>1. CASE s.dtors = <<>>
    <3>1. Len(k.dtors) = 0 BY <1>3, <2>1
    <3>2. QED BY <3>1 DEF Plainly
  <2>2. CASE s.dtors # <<>>
    <3>1. CurDtor(k).parenthised = CurDtor(s).parenthised BY <1>11, <2>2 DEF DtorFields
    <3>2. \A i \in 1..Len(s.dtors) - 1 : k.dtors[i] = s.dtors[i]
      BY <1>3, <2>2 DEF TypeSet, BelowSame
    <3>3. \A i \in 1..Len(s.dtors) : k.dtors[i].parenthised = s.dtors[i].parenthised
      <4>1. \A i \in 1..Len(s.dtors) : i = Len(s.dtors) \/ i \in 1..Len(s.dtors) - 1
        BY <1>1
      <4>2. CurDtor(k) = k.dtors[Len(s.dtors)] /\ CurDtor(s) = s.dtors[Len(s.dtors)]
        BY <1>7 DEF CurDtor, Last
      <4>3. QED BY <3>1, <3>2, <4>1, <4>2
    <3>4. QED BY <1>1, <1>7, <3>3 DEF Plainly
  <2>3. QED BY <2>1, <2>2
<1>13. Tied(k, q)
  <2>1. StackInv(k, q) BY <1>1, <1>2, <1>5, TopChanged DEF q
  <2>2. TopMoved(s, p, k)
    <3>1. BelowSame(s.decls, k.decls) /\ DeclaresAt(p, Len(p)) BY <1>3 DEF TypeSet, DeclaresAt
    <3>2. k.dtors = s.dtors \/ BelowSame(s.dtors, k.dtors) BY <1>3 DEF TypeSet
    <3>3. QED BY <3>1, <3>2 DEF TopMoved
  <2>3. FrameOK(k, f)
    <3>1. ParamsTyped(s, u) /\ u.n \in Nat /\ Few(u, CurDecl(s)) BY <1>1 DEF FrameOK
    <3>2. ParamsTyped(k, f)
      <4>1. ParamsTyped(k, u) BY <1>1, <1>6, <3>1, ParamsGrow
      <4>2. QED BY <1>2, <4>1 DEF ParamsTyped
    <3>3. Few(f, CurDecl(k)) BY <1>2, <1>10, <3>1 DEF Few
    <3>4. QED BY <1>2, <3>1, <3>2, <3>3 DEF FrameOK
  <2>4. SameFrame(u, f) BY <1>2 DEF SameFrame
  <2>5. DeclSays(k, f, CurDecl(k))
    <3>1. DeclSays(s, u, CurDecl(s)) BY <1>1 DEF FrameSays
    <3>2. DeclSays(k, u, CurDecl(s))
      <4>1. SameTypeNames(s.rt, k.rt) BY <1>6 DEF Mild
      <4>2. QED BY <1>1, <1>6, <1>9, <3>1, <4>1, DeclSaysGrows
    <3>3. QED BY <1>2, <1>6, <1>10, <3>2 DEF DeclSays
  <2>6. FrameSays(k, f, p[Len(p) - 1]) BY <1>2, <2>5 DEF FrameSays
  <2>7. QED BY <1>6, <1>12, <2>1, <2>2, <2>3, <2>4, <2>6, TopTied DEF q
<1>14. CASE f.at # "pdecl"
  <2>1. Specified(p, term) = q BY <1>4, <1>14
  <2>2. TopPrim(k, q) BY <1>1, <1>2, NoDeclarator DEF q
  <2>3. QED BY <1>6, <1>13, <2>1, <2>2
<1>15. CASE f.at = "pdecl"
  <2>1. Specified(p, term) = Append(q, g) BY <1>4, <1>15
  <2>2. s.dtors # <<>>
    <3>1. DeclaratorAt(p, Len(p)) BY <1>2, <1>15 DEF DeclaratorAt
    <3>2. Len(s.dtors) >= 1 BY <3>1, TiedFacts DEF One
    <3>3. Len(<<>>) = 0 OBVIOUS
    <3>4. QED BY <3>2, <3>3
  <2>3. CurDtor(k).type = t /\ Prim(k, t) BY <1>2, <1>11, <1>15, <2>2
  <2>4. Len(q) = Len(p) /\ q[Len(p)] = f /\ IsSeq(q) BY <1>1, TopMade DEF q
  <2>5. /\ DOMAIN g = FrameFields /\ g.at = "dtor" /\ g.phase = "stars" /\ g.type = term
        /\ g.inner = 0 /\ FrameOK(k, g)
    BY NewFrame DEF g
  <2>6. StackInv(k, Append(q, g)) BY <1>1, <1>5, <2>1, SpecsRead
  <2>7. Mild(k, k)
    <3>1. Same(k, k) BY <1>3 DEF Same
    <3>2. QED BY <1>3, <3>1, SameMild
  <2>8. DtorSays(k, g, f, CurDtor(k))
    <3>1. Exact => k.text[t].term = term BY <1>6
    <3>2. ~ Named(g) BY <2>5 DEF Named
    <3>3. QED BY <1>15, <2>3, <2>5, <3>1, <3>2 DEF DtorSays
  <2>9. FrameSays(k, g, q[Len(q)]) BY <2>4, <2>5, <2>8 DEF FrameSays
  <2>10. Tied(k, Append(q, g))
    <3>1. HeadAt(q) = "pdecl" BY <1>15, <2>4 DEF HeadAt
    <3>2. g.at \notin {"struct", "enum"} /\ HeadAt(q) # "enum" /\ MayLie(g.at, HeadAt(q))
      BY <2>5, <3>1 DEF MayLie
    <3>3. EndsMoved(k, k) BY DEF EndsMoved
    <3>4. QED BY <1>12, <1>13, <2>5, <2>6, <2>7, <2>9, <3>2, <3>3, PushedTied
  <2>11. TopPrim(k, Append(q, g)) BY <2>3 DEF TopPrim
  <2>12. QED BY <1>6, <2>1, <2>10, <2>11
<1>16. QED BY <1>14, <1>15

(* The type t goes to the current declaration and the current declarator.  *)
LEMMA SpecifierRead ==
  ASSUME NEW s, NEW p, Tied(s, p), Len(p) >= 1, p[Len(p)].at \in {"decl", "sdecl", "pdecl"},
         NEW t, Prim(s, t), NEW term,
         Exact => s.text[t].term = term
  PROVE  LET k == TypeSpecifier(s, t)
             q == Specified(p, term)
         IN  /\ Tied(k, q) /\ TopPrim(k, q) /\ k.rt = s.rt /\ k.said = s.said
             /\ k.constant_id = s.constant_id
<1> DEFINE k == TypeSpecifier(s, t)
<1>1. Held(s) /\ Shaped(s) /\ Len(s.decls) >= 1 BY TiedFacts DEF DeclaresAt, One
<1>2. /\ Held(k) /\ Same(s, k) /\ TypeSet(s.decls, k.decls, t)
      /\ s.dtors = <<>> => k.dtors = <<>>
      /\ s.dtors # <<>> => Len(s.dtors) >= 1 /\ TypeSet(s.dtors, k.dtors, t)
  BY <1>1, TypeSpecifierStep
<1>3. Keeps(s, k) BY <1>1, TypeSpecifierKeeps
<1> HIDE DEF k
<1>4. QED BY <1>2, <1>3, SpecifierLeft DEF k

(* The tag in a specifier: only the registry gets a new type.              *)
LEMMA TagNamed ==
  ASSUME NEW s, NEW p, Ready(s, p), NEW k, Derives(s, k), SameStacks(s, k),
         k.rt.halt = s.rt.halt, k.constant_id = s.constant_id
  PROVE  Ready(k, p)
<1>1. /\ Tied(s, p) /\ StackInv(s, p) /\ Held(s) /\ TypesOK(s) /\ Shaped(s)
      /\ s.constant_id <= MaxConstants /\ s.rt.halt = "no" /\ s.said = {} /\ TopPrim(s, p)
  BY ReadyFacts
<1>2. Moves(s, k) BY <1>1, DerivesMoves
<1>3. k.said = s.said /\ Mild(s, k) /\ TypesOK(k) /\ Grows(s, k)
  BY <1>2 DEF Moves, Mild, Onward, Held
<1>4. DOMAIN k = Fields /\ k.emit = s.emit BY <1>3 DEF TypesOK, StoreOK, Grows
<1>5. Untouched(s, k) BY <1>4 DEF Untouched, SameStacks
<1>6. Keeps(s, k) BY <1>1, <1>5, UntouchedKeeps
<1>7. StackInv(k, p)
  <2>1. Nests(p) /\ SameAts(p, p, Len(p)) BY <1>1 DEF StackInv, SameAts
  <2>2. QED BY <1>1, <1>6, <2>1, MirrorsStay
<1>8. Tied(k, p) BY <1>1, <1>3, <1>7, StillTied
<1>9. TopPrim(k, p)
  <2>1. CurDtor(k) = CurDtor(s) BY DEF CurDtor, SameStacks
  <2>2. \A t : Prim(s, t) => Prim(k, t)
    <3>1. \A t : Prim(s, t) => Typ(s, t) BY DEF Prim
    <3>2. QED BY <1>1, <1>3, <3>1, TypGrows
  <2>3. QED BY <1>1, <2>1, <2>2 DEF TopPrim
<1>10. QED BY <1>1, <1>3, <1>8, <1>9 DEF Ready

LEMMA SpecifierSound ==
  ASSUME NEW s, NEW p, Ready(s, p), Len(p) >= 1, p[Len(p)].at \in {"decl", "sdecl", "pdecl"},
         NEW t, Prim(s, t), NEW term,
         Exact => s.text[t].term = term
  PROVE  Sound(TypeSpecifier(s, t), Specified(p, term), {})
<1> DEFINE k == TypeSpecifier(s, t)
           q == Specified(p, term)
<1>1. Tied(s, p) /\ s.constant_id <= MaxConstants /\ s.rt.halt = "no" /\ s.said = {}
  BY ReadyFacts
<1>2. /\ Tied(k, q) /\ TopPrim(k, q) /\ k.rt = s.rt /\ k.said = s.said
      /\ k.constant_id = s.constant_id
  BY <1>1, SpecifierRead
<1> HIDE DEF k, q
<1>3. Sound(k, q, {}) BY <1>1, <1>2, SoundQuiet
<1>4. QED BY <1>3 DEF k, q

(* A further specifier: a member goes back to its first one.               *)
LEMMA SpecifierAgainSound ==
  ASSUME NEW s, NEW p, Ready(s, p), Len(p) >= 1, p[Len(p)].at \in {"decl", "sdecl", "pdecl"},
         p[Len(p)].phase = "dtors", NEW t, Prim(s, t), NEW term,
         Exact => term = IF p[Len(p)].at = "sdecl" THEN p[Len(p)].type ELSE s.text[t].term
  PROVE  Sound(NextSpecifier(s, p[Len(p)].at, t), Specified(p, term), {})
<1> DEFINE u == p[Len(p)]
           n == Len(s.decls)
           l == TypeSpecifier(s, t)
           r == CurDecl(s).type
           w == [CurDecl(l) EXCEPT !.type = r]
           k == SetDecl(l, w)
           q == Specified(p, term)
<1>1. /\ Tied(s, p) /\ s.constant_id <= MaxConstants /\ s.rt.halt = "no" /\ s.said = {}
      /\ Held(s) /\ Shaped(s) /\ Len(p) \in Nat
  BY ReadyFacts
<1>2. n >= 1 /\ n \in Nat /\ FrameSays(s, u, p[Len(p) - 1]) BY <1>1, TiedFacts DEF DeclaresAt, One
<1>3. CASE u.at # "sdecl"
  <2>1. NextSpecifier(s, u.at, t) = l BY <1>3 DEF NextSpecifier
  <2>2. Exact => s.text[t].term = term BY <1>3
  <2> HIDE DEF l
  <2>3. QED BY <2>1, <2>2, SpecifierSound DEF l
<1>4. CASE u.at = "sdecl"
  <2>1. /\ Held(l) /\ Same(s, l) /\ TypeSet(s.decls, l.decls, t)
        /\ s.dtors = <<>> => l.dtors = <<>>
        /\ s.dtors # <<>> => Len(s.dtors) >= 1 /\ TypeSet(s.dtors, l.dtors, t)
    BY <1>1, <1>2, TypeSpecifierStep
  <2>2. Keeps(s, l) BY <1>1, TypeSpecifierKeeps
  <2> HIDE DEF l
  <2>3. /\ CurDecl(s) = s.decls[n] /\ CurDecl(l) = l.decls[n] /\ Len(l.decls) = n
        /\ CurDecl(l) = [CurDecl(s) EXCEPT !.type = t]
    BY <2>1 DEF TypeSet, BelowSame, CurDecl, Last
  <2>4. /\ DOMAIN CurDecl(s) = DeclFields /\ IsSeq(CurDecl(s).declarators)
        /\ DeclTyped(s, CurDecl(s))
    BY <1>1, <1>2, <2>3 DEF Shaped, Held, StacksTyped
  <2>5. Prim(s, r) /\ DeclTyped(l, CurDecl(s)) /\ Prim(l, r)
    <3>1. TypesOK(s) /\ TypesOK(l) /\ Grows(s, l) BY <1>1, <2>1, SameMild DEF Held
    <3>2. DeclTyped(l, CurDecl(s)) BY <2>4, <3>1, TypedGrows
    <3>3. QED BY <2>4, <3>2 DEF DeclTyped
  <2>6. /\ w = [CurDecl(s) EXCEPT !.type = r] /\ DOMAIN w = DeclFields
        /\ IsSeq(w.declarators) /\ DeclTyped(l, w)
    <3>1. PICK d, e : d = CurDecl(s) /\ e = CurDecl(l) OBVIOUS
    <3>2. DOMAIN d = DeclFields /\ e = [d EXCEPT !.type = t] BY <2>3, <2>4, <3>1
    <3>3. /\ [e EXCEPT !.type = r] = [d EXCEPT !.type = r]
          /\ DOMAIN [d EXCEPT !.type = r] = DeclFields
          /\ [d EXCEPT !.type = r].declarators = d.declarators
          /\ [d EXCEPT !.type = r].type = r
      BY <3>2 DEF DeclFields
    <3>4. /\ w = [CurDecl(s) EXCEPT !.type = r] /\ DOMAIN w = DeclFields
          /\ w.declarators = CurDecl(s).declarators /\ w.type = r
      BY <3>1, <3>3
    <3>5. DeclTyped(l, w) BY <2>5, <3>4 DEF DeclTyped
    <3>6. QED BY <2>4, <3>4, <3>5
  <2> HIDE DEF w
  <2>7. Held(k) /\ Same(l, k) /\ k.dtors = l.dtors /\ BelowSame(l.decls, k.decls)
        /\ k.decls[n] = w
    <3>1. Held(l) /\ Len(l.decls) >= 1 /\ Len(l.decls) = n BY <1>2, <2>1, <2>3
    <3>2. DOMAIN w = DeclFields BY <2>6
    <3>3. IsSeq(w.declarators) BY <2>6
    <3>4. DeclTyped(l, w) BY <2>6
    <3>5. LET m == SetDecl(l, w)
          IN  /\ Held(m) /\ Same(l, m) /\ m.dtors = l.dtors
              /\ BelowSame(l.decls, m.decls) /\ m.decls[Len(l.decls)] = w
      BY <3>1, <3>2, <3>3, <3>4, SetDeclStep
    <3>6. QED BY <3>1, <3>5
  <2>8. NextSpecifier(s, u.at, t) = k
    BY <1>4, <2>3 DEF NextSpecifier, SetDecl, w, l
  <2> HIDE DEF k, r
  <2>9. Same(s, k) BY <2>1, <2>7, SameTwice
  <2>10. TypeSet(s.decls, k.decls, r)
    <3>1. BelowSame(s.decls, k.decls) BY <2>1, <2>7 DEF TypeSet, BelowSame
    <3>2. QED BY <2>3, <2>6, <2>7, <3>1 DEF TypeSet
  <2>11. Keeps(s, k)
    <3>1. Len(k.decls) = Len(l.decls) BY <2>7 DEF BelowSame
    <3>2. Shaped(k) /\ k.emit = s.emit BY <2>7, <2>9 DEF Held, Same
    <3>3. QED BY <2>2, <2>7, <3>1, <3>2 DEF Keeps
  <2>12. Exact => s.text[r].term = term
    <3>1. Exact => s.text[CurDecl(s).type].term = u.type
      BY <1>2, <1>4 DEF FrameSays, DeclSays
    <3>2. QED BY <1>4, <3>1 DEF r
  <2>13. /\ s.dtors = <<>> => k.dtors = <<>>
         /\ s.dtors # <<>> => Len(s.dtors) >= 1 /\ TypeSet(s.dtors, k.dtors, t)
    BY <2>1, <2>7
  <2>14. /\ Tied(k, q) /\ TopPrim(k, q) /\ k.rt = s.rt /\ k.said = s.said
         /\ k.constant_id = s.constant_id
    <3>1. Held(k) BY <2>7
    <3>2. u.at = "pdecl" => t = r BY <1>4
    <3>3. Prim(s, r) BY <2>5
    <3>4. Tied(s, p) BY <1>1
    <3>5. s.dtors = <<>> => k.dtors = <<>> BY <2>13
    <3>6. s.dtors # <<>> => Len(s.dtors) >= 1 /\ TypeSet(s.dtors, k.dtors, t) BY <2>13
    <3>7. QED
      BY <2>9, <2>10, <2>11, <2>12, <3>1, <3>2, <3>3, <3>4, <3>5, <3>6, SpecifierLeft
  <2> HIDE DEF q
  <2>15. Sound(k, q, {}) BY <1>1, <2>14, SoundQuiet
  <2>16. QED BY <2>8, <2>15 DEF q
<1>5. QED BY <1>3, <1>4

LEMMA SpecNameSound ==
  ASSUME Sound(c, parse, meant), SpecIntrinsic \/ SpecTypeName
  PROVE  Sound(c', parse', meant')
<1>1. Running BY DEF SpecIntrinsic, SpecTypeName, Reduce
<1>2. Ready(Quiet, parse) /\ Quiet.rt = c.rt /\ TypesOK(Quiet)
  BY <1>1, QuietReady, ReadyFacts
<1>3. CASE SpecIntrinsic
  <2>1. PICK n \in Intrinsics \ {Varargs} :
          /\ SpecsOpen
          /\ Reduce(TypeSpecifier(Quiet, TypeByName(c.rt, n)), Specified(parse, Base(n)), {})
    BY <1>3 DEF SpecIntrinsic
  <2>2. /\ Len(parse) >= 1 /\ parse[Len(parse)].at \in {"decl", "sdecl", "pdecl"}
        /\ parse[Len(parse)].phase = "specs"
    BY <2>1, AtFacts DEF SpecsOpen
  <2> DEFINE t == TypeByName(Quiet.rt, n)
  <2>3. Prim(Quiet, t) /\ Quiet.text[t].term = Base(n) BY <1>2, <2>1, NamedType
  <2>4. /\ c' = TypeSpecifier(Quiet, t) /\ parse' = Specified(parse, Base(n)) /\ meant' = {}
    BY <1>2, <2>1 DEF Reduce
  <2> HIDE DEF t
  <2>5. QED BY <1>2, <2>2, <2>3, <2>4, SpecifierSound
<1>4. CASE SpecTypeName
  <2>1. PICK n \in TypeNames :
          /\ SpecsOpen /\ Uses("typename") /\ Found(Cur(c.rt).tab["type"], n)
          /\ Reduce(TypeSpecifier(Quiet, TypeByName(c.rt, n)), Specified(parse, Base(n)), {})
    BY <1>4 DEF SpecTypeName
  <2>2. /\ Len(parse) >= 1 /\ parse[Len(parse)].at \in {"decl", "sdecl", "pdecl"}
        /\ parse[Len(parse)].phase = "specs"
    BY <2>1, AtFacts DEF SpecsOpen
  <2> DEFINE t == TypeByName(Quiet.rt, n)
  <2>3. ~ Resolved BY <2>1 DEF Uses, Resolved
  <2>4. Prim(Quiet, t) BY <1>2, <2>1, <2>3, NamedType
  <2>5. ~ Exact BY <2>3 DEF Exact
  <2>6. /\ c' = TypeSpecifier(Quiet, t) /\ parse' = Specified(parse, Base(n)) /\ meant' = {}
    BY <1>2, <2>1 DEF Reduce
  <2> HIDE DEF t
  <2>7. QED BY <1>2, <2>2, <2>4, <2>5, <2>6, SpecifierSound
<1>5. QED BY <1>3, <1>4

LEMMA SpecifiedAgainSound ==
  ASSUME NEW p, Ready(Quiet, p), Len(p) >= 1, p[Len(p)].at \in {"decl", "sdecl", "pdecl"},
         NEW first, NEW next \in Intrinsics, NEW whole, SpecifiedAgain(p, first, next, whole),
         Quiet.rt = c.rt
  PROVE  Sound(c', parse', meant')
<1> DEFINE u == p[Len(p)]
           t == TypeByName(Quiet.rt, next)
<1>1. Last(p) = u BY DEF Last
<1>2. /\ u.phase = "dtors" /\ u.type = Base(first)
      /\ Uses("specifiers") \/ whole = (IF u.at = "sdecl" THEN first ELSE next)
      /\ c' = NextSpecifier(Quiet, u.at, t) /\ parse' = Specified(p, Base(whole))
      /\ meant' = {}
  BY <1>1 DEF SpecifiedAgain, Reduce
<1>3. TypesOK(Quiet) BY ReadyFacts
<1>4. Prim(Quiet, t) /\ Quiet.text[t].term = Base(next) BY <1>3, NamedType
<1> HIDE DEF t
<1>5. Exact => Base(whole) = IF u.at = "sdecl" THEN u.type ELSE Quiet.text[t].term
  <2> SUFFICES ASSUME Exact
               PROVE  Base(whole) = IF u.at = "sdecl" THEN u.type ELSE Quiet.text[t].term
    OBVIOUS
  <2>1. whole = (IF u.at = "sdecl" THEN first ELSE next) BY <1>2 DEF Exact, Uses
  <2>2. CASE u.at = "sdecl" BY <1>2, <2>1, <2>2
  <2>3. CASE u.at # "sdecl" BY <1>4, <2>1, <2>3
  <2>4. QED BY <2>2, <2>3
<1>6. Sound(NextSpecifier(Quiet, u.at, t), Specified(p, Base(whole)), {})
  BY <1>2, <1>4, <1>5, SpecifierAgainSound
<1>7. QED BY <1>2, <1>6

LEMMA SpecAgainSound ==
  ASSUME Sound(c, parse, meant), SpecAgain
  PROVE  Sound(c', parse', meant')
<1>1. PICK first, next, whole \in Intrinsics \ {Varargs} :
        \/ At({"decl", "sdecl"}) /\ SpecifiedAgain(parse, first, next, whole)
        \/ At({"dtor"}) /\ UnderAt({"pdecl"}) /\ SpecifiedAgain(Pop, first, next, whole)
  BY DEF SpecAgain
<1>2. Running BY <1>1 DEF SpecifiedAgain, Reduce
<1>3. Ready(Quiet, parse) /\ Quiet.rt = c.rt BY <1>2, QuietReady
<1>4. CASE At({"decl", "sdecl"}) /\ SpecifiedAgain(parse, first, next, whole)
  <2>1. Len(parse) >= 1 /\ parse[Len(parse)].at \in {"decl", "sdecl", "pdecl"}
    BY <1>4, AtFacts
  <2>2. QED BY <1>3, <1>4, <2>1, SpecifiedAgainSound
<1>5. CASE At({"dtor"}) /\ UnderAt({"pdecl"}) /\ SpecifiedAgain(Pop, first, next, whole)
  <2> DEFINE l == Front(parse)
             s == Quiet
  <2>1. /\ Len(parse) > 1 /\ Len(parse) >= 1 /\ parse[Len(parse)].at = "dtor"
        /\ parse[Len(parse) - 1].at = "pdecl"
    <3>1. Top = parse[Len(parse)] /\ Top.at \in {"dtor"} /\ Under = parse[Len(parse) - 1]
          /\ Under.at \in {"pdecl"} /\ Len(parse) > 1 /\ Len(parse) >= 1
      BY <1>5, AtFacts
    <3>2. QED BY <3>1
  <2>2. /\ Tied(s, parse) /\ StackInv(s, parse) /\ Held(s) /\ Plainly(s) /\ DOMAIN s = Fields
        /\ s.constant_id <= MaxConstants /\ s.rt.halt = "no" /\ s.said = {}
    BY <1>3, ReadyFacts
  <2> HIDE DEF s
  <2>3. StackInv(s, l) /\ Len(l) >= 1 /\ l[Len(l)].at = "pdecl"
    BY <2>1, <2>2, ParameterDeclarator
  <2>4. Same(s, s) BY <2>2 DEF Same
  <2>5. Mild(s, s) BY <2>2, <2>4, SameMild
  <2>6. EndsMoved(s, s) BY DEF EndsMoved
  <2>7. Tied(s, l)
    <3>1. parse[Len(parse)].at \notin {"struct", "enum"} BY <2>1
    <3>2. QED BY <2>1, <2>2, <2>3, <2>5, <2>6, <3>1, PoppedTied
  <2>8. TopPrim(s, l) BY <2>3 DEF TopPrim
  <2>9. Ready(s, l) BY <2>2, <2>7, <2>8 DEF Ready
  <2>10. SpecifiedAgain(l, first, next, whole) BY <1>5 DEF Pop
  <2>11. l[Len(l)].at \in {"decl", "sdecl", "pdecl"} /\ next \in Intrinsics BY <2>3
  <2> HIDE DEF l
  <2>12. Ready(Quiet, l) BY <2>9 DEF s
  <2>13. QED BY <1>3, <2>3, <2>10, <2>11, <2>12, SpecifiedAgainSound
<1>6. QED BY <1>1, <1>4, <1>5

(* Output is off exactly in function bodies, which do not nest.            *)
LEMMA BodiesQuiet ==
  ASSUME NEW s, NEW p, Tied(s, p)
  PROVE  /\ s.emit \in {0, 1}
         /\ s.emit = 0 <=> \E i \in DOMAIN p : p[i].at = "body"
<1>1. Len(p) \in Nat /\ DOMAIN p = 1..Len(p) /\ Places(p) /\ StackInv(s, p) BY TiedFacts
<1>2. \A i \in 1..Len(p) : p[i].at = "body" => i = 2
  <2>1. SUFFICES ASSUME NEW i \in 1..Len(p), p[i].at = "body" PROVE i = 2
    OBVIOUS
  <2>2. PlaceOK(p, i) BY <1>1, <2>1 DEF Places
  <2>3. i # 1 /\ p[i - 1].at = "fdef" BY <2>1, <2>2 DEF PlaceOK, MayLie
  <2>4. i - 1 \in 1..Len(p) BY <1>1, <2>1, <2>3
  <2>5. PlaceOK(p, i - 1) BY <1>1, <2>4 DEF Places
  <2>6. i - 1 = 1
    <3>1. (IF i - 1 = 1 THEN "none" ELSE p[(i - 1) - 1].at) = "none"
      BY <2>3, <2>5 DEF PlaceOK, MayLie
    <3>2. CASE i - 1 # 1
      <4>1. (i - 1) - 1 \in 1..Len(p) BY <1>1, <2>4, <3>2
      <4>2. PlaceOK(p, (i - 1) - 1) BY <1>1, <4>1 DEF Places
      <4>3. p[(i - 1) - 1].at = "none" BY <3>1, <3>2
      <4>4. QED BY <4>2, <4>3 DEF PlaceOK, MayLie
    <3>3. QED BY <3>2
  <2>7. QED BY <2>1, <2>6
<1>3. Upto(BodySet(p), Len(p)) = {i \in {2} : i \in 1..Len(p) /\ p[i].at = "body"}
  BY <1>1, <1>2 DEF Upto, BodySet, BodyAt
<1>4. s.emit = 1 - Cardinality(Upto(BodySet(p), Len(p))) BY <1>1 DEF StackInv, Mirrors, NBody
<1>5. CASE 2 \in 1..Len(p) /\ p[2].at = "body"
  <2>1. Upto(BodySet(p), Len(p)) = {2} BY <1>3, <1>5
  <2>2. Cardinality(Upto(BodySet(p), Len(p))) = 1 BY <2>1, FS_Singleton
  <2>3. s.emit = 0 BY <1>4, <2>2
  <2>4. QED BY <1>1, <1>5, <2>3
<1>6. CASE ~ (2 \in 1..Len(p) /\ p[2].at = "body")
  <2>1. Upto(BodySet(p), Len(p)) = {} BY <1>3, <1>6
  <2>2. Cardinality(Upto(BodySet(p), Len(p))) = 0 BY <2>1, FS_EmptySet
  <2>3. s.emit = 1 BY <1>4, <2>2
  <2>4. ~ \E i \in 1..Len(p) : p[i].at = "body" BY <1>2, <1>6
  <2>5. QED BY <1>1, <2>3, <2>4
<1>7. QED BY <1>5, <1>6

LEMMA SpecTagSound ==
  ASSUME Sound(c, parse, meant), SpecStruct \/ SpecEnum
  PROVE  Sound(c', parse', meant')
<1>1. Running BY DEF SpecStruct, SpecEnum, Reduce
<1>2. Ready(Quiet, parse) /\ Quiet.rt = c.rt /\ TypesOK(Quiet) /\ Quiet.begun = c.begun
      /\ Quiet.emit = c.emit /\ Tied(Quiet, parse)
  BY <1>1, QuietReady, ReadyFacts
<1>3. CASE SpecStruct
  <2>0. \A su, n : MayName(Quiet, su, n) =>
          LET k == WithRegistry(Quiet, StructForward(Quiet.rt, su, n))
              st == StructRef(Quiet.rt, su, n)
          IN  /\ Derives(Quiet, k) /\ SameStacks(Quiet, k) /\ k.rt.halt = Quiet.rt.halt
              /\ k.constant_id = Quiet.constant_id
              /\ st \in 1..k.rt.next - 1 /\ st # 0
              /\ k.rt.heap[st].kind = su /\ k.rt.heap[st].name = n /\ k.text[st].consts = {}
    BY SpecStructStep
  <2>1. PICK su \in {"struct", "union"}, n \in Tags :
          /\ SpecsOpen /\ Space(1)
          /\ Uses("forward") \/ (Known(c, su, n) /\ Visible(Tagged(su, n, 0)))
          /\ LET s == [Quiet EXCEPT !.rt = StructForward(@, su, n)]
             IN  Reduce(TypeSpecifier(s, StructRef(c.rt, su, n)),
                        Specified(parse, Tagged(su, n, 0)), {})
    BY <1>3 DEF SpecStruct
  <2> DEFINE k == WithRegistry(Quiet, StructForward(Quiet.rt, su, n))
             st == StructRef(Quiet.rt, su, n)
             term == Tagged(su, n, 0)
  <2>2. /\ Len(parse) >= 1 /\ parse[Len(parse)].at \in {"decl", "sdecl", "pdecl"}
        /\ parse[Len(parse)].phase = "specs"
    BY <2>1, AtFacts DEF SpecsOpen
  <2>3. Room(Quiet.rt, 1) /\ su \in StructKinds BY <1>2, <2>1 DEF Space, StructKinds
  <2>4. (Declared => StructKnown(Quiet.rt, su, n) /\ Visible(term))
        /\ MayName(Quiet, su, n)
    BY <1>2, <2>1, <2>3 DEF Declared, Uses, Known, MayName
  <2>5. /\ Derives(Quiet, k) /\ SameStacks(Quiet, k) /\ k.rt.halt = Quiet.rt.halt
        /\ k.constant_id = Quiet.constant_id
        /\ st \in 1..k.rt.next - 1 /\ st # 0
        /\ k.rt.heap[st].kind = su /\ k.rt.heap[st].name = n /\ k.text[st].consts = {}
    BY <2>0, <2>4
  <2>6. c' = TypeSpecifier(k, st) /\ parse' = Specified(parse, term) /\ meant' = {}
    BY <1>2, <2>1 DEF Reduce, WithRegistry
  <2>7. term.op = su BY DEF Tagged, Term
  <2> HIDE DEF k, st, term
  <2>8. Ready(k, parse) BY <1>2, <2>5, TagNamed
  <2>9. TypesOK(k) /\ Grows(Quiet, k) /\ Stays(Quiet, k) BY <2>5 DEF Derives
  <2>10. TextOK(k, st) BY <2>5, <2>9 DEF TypesOK
  <2>11. n # NoName BY NamesAssumption
  <2>12. Declared => k.text[st].term = term /\ k.text[st].tags = {term}
    BY <2>3, <2>5, <2>10, <2>11 DEF TextOK, StructKinds, term
  <2>13. Good(k, st)
    <3>1. ASSUME k.emit # 0, Declared PROVE term \in k.begun
      <4>1. Visible(term) /\ k.emit = Quiet.emit /\ k.begun = Quiet.begun
        BY <2>4, <2>9, <3>1 DEF Stays, Grows
      <4>2. ~ InBody BY <1>2, <3>1, <4>1, BodiesQuiet DEF InBody
      <4>3. QED BY <1>2, <4>1, <4>2 DEF Visible
    <3>2. QED BY <2>5, <2>12, <3>1 DEF Good, Writable
  <2>14. Prim(k, st)
    <3>1. k.rt.next \in Nat /\ st \in 0..k.rt.next - 1
      <4>1. RegOK(k.rt) BY <2>9 DEF TypesOK, StoreOK
      <4>2. k.rt.next \in Nat BY <4>1, Ranges
      <4>3. QED BY <2>5, <4>2
    <3>2. k.rt.heap[st].kind \notin {"function", "array", "bitfield", "typedef"}
      BY <2>3, <2>5 DEF StructKinds
    <3>3. QED BY <2>5, <2>13, <3>1, <3>2 DEF Prim, Typ
  <2>15. Exact => k.text[st].term = term BY <2>7, <2>12 DEF Exact
  <2>16. QED BY <2>2, <2>6, <2>8, <2>14, <2>15, SpecifierSound
<1>4. CASE SpecEnum
  <2>1. PICK n \in Tags :
          /\ SpecsOpen /\ Space(1) /\ Uses("enumref")
          /\ Uses("forward") \/ EnumKnown(c.rt, n)
          /\ LET s == [Quiet EXCEPT !.rt = EnumForward(@, n)]
             IN  Reduce(TypeSpecifier(s, EnumRef(c.rt, n)),
                        Specified(parse, Tagged("enum", n, 0)), {})
    BY <1>4 DEF SpecEnum
  <2> DEFINE k == [Quiet EXCEPT !.rt = EnumForward(@, n)]
             et == EnumRef(Quiet.rt, n)
             term == Tagged("enum", n, 0)
  <2>2. /\ Len(parse) >= 1 /\ parse[Len(parse)].at \in {"decl", "sdecl", "pdecl"}
        /\ parse[Len(parse)].phase = "specs"
    BY <2>1, AtFacts DEF SpecsOpen
  <2>3. Room(Quiet.rt, 1) /\ (~ Declared \/ EnumKnown(Quiet.rt, n))
    BY <1>2, <2>1 DEF Space, Declared, Uses
  <2>4. /\ Derives(Quiet, k) /\ SameStacks(Quiet, k) /\ k.rt.halt = Quiet.rt.halt
        /\ k.constant_id = Quiet.constant_id /\ et \in 0..k.rt.next - 1
        /\ et # 0 => k.rt.heap[et].kind = "enum" /\ k.text[et].consts = {} /\ ~ Declared
    BY <1>2, <2>3, SpecEnumStep
  <2>5. c' = TypeSpecifier(k, et) /\ parse' = Specified(parse, term) /\ meant' = {}
    BY <1>2, <2>1 DEF Reduce
  <2> HIDE DEF k, et, term
  <2>6. Ready(k, parse) BY <1>2, <2>4, TagNamed
  <2>7. ~ Resolved /\ ~ Exact BY <2>1 DEF Uses, Resolved, Exact
  <2>8. et # 0 => Good(k, et) BY <2>4 DEF Good, Writable
  <2>9. Prim(k, et) BY <2>4, <2>7, <2>8 DEF Prim, Typ
  <2>10. QED BY <2>2, <2>5, <2>6, <2>7, <2>9, SpecifierSound
<1>5. QED BY <1>3, <1>4

-----------------------------------------------------------------------------
(* Declarators: steps of the innermost position, a declarator.             *)

(* The frame f of a declarator takes the place of u.                       *)
Redone(u, f) ==
  /\ DOMAIN f = FrameFields /\ f.at = "dtor"
  /\ f.n = u.n /\ f.params = u.params

LEMMA DtorFacts ==
  ASSUME NEW s, NEW p, Tied(s, p), Len(p) >= 1, p[Len(p)].at = "dtor"
  PROVE  /\ Len(p) >= 2 /\ Len(p) \in Nat /\ Len(p) - 1 \in 1..Len(p) /\ Len(p) \in 1..Len(p)
         /\ p[Len(p) - 1].at \in {"decl", "sdecl", "pdecl", "fdef"}
         /\ DOMAIN p[Len(p)] = FrameFields /\ DOMAIN p[Len(p) - 1] = FrameFields
         /\ DtorSays(s, p[Len(p)], p[Len(p) - 1], CurDtor(s))
         /\ Len(s.dtors) >= 1 /\ Len(s.dtors) \in Nat /\ Len(s.decls) \in Nat
         /\ CurDtor(s) = s.dtors[Len(s.dtors)] /\ DOMAIN CurDtor(s) = DtorFields
         /\ DtorTyped(s, CurDtor(s))
         /\ p[Len(p)].n \in Nat /\ ParamsTyped(s, p[Len(p)])
         /\ CurDtor(s).declaration = Len(s.decls) /\ Len(s.decls) >= 1
         /\ s.dtors # <<>>
<1> DEFINE n == Len(p)
<1>1. /\ n \in Nat /\ StackInv(s, p) /\ Held(s) /\ Shaped(s) /\ FrameOK(s, p[n])
      /\ DOMAIN p[n] = FrameFields /\ FrameSays(s, p[n], p[n - 1])
      /\ Len(s.dtors) \in Nat /\ Len(s.decls) \in Nat
      /\ MayLie(p[n].at, IF n = 1 THEN "none" ELSE p[n - 1].at)
  BY TiedFacts
<1>2. n # 1 /\ p[n - 1].at \in {"decl", "sdecl", "pdecl", "fdef"} BY <1>1 DEF MayLie
<1>3. n >= 2 /\ n - 1 \in 1..n /\ n \in 1..n
  <2>1. n \in Nat /\ n >= 1 /\ n # 1 BY <1>1, <1>2
  <2> HIDE DEF n
  <2>2. QED BY <2>1
<1>4. DOMAIN p[n - 1] = FrameFields BY <1>1, <1>3 DEF StackInv, Nests
<1>5. NDtor(p, n) \in 1..Len(s.dtors) /\ Len(s.dtors) = NDtor(p, n)
      /\ s.dtors[NDtor(p, n)].declaration = NDecl(p, n) /\ Len(s.decls) = NDecl(p, n)
  BY <1>1, <1>3 DEF StackInv, Mirrors
<1>6. Len(s.dtors) >= 1 BY <1>1, <1>5
<1>7. CurDtor(s) = s.dtors[Len(s.dtors)] BY DEF CurDtor, Last
<1>8. DOMAIN CurDtor(s) = DtorFields /\ DtorTyped(s, CurDtor(s))
  BY <1>1, <1>6, <1>7 DEF Shaped, Held, StacksTyped
<1>9. CurDtor(s).declaration = Len(s.decls) BY <1>5, <1>7
<1>10. Len(s.decls) >= 1
  <2>1. DeclaresAt(p, n - 1) BY <1>2 DEF DeclaresAt
  <2>2. NDecl(p, n - 1) \in 1..Len(s.decls) BY <1>1, <1>3, <2>1, Positions
  <2>3. QED BY <1>1, <2>2
<1>11. DtorSays(s, p[n], p[n - 1], CurDtor(s)) BY <1>1 DEF FrameSays
<1>12. p[n].n \in Nat /\ ParamsTyped(s, p[n]) BY <1>1 DEF FrameOK
<1>13. s.dtors # <<>>
  <2>1. Len(<<>>) = 0 OBVIOUS
  <2>2. QED BY <1>6, <2>1
<1>14. QED BY <1>1, <1>2, <1>3, <1>4, <1>6, <1>7, <1>8, <1>9, <1>10, <1>11, <1>12, <1>13

LEMMA DtorChanged ==
  ASSUME NEW s, NEW p, Tied(s, p), Len(p) >= 1, p[Len(p)].at = "dtor",
         NEW k, Mild(s, k), k.decls = s.decls, BelowSame(s.dtors, k.dtors),
         NEW f, Redone(p[Len(p)], f), StackInv(k, SetTop(p, f)),
         Exact => ~ CurDtor(k).parenthised,
         DtorSays(k, f, p[Len(p) - 1], CurDtor(k))
  PROVE  Tied(k, SetTop(p, f))
<1> DEFINE u == p[Len(p)]
<1>1. /\ StackInv(s, p) /\ Len(p) \in Nat /\ Plainly(s) /\ TypesOK(s) /\ u.n \in Nat
      /\ ParamsTyped(s, u) /\ Len(s.dtors) \in Nat /\ Len(s.dtors) >= 1
  BY TiedFacts, DtorFacts
<1>2. f.at = "dtor" /\ f.n = u.n /\ f.params = u.params /\ DOMAIN f = FrameFields
  BY DEF Redone
<1>3. Len(k.dtors) = Len(s.dtors) /\ \A i \in 1..Len(s.dtors) - 1 : k.dtors[i] = s.dtors[i]
  BY DEF BelowSame
<1>4. Plainly(k)
  <2>1. CurDtor(k) = k.dtors[Len(s.dtors)] BY <1>3 DEF CurDtor, Last
  <2>2. \A i \in 1..Len(s.dtors) : i = Len(s.dtors) \/ i \in 1..Len(s.dtors) - 1 BY <1>1
  <2>3. Exact => \A i \in 1..Len(s.dtors) - 1 : ~ s.dtors[i].parenthised
    BY <1>1 DEF Plainly
  <2>4. Exact => \A i \in 1..Len(s.dtors) : ~ k.dtors[i].parenthised
    BY <1>3, <2>1, <2>2, <2>3
  <2>5. QED BY <1>3, <2>4 DEF Plainly
<1>5. TopMoved(s, p, k) BY DEF TopMoved
<1>6. FrameOK(k, f)
  <2>1. TypesOK(k) /\ Grows(s, k) BY DEF Mild, Onward, Held
  <2>2. ParamsTyped(k, u) BY <1>1, <2>1, ParamsGrow
  <2>3. ParamsTyped(k, f) BY <1>2, <2>2 DEF ParamsTyped
  <2>4. QED BY <1>1, <1>2, <2>3 DEF FrameOK
<1>7. SameFrame(u, f) BY <1>2 DEF SameFrame
<1>8. FrameSays(k, f, p[Len(p) - 1]) BY <1>2 DEF FrameSays
<1>9. QED BY <1>4, <1>5, <1>6, <1>7, <1>8, TopTied

(* The type of the current declarator becomes t, whose text is what the    *)
(* frame says.                                                             *)
Retyped(s, k, u, v, f, t) ==
  /\ u.at = "dtor" /\ u.phase # "done"
  /\ Moves(s, k) /\ DtorMoved(s, k, t)
  /\ Redone(u, f)
  /\ f.name = u.name
  /\ Named(f) => Named(u) \/ v.at = "pdecl"
  /\ Exact => /\ f.inner = 0 /\ f.phase \notin {"paren", "closing"}
              /\ f.type = k.text[t].term

LEMMA DtorMovedTied ==
  ASSUME NEW s, NEW p, Tied(s, p), Len(p) >= 1,
         NEW k, NEW f, NEW t, Retyped(s, k, p[Len(p)], p[Len(p) - 1], f, t),
         StackInv(k, SetTop(p, f))
  PROVE  Tied(k, SetTop(p, f)) /\ CurDtor(k).type = t
<1> DEFINE u == p[Len(p)]
           v == p[Len(p) - 1]
           x == CurDtor(s)
           y == CurDtor(k)
<1>0. /\ u.at = "dtor" /\ u.phase # "done"
      /\ Moves(s, k) /\ DtorMoved(s, k, t)
      /\ Redone(u, f)
      /\ f.name = u.name
      /\ Named(f) => Named(u) \/ v.at = "pdecl"
      /\ Exact => /\ f.inner = 0 /\ f.phase \notin {"paren", "closing"}
                  /\ f.type = k.text[t].term
  BY DEF Retyped
<1>1. DtorSays(s, u, v, x) /\ x = s.dtors[Len(s.dtors)] /\ Len(s.dtors) >= 1
      /\ Len(s.dtors) \in Nat /\ Plainly(s)
  BY <1>0, DtorFacts, TiedFacts
<1>2. /\ k.decls = s.decls /\ BelowSame(s.dtors, k.dtors) /\ y = k.dtors[Len(s.dtors)]
      /\ y.type = t /\ y.identifier = x.identifier
      /\ y.parenthised = x.parenthised /\ y.bits = x.bits
  BY <1>0, <1>1 DEF DtorMoved
<1>3. Mild(s, k) /\ SameTypeNames(s.rt, k.rt) BY <1>0 DEF Moves, Mild, Onward
<1>4. Exact => ~ y.parenthised BY <1>1, <1>2 DEF Plainly
<1>5. TypeNamesOf(k.rt) = TypeNamesOf(s.rt) BY <1>3 DEF TypeNamesOf, SameTypeNames
<1>6. DtorSays(k, f, v, y)
  <2> HIDE DEF u, v, x, y
  <2>1. v.at # "pdecl" => y.identifier = f.name /\ v.phase = "dtors"
    BY <1>0, <1>1, <1>2 DEF DtorSays
  <2>2. v.at = "decl" /\ v.storage = "typedef" /\ Named(f) =>
          f.name \notin NamesIn(v.declares) /\ f.name \notin TypeNamesOf(k.rt)
    BY <1>0, <1>1, <1>5 DEF DtorSays
  <2>3. v.at = "sdecl" => y.bits = Literal(0) BY <1>0, <1>1, <1>2 DEF DtorSays
  <2>4. v.at = "sdecl" /\ Resolved /\ Named(f) => f.name # NoName
    BY <1>0, <1>1 DEF DtorSays
  <2>5. v.at = "sdecl" => MemberText(k, y.type, y.bits) = k.text[y.type].term
    BY <2>3 DEF MemberText
  <2>6. QED BY <1>0, <1>2, <2>1, <2>2, <2>3, <2>4, <2>5 DEF DtorSays
<1>7. Tied(k, SetTop(p, f)) BY <1>0, <1>2, <1>3, <1>4, <1>6, DtorChanged
<1>8. QED BY <1>2, <1>7

LEMMA StarRead ==
  ASSUME NEW s, NEW p, Ready(s, p), Len(p) >= 1, p[Len(p)].at = "dtor",
         p[Len(p)].phase \in {"stars", "paren"}, Room(s.rt, 1),
         NEW f, f = IF p[Len(p)].phase = "paren" THEN [p[Len(p)] EXCEPT !.inner = @ + 1]
                    ELSE [p[Len(p)] EXCEPT !.type = PointerTo(@)],
         StackInv(PointerDecl(s), SetTop(p, f))
  PROVE  Sound(PointerDecl(s), SetTop(p, f), {})
<1> DEFINE u == p[Len(p)]
           v == p[Len(p) - 1]
           k == PointerDecl(s)
           t == CurDtor(s).type
<1>1. /\ Tied(s, p) /\ TopPrim(s, p) /\ s.constant_id <= MaxConstants /\ s.rt.halt = "no"
      /\ s.said = {} /\ Held(s) /\ IsSeq(p)
  BY ReadyFacts
<1>2. /\ DOMAIN u = FrameFields /\ DtorSays(s, u, v, CurDtor(s)) /\ Len(s.dtors) >= 1
  BY <1>1, DtorFacts
<1>3. Prim(s, t) BY <1>1 DEF TopPrim
<1>4. /\ DOMAIN f = FrameFields /\ f.at = "dtor" /\ f.n = u.n /\ f.params = u.params
      /\ f.name = u.name /\ f.phase = u.phase
      /\ u.phase # "paren" => f.inner = u.inner /\ f.type = PointerTo(u.type)
  BY <1>2 DEF FrameFields
<1>5. /\ Moves(s, k) /\ k.constant_id = s.constant_id
      /\ Resolved => k.rt.halt = "no"
      /\ \E q : /\ DtorMoved(s, k, q) /\ (Prim(s, t) => Prim(k, q)) /\ Typ(k, q)
                /\ k.rt.halt = "no" /\ Exact => k.text[q].term = PointerTo(s.text[t].term)
  <2> HIDE DEF u, v
  <2>1. QED BY <1>1, <1>2, <1>3, PointerDeclStep
<1> HIDE DEF k, t
<1>6. PICK q : /\ DtorMoved(s, k, q) /\ Prim(k, q)
               /\ k.rt.halt = "no" /\ Exact => k.text[q].term = PointerTo(s.text[t].term)
  BY <1>3, <1>5
<1>7. ASSUME Exact
      PROVE  /\ f.inner = 0 /\ f.phase \notin {"paren", "closing"}
             /\ f.type = k.text[q].term
  <2>1. /\ u.inner = 0 /\ u.phase \notin {"paren", "closing"}
        /\ u.type = IF v.at = "sdecl" THEN MemberText(s, t, CurDtor(s).bits) ELSE s.text[t].term
        /\ v.at = "sdecl" /\ u.phase # "done" => CurDtor(s).bits = Literal(0)
    BY <1>2, <1>7 DEF DtorSays, t
  <2>2. u.type = s.text[t].term BY <2>1 DEF MemberText
  <2>3. k.rt.halt = "no" BY <1>5, <1>7 DEF Exact
  <2>4. f.type = PointerTo(s.text[t].term) /\ f.inner = 0 BY <1>4, <2>1, <2>2
  <2>5. QED BY <1>4, <1>6, <1>7, <2>1, <2>3, <2>4
<1>8. Tied(k, SetTop(p, f)) /\ CurDtor(k).type = q
  <2>1. Redone(u, f) BY <1>4 DEF Redone
  <2>2. Named(f) => Named(u) BY <1>4 DEF Named
  <2>3. StackInv(k, SetTop(p, f)) BY DEF k
  <2>4. u.phase # "done" OBVIOUS
  <2>5. Retyped(s, k, u, v, f, q)
    BY <1>4, <1>5, <1>6, <1>7, <2>1, <2>2, <2>4 DEF Retyped
  <2>6. QED BY <1>1, <2>3, <2>5, DtorMovedTied
<1>9. TopPrim(k, SetTop(p, f)) BY <1>6, <1>8 DEF TopPrim
<1>10. k.said = {} BY <1>1, <1>5 DEF Moves
<1>11. Sound(k, SetTop(p, f), {}) BY <1>1, <1>5, <1>8, <1>9, <1>10, SoundQuiet
<1>12. QED BY <1>11 DEF k

(* Array dimensions, of the type C says the declarator has.                *)
LEMMA DimensionsRead ==
  ASSUME NEW s, NEW p, Tied(s, p), TopPrim(s, p), s.rt.halt = "no",
         Len(p) >= 1, p[Len(p)].at = "dtor",
         \/ p[Len(p)].phase = "suffix"
         \/ p[Len(p)].phase = "stars" /\ p[Len(p) - 1].at = "pdecl",
         NEW n \in 1..2, NEW lens \in [1..n -> Lengths], Room(s.rt, 2 * n), NEW term,
         Exact => term = Dimensions(lens, p[Len(p)].type),
         NEW f, f = [p[Len(p)] EXCEPT !.phase = "done", !.type = term],
         StackInv(ArrayDecl(s, lens), SetTop(p, f))
  PROVE  LET k == ArrayDecl(s, lens)
         IN  /\ Tied(k, SetTop(p, f)) /\ TopPrim(k, SetTop(p, f))
             /\ k.constant_id <= s.constant_id + n
             /\ Resolved => k.rt.halt = "no"
             /\ k.said = s.said
<1> DEFINE u == p[Len(p)]
           v == p[Len(p) - 1]
           k == ArrayDecl(s, lens)
           t == CurDtor(s).type
<1>1. Held(s) /\ IsSeq(p) BY TiedFacts
<1>2. /\ DOMAIN u = FrameFields /\ DtorSays(s, u, v, CurDtor(s)) /\ Len(s.dtors) >= 1
  BY DtorFacts
<1>3. Prim(s, t) BY DEF TopPrim
<1>4. /\ DOMAIN f = FrameFields /\ f.at = "dtor" /\ f.n = u.n /\ f.params = u.params
      /\ f.name = u.name /\ f.phase = "done" /\ f.inner = u.inner /\ f.type = term
  BY <1>2 DEF FrameFields
<1>5. Dimensioned(s, k, n, Dimensions(lens, s.text[t].term))
  <2> HIDE DEF u, v
  <2>1. QED BY <1>1, <1>2, <1>3, ArrayDeclStep
<1> HIDE DEF k, t
<1>6. /\ Moves(s, k) /\ k.constant_id <= s.constant_id + n
      /\ Resolved => k.rt.halt = "no"
      /\ \E q : /\ DtorMoved(s, k, q) /\ Typ(k, q)
                /\ k.rt.halt = "no" /\ Exact =>
                     k.text[q].term = Dimensions(lens, s.text[t].term)
  BY <1>5 DEF Dimensioned
<1>7. PICK q : /\ DtorMoved(s, k, q)
               /\ k.rt.halt = "no" /\ Exact =>
                    k.text[q].term = Dimensions(lens, s.text[t].term)
  BY <1>6
<1>8. ASSUME Exact
      PROVE  /\ f.inner = 0 /\ f.phase \notin {"paren", "closing"}
             /\ f.type = k.text[q].term
  <2>1. /\ u.inner = 0
        /\ u.type = IF v.at = "sdecl" THEN MemberText(s, t, CurDtor(s).bits) ELSE s.text[t].term
        /\ v.at = "sdecl" /\ u.phase # "done" => CurDtor(s).bits = Literal(0)
    BY <1>2, <1>8 DEF DtorSays, t
  <2>2. u.type = s.text[t].term BY <2>1 DEF MemberText
  <2>3. k.rt.halt = "no" BY <1>6, <1>8 DEF Exact
  <2>4. f.type = Dimensions(lens, s.text[t].term) BY <1>4, <1>8, <2>2
  <2>5. QED BY <1>4, <1>7, <1>8, <2>1, <2>3, <2>4
<1>9. Tied(k, SetTop(p, f))
  <2>1. Redone(u, f) BY <1>4 DEF Redone
  <2>2. Named(f) => Named(u) \/ v.at = "pdecl" BY <1>4 DEF Named
  <2>3. StackInv(k, SetTop(p, f)) BY DEF k
  <2>4. u.phase # "done" OBVIOUS
  <2>5. Retyped(s, k, u, v, f, q)
    BY <1>4, <1>6, <1>7, <1>8, <2>1, <2>2, <2>4 DEF Retyped
  <2>6. QED BY <2>3, <2>5, DtorMovedTied
<1>10. TopPrim(k, SetTop(p, f))
  <2>1. Len(SetTop(p, f)) = Len(p) /\ SetTop(p, f)[Len(p)] = f BY <1>1, TopMade
  <2>2. QED BY <1>4, <2>1 DEF TopPrim
<1>11. k.said = s.said BY <1>6 DEF Moves
<1>12. QED BY <1>6, <1>9, <1>10, <1>11 DEF k

(* The stacks after a step of the grammar mirror it.                       *)
LEMMA StepStacks ==
  ASSUME NEW m, Sound(c, parse, m), Next
  PROVE  StackInv(c', parse')
<1>1. StackInv(c, parse) BY AtFacts
<1>2. QED BY <1>1, StackStep

(* A pointer.                                                              *)
LEMMA StarSound ==
  ASSUME Sound(c, parse, meant), Star
  PROVE  Sound(c', parse', meant')
<1> DEFINE f == IF Top.phase = "paren" THEN [Top EXCEPT !.inner = @ + 1]
                ELSE [Top EXCEPT !.type = PointerTo(@)]
<1>1. Running BY DEF Star, Reduce
<1>2. Ready(Quiet, parse) /\ Quiet.rt = c.rt BY <1>1, QuietReady
<1>3. Len(parse) >= 1 /\ Top = parse[Len(parse)] /\ Top.at = "dtor"
  BY AtFacts DEF Star
<1>4. /\ c' = PointerDecl(Quiet) /\ meant' = {} /\ Top.phase \in {"stars", "paren"}
      /\ Room(c.rt, 1) /\ parse' = SetTop(parse, f)
  BY DEF Star, Reduce, Space
<1>5. StackInv(c', parse') BY StepStacks DEF Next
<1>6. f = IF parse[Len(parse)].phase = "paren" THEN [parse[Len(parse)] EXCEPT !.inner = @ + 1]
          ELSE [parse[Len(parse)] EXCEPT !.type = PointerTo(@)]
  BY <1>3
<1> HIDE DEF f
<1>7. QED BY <1>2, <1>3, <1>4, <1>5, <1>6, StarRead

(* The dimensions of an array.                                             *)
LEMMA ArraySound ==
  ASSUME Sound(c, parse, meant), ArraySuffix
  PROVE  Sound(c', parse', meant')
<1>0. PICK n \in 1..2 : \E lens \in [1..n -> Lengths] :
        /\ SuffixOpen /\ ~ UnderAt({"fdef"}) /\ Space(2 * n) /\ Constants(n)
        /\ Reduce(ArrayDecl(Quiet, lens),
                  SetTop(parse, [Top EXCEPT !.phase = "done",
                           !.type = FoldRight(LAMBDA len, t : ArrayOf(t, len), lens, @)]), {})
  BY DEF ArraySuffix
<1>1. PICK lens \in [1..n -> Lengths] :
        /\ SuffixOpen /\ Space(2 * n) /\ Constants(n)
        /\ Reduce(ArrayDecl(Quiet, lens),
                  SetTop(parse, [Top EXCEPT !.phase = "done",
                           !.type = FoldRight(LAMBDA len, t : ArrayOf(t, len), lens, @)]), {})
  BY <1>0
<1> DEFINE term == Dimensions(lens, Top.type)
           f == [Top EXCEPT !.phase = "done", !.type = term]
<1>2. Running BY <1>1 DEF Reduce
<1>3. Ready(Quiet, parse) /\ Quiet.rt = c.rt /\ Quiet.constant_id = c.constant_id
  BY <1>2, QuietReady
<1>4. Len(parse) >= 1 /\ Top = parse[Len(parse)] /\ Top.at = "dtor"
  BY <1>1, AtFacts DEF SuffixOpen
<1>5. Top.phase = "suffix" \/ (Top.phase = "stars" /\ Under.at = "pdecl")
  BY <1>1 DEF SuffixOpen, UnderAt
<1>6. Under = parse[Len(parse) - 1] BY DEF Under
<1>7. parse' = SetTop(parse, f)
  BY <1>1 DEF Reduce, Dimensions
<1>8. c' = ArrayDecl(Quiet, lens) /\ meant' = {} /\ Room(c.rt, 2 * n)
      /\ c.constant_id + n <= MaxConstants
  BY <1>1 DEF Reduce, Space, Constants
<1>9. StackInv(c', parse') BY StepStacks DEF Next
<1> HIDE DEF term
<1>10. /\ Tied(Quiet, parse) /\ TopPrim(Quiet, parse) /\ Quiet.rt.halt = "no"
       /\ Quiet.said = {} /\ Quiet.constant_id + n <= MaxConstants
       /\ Room(Quiet.rt, 2 * n)
  BY <1>3, <1>8, ReadyFacts
<1>11. term = Dimensions(lens, parse[Len(parse)].type) BY <1>4 DEF term
<1>12. f = [parse[Len(parse)] EXCEPT !.phase = "done", !.type = term] BY <1>4
<1>13. \/ parse[Len(parse)].phase = "suffix"
       \/ parse[Len(parse)].phase = "stars" /\ parse[Len(parse) - 1].at = "pdecl"
  BY <1>4, <1>5, <1>6
<1> DEFINE k == ArrayDecl(Quiet, lens)
<1>14. StackInv(k, SetTop(parse, f)) BY <1>7, <1>8, <1>9
<1> HIDE DEF f
<1>15. /\ Tied(k, SetTop(parse, f)) /\ TopPrim(k, SetTop(parse, f))
       /\ k.constant_id <= Quiet.constant_id + n
       /\ Resolved => k.rt.halt = "no"
       /\ k.said = Quiet.said
  BY <1>4, <1>10, <1>11, <1>12, <1>13, <1>14, DimensionsRead
<1>16. k.constant_id <= MaxConstants
  <2>1. k.constant_id \in Nat /\ Quiet.constant_id \in Nat /\ MaxConstants \in Nat
    <3>1. TypesOK(k) /\ TypesOK(Quiet) BY <1>10, <1>15, TiedFacts
    <3>2. QED BY <3>1, BoundsAssumption, CompilerAssumption DEF TypesOK, ConstsOK
  <2>2. QED BY <1>10, <1>15, <2>1
<1>17. Sound(k, SetTop(parse, f), {}) BY <1>10, <1>15, <1>16, SoundQuiet
<1>18. QED BY <1>7, <1>8, <1>17

(* A type specifier inside a declarator, the operand of sizeof, overwrites *)
(* the types of the current declaration and declarator.                    *)
LEMMA SpecifierInside ==
  ASSUME NEW s, NEW p, Tied(s, p), ~ Exact, Len(p) >= 1, p[Len(p)].at = "dtor",
         NEW t, Prim(s, t)
  PROVE  LET k == TypeSpecifier(s, t)
         IN  /\ Tied(k, p) /\ TopPrim(k, p) /\ k.rt = s.rt /\ k.said = s.said
             /\ k.constant_id = s.constant_id
<1> DEFINE k == TypeSpecifier(s, t)
<1>1. /\ StackInv(s, p) /\ Held(s) /\ Len(p) \in Nat /\ Shaped(s) /\ Places(p)
      /\ TypesOK(s) /\ Linked(s, p) /\ Wired(s, p) /\ Told(s, p)
  BY TiedFacts DEF Tied
<1>2. /\ Len(s.decls) >= 1 /\ Len(s.dtors) >= 1 /\ Len(s.decls) \in Nat
      /\ Len(s.dtors) \in Nat /\ s.dtors # <<>>
  BY DtorFacts
<1>3. /\ Held(k) /\ Same(s, k) /\ TypeSet(s.decls, k.decls, t) /\ TypeSet(s.dtors, k.dtors, t)
  BY <1>1, <1>2, TypeSpecifierStep
<1>4. Keeps(s, k) BY <1>1, TypeSpecifierKeeps
<1> HIDE DEF k
<1>5. StackInv(k, p)
  <2>1. Nests(p) /\ SameAts(p, p, Len(p)) BY <1>1 DEF StackInv, SameAts
  <2>2. QED BY <1>1, <1>4, <2>1, MirrorsStay
<1>6. Mild(s, k) /\ k.rt = s.rt /\ k.text = s.text /\ k.said = s.said
      /\ k.constant_id = s.constant_id /\ TypesOK(k) /\ Grows(s, k)
  BY <1>1, <1>3, SameMild
<1>7. ASSUME NEW i \in 1..Len(s.decls)
      PROVE  /\ k.decls[i].declarators = s.decls[i].declarators
             /\ k.decls[i].storage = s.decls[i].storage
  <2>1. DOMAIN s.decls[Len(s.decls)] = DeclFields BY <1>1, <1>2 DEF Shaped
  <2>2. CASE i = Len(s.decls)
    <3>1. k.decls[i] = [s.decls[i] EXCEPT !.type = t] BY <1>3, <2>2 DEF TypeSet
    <3>2. QED BY <2>1, <2>2, <3>1 DEF DeclFields
  <2>3. CASE i # Len(s.decls)
    <3>1. i \in 1..Len(s.decls) - 1 BY <1>2, <2>3
    <3>2. QED BY <1>3, <3>1 DEF TypeSet, BelowSame
  <2>4. QED BY <2>2, <2>3
<1>8. ASSUME NEW i \in 1..Len(s.dtors)
      PROVE  k.dtors[i].identifier = s.dtors[i].identifier /\ k.dtors[i].bits = s.dtors[i].bits
  <2>1. DOMAIN s.dtors[Len(s.dtors)] = DtorFields BY <1>1, <1>2 DEF Shaped
  <2>2. CASE i = Len(s.dtors)
    <3>1. k.dtors[i] = [s.dtors[i] EXCEPT !.type = t] BY <1>3, <2>2 DEF TypeSet
    <3>2. QED BY <2>1, <2>2, <3>1 DEF DtorFields
  <2>3. CASE i # Len(s.dtors)
    <3>1. i \in 1..Len(s.dtors) - 1 BY <1>2, <2>3
    <3>2. QED BY <1>3, <3>1 DEF TypeSet, BelowSame
  <2>4. QED BY <2>2, <2>3
<1>9. Linked(k, p)
  <2>1. ASSUME NEW i \in 1..Len(p)
        PROVE  /\ p[i].n \in Nat /\ ParamsTyped(k, p[i])
               /\ DeclaresAt(p, i) => Few(p[i], k.decls[NDecl(p, i)])
    <3>1. /\ p[i].n \in Nat /\ ParamsTyped(s, p[i])
          /\ DeclaresAt(p, i) => Few(p[i], s.decls[NDecl(p, i)])
      BY <1>1, <2>1 DEF Linked
    <3>2. DeclaresAt(p, i) => NDecl(p, i) \in 1..Len(s.decls) BY <1>1, <2>1, Positions
    <3>3. ParamsTyped(k, p[i]) BY <1>1, <1>6, <3>1, ParamsGrow
    <3>4. QED BY <1>7, <3>1, <3>2, <3>3 DEF Few
  <2>2. QED BY <2>1 DEF Linked
<1>10. Wired(k, p)
  <2>1. PICK o : Chain(s, p, o) BY <1>1 DEF Wired
  <2>2. Chain(k, p, o)
    <3>1. \A i \in 1..Len(p) : SameOpenAt(p, p, i) BY DEF SameOpenAt
    <3>2. Beside(s, k) BY <1>6 DEF Mild
    <3>3. QED BY <1>1, <1>6, <2>1, <3>1, <3>2, ChainTop
  <2>3. QED BY <1>1, <1>3, <1>5, <1>9, <2>2 DEF Wired
<1>11. Told(k, p)
  <2>1. ASSUME NEW i \in 1..Len(p) PROVE PositionSays(k, p, i)
    <3>1. PositionSays(s, p, i) BY <1>1, <2>1 DEF Told
    <3>2. /\ DeclaresAt(p, i) => NDecl(p, i) \in 1..Len(s.decls)
          /\ p[i].at = "dtor" => NDtor(p, i) \in 1..Len(s.dtors)
      BY <1>1, <2>1, Positions
    <3>3. DeclaresAt(p, i) => DeclSays(k, p[i], k.decls[NDecl(p, i)])
      <4>1. SUFFICES ASSUME DeclaresAt(p, i) PROVE DeclSays(k, p[i], k.decls[NDecl(p, i)])
        OBVIOUS
      <4> DEFINE m == NDecl(p, i)
      <4>2. DeclSays(s, p[i], s.decls[m]) BY <3>1, <4>1 DEF PositionSays
      <4>3. /\ k.decls[m].declarators = s.decls[m].declarators
            /\ k.decls[m].storage = s.decls[m].storage
        BY <1>7, <3>2, <4>1
      <4> HIDE DEF m
      <4>4. DeclSays(k, p[i], k.decls[m]) BY <1>6, <4>2, <4>3 DEF DeclSays
      <4>5. QED BY <4>4 DEF m
    <3>4. p[i].at = "dtor" => DtorSays(k, p[i], p[i - 1], k.dtors[NDtor(p, i)])
      <4>1. SUFFICES ASSUME p[i].at = "dtor"
                     PROVE  DtorSays(k, p[i], p[i - 1], k.dtors[NDtor(p, i)])
        OBVIOUS
      <4> DEFINE m == NDtor(p, i)
      <4>2. DtorSays(s, p[i], p[i - 1], s.dtors[m]) BY <3>1, <4>1 DEF PositionSays
      <4>3. /\ k.dtors[m].identifier = s.dtors[m].identifier
            /\ k.dtors[m].bits = s.dtors[m].bits
        BY <1>8, <3>2, <4>1
      <4> HIDE DEF m
      <4>4. DtorSays(k, p[i], p[i - 1], k.dtors[m]) BY <1>6, <4>2, <4>3 DEF DtorSays
      <4>5. QED BY <4>4 DEF m
    <3>5. p[i].at = "params" => ParamsSay(k, p[i]) BY DEF ParamsSay
    <3>6. QED BY <3>1, <3>3, <3>4, <3>5 DEF PositionSays
  <2>2. Plainly(k) BY DEF Plainly
  <2>3. QED BY <2>1, <2>2 DEF Told
<1>12. TopPrim(k, p)
  <2>1. CurDtor(k).type = t
    <3>1. Len(k.dtors) = Len(s.dtors) BY <1>4 DEF Keeps
    <3>2. DOMAIN s.dtors[Len(s.dtors)] = DtorFields BY <1>1, <1>2 DEF Shaped
    <3>3. k.dtors[Len(s.dtors)] = [s.dtors[Len(s.dtors)] EXCEPT !.type = t]
      BY <1>3 DEF TypeSet
    <3>4. k.dtors[Len(s.dtors)].type = t BY <3>2, <3>3 DEF DtorFields
    <3>5. QED BY <3>1, <3>4 DEF CurDtor, Last
  <2>2. Prim(k, t)
    <3>1. Typ(s, t) BY DEF Prim
    <3>2. QED BY <1>1, <1>6, <3>1, TypGrows
  <2>3. QED BY <2>1, <2>2 DEF TopPrim
<1>13. QED BY <1>6, <1>10, <1>11, <1>12 DEF Tied, k

(* An array whose length is a sizeof.                                      *)
LEMMA SizeofSound ==
  ASSUME Sound(c, parse, meant), SizeofSuffix
  PROVE  Sound(c', parse', meant')
<1>1. PICK name \in Intrinsics \ {Varargs}, e \in Exprs :
        /\ SuffixOpen /\ Space(2) /\ Constants(1) /\ Uses("sizeof")
        /\ Reduce(ArrayDecl(TypeSpecifier(Quiet, TypeByName(c.rt, name)), <<Expr(e)>>),
                  SetTop(parse, [Top EXCEPT !.phase = "done", !.type = ArrayOf(@, Expr(e))]), {})
  BY DEF SizeofSuffix
<1> DEFINE term == ArrayOf(Top.type, Expr(e))
           f == [Top EXCEPT !.phase = "done", !.type = term]
           t == TypeByName(c.rt, name)
           m == TypeSpecifier(Quiet, t)
           lens == [i \in 1..1 |-> Expr(e)]
           k == ArrayDecl(m, lens)
<1>2. Running BY <1>1 DEF Reduce
<1>3. /\ Ready(Quiet, parse) /\ Quiet.rt = c.rt /\ Quiet.constant_id = c.constant_id
      /\ TypesOK(Quiet)
  BY <1>2, QuietReady, ReadyFacts
<1>4. Len(parse) >= 1 /\ Top = parse[Len(parse)] /\ Top.at = "dtor"
  BY <1>1, AtFacts DEF SuffixOpen
<1>5. Top.phase = "suffix" \/ (Top.phase = "stars" /\ Under.at = "pdecl")
  BY <1>1 DEF SuffixOpen, UnderAt
<1>6. Under = parse[Len(parse) - 1] BY DEF Under
<1>7. c' = k /\ meant' = {} /\ parse' = SetTop(parse, f)
  <2>1. lens = <<Expr(e)>> OBVIOUS
  <2>2. QED BY <1>1, <2>1 DEF Reduce
<1>8. Room(c.rt, 2) /\ c.constant_id + 1 <= MaxConstants BY <1>1 DEF Space, Constants
<1>9. StackInv(c', parse') BY StepStacks DEF Next
<1>10. ~ Exact BY <1>1 DEF Exact, Uses
<1>11. lens \in [1..1 -> Lengths] BY DEF Lengths
<1>12. Prim(Quiet, t) BY <1>1, <1>3, NamedType
<1> HIDE DEF t, lens
<1>13. /\ Tied(Quiet, parse) /\ Quiet.rt.halt = "no" /\ Quiet.said = {} BY <1>3, ReadyFacts
<1>14. /\ Tied(m, parse) /\ TopPrim(m, parse) /\ m.rt = Quiet.rt /\ m.said = {}
       /\ m.constant_id = c.constant_id
  BY <1>3, <1>4, <1>10, <1>12, <1>13, SpecifierInside
<1>15. StackInv(k, SetTop(parse, f)) BY <1>7, <1>9
<1>16. f = [parse[Len(parse)] EXCEPT !.phase = "done", !.type = term] BY <1>4
<1>17. \/ parse[Len(parse)].phase = "suffix"
       \/ parse[Len(parse)].phase = "stars" /\ parse[Len(parse) - 1].at = "pdecl"
  BY <1>4, <1>5, <1>6
<1> HIDE DEF term, f, m
<1>18. /\ Tied(k, SetTop(parse, f)) /\ TopPrim(k, SetTop(parse, f))
       /\ k.constant_id <= m.constant_id + 1
       /\ Resolved => k.rt.halt = "no"
       /\ k.said = m.said
  <2>1. m.rt.halt = "no" BY <1>13, <1>14
  <2>2. Exact => term = Dimensions(lens, parse[Len(parse)].type) BY <1>10
  <2>3. parse[Len(parse)].at = "dtor" /\ Len(parse) >= 1 BY <1>4
  <2>4. ASSUME NEW n \in 1..2, n = 1, NEW x \in [1..n -> Lengths], x = lens
        PROVE  /\ Tied(k, SetTop(parse, f)) /\ TopPrim(k, SetTop(parse, f))
               /\ k.constant_id <= m.constant_id + n
               /\ Resolved => k.rt.halt = "no"
               /\ k.said = m.said
    <3>1. Room(m.rt, 2 * n) /\ k = ArrayDecl(m, x) BY <1>3, <1>8, <1>14, <2>4
    <3>2. StackInv(ArrayDecl(m, x), SetTop(parse, f)) BY <1>15, <2>4
    <3>3. Exact => term = Dimensions(x, parse[Len(parse)].type) BY <2>2, <2>4
    <3> HIDE DEF k
    <3>4. /\ Tied(m, parse) /\ TopPrim(m, parse) /\ Room(m.rt, 2 * n)
      BY <1>14, <3>1
    <3>5. LET l == ArrayDecl(m, x)
          IN  /\ Tied(l, SetTop(parse, f)) /\ TopPrim(l, SetTop(parse, f))
              /\ l.constant_id <= m.constant_id + n
              /\ Resolved => l.rt.halt = "no"
              /\ l.said = m.said
      BY <1>16, <1>17, <2>1, <2>3, <3>2, <3>3, <3>4, ZenonT(60), DimensionsRead
    <3>6. QED BY <3>1, <3>5
  <2>5. QED BY <1>11, <2>4
<1> HIDE DEF k
<1>19. k.constant_id <= MaxConstants
  <2>1. k.constant_id \in Nat /\ c.constant_id \in Nat /\ MaxConstants \in Nat
    <3>1. TypesOK(k) /\ TypesOK(m) BY <1>14, <1>18, TiedFacts
    <3>2. QED BY <1>14, <3>1, CompilerAssumption DEF TypesOK, ConstsOK
  <2>2. QED BY <1>8, <1>14, <1>18, <2>1
<1>20. Sound(k, SetTop(parse, f), {}) BY <1>14, <1>18, <1>19, SoundQuiet
<1>21. QED BY <1>7, <1>20

(* The current declarator becomes w, and its frame f.                      *)
Edits(s, u, v, w, f) ==
  /\ DOMAIN w = DtorFields /\ DtorTyped(s, w) /\ w.declaration = CurDtor(s).declaration
  /\ Exact => ~ w.parenthised
  /\ Redone(u, f) /\ DtorSays(s, f, v, w)
  /\ f.phase # "done" => Prim(s, w.type)

LEMMA DtorEdited ==
  ASSUME NEW s, NEW p, Ready(s, p), Len(p) >= 1, p[Len(p)].at = "dtor",
         NEW w, NEW f, Edits(s, p[Len(p)], p[Len(p) - 1], w, f)
  PROVE  Sound(SetDtor(s, w), SetTop(p, f), {})
<1> DEFINE u == p[Len(p)]
           v == p[Len(p) - 1]
           k == SetDtor(s, w)
<1>1. /\ Tied(s, p) /\ StackInv(s, p) /\ Held(s) /\ Len(p) \in Nat /\ Plainly(s)
      /\ s.constant_id <= MaxConstants /\ s.rt.halt = "no" /\ s.said = {} /\ IsSeq(p)
      /\ Shaped(s) /\ DOMAIN s = Fields /\ TypesOK(s)
  BY ReadyFacts
<1>2. /\ Len(s.dtors) >= 1 /\ Len(s.dtors) \in Nat /\ CurDtor(s) = s.dtors[Len(s.dtors)]
  BY <1>1, DtorFacts
<1>3. /\ DOMAIN w = DtorFields /\ DtorTyped(s, w) /\ w.declaration = CurDtor(s).declaration
      /\ Exact => ~ w.parenthised
  BY DEF Edits
<1>4. /\ Redone(u, f) /\ DtorSays(s, f, v, w)
      /\ f.phase # "done" => Prim(s, w.type)
  BY DEF Edits
<1>5. /\ Held(k) /\ Same(s, k) /\ k.decls = s.decls
      /\ BelowSame(s.dtors, k.dtors) /\ k.dtors[Len(s.dtors)] = w
  BY <1>1, <1>2, <1>3, SetDtorStep
<1> HIDE DEF k
<1>6. Mild(s, k) /\ k.rt = s.rt /\ k.text = s.text /\ k.said = s.said
      /\ k.constant_id = s.constant_id /\ TypesOK(k) /\ Grows(s, k)
  BY <1>1, <1>5, SameMild
<1>7. CurDtor(k) = w
  <2>1. Len(k.dtors) = Len(s.dtors) BY <1>5 DEF BelowSame
  <2>2. QED BY <1>5, <2>1 DEF CurDtor, Last
<1>8. StackInv(k, SetTop(p, f))
  <2>1. Keeps(s, k)
    <3>1. Len(k.dtors) = Len(s.dtors) /\ \A i \in 1..Len(s.dtors) - 1 : k.dtors[i] = s.dtors[i]
      BY <1>5 DEF BelowSame
    <3>2. Shaped(k) /\ k.emit = s.emit BY <1>5 DEF Held, Same
    <3>3. \A i \in 1..Len(s.dtors) : k.dtors[i].declaration = s.dtors[i].declaration
      <4>1. \A i \in 1..Len(s.dtors) : i = Len(s.dtors) \/ i \in 1..Len(s.dtors) - 1
        BY <1>2
      <4>2. QED BY <1>2, <1>3, <1>5, <3>1, <4>1
    <3>4. QED BY <1>5, <3>1, <3>2, <3>3 DEF Keeps
  <2>2. DOMAIN f = FrameFields /\ f.at = u.at BY <1>4 DEF Redone
  <2>3. QED BY <1>1, <2>1, <2>2, TopChanged
<1>9. DtorSays(k, f, v, CurDtor(k))
  <2>1. \A t, b : MemberText(k, t, b) = MemberText(s, t, b) BY <1>6 DEF MemberText
  <2>2. TypeNamesOf(k.rt) = TypeNamesOf(s.rt) BY <1>6
  <2>3. DtorSays(k, f, v, w)
    <3> HIDE DEF u, v
    <3>1. QED BY <1>4, <1>6, <2>1, <2>2 DEF DtorSays
  <2>4. QED BY <1>7, <2>3
<1>10. Tied(k, SetTop(p, f))
  <2>1. Exact => ~ CurDtor(k).parenthised BY <1>3, <1>7
  <2>2. QED BY <1>1, <1>4, <1>5, <1>6, <1>8, <1>9, <2>1, DtorChanged
<1>11. TopPrim(k, SetTop(p, f))
  <2>1. Len(SetTop(p, f)) = Len(p) /\ SetTop(p, f)[Len(p)] = f BY <1>1, TopMade
  <2>2. f.phase # "done" => Prim(k, w.type)
    <3>1. Prim(s, w.type) => Typ(s, w.type) BY DEF Prim
    <3>2. QED BY <1>1, <1>4, <1>6, <3>1, TypGrows
  <2>3. QED BY <1>7, <2>1, <2>2 DEF TopPrim
<1>12. Sound(k, SetTop(p, f), {}) BY <1>1, <1>6, <1>10, <1>11, SoundQuiet
<1>13. QED BY <1>12 DEF k

(* A parenthesised declarator begins, and ends.                            *)
LEMMA ParenSound ==
  ASSUME Sound(c, parse, meant), ParenOpen \/ ParenClose
  PROVE  Sound(c', parse', meant')
<1> DEFINE x == CurDtor(Quiet)
<1>1. Running BY DEF ParenOpen, ParenClose, Reduce
<1>2. Ready(Quiet, parse) /\ Quiet.rt = c.rt /\ Quiet.dtors = c.dtors
      /\ Tied(Quiet, parse) /\ TopPrim(Quiet, parse)
      /\ Held(Quiet) /\ DOMAIN Quiet = Fields
  BY <1>1, QuietReady, ReadyFacts
<1>3. Len(parse) >= 1 /\ Top = parse[Len(parse)] /\ Top.at = "dtor"
      /\ DOMAIN Top = FrameFields
  BY AtFacts DEF ParenOpen, ParenClose
<1>4. /\ DtorSays(Quiet, Top, parse[Len(parse) - 1], x)
      /\ DOMAIN x = DtorFields /\ DtorTyped(Quiet, x)
      /\ x = Quiet.dtors[Len(Quiet.dtors)]
  BY <1>2, <1>3, DtorFacts
<1>5. CASE ParenOpen
  <2> DEFINE f == [Top EXCEPT !.phase = "paren"]
  <2>1. /\ c' = Quiet /\ meant' = {} /\ Top.phase = "stars"
        /\ parse' = SetTop(parse, f) /\ ~ Exact
    BY <1>5 DEF ParenOpen, Reduce, Uses, Exact
  <2>2. /\ DOMAIN f = FrameFields /\ f.at = "dtor" /\ f.n = Top.n /\ f.params = Top.params
        /\ f.name = Top.name /\ f.phase = "paren"
    BY <1>3 DEF FrameFields
  <2>3. SetDtor(Quiet, x) = Quiet
    <3>1. IsSeq(Quiet.dtors) BY <1>2 DEF Held, Shaped
    <3>2. [Quiet.dtors EXCEPT ![Len(Quiet.dtors)] = x] = Quiet.dtors
      <4>1. PICK S : Quiet.dtors \in Seq(S) BY <3>1 DEF IsSeq
      <4> HIDE DEF x
      <4>2. QED BY <1>4, <4>1
    <3>3. \A q : [q EXCEPT !.said = {}] = [i \in DOMAIN q |-> IF i = "said" THEN {} ELSE q[i]]
      OBVIOUS
    <3>4. Quiet = [i \in DOMAIN Quiet |-> Quiet[i]] BY <3>3 DEF Quiet
    <3>5. SetDtor(Quiet, x) = [i \in DOMAIN Quiet |->
                                IF i = "dtors" THEN [Quiet.dtors EXCEPT ![Len(Quiet.dtors)] = x]
                                ELSE Quiet[i]]
      BY <1>2 DEF SetDtor, Fields
    <3>6. QED BY <3>2, <3>4, <3>5
  <2> HIDE DEF f, x
  <2>4. Prim(Quiet, x.type) BY <1>2, <1>3, <2>1 DEF TopPrim, x
  <2>5. Redone(Top, f) BY <2>2 DEF Redone
  <2>6. DtorSays(Quiet, f, parse[Len(parse) - 1], x)
    <3>1. ~ Named(f) BY <2>2 DEF Named
    <3>2. QED BY <1>4, <2>1, <2>2, <3>1 DEF DtorSays
  <2>7. Edits(Quiet, Top, parse[Len(parse) - 1], x, f)
    BY <1>4, <2>1, <2>4, <2>5, <2>6 DEF Edits, x
  <2>8. QED BY <1>2, <1>3, <2>1, <2>3, <2>7, DtorEdited
<1>6. CASE ParenClose
  <2> DEFINE f == [Top EXCEPT !.phase = "suffix"]
             w == [x EXCEPT !.parenthised = TRUE]
  <2>1. /\ c' = [Quiet EXCEPT !.dtors[Len(c.dtors)].parenthised = TRUE] /\ meant' = {}
        /\ Top.phase = "closing" \/ (Top.phase = "paren" /\ Under.at = "pdecl")
        /\ parse' = SetTop(parse, f)
    BY <1>6 DEF ParenClose, Reduce, UnderAt
  <2>2. /\ DOMAIN f = FrameFields /\ f.at = "dtor" /\ f.n = Top.n /\ f.params = Top.params
        /\ f.name = Top.name /\ f.phase = "suffix"
    BY <1>3 DEF FrameFields
  <2>3. ~ Exact BY <1>4, <2>1 DEF DtorSays
  <2>4. /\ DOMAIN w = DtorFields /\ w.type = x.type /\ w.identifier = x.identifier
        /\ w.bits = x.bits /\ w.declaration = x.declaration
    BY <1>4 DEF DtorFields
  <2>5. c' = SetDtor(Quiet, w) BY <1>2, <1>4, <2>1 DEF SetDtor
  <2>6. Prim(Quiet, x.type) BY <1>2, <1>3, <2>1 DEF TopPrim
  <2>7. Under = parse[Len(parse) - 1] BY DEF Under
  <2> HIDE DEF f, x, w
  <2>8. Redone(Top, f) BY <2>2 DEF Redone
  <2>9. DtorSays(Quiet, f, parse[Len(parse) - 1], w)
    <3>1. parse[Len(parse) - 1].at # "pdecl" => Named(Top) BY <2>1, <2>7 DEF Named
    <3>2. QED BY <1>4, <2>1, <2>2, <2>3, <2>4, <3>1 DEF DtorSays
  <2>10. DtorTyped(Quiet, w) BY <1>4, <2>4 DEF DtorTyped
  <2>11. Edits(Quiet, Top, parse[Len(parse) - 1], w, f)
    BY <2>3, <2>4, <2>6, <2>8, <2>9, <2>10 DEF Edits, x
  <2>12. QED BY <1>2, <1>3, <2>1, <2>5, <2>11, DtorEdited
<1>7. QED BY <1>5, <1>6

(* The name that is declared.                                              *)
LEMMA IdentifierSound ==
  ASSUME Sound(c, parse, meant), Identifier
  PROVE  Sound(c', parse', meant')
<1>1. PICK name \in Names :
        /\ At({"dtor"}) /\ UnderAt({"decl", "sdecl", "fdef"}) /\ Top.phase \in {"stars", "paren"}
        /\ Reduce([Quiet EXCEPT !.dtors[Len(c.dtors)].identifier = name],
                  SetTop(parse, [Top EXCEPT !.name = name,
                       !.phase = IF @ = "paren" THEN "closing" ELSE "suffix"]), {})
  BY DEF Identifier
<1> DEFINE x == CurDtor(Quiet)
           v == parse[Len(parse) - 1]
           w == [x EXCEPT !.identifier = name]
           f == [Top EXCEPT !.name = name,
                            !.phase = IF @ = "paren" THEN "closing" ELSE "suffix"]
<1>2. Running BY <1>1 DEF Reduce
<1>3. Ready(Quiet, parse) /\ Quiet.rt = c.rt /\ Quiet.dtors = c.dtors
      /\ Tied(Quiet, parse) /\ TopPrim(Quiet, parse)
  BY <1>2, QuietReady, ReadyFacts
<1>4. Len(parse) >= 1 /\ Top = parse[Len(parse)] /\ Top.at = "dtor"
      /\ DOMAIN Top = FrameFields
  BY <1>1, AtFacts
<1>5. Under = v /\ v.at \in {"decl", "sdecl", "fdef"} BY <1>1, AtFacts
<1>6. /\ DtorSays(Quiet, Top, v, x)
      /\ DOMAIN x = DtorFields /\ DtorTyped(Quiet, x)
      /\ x = Quiet.dtors[Len(Quiet.dtors)]
  BY <1>3, <1>4, DtorFacts
<1>7. /\ c' = [Quiet EXCEPT !.dtors[Len(c.dtors)].identifier = name] /\ meant' = {}
      /\ parse' = SetTop(parse, f) /\ Top.phase \in {"stars", "paren"}
  BY <1>1 DEF Reduce
<1>8. c' = SetDtor(Quiet, w) BY <1>3, <1>6, <1>7 DEF SetDtor
<1>9. /\ DOMAIN w = DtorFields /\ w.type = x.type /\ w.identifier = name
      /\ w.bits = x.bits /\ w.declaration = x.declaration /\ w.parenthised = x.parenthised
  BY <1>6 DEF DtorFields
<1>10. /\ DOMAIN f = FrameFields /\ f.at = "dtor" /\ f.n = Top.n /\ f.params = Top.params
       /\ f.name = name /\ f.inner = Top.inner /\ f.type = Top.type
       /\ f.phase = IF Top.phase = "paren" THEN "closing" ELSE "suffix"
  BY <1>4 DEF FrameFields
<1> HIDE DEF f, x, w, v
<1>11. /\ name \notin Intrinsics
       /\ v.at = "sdecl" => name # NoName
       /\ v.at # "sdecl" /\ v.storage = "typedef" =>
            name \notin NamesIn(v.declares) /\ name \notin TypeNamesOf(c.rt)
  <2>1. CASE v.at = "sdecl"
    <3>1. name \in ElemNames BY <1>1, <1>5, <2>1 DEF Names
    <3>2. QED BY <2>1, <3>1, NamesAssumption, CompilerAssumption
  <2>2. CASE v.at # "sdecl" /\ v.storage = "typedef"
    <3>1. /\ name \in TypeNames /\ ~ Found(Cur(c.rt).tab["type"], name)
          /\ \A d \in v.declares : d.name # name
      BY <1>1, <1>5, <2>2 DEF Names
    <3>2. name \notin NamesIn(v.declares) BY <3>1 DEF NamesIn
    <3>3. name \notin TypeNamesOf(c.rt) BY <3>1 DEF TypeNamesOf, Found, Matches
    <3>4. QED BY <2>2, <3>1, <3>2, <3>3, NamesAssumption
  <2>3. CASE v.at # "sdecl" /\ v.storage # "typedef"
    <3>1. name \in GlobalNames BY <1>1, <1>5, <2>3 DEF Names
    <3>2. QED BY <2>3, <3>1, NamesAssumption
  <2>4. QED BY <2>1, <2>2, <2>3
<1>12. DtorTyped(Quiet, w) BY <1>6, <1>9, <1>11 DEF DtorTyped
<1>13. Redone(Top, f) BY <1>10 DEF Redone
<1>14. DtorSays(Quiet, f, v, w)
  <2>1. Exact => Top.phase # "paren" BY <1>6 DEF DtorSays
  <2>2. Top.phase # "done" /\ f.phase # "done" BY <1>7, <1>10
  <2>3. QED BY <1>3, <1>6, <1>9, <1>10, <1>11, <2>1, <2>2 DEF DtorSays
<1>15. Exact => ~ w.parenthised
  <2>1. /\ Len(Quiet.dtors) >= 1 /\ Len(Quiet.dtors) \in Nat /\ Plainly(Quiet)
    BY <1>3, <1>4, DtorFacts, TiedFacts
  <2>2. QED BY <1>6, <1>9, <2>1 DEF Plainly
<1>16. Prim(Quiet, w.type) BY <1>3, <1>4, <1>7, <1>9 DEF TopPrim, x
<1>17. Edits(Quiet, Top, v, w, f)
  BY <1>9, <1>12, <1>13, <1>14, <1>15, <1>16 DEF Edits, x
<1>18. Edits(Quiet, parse[Len(parse)], parse[Len(parse) - 1], w, f) BY <1>4, <1>17 DEF v
<1>19. Sound(SetDtor(Quiet, w), SetTop(parse, f), {}) BY <1>3, <1>4, <1>18, DtorEdited
<1>20. QED BY <1>7, <1>8, <1>19

LEMMA LengthNotNull == ASSUME NEW len \in Lengths PROVE len # Literal(0)
<1>1. CASE \E n \in Literals : len = Literal(n)
  <2>1. PICK n \in Literals : len = Literal(n) BY <1>1
  <2>2. n # 0 BY CompilerAssumption
  <2>3. Literal(n).n = n /\ Literal(0).n = 0 BY DEF Literal
  <2>4. QED BY <2>1, <2>2, <2>3
<1>2. CASE \E e \in Exprs : len = Expr(e)
  <2>1. PICK e \in Exprs : len = Expr(e) BY <1>2
  <2>2. e # NoName BY CompilerAssumption
  <2>3. Expr(e).expr = e /\ Literal(0).expr = NoName BY DEF Expr, Literal
  <2>4. QED BY <2>1, <2>2, <2>3
<1>3. QED BY <1>1, <1>2 DEF Lengths

(* The width of a bit-field.                                               *)
LEMMA BitFieldSound ==
  ASSUME Sound(c, parse, meant), BitField
  PROVE  Sound(c', parse', meant')
<1>1. PICK len \in Lengths :
        /\ At({"dtor"}) /\ UnderAt({"sdecl"})
        /\ Top.phase = "suffix" \/ (Top.phase = "stars" /\ Uses("padding"))
        /\ Reduce([Quiet EXCEPT !.dtors[Len(c.dtors)].bits = len],
                  SetTop(parse, [Top EXCEPT !.phase = "done", !.type = BitsOf(@, len)]), {})
  BY DEF BitField
<1> DEFINE x == CurDtor(Quiet)
           v == parse[Len(parse) - 1]
           w == [x EXCEPT !.bits = len]
           f == [Top EXCEPT !.phase = "done", !.type = BitsOf(@, len)]
<1>2. Running BY <1>1 DEF Reduce
<1>3. Ready(Quiet, parse) /\ Quiet.rt = c.rt /\ Quiet.dtors = c.dtors
      /\ Tied(Quiet, parse)
  BY <1>2, QuietReady, ReadyFacts
<1>4. Len(parse) >= 1 /\ Top = parse[Len(parse)] /\ Top.at = "dtor"
      /\ DOMAIN Top = FrameFields
  BY <1>1, AtFacts
<1>5. Under = v /\ v.at = "sdecl" BY <1>1, AtFacts
<1>6. /\ DtorSays(Quiet, Top, v, x)
      /\ DOMAIN x = DtorFields /\ DtorTyped(Quiet, x)
      /\ x = Quiet.dtors[Len(Quiet.dtors)]
  BY <1>3, <1>4, DtorFacts
<1>7. /\ c' = [Quiet EXCEPT !.dtors[Len(c.dtors)].bits = len] /\ meant' = {}
      /\ parse' = SetTop(parse, f)
      /\ Top.phase = "suffix" \/ (Top.phase = "stars" /\ ~ Resolved)
  BY <1>1 DEF Reduce, Uses, Resolved
<1>8. c' = SetDtor(Quiet, w) BY <1>3, <1>6, <1>7 DEF SetDtor
<1>9. /\ DOMAIN w = DtorFields /\ w.type = x.type /\ w.identifier = x.identifier
      /\ w.bits = len /\ w.declaration = x.declaration /\ w.parenthised = x.parenthised
  BY <1>6 DEF DtorFields
<1>10. /\ DOMAIN f = FrameFields /\ f.at = "dtor" /\ f.n = Top.n /\ f.params = Top.params
       /\ f.name = Top.name /\ f.inner = Top.inner /\ f.type = BitsOf(Top.type, len)
       /\ f.phase = "done"
  BY <1>4 DEF FrameFields
<1> HIDE DEF f, x, w, v
<1>11. DtorTyped(Quiet, w) BY <1>6, <1>9 DEF DtorTyped
<1>12. Redone(Top, f) BY <1>10 DEF Redone
<1>13. len # Literal(0) BY LengthNotNull
<1>14. DtorSays(Quiet, f, v, w)
  <2>1. Resolved => Named(Top) BY <1>7 DEF Named
  <2>2. Exact => Top.type = Quiet.text[x.type].term
    BY <1>5, <1>6, <1>7 DEF DtorSays, MemberText
  <2>3. Exact => f.type = MemberText(Quiet, w.type, w.bits)
    BY <1>9, <1>10, <1>13, <2>2 DEF MemberText
  <2>4. QED BY <1>5, <1>6, <1>9, <1>10, <2>1, <2>3 DEF DtorSays
<1>15. Exact => ~ w.parenthised
  <2>1. /\ Len(Quiet.dtors) >= 1 /\ Len(Quiet.dtors) \in Nat /\ Plainly(Quiet)
    BY <1>3, <1>4, DtorFacts, TiedFacts
  <2>2. QED BY <1>6, <1>9, <2>1 DEF Plainly
<1>16. Edits(Quiet, Top, v, w, f)
  BY <1>9, <1>10, <1>11, <1>12, <1>14, <1>15 DEF Edits, x
<1>17. QED BY <1>3, <1>4, <1>7, <1>8, <1>16, DtorEdited DEF v

-----------------------------------------------------------------------------
(* Steps that close a position.                                            *)

(* The list that a closed position was an element of counts it.            *)
LEMMA ElementCounted ==
  ASSUME NEW s, NEW p, Tied(s, p), Len(p) >= 1 => p[Len(p)].at \notin {"enum", "dtor"}
  PROVE  Tied(s, Counted(p)) /\ TopPrim(s, Counted(p))
<1>1. IsSeq(p) /\ Len(p) \in Nat /\ (p = <<>> <=> Len(p) = 0) BY TiedFacts
<1>2. Tied(s, Counted(p)) BY CountedTied
<1>3. CASE Len(p) = 0
  <2>1. Counted(p) = p BY <1>1, <1>3 DEF Counted
  <2>2. QED BY <1>2, <1>3, <2>1 DEF TopPrim
<1>4. CASE Len(p) # 0
  <2> DEFINE f == [p[Len(p)] EXCEPT !.n = @ + 1]
  <2>1. Len(p) >= 1 BY <1>1, <1>4
  <2>2. Counted(p) = SetTop(p, f) BY <2>1, CountedTied
  <2>3. DOMAIN p[Len(p)] = FrameFields BY <2>1, TiedFacts
  <2>4. f.at = p[Len(p)].at BY <2>3 DEF FrameFields
  <2> HIDE DEF f
  <2>5. TopPrim(s, SetTop(p, f)) BY <1>1, <2>1, <2>4, NoDeclarator
  <2>6. QED BY <1>2, <2>2, <2>5
<1>5. QED BY <1>3, <1>4

LEMMA PlainlyCut ==
  ASSUME NEW s, Plainly(s), Len(s.dtors) \in Nat, NEW k,
         k.dtors = s.dtors \/ Popped(s.dtors, k.dtors)
  PROVE  Plainly(k)
<1>1. CASE k.dtors = s.dtors BY <1>1 DEF Plainly
<1>2. CASE Popped(s.dtors, k.dtors)
  <2>1. Len(k.dtors) = Len(s.dtors) - 1 /\ \A i \in 1..Len(k.dtors) : k.dtors[i] = s.dtors[i]
    BY <1>2 DEF Popped
  <2>2. \A i \in 1..Len(k.dtors) : i \in 1..Len(s.dtors) BY <2>1
  <2>3. QED BY <2>1, <2>2 DEF Plainly
<1>3. QED BY <1>1, <1>2

LEMMA PoppedEnds ==
  ASSUME NEW s, NEW k, Len(s.decls) \in Nat, Len(s.dtors) \in Nat,
         k.decls = s.decls \/ Popped(s.decls, k.decls),
         k.dtors = s.dtors \/ Popped(s.dtors, k.dtors)
  PROVE  EndsMoved(s, k)
<1>1. \A i \in 1..Len(s.decls) : i <= Len(k.decls) => k.decls[i] = s.decls[i]
  BY DEF Popped
<1>2. \A i \in 1..Len(s.dtors) : i <= Len(k.dtors) => k.dtors[i] = s.dtors[i]
  BY DEF Popped
<1>3. QED BY <1>1, <1>2 DEF EndsMoved

(* The members that one declaration declares have been read.               *)
LEMMA MemberEnds ==
  ASSUME NEW s, NEW p, Ready(s, p), Len(p) >= 1, p[Len(p)].at = "sdecl"
  PROVE  Sound(DeclarationEnd(s), Counted(Front(p)), {})
<1> DEFINE k == DeclarationEnd(s)
           q == Front(p)
<1>1. /\ Tied(s, p) /\ StackInv(s, p) /\ Held(s) /\ Len(p) \in Nat /\ Plainly(s)
      /\ s.constant_id <= MaxConstants /\ s.rt.halt = "no" /\ s.said = {} /\ IsSeq(p)
      /\ Shaped(s)
  BY ReadyFacts
<1>2. Len(s.decls) >= 1 /\ Len(s.decls) \in Nat /\ Len(s.dtors) \in Nat
  BY <1>1, TiedFacts DEF DeclaresAt, One
<1>3. /\ Held(k) /\ Same(s, k) /\ k.dtors = s.dtors /\ Popped(s.decls, k.decls)
  BY <1>1, <1>2, DeclarationEndStep
<1>4. StackInv(k, q) /\ Len(q) = Len(p) - 1 /\ \A i \in 1..Len(q) : q[i] = p[i]
  BY <1>1, DeclarationClosed
<1> HIDE DEF k, q
<1>5. Mild(s, k) /\ k.rt = s.rt /\ k.said = s.said /\ k.constant_id = s.constant_id
  BY <1>1, <1>3, SameMild
<1>6. Tied(k, q)
  <2>1. EndsMoved(s, k) BY <1>2, <1>3, PoppedEnds
  <2>2. Plainly(k) BY <1>1, <1>2, <1>3, PlainlyCut
  <2>3. QED BY <1>1, <1>4, <1>5, <2>1, <2>2, PoppedTied DEF q
<1>7. Len(q) >= 1 => q[Len(q)].at \notin {"enum", "dtor"}
  <2>1. MayLie(p[Len(p)].at, IF Len(p) = 1 THEN "none" ELSE p[Len(p) - 1].at)
    BY <1>1, TiedFacts
  <2>2. Len(p) # 1 /\ p[Len(p) - 1].at = "struct" BY <2>1 DEF MayLie
  <2>3. Len(q) >= 1 => q[Len(q)] = p[Len(p) - 1] BY <1>1, <1>4
  <2>4. QED BY <2>2, <2>3
<1>8. Tied(k, Counted(q)) /\ TopPrim(k, Counted(q)) BY <1>6, <1>7, ElementCounted
<1>9. Sound(k, Counted(q), {}) BY <1>1, <1>5, <1>8, SoundQuiet
<1>10. QED BY <1>9 DEF k, q

LEMMA MemberStopSound ==
  ASSUME Sound(c, parse, meant), MemberStop
  PROVE  Sound(c', parse', meant')
<1>1. Running BY DEF MemberStop, Reduce
<1>2. Ready(Quiet, parse) BY <1>1, QuietReady
<1>3. Len(parse) >= 1 /\ Top = parse[Len(parse)] /\ Top.at = "sdecl"
  BY AtFacts DEF MemberStop
<1>4. c' = DeclarationEnd(Quiet) /\ meant' = {} /\ parse' = Counted(Front(parse))
  BY DEF MemberStop, Reduce, Pop
<1>5. QED BY <1>2, <1>3, <1>4, MemberEnds

(* A struct, a union or an enum, of type t, is closed.                     *)
Ends(s, p, k, t) ==
  /\ Wired(k, Front(p)) /\ Kept(s, p, k, Front(p), Len(p) - 1)
  /\ Onward(s, k) /\ SameStacks(s, k) /\ k.rt.halt = s.rt.halt
  /\ k.constant_id = s.constant_id /\ k.rt.next = s.rt.next
  /\ k.rt.heap = s.rt.heap /\ k.text = s.text /\ k.begun = s.begun
  /\ k.said = s.said /\ SameTypeNames(s.rt, k.rt)
  /\ t \in 1..s.rt.next - 1 /\ s.rt.heap[t].kind \in TagKinds
  /\ s.text[t].term = p[Len(p)].type
  /\ s.emit # 0 => p[Len(p)].type \in s.begun

LEMMA TagEnds ==
  ASSUME NEW s, NEW p, Ready(s, p), Len(p) >= 1, p[Len(p)].at \in {"struct", "enum"},
         NEW k, NEW t, Ends(s, p, k, t)
  PROVE  /\ Ready(k, Front(p)) /\ Prim(k, t)
         /\ k.text[t].term = p[Len(p)].type
         /\ Len(p) > 1 /\ Len(Front(p)) = Len(p) - 1
         /\ Front(p)[Len(Front(p))] = p[Len(p) - 1]
         /\ p[Len(p) - 1].at \in {"decl", "sdecl", "pdecl", "struct"}
         /\ p[Len(p)].at = "enum" => p[Len(p) - 1].at # "struct"
<1> DEFINE u == p[Len(p)]
           q == Front(p)
<1>1. /\ Tied(s, p) /\ StackInv(s, p) /\ Held(s) /\ Len(p) \in Nat /\ Plainly(s)
      /\ s.constant_id <= MaxConstants /\ s.rt.halt = "no" /\ s.said = {} /\ IsSeq(p)
      /\ TypesOK(s)
  BY ReadyFacts
<1>2. /\ Wired(k, q) /\ Kept(s, p, k, q, Len(p) - 1)
      /\ Onward(s, k) /\ SameStacks(s, k) /\ k.rt.halt = s.rt.halt
      /\ k.constant_id = s.constant_id /\ k.rt.next = s.rt.next
      /\ k.rt.heap = s.rt.heap /\ k.text = s.text /\ k.begun = s.begun
      /\ k.said = s.said /\ SameTypeNames(s.rt, k.rt)
  BY DEF Ends
<1>3. /\ t \in 1..s.rt.next - 1 /\ s.rt.heap[t].kind \in TagKinds
      /\ s.text[t].term = u.type
      /\ s.emit # 0 => u.type \in s.begun
  BY DEF Ends
<1>4. MayLie(u.at, IF Len(p) = 1 THEN "none" ELSE p[Len(p) - 1].at)
  BY <1>1, TiedFacts DEF FrameSays
<1>5. /\ Len(p) # 1 /\ p[Len(p) - 1].at \in {"decl", "sdecl", "pdecl", "struct"}
      /\ u.at = "enum" => p[Len(p) - 1].at # "struct"
  BY <1>4 DEF MayLie
<1>6. Len(p) > 1
  <2> DEFINE n == Len(p)
  <2>1. n \in Nat /\ n >= 1 /\ n # 1 BY <1>1, <1>5
  <2> HIDE DEF n
  <2>2. n > 1 BY <2>1
  <2>3. QED BY <2>2 DEF n
<1>7. Len(q) = Len(p) - 1 /\ \A i \in 1..Len(q) : q[i] = p[i]
  BY <1>1, Fronted
<1>8. q[Len(q)] = p[Len(p) - 1] BY <1>1, <1>6, <1>7
<1> HIDE DEF q
<1>9. Tied(k, q)
  <2>1. Calm(s, k) BY <1>2 DEF Calm
  <2>2. Plainly(k) BY <1>1, <1>2 DEF Plainly, SameStacks
  <2>3. QED BY <1>1, <1>2, <2>1, <2>2, ClosedTold DEF q
<1>10. TopPrim(k, q) BY <1>5, <1>8 DEF TopPrim
<1>11. Prim(k, t)
  <2>1. TypesOK(k) /\ Grows(s, k) BY <1>2 DEF Onward, Held
  <2>2. k.emit = s.emit BY <2>1 DEF Grows
  <2>3. TextOK(k, t) BY <1>2, <1>3, <2>1 DEF TypesOK
  <2>4. k.rt.heap[t].kind \in TagKinds BY <1>2, <1>3
  <2>5. k.text[t].consts = {} /\ (Declared => k.text[t].tags = {k.text[t].term})
    BY <2>3, <2>4 DEF TextOK, TagKinds, BaseKinds
  <2>6. Good(k, t) BY <1>2, <1>3, <2>2, <2>5 DEF Good, Writable
  <2>7. t # 0 /\ t \in 0..k.rt.next - 1
    <3>1. k.rt.next \in Nat BY <2>1, Ranges DEF TypesOK, StoreOK
    <3>2. QED BY <1>2, <1>3, <3>1
  <2>8. Typ(k, t) BY <2>4, <2>6, <2>7 DEF Typ, TagKinds
  <2>9. QED BY <2>4, <2>5, <2>8 DEF Prim, TagKinds
<1>12. Ready(k, q) BY <1>1, <1>2, <1>9, <1>10 DEF Ready
<1>13. QED BY <1>2, <1>3, <1>4, <1>5, <1>6, <1>7, <1>8, <1>11, <1>12 DEF q

(* The end of a struct, a union or an enum.                                *)
LEMMA TagCloseSound ==
  ASSUME Sound(c, parse, meant), StructClose \/ EnumClose
  PROVE  Sound(c', parse', meant')
<1> DEFINE p == parse
           s == Quiet
           type == p[Len(p)].type
<1>1. Running BY DEF StructClose, EnumClose, Reduce
<1>2. Ready(s, p) /\ s.rt = c.rt /\ Tied(s, p) /\ Wired(s, p) /\ s.rt.halt = "no"
  BY <1>1, QuietReady, ReadyFacts, TiedFacts
<1>3. CASE StructClose
  <2> DEFINE t == Cur(c.rt).current_struct
             k == EndStruct(s)
  <2>1. Len(p) >= 1 /\ Top = p[Len(p)] /\ Top.at = "struct"
    BY <1>3, AtFacts DEF StructClose
  <2>2. IF UnderAt({"struct"}) \/ k.rt.halt # "no" THEN Reduce(k, Counted(Pop), {})
        ELSE Reduce(TypeSpecifier(k, t), Specified(Pop, Top.type), {})
    BY <1>3 DEF StructClose
  <2>3. Ends(s, p, k, t)
    <3>1. /\ s.current_struct = t
          /\ s.current_struct \in 1..s.rt.next - 1
          /\ s.rt.heap[s.current_struct].kind \in StructKinds
          /\ s.text[s.current_struct].term = p[Len(p)].type
          /\ s.emit # 0 => p[Len(p)].type \in s.begun
      BY <1>2, <2>1, OpenHere
    <3>2. /\ Wired(k, Front(p)) /\ Kept(s, p, k, Front(p), Len(p) - 1)
          /\ Onward(s, k) /\ SameStacks(s, k) /\ k.rt.halt = s.rt.halt
          /\ k.constant_id = s.constant_id /\ k.rt.next = s.rt.next
          /\ k.rt.heap = s.rt.heap /\ k.text = s.text /\ k.begun = s.begun
          /\ k.said = s.said /\ SameTypeNames(s.rt, k.rt)
      BY <1>2, <2>1, StructClosed
    <3> HIDE DEF k, t, s
    <3>3. QED BY <3>1, <3>2 DEF Ends, StructKinds, TagKinds
  <2> HIDE DEF k, t, s, type
  <2>4. /\ Ready(k, Front(p)) /\ Prim(k, t)
        /\ k.text[t].term = type
        /\ Len(p) > 1 /\ Len(Front(p)) = Len(p) - 1
        /\ Front(p)[Len(Front(p))] = p[Len(p) - 1]
        /\ p[Len(p) - 1].at \in {"decl", "sdecl", "pdecl", "struct"}
    BY <1>2, <2>1, <2>3, TagEnds DEF type
  <2>5. Tied(k, Front(p)) /\ k.rt.halt = "no" /\ k.said = {} /\ k.constant_id <= MaxConstants
    BY <2>4, ReadyFacts
  <2>6. CASE p[Len(p) - 1].at = "struct"
    <3>1. UnderAt({"struct"}) BY <2>4, <2>6 DEF UnderAt, Under
    <3>2. c' = k /\ parse' = Counted(Front(p)) /\ meant' = {}
      BY <2>2, <3>1 DEF Reduce, Pop
    <3>3. Tied(k, Counted(Front(p))) /\ TopPrim(k, Counted(Front(p)))
      BY <2>4, <2>5, <2>6, ElementCounted
    <3>4. QED BY <2>5, <3>2, <3>3, SoundQuiet
  <2>7. CASE p[Len(p) - 1].at # "struct"
    <3>1. ~ UnderAt({"struct"}) BY <2>7 DEF UnderAt, Under
    <3>2. c' = TypeSpecifier(k, t) /\ parse' = Specified(Front(p), type) /\ meant' = {}
      BY <2>1, <2>2, <2>5, <3>1 DEF Reduce, Pop, type
    <3>3. Len(Front(p)) >= 1 /\ Front(p)[Len(Front(p))].at \in {"decl", "sdecl", "pdecl"}
      BY <2>4, <2>7
    <3>4. Sound(TypeSpecifier(k, t), Specified(Front(p), type), {})
      BY <2>4, <3>3, SpecifierSound
    <3>5. QED BY <3>2, <3>4
  <2>8. QED BY <2>6, <2>7
<1>4. CASE EnumClose
  <2> DEFINE t == Cur(c.rt).current_enum
             k == EndEnum(s)
  <2>1. Len(p) >= 1 /\ Top = p[Len(p)] /\ Top.at = "enum" /\ Top.n > 0
    BY <1>4, AtFacts DEF EnumClose
  <2>2. c' = TypeSpecifier(k, t) /\ parse' = Specified(Front(p), type) /\ meant' = {}
    BY <1>4, <2>1 DEF EnumClose, Reduce, Pop
  <2>3. Ends(s, p, k, t)
    <3>1. /\ t \in 1..s.rt.next - 1 /\ s.rt.heap[t].kind = "enum"
          /\ s.text[t].term = p[Len(p)].type
          /\ s.emit # 0 => p[Len(p)].type \in s.begun
      BY <1>2, <2>1, OpenHere
    <3>2. /\ Wired(k, Front(p)) /\ Kept(s, p, k, Front(p), Len(p) - 1)
          /\ Onward(s, k) /\ SameStacks(s, k) /\ k.rt.halt = s.rt.halt
          /\ k.constant_id = s.constant_id /\ k.rt.next = s.rt.next
          /\ k.rt.heap = s.rt.heap /\ k.text = s.text /\ k.begun = s.begun
          /\ k.said = s.said /\ SameTypeNames(s.rt, k.rt)
      BY <1>2, <2>1, EnumClosed
    <3> HIDE DEF k, t, s
    <3>3. QED BY <3>1, <3>2 DEF Ends, TagKinds
  <2> HIDE DEF k, t, s, type
  <2>4. /\ Ready(k, Front(p)) /\ Prim(k, t)
        /\ k.text[t].term = type
        /\ Len(p) > 1 /\ Len(Front(p)) = Len(p) - 1
        /\ Front(p)[Len(Front(p))] = p[Len(p) - 1]
        /\ p[Len(p) - 1].at \in {"decl", "sdecl", "pdecl"}
    BY <1>2, <2>1, <2>3, TagEnds DEF type
  <2>5. Len(Front(p)) >= 1 /\ Front(p)[Len(Front(p))].at \in {"decl", "sdecl", "pdecl"}
    BY <2>4
  <2>6. Sound(TypeSpecifier(k, t), Specified(Front(p), type), {})
    BY <2>4, <2>5, SpecifierSound
  <2>7. QED BY <2>2, <2>6
<1>5. QED BY <1>3, <1>4

LEMMA NothingDeclared ==
  ASSUME NEW s, s.said = {}, NEW k, NEW kinds, Says(s, k, kinds),
         kinds \cap {"global", "typedef", "element"} = {}
  PROVE  DeclaredBy(k.said) = {}
<1>1. \A f \in k.said : f.kind \in kinds BY DEF Says
<1>2. \A f \in k.said : f.kind \notin DeclKinds BY <1>1 DEF DeclKinds
<1>3. QED BY <1>2 DEF DeclaredBy

(* An enumerator.                                                          *)
LEMMA EnumeratorCounted ==
  ASSUME NEW s, NEW p, Ready(s, p), s.constant_id + 1 <= MaxConstants,
         Len(p) >= 1, p[Len(p)].at = "enum", NEW name
  PROVE  Sound(Enumerator(s, name), Counted(p), {})
<1> DEFINE k == Enumerator(s, name)
           q == Counted(p)
           n == Len(p) - 1
           u == p[Len(p)]
           f == [u EXCEPT !.n = @ + 1]
<1>1. /\ Tied(s, p) /\ Len(p) \in Nat /\ Plainly(s) /\ Wired(s, p)
      /\ s.constant_id <= MaxConstants /\ s.rt.halt = "no" /\ s.said = {} /\ IsSeq(p)
      /\ TypesOK(s) /\ DOMAIN u = FrameFields /\ Last(p) = u
      /\ p # <<>>
  BY ReadyFacts, TiedFacts DEF FrameSays
<1>2. /\ Wired(k, q) /\ Kept(s, p, k, q, n)
      /\ Onward(s, k) /\ SameStacks(s, k) /\ k.rt.halt = s.rt.halt
      /\ k.constant_id <= s.constant_id + 1
      /\ Says(s, k, {"enumerator"})
      /\ SameTypeNames(s.rt, k.rt)
  BY <1>1, EnumeratorRead
<1>3. q = SetTop(p, f) BY <1>1 DEF Counted
<1>4. Len(q) = Len(p) /\ q[Len(p)] = f BY <1>1, <1>3, TopMade
<1>5. f.at = "enum" /\ f.type = u.type BY <1>1 DEF FrameFields
<1> HIDE DEF k, q, f, u
<1>6. PositionSays(k, q, Len(p)) BY <1>1, <1>4, <1>5 DEF PositionSays, DeclaresAt
<1>7. Tied(k, q)
  <2>1. Calm(s, k) BY <1>2 DEF Calm
  <2>2. Plainly(k) BY <1>1, <1>2 DEF Plainly, SameStacks
  <2>3. n \in Nat /\ n <= Len(p) /\ n + 1 = Len(p) BY <1>1
  <2>4. Len(q) = n + 1 /\ PositionSays(k, q, n + 1) BY <1>4, <1>6, <2>3
  <2> HIDE DEF n
  <2>5. Told(k, q) BY <1>1, <1>2, <2>1, <2>2, <2>3, <2>4, ToldKept
  <2>6. QED BY <1>2, <2>5 DEF Tied
<1>8. TopPrim(k, q) BY <1>4, <1>5 DEF TopPrim
<1>9. k.constant_id <= MaxConstants
  <2>1. k.constant_id \in Nat /\ s.constant_id \in Nat /\ MaxConstants \in Nat
    BY <1>1, <1>2, CompilerAssumption DEF Onward, Held, TypesOK, ConstsOK
  <2>2. QED BY <1>2, <2>1
<1>10. DeclaredBy(k.said) = {} BY <1>1, <1>2, NothingDeclared
<1>11. QED BY <1>1, <1>2, <1>7, <1>8, <1>9, <1>10 DEF Sound, k, q

LEMMA EnumItemSound ==
  ASSUME Sound(c, parse, meant), EnumItem
  PROVE  Sound(c', parse', meant')
<1>1. PICK name : /\ At({"enum"}) /\ Constants(1)
                  /\ Reduce(Enumerator(Quiet, name), Counted(parse), {})
  BY DEF EnumItem
<1>2. Running BY <1>1 DEF Reduce
<1>3. Ready(Quiet, parse) /\ Quiet.constant_id = c.constant_id BY <1>2, QuietReady
<1>4. Len(parse) >= 1 /\ parse[Len(parse)].at = "enum" BY <1>1, AtFacts
<1>5. Quiet.constant_id + 1 <= MaxConstants BY <1>1, <1>3 DEF Constants
<1>6. c' = Enumerator(Quiet, name) /\ parse' = Counted(parse) /\ meant' = {}
  BY <1>1 DEF Reduce
<1>7. QED BY <1>3, <1>4, <1>5, <1>6, EnumeratorCounted

LEMMA PlainMeaning == ASSUME NEW f, f.inner = 0 PROVE Meaning(f) = f.type
<1> DEFINE t == f.type
           F(g) == [i \in 0..0 |-> IF i = 0 THEN t ELSE PointerTo(g[i - 1])]
           h == CHOOSE g : g = F(g)
           d == [i \in 0..0 |-> t]
<1>1. d = F(d) OBVIOUS
<1>2. h = F(h)
  <2> HIDE DEF F
  <2>1. \E g : g = F(g) BY <1>1
  <2>2. QED BY <2>1
<1>3. h[0] = t
  <2> HIDE DEF h
  <2>1. QED BY <1>2
<1>4. Meaning(f) = h[0]
  <2>1. Meaning(f) = Pointers(t, 0) BY DEF Meaning
  <2>2. Pointers(t, 0) = h[0] BY DEF Pointers
  <2>3. QED BY <2>1, <2>2
<1>5. QED BY <1>3, <1>4

(* A parameter has been read.                                              *)
LEMMA ParameterEnds ==
  ASSUME NEW s, NEW p, Ready(s, p), Len(p) >= 1, p[Len(p)].at = "dtor",
         p[Len(p) - 1].at = "pdecl", Exact => Meaning(p[Len(p)]) # Base("void")
  PROVE  LET k    == DeclarationEnd(DeclaratorEnd(s))
             list == Front(Front(p))
             u    == list[Len(list)]
             g    == [u EXCEPT !.params = Append(@, ParameterType(s)),
                               !.types = Append(@, Meaning(p[Len(p)])), !.n = @ + 1]
         IN  Sound(k, SetTop(list, g), {})
<1> DEFINE m == DeclaratorEnd(s)
           k == DeclarationEnd(m)
           q == Front(p)
           list == Front(q)
           u == list[Len(list)]
           f == p[Len(p)]
           t == ParameterType(s)
           g == [u EXCEPT !.params = Append(@, t), !.types = Append(@, Meaning(f)),
                          !.n = @ + 1]
           d == CurDtor(s)
<1>1. /\ Tied(s, p) /\ StackInv(s, p) /\ Held(s) /\ Len(p) \in Nat /\ Plainly(s)
      /\ s.constant_id <= MaxConstants /\ s.rt.halt = "no" /\ s.said = {} /\ IsSeq(p)
      /\ Shaped(s) /\ TypesOK(s)
  BY ReadyFacts
<1>2. /\ Len(p) >= 2 /\ DtorSays(s, f, p[Len(p) - 1], d) /\ DtorTyped(s, d)
      /\ Len(s.dtors) >= 1 /\ Len(s.dtors) \in Nat /\ Len(s.decls) \in Nat
      /\ d.declaration = Len(s.decls) /\ Len(s.decls) >= 1 /\ d = s.dtors[Len(s.dtors)]
  BY <1>1, DtorFacts
<1>a. Exact => Meaning(f) # Base("void") OBVIOUS
<1>3. /\ Held(m) /\ Same(s, m) /\ m.decls = s.decls /\ Popped(s.dtors, m.dtors)
  BY <1>1, <1>2, DeclaratorEndStep
<1>4. /\ Held(k) /\ Same(m, k) /\ k.dtors = m.dtors /\ Popped(m.decls, k.decls)
  <2> HIDE DEF m
  <2>1. QED BY <1>2, <1>3, DeclarationEndStep
<1>5. StackInv(k, list) /\ Len(list) >= 1 BY <1>1, <1>2, ParameterClosed
<1>6. Len(q) = Len(p) - 1 /\ IsSeq(q) /\ \A i \in 1..Len(q) : q[i] = p[i]
  BY <1>1, Fronted
<1>7. Len(list) = Len(q) - 1 /\ IsSeq(list) /\ \A i \in 1..Len(list) : list[i] = q[i]
  <2>1. Len(q) >= 1 BY <1>1, <1>2, <1>6
  <2> HIDE DEF q
  <2>2. QED BY <1>6, <2>1, Fronted
<1>8. StackInv(s, q)
  <2>1. ~ DeclaratorAt(p, Len(p)) /\ ~ DeclaresAt(p, Len(p)) /\ ~ BodyAt(p, Len(p))
    <3>1. Len(p) # 1 BY <1>2
    <3>2. QED BY <3>1 DEF DeclaratorAt, DeclaresAt, BodyAt
  <2>2. One(DeclaratorAt(p, Len(p))) = 0 /\ One(DeclaresAt(p, Len(p))) = 0
        /\ One(BodyAt(p, Len(p))) = 0
    BY <2>1 DEF One
  <2>3. s.emit \in Int BY <1>1, AtLeast
  <2>4. Pops(s, p, s) BY <1>1, <1>2, <2>2, <2>3 DEF Pops
  <2>5. QED BY <1>1, <2>4, MirrorsPop
<1> HIDE DEF m, k, q, list
<1>9. Same(s, k) /\ Popped(s.decls, k.decls) /\ Popped(s.dtors, k.dtors)
  BY <1>3, <1>4 DEF Same
<1>10. Mild(s, k) /\ k.rt = s.rt /\ k.text = s.text /\ k.said = s.said
      /\ k.constant_id = s.constant_id /\ TypesOK(k) /\ Grows(s, k)
  BY <1>1, <1>4, <1>9, SameMild
<1>11. Tied(s, q)
  <2>1. Mild(s, s)
    <3>1. Same(s, s) BY <1>9, <1>1 DEF Same, Shaped
    <3>2. QED BY <1>1, <3>1, SameMild
  <2>2. EndsMoved(s, s) BY DEF EndsMoved
  <2>3. QED BY <1>1, <1>8, <2>1, <2>2, PoppedTied DEF q
<1>12. Len(q) >= 1 /\ q[Len(q)] = p[Len(p) - 1] BY <1>1, <1>2, <1>6
<1>13. Plainly(k) BY <1>1, <1>2, <1>9, PlainlyCut
<1>14. Tied(k, list)
  <2>1. EndsMoved(s, k) BY <1>2, <1>9, PoppedEnds
  <2>2. q[Len(q)].at \notin {"struct", "enum"} BY <1>12
  <2>3. QED BY <1>5, <1>10, <1>11, <1>12, <1>13, <2>1, <2>2, PoppedTied DEF list
<1>15. u = q[Len(q) - 1] /\ u.at = "params" /\ Len(q) # 1
  <2>1. MayLie(q[Len(q)].at, IF Len(q) = 1 THEN "none" ELSE q[Len(q) - 1].at)
    BY <1>11, <1>12, TiedFacts
  <2>2. Len(q) # 1 /\ q[Len(q) - 1].at = "params" BY <1>12, <2>1 DEF MayLie
  <2>3. Len(list) \in 1..Len(list) BY <1>5, <1>7, SeqFacts
  <2>4. QED BY <1>7, <2>2, <2>3
<1>16. /\ FrameOK(k, u) /\ DOMAIN u = FrameFields /\ ParamsSay(k, u)
       /\ list[Len(list) - 1].phase = "suffix"
  BY <1>5, <1>14, <1>15, TiedFacts DEF FrameSays
<1>17. Typ(s, t) /\ t # 0 /\ (d.type # 0 => t = d.type)
  <2>1. d.declaration \in 1..Len(s.decls) BY <1>2
  <2>2. Typ(s, t) /\ t # 0 /\ (EndedDeclarator(s).type # 0 => t = EndedDeclarator(s).type)
    BY <1>1, <1>2, <2>1, ParameterTypeStep
  <2>3. d.type # 0 => EndedDeclarator(s).type = d.type
    BY <1>1, <1>2, <2>1, EndedDeclaratorStep
  <2>4. QED BY <2>2, <2>3
<1>18. /\ DOMAIN g = FrameFields /\ g.at = "params" /\ g.n = u.n + 1
       /\ g.params = Append(u.params, t) /\ g.types = Append(u.types, Meaning(f))
  BY <1>15, <1>16 DEF FrameFields
<1> HIDE DEF g, u, f, t, d
<1>19. /\ IsSeq(u.params) /\ IsSeq(g.params) /\ Len(g.params) = Len(u.params) + 1
       /\ g.params[Len(u.params) + 1] = t /\ Len(u.params) \in Nat
       /\ \A j \in 1..Len(u.params) : g.params[j] = u.params[j]
  <2>1. IsSeq(u.params) BY <1>16 DEF FrameOK, ParamsTyped
  <2>2. QED BY <1>18, <2>1, Appended, SeqFacts
<1>20. \A j \in 1..Len(g.params) : j = Len(u.params) + 1 \/ j \in 1..Len(u.params)
  BY <1>19
<1>21. FrameOK(k, g)
  <2>1. u.n \in Nat /\ \A j \in DOMAIN u.params : Typ(k, u.params[j]) /\ u.params[j] # 0
    BY <1>16 DEF FrameOK, ParamsTyped
  <2>2. Typ(k, t) BY <1>1, <1>10, <1>17, TypGrows
  <2>3. DOMAIN g.params = 1..Len(g.params) /\ DOMAIN u.params = 1..Len(u.params)
    BY <1>19, SeqFacts
  <2>4. \A j \in DOMAIN g.params : Typ(k, g.params[j]) /\ g.params[j] # 0
    BY <1>17, <1>19, <1>20, <2>1, <2>2, <2>3
  <2>5. QED BY <1>18, <1>19, <2>1, <2>4 DEF FrameOK, ParamsTyped
<1>22. ParamsSay(k, g)
  <2>1. SUFFICES ASSUME Exact
                 PROVE  /\ IsSeq(g.types) /\ Len(g.types) = Len(g.params)
                        /\ \A j \in 1..Len(g.params) :
                             g.types[j] = k.text[g.params[j]].term /\ g.types[j] # Base("void")
    BY DEF ParamsSay
  <2>2. /\ IsSeq(u.types) /\ Len(u.types) = Len(u.params)
        /\ \A j \in 1..Len(u.params) :
             u.types[j] = k.text[u.params[j]].term /\ u.types[j] # Base("void")
    BY <1>16, <2>1 DEF ParamsSay
  <2>3. f.inner = 0 /\ f.type = s.text[d.type].term
    BY <1>2, <2>1 DEF DtorSays
  <2>4. Meaning(f) = f.type BY <2>3, PlainMeaning
  <2>5. d.type # 0 BY <1>2, <2>1 DEF DtorTyped, Typ, Exact
  <2>6. Meaning(f) = k.text[t].term BY <1>10, <1>17, <2>3, <2>4, <2>5
  <2>7. /\ IsSeq(g.types) /\ Len(g.types) = Len(u.types) + 1
        /\ g.types[Len(u.types) + 1] = Meaning(f)
        /\ \A j \in 1..Len(u.types) : g.types[j] = u.types[j]
    BY <1>18, <2>2, Appended
  <2>8. Len(g.types) = Len(g.params) BY <1>19, <2>2, <2>7
  <2>9. ASSUME NEW j \in 1..Len(g.params)
        PROVE  g.types[j] = k.text[g.params[j]].term /\ g.types[j] # Base("void")
    <3>1. CASE j \in 1..Len(u.params)
      <4>1. j \in 1..Len(u.types) BY <2>2, <3>1
      <4>2. g.types[j] = u.types[j] /\ g.params[j] = u.params[j]
        BY <1>19, <2>7, <3>1, <4>1
      <4>3. QED BY <2>2, <3>1, <4>2
    <3>2. CASE j = Len(u.params) + 1
      <4>1. j = Len(u.types) + 1 BY <2>2, <3>2
      <4>2. g.types[j] = Meaning(f) BY <2>7, <4>1
      <4>3. g.params[j] = t BY <1>19, <3>2
      <4>4. QED BY <1>a, <2>1, <2>6, <4>2, <4>3
    <3>3. QED BY <1>20, <3>1, <3>2
  <2>10. QED BY <2>7, <2>8, <2>9
<1>23. Tied(k, SetTop(list, g))
  <2>1. Mild(k, k)
    <3>1. Same(k, k) BY <1>9 DEF Same
    <3>2. QED BY <1>4, <3>1, SameMild
  <2>2. TopMoved(k, list, k) BY DEF TopMoved
  <2>3. SameFrame(list[Len(list)], g) BY <1>15, <1>18 DEF SameFrame, u
  <2>4. FrameSays(k, g, list[Len(list) - 1]) BY <1>16, <1>18, <1>22 DEF FrameSays
  <2>5. StackInv(k, SetTop(list, g))
    <3>1. Keeps(k, k)
      <4>1. Shaped(k) BY <1>4 DEF Held
      <4>2. QED BY <4>1, KeepsSelf
    <3>2. QED BY <1>5, <1>15, <1>18, <3>1, TopChanged DEF u
  <2>6. QED BY <1>5, <1>13, <1>14, <1>21, <2>1, <2>2, <2>3, <2>4, <2>5, TopTied
<1>24. TopPrim(k, SetTop(list, g)) BY <1>5, <1>7, <1>18, NoDeclarator
<1>25. Sound(k, SetTop(list, g), {}) BY <1>1, <1>10, <1>23, <1>24, SoundQuiet
<1>26. QED BY <1>25 DEF k, m, list, q, g, u, f, t

LEMMA ParamStopSound ==
  ASSUME Sound(c, parse, meant), ParamStop
  PROVE  Sound(c', parse', meant')
<1> DEFINE list == Front(Pop)
           s == DeclarationEnd(DeclaratorEnd(ParameterDecl(Quiet)))
           g(t) == [Last(list) EXCEPT !.params = Append(@, t),
                                      !.types = Append(@, Meaning(Top)), !.n = @ + 1]
<1>1. Running BY DEF ParamStop, Reduce
<1>2. Ready(Quiet, parse) /\ Quiet.decls = c.decls /\ Quiet.dtors = c.dtors
      /\ Quiet.rt = c.rt
  BY <1>1, QuietReady
<1>3. At({"dtor"}) /\ UnderAt({"pdecl"}) BY DEF ParamStop
<1>4. /\ Len(parse) >= 1 /\ Top = parse[Len(parse)] /\ Top.at = "dtor"
      /\ Under = parse[Len(parse) - 1] /\ Under.at = "pdecl"
      /\ Len(parse) > 1 /\ IsSeq(parse) /\ Len(parse) \in Nat
  BY <1>3, AtFacts
<1>5. c' = s /\ meant' = {} /\ parse' = SetTop(list, g(ParameterType(c)))
  BY DEF ParamStop, Reduce
<1>6. CurDtor(Quiet).declaration = Len(Quiet.decls)
  BY <1>2, <1>4, ReadyFacts, DtorFacts
<1>7. ParameterDecl(Quiet) = Quiet BY <1>6 DEF ParameterDecl
<1>8. ParameterType(c) = ParameterType(Quiet)
  BY <1>2 DEF ParameterType, EndedDeclarator, CurDtor
<1>9. Pop = Front(parse) /\ Last(list) = list[Len(list)]
  BY DEF Pop, Last
<1>a. Exact => Meaning(parse[Len(parse)]) # Base("void")
  <2>1. Meaning(Top) = Base("void") => Uses("void") BY DEF ParamStop
  <2>2. QED BY <1>4, <2>1 DEF Exact, Uses
<1> HIDE DEF list
<1>10. Sound(s, SetTop(list, g(ParameterType(Quiet))), {})
  BY <1>2, <1>4, <1>7, <1>9, <1>a, ParameterEnds DEF list
<1>11. QED BY <1>5, <1>8, <1>10

(* A list with or without one element more.                                *)
LEMMA JoinedOne ==
  ASSUME NEW x, IsSeq(x), NEW v
  PROVE  /\ IsSeq(x \o <<v>>) /\ Len(x \o <<v>>) = Len(x) + 1 /\ Len(x) \in Nat
         /\ (x \o <<v>>)[Len(x) + 1] = v
         /\ \A i \in 1..Len(x) : (x \o <<v>>)[i] = x[i]
<1>1. PICK S : x \in Seq(S) BY DEF IsSeq
<1>2. x \in Seq(S \cup {v}) /\ <<v>> \in Seq(S \cup {v})
  <2>1. x \in Seq(S \cup {v})
    <3>1. Len(x) \in Nat /\ x \in [1..Len(x) -> S] BY <1>1
    <3>2. x \in [1..Len(x) -> S \cup {v}] BY <3>1
    <3>3. QED BY <3>1, <3>2
  <2>2. QED BY <2>1
<1>3. Len(<<v>>) = 1 /\ <<v>>[1] = v OBVIOUS
<1>4. x \o <<v>> \in Seq(S \cup {v}) /\ Len(x \o <<v>>) = Len(x) + 1 /\ Len(x) \in Nat
  BY <1>2, <1>3
<1>5. \A i \in 1..Len(x) : (x \o <<v>>)[i] = x[i] BY <1>2, <1>3
<1>6. (x \o <<v>>)[Len(x) + 1] = v BY <1>2, <1>3
<1>7. QED BY <1>4, <1>5, <1>6 DEF IsSeq

LEMMA JoinedNone ==
  ASSUME NEW x, IsSeq(x)
  PROVE  x \o <<>> = x
<1>1. PICK S : x \in Seq(S) BY DEF IsSeq
<1>2. QED BY <1>1

(* The parameter list is closed: all the parameters, and their terms.      *)
AllParams(s, f, variadic) ==
  f.params \o (IF variadic THEN <<TypeByName(s.rt, Varargs)>> ELSE <<>>)
AllTerms(f, variadic) ==
  IF f.types = <<Base("void")>> /\ ~ variadic THEN <<>>
  ELSE f.types \o (IF variadic THEN <<Base(Varargs)>> ELSE <<>>)
TermsOf(s, params) == [i \in DOMAIN params |-> s.text[params[i]].term]

LEMMA ParamTerms ==
  ASSUME NEW s, NEW f, ParamsTyped(s, f), ParamsSay(s, f), TypesOK(s),
         NEW variadic \in BOOLEAN
  PROVE  LET ps == AllParams(s, f, variadic)
             ts == AllTerms(f, variadic)
         IN  /\ IsSeq(ps) /\ \A i \in DOMAIN ps : Typ(s, ps[i]) /\ ps[i] # 0
             /\ Exact => ts = TermsOf(s, ps)
<1> DEFINE t == TypeByName(s.rt, Varargs)
           n == Len(f.params)
<1>1. IsSeq(f.params) /\ n \in Nat /\ DOMAIN f.params = 1..n
      /\ \A j \in 1..n : Typ(s, f.params[j]) /\ f.params[j] # 0
  <2>1. IsSeq(f.params) BY DEF ParamsTyped
  <2>2. n \in Nat /\ DOMAIN f.params = 1..n BY <2>1, SeqFacts
  <2>3. QED BY <2>1, <2>2 DEF ParamsTyped
<1>2. Typ(s, t) /\ t # 0 /\ s.text[t].term = Base(Varargs)
  <2>1. Varargs \in Intrinsics BY CompilerAssumption
  <2>2. Prim(s, t) /\ t # 0 /\ s.text[t].term = Base(Varargs) BY <2>1, NamedType
  <2>3. QED BY <2>2 DEF Prim
<1>3. Exact => /\ IsSeq(f.types) /\ Len(f.types) = n
               /\ \A j \in 1..n : f.types[j] = s.text[f.params[j]].term
                                  /\ f.types[j] # Base("void")
  BY DEF ParamsSay
<1>4. Exact => f.types # <<Base("void")>>
  <2>1. SUFFICES ASSUME Exact, f.types = <<Base("void")>> PROVE FALSE OBVIOUS
  <2>2. Len(<<Base("void")>>) = 1 /\ <<Base("void")>>[1] = Base("void") OBVIOUS
  <2>3. n = 1 BY <1>3, <2>1, <2>2
  <2>4. 1 \in 1..n BY <2>3
  <2>5. f.types[1] # Base("void") BY <1>3, <2>1, <2>4
  <2>6. QED BY <2>1, <2>2, <2>5
<1>5. CASE variadic
  <2> DEFINE ps == f.params \o <<t>>
             ts == f.types \o <<Base(Varargs)>>
  <2>1. /\ IsSeq(ps) /\ Len(ps) = n + 1 /\ ps[n + 1] = t
        /\ \A i \in 1..n : ps[i] = f.params[i]
    <3>1. IsSeq(f.params) BY <1>1
    <3>2. /\ IsSeq(ps) /\ Len(ps) = Len(f.params) + 1 /\ ps[Len(f.params) + 1] = t
          /\ \A i \in 1..Len(f.params) : ps[i] = f.params[i]
      BY <3>1, JoinedOne
    <3>3. QED BY <3>2
  <2>2. DOMAIN ps = 1..n + 1 BY <2>1, SeqFacts
  <2>3. \A i \in 1..n + 1 : i \in 1..n \/ i = n + 1 BY <1>1
  <2>4. Exact => /\ IsSeq(ts) /\ Len(ts) = n + 1 /\ ts[n + 1] = Base(Varargs)
                 /\ \A i \in 1..n : ts[i] = f.types[i]
    <3>1. SUFFICES ASSUME Exact
                   PROVE  /\ IsSeq(ts) /\ Len(ts) = n + 1 /\ ts[n + 1] = Base(Varargs)
                          /\ \A i \in 1..n : ts[i] = f.types[i]
      OBVIOUS
    <3>2. IsSeq(f.types) /\ Len(f.types) = n BY <1>3, <3>1
    <3>3. /\ IsSeq(ts) /\ Len(ts) = Len(f.types) + 1
          /\ ts[Len(f.types) + 1] = Base(Varargs)
          /\ \A i \in 1..Len(f.types) : ts[i] = f.types[i]
      BY <3>2, JoinedOne
    <3>4. QED BY <3>2, <3>3
  <2> HIDE DEF ps, ts, t, n
  <2>5. \A i \in DOMAIN ps : Typ(s, ps[i]) /\ ps[i] # 0
    BY <1>1, <1>2, <2>1, <2>2, <2>3
  <2>6. Exact => ts = [i \in DOMAIN ps |-> s.text[ps[i]].term]
    <3>1. SUFFICES ASSUME Exact PROVE ts = [i \in DOMAIN ps |-> s.text[ps[i]].term]
      OBVIOUS
    <3>2. IsSeq(ts) /\ DOMAIN ts = 1..n + 1 BY <2>4, <3>1, SeqFacts
    <3>3. \A i \in 1..n + 1 : ts[i] = s.text[ps[i]].term
      BY <1>2, <1>3, <2>1, <2>3, <2>4, <3>1
    <3>4. PICK S : ts \in Seq(S) BY <3>2 DEF IsSeq
    <3>5. ts = [i \in 1..Len(ts) |-> ts[i]] BY <3>4
    <3>6. Len(ts) = n + 1 BY <2>4, <3>1
    <3>7. QED BY <2>2, <3>3, <3>5, <3>6
  <2>7. AllParams(s, f, variadic) = ps /\ AllTerms(f, variadic) = ts
    BY <1>5 DEF AllParams, AllTerms, ps, ts, t
  <2>8. QED BY <2>1, <2>5, <2>6, <2>7 DEF TermsOf
<1>6. CASE ~ variadic
  <2> DEFINE ps == f.params \o <<>>
             ts == f.types \o <<>>
  <2>1. ps = f.params BY <1>1, JoinedNone
  <2>2. Exact => ts = f.types BY <1>3, JoinedNone
  <2>3. IsSeq(ps) /\ \A i \in DOMAIN ps : Typ(s, ps[i]) /\ ps[i] # 0
    BY <1>1, <2>1
  <2>4. Exact => f.types = [i \in DOMAIN f.params |-> s.text[f.params[i]].term]
    <3>1. SUFFICES ASSUME Exact
                   PROVE  f.types = [i \in DOMAIN f.params |-> s.text[f.params[i]].term]
      OBVIOUS
    <3>2. PICK S : f.types \in Seq(S) BY <1>3, <3>1 DEF IsSeq
    <3>3. f.types = [i \in 1..Len(f.types) |-> f.types[i]] BY <3>2
    <3>4. Len(f.types) = n BY <1>3, <3>1
    <3> HIDE DEF n
    <3>5. QED BY <1>1, <1>3, <3>1, <3>3, <3>4
  <2>5. /\ AllParams(s, f, variadic) = ps
        /\ AllTerms(f, variadic) = IF f.types = <<Base("void")>> THEN <<>> ELSE ts
    BY <1>6 DEF AllParams, AllTerms
  <2> HIDE DEF ps, ts
  <2>6. Exact => AllTerms(f, variadic) = f.types BY <1>4, <2>2, <2>5
  <2>7. QED BY <2>1, <2>3, <2>4, <2>5, <2>6 DEF TermsOf
<1>7. QED BY <1>5, <1>6

LEMMA FunctionEnds ==
  ASSUME NEW s, NEW p, Ready(s, p), Len(p) >= 1, p[Len(p)].at = "params", Room(s.rt, 2),
         NEW variadic \in BOOLEAN
  PROVE  LET f  == p[Len(p)]
             q  == Front(p)
             u  == p[Len(p) - 1]
             ps == AllParams(s, f, variadic)
             ts == AllTerms(f, variadic)
         IN  Sound(FunctionDecl(s, ps),
                   SetTop(q, [u EXCEPT !.phase = "done", !.type = FunctionOf(@, ts)]), {})
<1> DEFINE f == p[Len(p)]
           q == Front(p)
           u == p[Len(p) - 1]
           v == q[Len(q) - 1]
           ps == AllParams(s, f, variadic)
           ts == AllTerms(f, variadic)
           k == FunctionDecl(s, ps)
           g == [u EXCEPT !.phase = "done", !.type = FunctionOf(@, ts)]
           d == CurDtor(s)
           e == EndedDeclarator(s)
           terms == TermsOf(s, ps)
<1>1. /\ Tied(s, p) /\ StackInv(s, p) /\ Held(s) /\ Len(p) \in Nat /\ Plainly(s)
      /\ s.constant_id <= MaxConstants /\ s.rt.halt = "no" /\ s.said = {} /\ IsSeq(p)
      /\ Shaped(s) /\ TypesOK(s)
  BY ReadyFacts
<1>2. /\ ParamsTyped(s, f) /\ ParamsSay(s, f) /\ u.phase = "suffix"
      /\ MayLie(f.at, IF Len(p) = 1 THEN "none" ELSE u.at)
  BY <1>1, TiedFacts DEF FrameOK, FrameSays
<1>3. Len(p) # 1 /\ u.at = "dtor" BY <1>2 DEF MayLie
<1>4. Len(p) >= 2
  <2> DEFINE n == Len(p)
  <2>1. n \in Nat /\ n >= 1 /\ n # 1 BY <1>1, <1>3
  <2> HIDE DEF n
  <2>2. n >= 2 BY <2>1
  <2>3. QED BY <2>2 DEF n
<1>5. Len(q) = Len(p) - 1 /\ IsSeq(q) /\ \A i \in 1..Len(q) : q[i] = p[i]
  BY <1>1, Fronted
<1>6. q[Len(q)] = u /\ Len(q) >= 1 BY <1>1, <1>4, <1>5
<1>7. Keeps(s, s) BY <1>1, KeepsSelf
<1>8. StackInv(s, q) BY <1>1, <1>7, ListClosed
<1>9. Tied(s, q)
  <2>1. Mild(s, s)
    <3>1. Same(s, s) BY <1>1 DEF Same, Shaped
    <3>2. QED BY <1>1, <3>1, SameMild
  <2>2. EndsMoved(s, s) BY DEF EndsMoved
  <2>3. QED BY <1>1, <1>8, <2>1, <2>2, PoppedTied DEF q
<1> HIDE DEF q
<1>10. /\ DtorSays(s, u, v, d) /\ DtorTyped(s, d) /\ Len(s.dtors) >= 1
       /\ d.declaration = Len(s.decls) /\ Len(s.decls) >= 1 /\ Len(s.decls) \in Nat
       /\ DOMAIN u = FrameFields /\ d = s.dtors[Len(s.dtors)] /\ Len(s.dtors) \in Nat
  BY <1>3, <1>6, <1>9, DtorFacts
<1>11. /\ IsSeq(ps) /\ \A i \in DOMAIN ps : Typ(s, ps[i]) /\ ps[i] # 0
       /\ Exact => ts = terms
  <2> HIDE DEF f
  <2>1. variadic \in BOOLEAN OBVIOUS
  <2>2. ParamsTyped(s, f) /\ ParamsSay(s, f) /\ TypesOK(s) BY <1>1, <1>2
  <2>3. QED BY <2>1, <2>2, ParamTerms, ZenonT(60)
<1> HIDE DEF ps, ts, f
<1>12. d.declaration \in 1..Len(s.decls) BY <1>10
<1>13. /\ Moves(s, k) /\ k.constant_id = s.constant_id
       /\ Resolved => k.rt.halt = "no"
       /\ \E t : /\ DtorMoved(s, k, t) /\ Typ(k, t)
                 /\ Exact /\ ~ d.parenthised =>
                      k.text[t].term = FunctionOf(s.text[e.type].term, terms)
  <2>1. Held(s) /\ s.rt.halt = "no" /\ Len(s.dtors) >= 1 /\ Room(s.rt, 2)
    BY <1>1, <1>10
  <2>2. CurDtor(s).declaration \in 1..Len(s.decls) BY <1>12
  <2>3. IsSeq(ps) /\ \A i \in DOMAIN ps : Typ(s, ps[i]) /\ ps[i] # 0 BY <1>11
  <2>4. terms = [i \in DOMAIN ps |-> s.text[ps[i]].term] BY DEF TermsOf
  <2> HIDE DEF terms
  <2>5. QED BY <2>1, <2>2, <2>3, <2>4, FunctionDeclStep, ZenonT(60)
<1>14. PICK t : /\ DtorMoved(s, k, t) /\ Typ(k, t)
                /\ Exact /\ ~ d.parenthised =>
                     k.text[t].term = FunctionOf(s.text[e.type].term, terms)
  BY <1>13
<1>15. Exact => ~ d.parenthised BY <1>1, <1>10 DEF Plainly
<1>16. Exact => u.type = s.text[e.type].term /\ u.inner = 0
  <2>1. SUFFICES ASSUME Exact PROVE u.type = s.text[e.type].term /\ u.inner = 0 OBVIOUS
  <2>2. d.type # 0 BY <1>10, <2>1 DEF DtorTyped, Typ, Exact
  <2>3. e.type = d.type BY <1>1, <1>10, <1>12, <2>2, EndedDeclaratorStep
  <2>4. /\ v.at = "sdecl" => d.bits = Literal(0)
        /\ u.inner = 0
        /\ u.type = IF v.at = "sdecl" THEN MemberText(s, d.type, d.bits)
                    ELSE s.text[d.type].term
    BY <1>2, <1>10, <2>1 DEF DtorSays
  <2>5. u.type = s.text[d.type].term BY <2>4 DEF MemberText
  <2>6. QED BY <2>3, <2>4, <2>5
<1>17. /\ DOMAIN g = FrameFields /\ g.at = "dtor" /\ g.phase = "done" /\ g.n = u.n
       /\ g.params = u.params /\ g.name = u.name /\ g.inner = u.inner
       /\ g.type = FunctionOf(u.type, ts)
  BY <1>3, <1>10 DEF FrameFields
<1> HIDE DEF g, d, e, terms, k
<1>19. Retyped(s, k, u, v, g, t)
  <2>1. Redone(u, g) BY <1>17 DEF Redone
  <2>2. Named(u) BY <1>2 DEF Named
  <2>3. Exact => /\ g.inner = 0 /\ g.phase \notin {"paren", "closing"}
                 /\ g.type = k.text[t].term
    BY <1>11, <1>14, <1>15, <1>16, <1>17
  <2>4. QED BY <1>2, <1>3, <1>13, <1>14, <1>17, <2>1, <2>2, <2>3 DEF Retyped
<1>20. StackInv(k, SetTop(q, g))
  <2>1. Keeps(s, k) BY <1>1, FunctionDeclKeeps DEF k
  <2>2. QED BY <1>3, <1>6, <1>8, <1>17, <2>1, TopChanged
<1>21. Tied(k, SetTop(q, g)) BY <1>6, <1>9, <1>19, <1>20, DtorMovedTied DEF v
<1>22. TopPrim(k, SetTop(q, g))
  <2>1. Len(SetTop(q, g)) = Len(q) /\ SetTop(q, g)[Len(q)] = g BY <1>5, <1>6, TopMade
  <2>2. QED BY <1>17, <2>1 DEF TopPrim
<1>23. Sound(k, SetTop(q, g), {})
  <2>1. k.said = {} BY <1>1, <1>13 DEF Moves
  <2>2. QED BY <1>1, <1>13, <1>21, <1>22, <2>1, SoundQuiet
<1>24. QED BY <1>23 DEF k, g, q, u, ps, ts, f

LEMMA FunctionCloseSound ==
  ASSUME Sound(c, parse, meant), FunctionClose
  PROVE  Sound(c', parse', meant')
<1>1. Running BY DEF FunctionClose, Reduce
<1>2. Ready(Quiet, parse) /\ Quiet.rt = c.rt BY <1>1, QuietReady
<1>3. At({"params"}) /\ Space(2) BY DEF FunctionClose
<1>4. Len(parse) >= 1 /\ Top = parse[Len(parse)] /\ Top.at = "params"
  BY <1>3, AtFacts
<1>5. Under = parse[Len(parse) - 1] BY DEF Under
<1>6. PICK b \in BOOLEAN :
        /\ c' = FunctionDecl(Quiet, AllParams(Quiet, Top, b)) /\ meant' = {}
        /\ parse' = SetTop(Pop, [Under EXCEPT !.phase = "done",
                                              !.type = FunctionOf(@, AllTerms(Top, b))])
  BY <1>2 DEF FunctionClose, Reduce, AllParams, AllTerms
<1>7. Room(Quiet.rt, 2) BY <1>2, <1>3 DEF Space
<1>8. Sound(FunctionDecl(Quiet, AllParams(Quiet, Top, b)),
            SetTop(Pop, [Under EXCEPT !.phase = "done",
                                      !.type = FunctionOf(@, AllTerms(Top, b))]), {})
  BY <1>2, <1>4, <1>5, <1>7, FunctionEnds DEF Pop
<1>9. QED BY <1>6, <1>8

(* A declarator is closed, and what was declared is f, with e at its end.  *)
LEMMA DeclaratorEnds ==
  ASSUME NEW s, NEW p, Ready(s, p), Len(p) >= 1, p[Len(p)].at = "dtor",
         p[Len(p) - 1].at # "pdecl"
  PROVE  LET m == DeclaratorEnd(s)
             q == Front(p)
         IN  /\ Tied(m, q) /\ Held(m) /\ Same(s, m) /\ m.decls = s.decls
             /\ m.said = {} /\ m.rt = s.rt /\ m.text = s.text /\ m.emit = s.emit
             /\ m.constant_id = s.constant_id
             /\ Len(q) >= 1 /\ Len(q) \in Nat /\ IsSeq(q) /\ q[Len(q)] = p[Len(p) - 1]
             /\ Len(q) = Len(p) - 1
             /\ q[Len(q)].at \in {"decl", "sdecl", "fdef"} /\ q[Len(q)].phase = "dtors"
<1> DEFINE m == DeclaratorEnd(s)
           q == Front(p)
           u == p[Len(p) - 1]
<1>1. /\ Tied(s, p) /\ StackInv(s, p) /\ Held(s) /\ Len(p) \in Nat /\ Plainly(s)
      /\ s.constant_id <= MaxConstants /\ s.rt.halt = "no" /\ s.said = {} /\ IsSeq(p)
      /\ Shaped(s) /\ TypesOK(s)
  BY ReadyFacts
<1>2. /\ Len(p) >= 2 /\ DtorSays(s, p[Len(p)], u, CurDtor(s))
      /\ Len(s.dtors) >= 1 /\ Len(s.dtors) \in Nat /\ Len(s.decls) \in Nat
      /\ u.at \in {"decl", "sdecl", "pdecl", "fdef"}
  BY <1>1, DtorFacts
<1>3. /\ Held(m) /\ Same(s, m) /\ m.decls = s.decls /\ Popped(s.dtors, m.dtors)
  BY <1>1, <1>2, DeclaratorEndStep
<1>4. StackInv(m, q)
  <2>1. Len(p) > 1 BY <1>1, <1>2
  <2>2. QED BY <1>1, <2>1, DeclaratorClosed
<1>5. Len(q) = Len(p) - 1 /\ IsSeq(q) /\ \A i \in 1..Len(q) : q[i] = p[i]
  BY <1>1, Fronted
<1>6. q[Len(q)] = u /\ Len(q) >= 1 /\ Len(q) \in Nat BY <1>1, <1>2, <1>5
<1> HIDE DEF m, q
<1>7. Mild(s, m) /\ m.rt = s.rt /\ m.text = s.text /\ m.said = s.said
      /\ m.constant_id = s.constant_id
  BY <1>1, <1>3, SameMild
<1>8. Tied(m, q)
  <2>1. EndsMoved(s, m) BY <1>2, <1>3, PoppedEnds
  <2>2. Plainly(m) BY <1>1, <1>2, <1>3, PlainlyCut
  <2>3. QED BY <1>1, <1>4, <1>7, <2>1, <2>2, PoppedTied DEF q
<1>9. u.phase = "dtors" /\ u.at \in {"decl", "sdecl", "fdef"} BY <1>2 DEF DtorSays
<1>10. m.emit = s.emit BY <1>3 DEF Same
<1>11. QED BY <1>1, <1>3, <1>5, <1>6, <1>7, <1>8, <1>9, <1>10 DEF m, q

LEMMA NamesMore ==
  \A declares, x : NamesIn(declares \cup {x}) = NamesIn(declares) \cup {x.name}
BY DEF NamesIn

LEMMA IdsMore ==
  ASSUME NEW x, NEW y, NEW d, IsSeq(x), Pushed(x, y, d), IsSeq(y)
  PROVE  /\ IdsAt(y, DOMAIN y) = IdsAt(x, DOMAIN x) \cup {d.identifier}
         /\ \A s, storage :
              DeclarationsAt(s, y, DOMAIN y, storage) =
                DeclarationsAt(s, x, DOMAIN x, storage) \cup
                  {Declares(KindOf(storage), d.identifier, s.text[d.type].term)}
<1>1. Len(x) \in Nat /\ DOMAIN x = 1..Len(x) /\ DOMAIN y = 1..Len(y)
  BY SeqFacts
<1>2. Len(y) = Len(x) + 1 /\ y[Len(x) + 1] = d /\ \A i \in 1..Len(x) : y[i] = x[i]
  BY DEF Pushed
<1>3. DOMAIN y = DOMAIN x \cup {Len(x) + 1} BY <1>1, <1>2
<1>4. y[Len(x) + 1] = d /\ \A i \in DOMAIN x : y[i] = x[i] BY <1>1, <1>2
<1> DEFINE n == Len(x) + 1
           X == DOMAIN x
           Y == DOMAIN y
<1>5. Y = X \cup {n} /\ y[n] = d /\ \A i \in X : y[i] = x[i] BY <1>3, <1>4
<1> HIDE DEF n, X, Y
<1>6. IdsAt(y, Y) = IdsAt(x, X) \cup {d.identifier} BY <1>5 DEF IdsAt
<1>7. \A s, storage :
        DeclarationsAt(s, y, Y, storage) =
          DeclarationsAt(s, x, X, storage) \cup
            {Declares(KindOf(storage), d.identifier, s.text[d.type].term)}
  BY <1>5 DEF DeclarationsAt
<1>8. QED BY <1>6, <1>7 DEF X, Y

LEMMA IntroducesMore ==
  ASSUME NEW r, NEW x, NEW y, NEW d, IsSeq(x), Pushed(x, y, d), IsSeq(y),
         Introduces(r, x), d.identifier \notin TypeNamesOf(r),
         d.identifier \notin IdsAt(x, DOMAIN x)
  PROVE  Introduces(r, y)
<1>1. Len(x) \in Nat /\ DOMAIN x = 1..Len(x) /\ DOMAIN y = 1..Len(y)
  BY SeqFacts
<1>2. Len(y) = Len(x) + 1 /\ y[Len(x) + 1] = d /\ \A i \in 1..Len(x) : y[i] = x[i]
  BY DEF Pushed
<1>3. \A i \in DOMAIN y : i = Len(x) + 1 \/ i \in DOMAIN x BY <1>1, <1>2
<1>4. \A i \in DOMAIN x : y[i] = x[i] /\ x[i].identifier # d.identifier
                          /\ x[i].identifier \notin TypeNamesOf(r)
  BY <1>1, <1>2 DEF IdsAt, Introduces
<1>5. \A i, j \in DOMAIN x : x[i].identifier = x[j].identifier => i = j
  BY DEF Introduces
<1> DEFINE n == Len(x) + 1
           X == DOMAIN x
           Y == DOMAIN y
<1>6. /\ y[n] = d /\ \A i \in Y : i = n \/ i \in X
  BY <1>2, <1>3
<1> HIDE DEF n, X, Y
<1>7. \A i \in Y : y[i].identifier \notin TypeNamesOf(r) BY <1>4, <1>6 DEF X
<1>8. \A i, j \in Y : y[i].identifier = y[j].identifier => i = j
  BY <1>4, <1>5, <1>6 DEF X
<1>9. QED BY <1>7, <1>8 DEF Introduces, Y

(* The declarator as the declaration or the struct gets it.                *)
LEMMA EndedSays ==
  ASSUME NEW s, NEW p, Ready(s, p), Len(p) >= 1, p[Len(p)].at = "dtor",
         p[Len(p) - 1].at # "pdecl"
  PROVE  LET f == p[Len(p)]
             u == p[Len(p) - 1]
             e == EndedDeclarator(s)
         IN  /\ DOMAIN e = DtorFields /\ DtorTyped(s, e) /\ e.identifier = f.name
             /\ e.bits = CurDtor(s).bits
             /\ Exact => /\ e.type # 0
                         /\ Meaning(f) = IF u.at = "sdecl" THEN MemberText(s, e.type, e.bits)
                                         ELSE s.text[e.type].term
<1> DEFINE f == p[Len(p)]
           u == p[Len(p) - 1]
           d == CurDtor(s)
           e == EndedDeclarator(s)
<1>1. Tied(s, p) /\ Held(s) BY ReadyFacts
<1>2. /\ DtorSays(s, f, u, d) /\ DtorTyped(s, d) /\ Len(s.dtors) >= 1
      /\ d.declaration = Len(s.decls) /\ Len(s.decls) >= 1 /\ Len(s.decls) \in Nat
  BY <1>1, DtorFacts
<1>3. d.declaration \in 1..Len(s.decls) BY <1>2
<1>4. /\ DOMAIN e = DtorFields /\ DtorTyped(s, e) /\ e.identifier = d.identifier
      /\ e.bits = d.bits /\ (d.type # 0 => e.type = d.type)
  BY <1>1, <1>2, <1>3, EndedDeclaratorStep
<1> HIDE DEF f, u, d, e
<1>5. d.identifier = f.name BY <1>2 DEF DtorSays, u
<1>6. Exact => /\ e.type # 0
               /\ Meaning(f) = IF u.at = "sdecl" THEN MemberText(s, e.type, e.bits)
                               ELSE s.text[e.type].term
  <2>1. SUFFICES ASSUME Exact
                 PROVE  /\ e.type # 0
                        /\ Meaning(f) = IF u.at = "sdecl" THEN MemberText(s, e.type, e.bits)
                                        ELSE s.text[e.type].term
    OBVIOUS
  <2>2. d.type # 0 BY <1>2, <2>1 DEF DtorTyped, Typ, Exact
  <2>3. f.inner = 0 /\ f.type = IF u.at = "sdecl" THEN MemberText(s, d.type, d.bits)
                                ELSE s.text[d.type].term
    BY <1>2, <2>1 DEF DtorSays
  <2>4. Meaning(f) = f.type BY <2>3, PlainMeaning
  <2>5. QED BY <1>4, <2>2, <2>3, <2>4
<1>7. QED BY <1>4, <1>5, <1>6 DEF f, u, d, e

(* A declarator of a declaration.                                          *)
LEMMA DeclaratorAdded ==
  ASSUME NEW s, NEW p, Ready(s, p), Len(p) >= 1, p[Len(p)].at = "dtor",
         p[Len(p) - 1].at = "decl", Named(p[Len(p)])
  PROVE  LET f == p[Len(p)]
             u == p[Len(p) - 1]
             r == Counted(Front(p))
             x == Declares(KindOf(u.storage), f.name, Meaning(f))
         IN  Sound(AddDeclarator(DeclaratorEnd(s), EndedDeclarator(s)),
                   SetTop(r, [Last(r) EXCEPT !.declares = @ \cup {x}]), {})
<1> DEFINE f == p[Len(p)]
           u == p[Len(p) - 1]
           q == Front(p)
           r == Counted(q)
           x == Declares(KindOf(u.storage), f.name, Meaning(f))
           m == DeclaratorEnd(s)
           e == EndedDeclarator(s)
           k == AddDeclarator(m, e)
           w == [u EXCEPT !.n = @ + 1]
           g == [w EXCEPT !.declares = @ \cup {x}]
           n == Len(s.decls)
<1>1. s.constant_id <= MaxConstants /\ s.rt.halt = "no" /\ Tied(s, p) BY ReadyFacts
<1>2. /\ Tied(m, q) /\ Held(m) /\ Same(s, m) /\ m.decls = s.decls
      /\ m.said = {} /\ m.rt = s.rt /\ m.text = s.text /\ m.constant_id = s.constant_id
      /\ Len(q) >= 1 /\ Len(q) \in Nat /\ IsSeq(q) /\ q[Len(q)] = u /\ u.phase = "dtors"
  BY DeclaratorEnds
<1>3. /\ DtorTyped(s, e) /\ e.identifier = f.name
      /\ Exact => e.type # 0 /\ Meaning(f) = s.text[e.type].term
  BY EndedSays
<1>4. DtorSays(s, f, u, CurDtor(s)) BY <1>1, DtorFacts
<1> HIDE DEF m, e, q, f
<1>5. u.storage = "typedef" => f.name \notin NamesIn(u.declares)
                               /\ f.name \notin TypeNamesOf(s.rt)
  BY <1>4 DEF DtorSays, f
<1> HIDE DEF u, k, x
<1>6. u.at = "decl" /\ DOMAIN u = FrameFields /\ FrameOK(m, u) /\ DeclSays(m, u, CurDecl(m))
  BY <1>2, TiedFacts DEF FrameSays, u
<1>7. Len(m.decls) >= 1 /\ Len(m.decls) \in Nat /\ CurDecl(m) = m.decls[Len(m.decls)]
  BY <1>2, <1>6, TiedFacts DEF DeclaresAt, One, CurDecl, Last
<1>8. Tied(m, r) /\ r = SetTop(q, w) BY <1>2, <1>6, CountedTied
<1>9. /\ IsSeq(r) /\ Len(r) = Len(q) /\ r[Len(r)] = w
      /\ Last(r) = w
  BY <1>2, <1>8, TopMade DEF Last
<1>10. /\ DOMAIN w = FrameFields /\ w.at = "decl" /\ DOMAIN g = FrameFields /\ g.at = "decl"
       /\ g.n = u.n + 1 /\ g.params = u.params /\ g.storage = u.storage
       /\ g.declares = u.declares \cup {x} /\ g.phase = u.phase /\ g.type = u.type
  BY <1>6 DEF FrameFields
<1> HIDE DEF w, g, r
<1>11. DtorTyped(m, e) BY <1>2, <1>3 DEF DtorTyped, Typ, Good, Writable, Same
<1>12. /\ Held(k) /\ Same(m, k) /\ k.dtors = m.dtors /\ BelowSame(m.decls, k.decls)
       /\ k.decls[n].type = m.decls[n].type /\ k.decls[n].storage = m.decls[n].storage
       /\ IsSeq(m.decls[n].declarators)
       /\ Pushed(m.decls[n].declarators, k.decls[n].declarators, e)
  BY <1>2, <1>7, <1>11, AddDeclaratorStep DEF k
<1>13. /\ Mild(m, k) /\ k.rt = m.rt /\ k.text = m.text /\ k.said = m.said
       /\ k.constant_id = m.constant_id /\ TypesOK(k) /\ Grows(m, k)
  BY <1>2, <1>12, SameMild
<1>14. CurDecl(m) = m.decls[n] /\ CurDecl(k) = k.decls[n]
  <2>1. Len(k.decls) = n BY <1>2, <1>12 DEF BelowSame
  <2>2. QED BY <1>2, <1>7, <2>1 DEF CurDecl, Last
<1> DEFINE a == m.decls[n].declarators
           b == k.decls[n].declarators
<1>15. IsSeq(b)
  <2>1. Shaped(k) /\ Len(k.decls) = n /\ n \in 1..n
    BY <1>2, <1>7, <1>12 DEF Held, BelowSame
  <2>2. QED BY <2>1 DEF Shaped
<1>16. FrameOK(k, g)
  <2>1. u.n \in Nat /\ ParamsTyped(m, u) /\ Few(u, CurDecl(m)) BY <1>6 DEF FrameOK
  <2>2. ParamsTyped(k, u) BY <1>2, <1>13, <2>1, ParamsGrow DEF Held
  <2>3. ParamsTyped(k, g) BY <1>10, <2>2 DEF ParamsTyped
  <2>4. Len(a) <= u.n BY <1>6, <1>14, <2>1 DEF Few
  <2>5. Len(b) = Len(a) + 1 /\ Len(a) \in Nat BY <1>12, SeqFacts DEF Pushed
  <2>6. Len(b) <= g.n BY <1>10, <2>1, <2>4, <2>5
  <2>7. Few(g, CurDecl(k)) BY <1>10, <1>14, <2>6 DEF Few
  <2>8. QED BY <1>10, <2>1, <2>3, <2>7 DEF FrameOK
<1>17. DeclSays(k, g, CurDecl(k))
  <2>1. /\ m.decls[n].storage = u.storage
        /\ NamesIn(u.declares) = IdsAt(a, DOMAIN a)
        /\ u.storage = "typedef" => Introduces(m.rt, a)
        /\ Exact => u.declares = DeclarationsAt(m, a, DOMAIN a, u.storage)
        /\ Exact => m.text[m.decls[n].type].term = u.type
    BY <1>2, <1>6, <1>14 DEF DeclSays
  <2>2. /\ IdsAt(b, DOMAIN b) = IdsAt(a, DOMAIN a) \cup {e.identifier}
        /\ \A z, storage :
              DeclarationsAt(z, b, DOMAIN b, storage) =
                DeclarationsAt(z, a, DOMAIN a, storage) \cup
                  {Declares(KindOf(storage), e.identifier, z.text[e.type].term)}
    BY <1>12, <1>15, IdsMore
  <2>3. x.name = f.name BY DEF x, Declares
  <2>4. NamesIn(g.declares) = NamesIn(u.declares) \cup {f.name} BY <1>10, <2>3, NamesMore
  <2>5. NamesIn(g.declares) = IdsAt(b, DOMAIN b) BY <1>3, <2>1, <2>2, <2>4
  <2>6. g.storage = "typedef" => Introduces(k.rt, b)
    <3>1. SUFFICES ASSUME g.storage = "typedef" PROVE Introduces(k.rt, b) OBVIOUS
    <3>2. /\ Introduces(m.rt, a) /\ e.identifier \notin TypeNamesOf(m.rt)
          /\ e.identifier \notin IdsAt(a, DOMAIN a)
      BY <1>2, <1>3, <1>5, <1>10, <2>1, <3>1
    <3>3. Introduces(m.rt, b) BY <1>12, <1>15, <3>2, IntroducesMore
    <3>4. QED BY <1>13, <3>3
  <2>7. Exact => g.declares = DeclarationsAt(k, b, DOMAIN b, g.storage)
    <3>1. SUFFICES ASSUME Exact
                   PROVE  g.declares = DeclarationsAt(k, b, DOMAIN b, g.storage)
      OBVIOUS
    <3>2. x = Declares(KindOf(u.storage), e.identifier, m.text[e.type].term)
      BY <1>2, <1>3, <3>1 DEF x
    <3>3. DeclarationsAt(k, b, DOMAIN b, u.storage) = DeclarationsAt(m, b, DOMAIN b, u.storage)
      BY <1>13 DEF DeclarationsAt
    <3>4. DeclarationsAt(m, b, DOMAIN b, u.storage) =
            DeclarationsAt(m, a, DOMAIN a, u.storage) \cup
              {Declares(KindOf(u.storage), e.identifier, m.text[e.type].term)}
      BY <2>2
    <3>5. u.declares = DeclarationsAt(m, a, DOMAIN a, u.storage) BY <2>1, <3>1
    <3>6. QED BY <1>10, <3>2, <3>3, <3>4, <3>5
  <2>8. Exact => k.text[k.decls[n].type].term = g.type
    BY <1>10, <1>12, <1>13, <2>1
  <2>9. k.decls[n].storage = g.storage BY <1>10, <1>12, <2>1
  <2>10. g.phase # "specs" BY <1>2, <1>10
  <2> HIDE DEF a, b
  <2>11. DeclSays(k, g, k.decls[n])
    BY <1>10, <2>5, <2>6, <2>7, <2>8, <2>9, <2>10 DEF DeclSays, b
  <2>12. QED BY <1>14, <2>11
<1> HIDE DEF a, b, n
<1>18. Tied(k, SetTop(r, g))
  <2>1. StackInv(m, r) /\ Plainly(m) BY <1>8, TiedFacts
  <2>2. Keeps(m, k)
    <3>1. Shaped(m) BY <1>2 DEF Held
    <3>2. QED BY <3>1, AddDeclaratorKeeps DEF k
  <2>3. StackInv(k, SetTop(r, g)) BY <1>2, <1>9, <1>10, <2>1, <2>2, TopChanged
  <2>4. TopMoved(m, r, k) BY <1>9, <1>10, <1>12 DEF TopMoved, DeclaresAt
  <2>5. SameFrame(r[Len(r)], g) BY <1>9, <1>10 DEF SameFrame
  <2>6. Plainly(k) BY <1>12, <2>1 DEF Plainly
  <2>7. FrameSays(k, g, r[Len(r) - 1]) BY <1>10, <1>17 DEF FrameSays
  <2>8. Len(r) >= 1 BY <1>2, <1>9
  <2>9. QED BY <1>8, <1>13, <1>16, <2>3, <2>4, <2>5, <2>6, <2>7, <2>8, TopTied
<1>19. TopPrim(k, SetTop(r, g)) BY <1>2, <1>9, <1>10, NoDeclarator
<1>20. Sound(k, SetTop(r, g), {}) BY <1>1, <1>2, <1>13, <1>18, <1>19, SoundQuiet
<1>21. [Last(r) EXCEPT !.declares = @ \cup {x}] = g BY <1>9 DEF g
<1>22. Sound(k, SetTop(r, [Last(r) EXCEPT !.declares = @ \cup {x}]), {}) BY <1>20, <1>21
<1>23. QED BY <1>22 DEF k, m, e, r, q, x, u, f

(* The struct that a member is declared in.                                *)
LEMMA StructHere ==
  ASSUME NEW s, NEW p, Tied(s, p), Len(p) >= 1, p[Len(p)].at = "sdecl"
  PROVE  /\ s.current_struct \in 1..s.rt.next - 1
         /\ s.rt.heap[s.current_struct].kind \in StructKinds
         /\ s.emit # 0 => s.text[s.current_struct].term \in s.begun
<1> DEFINE n == Len(p)
<1>1. /\ n \in Nat /\ Wired(s, p)
      /\ MayLie(p[n].at, IF n = 1 THEN "none" ELSE p[n - 1].at)
  BY TiedFacts
<1>2. n # 1 /\ p[n - 1].at = "struct" BY <1>1 DEF MayLie
<1>3. n \in 1..n /\ n - 1 \in 1..n
  <2>1. n \in Nat /\ n >= 1 /\ n # 1 BY <1>1, <1>2
  <2> HIDE DEF n
  <2>2. QED BY <2>1
<1>4. PICK o : Chain(s, p, o) BY <1>1 DEF Wired
<1>5. s.current_struct = o[n] /\ o[n] = o[n - 1] BY <1>3, <1>4 DEF Chain
<1>6. StructAt(s, o[n - 1], p[n - 1], o[n - 1 - 1]) BY <1>2, <1>3, <1>4 DEF Chain
<1>7. QED BY <1>5, <1>6 DEF StructAt

LEMMA MemberAdded ==
  ASSUME NEW s, NEW p, Ready(s, p), Len(p) >= 1, p[Len(p)].at = "dtor",
         p[Len(p) - 1].at = "sdecl", Named(p[Len(p)]),
         s.constant_id + 3 <= MaxConstants,
         CurDtor(s).bits = Literal(0) \/ Room(s.rt, 1)
  PROVE  Sound(StructElemDecl(DeclaratorEnd(s), EndedDeclarator(s)), Counted(Front(p)),
               IF s.emit = 0 THEN {}
               ELSE {Declares("element", p[Len(p)].name, Meaning(p[Len(p)]))})
<1> DEFINE f == p[Len(p)]
           u == p[Len(p) - 1]
           q == Front(p)
           r == Counted(q)
           m == DeclaratorEnd(s)
           e == EndedDeclarator(s)
           k == StructElemDecl(m, e)
           forms == IF s.emit = 0 THEN {} ELSE {Declares("element", f.name, Meaning(f))}
<1>1. s.constant_id <= MaxConstants /\ s.rt.halt = "no" /\ Tied(s, p) /\ TypesOK(s)
  BY ReadyFacts
<1>2. /\ Tied(m, q) /\ Held(m) /\ Same(s, m) /\ m.said = {} /\ m.rt = s.rt
      /\ m.text = s.text /\ m.constant_id = s.constant_id /\ m.emit = s.emit
      /\ Len(q) >= 1 /\ Len(q) \in Nat /\ IsSeq(q) /\ q[Len(q)] = u
  BY DeclaratorEnds
<1>3. /\ DOMAIN e = DtorFields /\ DtorTyped(s, e) /\ e.identifier = f.name
      /\ e.bits = CurDtor(s).bits
      /\ Exact => e.type # 0 /\ Meaning(f) = MemberText(s, e.type, e.bits)
  BY EndedSays
<1>4. DtorSays(s, f, u, CurDtor(s)) BY <1>1, DtorFacts
<1>5. Resolved => f.name # NoName BY <1>4 DEF DtorSays
<1> HIDE DEF m, e, q, f, u, k
<1>6. /\ Tied(m, r) /\ TopPrim(m, r)
  BY <1>2, ElementCounted DEF u
<1>7. /\ m.current_struct \in 1..m.rt.next - 1
      /\ m.rt.heap[m.current_struct].kind \in StructKinds
      /\ m.emit # 0 => m.text[m.current_struct].term \in m.begun
  BY <1>2, StructHere DEF u
<1>8. DtorTyped(m, e) BY <1>2, <1>3 DEF DtorTyped, Typ, Good, Writable, Same
<1>9. Typ(m, e.type) /\ TypesOK(m) BY <1>2, <1>8 DEF DtorTyped, Held
<1>10. /\ Follows(m, k) /\ SameTypeNames(m.rt, k.rt)
       /\ Says(m, k, {"sizeof", "element"})
       /\ k.constant_id <= m.constant_id + 3
       /\ e.identifier # NoName => k.rt.halt = m.rt.halt
       /\ e.identifier # NoName /\ e.type # 0 =>
            DeclaredBy(k.said) =
              DeclaredBy(m.said) \cup
                (IF m.emit = 0 THEN {}
                 ELSE {Declares("element", e.identifier, MemberText(m, e.type, e.bits))})
  <2>1. e.bits = Literal(0) \/ Room(m.rt, 1) BY <1>2, <1>3
  <2>2. m.emit # 0 /\ Declared => m.text[m.current_struct].term \in m.begun BY <1>7
  <2>3. QED BY <1>3, <1>7, <1>9, <2>1, <2>2, StructElemDeclStep DEF k
<1>11. Held(k) /\ Mild(m, k) /\ SameStacks(m, k)
  <2>1. Held(k) BY <1>2, <1>10, HeldFollows
  <2>2. QED BY <1>10, <2>1 DEF Follows, Mild, Onward
<1> HIDE DEF r
<1>12. StackInv(m, r) /\ DOMAIN m = Fields BY <1>6, TiedFacts
<1>13. StackInv(k, r)
  <2>1. Shaped(m) /\ Shaped(k) /\ k.emit = m.emit
    BY <1>2, <1>10, <1>11 DEF Held, Follows, Grows
  <2>2. DOMAIN k = Fields /\ k.decls = m.decls /\ k.dtors = m.dtors
    BY <1>11, <2>1 DEF Shaped, SameStacks
  <2>3. Untouched(m, k) BY <2>1, <2>2 DEF Untouched
  <2>4. Keeps(m, k) BY <2>1, <2>3, UntouchedKeeps
  <2>5. Nests(r) /\ SameAts(r, r, Len(r)) BY <1>12 DEF StackInv, SameAts
  <2>6. QED BY <1>12, <2>4, <2>5, MirrorsStay
<1>14. Tied(k, r) BY <1>6, <1>11, <1>13, StillTied
<1>15. TopPrim(k, r)
  <2>1. Len(r) >= 1 => r[Len(r)].at # "dtor"
    <3> DEFINE w == [u EXCEPT !.n = @ + 1]
    <3>1. r = SetTop(q, w) BY <1>2, CountedTied DEF r, u
    <3>2. DOMAIN u = FrameFields BY <1>2, TiedFacts
    <3>3. w.at = u.at BY <3>2 DEF FrameFields
    <3> HIDE DEF w
    <3>4. Len(SetTop(q, w)) = Len(q) /\ SetTop(q, w)[Len(q)] = w BY <1>2, TopMade
    <3>5. r[Len(r)] = w BY <3>1, <3>4
    <3>6. QED BY <3>3, <3>5 DEF u
  <2>2. QED BY <2>1 DEF TopPrim
<1>16. k.constant_id <= MaxConstants
  <2>1. k.constant_id <= s.constant_id + 3 BY <1>2, <1>10
  <2>2. s.constant_id \in Nat /\ k.constant_id \in Nat /\ MaxConstants \in Nat
    BY <1>1, <1>11, CompilerAssumption DEF TypesOK, ConstsOK, Held
  <2>3. QED BY <2>1, <2>2
<1>17. Resolved => k.rt.halt = "no" BY <1>1, <1>2, <1>3, <1>5, <1>10
<1>18. Exact => forms = DeclaredBy(k.said)
  <2>1. SUFFICES ASSUME Exact PROVE forms = DeclaredBy(k.said) OBVIOUS
  <2>2. e.identifier # NoName /\ e.type # 0 BY <1>3, <1>5, <2>1 DEF Exact
  <2>3. MemberText(m, e.type, e.bits) = MemberText(s, e.type, e.bits)
    BY <1>2 DEF MemberText
  <2>4. DeclaredBy(m.said) = {} BY <1>2, NoneDeclared
  <2>5. QED BY <1>2, <1>3, <1>10, <2>1, <2>2, <2>3, <2>4
<1>19. Sound(k, r, forms) BY <1>14, <1>15, <1>16, <1>17, <1>18 DEF Sound
<1>20. QED BY <1>19 DEF k, m, e, r, q, f

LEMMA DefinitionNamed ==
  ASSUME NEW s, NEW p, Ready(s, p), Len(p) >= 1, p[Len(p)].at = "dtor",
         p[Len(p) - 1].at = "fdef"
  PROVE  Sound(DeclaratorEnd(s), Counted(Front(p)), {})
<1> DEFINE q == Front(p)
           m == DeclaratorEnd(s)
<1>1. s.constant_id <= MaxConstants /\ s.rt.halt = "no" BY ReadyFacts
<1>2. /\ Tied(m, q) /\ m.said = {} /\ m.rt = s.rt /\ m.constant_id = s.constant_id
      /\ Len(q) >= 1 /\ q[Len(q)] = p[Len(p) - 1]
  BY DeclaratorEnds
<1> HIDE DEF m, q
<1>3. Tied(m, Counted(q)) /\ TopPrim(m, Counted(q)) BY <1>2, ElementCounted
<1>4. Sound(m, Counted(q), {}) BY <1>1, <1>2, <1>3, SoundQuiet
<1>5. QED BY <1>4 DEF m, q

LEMMA DeclaratorStopSound ==
  ASSUME Sound(c, parse, meant), DeclaratorStop
  PROVE  Sound(c', parse', meant')
<1> DEFINE d == EndedDeclarator(c)
           s == DeclaratorEnd(Quiet)
           kind == IF Under.storage = "typedef" THEN "typedef" ELSE "global"
           r == Counted(Pop)
<1>1. Running BY DEF DeclaratorStop, Reduce
<1>2. /\ Ready(Quiet, parse) /\ Quiet.rt = c.rt /\ Quiet.dtors = c.dtors
      /\ Quiet.decls = c.decls /\ Quiet.emit = c.emit /\ Quiet.constant_id = c.constant_id
      /\ CurDtor(Quiet) = CurDtor(c)
  BY <1>1, QuietReady
<1>3. /\ At({"dtor"}) /\ Top.phase \in {"suffix", "done"}
      /\ UnderAt({"sdecl"}) => Constants(3)
      /\ CurDtor(c).bits = Literal(0) \/ Space(1)
  BY DEF DeclaratorStop
<1>4. /\ Len(parse) >= 1 /\ Top = parse[Len(parse)] /\ Top.at = "dtor"
      /\ Under = parse[Len(parse) - 1]
  BY <1>3, AtFacts DEF Under
<1>5. Named(Top) BY <1>3 DEF Named
<1>6. d = EndedDeclarator(Quiet) BY <1>2 DEF EndedDeclarator, CurDtor
<1>7. Pop = Front(parse) BY DEF Pop
<1>8. \/ /\ UnderAt({"decl"}) /\ c' = AddDeclarator(s, d) /\ meant' = {}
         /\ parse' = SetTop(r, [Last(r) EXCEPT !.declares =
                                  @ \cup {Declares(kind, Top.name, Meaning(Top))}])
      \/ /\ UnderAt({"sdecl"}) /\ c' = StructElemDecl(s, d) /\ parse' = r
         /\ meant' = IF InBody THEN {}
                     ELSE {Declares("element", Top.name, Meaning(Top))}
      \/ /\ UnderAt({"fdef"}) /\ c' = s /\ parse' = r /\ meant' = {}
  BY DEF DeclaratorStop, Reduce
<1> HIDE DEF s, d, r
<1>9. CASE /\ UnderAt({"decl"}) /\ c' = AddDeclarator(s, d) /\ meant' = {}
           /\ parse' = SetTop(r, [Last(r) EXCEPT !.declares =
                                    @ \cup {Declares(kind, Top.name, Meaning(Top))}])
  <2>1. Under.at = "decl" BY <1>9, AtFacts
  <2>2. kind = KindOf(Under.storage) BY DEF KindOf
  <2> HIDE DEF kind
  <2>3. Sound(AddDeclarator(s, d),
              SetTop(r, [Last(r) EXCEPT !.declares =
                           @ \cup {Declares(kind, Top.name, Meaning(Top))}]), {})
    BY <1>2, <1>4, <1>5, <1>6, <1>7, <2>1, <2>2, DeclaratorAdded DEF s, r
  <2>4. QED BY <1>9, <2>3
<1>10. CASE /\ UnderAt({"sdecl"}) /\ c' = StructElemDecl(s, d) /\ parse' = r
            /\ meant' = IF InBody THEN {}
                        ELSE {Declares("element", Top.name, Meaning(Top))}
  <2>1. Under.at = "sdecl" BY <1>10, AtFacts
  <2>2. Quiet.constant_id + 3 <= MaxConstants BY <1>2, <1>3, <1>10 DEF Constants
  <2>3. CurDtor(Quiet).bits = Literal(0) \/ Room(Quiet.rt, 1) BY <1>2, <1>3 DEF Space
  <2>4. Sound(StructElemDecl(s, d), r,
              IF Quiet.emit = 0 THEN {} ELSE {Declares("element", Top.name, Meaning(Top))})
    BY <1>2, <1>4, <1>5, <1>6, <1>7, <2>1, <2>2, <2>3, MemberAdded DEF s, r
  <2>5. Quiet.emit = 0 <=> InBody
    <3>1. Tied(Quiet, parse) BY <1>2, ReadyFacts
    <3>2. QED BY <3>1, BodiesQuiet DEF InBody
  <2>6. QED BY <1>10, <2>4, <2>5
<1>11. CASE UnderAt({"fdef"}) /\ c' = s /\ parse' = r /\ meant' = {}
  <2>1. Under.at = "fdef" BY <1>11, AtFacts
  <2>2. Sound(s, r, {}) BY <1>2, <1>4, <1>7, <2>1, DefinitionNamed DEF s, r
  <2>3. QED BY <1>11, <2>2
<1>12. QED BY <1>8, <1>9, <1>10, <1>11

(* A function definition and its body say nothing of the typedef names.    *)
LEMMA QuietSaysKept ==
  ASSUME NEW s, NEW p, Wired(s, p), NEW k, Onward(s, k),
         NEW q, NEW n \in Nat, Kept(s, p, k, q, n), n <= Len(p),
         NEW i \in 1..n, p[i].at \in {"fdef", "body"}, PositionSays(s, p, i)
  PROVE  PositionSays(k, q, i)
<1>1. TypesOK(s) /\ TypesOK(k) /\ Grows(s, k) /\ StackInv(s, p) /\ Len(p) \in Nat /\ Held(s)
  BY WiredFacts DEF Onward, Held
<1>2. i \in 1..Len(p) BY <1>1
<1>3. q[i] = p[i] BY DEF Kept
<1>4. CASE p[i].at = "body"
  <2>1. ~ DeclaresAt(q, i) BY <1>3, <1>4 DEF DeclaresAt
  <2>2. QED BY <1>3, <1>4, <2>1 DEF PositionSays
<1>5. CASE p[i].at = "fdef"
  <2> DEFINE d == s.decls[NDecl(p, i)]
  <2>1. DeclaresAt(p, i) BY <1>5 DEF DeclaresAt
  <2>2. k.decls[NDecl(q, i)] = d BY <2>1 DEF Kept
  <2>3. NDecl(p, i) \in 1..Len(s.decls) BY <1>1, <1>2, <2>1, Positions
  <2>4. DeclTyped(s, d) BY <1>1, <2>3 DEF Held, StacksTyped
  <2>5. Typ(s, d.type) BY <2>4 DEF DeclTyped, Prim
  <2>6. Exact => k.text[d.type].term = s.text[d.type].term BY <1>1, <2>5, TypGrows
  <2>7. DeclSays(s, p[i], d) BY <2>1 DEF PositionSays
  <2> HIDE DEF d
  <2>8. DeclSays(k, q[i], d) BY <1>3, <1>5, <2>6, <2>7 DEF DeclSays
  <2>9. QED BY <1>3, <1>5, <2>2, <2>8 DEF PositionSays
<1>6. QED BY <1>4, <1>5

(* The declarators of a declaration are written.                           *)
LEMMA DeclarationEnds ==
  ASSUME NEW s, NEW p, Ready(s, p), Len(p) >= 1, p[Len(p)].at = "decl",
         p[Len(p)].phase = "dtors", Room(s.rt, p[Len(p)].n)
  PROVE  Sound(EmitDeclaration(s), Counted(Front(p)),
               IF s.emit = 0 THEN {} ELSE p[Len(p)].declares)
<1> DEFINE f == p[Len(p)]
           q == Front(p)
           k == EmitDeclaration(s)
           x == CurDecl(s).declarators
           storage == CurDecl(s).storage
<1>1. /\ Tied(s, p) /\ StackInv(s, p) /\ Held(s) /\ Len(p) \in Nat /\ Plainly(s)
      /\ s.constant_id <= MaxConstants /\ s.rt.halt = "no" /\ s.said = {} /\ IsSeq(p)
      /\ Shaped(s) /\ TypesOK(s)
  BY ReadyFacts
<1>2. /\ Len(s.decls) >= 1 /\ Len(s.decls) \in Nat /\ Len(s.dtors) \in Nat
      /\ FrameOK(s, f) /\ FrameSays(s, f, p[Len(p) - 1]) /\ Wired(s, p) /\ Places(p)
      /\ Told(s, p) /\ RegOK(s.rt)
      /\ MayLie(f.at, IF Len(p) = 1 THEN "none" ELSE p[Len(p) - 1].at)
  BY <1>1, TiedFacts DEF DeclaresAt, One, Tied
<1>3. /\ storage = f.storage
      /\ Exact => f.declares = DeclarationsAt(s, x, DOMAIN x, f.storage)
      /\ f.storage = "typedef" => Introduces(s.rt, x)
  BY <1>2 DEF FrameSays, DeclSays
<1>4. CurDecl(s) = s.decls[Len(s.decls)] BY DEF CurDecl, Last
<1>5. IsSeq(x) /\ \A j \in DOMAIN x : DtorTyped(s, x[j])
  <2>1. Len(s.decls) \in 1..Len(s.decls) BY <1>2
  <2>2. IsSeq(x) BY <1>1, <1>4, <2>1 DEF Shaped
  <2>3. DeclTyped(s, CurDecl(s)) BY <1>1, <1>4, <2>1 DEF Held, StacksTyped
  <2>4. QED BY <2>2, <2>3 DEF DeclTyped
<1>6. Room(s.rt, Len(x))
  <2>1. Len(x) <= f.n /\ f.n \in Nat BY <1>2 DEF FrameOK, Few
  <2>2. Len(x) \in Nat BY <1>5, SeqFacts
  <2>3. s.rt.next \in Nat /\ MaxObjs \in Nat BY <1>2, Ranges
  <2> HIDE DEF x, f
  <2>4. Room(s.rt, f.n) BY DEF f
  <2>5. QED BY <2>1, <2>2, <2>3, <2>4 DEF Room
<1>7. /\ Held(k) /\ Grows(s, k) /\ Beside(s, k) /\ k.constant_id = s.constant_id
      /\ k.dtors = s.dtors /\ Popped(s.decls, k.decls)
      /\ Introducible(s, x, storage) => AllWritten(s, k, x, DOMAIN x, storage)
  BY <1>1, <1>2, <1>6, EmitDeclarationStep
<1>8. StackInv(k, q) /\ Len(q) = Len(p) - 1 /\ \A i \in 1..Len(q) : q[i] = p[i]
  BY <1>1, DeclarationClosed
<1>9. IsSeq(q) BY <1>1, Fronted
<1> HIDE DEF k, q, x, storage
<1>10. Resolved => Introducible(s, x, storage)
  <2>1. Resolved => \A j \in DOMAIN x : x[j].type # 0 BY <1>5 DEF DtorTyped, Typ
  <2>2. storage = "typedef" => Introduces(s.rt, x) BY <1>3
  <2> HIDE DEF f
  <2>3. QED BY <1>1, <2>1, <2>2 DEF Introducible, Introduces
<1>11. Onward(s, k) BY <1>7 DEF Onward
<1>12. EndsMoved(s, k) BY <1>2, <1>7, PoppedEnds
<1>13. Wired(k, q) /\ Kept(s, p, k, q, Len(p) - 1)
  BY <1>2, <1>7, <1>8, <1>11, <1>12, PoppedWired DEF q
<1>14. \A i \in 1..Len(q) : p[i].at \in {"fdef", "body"}
  <2> DEFINE n == Len(p)
  <2>1. n = 1 \/ p[n - 1].at = "body"
    <3>1. MayLie("decl", IF n = 1 THEN "none" ELSE p[n - 1].at) BY <1>2
    <3>2. n # 1 => p[n - 1].at # "none"
      <4>1. SUFFICES ASSUME n # 1 PROVE p[n - 1].at # "none" OBVIOUS
      <4>2. n \in Nat /\ n >= 1 BY <1>1
      <4> HIDE DEF n
      <4>3. n - 1 \in 1..n BY <4>1, <4>2
      <4> USE DEF n
      <4>4. PlaceOK(p, n - 1) BY <1>2, <4>3 DEF Places
      <4> HIDE DEF n
      <4>5. QED BY <4>4 DEF PlaceOK, MayLie
    <3> HIDE DEF n
    <3>3. QED BY <3>1, <3>2 DEF MayLie
  <2>2. CASE n = 1 BY <1>8, <2>2
  <2>3. CASE n # 1
    <3>1. n \in Nat /\ n >= 1 /\ p[n - 1].at = "body" /\ Len(q) = n - 1
      BY <1>1, <1>8, <2>1, <2>3
    <3>2. \A i \in 1..n : PlaceOK(p, i) BY <1>2 DEF Places
    <3> HIDE DEF n
    <3>3. n - 1 \in 1..n BY <2>3, <3>1
    <3>4. n - 1 # 1 /\ p[n - 1 - 1].at = "fdef" BY <3>1, <3>2, <3>3 DEF PlaceOK, MayLie
    <3>5. n - 2 \in 1..n /\ n - 1 - 1 = n - 2 BY <2>3, <3>1, <3>4
    <3>6. n - 2 = 1
      <4>1. PlaceOK(p, n - 2) /\ p[n - 2].at = "fdef" BY <3>2, <3>4, <3>5
      <4> DEFINE b == IF n - 2 = 1 THEN "none" ELSE p[n - 2 - 1].at
      <4>2. MayLie("fdef", b) BY <4>1 DEF PlaceOK
      <4> HIDE DEF b
      <4>3. b = "none" BY <4>2 DEF MayLie
      <4>4. ASSUME n - 2 # 1 PROVE FALSE
        <5>1. p[n - 2 - 1].at = "none" BY <4>3, <4>4 DEF b
        <5>2. n - 2 - 1 \in 1..n BY <3>1, <3>5, <4>4
        <5>3. PlaceOK(p, n - 2 - 1) BY <3>2, <5>2
        <5>4. QED BY <5>1, <5>3 DEF PlaceOK, MayLie
      <4>5. QED BY <4>4
    <3>7. Len(q) = 2 /\ p[1].at = "fdef" /\ p[2].at = "body"
      BY <3>1, <3>4, <3>5, <3>6
    <3>8. QED BY <3>7
  <2>4. QED BY <2>2, <2>3
<1>15. Tied(k, q)
  <2>1. \A i \in 1..Len(q) : PositionSays(k, q, i)
    <3> TAKE i \in 1..Len(q)
    <3>1. Len(p) - 1 \in Nat /\ Len(p) - 1 <= Len(p) /\ i \in 1..Len(p) - 1 /\ i \in 1..Len(p)
      BY <1>1, <1>8
    <3>2. PositionSays(s, p, i) BY <1>2, <3>1 DEF Told
    <3>3. QED BY <1>2, <1>11, <1>13, <1>14, <3>1, <3>2, QuietSaysKept
  <2>2. Plainly(k) BY <1>1, <1>2, <1>7, PlainlyCut
  <2>3. QED BY <1>13, <2>1, <2>2 DEF Tied, Told
<1>16. Len(q) >= 1 => q[Len(q)].at \notin {"enum", "dtor"}
  <2>1. Len(q) >= 1 => Len(q) \in 1..Len(q) BY <1>9, SeqFacts
  <2>2. QED BY <1>8, <1>14, <2>1
<1>17. Tied(k, Counted(q)) /\ TopPrim(k, Counted(q)) BY <1>15, <1>16, ElementCounted
<1>18. Exact => (IF s.emit = 0 THEN {} ELSE f.declares) = DeclaredBy(k.said)
  <2>1. SUFFICES ASSUME Exact
                 PROVE  (IF s.emit = 0 THEN {} ELSE f.declares) = DeclaredBy(k.said)
    OBVIOUS
  <2>2. AllWritten(s, k, x, DOMAIN x, storage) BY <1>7, <1>10, <2>1 DEF Exact
  <2>3. DeclaredBy(k.said) =
          DeclaredBy(s.said) \cup
            (IF s.emit = 0 THEN {} ELSE DeclarationsAt(s, x, DOMAIN x, storage))
    BY <2>1, <2>2 DEF AllWritten
  <2>4. DeclaredBy(s.said) = {} BY <1>1, NoneDeclared
  <2>5. f.declares = DeclarationsAt(s, x, DOMAIN x, storage) BY <1>3, <2>1
  <2>6. QED BY <2>3, <2>4, <2>5
<1>19. Resolved => k.rt.halt = "no" BY <1>7, <1>10 DEF AllWritten
<1>20. Sound(k, Counted(q), IF s.emit = 0 THEN {} ELSE f.declares)
  BY <1>1, <1>7, <1>17, <1>18, <1>19 DEF Sound
<1>21. QED BY <1>20 DEF k, q

LEMMA DeclarationStopSound ==
  ASSUME Sound(c, parse, meant), DeclarationStop
  PROVE  Sound(c', parse', meant')
<1>1. Running BY DEF DeclarationStop, Reduce
<1>2. Ready(Quiet, parse) /\ Quiet.rt = c.rt BY <1>1, QuietReady
<1>3. At({"decl"}) /\ Top.phase = "dtors" /\ Space(Top.n) BY DEF DeclarationStop
<1>4. Len(parse) >= 1 /\ Top = parse[Len(parse)] /\ Top.at = "decl" BY <1>3, AtFacts
<1>5. /\ c' = EmitDeclaration(Quiet) /\ parse' = Counted(Front(parse))
      /\ meant' = IF InBody THEN {} ELSE Top.declares
  BY DEF DeclarationStop, Reduce, Pop
<1>6. Room(Quiet.rt, Top.n) BY <1>2, <1>3 DEF Space
<1>7. Sound(EmitDeclaration(Quiet), Counted(Front(parse)),
            IF Quiet.emit = 0 THEN {} ELSE Top.declares)
  BY <1>2, <1>3, <1>4, <1>6, DeclarationEnds
<1>8. Quiet.emit = 0 <=> InBody
  <2>1. Tied(Quiet, parse) BY <1>2, ReadyFacts
  <2>2. QED BY <2>1, BodiesQuiet DEF InBody
<1>9. QED BY <1>5, <1>7, <1>8

-----------------------------------------------------------------------------
(* Function bodies, in which nothing is written.                           *)

(* k is s with another value of emit, and perhaps other stacks.            *)
Muted(s, k) ==
  /\ DOMAIN k = Fields
  /\ k.rt = s.rt /\ k.text = s.text /\ k.structs = s.structs
  /\ k.current_struct = s.current_struct /\ k.enums = s.enums
  /\ k.constant_id = s.constant_id /\ k.unnamed = s.unnamed /\ k.said = s.said
  /\ k.written = s.written /\ k.begun = s.begun /\ k.forms = s.forms

LEMMA MutedTypes ==
  ASSUME NEW s, TypesOK(s), NEW k, Muted(s, k)
  PROVE  /\ TypesOK(k)
         /\ k.emit = 0 => \A t : Typ(s, t) => Typ(k, t)
<1>1. StoreOK(k) BY DEF TypesOK, StoreOK, Muted
<1>2. ConstsOK(k)
  <2>1. ConstsOK(s) BY DEF TypesOK
  <2>2. k.constant_id = s.constant_id /\ k.written = s.written BY DEF Muted
  <2>3. QED BY <2>1, <2>2 DEF ConstsOK
<1>3. \A t : TextOK(s, t) => TextOK(k, t) BY SMTT(40) DEF TextOK, OpenTextOK, PointerTextOK, Muted
<1>4. k.emit = 0 => \A t : Typ(s, t) => Typ(k, t) BY SMTT(40) DEF Typ, Good, Writable, Muted
<1>5. k.rt = s.rt BY DEF Muted
<1>6. QED BY <1>1, <1>2, <1>3, <1>4, <1>5 DEF TypesOK

LEMMA EmitMuted ==
  ASSUME NEW s, DOMAIN s = Fields, NEW i
  PROVE  LET k == EmitControl(s, i)
         IN  /\ Muted(s, k) /\ k.decls = s.decls /\ k.dtors = s.dtors
             /\ k.emit = s.emit + i
BY DEF Muted, EmitControl, Fields

LEMMA DefinitionFirst ==
  ASSUME NEW p, Places(p), Len(p) \in Nat, NEW i \in 1..Len(p)
  PROVE  /\ p[i].at = "fdef" => i = 1
         /\ p[i].at = "body" => i = 2 /\ p[1].at = "fdef"
<1> DEFINE n == Len(p)
<1>1. \A j \in 1..n : PlaceOK(p, j) BY DEF Places
<1>2. n \in Nat OBVIOUS
<1> HIDE DEF n
<1>3. ASSUME NEW j \in 1..n, p[j].at = "fdef" PROVE j = 1
  <2>1. SUFFICES ASSUME j # 1 PROVE FALSE OBVIOUS
  <2>2. j - 1 \in 1..n BY <1>2, <2>1
  <2>3. p[j - 1].at = "none" BY <1>1, <1>3, <2>1 DEF PlaceOK, MayLie
  <2>4. PlaceOK(p, j - 1) BY <1>1, <2>2
  <2>5. QED BY <2>3, <2>4 DEF PlaceOK, MayLie
<1>4. ASSUME NEW j \in 1..n, p[j].at = "body" PROVE j = 2 /\ p[1].at = "fdef"
  <2>1. j # 1 /\ p[j - 1].at = "fdef" BY <1>1, <1>4 DEF PlaceOK, MayLie
  <2>2. j - 1 \in 1..n BY <1>2, <2>1
  <2>3. j - 1 = 1 BY <1>3, <2>1, <2>2
  <2>4. QED BY <2>1, <2>3
<1>5. i \in 1..n BY DEF n
<1>6. QED BY <1>3, <1>4, <1>5

LEMMA BodyOpens ==
  ASSUME NEW s, NEW p, Ready(s, p), Len(p) >= 1, p[Len(p)].at = "fdef"
  PROVE  Sound(EmitControl(s, -1), Append(p, Frame("body", "body", NullTerm)), {})
<1> DEFINE f == Frame("body", "body", NullTerm)
           q == Append(p, f)
           k == EmitControl(s, -1)
<1>1. /\ Tied(s, p) /\ StackInv(s, p) /\ Held(s) /\ Len(p) \in Nat /\ Plainly(s)
      /\ s.constant_id <= MaxConstants /\ s.rt.halt = "no" /\ s.said = {} /\ IsSeq(p)
      /\ TypesOK(s) /\ DOMAIN s = Fields
  BY ReadyFacts
<1>2. Places(p) /\ Linked(s, p) /\ Wired(s, p) /\ Told(s, p) BY <1>1, TiedFacts DEF Tied
<1>3. Len(p) = 1 /\ p[1].at = "fdef"
  <2>1. Len(p) \in 1..Len(p) BY <1>1
  <2>2. Len(p) = 1 BY <1>1, <1>2, <2>1, DefinitionFirst
  <2>3. QED BY <2>2
<1>4. s.emit = 1
  <2>1. DOMAIN p = 1..1 BY <1>1, <1>3, SeqFacts
  <2>2. \A i \in DOMAIN p : p[i].at # "body" BY <1>3, <2>1
  <2>3. QED BY <1>1, <2>2, BodiesQuiet
<1>5. Muted(s, k) /\ k.decls = s.decls /\ k.dtors = s.dtors /\ k.emit = 0
  <2>1. Muted(s, k) /\ k.decls = s.decls /\ k.dtors = s.dtors /\ k.emit = s.emit + (-1)
    BY <1>1, EmitMuted
  <2> HIDE DEF k
  <2>2. QED BY <1>4, <2>1
<1>6. DOMAIN f = FrameFields /\ f.at = "body" /\ f.n = 0 /\ ParamsTyped(k, f) BY NewFrame
<1>7. StackInv(k, q)
  <2> HIDE DEF f
  <2>1. QED BY <1>1, <1>6, BodyOpened
<1>8. Len(q) = 2 /\ q[2] = f /\ q[1] = p[1]
  <2>1. Len(q) = Len(p) + 1 /\ q[Len(p) + 1] = f /\ \A i \in 1..Len(p) : q[i] = p[i]
    BY <1>1, Appended
  <2> HIDE DEF q, f
  <2>2. QED BY <1>3, <2>1
<1> HIDE DEF f, q, k
<1>9. TypesOK(k) /\ \A t : Typ(s, t) => Typ(k, t) BY <1>1, <1>5, MutedTypes
<1>10. Held(k)
  <2>1. Shaped(k) BY <1>7 DEF StackInv
  <2>2. SaidOK(k) BY <1>1, <1>5 DEF SaidOK, Muted
  <2>3. \A t : Prim(s, t) => Prim(k, t) BY <1>5, <1>9 DEF Prim, Muted
  <2>4. \A d : DtorTyped(s, d) => DtorTyped(k, d) BY <1>9 DEF DtorTyped
  <2>5. \A d : DeclTyped(s, d) => DeclTyped(k, d) BY <2>3, <2>4 DEF DeclTyped
  <2>6. StacksTyped(k) BY <1>1, <1>5, <2>4, <2>5 DEF Held, StacksTyped
  <2>7. QED BY <1>9, <2>1, <2>2, <2>6 DEF Held
<1>11. NDecl(q, 1) = NDecl(p, 1)
  <2>1. SameAts(p, q, 1) BY <1>8 DEF SameAts
  <2>2. 1 \in 0..1 /\ 1 \in Nat OBVIOUS
  <2>3. QED BY <2>1, <2>2, CountsSame
<1>12. Places(q)
  <2>1. PlaceOK(q, 1) BY <1>3, <1>8 DEF PlaceOK, MayLie
  <2>2. PlaceOK(q, 2) BY <1>3, <1>6, <1>8 DEF PlaceOK, MayLie
  <2>3. QED BY <1>8, <2>1, <2>2 DEF Places
<1>13. Linked(k, q)
  <2>1. /\ p[1].n \in Nat /\ ParamsTyped(s, p[1])
        /\ DeclaresAt(p, 1) => Few(p[1], s.decls[NDecl(p, 1)])
    BY <1>2, <1>3 DEF Linked
  <2>2. ParamsTyped(k, p[1]) BY <1>9, <2>1 DEF ParamsTyped
  <2>3. DeclaresAt(q, 1) => Few(q[1], k.decls[NDecl(q, 1)])
    BY <1>5, <1>8, <1>11, <2>1 DEF DeclaresAt
  <2>4. ~ DeclaresAt(q, 2) BY <1>6, <1>8 DEF DeclaresAt
  <2>5. \A i \in 1..2 : i = 1 \/ i = 2 OBVIOUS
  <2>6. q[1].n \in Nat /\ q[2].n \in Nat /\ ParamsTyped(k, q[1]) /\ ParamsTyped(k, q[2])
    BY <1>6, <1>8, <2>1, <2>2
  <2>7. QED BY <1>8, <2>3, <2>4, <2>5, <2>6 DEF Linked
<1>14. \E u : Chain(k, q, u)
  <2>1. PICK o : Chain(s, p, o) BY <1>2 DEF Wired
  <2>2. /\ o[0] = 0 /\ s.current_struct = o[1] /\ Cur(s.rt).current_struct = o[1]
        /\ o[1] = o[0] /\ IsSeq(s.forms) /\ Len(s.forms) = NOpen(p, 1)
    BY <1>3, <1>4, <2>1 DEF Chain
  <2>3. NOpen(p, 1) = 0
    <3>1. NOpen(p, 0) = 0 /\ NOpen(p, 0 + 1) = NOpen(p, 0) + One(IsOpen(p, 0 + 1))
      BY OpenCounts
    <3>2. ~ IsOpen(p, 1) BY <1>3 DEF IsOpen
    <3>3. QED BY <3>1, <3>2 DEF One
  <2>4. s.forms = <<>> BY <2>2, <2>3, SeqFacts
  <2> DEFINE u == [i \in 0..2 |-> 0]
  <2>5. u[0] = 0 /\ u[1] = 0 /\ u[2] = 0 OBVIOUS
  <2> HIDE DEF u
  <2>6. /\ k.current_struct = 0 /\ Cur(k.rt).current_struct = 0 /\ k.forms = <<>>
        /\ k.emit = 0
    BY <1>5, <2>2, <2>4 DEF Muted
  <2>7. q[1].at = "fdef" /\ q[2].at = "body" BY <1>3, <1>6, <1>8
  <2>8. \A i \in 1..2 : i = 1 \/ i = 2 OBVIOUS
  <2>9. IsSeq(k.forms) BY <2>6, NoneIsSeq
  <2>10. \A i \in 1..2 : q[i].at \notin {"struct", "enum"} /\ u[i] = u[i - 1]
    BY <2>5, <2>7, <2>8
  <2>11. Chain(k, q, u) BY <1>8, <2>5, <2>6, <2>9, <2>10 DEF Chain
  <2>12. QED BY <2>11
<1>15. Told(k, q)
  <2>1. Plainly(k) BY <1>1, <1>5 DEF Plainly
  <2>2. DeclSays(s, p[1], s.decls[NDecl(p, 1)])
    BY <1>2, <1>3 DEF Told, PositionSays, DeclaresAt
  <2>3. DeclSays(k, q[1], k.decls[NDecl(q, 1)])
    BY <1>3, <1>5, <1>8, <1>11, <2>2 DEF DeclSays, Muted
  <2>4. PositionSays(k, q, 1) BY <1>3, <1>8, <2>3 DEF PositionSays
  <2>5. PositionSays(k, q, 2) BY <1>6, <1>8 DEF PositionSays, DeclaresAt
  <2>6. \A i \in 1..2 : i = 1 \/ i = 2 OBVIOUS
  <2>7. QED BY <1>8, <2>1, <2>4, <2>5, <2>6 DEF Told
<1>16. Tied(k, q) BY <1>7, <1>10, <1>12, <1>13, <1>14, <1>15 DEF Tied, Wired
<1>17. TopPrim(k, q) BY <1>6, <1>8 DEF TopPrim
<1>18. k.constant_id <= MaxConstants /\ k.rt.halt = "no" /\ k.said = {}
  BY <1>1, <1>5 DEF Muted
<1>19. Sound(k, q, {}) BY <1>16, <1>17, <1>18, SoundQuiet
<1>20. QED BY <1>19 DEF k, q, f

(* A declaration without declarators writes nothing.                       *)
LEMMA NothingEmitted ==
  ASSUME NEW s, CurDecl(s).declarators = <<>>
  PROVE  EmitDeclaration(s) = DeclarationEnd(s)
<1> DEFINE x == CurDecl(s).declarators
           storage == CurDecl(s).storage
           base == DeclarationEnd(s)
           g == FoldIter("declarators", storage, x, base)
<1>1. EmitDeclaration(s) = g[DOMAIN x] BY EmitDeclarationIsIter
<1>2. IsSeq(x) /\ DOMAIN x = {}
  <2>1. x = <<>> OBVIOUS
  <2> HIDE DEF x
  <2>2. IsSeq(x) BY <2>1, NoneIsSeq
  <2>3. DOMAIN x = 1..Len(x) /\ Len(x) = 0 BY <2>1, <2>2, SeqFacts
  <2>4. QED BY <2>2, <2>3
<1>3. \A z \in SUBSET DOMAIN x : g[z] = FoldStep("declarators", storage, x, base, g, z)
  BY <1>2, FoldIterExists
<1> HIDE DEF g, x, base
<1>4. DOMAIN x \in SUBSET DOMAIN x OBVIOUS
<1>5. g[DOMAIN x] = FoldStep("declarators", storage, x, base, g, DOMAIN x) BY <1>3, <1>4
<1>6. g[DOMAIN x] = base BY <1>2, <1>5 DEF FoldStep
<1>7. QED BY <1>1, <1>6 DEF base

LEMMA BodyCloses ==
  ASSUME NEW s, NEW p, Ready(s, p), Len(p) >= 1, p[Len(p)].at = "body"
  PROVE  Sound(EmitDeclaration(EmitControl(s, 1)), Front(Front(p)), {})
<1> DEFINE m == EmitControl(s, 1)
           k == EmitDeclaration(m)
           q == Front(Front(p))
<1>1. /\ Tied(s, p) /\ StackInv(s, p) /\ Held(s) /\ Len(p) \in Nat /\ Plainly(s)
      /\ s.constant_id <= MaxConstants /\ s.rt.halt = "no" /\ s.said = {} /\ IsSeq(p)
      /\ TypesOK(s) /\ DOMAIN s = Fields
  BY ReadyFacts
<1>2. Places(p) /\ Linked(s, p) /\ Wired(s, p) /\ Told(s, p) BY <1>1, TiedFacts DEF Tied
<1>3. Len(p) = 2 /\ p[1].at = "fdef" /\ p[2].at = "body"
  <2>1. Len(p) \in 1..Len(p) BY <1>1
  <2>2. Len(p) = 2 /\ p[1].at = "fdef" BY <1>1, <1>2, <2>1, DefinitionFirst
  <2>3. QED BY <2>2
<1>4. s.emit = 0
  <2>1. DOMAIN p = 1..2 BY <1>1, <1>3, SeqFacts
  <2>2. 2 \in DOMAIN p BY <2>1
  <2>3. QED BY <1>1, <1>3, <2>2, BodiesQuiet
<1>5. Muted(s, m) /\ m.decls = s.decls /\ m.dtors = s.dtors /\ m.emit = 1
  <2>1. Muted(s, m) /\ m.decls = s.decls /\ m.dtors = s.dtors /\ m.emit = s.emit + 1
    BY <1>1, EmitMuted
  <2> HIDE DEF m
  <2>2. QED BY <1>4, <2>1
<1>6. /\ StackInv(m, Front(p)) /\ Len(Front(p)) = 1
      /\ Front(p)[Len(Front(p))].at = "fdef"
  <2>1. StackInv(m, Front(p)) /\ Front(p)[Len(Front(p))].at = "fdef" BY <1>1, BodyClosed
  <2>2. Len(Front(p)) = Len(p) - 1 BY <1>1, Fronted
  <2>3. Len(p) - 1 = 1 BY <1>3
  <2>4. Len(Front(p)) = 1 BY <2>2, <2>3
  <2> HIDE DEF m
  <2>5. QED BY <2>1, <2>4
<1>7. StackInv(k, q) /\ Len(q) = 0
  <2> DEFINE r == Front(p)
  <2>1. StackInv(m, r) /\ Len(r) = 1 /\ r[Len(r)].at = "fdef" BY <1>6
  <2> HIDE DEF m, r
  <2>2. Len(r) >= 1 /\ r[Len(r)].at \in {"decl", "sdecl", "fdef"} BY <2>1
  <2>3. k \in {DeclarationEnd(m), EmitDeclaration(m)} OBVIOUS
  <2> HIDE DEF k
  <2>4. StackInv(k, Front(r)) /\ Len(Front(r)) = Len(r) - 1
    BY <2>1, <2>2, <2>3, DeclarationClosed
  <2>5. Len(Front(r)) = 0 BY <2>1, <2>4
  <2>6. QED BY <2>4, <2>5 DEF r
<1>8. k = DeclarationEnd(m)
  <2>1. NDecl(p, 1) = 1 /\ Len(s.decls) = 1
    <3>1. NDecl(p, 0) = 0 BY CountsOfNone
    <3>2. /\ NDecl(p, 0 + 1) = NDecl(p, 0) + One(DeclaresAt(p, 0 + 1))
          /\ NDecl(p, 1 + 1) = NDecl(p, 1) + One(DeclaresAt(p, 1 + 1))
      BY Counts
    <3>3. DeclaresAt(p, 1) /\ ~ DeclaresAt(p, 2) BY <1>3 DEF DeclaresAt
    <3>4. Len(s.decls) = NDecl(p, 2) BY <1>1, <1>3 DEF StackInv, Mirrors
    <3>5. QED BY <3>1, <3>2, <3>3, <3>4 DEF One
  <2>2. DeclaresAt(p, 1) BY <1>3 DEF DeclaresAt
  <2>3. Few(p[1], s.decls[1]) BY <1>2, <1>3, <2>1, <2>2 DEF Linked
  <2>4. Len(s.decls[1].declarators) <= 0 BY <1>3, <2>3 DEF Few
  <2>5. IsSeq(s.decls[1].declarators) BY <1>1, <2>1 DEF Held, Shaped
  <2>6. s.decls[1].declarators = <<>> BY <2>4, <2>5, SeqFacts
  <2>7. CurDecl(m) = s.decls[1] BY <1>5, <2>1 DEF CurDecl, Last
  <2> HIDE DEF m
  <2>8. QED BY <2>6, <2>7, NothingEmitted
<1>9. Muted(s, k) /\ k.emit = 1
  <2> HIDE DEF m
  <2>1. DOMAIN m = Fields BY <1>5 DEF Muted
  <2>2. QED BY <1>5, <1>8, <2>1 DEF DeclarationEnd, Muted, Fields
<1> HIDE DEF m, k, q
<1>10. Len(k.decls) = 0 /\ Len(k.dtors) = 0
  <2>1. NDecl(q, 0) = 0 /\ NDtor(q, 0) = 0 BY CountsOfNone
  <2>2. QED BY <1>7, <2>1 DEF StackInv, Mirrors
<1>11. Held(k)
  <2>1. TypesOK(k) BY <1>1, <1>9, MutedTypes
  <2>2. Shaped(k) BY <1>7 DEF StackInv
  <2>3. SaidOK(k) BY <1>1, <1>9 DEF SaidOK, Muted
  <2>4. StacksTyped(k) BY <1>10 DEF StacksTyped
  <2>5. QED BY <2>1, <2>2, <2>3, <2>4 DEF Held
<1>12. \E u : Chain(k, q, u)
  <2>1. PICK o : Chain(s, p, o) BY <1>2 DEF Wired
  <2>2. /\ o[0] = 0 /\ s.current_struct = o[2] /\ Cur(s.rt).current_struct = o[2]
        /\ s.forms = <<>>
    BY <1>3, <1>4, <2>1 DEF Chain
  <2>3. o[1] = o[0] /\ o[2] = o[1]
    <3>1. \A i \in 1..2 : p[i].at # "struct" => o[i] = o[i - 1] BY <1>3, <2>1 DEF Chain
    <3>2. o[1] = o[1 - 1] /\ o[2] = o[2 - 1] BY <1>3, <3>1
    <3>3. QED BY <3>2
  <2>4. /\ k.current_struct = o[0] /\ Cur(k.rt).current_struct = o[0] /\ k.forms = <<>>
    BY <1>9, <2>2, <2>3 DEF Muted
  <2>5. IsSeq(k.forms) /\ Len(k.forms) = 0 BY <2>4, NoneIsSeq, SeqFacts
  <2>6. NOpen(q, 0) = 0 BY OpenCounts
  <2>7. Chain(k, q, o) BY <1>7, <1>9, <2>2, <2>4, <2>5, <2>6 DEF Chain
  <2>8. QED BY <2>7
<1>13. Told(k, q) BY <1>7, <1>10 DEF Told, Plainly
<1>14. Places(q) /\ Linked(k, q) BY <1>7 DEF Places, Linked
<1>15. Tied(k, q) BY <1>7, <1>11, <1>12, <1>13, <1>14 DEF Tied, Wired
<1>16. TopPrim(k, q) BY <1>7 DEF TopPrim
<1>17. k.constant_id <= MaxConstants /\ k.rt.halt = "no" /\ k.said = {}
  BY <1>1, <1>9 DEF Muted
<1>18. Sound(k, q, {}) BY <1>15, <1>16, <1>17, SoundQuiet
<1>19. QED BY <1>18 DEF k, m, q

LEMMA BodySound ==
  ASSUME Sound(c, parse, meant), BodyOpen \/ BodyClose
  PROVE  Sound(c', parse', meant')
<1>1. Running BY DEF BodyOpen, BodyClose, Reduce
<1>2. Ready(Quiet, parse) BY <1>1, QuietReady
<1>3. CASE BodyOpen
  <2>1. At({"fdef"}) BY <1>3 DEF BodyOpen
  <2>2. Len(parse) >= 1 /\ Top = parse[Len(parse)] /\ Top.at = "fdef" BY <2>1, AtFacts
  <2>3. /\ c' = EmitControl(Quiet, -1) /\ meant' = {}
        /\ parse' = Append(parse, Frame("body", "body", NullTerm))
    BY <1>3 DEF BodyOpen, Reduce, Push
  <2>4. Sound(EmitControl(Quiet, -1), Append(parse, Frame("body", "body", NullTerm)), {})
    BY <1>2, <2>2, BodyOpens
  <2>5. QED BY <2>3, <2>4
<1>4. CASE BodyClose
  <2>1. At({"body"}) BY <1>4 DEF BodyClose
  <2>2. Len(parse) >= 1 /\ Top = parse[Len(parse)] /\ Top.at = "body" BY <2>1, AtFacts
  <2>3. /\ c' = EmitDeclaration(EmitControl(Quiet, 1)) /\ meant' = {}
        /\ parse' = Front(Front(parse))
    BY <1>4 DEF BodyClose, Reduce, Pop
  <2>4. Sound(EmitDeclaration(EmitControl(Quiet, 1)), Front(Front(parse)), {})
    BY <1>2, <2>2, BodyCloses
  <2>5. QED BY <2>3, <2>4
<1>5. QED BY <1>3, <1>4

(* The end of the input, or a syntax error.                                *)
Stopped(s) == [s EXCEPT !.failed = TRUE]

LEMMA EndSound ==
  ASSUME Sound(c, parse, meant), Finish \/ SyntaxError
  PROVE  Sound(c', parse', meant')
<1>1. Running BY DEF Finish, SyntaxError
<1>2. Ready(Quiet, parse) BY <1>1, QuietReady
<1> DEFINE s == Quiet
           k == Stopped(s)
<1>3. /\ Tied(s, parse) /\ TopPrim(s, parse) /\ s.constant_id <= MaxConstants
      /\ s.rt.halt = "no" /\ s.said = {} /\ StackInv(s, parse) /\ Held(s) /\ DOMAIN s = Fields
  BY <1>2, ReadyFacts
<1>4. meant' = {} /\ parse' = parse /\ (c' = s \/ c' = k)
  BY DEF Finish, SyntaxError, Stopped
<1> HIDE DEF s
<1>5. Same(s, k) /\ k.decls = s.decls /\ k.dtors = s.dtors
  BY <1>3 DEF Same, Stopped, Fields
<1> HIDE DEF k
<1>6. Held(k) /\ StackInv(k, parse)
  <2>1. Shaped(k) BY <1>3, <1>5 DEF Held, Shaped, Same
  <2>2. StackInv(k, parse) BY <1>3, <1>5, <2>1 DEF StackInv, Mirrors, Same
  <2>3. /\ \A i \in 1..Len(k.decls) : DeclTyped(s, k.decls[i])
        /\ \A i \in 1..Len(k.dtors) : DtorTyped(s, k.dtors[i])
    BY <1>3, <1>5 DEF Held, StacksTyped
  <2>4. QED BY <1>3, <1>5, <2>1, <2>2, <2>3, SameHeld
<1>7. Mild(s, k) /\ SameStacks(s, k) BY <1>3, <1>5, <1>6, SameMild DEF SameStacks
<1>8. Tied(k, parse) BY <1>3, <1>6, <1>7, StillTied
<1>9. TopPrim(k, parse)
  <2>1. \A t : Prim(s, t) => Prim(k, t)
    BY <1>5 DEF Prim, Typ, Good, Writable, Same
  <2>2. CurDtor(k) = CurDtor(s) BY <1>5 DEF CurDtor
  <2>3. QED BY <1>3, <2>1, <2>2 DEF TopPrim
<1>10. k.constant_id <= MaxConstants /\ k.rt.halt = "no" /\ k.said = {}
  BY <1>3, <1>5 DEF Same
<1>11. Sound(k, parse, {}) BY <1>8, <1>9, <1>10, SoundQuiet
<1>12. Sound(s, parse, {}) BY <1>3, SoundQuiet
<1>13. QED BY <1>4, <1>11, <1>12

-----------------------------------------------------------------------------
(* The start: the intrinsic types are made one by one, in the order that   *)
(* CHOOSE gives.                                                           *)

FirstModule == CtxReset(EmptyRegistry)
IntroStep(g, z) ==
  IF z = {} THEN FirstModule ELSE Intrinsic(g[z \ {Chosen(z)}], Chosen(z))
IntroIter == CHOOSE g : g = [z \in SUBSET Intrinsics |-> IntroStep(g, z)]
Introduced == FoldSet(LAMBDA n, r : Intrinsic(r, n), FirstModule, Intrinsics)

LEMMA IntroducedIsIter == Introduced = IntroIter[Intrinsics]
<1> DEFINE F(g) == [z \in SUBSET Intrinsics |-> IntroStep(g, z)]
           G(g) == [z \in SUBSET Intrinsics |->
                      IF z = {} THEN FirstModule
                      ELSE Intrinsic(g[z \ {Chosen(z)}], Chosen(z))]
           f == CHOOSE g : g = F(g)
           h == CHOOSE g : g = G(g)
<1>1. Introduced = h[Intrinsics]
  BY DEF Introduced, FoldSet, MapThenFoldSet, Chosen
<1>2. IntroIter = f BY DEF IntroIter
<1>3. \A g : F(g) = G(g) BY DEF IntroStep
<1> HIDE DEF F, G
<1>4. f = h
  <2>1. \A g : (g = F(g)) <=> (g = G(g)) BY <1>3
  <2>2. QED BY <2>1, Zenon
<1>5. QED BY <1>1, <1>2, <1>4

LEMMA IntroIterExists == \A z \in SUBSET Intrinsics : IntroIter[z] = IntroStep(IntroIter, z)
<1> DEFINE S == Intrinsics
           Below(g, k) == \A z \in SUBSET S : Cardinality(z) <= k => g[z] = IntroStep(g, z)
           K == {k \in Nat : \E g : Below(g, k)}
<1>1. IsFiniteSet(S) /\ \A z \in SUBSET S : IsFiniteSet(z) BY StartAssumption, FS_Subset
<1>2. \A z \in SUBSET S : z # {} =>
        /\ z \ {Chosen(z)} \in SUBSET S
        /\ Cardinality(z) \in Nat /\ Cardinality(z) >= 1
        /\ Cardinality(z \ {Chosen(z)}) = Cardinality(z) - 1
  BY <1>1, ChosenIn
<1> HIDE DEF S
<1>3. 0 \in K
  <2>1. ASSUME NEW z \in SUBSET S, Cardinality(z) <= 0, z # {} PROVE FALSE
    <3>1. Cardinality(z) \in Nat /\ Cardinality(z) >= 1 BY <1>2, <2>1
    <3>2. QED BY <2>1, <3>1
  <2> DEFINE g == [z \in SUBSET S |-> FirstModule]
  <2>2. {} \in SUBSET S OBVIOUS
  <2>3. g[{}] = FirstModule BY <2>2
  <2> HIDE DEF g
  <2>4. g[{}] = IntroStep(g, {}) BY <2>3 DEF IntroStep
  <2>5. Below(g, 0) BY <2>1, <2>4
  <2>6. QED BY <2>5
<1>4. ASSUME NEW k \in K PROVE k + 1 \in K
  <2>1. PICK g : Below(g, k) OBVIOUS
  <2> DEFINE h == [z \in SUBSET S |-> IntroStep(g, z)]
  <2>2. \A z \in SUBSET S : h[z] = IntroStep(g, z) OBVIOUS
  <2> HIDE DEF h
  <2>3. \A z \in SUBSET S : Cardinality(z) <= k => h[z] = g[z] BY <2>1, <2>2
  <2>4. ASSUME NEW z \in SUBSET S, Cardinality(z) <= k + 1
        PROVE  h[z] = IntroStep(h, z)
    <3>1. CASE z = {} BY <2>2, <3>1 DEF IntroStep
    <3>2. CASE z # {}
      <4> DEFINE t == z \ {Chosen(z)}
      <4>1. t \in SUBSET S /\ Cardinality(t) <= k BY <1>2, <2>4, <3>2
      <4>2. h[t] = g[t] BY <2>3, <4>1
      <4>3. QED BY <2>2, <4>2 DEF IntroStep
    <3>3. QED BY <3>1, <3>2
  <2>5. Below(h, k + 1) BY <2>4
  <2>6. QED BY <2>5
<1>5. K = Nat
  <2>1. K \in SUBSET Nat OBVIOUS
  <2> HIDE DEF K
  <2>2. QED BY <1>3, <1>4, <2>1, NatSetInduction
<1>6. Cardinality(S) \in Nat BY <1>1, FS_CardinalityType
<1>7. PICK g : Below(g, Cardinality(S)) BY <1>5, <1>6
<1>8. \A z \in SUBSET S : g[z] = IntroStep(g, z)
  <2>1. \A z \in SUBSET S : Cardinality(z) <= Cardinality(S) BY <1>1, FS_Subset
  <2>2. QED BY <1>7, <2>1
<1> DEFINE h == [z \in SUBSET S |-> g[z]]
<1>9. \A z \in SUBSET S : h[z] = g[z] OBVIOUS
<1> HIDE DEF h
<1>10. \A z \in SUBSET S : IntroStep(h, z) = IntroStep(g, z)
  <2>1. \A z \in SUBSET S : z \ {Chosen(z)} \in SUBSET S OBVIOUS
  <2>2. QED BY <1>9, <2>1 DEF IntroStep
<1>11. h = [z \in SUBSET S |-> IntroStep(h, z)]
  <2>1. \A z \in SUBSET S : g[z] = IntroStep(h, z) BY <1>8, <1>10
  <2>2. QED BY <2>1 DEF h
<1>12. \E y : y = [z \in SUBSET S |-> IntroStep(y, z)] BY <1>11
<1> DEFINE f == IntroIter
<1>13. f = [z \in SUBSET S |-> IntroStep(f, z)] BY <1>12 DEF IntroIter, S
<1>14. QED BY <1>13 DEF S

(* The registry when the intrinsic types of Z have been made.              *)
Booted(r, Z) ==
  /\ DOMAIN r = RegFields /\ DOMAIN r.heap = ObjId /\ DOMAIN r.mods = ModId
  /\ DOMAIN r.itab = ModId
  /\ r.next = Cardinality(Z) + 1 /\ r.nmods = 1 /\ r.cur = 0 /\ r.def = 1 /\ r.halt = "no"
  /\ DOMAIN r.mods[1] = ModFields /\ r.mods[1].intrinsic = 1 /\ DOMAIN r.mods[1].tab = Tables
  /\ \A t \in ObjId :
       /\ DOMAIN r.heap[t] = ObjFields
       /\ r.heap[t].pointer_to = 0 /\ r.heap[t].array0_of = 0 /\ r.heap[t].prev = 0
       /\ r.heap[t].kind \in {"free", "intrinsic"}
       /\ t < r.next => r.heap[t].kind = "intrinsic"
  /\ \A y \in r.itab[1] :
       /\ y.addr \in 1..r.next - 1 /\ r.heap[y.addr].name = y.name
       /\ y.name \in Z
  /\ \A n \in Z : \E y \in r.itab[1] : y.name = n

LEMMA FirstBooted == Booted(FirstModule, {})
<1>1. MaxMods \in Nat /\ MaxMods >= 3 /\ MaxObjs \in Nat
  BY BoundsAssumption, StartAssumption
<1>2. 1 \in ModId BY <1>1 DEF ModId
<1> DEFINE e == EmptyRegistry
           s == MModule(e)
           r == FirstModule
<1>3. /\ DOMAIN e = RegFields /\ DOMAIN e.heap = ObjId /\ DOMAIN e.mods = ModId
      /\ DOMAIN e.itab = ModId /\ e.next = 1 /\ e.nmods = 0 /\ e.cur = 0 /\ e.def = 0
      /\ e.halt = "no" /\ e.itab[1] = {} /\ \A t \in ObjId : e.heap[t] = FreeObject
  BY <1>2 DEF EmptyRegistry, RegFields
<1> HIDE DEF e
<1>10. /\ DOMAIN s = RegFields /\ s.heap = e.heap /\ DOMAIN s.mods = ModId
       /\ s.itab = e.itab /\ s.next = 1 /\ s.nmods = 1 /\ s.halt = "no"
       /\ s.mods[1] = NewModule(0, 1)
  BY <1>2, <1>3 DEF MModule, RegFields
<1>11. r = [s EXCEPT !.def = s.nmods, !.cur = 0] BY DEF FirstModule, CtxReset, e
<1> HIDE DEF s, r
<1>4. /\ DOMAIN r = RegFields /\ DOMAIN r.heap = ObjId /\ DOMAIN r.mods = ModId
      /\ DOMAIN r.itab = ModId /\ r.next = 1 /\ r.nmods = 1 /\ r.cur = 0 /\ r.def = 1
      /\ r.halt = "no" /\ r.mods[1] = NewModule(0, 1) /\ r.itab[1] = {}
      /\ \A t \in ObjId : r.heap[t] = FreeObject
  BY <1>2, <1>3, <1>10, <1>11 DEF RegFields
<1>5. /\ DOMAIN NewModule(0, 1) = ModFields /\ NewModule(0, 1).intrinsic = 1
      /\ DOMAIN NewModule(0, 1).tab = Tables
  BY DEF NewModule, ModFields
<1>6. /\ DOMAIN FreeObject = ObjFields /\ FreeObject.pointer_to = 0
      /\ FreeObject.array0_of = 0 /\ FreeObject.prev = 0 /\ FreeObject.kind = "free"
  BY DEF FreeObject, NewObject, ObjFields
<1>7. Cardinality({}) = 0 BY FS_EmptySet
<1>8. \A t \in ObjId : ~ (t < 1) BY <1>1 DEF ObjId
<1>9. Booted(r, {}) BY <1>4, <1>5, <1>6, <1>7, <1>8 DEF Booted
<1>12. QED BY <1>9 DEF r

LEMMA IntrinsicBooted ==
  ASSUME NEW Z, Z \subseteq Intrinsics, NEW r, Booted(r, Z), NEW n \in Intrinsics \ Z
  PROVE  Booted(Intrinsic(r, n), Z \cup {n})
<1>1. MaxMods \in Nat /\ MaxMods >= 3 /\ MaxObjs \in Nat
  BY BoundsAssumption, StartAssumption
<1>2. /\ IsFiniteSet(Z) /\ Cardinality(Z) \in Nat
      /\ Cardinality(Z \cup {n}) = Cardinality(Z) + 1
      /\ Cardinality(Z) + 1 <= MaxObjs
  <2>1. IsFiniteSet(Intrinsics) /\ Cardinality(Intrinsics) <= MaxObjs BY StartAssumption
  <2>2. IsFiniteSet(Z) BY <2>1, FS_Subset
  <2>3. Cardinality(Z) \in Nat BY <2>2, FS_CardinalityType
  <2>4. Cardinality(Z \cup {n}) = Cardinality(Z) + 1 BY <2>2, FS_AddElement
  <2>5. Z \cup {n} \subseteq Intrinsics OBVIOUS
  <2>6. Cardinality(Z \cup {n}) <= Cardinality(Intrinsics) BY <2>1, <2>5, FS_Subset
  <2>7. Cardinality(Intrinsics) \in Nat BY <2>1, FS_CardinalityType
  <2>8. QED BY <1>1, <2>1, <2>2, <2>3, <2>4, <2>6, <2>7
<1>3. 1 \in ModId /\ r.next \in ObjId /\ r.next \in Nat
  BY <1>1, <1>2 DEF ModId, ObjId, Booted
<1>4. CurrentModule(r) = 1 /\ Cur(r) = r.mods[1] /\ IntrinsicTable(r) = r.itab[1]
  BY DEF Booted, CurrentModule, Cur, IntrinsicTable
<1>5. ~ Found(IntrinsicTable(r), n) BY <1>4 DEF Found, Matches, Booted
<1> DEFINE x == NewObject("intrinsic", n, 0, 0, <<>>)
           y == [name |-> n, addr |-> r.next, type |-> 0]
           a == Alloc(r, x)
           b == AddIntrinsic(a, n, r.next)
           q == AddSymbol(b, "type", n, r.next, 0)
<1>6. Intrinsic(r, n) = q BY <1>5 DEF Intrinsic
<1>7. /\ DOMAIN x = ObjFields /\ x.kind = "intrinsic" /\ x.name = n /\ x.pointer_to = 0
      /\ x.array0_of = 0 /\ x.prev = 0
  BY DEF NewObject, ObjFields
<1> HIDE DEF x
<1>8. /\ DOMAIN a = RegFields /\ DOMAIN a.heap = ObjId /\ a.heap[r.next] = x
      /\ \A t \in ObjId \ {r.next} : a.heap[t] = r.heap[t]
      /\ a.next = r.next + 1 /\ a.mods = r.mods /\ a.itab = r.itab /\ a.nmods = 1
      /\ a.cur = 0 /\ a.def = 1 /\ a.halt = "no"
  BY <1>3 DEF Alloc, Booted, RegFields
<1> HIDE DEF a
<1>9. CurrentModule(a) = 1 /\ Cur(a) = r.mods[1] /\ r.mods[1].intrinsic = 1
  BY <1>8 DEF Booted, CurrentModule, Cur
<1>10. /\ DOMAIN b = RegFields /\ b.heap = a.heap /\ b.next = a.next /\ b.mods = a.mods
       /\ b.nmods = 1 /\ b.cur = 0 /\ b.def = 1 /\ b.halt = "no"
       /\ DOMAIN b.itab = ModId /\ b.itab[1] = r.itab[1] \cup {y}
  BY <1>3, <1>8, <1>9 DEF AddIntrinsic, Booted, RegFields
<1> HIDE DEF b
<1>11. CurrentModule(b) = 1 BY <1>10 DEF CurrentModule
<1>12. /\ DOMAIN q = RegFields /\ q.heap = b.heap /\ q.next = b.next /\ q.itab = b.itab
       /\ q.nmods = 1 /\ q.cur = 0 /\ q.def = 1 /\ q.halt = "no"
       /\ DOMAIN q.mods = DOMAIN b.mods
       /\ q.mods[1] = [b.mods[1] EXCEPT !.tab["type"] = @ \cup {y}]
  BY <1>3, <1>8, <1>10, <1>11 DEF AddSymbol, Booted, RegFields
<1> HIDE DEF q
<1>13. /\ DOMAIN q.mods = ModId /\ DOMAIN q.mods[1] = ModFields
       /\ q.mods[1].intrinsic = 1 /\ DOMAIN q.mods[1].tab = Tables
  <2>1. /\ DOMAIN r.mods = ModId /\ DOMAIN r.mods[1] = ModFields
        /\ r.mods[1].intrinsic = 1 /\ DOMAIN r.mods[1].tab = Tables
    BY DEF Booted
  <2>2. b.mods = r.mods BY <1>8, <1>10
  <2> HIDE DEF y
  <2>3. QED BY <1>12, <2>1, <2>2 DEF ModFields
<1>14. r.next = Cardinality(Z) + 1 BY DEF Booted
<1>15. ASSUME NEW t \in ObjId
       PROVE  /\ DOMAIN q.heap[t] = ObjFields
              /\ q.heap[t].pointer_to = 0 /\ q.heap[t].array0_of = 0 /\ q.heap[t].prev = 0
              /\ q.heap[t].kind \in {"free", "intrinsic"}
              /\ t < q.next => q.heap[t].kind = "intrinsic"
  <2>1. CASE t = r.next BY <1>7, <1>8, <1>10, <1>12, <2>1
  <2>2. CASE t # r.next
    <3>1. q.heap[t] = r.heap[t] BY <1>8, <1>10, <1>12, <2>2
    <3>2. t < q.next => t < r.next
      <4>1. q.next = r.next + 1 /\ t \in Nat BY <1>1, <1>8, <1>10, <1>12 DEF ObjId
      <4>2. QED BY <1>3, <2>2, <4>1
    <3>3. /\ DOMAIN r.heap[t] = ObjFields
          /\ r.heap[t].pointer_to = 0 /\ r.heap[t].array0_of = 0 /\ r.heap[t].prev = 0
          /\ r.heap[t].kind \in {"free", "intrinsic"}
          /\ t < r.next => r.heap[t].kind = "intrinsic"
      BY DEF Booted
    <3>4. QED BY <3>1, <3>2, <3>3
  <2>3. QED BY <2>1, <2>2
<1>16. ASSUME NEW v \in q.itab[1]
       PROVE  v.addr \in 1..q.next - 1 /\ q.heap[v.addr].name = v.name /\ v.name \in Z \cup {n}
  <2>1. v \in r.itab[1] \/ v = y BY <1>10, <1>12
  <2>2. q.next = r.next + 1 BY <1>8, <1>10, <1>12
  <2>3. CASE v = y
    <3>1. v.addr = r.next /\ v.name = n BY <2>3
    <3>2. q.heap[r.next].name = n BY <1>3, <1>7, <1>8, <1>10, <1>12
    <3>3. r.next \in 1..q.next - 1 BY <1>3, <1>2, <1>14, <2>2
    <3>4. QED BY <3>1, <3>2, <3>3
  <2>4. CASE v \in r.itab[1]
    <3>1. v.addr \in 1..r.next - 1 /\ r.heap[v.addr].name = v.name /\ v.name \in Z
      BY <2>4 DEF Booted
    <3>2. v.addr \in ObjId \ {r.next} BY <1>1, <1>3, <3>1 DEF ObjId
    <3>3. q.heap[v.addr] = r.heap[v.addr] BY <1>8, <1>10, <1>12, <3>2
    <3>4. v.addr \in 1..q.next - 1 BY <1>3, <2>2, <3>1
    <3>5. QED BY <3>1, <3>3, <3>4
  <2>5. QED BY <2>1, <2>3, <2>4
<1>17. ASSUME NEW m \in Z \cup {n} PROVE \E v \in q.itab[1] : v.name = m
  <2>1. q.itab[1] = r.itab[1] \cup {y} BY <1>10, <1>12
  <2>2. CASE m = n
    <3>1. y \in q.itab[1] /\ y.name = n BY <2>1
    <3> HIDE DEF y
    <3>2. QED BY <2>2, <3>1
  <2>3. CASE m \in Z
    <3>1. PICK v \in r.itab[1] : v.name = m BY <2>3 DEF Booted
    <3>2. QED BY <2>1, <3>1
  <2>4. QED BY <2>2, <2>3
<1>18. q.next = Cardinality(Z \cup {n}) + 1 /\ DOMAIN q.heap = ObjId /\ DOMAIN q.itab = ModId
  BY <1>2, <1>8, <1>10, <1>12, <1>14
<1>19. Booted(q, Z \cup {n}) BY <1>12, <1>13, <1>15, <1>16, <1>17, <1>18 DEF Booted
<1>20. QED BY <1>6, <1>19

LEMMA IntroducedBooted == Booted(Introduced, Intrinsics)
<1> DEFINE S == Intrinsics
           g == IntroIter
           K == {k \in Nat : \A z \in SUBSET S : Cardinality(z) <= k => Booted(g[z], z)}
<1>1. \A z \in SUBSET S : g[z] = IntroStep(g, z) BY IntroIterExists
<1>2. IsFiniteSet(S) /\ \A z \in SUBSET S : IsFiniteSet(z) BY StartAssumption, FS_Subset
<1>3. \A z \in SUBSET S : z # {} =>
        /\ z \ {Chosen(z)} \in SUBSET S /\ Chosen(z) \in z
        /\ Cardinality(z) \in Nat /\ Cardinality(z) >= 1
        /\ Cardinality(z \ {Chosen(z)}) = Cardinality(z) - 1
  BY <1>2, ChosenIn
<1>4. Booted(g[{}], {})
  <2>1. g[{}] = FirstModule BY <1>1 DEF IntroStep
  <2>2. QED BY <2>1, FirstBooted
<1> HIDE DEF g
<1>5. 0 \in K
  <2>1. ASSUME NEW z \in SUBSET S, Cardinality(z) <= 0, z # {} PROVE FALSE
    <3>1. Cardinality(z) \in Nat /\ Cardinality(z) >= 1 BY <1>3, <2>1
    <3>2. QED BY <2>1, <3>1
  <2>2. QED BY <1>4, <2>1
<1>6. ASSUME NEW k \in K PROVE k + 1 \in K
  <2>1. ASSUME NEW z \in SUBSET S, Cardinality(z) <= k + 1, z # {} PROVE Booted(g[z], z)
    <3> DEFINE n == Chosen(z)
               y == z \ {n}
    <3>1. y \in SUBSET S /\ n \in z /\ Cardinality(y) <= k BY <1>3, <2>1
    <3>2. Booted(g[y], y) BY <3>1
    <3>3. g[z] = Intrinsic(g[y], n) BY <1>1, <2>1 DEF IntroStep
    <3> HIDE DEF n
    <3>4. z = y \cup {n} /\ n \in Intrinsics \ y /\ y \subseteq Intrinsics BY <3>1
    <3> HIDE DEF y
    <3>5. Booted(Intrinsic(g[y], n), y \cup {n}) BY <3>2, <3>4, IntrinsicBooted
    <3>6. QED BY <3>3, <3>4, <3>5
  <2>2. QED BY <1>4, <2>1
<1>7. K = Nat
  <2>1. K \in SUBSET Nat OBVIOUS
  <2> HIDE DEF K
  <2>2. QED BY <1>5, <1>6, <2>1, NatSetInduction
<1>8. Cardinality(S) \in Nat BY <1>2, FS_CardinalityType
<1>9. Booted(g[S], S) BY <1>7, <1>8
<1>10. QED BY <1>9, IntroducedIsIter DEF g

(* The registry in which the parse starts: the third module is current.    *)
LEMMA StartRegistryOK ==
  /\ RegOK(StartRegistry) /\ StartRegistry.halt = "no"
  /\ Cur(StartRegistry).current_struct = 0 /\ Cur(StartRegistry).tab["type"] = {}
  /\ \A t \in ObjId :
       /\ StartRegistry.heap[t].pointer_to = 0 /\ StartRegistry.heap[t].array0_of = 0
       /\ t < StartRegistry.next => StartRegistry.heap[t].kind = "intrinsic"
<1> DEFINE r == Introduced
           s == MModule(r)
           a == [s EXCEPT !.def = s.nmods, !.cur = 0]
           u == MModule(a)
           q == [u EXCEPT !.mods[u.nmods].prev = a.cur, !.cur = u.nmods]
           M1 == NewModule(0, 1)
<1>1. StartRegistry = q
  BY DEF StartRegistry, ModuleBegin, CtxReset, Introduced, FirstModule
<1>2. MaxMods \in Nat /\ MaxMods >= 3 /\ MaxObjs \in Nat
  BY BoundsAssumption, StartAssumption
<1>3. 1 \in ModId /\ 2 \in ModId /\ 3 \in ModId BY <1>2 DEF ModId
<1>4. Booted(r, Intrinsics) BY IntroducedBooted
<1> HIDE DEF r
<1>5. /\ DOMAIN s = RegFields /\ s.heap = r.heap /\ s.next = r.next /\ s.itab = r.itab
      /\ DOMAIN s.mods = ModId /\ s.mods[2] = M1 /\ s.nmods = 2 /\ s.halt = "no"
  <2>1. /\ DOMAIN r = RegFields /\ DOMAIN r.mods = ModId /\ r.nmods = 1 /\ r.def = 1
        /\ r.mods[1].intrinsic = 1 /\ r.halt = "no"
    BY <1>4 DEF Booted
  <2>2. s = [r EXCEPT !.nmods = 2, !.mods[2] = M1] BY <2>1 DEF MModule
  <2> HIDE DEF s, M1
  <2>3. QED BY <1>3, <2>1, <2>2 DEF RegFields
<1> HIDE DEF s
<1>6. /\ DOMAIN a = RegFields /\ a.heap = r.heap /\ a.next = r.next /\ a.itab = r.itab
      /\ DOMAIN a.mods = ModId /\ a.mods[2] = M1 /\ a.nmods = 2 /\ a.halt = "no"
      /\ a.def = 2 /\ a.cur = 0
  <2> HIDE DEF M1
  <2>1. QED BY <1>5 DEF RegFields
<1> HIDE DEF a
<1>7. /\ DOMAIN M1 = ModFields /\ M1.intrinsic = 1 /\ DOMAIN M1.tab = Tables
      /\ \A k \in Tables : M1.tab[k] = {}
      /\ M1.current_struct = 0 /\ M1.current_enum = 0
  BY DEF NewModule, ModFields
<1>8. /\ DOMAIN u = RegFields /\ u.heap = r.heap /\ u.next = r.next /\ u.itab = r.itab
      /\ DOMAIN u.mods = ModId /\ u.mods[3] = M1 /\ u.nmods = 3 /\ u.halt = "no"
      /\ u.def = 2 /\ u.cur = 0
  <2>1. a.mods[2].intrinsic = 1 BY <1>6, <1>7
  <2>2. a.nmods + 1 = 3 /\ a.def = 2 BY <1>6
  <2>3. (IF a.def # 0 THEN a.mods[a.def].intrinsic ELSE a.nmods + 1) = 1 BY <2>1, <2>2
  <2>4. u = [a EXCEPT !.nmods = 3, !.mods[3] = M1] BY <2>2, <2>3 DEF MModule
  <2> HIDE DEF u, M1
  <2>5. QED BY <1>3, <1>6, <2>4 DEF RegFields
<1> HIDE DEF u
<1>9. /\ DOMAIN q = RegFields /\ q.heap = r.heap /\ q.next = r.next /\ q.itab = r.itab
      /\ DOMAIN q.mods = ModId /\ q.halt = "no" /\ q.cur = 3
      /\ q.mods[3] = [M1 EXCEPT !.prev = 0]
  <2> HIDE DEF M1
  <2>1. QED BY <1>3, <1>6, <1>8 DEF RegFields
<1> HIDE DEF q, M1
<1>10. CurrentModule(q) = 3 /\ Cur(q) = [M1 EXCEPT !.prev = 0]
  BY <1>9 DEF CurrentModule, Cur
<1>11. /\ DOMAIN Cur(q) = ModFields /\ DOMAIN Cur(q).tab = Tables
       /\ Cur(q).intrinsic = 1 /\ Cur(q).current_struct = 0 /\ Cur(q).current_enum = 0
       /\ \A k \in Tables : Cur(q).tab[k] = {}
  BY <1>7, <1>10 DEF ModFields
<1>12. IntrinsicTable(q) = r.itab[1] BY <1>9, <1>11 DEF IntrinsicTable
<1>13. r.next \in 1..MaxObjs + 1
  <2>1. IsFiniteSet(Intrinsics) /\ Cardinality(Intrinsics) <= MaxObjs BY StartAssumption
  <2>2. Cardinality(Intrinsics) \in Nat BY <2>1, FS_CardinalityType
  <2>3. r.next = Cardinality(Intrinsics) + 1 BY <1>4 DEF Booted
  <2>4. QED BY <1>2, <2>1, <2>2, <2>3
<1>14. /\ DOMAIN r.heap = ObjId
       /\ \A t \in ObjId :
            /\ DOMAIN r.heap[t] = ObjFields
            /\ r.heap[t].pointer_to = 0 /\ r.heap[t].array0_of = 0 /\ r.heap[t].prev = 0
            /\ r.heap[t].kind \in {"free", "intrinsic"}
            /\ t < r.next => r.heap[t].kind = "intrinsic"
  BY <1>4 DEF Booted
<1>15. RegShape(q)
  BY <1>3, <1>9, <1>10, <1>11, <1>13, <1>14 DEF RegShape
<1>16. \A t \in ObjId : CachesOK(q, t)
  <2>1. 0 \in 0..q.next - 1 BY <1>9, <1>13
  <2>2. QED BY <1>9, <1>14, <2>1 DEF CachesOK
<1>17. NamesOK(q)
  <2>1. /\ \A su \in StructKinds : Cur(q).tab[su] = {}
        /\ Cur(q).tab["enum"] = {} /\ Cur(q).tab["type"] = {}
    BY <1>11 DEF StructKinds, Tables
  <2>2. ASSUME NEW y \in r.itab[1]
        PROVE  /\ y.addr \in 1..q.next - 1 /\ q.heap[y.addr].name = y.name
               /\ y.name \in Intrinsics /\ q.heap[y.addr].kind = "intrinsic"
    <3>1. /\ y.addr \in 1..r.next - 1 /\ r.heap[y.addr].name = y.name
          /\ y.name \in Intrinsics
      BY <1>4 DEF Booted
    <3>2. y.addr \in ObjId /\ y.addr < r.next BY <1>2, <1>13, <3>1 DEF ObjId
    <3>3. QED BY <1>9, <1>14, <3>1, <3>2
  <2>3. \A n \in Intrinsics : Found(IntrinsicTable(q), n)
    <3>1. \A n \in Intrinsics : \E y \in r.itab[1] : y.name = n BY <1>4 DEF Booted
    <3>2. QED BY <1>12, <3>1 DEF Found, Matches
  <2>4. 0 \in 0..q.next - 1 BY <1>9, <1>13
  <2>5. QED BY <1>11, <1>12, <2>1, <2>2, <2>3, <2>4 DEF NamesOK
<1>18. RegOK(q) BY <1>15, <1>16, <1>17 DEF RegOK
<1>19. Cur(q).tab["type"] = {} BY <1>11 DEF Tables
<1>20. QED BY <1>1, <1>9, <1>11, <1>14, <1>18, <1>19

LEMMA StartSound == Init => Sound(c, parse, meant)
<1> SUFFICES ASSUME Init PROVE Sound(c, parse, meant) OBVIOUS
<1> DEFINE s == StartState
           r == StartRegistry
<1>1. c = s /\ parse = <<>> /\ meant = {} BY DEF Init
<1>2. /\ DOMAIN s = Fields /\ s.rt = r /\ s.decls = <<>> /\ s.dtors = <<>>
      /\ s.current_struct = 0 /\ s.emit = 1 /\ s.constant_id = 0 /\ s.said = {}
      /\ s.written = {} /\ s.begun = {} /\ s.forms = <<>>
      /\ DOMAIN s.text = ObjId /\ DOMAIN s.structs = ObjId /\ DOMAIN s.enums = ObjId
      /\ DOMAIN s.unnamed = {"struct", "enum"}
      /\ \A t \in ObjId :
           /\ s.structs[t] = NewStruct
           /\ s.text[t] = Plain(IF t < r.next THEN Base(r.heap[t].name) ELSE NullTerm)
  BY DEF StartState, Fields
<1>3. /\ RegOK(r) /\ r.halt = "no"
      /\ Cur(r).current_struct = 0 /\ Cur(r).tab["type"] = {}
      /\ \A t \in ObjId :
           /\ r.heap[t].pointer_to = 0 /\ r.heap[t].array0_of = 0
           /\ t < r.next => r.heap[t].kind = "intrinsic"
  BY StartRegistryOK
<1> HIDE DEF s, r
<1>4. /\ MaxObjs \in Nat /\ r.next \in Nat /\ \A t \in 1..r.next - 1 : t \in ObjId
  BY <1>3, Ranges
<1>5. /\ \A term : /\ DOMAIN Plain(term) = TextFields /\ Plain(term).term = term
                   /\ Plain(term).consts = {} /\ Plain(term).tags = {}
      /\ DOMAIN NewStruct = StructFields
  BY DEF Plain, Text, TextFields, NewStruct, StructFields
<1>6. StoreOK(s)
  <2>1. \A t \in ObjId : DOMAIN s.text[t] = TextFields /\ s.text[t].consts = {}
    BY <1>2, <1>5
  <2>2. \A t \in ObjId : DOMAIN s.structs[t] = StructFields BY <1>2, <1>5
  <2>3. QED BY <1>2, <1>3, <2>1, <2>2 DEF StoreOK
<1>7. ConstsOK(s) BY <1>2 DEF ConstsOK
<1>8. ASSUME NEW t \in 1..r.next - 1 PROVE TextOK(s, t)
  <2>1. t \in ObjId /\ t < r.next BY <1>4
  <2>2. s.text[t] = Plain(Base(r.heap[t].name)) BY <1>2, <2>1
  <2>3. /\ s.text[t].consts = {} /\ s.text[t].tags = {}
        /\ s.text[t].term = Base(r.heap[t].name)
    BY <1>5, <2>2
  <2>4. /\ r.heap[t].pointer_to = 0 /\ r.heap[t].array0_of = 0
        /\ r.heap[t].kind = "intrinsic"
    BY <1>3, <2>1
  <2>5. QED BY <1>2, <2>3, <2>4 DEF TextOK, StructKinds
<1>9. TypesOK(s) BY <1>2, <1>6, <1>7, <1>8 DEF TypesOK
<1>10. IsSeq(<<>>) /\ Len(<<>>) = 0 BY NoneIsSeq, SeqFacts
<1>11. StackInv(s, <<>>) BY <1>1, StackInit DEF s
<1>12. Held(s)
  <2>1. Shaped(s) BY <1>11 DEF StackInv
  <2>2. SaidOK(s) BY <1>2 DEF SaidOK
  <2>3. StacksTyped(s) BY <1>2, <1>10 DEF StacksTyped
  <2>4. QED BY <1>9, <2>1, <2>2, <2>3 DEF Held
<1>13. \E o : Chain(s, <<>>, o)
  <2> DEFINE o == [i \in 0..0 |-> 0]
             p == <<>>
  <2>1. o[0] = 0 OBVIOUS
  <2>2. Len(p) = 0 BY <1>10
  <2> HIDE DEF o, p
  <2>3. NOpen(p, 0) = 0 BY OpenCounts
  <2>4. Chain(s, p, o) BY <1>2, <1>3, <1>10, <2>1, <2>2, <2>3 DEF Chain
  <2>5. QED BY <2>4 DEF p
<1>14. Tied(s, <<>>)
  <2> DEFINE p == <<>>
  <2>1. Len(p) = 0 BY <1>10
  <2>2. StackInv(s, p) /\ \E o : Chain(s, p, o) BY <1>11, <1>13
  <2> HIDE DEF p
  <2>3. Places(p) /\ Linked(s, p) BY <2>1 DEF Places, Linked
  <2>4. Told(s, p) BY <1>2, <1>10, <2>1 DEF Told, Plainly
  <2>5. Tied(s, p) BY <1>12, <2>2, <2>3, <2>4 DEF Tied, Wired
  <2>6. QED BY <2>5 DEF p
<1>15. TopPrim(s, <<>>) BY <1>10 DEF TopPrim
<1>16. s.constant_id <= MaxConstants BY <1>2, CompilerAssumption
<1>17. Sound(s, <<>>, {}) BY <1>2, <1>3, <1>14, <1>15, <1>16, SoundQuiet
<1>18. QED BY <1>1, <1>17

-----------------------------------------------------------------------------
(* Every step keeps the invariant.                                         *)

LEMMA SoundStep == Sound(c, parse, meant) /\ [Next]_cvars => Sound(c', parse', meant')
<1> SUFFICES ASSUME Sound(c, parse, meant), [Next]_cvars PROVE Sound(c', parse', meant')
  OBVIOUS
<1>1. CASE UNCHANGED cvars BY <1>1 DEF cvars
<1>2. CASE DeclarationStart \/ MemberStart \/ DefinitionStart
  BY <1>2, DeclarationStartSound
<1>3. CASE DeclaratorStart \/ FunctionOpen \/ ParamStart BY <1>3, DeclaratorStartSound
<1>4. CASE StructOpen \/ EnumOpen BY <1>4, TagOpenSound
<1>5. CASE StructClose \/ EnumClose BY <1>5, TagCloseSound
<1>6. CASE StorageClass BY <1>6, StorageSound
<1>7. CASE SpecIntrinsic \/ SpecTypeName BY <1>7, SpecNameSound
<1>8. CASE SpecStruct \/ SpecEnum BY <1>8, SpecTagSound
<1>24. CASE SpecAgain BY <1>24, SpecAgainSound
<1>9. CASE MemberStop BY <1>9, MemberStopSound
<1>10. CASE EnumItem BY <1>10, EnumItemSound
<1>11. CASE Star BY <1>11, StarSound
<1>12. CASE ParenOpen \/ ParenClose BY <1>12, ParenSound
<1>13. CASE Identifier BY <1>13, IdentifierSound
<1>14. CASE ArraySuffix BY <1>14, ArraySound
<1>15. CASE SizeofSuffix BY <1>15, SizeofSound
<1>16. CASE BitField BY <1>16, BitFieldSound
<1>17. CASE ParamStop BY <1>17, ParamStopSound
<1>18. CASE FunctionClose BY <1>18, FunctionCloseSound
<1>19. CASE DeclaratorStop BY <1>19, DeclaratorStopSound
<1>20. CASE DeclarationStop BY <1>20, DeclarationStopSound
<1>21. CASE BodyOpen \/ BodyClose BY <1>21, BodySound
<1>22. CASE Finish \/ SyntaxError BY <1>22, EndSound
<1>23. QED
  BY <1>1, <1>2, <1>3, <1>4, <1>5, <1>6, <1>7, <1>8, <1>9, <1>10, <1>11, <1>12, <1>13,
     <1>14, <1>15, <1>16, <1>17, <1>18, <1>19, <1>20, <1>21, <1>22, <1>24
  DEF Next

-----------------------------------------------------------------------------
(* What the invariant says of each property.                               *)

(* The innermost struct that is open, if any, is the one that the chain    *)
(* has arrived at.                                                         *)
LEMMA InnermostStruct ==
  ASSUME NEW s, NEW p, Len(p) \in Nat, NEW o, Chain(s, p, o)
  PROVE  \/ o[Len(p)] = 0 /\ \A i \in 1..Len(p) : p[i].at # "struct"
         \/ \E i \in 1..Len(p) : /\ p[i].at = "struct" /\ o[Len(p)] = o[i]
                                 /\ \A j \in 1..Len(p) : p[j].at = "struct" => j <= i
<1> DEFINE m == Len(p)
           None(n) == o[n] = 0 /\ \A i \in 1..n : p[i].at # "struct"
           One1(n) == \E i \in 1..n : /\ p[i].at = "struct" /\ o[n] = o[i]
                                      /\ \A j \in 1..n : p[j].at = "struct" => j <= i
           K == {n \in Nat : n <= m => None(n) \/ One1(n)}
<1>1. o[0] = 0 /\ \A i \in 1..m : p[i].at # "struct" => o[i] = o[i - 1] BY DEF Chain
<1> HIDE DEF m
<1>2. 0 \in K BY <1>1
<1>3. ASSUME NEW n \in K PROVE n + 1 \in K
  <2>1. SUFFICES ASSUME n + 1 <= m PROVE None(n + 1) \/ One1(n + 1)
    OBVIOUS
  <2>2. m \in Nat BY DEF m
  <2>3. n \in Nat /\ n <= m /\ n + 1 \in 1..m /\ (n + 1) - 1 = n BY <2>1, <2>2
  <2>4. None(n) \/ One1(n) BY <2>3
  <2>5. \A i \in 1..n + 1 : i \in 1..n \/ i = n + 1 BY <2>3
  <2>6. n + 1 \in 1..n + 1 BY <2>3
  <2>7. CASE p[n + 1].at = "struct"
    <3>1. \A j \in 1..n + 1 : j <= n + 1 BY <2>3
    <3>2. One1(n + 1) BY <2>6, <2>7, <3>1
    <3>3. QED BY <3>2
  <2>8. CASE p[n + 1].at # "struct"
    <3>1. o[n + 1] = o[n] BY <1>1, <2>3, <2>8
    <3>2. CASE None(n)
      <4>1. None(n + 1) BY <2>5, <2>8, <3>1, <3>2
      <4>2. QED BY <4>1
    <3>3. CASE One1(n)
      <4>1. PICK i \in 1..n : /\ p[i].at = "struct" /\ o[n] = o[i]
                              /\ \A j \in 1..n : p[j].at = "struct" => j <= i
        BY <3>3
      <4>2. i \in 1..n + 1 BY <2>3
      <4>3. \A j \in 1..n + 1 : p[j].at = "struct" => j <= i BY <2>5, <2>8, <4>1
      <4>4. One1(n + 1) BY <3>1, <4>1, <4>2, <4>3
      <4>5. QED BY <4>4
    <3>4. QED BY <2>4, <3>2, <3>3
  <2>9. QED BY <2>7, <2>8
<1>4. K = Nat
  <2>1. K \in SUBSET Nat OBVIOUS
  <2> HIDE DEF K
  <2>2. QED BY <1>2, <1>3, <2>1, NatSetInduction
<1>5. m \in Nat /\ m <= m BY DEF m
<1>6. None(m) \/ One1(m) BY <1>4, <1>5
<1>7. QED BY <1>6 DEF m

LEMMA SoundTypes == Sound(c, parse, meant) /\ ended \in {"no", "eof", "error"} => TypeOK
<1> SUFFICES ASSUME Sound(c, parse, meant), ended \in {"no", "eof", "error"} PROVE TypeOK
  OBVIOUS
<1>1. /\ Tied(c, parse) /\ c.constant_id <= MaxConstants BY DEF Sound
<1>2. /\ RegOK(c.rt) /\ TypesOK(c) /\ StacksTyped(c) /\ Shaped(c) /\ Wired(c, parse)
  BY <1>1, TiedFacts
<1>3. /\ MaxObjs \in Nat /\ c.rt.next \in Nat /\ c.rt.next \in 1..MaxObjs + 1
  BY <1>2, Ranges
<1>4. c.rt.halt \in {"no", "abort", "segv"} BY <1>2 DEF RegOK, RegShape
<1>5. c.constant_id \in 0..MaxConstants + 3
  <2>1. c.constant_id \in Nat BY <1>2 DEF TypesOK, ConstsOK
  <2>2. MaxConstants \in Nat BY CompilerAssumption
  <2>3. QED BY <1>1, <2>1, <2>2
<1>6. \A t : t \in 0..c.rt.next - 1 => t \in Ref BY <1>3 DEF Ref
<1>7. \A i \in DOMAIN c.decls : c.decls[i].type \in Ref
  <2>1. DOMAIN c.decls = 1..Len(c.decls) BY <1>2, SeqFacts DEF Shaped
  <2>2. QED BY <1>2, <1>6, <2>1 DEF StacksTyped, DeclTyped, Prim, Typ
<1>8. \A i \in DOMAIN c.dtors : c.dtors[i].type \in Ref
  <2>1. DOMAIN c.dtors = 1..Len(c.dtors) BY <1>2, SeqFacts DEF Shaped
  <2>2. QED BY <1>2, <1>6, <2>1 DEF StacksTyped, DtorTyped, Typ
<1>9. c.current_struct \in Ref
  <2>1. PICK o : Chain(c, parse, o) BY <1>2 DEF Wired
  <2>2. c.current_struct = Cur(c.rt).current_struct BY <2>1 DEF Chain
  <2>3. Cur(c.rt).current_struct \in 0..c.rt.next - 1 BY <1>2 DEF RegOK, NamesOK
  <2>4. QED BY <1>6, <2>2, <2>3
<1>10. QED BY <1>3, <1>4, <1>5, <1>7, <1>8, <1>9 DEF TypeOK

LEMMA SoundConstants == Sound(c, parse, meant) => ConstantsDefined
<1> SUFFICES ASSUME Sound(c, parse, meant) PROVE ConstantsDefined OBVIOUS
<1>1. TypesOK(c) /\ Held(c) BY TiedFacts DEF Sound
<1>2. \A f \in c.said : f.text.consts \subseteq c.written
  BY <1>1 DEF Held, SaidOK, FormOK
<1>3. \A a, b \in c.written : a.id = b.id => a = b BY <1>1 DEF TypesOK, ConstsOK
<1>4. QED BY <1>2, <1>3 DEF ConstantsDefined

LEMMA SoundReferences == Declared /\ Sound(c, parse, meant) => NoDanglingReference
<1> SUFFICES ASSUME Declared, Sound(c, parse, meant) PROVE NoDanglingReference OBVIOUS
<1>1. Held(c) BY TiedFacts DEF Sound
<1>2. QED BY <1>1 DEF Held, SaidOK, FormOK, NoDanglingReference

LEMMA SoundWritten == Exact /\ Sound(c, parse, meant) => DeclaredAsWritten
BY DEF Sound, DeclaredAsWritten, DeclaredBy, DeclKinds

LEMMA SoundStructs == Sound(c, parse, meant) => StructStacksAgree
<1> SUFFICES ASSUME Sound(c, parse, meant) PROVE StructStacksAgree OBVIOUS
<1> DEFINE open == {i \in DOMAIN parse : parse[i].at = "struct"}
           st == c.current_struct
<1>1. Wired(c, parse) /\ Len(parse) \in Nat /\ DOMAIN parse = 1..Len(parse)
  BY TiedFacts DEF Sound
<1>2. PICK o : Chain(c, parse, o) BY <1>1 DEF Wired
<1>3. /\ st = o[Len(parse)] /\ Cur(c.rt).current_struct = st
      /\ \A i \in 1..Len(parse) :
           parse[i].at = "struct" => StructAt(c, o[i], parse[i], o[i - 1])
  BY <1>2 DEF Chain
<1>4. CASE o[Len(parse)] = 0 /\ \A i \in 1..Len(parse) : parse[i].at # "struct"
  <2>1. open = {} /\ st = 0 BY <1>1, <1>3, <1>4
  <2> HIDE DEF open, st
  <2>2. /\ st = Cur(c.rt).current_struct /\ ((open = {}) <=> (st = 0))
        /\ \A i \in open : (\A j \in open : j <= i) => c.text[st].term = parse[i].type
        /\ st # 0 => c.structs[st].prev = c.rt.heap[st].prev
    BY <1>3, <2>1
  <2>3. QED BY <2>2 DEF StructStacksAgree, open, st
<1>5. CASE \E i \in 1..Len(parse) :
             /\ parse[i].at = "struct" /\ o[Len(parse)] = o[i]
             /\ \A j \in 1..Len(parse) : parse[j].at = "struct" => j <= i
  <2>1. PICK n \in 1..Len(parse) :
              /\ parse[n].at = "struct" /\ o[Len(parse)] = o[n]
              /\ \A j \in 1..Len(parse) : parse[j].at = "struct" => j <= n
    BY <1>5
  <2>2. StructAt(c, st, parse[n], o[n - 1]) BY <1>3, <2>1
  <2>3. st \in 1..c.rt.next - 1 /\ c.text[st].term = parse[n].type
        /\ c.structs[st].prev = c.rt.heap[st].prev
    BY <2>2 DEF StructAt
  <2>4. n \in open BY <1>1, <2>1
  <2>5. st # 0 BY <2>3
  <2>6. \A i \in open : (\A j \in open : j <= i) => i = n
    <3>1. \A i \in open : i \in Nat /\ i <= n BY <1>1, <2>1
    <3>2. n \in Nat BY <1>1
    <3> HIDE DEF open
    <3>3. QED BY <2>4, <3>1, <3>2
  <2>7. st = Cur(c.rt).current_struct BY <1>3
  <2> HIDE DEF open, st
  <2>8. /\ (open = {}) <=> (st = 0)
        /\ \A i \in open : (\A j \in open : j <= i) => c.text[st].term = parse[i].type
        /\ st # 0 => c.structs[st].prev = c.rt.heap[st].prev
    BY <2>3, <2>4, <2>5, <2>6
  <2>9. QED BY <2>7, <2>8 DEF StructStacksAgree, open, st
<1>6. QED BY <1>1, <1>2, <1>4, <1>5, InnermostStruct

LEMMA SoundOutput == Sound(c, parse, meant) => OutputNests
<1> SUFFICES ASSUME Sound(c, parse, meant) PROVE OutputNests OBVIOUS
<1> DEFINE open == IF InBody THEN {}
                   ELSE {i \in DOMAIN parse :
                           \/ parse[i].at = "struct"
                           \/ parse[i].at = "enum" /\ parse[i].n > 0}
           place(i) == Cardinality({j \in open : j <= i})
<1>1. Tied(c, parse) /\ Wired(c, parse) /\ Len(parse) \in Nat /\ DOMAIN parse = 1..Len(parse)
  BY TiedFacts DEF Sound
<1>2. PICK o : Chain(c, parse, o) BY <1>1 DEF Wired
<1>3. InBody <=> c.emit = 0 BY <1>1, BodiesQuiet DEF InBody
<1>4. CASE InBody
  <2>1. c.forms = <<>> BY <1>2, <1>3, <1>4 DEF Chain
  <2>2. open = {} BY <1>4
  <2>3. Len(c.forms) = 0 BY <2>1, NoneIsSeq, SeqFacts
  <2>4. Cardinality(open) = 0 BY <2>2, FS_EmptySet
  <2> HIDE DEF open
  <2>5. /\ Len(c.forms) = Cardinality(open)
        /\ \A i \in open : c.text[c.forms[place(i)]].term = parse[i].type
    BY <2>2, <2>3, <2>4
  <2>6. QED BY <2>5 DEF OutputNests, open
<1>5. CASE ~ InBody
  <2>1. open = {i \in 1..Len(parse) : IsOpen(parse, i)} BY <1>1, <1>5 DEF IsOpen
  <2>2. /\ Len(c.forms) = NOpen(parse, Len(parse))
        /\ \A i \in 1..Len(parse) :
             IsOpen(parse, i) => c.forms[NOpen(parse, i)] = FormAt(c, parse, o, i)
    BY <1>2, <1>3, <1>5 DEF Chain
  <2> HIDE DEF open
  <2>3. \A i \in 1..Len(parse) : {j \in open : j <= i} = Upto(OpenSet(parse), i)
    BY <1>1, <2>1 DEF Upto, OpenSet
  <2>4. open = Upto(OpenSet(parse), Len(parse)) BY <1>1, <2>1 DEF Upto, OpenSet
  <2>5. \A i \in 1..Len(parse) : place(i) = NOpen(parse, i) BY <2>3 DEF NOpen
  <2>6. Len(c.forms) = Cardinality(open) BY <2>2, <2>4 DEF NOpen
  <2> HIDE DEF place
  <2>7. ASSUME NEW i \in open PROVE c.text[c.forms[place(i)]].term = parse[i].type
    <3>1. i \in 1..Len(parse) /\ IsOpen(parse, i) BY <2>1
    <3>2. c.forms[place(i)] = FormAt(c, parse, o, i) BY <2>2, <2>5, <3>1
    <3>3. CASE parse[i].at = "struct"
      <4>1. StructAt(c, o[i], parse[i], o[i - 1]) BY <1>2, <3>1, <3>3 DEF Chain
      <4>2. QED BY <3>2, <3>3, <4>1 DEF FormAt, StructAt
    <3>4. CASE parse[i].at = "enum"
      <4>1. EnumAt(c, Cur(c.rt).current_enum, parse[i]) BY <1>2, <3>1, <3>4 DEF Chain
      <4>2. QED BY <3>2, <3>4, <4>1 DEF FormAt, EnumAt
    <3>5. QED BY <3>1, <3>3, <3>4 DEF IsOpen
  <2>8. QED BY <2>6, <2>7 DEF OutputNests, open, place
<1>6. QED BY <1>4, <1>5

-----------------------------------------------------------------------------

(* What the semantic actions of the grammar (c.y), the registry (ggrt.c)   *)
(* and the output (output.c) keep together, for any declarations however   *)
(* nested: the state is tied to the grammar positions that are open, no    *)
(* more constants were given than MaxConstants, without the unresolvable   *)
(* names nothing stops, and what was written is what the step declared.    *)
THEOREM AlwaysSound == Spec => [](Sound(c, parse, meant) /\ ended \in {"no", "eof", "error"})
<1> DEFINE Inv == Sound(c, parse, meant) /\ ended \in {"no", "eof", "error"}
<1>1. Init => Inv BY StartSound DEF Init
<1>2. Inv /\ [Next]_cvars => Inv'
  <2> SUFFICES ASSUME Inv, [Next]_cvars PROVE Inv' OBVIOUS
  <2>1. Sound(c, parse, meant)' BY SoundStep
  <2>2. ended' \in {"no", "eof", "error"}
    BY DEF Next, cvars, Reduce, DeclarationStart, StorageClass, DeclarationStop,
           SpecIntrinsic, SpecAgain, SpecifiedAgain, SpecTypeName, SpecStruct, SpecEnum,
           StructOpen, MemberStart,
           MemberStop, StructClose, EnumOpen, EnumItem, EnumClose, DeclaratorStart, Star,
           ParenOpen, ParenClose, Identifier, ArraySuffix, SizeofSuffix, BitField,
           DeclaratorStop, FunctionOpen, ParamStart, ParamStop, FunctionClose,
           DefinitionStart, BodyOpen, BodyClose, Finish, SyntaxError
  <2>3. QED BY <2>1, <2>2
<1>3. Inv => Inv OBVIOUS
<1> HIDE DEF Inv
<1>4. Spec => []Inv BY <1>1, <1>2, PTL DEF Spec
<1>5. QED BY <1>4 DEF Inv

(* Every variable keeps its type, whatever is parsed and wherever it       *)
(* stops: the invariant is about every state, those of errors included.    *)
THEOREM TypesAlwaysOK == Spec => []TypeOK
<1> DEFINE Inv == Sound(c, parse, meant) /\ ended \in {"no", "eof", "error"}
<1>1. Spec => []Inv BY AlwaysSound
<1>2. Inv => TypeOK BY SoundTypes
<1> HIDE DEF Inv
<1>3. QED BY <1>1, <1>2, PTL

(* A form that output.c writes mentions only constants written before it,  *)
(* and no two constants ever share an identifier (gghc_constant counts     *)
(* them in the order they are written).                                    *)
THEOREM ConstantsAlwaysDefined == Spec => []ConstantsDefined
<1> DEFINE Inv == Sound(c, parse, meant) /\ ended \in {"no", "eof", "error"}
<1>1. Spec => []Inv BY AlwaysSound
<1>2. Inv => ConstantsDefined BY SoundConstants
<1> HIDE DEF Inv
<1>3. QED BY <1>1, <1>2, PTL

(* The chain of struct definitions the compiler keeps                      *)
(* (gghc_struct_type_begin and _end), the one of the registry              *)
(* (ggrt_struct_type_begin and _end) and the bodies open in the grammar    *)
(* are one stack.                                                          *)
THEOREM StructStacksAlwaysAgree == Spec => []StructStacksAgree
<1> DEFINE Inv == Sound(c, parse, meant) /\ ended \in {"no", "eof", "error"}
<1>1. Spec => []Inv BY AlwaysSound
<1>2. Inv => StructStacksAgree BY SoundStructs
<1> HIDE DEF Inv
<1>3. QED BY <1>1, <1>2, PTL

(* The forms output.c has begun and not ended are those of the struct and  *)
(* enum bodies that are open, in their order, and none in function         *)
(* bodies.                                                                 *)
THEOREM OutputAlwaysNests == Spec => []OutputNests
<1> DEFINE Inv == Sound(c, parse, meant) /\ ended \in {"no", "eof", "error"}
<1>1. Spec => []Inv BY AlwaysSound
<1>2. Inv => OutputNests BY SoundOutput
<1> HIDE DEF Inv
<1>3. QED BY <1>1, <1>2, PTL

(* When no tag is used before its declaration, no form mentions the        *)
(* variable of a struct or enum before the form that declares it.          *)
THEOREM NothingDangles ==
  Declared => (Spec => []NoDanglingReference)
<1> SUFFICES ASSUME Declared PROVE Spec => []NoDanglingReference OBVIOUS
<1> DEFINE Inv == Sound(c, parse, meant) /\ ended \in {"no", "eof", "error"}
<1>1. Spec => []Inv BY AlwaysSound
<1>2. Inv => NoDanglingReference BY SoundReferences
<1> HIDE DEF Inv
<1>3. QED BY <1>1, <1>2, PTL

LEMMA SoundAsserts == Resolved /\ Sound(c, parse, meant) => NoAssertFails
BY DEF Sound, NoAssertFails

(* Without typedef names as types, references to enum tags and unnamed     *)
(* bit-fields, no assert of ggrt.c or output.c fails, nothing aborts and   *)
(* no NULL is followed, for any other input.                               *)
THEOREM NothingAsserts ==
  Resolved => (Spec => []NoAssertFails)
<1> SUFFICES ASSUME Resolved PROVE Spec => []NoAssertFails OBVIOUS
<1> DEFINE Inv == Sound(c, parse, meant) /\ ended \in {"no", "eof", "error"}
<1>1. Spec => []Inv BY AlwaysSound
<1>2. Inv => NoAssertFails BY SoundAsserts
<1> HIDE DEF Inv
<1>3. QED BY <1>1, <1>2, PTL

(* Every variable, function, typedef and member is written with the type   *)
(* that its declaration gives it in C, for all inputs made of the          *)
(* constructs that Exact leaves: pointers, arrays, functions, structs,     *)
(* unions, enums, bit-fields and bodies in each other, and basic types of  *)
(* one specifier or of several when the code keeps the right one.  With    *)
(* each of the others the code writes another type, and the property is    *)
(* false: those above, tags used before their declaration, a second        *)
(* expression as a length, a sizeof in a length, declarators in            *)
(* parentheses, (void), and "long unsigned int".                           *)
THEOREM AlwaysDeclaredAsWritten ==
  Exact => (Spec => []DeclaredAsWritten)
<1> SUFFICES ASSUME Exact PROVE Spec => []DeclaredAsWritten OBVIOUS
<1> DEFINE Inv == Sound(c, parse, meant) /\ ended \in {"no", "eof", "error"}
<1>1. Spec => []Inv BY AlwaysSound
<1>2. Inv => DeclaredAsWritten BY SoundWritten
<1> HIDE DEF Inv
<1>3. QED BY <1>1, <1>2, PTL
=============================================================================
