--------------------------- MODULE CompilerProofs ---------------------------
(***************************************************************************)
(* Proofs about the header compiler (Compiler), for inputs of any length   *)
(* and any nesting, with every construct of the grammar.                   *)
(*                                                                         *)
(* First, the declaration and declarator stacks mirror the open grammar    *)
(* positions.  The invariant says how deep both stacks were at every open  *)
(* position, not only at the innermost, so that closing a position brings  *)
(* back what held when it was opened; and what may lie under what, so that *)
(* a list is never closed at the bottom.  Nothing is needed about the      *)
(* registry: the operators on types leave the stacks alone (Untouched),    *)
(* those on declarations change elements only (Keeps), and both of the     *)
(* folds, over dimensions and over declarators, keep what each of their    *)
(* steps keeps.                                                            *)
(*                                                                         *)
(* Then, layer by layer, what every operator of the compiler keeps: the    *)
(* registry (RegOK) and the ways it grows (Extends), the texts of its      *)
(* types (StoreOK, TextOK, TypesOK), the types that declarations and       *)
(* declarators hold (Held), and the chain of the structs and enums that    *)
(* are open (Chain).  CompilerInvariantProofs builds the inductive         *)
(* invariant of the steps from them.                                       *)
(***************************************************************************)
EXTENDS Compiler, SetInduction, SequenceTheorems

-----------------------------------------------------------------------------
(* Sequences of anything.                                                  *)

IsSeq(x) == \E S : x \in Seq(S)

LEMMA SeqFacts ==
  ASSUME NEW x, IsSeq(x)
  PROVE  Len(x) \in Nat /\ DOMAIN x = 1..Len(x) /\ (x = <<>> <=> Len(x) = 0)
BY DEF IsSeq

LEMMA NoneIsSeq == IsSeq(<<>>)
<1>1. <<>> \in Seq({}) OBVIOUS
<1>2. \A y : y \in Seq({}) => IsSeq(y) BY DEF IsSeq
<1>3. QED BY <1>1, <1>2

LEMMA Appended ==
  ASSUME NEW x, IsSeq(x), NEW v
  PROVE  LET y == Append(x, v)
         IN  /\ IsSeq(y) /\ Len(y) = Len(x) + 1 /\ y[Len(x) + 1] = v
             /\ \A i \in 1..Len(x) : y[i] = x[i]
<1>1. PICK S : x \in Seq(S) BY DEF IsSeq
<1> DEFINE T == S \cup {v}
<1>2. x \in Seq(T) BY <1>1
<1>3. v \in T OBVIOUS
<1> HIDE DEF T
<1>4. Append(x, v) \in Seq(T) BY <1>2, <1>3
<1>5. /\ Len(Append(x, v)) = Len(x) + 1 /\ Append(x, v)[Len(x) + 1] = v
      /\ \A i \in 1..Len(x) : Append(x, v)[i] = x[i]
  BY <1>2, <1>3
<1>6. QED BY <1>4, <1>5 DEF IsSeq

LEMMA Fronted ==
  ASSUME NEW x, IsSeq(x), Len(x) >= 1
  PROVE  LET y == Front(x)
         IN  /\ IsSeq(y) /\ Len(y) = Len(x) - 1
             /\ \A i \in 1..Len(x) - 1 : y[i] = x[i]
<1>1. PICK S : x \in Seq(S) BY DEF IsSeq
<1>2. Len(x) - 1 \in Nat /\ DOMAIN x = 1..Len(x) /\ \A i \in 1..Len(x) : x[i] \in S BY <1>1
<1>3. \A i \in 1..Len(x) - 1 : x[i] \in S BY <1>2
<1>4. Front(x) \in Seq(S) BY <1>2, <1>3 DEF Front
<1>5. Len(Front(x)) = Len(x) - 1 /\ \A i \in 1..Len(x) - 1 : Front(x)[i] = x[i]
  BY <1>2 DEF Front
<1>6. QED BY <1>4, <1>5 DEF IsSeq

LEMMA Replaced ==
  ASSUME NEW x, IsSeq(x), NEW n, NEW v, NEW y, y = [x EXCEPT ![n] = v]
  PROVE  IsSeq(y)
<1>1. PICK S : x \in Seq(S) BY DEF IsSeq
<1> DEFINE T == S \cup {v}
<1>2. Len(x) \in Nat /\ DOMAIN x = 1..Len(x) /\ \A i \in 1..Len(x) : x[i] \in T BY <1>1
<1>3. y = [i \in 1..Len(x) |-> IF i = n THEN v ELSE x[i]] BY <1>2
<1>4. v \in T OBVIOUS
<1> HIDE DEF T
<1>5. y \in [1..Len(x) -> T] BY <1>2, <1>3, <1>4
<1>6. y \in Seq(T) BY <1>2, <1>5
<1>7. QED BY <1>6 DEF IsSeq

(* The fields of the compiler's state.                                     *)
Fields == {"rt", "text", "decls", "dtors", "structs", "current_struct", "enums", "emit",
           "constant_id", "unnamed", "failed", "said", "written", "begun", "forms"}

-----------------------------------------------------------------------------
(* Counting the grammar positions of a kind among the first n.             *)

FrameFields == {"at", "phase", "n", "type", "inner", "storage", "name", "params",
                "types", "declares"}

DeclaresAt(p, i) == p[i].at \in {"decl", "sdecl", "pdecl", "fdef"}
DeclaratorAt(p, i) ==
  p[i].at = "pdecl" \/ (p[i].at = "dtor" /\ (i = 1 \/ p[i - 1].at # "pdecl"))
BodyAt(p, i) == p[i].at = "body"

(* The members of K among the first n.                                     *)
Upto(K, n) == {i \in 1..n : i \in K}

LEMMA CountStep ==
  ASSUME NEW n \in Nat, NEW K
  PROVE  /\ Cardinality(Upto(K, n)) \in Nat
         /\ Cardinality(Upto(K, n + 1)) =
              Cardinality(Upto(K, n)) + (IF n + 1 \in K THEN 1 ELSE 0)
<1>1. IsFiniteSet(Upto(K, n))
  <2>1. IsFiniteSet(1..n) BY FS_Interval
  <2>2. Upto(K, n) \subseteq 1..n BY DEF Upto
  <2>3. QED BY <2>1, <2>2, FS_Subset
<1>2. Cardinality(Upto(K, n)) \in Nat BY <1>1, FS_CardinalityType
<1>3. CASE n + 1 \in K
  <2>1. Upto(K, n + 1) = Upto(K, n) \cup {n + 1} BY <1>3 DEF Upto
  <2>2. n + 1 \notin Upto(K, n) BY DEF Upto
  <2>3. Cardinality(Upto(K, n + 1)) = Cardinality(Upto(K, n)) + 1
    BY <1>1, <2>1, <2>2, FS_AddElement
  <2>4. QED BY <1>2, <1>3, <2>3
<1>4. CASE n + 1 \notin K
  <2>1. Upto(K, n + 1) = Upto(K, n) BY <1>4 DEF Upto
  <2>2. QED BY <1>2, <1>4, <2>1
<1>5. QED BY <1>3, <1>4

LEMMA CountGrows ==
  ASSUME NEW n \in Nat, NEW m \in 0..n, NEW K
  PROVE  Cardinality(Upto(K, m)) <= Cardinality(Upto(K, n))
<1>1. IsFiniteSet(Upto(K, n))
  <2>1. IsFiniteSet(1..n) BY FS_Interval
  <2>2. Upto(K, n) \subseteq 1..n BY DEF Upto
  <2>3. QED BY <2>1, <2>2, FS_Subset
<1>2. Upto(K, m) \subseteq Upto(K, n) BY DEF Upto
<1>3. QED BY <1>1, <1>2, FS_Subset

DeclSet(p) == {i \in Nat : DeclaresAt(p, i)}
DtorSet(p) == {i \in Nat : DeclaratorAt(p, i)}
BodySet(p) == {i \in Nat : BodyAt(p, i)}

NDecl(p, n) == Cardinality(Upto(DeclSet(p), n))
NDtor(p, n) == Cardinality(Upto(DtorSet(p), n))
NBody(p, n) == Cardinality(Upto(BodySet(p), n))

One(b) == IF b THEN 1 ELSE 0

LEMMA Counts ==
  ASSUME NEW p, NEW n \in Nat
  PROVE  /\ NDecl(p, n) \in Nat /\ NDtor(p, n) \in Nat /\ NBody(p, n) \in Nat
         /\ NDecl(p, n + 1) = NDecl(p, n) + One(DeclaresAt(p, n + 1))
         /\ NDtor(p, n + 1) = NDtor(p, n) + One(DeclaratorAt(p, n + 1))
         /\ NBody(p, n + 1) = NBody(p, n) + One(BodyAt(p, n + 1))
<1>1. n + 1 \in Nat OBVIOUS
<1>2. /\ n + 1 \in DeclSet(p) <=> DeclaresAt(p, n + 1)
      /\ n + 1 \in DtorSet(p) <=> DeclaratorAt(p, n + 1)
      /\ n + 1 \in BodySet(p) <=> BodyAt(p, n + 1)
  BY <1>1 DEF DeclSet, DtorSet, BodySet
<1>3. QED BY <1>2, CountStep DEF NDecl, NDtor, NBody, One

LEMMA CountsOfNone ==
  ASSUME NEW p
  PROVE  NDecl(p, 0) = 0 /\ NDtor(p, 0) = 0 /\ NBody(p, 0) = 0
<1>1. \A K : Upto(K, 0) = {} BY DEF Upto
<1>2. QED BY <1>1, FS_EmptySet DEF NDecl, NDtor, NBody

SameAts(p, q, n) == \A i \in 1..n : q[i].at = p[i].at

LEMMA CountsSame ==
  ASSUME NEW p, NEW q, NEW n \in Nat, SameAts(p, q, n), NEW m \in 0..n
  PROVE  NDecl(q, m) = NDecl(p, m) /\ NDtor(q, m) = NDtor(p, m) /\ NBody(q, m) = NBody(p, m)
<1>1. \A i \in 1..m : q[i].at = p[i].at BY DEF SameAts
<1>2. \A i \in 1..m : i # 1 => q[i - 1].at = p[i - 1].at BY DEF SameAts
<1>3. \A i \in 1..m : /\ DeclaresAt(q, i) <=> DeclaresAt(p, i)
                      /\ DeclaratorAt(q, i) <=> DeclaratorAt(p, i)
                      /\ BodyAt(q, i) <=> BodyAt(p, i)
  BY <1>1, <1>2 DEF DeclaresAt, DeclaratorAt, BodyAt
<1>4. /\ Upto(DeclSet(q), m) = Upto(DeclSet(p), m)
      /\ Upto(DtorSet(q), m) = Upto(DtorSet(p), m)
      /\ Upto(BodySet(q), m) = Upto(BodySet(p), m)
  BY <1>3 DEF Upto, DeclSet, DtorSet, BodySet
<1>5. QED BY <1>4 DEF NDecl, NDtor, NBody

-----------------------------------------------------------------------------
(* The inductive invariant: the shape of the stacks and of the open        *)
(* grammar positions, what lies under what, and how deep the stacks are    *)
(* at every open position, not only at the innermost.                      *)

DtorFields == {"type", "identifier", "parenthised", "bits", "declaration"}
DeclFields == {"type", "storage", "declarators"}

Shaped(s) ==
  /\ DOMAIN s = Fields
  /\ IsSeq(s.decls) /\ IsSeq(s.dtors)
  /\ \A i \in 1..Len(s.decls) : DOMAIN s.decls[i] = DeclFields /\ IsSeq(s.decls[i].declarators)
  /\ \A i \in 1..Len(s.dtors) : DOMAIN s.dtors[i] = DtorFields

Nests(p) ==
  /\ IsSeq(p)
  /\ \A i \in 1..Len(p) :
       /\ DOMAIN p[i] = FrameFields
       /\ p[i].at \in {"struct", "enum", "params", "pdecl"} => i > 1
       /\ p[i].at = "body" => i > 1 /\ p[i - 1].at = "fdef"

Mirrors(s, p) ==
  /\ Len(s.decls) = NDecl(p, Len(p))
  /\ Len(s.dtors) = NDtor(p, Len(p))
  /\ s.emit = 1 - NBody(p, Len(p))
  /\ \A i \in 1..Len(p) :
       p[i].at \in {"pdecl", "dtor"} =>
         /\ NDtor(p, i) \in 1..Len(s.dtors)
         /\ s.dtors[NDtor(p, i)].declaration = NDecl(p, i)

StackInv(s, p) == Shaped(s) /\ Nests(p) /\ Mirrors(s, p)

(* k has the stacks of s, up to the contents of their elements.            *)
Keeps(s, k) ==
  /\ Shaped(k) /\ k.emit = s.emit
  /\ Len(k.decls) = Len(s.decls) /\ Len(k.dtors) = Len(s.dtors)
  /\ \A i \in 1..Len(s.dtors) : k.dtors[i].declaration = s.dtors[i].declaration

LEMMA MirrorsStay ==
  ASSUME NEW s, NEW p, StackInv(s, p), NEW k, Keeps(s, k),
         NEW q, Nests(q), Len(q) = Len(p), SameAts(p, q, Len(p))
  PROVE  StackInv(k, q)
<1>1. Len(p) \in Nat BY SeqFacts DEF StackInv, Nests
<1>2. \A m \in 0..Len(p) : NDecl(q, m) = NDecl(p, m) /\ NDtor(q, m) = NDtor(p, m)
                           /\ NBody(q, m) = NBody(p, m)
  BY <1>1, CountsSame
<1>3. \A i \in 1..Len(p) : q[i].at = p[i].at BY DEF SameAts
<1>4. Mirrors(k, q) BY <1>1, <1>2, <1>3 DEF StackInv, Mirrors, Keeps
<1>5. QED BY <1>4 DEF StackInv, Keeps

(* A position f is opened on p, which becomes q, and s becomes k.          *)
Pushes(s, p, f, k, q) ==
  /\ q = Append(p, f) /\ Nests(q) /\ Shaped(k)
  /\ Len(k.decls) = Len(s.decls) + One(DeclaresAt(q, Len(p) + 1))
  /\ Len(k.dtors) = Len(s.dtors) + One(DeclaratorAt(q, Len(p) + 1))
  /\ k.emit = s.emit - One(BodyAt(q, Len(p) + 1))
  /\ \A i \in 1..Len(s.dtors) : k.dtors[i].declaration = s.dtors[i].declaration
  /\ f.at \in {"pdecl", "dtor"} =>
       Len(k.dtors) >= 1 /\ k.dtors[Len(k.dtors)].declaration = Len(k.decls)

LEMMA MirrorsPush ==
  ASSUME NEW s, NEW p, StackInv(s, p), NEW f, NEW q, NEW k, Pushes(s, p, f, k, q)
  PROVE  StackInv(k, q)
<1> USE DEF Pushes
<1> DEFINE n == Len(p)
<1>1. n \in Nat /\ IsSeq(p) BY SeqFacts DEF StackInv, Nests
<1>2. Len(q) = n + 1 /\ q[n + 1] = f /\ \A i \in 1..n : q[i] = p[i] BY <1>1, Appended
<1>3. SameAts(p, q, n) BY <1>2 DEF SameAts
<1>4. \A m \in 0..n : NDecl(q, m) = NDecl(p, m) /\ NDtor(q, m) = NDtor(p, m)
                      /\ NBody(q, m) = NBody(p, m)
  BY <1>1, <1>3, CountsSame
<1>5. /\ NDecl(q, n + 1) = NDecl(p, n) + One(DeclaresAt(q, n + 1))
      /\ NDtor(q, n + 1) = NDtor(p, n) + One(DeclaratorAt(q, n + 1))
      /\ NBody(q, n + 1) = NBody(p, n) + One(BodyAt(q, n + 1))
      /\ NBody(p, n) \in Nat
  <2>1. n \in 0..n BY <1>1
  <2>2. NDecl(q, n) = NDecl(p, n) /\ NDtor(q, n) = NDtor(p, n) /\ NBody(q, n) = NBody(p, n)
    BY <1>4, <2>1
  <2> HIDE DEF n
  <2>3. QED BY <1>1, <2>2, Counts
<1>6. /\ Len(k.decls) = NDecl(q, n + 1) /\ Len(k.dtors) = NDtor(q, n + 1)
  BY <1>5 DEF StackInv, Mirrors
<1>7. k.emit = 1 - NBody(q, n + 1)
  <2>1. One(BodyAt(q, n + 1)) \in Nat BY DEF One
  <2>2. s.emit = 1 - NBody(p, n) BY DEF StackInv, Mirrors
  <2>3. QED BY <1>5, <2>1, <2>2
<1>8. ASSUME NEW i \in 1..n + 1, q[i].at \in {"pdecl", "dtor"}
      PROVE  NDtor(q, i) \in 1..Len(k.dtors) /\ k.dtors[NDtor(q, i)].declaration = NDecl(q, i)
  <2>1. CASE i = n + 1
    <3>1. Len(k.dtors) \in Nat BY SeqFacts DEF Shaped
    <3>2. QED BY <1>2, <1>6, <1>8, <2>1, <3>1
  <2>2. CASE i # n + 1
    <3>1. i \in 1..n BY <1>1, <2>2
    <3>2. NDtor(q, i) \in 1..Len(s.dtors) /\ s.dtors[NDtor(q, i)].declaration = NDecl(q, i)
      BY <1>2, <1>4, <1>8, <3>1 DEF StackInv, Mirrors
    <3>3. Len(s.dtors) \in Nat /\ One(DeclaratorAt(q, n + 1)) \in Nat
      BY SeqFacts DEF StackInv, Shaped, One
    <3>4. QED BY <3>2, <3>3
  <2>3. QED BY <2>1, <2>2
<1>9. Mirrors(k, q) BY <1>2, <1>6, <1>7, <1>8 DEF Mirrors
<1>10. QED BY <1>9 DEF StackInv

(* The innermost position of p is closed, and s becomes k.                 *)
Pops(s, p, k) ==
  /\ Len(p) >= 1 /\ Shaped(k)
  /\ Len(k.decls) = Len(s.decls) - One(DeclaresAt(p, Len(p)))
  /\ Len(k.dtors) = Len(s.dtors) - One(DeclaratorAt(p, Len(p)))
  /\ k.emit = s.emit + One(BodyAt(p, Len(p)))
  /\ \A i \in 1..Len(k.dtors) : k.dtors[i].declaration = s.dtors[i].declaration

LEMMA MirrorsPop ==
  ASSUME NEW s, NEW p, StackInv(s, p), NEW k, Pops(s, p, k)
  PROVE  /\ StackInv(k, Front(p)) /\ Len(Front(p)) = Len(p) - 1
         /\ \A i \in 1..Len(Front(p)) : Front(p)[i] = p[i]
<1> USE DEF Pops
<1> DEFINE n == Len(p) - 1
           q == Front(p)
<1>1. n \in Nat /\ IsSeq(p) /\ Len(p) = n + 1 BY SeqFacts DEF StackInv, Nests
<1>2. IsSeq(q) /\ Len(q) = n /\ \A i \in 1..n : q[i] = p[i] BY <1>1, Fronted
<1> HIDE DEF n, q
<1>3. SameAts(p, q, n) BY <1>2 DEF SameAts
<1>4. \A m \in 0..n : NDecl(q, m) = NDecl(p, m) /\ NDtor(q, m) = NDtor(p, m)
                      /\ NBody(q, m) = NBody(p, m)
  BY <1>1, <1>3, CountsSame
<1>5. /\ NDecl(p, n + 1) = NDecl(q, n) + One(DeclaresAt(p, n + 1))
      /\ NDtor(p, n + 1) = NDtor(q, n) + One(DeclaratorAt(p, n + 1))
      /\ NBody(p, n + 1) = NBody(q, n) + One(BodyAt(p, n + 1))
      /\ NBody(q, n) \in Nat /\ NDecl(q, n) \in Nat /\ NDtor(q, n) \in Nat
  BY <1>1, <1>4, Counts
<1>6. \A b : One(b) \in Nat BY DEF One
<1>7. /\ Len(k.decls) = NDecl(q, n) /\ Len(k.dtors) = NDtor(q, n)
  <2>1. Len(s.decls) = NDecl(p, n + 1) /\ Len(s.dtors) = NDtor(p, n + 1)
    BY <1>1 DEF StackInv, Mirrors
  <2>2. QED BY <1>1, <1>5, <1>6, <2>1
<1>8. k.emit = 1 - NBody(q, n)
  <2>1. s.emit = 1 - NBody(p, n + 1) BY <1>1 DEF StackInv, Mirrors
  <2>2. QED BY <1>1, <1>5, <1>6, <2>1
<1>9. ASSUME NEW i \in 1..n, q[i].at \in {"pdecl", "dtor"}
      PROVE  NDtor(q, i) \in 1..Len(k.dtors) /\ k.dtors[NDtor(q, i)].declaration = NDecl(q, i)
  <2>1. i \in 1..Len(p) /\ i \in 0..n BY <1>1
  <2>2. NDtor(p, i) \in 1..Len(s.dtors) /\ s.dtors[NDtor(p, i)].declaration = NDecl(p, i)
    BY <1>2, <1>9, <2>1 DEF StackInv, Mirrors
  <2>3. NDtor(q, i) <= NDtor(q, n) BY <1>1, <2>1, CountGrows DEF NDtor
  <2>4. NDtor(q, i) \in 1..Len(k.dtors) BY <1>4, <1>5, <1>7, <2>1, <2>2, <2>3
  <2>5. QED BY <1>4, <2>1, <2>2, <2>4
<1>10. Mirrors(k, q) BY <1>2, <1>7, <1>8, <1>9 DEF Mirrors
<1>11. Nests(q)
  <2>1. \A i \in 1..n : i \in 1..Len(p) BY <1>1
  <2>2. \A i \in 1..n : i > 1 => i - 1 \in 1..n BY <1>1
  <2>3. QED BY <1>2, <2>1, <2>2 DEF StackInv, Nests
<1>12. StackInv(k, q) /\ Len(q) = Len(p) - 1 /\ \A i \in 1..Len(q) : q[i] = p[i]
  BY <1>1, <1>2, <1>10, <1>11 DEF StackInv
<1>13. QED BY <1>12 DEF q

-----------------------------------------------------------------------------
(* The operators on types, structs, enums and outputs leave the stacks.    *)

Untouched(s, k) ==
  DOMAIN k = Fields /\ k.decls = s.decls /\ k.dtors = s.dtors /\ k.emit = s.emit

LEMMA UntouchedKeeps ==
  ASSUME NEW s, Shaped(s), NEW k, Untouched(s, k)
  PROVE  Keeps(s, k)
BY DEF Shaped, Untouched, Keeps

LEMMA UntouchedTwice ==
  ASSUME NEW s, NEW k, NEW l, Untouched(s, k), Untouched(k, l)
  PROVE  Untouched(s, l)
BY DEF Untouched

LEMMA SmallSteps ==
  ASSUME NEW s, DOMAIN s = Fields
  PROVE  /\ \A how : Untouched(s, Stop(s, how))
         /\ \A form : Untouched(s, Say(s, form))
         /\ \A op, name, of : Untouched(s, Constant(s, op, name, of))
         /\ \A len : Untouched(s, AfterLength(s, len))
         /\ \A t : Untouched(s, OpenForm(s, t))
         /\ Untouched(s, CloseForm(s))
<1>1. \A how : Untouched(s, Stop(s, how)) BY DEF Untouched, Stop, Fields
<1>2. \A form : Untouched(s, Say(s, form)) BY DEF Untouched, Say, Fields
<1>3. \A op, name, of : Untouched(s, Constant(s, op, name, of)) BY DEF Untouched, Constant, Fields
<1>4. \A len : Untouched(s, AfterLength(s, len))
  <2>1. Untouched(s, s) BY DEF Untouched
  <2>2. QED BY <1>3, <2>1 DEF AfterLength
<1>5. \A t : Untouched(s, OpenForm(s, t)) BY DEF Untouched, OpenForm, Fields
<1>6. Untouched(s, CloseForm(s)) BY DEF Untouched, CloseForm, Fields
<1>7. QED BY <1>1, <1>2, <1>3, <1>4, <1>5, <1>6

LEMMA DerivedTypes ==
  ASSUME NEW s, DOMAIN s = Fields
  PROVE  /\ \A t : Untouched(s, MakePointer(s, t))
         /\ \A t, len : Untouched(s, MakeArray(s, t, len))
         /\ \A t, len : Untouched(s, MakeBitfield(s, t, len))
         /\ \A rtn, params : Untouched(s, MakeFunction(s, rtn, params))
<1>1. \A t : Untouched(s, MakePointer(s, t))
  <2>1. Untouched(s, s) BY DEF Untouched
  <2>2. \A t : Untouched(s, [s EXCEPT !.rt = Pointer(@, t), !.text[s.rt.next] = PointerText(s, t)])
    BY DEF Untouched, Fields
  <2>3. QED BY <2>1, <2>2, SmallSteps DEF MakePointer
<1>2. ASSUME NEW t, NEW len PROVE Untouched(s, MakeArray(s, t, len))
  <2> DEFINE k == AfterLength(s, len)
             v == LengthValue(len)
             a == ArrayRef(k.rt, t, v)
             u == IF ArrayCached(k.rt, t, v) \/ k.rt.heap[t].pointer_to # 0 THEN k
                  ELSE [k EXCEPT !.text[a + 1] = PointerText(k, t)]
             w == [u EXCEPT !.rt = Array(@, t, v),
                     !.text[a] = Text(ArrayOf(k.text[t].term, len),
                                      k.text[t].consts \cup LengthUses(s, len),
                                      k.text[t].tags)]
  <2>1. Untouched(s, k) BY SmallSteps
  <2>2. MakeArray(s, t, len) = IF IsBogus(s, t) THEN Stop(s, "segv") ELSE w
    BY DEF MakeArray
  <2> HIDE DEF k, v, a
  <2>3. Untouched(s, u) BY <2>1 DEF Untouched, Fields
  <2> HIDE DEF u
  <2>4. Untouched(s, w) BY <2>3 DEF Untouched, Fields
  <2> HIDE DEF w
  <2>5. QED BY <2>2, <2>4, SmallSteps
<1>3. ASSUME NEW t, NEW len PROVE Untouched(s, MakeBitfield(s, t, len))
  <2>1. Untouched(s, AfterLength(s, len)) BY SmallSteps
  <2>2. QED BY <2>1 DEF MakeBitfield, Untouched, Fields
<1>4. \A rtn, params : Untouched(s, MakeFunction(s, rtn, params))
  BY DEF MakeFunction, Untouched, Fields
<1>5. QED BY <1>1, <1>2, <1>3, <1>4

LEMMA StructSteps ==
  ASSUME NEW s, DOMAIN s = Fields
  PROVE  /\ \A st : Untouched(s, MakeStruct(s, st))
         /\ \A su, name : Untouched(s, BeginStruct(s, su, name))
         /\ Untouched(s, EndStruct(s))
<1>1. \A x : DOMAIN x = Fields => \A st : Untouched(x, MakeStruct(x, st))
  BY DEF MakeStruct, Untouched, Fields
<1>2. ASSUME NEW su, NEW name PROVE Untouched(s, BeginStruct(s, su, name))
  <2> DEFINE st == StructRef(s.rt, su, name)
             a == [s EXCEPT !.rt = Struct(@, su, name)]
             k == MakeStruct(a, st)
             l == [k EXCEPT !.structs[st].prev = k.current_struct, !.current_struct = st]
  <2>1. BeginStruct(s, su, name) = OpenForm(l, st) BY DEF BeginStruct
  <2>2. Untouched(s, a) BY DEF Untouched, Fields
  <2> HIDE DEF a, st
  <2>3. Untouched(a, k) BY <1>1, <2>2 DEF Untouched
  <2> HIDE DEF k
  <2>4. Untouched(k, l) BY <2>3 DEF Untouched, Fields
  <2> HIDE DEF l
  <2>5. Untouched(l, OpenForm(l, st)) BY <2>4, SmallSteps DEF Untouched
  <2>6. QED BY <2>1, <2>2, <2>3, <2>4, <2>5 DEF Untouched
<1>3. Untouched(s, EndStruct(s))
  <2> DEFINE st == Cur(s.rt).current_struct
             l == [s EXCEPT !.rt = StructEnd(@, st), !.current_struct = s.structs[st].prev]
  <2>1. EndStruct(s) = IF st # s.current_struct THEN Stop(s, "abort") ELSE CloseForm(l)
    BY DEF EndStruct
  <2>2. Untouched(s, l) BY DEF Untouched, Fields
  <2> HIDE DEF l, st
  <2>3. Untouched(l, CloseForm(l)) BY <2>2, SmallSteps DEF Untouched
  <2>4. Untouched(s, CloseForm(l)) BY <2>2, <2>3 DEF Untouched
  <2>5. QED BY <2>1, <2>4, SmallSteps
<1>4. QED BY <1>1, <1>2, <1>3

LEMMA MemberStep ==
  ASSUME NEW s, DOMAIN s = Fields, NEW d
  PROVE  Untouched(s, Member(s, d))
<1> DEFINE st == s.current_struct
           t  == s.rt.heap[st]
           tag   == s.text[st].term
           named == t.name # NoName
           a == [s EXCEPT !.rt = StructElem(@, st, d.identifier, d.type)]
           size == named /\ s.structs[st].nelem = 0
           b == Constant(a, "sizeof", NoName, tag)
           form == Form("sizeof", NoName,
                        Text(NullTerm, {NextConstant(a, "sizeof", NoName, tag)}, {tag}))
           k == IF size THEN Say(b, form) ELSE a
           offset == named /\ d.bits = Literal(0)
           l == IF offset THEN Constant(k, "offsetof", d.identifier, tag) ELSE k
           uses == IF offset THEN {NextConstant(k, "offsetof", d.identifier, tag)} ELSE {}
           m == [l EXCEPT !.structs[st].nelem = @ + 1]
           element == Form("element", d.identifier,
                           [s.text[d.type] EXCEPT !.consts = @ \cup uses])
<1>1. Member(s, d) = Say(m, element) BY DEF Member
<1> HIDE DEF st, tag, form, size, offset, element
<1>2. Untouched(s, a) BY DEF Untouched, Fields
<1> HIDE DEF a
<1>3. Untouched(a, b) BY <1>2, SmallSteps DEF Untouched
<1> HIDE DEF b
<1>4. Untouched(b, Say(b, form)) BY <1>3, SmallSteps DEF Untouched
<1>5. Untouched(s, k) BY <1>2, <1>3, <1>4 DEF Untouched
<1> HIDE DEF k
<1>6. Untouched(k, Constant(k, "offsetof", d.identifier, tag))
  BY <1>5, SmallSteps DEF Untouched
<1>7. Untouched(s, l) BY <1>5, <1>6 DEF Untouched
<1> HIDE DEF l
<1>8. Untouched(s, m) BY <1>7 DEF Untouched, Fields
<1> HIDE DEF m
<1>9. Untouched(m, Say(m, element)) BY <1>8, SmallSteps DEF Untouched
<1>10. QED BY <1>1, <1>8, <1>9 DEF Untouched

LEMMA EnumSteps ==
  ASSUME NEW s, DOMAIN s = Fields
  PROVE  /\ \A name : Untouched(s, BeginEnum(s, name))
         /\ \A name : Untouched(s, Enumerator(s, name))
         /\ Untouched(s, EndEnum(s))
<1>1. \A name : Untouched(s, BeginEnum(s, name)) BY DEF BeginEnum, Untouched, Fields
<1>2. ASSUME NEW name PROVE Untouched(s, Enumerator(s, name))
  <2> DEFINE et == Cur(s.rt).current_enum
             x == [s EXCEPT !.enums[et] = 2]
             k == IF s.enums[et] = 2 THEN s ELSE OpenForm(x, et)
             a == [k EXCEPT !.rt = EnumElem(@, et, name, FALSE, 0)]
             uses == {NextConstant(a, "expr", name, NullTerm)}
             b == Constant(a, "expr", name, NullTerm)
             form == Form("enumerator", name, Text(NullTerm, uses, {}))
  <2>1. Enumerator(s, name) = IF s.emit = 0 THEN a ELSE Say(b, form) BY DEF Enumerator
  <2> HIDE DEF et, form
  <2>2. Untouched(s, x) BY DEF Untouched, Fields
  <2> HIDE DEF x
  <2>3. Untouched(x, OpenForm(x, et)) BY <2>2, SmallSteps DEF Untouched
  <2>4. Untouched(s, k) BY <2>2, <2>3 DEF Untouched
  <2> HIDE DEF k
  <2>5. Untouched(s, a) BY <2>4 DEF Untouched, Fields
  <2> HIDE DEF a
  <2>6. Untouched(a, b)
    <3>1. DOMAIN a = Fields BY <2>5 DEF Untouched
    <3>2. \A op, n, of : Untouched(a, Constant(a, op, n, of)) BY <3>1, SmallSteps
    <3>3. QED BY <3>2
  <2> HIDE DEF b
  <2>7. Untouched(b, Say(b, form)) BY <2>6, SmallSteps DEF Untouched
  <2>8. QED BY <2>1, <2>5, <2>6, <2>7 DEF Untouched
<1>3. Untouched(s, EndEnum(s))
  <2> DEFINE x == [s EXCEPT !.rt = EnumEnd(@, Cur(s.rt).current_enum)]
  <2>1. EndEnum(s) = CloseForm(x) BY DEF EndEnum
  <2>2. Untouched(s, x) BY DEF Untouched, Fields
  <2> HIDE DEF x
  <2>3. Untouched(x, CloseForm(x)) BY <2>2, SmallSteps DEF Untouched
  <2>4. QED BY <2>1, <2>2, <2>3 DEF Untouched
<1>4. QED BY <1>1, <1>2, <1>3

LEMMA EmitSteps ==
  ASSUME NEW s, DOMAIN s = Fields
  PROVE  /\ \A d, storage : Untouched(s, EmitDeclarator(d, storage, s))
         /\ \A d : Untouched(s, StructElemDecl(s, d))
<1>1. Untouched(s, s) BY DEF Untouched
<1>2. ASSUME NEW name, NEW t PROVE Untouched(s, EmitTypedef(s, name, t))
  <2> DEFINE r == Typedef(s.rt, name, t)
             k == [s EXCEPT !.rt = r]
             l == [k EXCEPT !.text[s.rt.next] = Plain(WildTerm)]
             form == Form("typedef", name, s.text[t])
  <2>1. EmitTypedef(s, name, t) = IF r.next = s.rt.next THEN k ELSE Say(l, form)
    BY DEF EmitTypedef
  <2> HIDE DEF r, form
  <2>2. Untouched(s, k) BY DEF Untouched, Fields
  <2> HIDE DEF k
  <2>3. Untouched(s, l) BY <2>2 DEF Untouched, Fields
  <2> HIDE DEF l
  <2>4. Untouched(l, Say(l, form)) BY <2>3, SmallSteps DEF Untouched
  <2>5. QED BY <2>1, <2>2, <2>3, <2>4 DEF Untouched
<1>3. ASSUME NEW d, NEW storage PROVE Untouched(s, EmitDeclarator(d, storage, s))
  <2> DEFINE x == [s EXCEPT !.failed = TRUE]
             y == [s EXCEPT !.rt = Global(@, d.identifier, d.type)]
             form == Form("global", d.identifier, s.text[d.type])
  <2>1. \/ EmitDeclarator(d, storage, s) = s
        \/ EmitDeclarator(d, storage, s) = x
        \/ EmitDeclarator(d, storage, s) = EmitTypedef(s, d.identifier, d.type)
        \/ EmitDeclarator(d, storage, s) = Say(y, form)
    BY DEF EmitDeclarator
  <2> HIDE DEF form
  <2>2. Untouched(s, x) BY DEF Untouched, Fields
  <2>3. Untouched(s, y) BY DEF Untouched, Fields
  <2> HIDE DEF x, y
  <2>4. Untouched(y, Say(y, form)) BY <2>3, SmallSteps DEF Untouched
  <2>5. Untouched(s, Say(y, form)) BY <2>3, <2>4, UntouchedTwice
  <2>6. QED BY <1>1, <1>2, <2>1, <2>2, <2>5
<1>4. ASSUME NEW d PROVE Untouched(s, StructElemDecl(s, d))
  <2> DEFINE bits == d.bits # Literal(0)
             t == IF d.type = 0 THEN TypeByName(s.rt, "int") ELSE d.type
             k == IF bits THEN MakeBitfield(s, t, d.bits) ELSE s
             e == [d EXCEPT !.type = IF bits THEN k.rt.next - 1 ELSE t]
  <2>1. StructElemDecl(s, d) = IF d.identifier = NoName THEN Stop(k, "abort") ELSE Member(k, e)
    BY DEF StructElemDecl
  <2> HIDE DEF t, e, bits
  <2>2. Untouched(s, k) BY <1>1, DerivedTypes
  <2> HIDE DEF k
  <2>3. DOMAIN k = Fields BY <2>2 DEF Untouched
  <2>4. Untouched(k, Stop(k, "abort")) BY <2>3, SmallSteps
  <2>5. Untouched(k, Member(k, e)) BY <2>3, MemberStep
  <2>6. QED BY <2>1, <2>2, <2>4, <2>5, UntouchedTwice
<1>5. QED BY <1>3, <1>4

-----------------------------------------------------------------------------
(* The operators on declarations and declarators change the elements of    *)
(* the stacks, not the stacks.                                             *)

LEMMA KeepsTwice ==
  ASSUME NEW s, NEW k, NEW l, Shaped(s), Keeps(s, k), Keeps(k, l)
  PROVE  Keeps(s, l)
BY DEF Keeps

LEMMA KeepsSelf ==
  ASSUME NEW s, Shaped(s)
  PROVE  Keeps(s, s)
BY DEF Keeps

LEMMA DeclaratorSet ==
  ASSUME NEW s, Shaped(s), NEW n, NEW v,
         n \in 1..Len(s.dtors) =>
           DOMAIN v = DtorFields /\ v.declaration = s.dtors[n].declaration,
         NEW k, DOMAIN k = Fields, k.decls = s.decls, k.emit = s.emit,
         k.dtors = [s.dtors EXCEPT ![n] = v]
  PROVE  Keeps(s, k)
<1>1. PICK x, y : x = s.dtors /\ y = k.dtors OBVIOUS
<1>2. IsSeq(x) BY <1>1 DEF Shaped
<1>3. y = [x EXCEPT ![n] = v] BY <1>1
<1>4. IsSeq(y) BY <1>2, <1>3, Replaced, Zenon
<1>5. DOMAIN x = 1..Len(x) /\ Len(x) \in Nat /\ DOMAIN y = 1..Len(y) /\ Len(y) \in Nat
  BY <1>2, <1>4, SeqFacts
<1>6. Len(y) = Len(x) BY <1>3, <1>5
<1>7. \A i \in 1..Len(x) : (i = n => y[i] = v) /\ (i # n => y[i] = x[i]) BY <1>3, <1>5
<1>8. QED BY <1>1, <1>4, <1>6, <1>7 DEF Keeps, Shaped

LEMMA DeclarationSet ==
  ASSUME NEW s, Shaped(s), NEW n, NEW v,
         n \in 1..Len(s.decls) => DOMAIN v = DeclFields /\ IsSeq(v.declarators),
         NEW k, DOMAIN k = Fields, k.dtors = s.dtors, k.emit = s.emit,
         k.decls = [s.decls EXCEPT ![n] = v]
  PROVE  Keeps(s, k)
<1>1. PICK x, y : x = s.decls /\ y = k.decls OBVIOUS
<1>2. IsSeq(x) BY <1>1 DEF Shaped
<1>3. y = [x EXCEPT ![n] = v] BY <1>1
<1>4. IsSeq(y) BY <1>2, <1>3, Replaced, Zenon
<1>5. DOMAIN x = 1..Len(x) /\ Len(x) \in Nat /\ DOMAIN y = 1..Len(y) /\ Len(y) \in Nat
  BY <1>2, <1>4, SeqFacts
<1>6. Len(y) = Len(x) BY <1>3, <1>5
<1>7. \A i \in 1..Len(x) : (i = n => y[i] = v) /\ (i # n => y[i] = x[i]) BY <1>3, <1>5
<1>8. QED BY <1>1, <1>4, <1>6, <1>7 DEF Keeps, Shaped

LEMMA SetTypeKeeps ==
  ASSUME NEW s, Shaped(s), NEW t
  PROVE  Keeps(s, SetType(s, t))
<1> DEFINE n == Len(s.dtors)
           v == [s.dtors[n] EXCEPT !.type = t]
           k == [s EXCEPT !.dtors = [@ EXCEPT ![n] = v]]
<1>1. SetType(s, t) = k BY DEF SetType
<1>2. DOMAIN k = Fields /\ k.decls = s.decls /\ k.emit = s.emit
      /\ k.dtors = [s.dtors EXCEPT ![n] = v]
  BY DEF Shaped, Fields
<1>3. n \in 1..Len(s.dtors) => DOMAIN v = DtorFields /\ v.declaration = s.dtors[n].declaration
  BY DEF Shaped, DtorFields
<1> HIDE DEF k, v, n
<1>4. QED BY <1>1, <1>2, <1>3, DeclaratorSet

LEMMA TypeSpecifierKeeps ==
  ASSUME NEW s, Shaped(s), NEW t
  PROVE  Keeps(s, TypeSpecifier(s, t))
<1> DEFINE n == Len(s.decls)
           v == [s.decls[n] EXCEPT !.type = t]
           k == [s EXCEPT !.decls = [@ EXCEPT ![n] = v], !.failed = @ \/ t = 0]
<1>1. TypeSpecifier(s, t) = IF s.dtors = <<>> THEN k ELSE SetType(k, t) BY DEF TypeSpecifier
<1>2. DOMAIN k = Fields /\ k.dtors = s.dtors /\ k.emit = s.emit
      /\ k.decls = [s.decls EXCEPT ![n] = v]
  BY DEF Shaped, Fields
<1>3. n \in 1..Len(s.decls) => DOMAIN v = DeclFields /\ IsSeq(v.declarators)
  BY DEF Shaped, DeclFields
<1> HIDE DEF k, v, n
<1>4. Keeps(s, k) BY <1>2, <1>3, DeclarationSet
<1>5. Shaped(k) BY <1>4 DEF Keeps
<1>6. Keeps(k, SetType(k, t)) BY <1>5, SetTypeKeeps
<1>7. QED BY <1>1, <1>4, <1>6, KeepsTwice

LEMMA NextSpecifierKeeps ==
  ASSUME NEW s, Shaped(s), NEW at, NEW t
  PROVE  Keeps(s, NextSpecifier(s, at, t))
<1> DEFINE n == Len(s.decls)
           l == TypeSpecifier(s, t)
           v == [l.decls[n] EXCEPT !.type = CurDecl(s).type]
           k == [l EXCEPT !.decls[n].type = CurDecl(s).type]
<1>1. NextSpecifier(s, at, t) = IF at = "sdecl" THEN k ELSE l BY DEF NextSpecifier
<1>2. Keeps(s, l) /\ Shaped(l) /\ n = Len(l.decls) BY TypeSpecifierKeeps DEF Keeps
<1> HIDE DEF l, n
<1>3. DOMAIN k = Fields /\ k.dtors = l.dtors /\ k.emit = l.emit
      /\ k.decls = [l.decls EXCEPT ![n] = v]
  BY <1>2 DEF Shaped, Fields
<1>4. n \in 1..Len(l.decls) => DOMAIN v = DeclFields /\ IsSeq(v.declarators)
  BY <1>2 DEF Shaped, DeclFields
<1> HIDE DEF k, v
<1>5. Keeps(l, k) BY <1>2, <1>3, <1>4, DeclarationSet
<1>6. QED BY <1>1, <1>2, <1>5, KeepsTwice

LEMMA AddDeclaratorKeeps ==
  ASSUME NEW s, Shaped(s), NEW d
  PROVE  Keeps(s, AddDeclarator(s, d))
<1> DEFINE n == Len(s.decls)
           v == [s.decls[n] EXCEPT !.declarators = Append(@, d)]
           k == [s EXCEPT !.decls = [@ EXCEPT ![n] = v]]
<1>1. AddDeclarator(s, d) = k BY DEF AddDeclarator
<1>2. DOMAIN k = Fields /\ k.dtors = s.dtors /\ k.emit = s.emit
      /\ k.decls = [s.decls EXCEPT ![n] = v]
  BY DEF Shaped, Fields
<1>3. n \in 1..Len(s.decls) =>
        DOMAIN v = DeclFields /\ v.declarators = Append(s.decls[n].declarators, d)
  BY DEF Shaped, DeclFields
<1>4. n \in 1..Len(s.decls) => IsSeq(Append(s.decls[n].declarators, d))
  BY Appended DEF Shaped
<1> HIDE DEF k, v, n
<1>5. n \in 1..Len(s.decls) => DOMAIN v = DeclFields /\ IsSeq(v.declarators) BY <1>3, <1>4
<1>6. Keeps(s, k) BY <1>2, <1>5, DeclarationSet
<1>7. QED BY <1>1, <1>6

LEMMA ArrayOfTypeKeeps ==
  ASSUME NEW s, Shaped(s), NEW len
  PROVE  Keeps(s, ArrayOfType(s, len))
<1> DEFINE t == CurDtor(s).type
           a == MakeArray(s, t, len)
           v == MadeArray(s, t, len)
<1>1. ArrayOfType(s, len) = IF a.rt.halt # "no" THEN a ELSE SetType(a, v) BY DEF ArrayOfType
<1> HIDE DEF t, v
<1>2. Keeps(s, a) BY DerivedTypes, UntouchedKeeps DEF Shaped
<1> HIDE DEF a
<1>3. Keeps(a, SetType(a, v)) BY <1>2, SetTypeKeeps DEF Keeps
<1>4. QED BY <1>1, <1>2, <1>3, KeepsTwice

LEMMA PointerDeclKeeps ==
  ASSUME NEW s, Shaped(s)
  PROVE  Keeps(s, PointerDecl(s))
<1> DEFINE t == CurDtor(s).type
           a == MakePointer(s, t)
           v == PointerRef(s.rt, t)
<1>1. PointerDecl(s) = IF a.rt.halt # "no" THEN a ELSE SetType(a, v) BY DEF PointerDecl
<1> HIDE DEF t, v
<1>2. Keeps(s, a) BY DerivedTypes, UntouchedKeeps DEF Shaped
<1> HIDE DEF a
<1>3. Keeps(a, SetType(a, v)) BY <1>2, SetTypeKeeps DEF Keeps
<1>4. QED BY <1>1, <1>2, <1>3, KeepsTwice

LEMMA FunctionDeclKeeps ==
  ASSUME NEW s, Shaped(s), NEW params
  PROVE  Keeps(s, FunctionDecl(s, params))
<1> DEFINE rtn == EndedDeclarator(s).type
           a == MakeFunction(s, rtn, params)
           k == SetType(a, s.rt.next)
<1>1. \/ FunctionDecl(s, params) = Stop(s, "abort")
      \/ FunctionDecl(s, params) = PointerDecl(k)
      \/ FunctionDecl(s, params) = k
  BY DEF FunctionDecl
<1> HIDE DEF rtn
<1>2. Keeps(s, a) BY DerivedTypes, UntouchedKeeps DEF Shaped
<1> HIDE DEF a
<1>3. Keeps(a, k) BY <1>2, SetTypeKeeps DEF Keeps
<1> HIDE DEF k
<1>4. Keeps(s, k) BY <1>2, <1>3, KeepsTwice
<1>5. Keeps(k, PointerDecl(k)) BY <1>4, PointerDeclKeeps DEF Keeps
<1>6. Keeps(s, PointerDecl(k)) BY <1>4, <1>5, KeepsTwice
<1>7. Keeps(s, Stop(s, "abort")) BY SmallSteps, UntouchedKeeps DEF Shaped
<1>8. QED BY <1>1, <1>4, <1>6, <1>7

-----------------------------------------------------------------------------
(* The folds over a list: a declarator's dimensions, the types C derives   *)
(* with them, and the declarators of a declaration.                        *)

Apply(over, storage, x, k) ==
  CASE over = "lengths"     -> IF k.rt.halt # "no" THEN k ELSE ArrayOfType(k, x)
    [] over = "terms"       -> ArrayOf(k, x)
    [] over = "declarators" -> EmitDeclarator(x, storage, k)

Lowest(s) == CHOOSE m \in s : \A n \in s : m <= n

FoldStep(over, storage, x, base, g, s) ==
  IF s = {} THEN base ELSE Apply(over, storage, x[Lowest(s)], g[s \ {Lowest(s)}])

FoldIter(over, storage, x, base) ==
  CHOOSE g : g = [s \in SUBSET DOMAIN x |-> FoldStep(over, storage, x, base, g, s)]

LEMMA ArrayDeclIsIter ==
  ASSUME NEW x, NEW base
  PROVE  ArrayDecl(base, x) = FoldIter("lengths", "none", x, base)[DOMAIN x]
<1> DEFINE F(g) == [s \in SUBSET DOMAIN x |-> FoldStep("lengths", "none", x, base, g, s)]
           G(g) == [s \in SUBSET DOMAIN x |->
                      IF s = {} THEN base
                      ELSE IF g[s \ {Lowest(s)}].rt.halt # "no" THEN g[s \ {Lowest(s)}]
                           ELSE ArrayOfType(g[s \ {Lowest(s)}], x[Lowest(s)])]
           f == CHOOSE g : g = F(g)
           h == CHOOSE g : g = G(g)
<1>1. \A g : F(g) = G(g) BY DEF Apply, FoldStep
<1>2. ArrayDecl(base, x) = h[DOMAIN x]
  BY DEF ArrayDecl, FoldRight, MapThenFoldSet, Min, Lowest
<1>3. FoldIter("lengths", "none", x, base) = f BY DEF FoldIter
<1> HIDE DEF F, G
<1>4. f = h
  <2>1. \A g : (g = F(g)) <=> (g = G(g)) BY <1>1
  <2>2. QED BY <2>1, Zenon
<1>5. QED BY <1>2, <1>3, <1>4

LEMMA EmitDeclarationIsIter ==
  ASSUME NEW s
  PROVE  LET decl == CurDecl(s)
         IN  EmitDeclaration(s) =
               FoldIter("declarators", decl.storage, decl.declarators, DeclarationEnd(s))
                 [DOMAIN decl.declarators]
<1> DEFINE storage == CurDecl(s).storage
           x == CurDecl(s).declarators
           base == DeclarationEnd(s)
           F(g) == [z \in SUBSET DOMAIN x |-> FoldStep("declarators", storage, x, base, g, z)]
           G(g) == [z \in SUBSET DOMAIN x |->
                      IF z = {} THEN base
                      ELSE EmitDeclarator(x[Lowest(z)], storage, g[z \ {Lowest(z)}])]
           f == CHOOSE g : g = F(g)
           h == CHOOSE g : g = G(g)
<1>1. EmitDeclaration(s) = h[DOMAIN x]
  BY DEF EmitDeclaration, FoldRight, MapThenFoldSet, Min, Lowest
<1>2. FoldIter("declarators", storage, x, base) = f BY DEF FoldIter
<1> HIDE DEF storage, x, base
<1>3. \A g : F(g) = G(g) BY DEF Apply, FoldStep
<1> HIDE DEF F, G
<1>4. f = h
  <2>1. \A g : (g = F(g)) <=> (g = G(g)) BY <1>3
  <2>2. QED BY <2>1, Zenon
<1>5. FoldIter("declarators", storage, x, base)[DOMAIN x] = h[DOMAIN x] BY <1>2, <1>4
<1>6. QED BY <1>1, <1>5 DEF storage, x, base

LEMMA LowestIn ==
  ASSUME NEW x, IsSeq(x)
  PROVE  /\ IsFiniteSet(DOMAIN x)
         /\ \A s \in SUBSET DOMAIN x :
              s # {} => /\ Lowest(s) \in s
                        /\ s \ {Lowest(s)} \in SUBSET DOMAIN x
                        /\ Cardinality(s) \in Nat /\ Cardinality(s) >= 1
                        /\ Cardinality(s \ {Lowest(s)}) = Cardinality(s) - 1
<1>1. DOMAIN x = 1..Len(x) /\ Len(x) \in Nat BY SeqFacts
<1>2. IsFiniteSet(DOMAIN x) BY <1>1, FS_Interval
<1>3. ASSUME NEW s \in SUBSET DOMAIN x, s # {}
      PROVE  /\ Lowest(s) \in s
             /\ s \ {Lowest(s)} \in SUBSET DOMAIN x
             /\ Cardinality(s) \in Nat /\ Cardinality(s) >= 1
             /\ Cardinality(s \ {Lowest(s)}) = Cardinality(s) - 1
  <2>1. s \in SUBSET Nat /\ IsFiniteSet(s) BY <1>1, <1>2, FS_Subset
  <2>2. Lowest(s) \in s
    <3>1. \E m \in s : \A n \in s : m <= n BY <1>3, <2>1, LeastNatural
    <3>2. QED BY <3>1 DEF Lowest
  <2>3. IsFiniteSet(s \ {Lowest(s)}) /\ Cardinality(s \ {Lowest(s)}) = Cardinality(s) - 1
    BY <2>1, <2>2, FS_RemoveElement
  <2>4. Cardinality(s) \in Nat /\ Cardinality(s \ {Lowest(s)}) \in Nat
    BY <2>1, <2>3, FS_CardinalityType
  <2>5. QED BY <2>2, <2>3, <2>4
<1>4. QED BY <1>2, <1>3

LEMMA FoldIterExists ==
  ASSUME NEW over, NEW storage, NEW x, NEW base, IsSeq(x)
  PROVE  LET g == FoldIter(over, storage, x, base)
         IN  \A s \in SUBSET DOMAIN x : g[s] = FoldStep(over, storage, x, base, g, s)
<1> DEFINE S == DOMAIN x
           Step(g, s) == FoldStep(over, storage, x, base, g, s)
           Below(g, k) == \A s \in SUBSET S : Cardinality(s) <= k => g[s] = Step(g, s)
           K == {k \in Nat : \E g : Below(g, k)}
<1>1. IsFiniteSet(S) BY LowestIn
<1>2. \A s \in SUBSET S : s # {} =>
        /\ s \ {Lowest(s)} \in SUBSET S
        /\ Cardinality(s) \in Nat /\ Cardinality(s) >= 1
        /\ Cardinality(s \ {Lowest(s)}) = Cardinality(s) - 1
  BY LowestIn
<1>3. \A g, h : \A s \in SUBSET S :
        (s # {} => h[s \ {Lowest(s)}] = g[s \ {Lowest(s)}]) => Step(h, s) = Step(g, s)
  BY DEF FoldStep
<1>4. \A g, h : Step(g, {}) = Step(h, {}) BY DEF FoldStep
<1> HIDE DEF S, Step
<1>5. 0 \in K
  <2>1. ASSUME NEW s \in SUBSET S, Cardinality(s) <= 0, s # {} PROVE FALSE
    <3>1. Cardinality(s) \in Nat /\ Cardinality(s) >= 1 BY <1>2, <2>1
    <3>2. QED BY <2>1, <3>1
  <2> DEFINE g == [s \in SUBSET S |-> Step(<<>>, {})]
  <2>2. {} \in SUBSET S OBVIOUS
  <2>3. g[{}] = Step(<<>>, {}) BY <2>2
  <2> HIDE DEF g
  <2>4. g[{}] = Step(g, {}) BY <1>4, <2>3
  <2>5. Below(g, 0) BY <2>1, <2>4
  <2>6. QED BY <2>5
<1>6. ASSUME NEW k \in K PROVE k + 1 \in K
  <2>1. PICK g : Below(g, k) OBVIOUS
  <2> DEFINE h == [s \in SUBSET S |-> Step(g, s)]
  <2>2. \A s \in SUBSET S : h[s] = Step(g, s) OBVIOUS
  <2> HIDE DEF h
  <2>3. \A s \in SUBSET S : Cardinality(s) <= k => h[s] = g[s] BY <2>1, <2>2
  <2>4. ASSUME NEW s \in SUBSET S, Cardinality(s) <= k + 1
        PROVE  h[s] = Step(h, s)
    <3>1. ASSUME s # {} PROVE h[s \ {Lowest(s)}] = g[s \ {Lowest(s)}]
      <4>1. s \ {Lowest(s)} \in SUBSET S /\ Cardinality(s \ {Lowest(s)}) <= k
        BY <1>2, <2>4, <3>1
      <4>2. QED BY <2>3, <4>1
    <3>2. Step(h, s) = Step(g, s) BY <1>3, <3>1
    <3>3. QED BY <2>2, <3>2
  <2>5. Below(h, k + 1) BY <2>4
  <2>6. QED BY <2>5
<1>7. K = Nat
  <2>1. K \in SUBSET Nat OBVIOUS
  <2> HIDE DEF K
  <2>2. QED BY <1>5, <1>6, <2>1, NatSetInduction
<1>8. Cardinality(S) \in Nat BY <1>1, FS_CardinalityType
<1>9. PICK g : Below(g, Cardinality(S)) BY <1>7, <1>8
<1>10. \A s \in SUBSET S : g[s] = Step(g, s)
  <2>1. \A s \in SUBSET S : Cardinality(s) <= Cardinality(S) BY <1>1, FS_Subset
  <2>2. QED BY <1>9, <2>1
<1> DEFINE h == [s \in SUBSET S |-> g[s]]
<1>11. \A s \in SUBSET S : h[s] = g[s] OBVIOUS
<1> HIDE DEF h
<1>12. \A s \in SUBSET S : Step(h, s) = Step(g, s) BY <1>2, <1>3, <1>11
<1>13. h = [s \in SUBSET S |-> Step(h, s)]
  <2>1. \A s \in SUBSET S : g[s] = Step(h, s) BY <1>10, <1>12
  <2>2. QED BY <2>1 DEF h
<1>14. \E y : y = [s \in SUBSET S |-> Step(y, s)] BY <1>13
<1> DEFINE f == FoldIter(over, storage, x, base)
<1>15. f = [s \in SUBSET S |-> Step(f, s)] BY <1>14 DEF FoldIter, S, Step
<1>16. QED BY <1>15 DEF S, Step

(* What each step keeps, the fold keeps.                                   *)
LEMMA FoldKeeps ==
  ASSUME NEW over \in {"lengths", "declarators"}, NEW storage, NEW x, NEW base,
         IsSeq(x), Shaped(base)
  PROVE  Keeps(base, FoldIter(over, storage, x, base)[DOMAIN x])
<1> DEFINE g == FoldIter(over, storage, x, base)
           K == {k \in Nat : \A s \in SUBSET DOMAIN x : Cardinality(s) <= k => Keeps(base, g[s])}
<1>1. \A s \in SUBSET DOMAIN x : g[s] = FoldStep(over, storage, x, base, g, s)
  BY FoldIterExists
<1> HIDE DEF g
<1>2. g[{}] = base BY <1>1 DEF FoldStep
<1>3. \A s \in SUBSET DOMAIN x : s # {} =>
        g[s] = Apply(over, storage, x[Lowest(s)], g[s \ {Lowest(s)}])
  BY <1>1 DEF FoldStep
<1>4. \A k, y : Shaped(k) => Keeps(k, Apply(over, storage, y, k))
  <2>1. SUFFICES ASSUME NEW k, NEW y, Shaped(k) PROVE Keeps(k, Apply(over, storage, y, k))
    OBVIOUS
  <2>2. Keeps(k, k) /\ Keeps(k, ArrayOfType(k, y)) BY <2>1, KeepsSelf, ArrayOfTypeKeeps
  <2>3. Keeps(k, EmitDeclarator(y, storage, k))
    BY <2>1, EmitSteps, UntouchedKeeps DEF Shaped
  <2>4. QED BY <2>2, <2>3 DEF Apply
<1>5. 0 \in K
  <2>1. ASSUME NEW s \in SUBSET DOMAIN x, Cardinality(s) <= 0, s # {} PROVE FALSE
    <3>1. Cardinality(s) \in Nat /\ Cardinality(s) >= 1 BY <2>1, LowestIn
    <3>2. QED BY <2>1, <3>1
  <2>2. QED BY <1>2, <2>1, KeepsSelf
<1>6. ASSUME NEW k \in K PROVE k + 1 \in K
  <2>1. ASSUME NEW s \in SUBSET DOMAIN x, Cardinality(s) <= k + 1, s # {}
        PROVE  Keeps(base, g[s])
    <3> DEFINE z == s \ {Lowest(s)}
    <3>1. z \in SUBSET DOMAIN x /\ Cardinality(z) <= k BY <2>1, LowestIn
    <3>2. Keeps(base, g[z]) BY <3>1
    <3>3. g[s] = Apply(over, storage, x[Lowest(s)], g[z]) BY <1>3, <2>1
    <3>4. Shaped(g[z]) BY <3>2 DEF Keeps
    <3> HIDE DEF z
    <3>5. Keeps(g[z], g[s]) BY <1>4, <3>3, <3>4
    <3>6. QED BY <3>2, <3>5, KeepsTwice
  <2>2. Keeps(base, g[{}]) BY <1>2, KeepsSelf
  <2>3. QED BY <2>1, <2>2
<1>7. K = Nat
  <2>1. K \in SUBSET Nat OBVIOUS
  <2> HIDE DEF K
  <2>2. QED BY <1>5, <1>6, <2>1, NatSetInduction
<1>8. IsFiniteSet(DOMAIN x) BY LowestIn
<1>9. Cardinality(DOMAIN x) \in Nat BY <1>8, FS_CardinalityType
<1>10. Keeps(base, g[DOMAIN x]) BY <1>7, <1>9
<1>11. QED BY <1>10 DEF g

LEMMA ArrayDeclKeeps ==
  ASSUME NEW s, Shaped(s), NEW lens, IsSeq(lens)
  PROVE  Keeps(s, ArrayDecl(s, lens))
BY ArrayDeclIsIter, FoldKeeps

(* Opening and closing declarations and declarators.                       *)
LEMMA DeclarationBeginPushes ==
  ASSUME NEW s, Shaped(s)
  PROVE  LET k == DeclarationBegin(s)
         IN  /\ Shaped(k) /\ k.emit = s.emit /\ k.dtors = s.dtors
             /\ Len(k.decls) = Len(s.decls) + 1
<1> DEFINE d == NewDeclaration(TypeByName(s.rt, "int"))
           k == DeclarationBegin(s)
<1>1. DOMAIN k = Fields /\ k.emit = s.emit /\ k.dtors = s.dtors /\ k.decls = Append(s.decls, d)
  BY DEF DeclarationBegin, Shaped, Fields
<1>2. DOMAIN d = DeclFields /\ d.declarators = <<>> BY DEF NewDeclaration, DeclFields
<1>3. IsSeq(d.declarators) BY <1>2, NoneIsSeq
<1> HIDE DEF k, d
<1>4. /\ IsSeq(k.decls) /\ Len(k.decls) = Len(s.decls) + 1 /\ k.decls[Len(s.decls) + 1] = d
      /\ \A i \in 1..Len(s.decls) : k.decls[i] = s.decls[i]
  BY <1>1, Appended DEF Shaped
<1>5. Len(s.decls) \in Nat BY SeqFacts DEF Shaped
<1>6. \A i \in 1..Len(k.decls) : DOMAIN k.decls[i] = DeclFields /\ IsSeq(k.decls[i].declarators)
  <2>1. \A i \in 1..Len(k.decls) : i \in 1..Len(s.decls) \/ i = Len(s.decls) + 1
    BY <1>4, <1>5
  <2>2. QED BY <1>2, <1>3, <1>4, <2>1 DEF Shaped
<1>7. Shaped(k) BY <1>1, <1>4, <1>6 DEF Shaped
<1>8. QED BY <1>1, <1>4, <1>7 DEF k

LEMMA DeclarationEndPops ==
  ASSUME NEW s, Shaped(s), Len(s.decls) >= 1
  PROVE  LET k == DeclarationEnd(s)
         IN  /\ Shaped(k) /\ k.emit = s.emit /\ k.dtors = s.dtors
             /\ Len(k.decls) = Len(s.decls) - 1
<1> DEFINE k == DeclarationEnd(s)
<1>1. DOMAIN k = Fields /\ k.emit = s.emit /\ k.dtors = s.dtors /\ k.decls = Front(s.decls)
  BY DEF DeclarationEnd, Shaped, Fields
<1> HIDE DEF k
<1>2. /\ IsSeq(k.decls) /\ Len(k.decls) = Len(s.decls) - 1
      /\ \A i \in 1..Len(s.decls) - 1 : k.decls[i] = s.decls[i]
  BY <1>1, Fronted DEF Shaped
<1>3. Len(s.decls) \in Nat BY SeqFacts DEF Shaped
<1>4. Shaped(k) BY <1>1, <1>2, <1>3 DEF Shaped
<1>5. QED BY <1>1, <1>2, <1>4 DEF k

LEMMA DeclaratorBeginPushes ==
  ASSUME NEW s, Shaped(s), Len(s.decls) >= 1
  PROVE  LET k == DeclaratorBegin(s)
         IN  /\ Shaped(k) /\ k.emit = s.emit /\ k.decls = s.decls
             /\ Len(k.dtors) = Len(s.dtors) + 1
             /\ k.dtors[Len(k.dtors)].declaration = Len(s.decls)
             /\ \A i \in 1..Len(s.dtors) : k.dtors[i] = s.dtors[i]
<1> DEFINE d == NewDeclarator(CurDecl(s).type, Len(s.decls))
           k == DeclaratorBegin(s)
<1>1. s.decls # <<>> BY SeqFacts DEF Shaped
<1>2. DOMAIN k = Fields /\ k.emit = s.emit /\ k.decls = s.decls /\ k.dtors = Append(s.dtors, d)
  BY <1>1 DEF DeclaratorBegin, Shaped, Fields
<1>3. DOMAIN d = DtorFields /\ d.declaration = Len(s.decls) BY DEF NewDeclarator, DtorFields
<1> HIDE DEF k, d
<1>4. /\ IsSeq(k.dtors) /\ Len(k.dtors) = Len(s.dtors) + 1 /\ k.dtors[Len(s.dtors) + 1] = d
      /\ \A i \in 1..Len(s.dtors) : k.dtors[i] = s.dtors[i]
  BY <1>2, Appended DEF Shaped
<1>5. Len(s.dtors) \in Nat BY SeqFacts DEF Shaped
<1>6. \A i \in 1..Len(k.dtors) : DOMAIN k.dtors[i] = DtorFields
  <2>1. \A i \in 1..Len(k.dtors) : i \in 1..Len(s.dtors) \/ i = Len(s.dtors) + 1
    BY <1>4, <1>5
  <2>2. QED BY <1>3, <1>4, <2>1 DEF Shaped
<1>7. Shaped(k) BY <1>2, <1>4, <1>6 DEF Shaped
<1>8. QED BY <1>2, <1>3, <1>4, <1>7 DEF k

LEMMA DeclaratorEndPops ==
  ASSUME NEW s, Shaped(s), Len(s.dtors) >= 1
  PROVE  LET k == DeclaratorEnd(s)
         IN  /\ Shaped(k) /\ k.emit = s.emit /\ k.decls = s.decls
             /\ Len(k.dtors) = Len(s.dtors) - 1
             /\ \A i \in 1..Len(k.dtors) : k.dtors[i] = s.dtors[i]
<1> DEFINE k == DeclaratorEnd(s)
<1>1. DOMAIN k = Fields /\ k.emit = s.emit /\ k.decls = s.decls /\ k.dtors = Front(s.dtors)
  BY DEF DeclaratorEnd, Shaped, Fields
<1> HIDE DEF k
<1>2. /\ IsSeq(k.dtors) /\ Len(k.dtors) = Len(s.dtors) - 1
      /\ \A i \in 1..Len(s.dtors) - 1 : k.dtors[i] = s.dtors[i]
  BY <1>1, Fronted DEF Shaped
<1>3. Len(s.dtors) \in Nat BY SeqFacts DEF Shaped
<1>4. Shaped(k) BY <1>1, <1>2, <1>3 DEF Shaped
<1>5. QED BY <1>1, <1>2, <1>4 DEF k

(* The end of a declaration emits its declarators.                         *)
LEMMA EmitDeclarationPops ==
  ASSUME NEW s, Shaped(s), Len(s.decls) >= 1
  PROVE  LET k == EmitDeclaration(s)
         IN  /\ Shaped(k) /\ k.emit = s.emit
             /\ Len(k.decls) = Len(s.decls) - 1 /\ Len(k.dtors) = Len(s.dtors)
             /\ \A i \in 1..Len(s.dtors) : k.dtors[i].declaration = s.dtors[i].declaration
<1> DEFINE decl == CurDecl(s)
           base == DeclarationEnd(s)
           k == EmitDeclaration(s)
<1>1. Shaped(base) /\ base.emit = s.emit /\ base.dtors = s.dtors
      /\ Len(base.decls) = Len(s.decls) - 1
  BY DeclarationEndPops
<1>2. IsSeq(decl.declarators)
  <2>1. Len(s.decls) \in 1..Len(s.decls) BY SeqFacts DEF Shaped
  <2>2. QED BY <2>1 DEF CurDecl, Last, Shaped
<1>3. k = FoldIter("declarators", decl.storage, decl.declarators, base)[DOMAIN decl.declarators]
  BY EmitDeclarationIsIter
<1> HIDE DEF decl, base, k
<1>4. Keeps(base, k) BY <1>1, <1>2, <1>3, FoldKeeps
<1>5. QED BY <1>1, <1>4 DEF Keeps, k

-----------------------------------------------------------------------------
(* The ways a step changes the open positions.                             *)

LEMMA FrameShape ==
  \A at, phase, type : /\ DOMAIN Frame(at, phase, type) = FrameFields
                       /\ Frame(at, phase, type).at = at
BY DEF Frame, FrameFields

LEMMA Innermost ==
  ASSUME NEW s, NEW p, StackInv(s, p)
  PROVE  /\ IsSeq(p) /\ Len(p) \in Nat /\ DOMAIN p = 1..Len(p)
         /\ (p = <<>> <=> Len(p) = 0) /\ Last(p) = p[Len(p)]
         /\ Shaped(s) /\ Len(s.decls) \in Nat /\ Len(s.dtors) \in Nat
         /\ Len(p) >= 1 => DOMAIN p[Len(p)] = FrameFields
<1>1. IsSeq(p) /\ IsSeq(s.decls) /\ IsSeq(s.dtors) BY DEF StackInv, Nests, Shaped
<1>2. Len(p) \in Nat /\ Len(s.decls) \in Nat /\ Len(s.dtors) \in Nat /\ DOMAIN p = 1..Len(p)
      /\ (p = <<>> <=> Len(p) = 0)
  BY <1>1, SeqFacts
<1>3. Len(p) >= 1 => DOMAIN p[Len(p)] = FrameFields BY <1>2 DEF StackInv, Nests
<1>4. QED BY <1>1, <1>2, <1>3 DEF Last, StackInv

LEMMA TopChanged ==
  ASSUME NEW s, NEW p, StackInv(s, p), Len(p) >= 1, NEW k, Keeps(s, k),
         NEW f, DOMAIN f = FrameFields, f.at = p[Len(p)].at
  PROVE  /\ StackInv(k, SetTop(p, f))
         /\ Len(SetTop(p, f)) = Len(p) /\ SetTop(p, f)[Len(p)] = f
<1> DEFINE n == Len(p)
           l == Front(p)
           q == SetTop(p, f)
<1>1. IsSeq(p) /\ n \in Nat /\ n >= 1 BY Innermost
<1>2. IsSeq(l) /\ Len(l) = n - 1 /\ \A i \in 1..n - 1 : l[i] = p[i] BY <1>1, Fronted
<1>3. q = Append(l, f) BY DEF SetTop
<1> HIDE DEF l, q
<1>4. IsSeq(q) /\ Len(q) = Len(l) + 1 /\ q[Len(l) + 1] = f /\ \A i \in 1..Len(l) : q[i] = l[i]
  BY <1>2, <1>3, Appended
<1>5. Len(q) = n /\ q[n] = f /\ \A i \in 1..n - 1 : q[i] = p[i] BY <1>1, <1>2, <1>4
<1>6. \A i \in 1..n : q[i].at = p[i].at /\ DOMAIN q[i] = FrameFields
  BY <1>1, <1>5 DEF StackInv, Nests
<1>7. SameAts(p, q, n) BY <1>6 DEF SameAts
<1>8. Nests(q)
  <2>1. \A i \in 1..n : i > 1 => i - 1 \in 1..n BY <1>1
  <2>2. QED BY <1>4, <1>5, <1>6, <2>1 DEF StackInv, Nests
<1> HIDE DEF n
<1>9. StackInv(k, q) BY <1>5, <1>7, <1>8, MirrorsStay DEF n
<1>10. QED BY <1>5, <1>9 DEF q, n

LEMMA Recounted ==
  ASSUME NEW s, NEW p, StackInv(s, p), NEW k, Keeps(s, k)
  PROVE  StackInv(k, Counted(p))
<1>1. CASE p = <<>>
  <2>1. Counted(p) = p BY <1>1 DEF Counted
  <2>2. SameAts(p, p, Len(p)) BY DEF SameAts
  <2>3. StackInv(k, p) BY <2>2, MirrorsStay DEF StackInv
  <2>4. QED BY <2>1, <2>3
<1>2. CASE p # <<>>
  <2> DEFINE f == [Last(p) EXCEPT !.n = @ + 1]
  <2>1. Len(p) >= 1 /\ Last(p) = p[Len(p)] /\ DOMAIN p[Len(p)] = FrameFields
    BY <1>2, Innermost
  <2>2. DOMAIN f = FrameFields /\ f.at = p[Len(p)].at BY <2>1 DEF FrameFields
  <2>3. Counted(p) = SetTop(p, f) BY <1>2 DEF Counted
  <2> HIDE DEF f
  <2>4. QED BY <2>1, <2>2, <2>3, TopChanged
<1>3. QED BY <1>1, <1>2

LEMMA Opened ==
  ASSUME NEW s, NEW p, StackInv(s, p), NEW f, DOMAIN f = FrameFields,
         f.at \in {"struct", "enum", "params", "pdecl"} => Len(p) >= 1,
         f.at = "body" => Len(p) >= 1 /\ p[Len(p)].at = "fdef"
  PROVE  LET q == Append(p, f)
         IN  /\ Nests(q) /\ q[Len(p) + 1] = f
             /\ \A i \in 1..Len(p) : q[i] = p[i]
<1> DEFINE n == Len(p)
           q == Append(p, f)
<1>1. IsSeq(p) /\ n \in Nat BY Innermost
<1>2. IsSeq(q) /\ Len(q) = n + 1 /\ q[n + 1] = f /\ \A i \in 1..n : q[i] = p[i]
  BY <1>1, Appended
<1> HIDE DEF q
<1>3. ASSUME NEW i \in 1..n + 1
      PROVE  /\ DOMAIN q[i] = FrameFields
             /\ q[i].at \in {"struct", "enum", "params", "pdecl"} => i > 1
             /\ q[i].at = "body" => i > 1 /\ q[i - 1].at = "fdef"
  <2>1. CASE i = n + 1
    <3>1. i - 1 = n /\ (n >= 1 => i > 1 /\ n \in 1..n) BY <1>1, <2>1
    <3>2. QED BY <1>2, <2>1, <3>1
  <2>2. CASE i # n + 1
    <3>1. i \in 1..n /\ (i > 1 => i - 1 \in 1..n) BY <1>1, <2>2
    <3>2. QED BY <1>2, <3>1 DEF StackInv, Nests
  <2>3. QED BY <2>1, <2>2
<1>4. QED BY <1>2, <1>3 DEF Nests, q

LEMMA DeclarationOpened ==
  ASSUME NEW s, NEW p, StackInv(s, p), NEW f, DOMAIN f = FrameFields,
         f.at \in {"decl", "sdecl", "fdef"}
  PROVE  StackInv(DeclarationBegin(s), Append(p, f))
<1> DEFINE n == Len(p)
           q == Append(p, f)
           k == DeclarationBegin(s)
<1>1. Nests(q) /\ q[n + 1] = f BY Opened
<1>2. Shaped(k) /\ k.emit = s.emit /\ k.dtors = s.dtors /\ Len(k.decls) = Len(s.decls) + 1
  BY Innermost, DeclarationBeginPushes
<1>3. /\ One(DeclaresAt(q, n + 1)) = 1 /\ One(DeclaratorAt(q, n + 1)) = 0
      /\ One(BodyAt(q, n + 1)) = 0
  BY <1>1 DEF One, DeclaresAt, DeclaratorAt, BodyAt
<1>4. Len(s.dtors) \in Nat /\ s.emit \in Int
  BY Innermost, Counts DEF StackInv, Mirrors
<1>5. /\ Len(k.decls) = Len(s.decls) + One(DeclaresAt(q, n + 1))
      /\ Len(k.dtors) = Len(s.dtors) + One(DeclaratorAt(q, n + 1))
      /\ k.emit = s.emit - One(BodyAt(q, n + 1))
      /\ \A i \in 1..Len(s.dtors) : k.dtors[i].declaration = s.dtors[i].declaration
  BY <1>2, <1>3, <1>4
<1> HIDE DEF k
<1>6. Pushes(s, p, f, k, q) BY <1>1, <1>2, <1>5 DEF Pushes
<1>7. StackInv(k, q) BY <1>6, MirrorsPush
<1>8. QED BY <1>7 DEF k

LEMMA ListOpened ==
  ASSUME NEW s, NEW p, StackInv(s, p), Len(p) >= 1, NEW k, Keeps(s, k),
         NEW f, DOMAIN f = FrameFields, f.at \in {"struct", "enum", "params"}
  PROVE  StackInv(k, Append(p, f))
<1> DEFINE n == Len(p)
           q == Append(p, f)
<1>1. Nests(q) /\ q[n + 1] = f BY Opened
<1>2. /\ One(DeclaresAt(q, n + 1)) = 0 /\ One(DeclaratorAt(q, n + 1)) = 0
      /\ One(BodyAt(q, n + 1)) = 0
  BY <1>1 DEF One, DeclaresAt, DeclaratorAt, BodyAt
<1>3. Len(s.dtors) \in Nat /\ Len(s.decls) \in Nat /\ s.emit \in Int
  BY Innermost, Counts DEF StackInv, Mirrors
<1>4. /\ Len(k.decls) = Len(s.decls) + One(DeclaresAt(q, n + 1))
      /\ Len(k.dtors) = Len(s.dtors) + One(DeclaratorAt(q, n + 1))
      /\ k.emit = s.emit - One(BodyAt(q, n + 1))
      /\ \A i \in 1..Len(s.dtors) : k.dtors[i].declaration = s.dtors[i].declaration
  BY <1>2, <1>3 DEF Keeps
<1>5. Shaped(k) /\ f.at \notin {"pdecl", "dtor"} BY DEF Keeps
<1> HIDE DEF q
<1>6. q = Append(p, f) BY DEF q
<1>7. Pushes(s, p, f, k, q) BY <1>1, <1>4, <1>5, <1>6 DEF Pushes
<1>8. StackInv(k, q) BY <1>7, MirrorsPush
<1>9. QED BY <1>8 DEF q

LEMMA DeclaratorOpened ==
  ASSUME NEW s, NEW p, StackInv(s, p), Len(p) >= 1, p[Len(p)].at \in {"decl", "sdecl", "fdef"},
         NEW f, DOMAIN f = FrameFields, f.at = "dtor"
  PROVE  StackInv(DeclaratorBegin(s), Append(p, f))
<1> DEFINE n == Len(p)
           q == Append(p, f)
           k == DeclaratorBegin(s)
<1>1. n \in Nat BY Innermost
<1>2. Nests(q) /\ q[n + 1] = f /\ q[n] = p[n] BY <1>1, Opened
<1>3. Len(s.decls) >= 1
  <2>1. n - 1 \in Nat /\ (n - 1) + 1 = n BY <1>1
  <2>2. DeclaresAt(p, n) BY DEF DeclaresAt
  <2>3. NDecl(p, n) = NDecl(p, n - 1) + 1 /\ NDecl(p, n - 1) \in Nat
    BY <2>1, <2>2, Counts DEF One
  <2>4. QED BY <2>3 DEF StackInv, Mirrors
<1>4. /\ Shaped(k) /\ k.emit = s.emit /\ k.decls = s.decls
      /\ Len(k.dtors) = Len(s.dtors) + 1
      /\ k.dtors[Len(k.dtors)].declaration = Len(s.decls)
      /\ \A i \in 1..Len(s.dtors) : k.dtors[i] = s.dtors[i]
  BY <1>3, Innermost, DeclaratorBeginPushes
<1>5. /\ One(DeclaresAt(q, n + 1)) = 0 /\ One(DeclaratorAt(q, n + 1)) = 1
      /\ One(BodyAt(q, n + 1)) = 0
  <2>1. (n + 1) - 1 = n BY <1>1
  <2>2. QED BY <1>2, <2>1 DEF One, DeclaresAt, DeclaratorAt, BodyAt
<1>6. Len(s.dtors) \in Nat /\ Len(s.decls) \in Nat /\ s.emit \in Int
  BY <1>1, Innermost, Counts DEF StackInv, Mirrors
<1>7. /\ Len(k.decls) = Len(s.decls) + One(DeclaresAt(q, n + 1))
      /\ Len(k.dtors) = Len(s.dtors) + One(DeclaratorAt(q, n + 1))
      /\ k.emit = s.emit - One(BodyAt(q, n + 1))
      /\ \A i \in 1..Len(s.dtors) : k.dtors[i].declaration = s.dtors[i].declaration
      /\ Len(k.dtors) >= 1 /\ k.dtors[Len(k.dtors)].declaration = Len(k.decls)
  BY <1>4, <1>5, <1>6
<1> HIDE DEF k
<1>8. Shaped(k) /\ Nests(q) BY <1>2, <1>4
<1> HIDE DEF q
<1>9. q = Append(p, f) BY DEF q
<1>10. Pushes(s, p, f, k, q) BY <1>7, <1>8, <1>9 DEF Pushes
<1>11. StackInv(k, q) BY <1>10, MirrorsPush
<1>12. QED BY <1>11 DEF k, q

LEMMA ParameterOpened ==
  ASSUME NEW s, NEW p, StackInv(s, p), Len(p) >= 1,
         NEW f, DOMAIN f = FrameFields, f.at = "pdecl"
  PROVE  StackInv(DeclaratorBegin(DeclarationBegin(s)), Append(p, f))
<1> DEFINE n == Len(p)
           q == Append(p, f)
           l == DeclarationBegin(s)
           k == DeclaratorBegin(l)
<1>1. Nests(q) /\ q[n + 1] = f BY Opened
<1>2. Len(s.dtors) \in Nat /\ Len(s.decls) \in Nat /\ s.emit \in Int
  BY Innermost, Counts DEF StackInv, Mirrors
<1>3. Shaped(l) /\ l.emit = s.emit /\ l.dtors = s.dtors /\ Len(l.decls) = Len(s.decls) + 1
  BY Innermost, DeclarationBeginPushes
<1> HIDE DEF l
<1>4. /\ Shaped(k) /\ k.emit = l.emit /\ k.decls = l.decls
      /\ Len(k.dtors) = Len(l.dtors) + 1
      /\ k.dtors[Len(k.dtors)].declaration = Len(l.decls)
      /\ \A i \in 1..Len(l.dtors) : k.dtors[i] = l.dtors[i]
  BY <1>2, <1>3, DeclaratorBeginPushes, SMTT(20)
<1>5. /\ One(DeclaresAt(q, n + 1)) = 1 /\ One(DeclaratorAt(q, n + 1)) = 1
      /\ One(BodyAt(q, n + 1)) = 0
  BY <1>1 DEF One, DeclaresAt, DeclaratorAt, BodyAt
<1>6. /\ Len(k.decls) = Len(s.decls) + One(DeclaresAt(q, n + 1))
      /\ Len(k.dtors) = Len(s.dtors) + One(DeclaratorAt(q, n + 1))
      /\ k.emit = s.emit - One(BodyAt(q, n + 1))
      /\ \A i \in 1..Len(s.dtors) : k.dtors[i].declaration = s.dtors[i].declaration
      /\ Len(k.dtors) >= 1 /\ k.dtors[Len(k.dtors)].declaration = Len(k.decls)
  BY <1>2, <1>3, <1>4, <1>5, SMTT(20)
<1> HIDE DEF k
<1>7. Shaped(k) BY <1>4
<1> HIDE DEF q
<1>8. q = Append(p, f) BY DEF q
<1>9. Pushes(s, p, f, k, q) BY <1>1, <1>6, <1>7, <1>8 DEF Pushes
<1>10. StackInv(k, q) BY <1>9, MirrorsPush
<1>11. QED BY <1>10 DEF k, l, q

LEMMA BodyOpened ==
  ASSUME NEW s, NEW p, StackInv(s, p), Len(p) >= 1, p[Len(p)].at = "fdef",
         NEW f, DOMAIN f = FrameFields, f.at = "body"
  PROVE  StackInv(EmitControl(s, -1), Append(p, f))
<1> DEFINE n == Len(p)
           q == Append(p, f)
           k == EmitControl(s, -1)
<1>1. Nests(q) /\ q[n + 1] = f BY Opened
<1>2. Len(s.dtors) \in Nat /\ Len(s.decls) \in Nat /\ s.emit \in Int /\ Shaped(s)
  BY Innermost, Counts DEF StackInv, Mirrors
<1>3. DOMAIN k = Fields /\ k.decls = s.decls /\ k.dtors = s.dtors /\ k.emit = s.emit - 1
  BY <1>2 DEF EmitControl, Fields, Shaped
<1> HIDE DEF k
<1>4. /\ One(DeclaresAt(q, n + 1)) = 0 /\ One(DeclaratorAt(q, n + 1)) = 0
      /\ One(BodyAt(q, n + 1)) = 1
  BY <1>1 DEF One, DeclaresAt, DeclaratorAt, BodyAt
<1>5. /\ Len(k.decls) = Len(s.decls) + One(DeclaresAt(q, n + 1))
      /\ Len(k.dtors) = Len(s.dtors) + One(DeclaratorAt(q, n + 1))
      /\ k.emit = s.emit - One(BodyAt(q, n + 1))
      /\ \A i \in 1..Len(s.dtors) : k.dtors[i].declaration = s.dtors[i].declaration
  BY <1>2, <1>3, <1>4
<1>6. Shaped(k) BY <1>2, <1>3 DEF Shaped
<1> HIDE DEF q
<1>7. q = Append(p, f) BY DEF q
<1>8. Pushes(s, p, f, k, q) BY <1>1, <1>5, <1>6, <1>7 DEF Pushes
<1>9. StackInv(k, q) BY <1>8, MirrorsPush
<1>10. QED BY <1>9 DEF k, q

(* The declarations and declarators that the innermost position counts.    *)
LEMMA AtLeast ==
  ASSUME NEW s, NEW p, StackInv(s, p), Len(p) >= 1
  PROVE  /\ Len(s.decls) >= One(DeclaresAt(p, Len(p)))
         /\ Len(s.dtors) >= One(DeclaratorAt(p, Len(p)))
         /\ s.emit \in Int
<1> DEFINE n == Len(p) - 1
<1>1. n \in Nat /\ Len(p) = n + 1 BY Innermost
<1> HIDE DEF n
<1>2. /\ NDecl(p, n + 1) = NDecl(p, n) + One(DeclaresAt(p, n + 1)) /\ NDecl(p, n) \in Nat
      /\ NDtor(p, n + 1) = NDtor(p, n) + One(DeclaratorAt(p, n + 1)) /\ NDtor(p, n) \in Nat
      /\ NBody(p, n + 1) \in Nat
  <2>1. n + 1 \in Nat BY <1>1
  <2>2. QED BY <1>1, <2>1, Counts
<1>3. \A b : One(b) \in Nat BY DEF One
<1>4. Len(s.decls) = NDecl(p, n + 1) /\ Len(s.dtors) = NDtor(p, n + 1)
      /\ s.emit = 1 - NBody(p, n + 1)
  BY <1>1 DEF StackInv, Mirrors
<1>5. QED BY <1>1, <1>2, <1>3, <1>4

LEMMA ListClosed ==
  ASSUME NEW s, NEW p, StackInv(s, p), Len(p) >= 1, NEW k, Keeps(s, k),
         p[Len(p)].at \in {"struct", "enum", "params"}
  PROVE  /\ StackInv(k, Front(p)) /\ Len(Front(p)) = Len(p) - 1
         /\ \A i \in 1..Len(Front(p)) : Front(p)[i] = p[i]
<1> DEFINE n == Len(p)
           q == Front(p)
<1>1. /\ One(DeclaresAt(p, n)) = 0 /\ One(DeclaratorAt(p, n)) = 0 /\ One(BodyAt(p, n)) = 0
  BY DEF One, DeclaresAt, DeclaratorAt, BodyAt
<1>2. Len(s.dtors) \in Nat /\ Len(s.decls) \in Nat /\ s.emit \in Int BY Innermost, AtLeast
<1>3. /\ Len(k.decls) = Len(s.decls) - One(DeclaresAt(p, n))
      /\ Len(k.dtors) = Len(s.dtors) - One(DeclaratorAt(p, n))
      /\ k.emit = s.emit + One(BodyAt(p, n))
      /\ \A i \in 1..Len(k.dtors) : k.dtors[i].declaration = s.dtors[i].declaration
      /\ Shaped(k)
  BY <1>1, <1>2 DEF Keeps
<1>4. Pops(s, p, k) BY <1>3 DEF Pops
<1>5. QED BY <1>4, MirrorsPop

(* The end of a declaration, with or without output.                       *)
LEMMA DeclarationClosed ==
  ASSUME NEW s, NEW p, StackInv(s, p), Len(p) >= 1,
         p[Len(p)].at \in {"decl", "sdecl", "fdef"},
         NEW k, k \in {DeclarationEnd(s), EmitDeclaration(s)}
  PROVE  /\ StackInv(k, Front(p)) /\ Len(Front(p)) = Len(p) - 1
         /\ \A i \in 1..Len(Front(p)) : Front(p)[i] = p[i]
<1> DEFINE n == Len(p)
           q == Front(p)
<1>1. /\ One(DeclaresAt(p, n)) = 1 /\ One(DeclaratorAt(p, n)) = 0 /\ One(BodyAt(p, n)) = 0
  BY DEF One, DeclaresAt, DeclaratorAt, BodyAt
<1>2. Shaped(s) /\ Len(s.dtors) \in Nat /\ Len(s.decls) >= 1 /\ s.emit \in Int
  BY <1>1, Innermost, AtLeast
<1>3. /\ Shaped(k) /\ k.emit = s.emit
      /\ Len(k.decls) = Len(s.decls) - 1 /\ Len(k.dtors) = Len(s.dtors)
      /\ \A i \in 1..Len(s.dtors) : k.dtors[i].declaration = s.dtors[i].declaration
  <2>1. CASE k = DeclarationEnd(s) BY <1>2, <2>1, DeclarationEndPops
  <2>2. CASE k = EmitDeclaration(s) BY <1>2, <2>2, EmitDeclarationPops
  <2>3. QED BY <2>1, <2>2
<1>4. /\ Len(k.decls) = Len(s.decls) - One(DeclaresAt(p, n))
      /\ Len(k.dtors) = Len(s.dtors) - One(DeclaratorAt(p, n))
      /\ k.emit = s.emit + One(BodyAt(p, n))
      /\ \A i \in 1..Len(k.dtors) : k.dtors[i].declaration = s.dtors[i].declaration
      /\ Shaped(k)
  BY <1>1, <1>2, <1>3
<1>5. Pops(s, p, k) BY <1>4 DEF Pops
<1>6. QED BY <1>5, MirrorsPop

LEMMA DeclaratorClosed ==
  ASSUME NEW s, NEW p, StackInv(s, p), Len(p) > 1, p[Len(p)].at = "dtor",
         p[Len(p) - 1].at # "pdecl"
  PROVE  StackInv(DeclaratorEnd(s), Front(p))
<1> DEFINE n == Len(p)
           k == DeclaratorEnd(s)
<1>1. n \in Nat /\ n # 1 BY Innermost
<1>2. /\ One(DeclaresAt(p, n)) = 0 /\ One(DeclaratorAt(p, n)) = 1 /\ One(BodyAt(p, n)) = 0
  BY <1>1 DEF One, DeclaresAt, DeclaratorAt, BodyAt
<1>3. Shaped(s) /\ Len(s.dtors) >= 1 /\ Len(s.decls) \in Nat /\ s.emit \in Int
  BY <1>1, <1>2, Innermost, AtLeast
<1>4. /\ Shaped(k) /\ k.emit = s.emit /\ k.decls = s.decls
      /\ Len(k.dtors) = Len(s.dtors) - 1
      /\ \A i \in 1..Len(k.dtors) : k.dtors[i] = s.dtors[i]
  BY <1>3, DeclaratorEndPops
<1> HIDE DEF k
<1>5. /\ Len(k.decls) = Len(s.decls) - One(DeclaresAt(p, n))
      /\ Len(k.dtors) = Len(s.dtors) - One(DeclaratorAt(p, n))
      /\ k.emit = s.emit + One(BodyAt(p, n))
      /\ \A i \in 1..Len(k.dtors) : k.dtors[i].declaration = s.dtors[i].declaration
  BY <1>2, <1>3, <1>4
<1>6. Shaped(k) /\ n >= 1 BY <1>1, <1>4
<1>7. Pops(s, p, k) BY <1>5, <1>6 DEF Pops
<1>8. StackInv(k, Front(p)) BY <1>7, MirrorsPop
<1>9. QED BY <1>8 DEF k

(* The declarator of a parameter is begun with its declaration.            *)
LEMMA ParameterDeclarator ==
  ASSUME NEW s, NEW p, StackInv(s, p), Len(p) > 1, p[Len(p)].at = "dtor",
         p[Len(p) - 1].at = "pdecl"
  PROVE  /\ StackInv(s, Front(p)) /\ Len(Front(p)) = Len(p) - 1 /\ Len(Front(p)) >= 1
         /\ Front(p)[Len(Front(p))] = p[Len(p) - 1]
         /\ Front(p)[Len(Front(p))].at = "pdecl"
<1> DEFINE n == Len(p)
           q == Front(p)
<1>1. n \in Nat /\ n # 1 /\ n >= 1 /\ Shaped(s) /\ Len(s.decls) \in Nat
      /\ Len(s.dtors) \in Nat /\ s.emit \in Int
  BY Innermost, AtLeast
<1>2. /\ One(DeclaresAt(p, n)) = 0 /\ One(DeclaratorAt(p, n)) = 0 /\ One(BodyAt(p, n)) = 0
  BY <1>1 DEF One, DeclaresAt, DeclaratorAt, BodyAt
<1>3. /\ Len(s.decls) = Len(s.decls) - One(DeclaresAt(p, n))
      /\ Len(s.dtors) = Len(s.dtors) - One(DeclaratorAt(p, n))
      /\ s.emit = s.emit + One(BodyAt(p, n))
  BY <1>1, <1>2
<1>4. /\ StackInv(s, q) /\ Len(q) = n - 1 /\ \A i \in 1..Len(q) : q[i] = p[i]
  <2>1. Pops(s, p, s) BY <1>1, <1>3 DEF Pops
  <2>2. QED BY <2>1, MirrorsPop
<1> HIDE DEF q
<1>5. n - 1 >= 1 /\ n - 1 \in 1..n - 1 BY <1>1
<1>6. Len(q) >= 1 /\ q[Len(q)] = p[n - 1] /\ q[Len(q)].at = "pdecl" BY <1>4, <1>5
<1>7. QED BY <1>4, <1>6 DEF q

(* A type specifier has been read; a parameter gets its declarator.        *)
LEMMA SpecsRead ==
  ASSUME NEW s, NEW p, StackInv(s, p), Len(p) >= 1, NEW k, Keeps(s, k), NEW term
  PROVE  StackInv(k, Specified(p, term))
<1> DEFINE n == Len(p)
           f == [Last(p) EXCEPT !.phase = "dtors", !.type = term]
           q == SetTop(p, f)
           g == Frame("dtor", "stars", term)
           r == Append(q, g)
<1>1. n \in Nat /\ n >= 1 /\ Last(p) = p[n] /\ DOMAIN p[n] = FrameFields BY Innermost
<1>2. DOMAIN f = FrameFields /\ f.at = p[n].at BY <1>1 DEF FrameFields
<1>3. Specified(p, term) = IF f.at = "pdecl" THEN r ELSE q BY DEF Specified
<1> HIDE DEF f
<1>4. StackInv(k, q) /\ Len(q) = n /\ q[n] = f BY <1>2, TopChanged
<1>5. ASSUME f.at = "pdecl" PROVE StackInv(k, r)
  <2>1. DOMAIN g = FrameFields /\ g.at = "dtor" BY FrameShape
  <2> HIDE DEF q, g
  <2>2. Nests(r) /\ r[n + 1] = g /\ r[n] = f
    <3>1. Nests(r) /\ r[n + 1] = g /\ \A i \in 1..n : r[i] = q[i] BY <1>4, <2>1, Opened
    <3>2. QED BY <1>1, <1>4, <3>1
  <2>3. r = Append(q, g) OBVIOUS
  <2> HIDE DEF r
  <2>4. /\ One(DeclaresAt(r, n + 1)) = 0 /\ One(DeclaratorAt(r, n + 1)) = 0
        /\ One(BodyAt(r, n + 1)) = 0
    <3>1. (n + 1) - 1 = n /\ n + 1 # 1 BY <1>1
    <3>2. QED BY <1>5, <2>1, <2>2, <3>1 DEF One, DeclaresAt, DeclaratorAt, BodyAt
  <2>5. Len(k.dtors) >= 1 /\ k.dtors[Len(k.dtors)].declaration = Len(k.decls)
    <3>1. n \in 1..n BY <1>1
    <3>2. NDtor(q, n) = Len(k.dtors) /\ NDecl(q, n) = Len(k.decls)
      BY <1>4 DEF StackInv, Mirrors
    <3>3. NDtor(q, n) \in 1..Len(k.dtors) /\ k.dtors[NDtor(q, n)].declaration = NDecl(q, n)
      BY <1>4, <1>5, <3>1 DEF StackInv, Mirrors
    <3>4. QED BY <3>2, <3>3
  <2>6. Len(k.dtors) \in Nat /\ Len(k.decls) \in Nat /\ k.emit \in Int /\ Shaped(k)
    BY <1>1, <1>4, Innermost, AtLeast
  <2>7. /\ Len(k.decls) = Len(k.decls) + One(DeclaresAt(r, n + 1))
        /\ Len(k.dtors) = Len(k.dtors) + One(DeclaratorAt(r, n + 1))
        /\ k.emit = k.emit - One(BodyAt(r, n + 1))
        /\ \A i \in 1..Len(k.dtors) : k.dtors[i].declaration = k.dtors[i].declaration
    BY <2>4, <2>6
  <2>8. n = Len(q) BY <1>4
  <2> HIDE DEF n
  <2>9. Pushes(k, q, g, k, r) BY <2>2, <2>3, <2>5, <2>6, <2>7, <2>8 DEF Pushes
  <2>10. QED BY <1>4, <2>9, MirrorsPush
<1>6. QED BY <1>3, <1>4, <1>5

-----------------------------------------------------------------------------
(* The steps.                                                              *)

LEMMA QuietSame ==
  ASSUME StackInv(c, parse)
  PROVE  /\ StackInv(Quiet, parse) /\ Untouched(c, Quiet) /\ Shaped(Quiet)
         /\ Keeps(Quiet, Quiet)
<1>1. Shaped(c) BY DEF StackInv
<1>2. Untouched(c, Quiet) BY <1>1 DEF Quiet, Untouched, Shaped, Fields
<1>3. SameAts(parse, parse, Len(parse)) BY DEF SameAts
<1>4. Keeps(c, Quiet) BY <1>1, <1>2, UntouchedKeeps
<1>5. StackInv(Quiet, parse) BY <1>3, <1>4, MirrorsStay DEF StackInv
<1>6. Shaped(Quiet) BY <1>5 DEF StackInv
<1>7. QED BY <1>2, <1>5, <1>6, KeepsSelf

LEMMA AtTop ==
  ASSUME StackInv(c, parse), NEW kinds
  PROVE  /\ At(kinds) => /\ Len(parse) >= 1 /\ Top = parse[Len(parse)]
                         /\ DOMAIN Top = FrameFields /\ Top.at \in kinds
         /\ UnderAt(kinds) => Len(parse) > 1 /\ parse[Len(parse) - 1].at \in kinds
<1>1. /\ Len(parse) \in Nat /\ (parse = <<>> <=> Len(parse) = 0)
      /\ Last(parse) = parse[Len(parse)]
      /\ Len(parse) >= 1 => DOMAIN parse[Len(parse)] = FrameFields
  BY Innermost
<1>2. QED BY <1>1 DEF At, UnderAt, Top, Under

LEMMA SpecifierSteps ==
  ASSUME StackInv(c, parse),
         \/ SpecIntrinsic \/ SpecTypeName \/ SpecStruct \/ SpecEnum
  PROVE  StackInv(c', parse')
<1>1. \E s, t, term : /\ Untouched(Quiet, s) /\ SpecsOpen
                      /\ c' = TypeSpecifier(s, t) /\ parse' = Specified(parse, term)
  <2>1. Untouched(Quiet, Quiet) BY QuietSame DEF Untouched
  <2>2. \A r : Untouched(Quiet, [Quiet EXCEPT !.rt = r])
    <3>1. DOMAIN Quiet = Fields BY QuietSame DEF Shaped
    <3>2. QED BY <3>1 DEF Untouched, Fields
  <2>3. CASE SpecIntrinsic BY <2>1, <2>3 DEF SpecIntrinsic, Reduce
  <2>4. CASE SpecTypeName BY <2>1, <2>4 DEF SpecTypeName, Reduce
  <2>5. CASE SpecStruct BY <2>2, <2>5 DEF SpecStruct, Reduce
  <2>6. CASE SpecEnum BY <2>2, <2>6 DEF SpecEnum, Reduce
  <2>7. QED BY <2>3, <2>4, <2>5, <2>6
<1>2. PICK s, t, term : /\ Untouched(Quiet, s) /\ SpecsOpen
                        /\ c' = TypeSpecifier(s, t) /\ parse' = Specified(parse, term)
  BY <1>1
<1>3. Len(parse) >= 1 BY <1>2, AtTop DEF SpecsOpen
<1>4. Keeps(Quiet, s) BY <1>2, QuietSame, UntouchedKeeps
<1>5. Keeps(s, TypeSpecifier(s, t)) BY <1>4, TypeSpecifierKeeps DEF Keeps
<1>6. Keeps(Quiet, TypeSpecifier(s, t)) BY <1>4, <1>5, QuietSame, KeepsTwice
<1>7. QED BY <1>2, <1>3, <1>6, QuietSame, SpecsRead

LEMMA SpecAgainStep ==
  ASSUME StackInv(c, parse), SpecAgain
  PROVE  StackInv(c', parse')
<1>1. \A t, at : Keeps(Quiet, NextSpecifier(Quiet, at, t)) BY QuietSame, NextSpecifierKeeps
<1>2. ASSUME NEW p, NEW first, NEW next, NEW whole, SpecifiedAgain(p, first, next, whole),
             StackInv(Quiet, p), Len(p) >= 1
      PROVE  StackInv(c', parse')
  <2>1. PICK t, at, term : /\ c' = NextSpecifier(Quiet, at, t)
                           /\ parse' = Specified(p, term)
    BY <1>2 DEF SpecifiedAgain, Reduce
  <2>2. Keeps(Quiet, c') BY <1>1, <2>1
  <2>3. QED BY <1>2, <2>1, <2>2, SpecsRead
<1>3. PICK first, next, whole :
        \/ At({"decl", "sdecl"}) /\ SpecifiedAgain(parse, first, next, whole)
        \/ At({"dtor"}) /\ UnderAt({"pdecl"}) /\ SpecifiedAgain(Pop, first, next, whole)
  BY DEF SpecAgain
<1>4. CASE At({"decl", "sdecl"}) /\ SpecifiedAgain(parse, first, next, whole)
  <2>1. Len(parse) >= 1 BY <1>4, AtTop
  <2>2. QED BY <1>2, <1>4, <2>1, QuietSame
<1>5. CASE At({"dtor"}) /\ UnderAt({"pdecl"}) /\ SpecifiedAgain(Pop, first, next, whole)
  <2>1. Len(parse) > 1 /\ parse[Len(parse)].at = "dtor" /\ parse[Len(parse) - 1].at = "pdecl"
    BY <1>5, AtTop
  <2>2. StackInv(Quiet, Front(parse)) /\ Len(Front(parse)) >= 1
    BY <2>1, QuietSame, ParameterDeclarator
  <2>3. Pop = Front(parse) BY DEF Pop
  <2>4. QED BY <1>2, <1>5, <2>2, <2>3
<1>6. QED BY <1>3, <1>4, <1>5

(* Steps that change the innermost position and keep the stacks.           *)
LEMMA TopStep ==
  ASSUME StackInv(c, parse), NEW kinds, At(kinds), NEW s, Keeps(Quiet, s), c' = s,
         NEW f, DOMAIN f = FrameFields, f.at = Top.at, parse' = SetTop(parse, f)
  PROVE  StackInv(c', parse')
<1>1. Len(parse) >= 1 /\ f.at = parse[Len(parse)].at BY AtTop
<1>2. StackInv(s, SetTop(parse, f)) BY <1>1, QuietSame, TopChanged
<1>3. QED BY <1>2

LEMMA CurrentDeclarator ==
  ASSUME StackInv(c, parse), NEW s, NEW v, DOMAIN s = Fields,
         s.decls = c.decls, s.emit = c.emit,
         s.dtors = [c.dtors EXCEPT ![Len(c.dtors)] = v],
         Len(c.dtors) >= 1 =>
           DOMAIN v = DtorFields /\ v.declaration = c.dtors[Len(c.dtors)].declaration
  PROVE  Keeps(Quiet, s)
<1>1. PICK q : q = Quiet OBVIOUS
<1>2. Shaped(q) /\ q.dtors = c.dtors /\ q.decls = c.decls /\ q.emit = c.emit
  BY <1>1, QuietSame DEF Untouched
<1>3. PICK n : n = Len(c.dtors) OBVIOUS
<1>4. s.dtors = [q.dtors EXCEPT ![n] = v] BY <1>2, <1>3
<1>5. n \in 1..Len(q.dtors) => DOMAIN v = DtorFields /\ v.declaration = q.dtors[n].declaration
  BY <1>2, <1>3
<1>6. Keeps(q, s) BY <1>2, <1>4, <1>5, DeclaratorSet
<1>7. QED BY <1>1, <1>6

LEMMA PlainSteps ==
  ASSUME StackInv(c, parse), \/ StorageClass \/ Star \/ ParenOpen \/ EnumItem
  PROVE  StackInv(c', parse')
<1>1. Shaped(Quiet) /\ DOMAIN Quiet = Fields BY QuietSame DEF Shaped
<1>2. CASE StorageClass
  <2> DEFINE n == Len(c.decls)
             v == [Quiet.decls[n] EXCEPT !.storage = "typedef"]
             s == [Quiet EXCEPT !.decls = [@ EXCEPT ![n] = v]]
             f == [Top EXCEPT !.storage = "typedef"]
  <2>1. At({"decl"}) /\ c' = s /\ parse' = SetTop(parse, f)
    BY <1>2 DEF StorageClass, Reduce
  <2>2. DOMAIN f = FrameFields /\ f.at = Top.at BY <2>1, AtTop DEF FrameFields
  <2>3. /\ DOMAIN s = Fields /\ s.dtors = Quiet.dtors /\ s.emit = Quiet.emit
        /\ s.decls = [Quiet.decls EXCEPT ![n] = v]
    BY <1>1 DEF Fields
  <2>4. n \in 1..Len(Quiet.decls) => DOMAIN v = DeclFields /\ IsSeq(v.declarators)
    BY <1>1 DEF Shaped, DeclFields
  <2>5. PICK q, m, w : q = Quiet /\ m = n /\ w = v OBVIOUS
  <2> HIDE DEF n, v, s, f
  <2>6. Keeps(q, s) BY <1>1, <2>3, <2>4, <2>5, DeclarationSet
  <2>7. QED BY <2>1, <2>2, <2>5, <2>6, TopStep
<1>3. CASE Star
  <2> DEFINE f == IF Top.phase = "paren" THEN [Top EXCEPT !.inner = @ + 1]
                  ELSE [Top EXCEPT !.type = PointerTo(@)]
  <2>1. At({"dtor"}) /\ c' = PointerDecl(Quiet) /\ parse' = SetTop(parse, f)
    BY <1>3 DEF Star, Reduce
  <2>2. DOMAIN f = FrameFields /\ f.at = Top.at BY <2>1, AtTop DEF FrameFields
  <2> HIDE DEF f
  <2>3. Keeps(Quiet, PointerDecl(Quiet)) BY <1>1, PointerDeclKeeps
  <2>4. QED BY <2>1, <2>2, <2>3, TopStep
<1>4. CASE ParenOpen
  <2> DEFINE f == [Top EXCEPT !.phase = "paren"]
  <2>1. At({"dtor"}) /\ c' = Quiet /\ parse' = SetTop(parse, f)
    BY <1>4 DEF ParenOpen, Reduce
  <2>2. DOMAIN f = FrameFields /\ f.at = Top.at BY <2>1, AtTop DEF FrameFields
  <2> HIDE DEF f
  <2>3. QED BY <2>1, <2>2, QuietSame, TopStep
<1>5. CASE EnumItem
  <2>1. PICK n \in ElemNames : c' = Enumerator(Quiet, n) /\ parse' = Counted(parse)
    BY <1>5 DEF EnumItem, Reduce
  <2>2. Keeps(Quiet, Enumerator(Quiet, n)) BY <1>1, EnumSteps, UntouchedKeeps
  <2>3. QED BY <2>1, <2>2, QuietSame, Recounted
<1>6. QED BY <1>2, <1>3, <1>4, <1>5

LEMMA DeclaratorSteps ==
  ASSUME StackInv(c, parse), ParenClose \/ Identifier \/ BitField
  PROVE  StackInv(c', parse')
<1> DEFINE n == Len(c.dtors)
           d == Quiet.dtors[n]
<1>1. DOMAIN Quiet = Fields /\ Quiet.dtors = c.dtors /\ Quiet.decls = c.decls
      /\ Quiet.emit = c.emit
  BY QuietSame DEF Untouched
<1>2. n >= 1 => DOMAIN d = DtorFields /\ d = c.dtors[n]
  <2>1. n \in Nat BY Innermost
  <2>2. QED BY <1>1, <2>1 DEF StackInv, Shaped
<1>3. \A v : LET s == [Quiet EXCEPT !.dtors = [@ EXCEPT ![n] = v]]
             IN  /\ DOMAIN s = Fields /\ s.decls = c.decls /\ s.emit = c.emit
                 /\ s.dtors = [c.dtors EXCEPT ![n] = v]
  BY <1>1 DEF Fields
<1>4. CASE ParenClose
  <2> DEFINE v == [d EXCEPT !.parenthised = TRUE]
             s == [Quiet EXCEPT !.dtors = [@ EXCEPT ![n] = v]]
             f == [Top EXCEPT !.phase = "suffix"]
  <2>1. At({"dtor"}) /\ c' = s /\ parse' = SetTop(parse, f) BY <1>4 DEF ParenClose, Reduce
  <2>2. DOMAIN f = FrameFields /\ f.at = Top.at BY <2>1, AtTop DEF FrameFields
  <2>3. n >= 1 => DOMAIN v = DtorFields /\ v.declaration = c.dtors[n].declaration
    BY <1>2 DEF DtorFields
  <2>4. /\ DOMAIN s = Fields /\ s.decls = c.decls /\ s.emit = c.emit
        /\ s.dtors = [c.dtors EXCEPT ![n] = v]
    BY <1>3
  <2> HIDE DEF s, v, f
  <2>5. Keeps(Quiet, s) BY <2>3, <2>4, CurrentDeclarator
  <2>6. QED BY <2>1, <2>2, <2>5, TopStep
<1>5. CASE Identifier
  <2>1. PICK name : At({"dtor"})
                    /\ c' = [Quiet EXCEPT !.dtors[Len(c.dtors)].identifier = name]
                    /\ parse' = SetTop(parse, [Top EXCEPT !.name = name,
                                  !.phase = IF @ = "paren" THEN "closing" ELSE "suffix"])
    BY <1>5 DEF Identifier, Reduce
  <2> DEFINE v == [d EXCEPT !.identifier = name]
             s == [Quiet EXCEPT !.dtors = [@ EXCEPT ![n] = v]]
             f == [Top EXCEPT !.name = name,
                              !.phase = IF @ = "paren" THEN "closing" ELSE "suffix"]
  <2>2. At({"dtor"}) /\ c' = s /\ parse' = SetTop(parse, f) BY <2>1
  <2>3. DOMAIN f = FrameFields /\ f.at = Top.at BY <2>1, AtTop DEF FrameFields
  <2>4. n >= 1 => DOMAIN v = DtorFields /\ v.declaration = c.dtors[n].declaration
    BY <1>2 DEF DtorFields
  <2>5. /\ DOMAIN s = Fields /\ s.decls = c.decls /\ s.emit = c.emit
        /\ s.dtors = [c.dtors EXCEPT ![n] = v]
    BY <1>3
  <2> HIDE DEF s, v, f
  <2>6. Keeps(Quiet, s) BY <2>4, <2>5, CurrentDeclarator
  <2>7. QED BY <2>2, <2>3, <2>6, TopStep
<1>6. CASE BitField
  <2>1. PICK len : At({"dtor"})
                   /\ c' = [Quiet EXCEPT !.dtors[Len(c.dtors)].bits = len]
                   /\ parse' = SetTop(parse, [Top EXCEPT !.phase = "done",
                                                         !.type = BitsOf(@, len)])
    BY <1>6 DEF BitField, Reduce
  <2> DEFINE v == [d EXCEPT !.bits = len]
             s == [Quiet EXCEPT !.dtors = [@ EXCEPT ![n] = v]]
             f == [Top EXCEPT !.phase = "done", !.type = BitsOf(@, len)]
  <2>2. At({"dtor"}) /\ c' = s /\ parse' = SetTop(parse, f) BY <2>1
  <2>3. DOMAIN f = FrameFields /\ f.at = Top.at BY <2>1, AtTop DEF FrameFields
  <2>4. n >= 1 => DOMAIN v = DtorFields /\ v.declaration = c.dtors[n].declaration
    BY <1>2 DEF DtorFields
  <2>5. /\ DOMAIN s = Fields /\ s.decls = c.decls /\ s.emit = c.emit
        /\ s.dtors = [c.dtors EXCEPT ![n] = v]
    BY <1>3
  <2> HIDE DEF s, v, f
  <2>6. Keeps(Quiet, s) BY <2>4, <2>5, CurrentDeclarator
  <2>7. QED BY <2>2, <2>3, <2>6, TopStep
<1>7. QED BY <1>4, <1>5, <1>6

LEMMA ArraySteps ==
  ASSUME StackInv(c, parse), ArraySuffix \/ SizeofSuffix
  PROVE  StackInv(c', parse')
<1>1. Shaped(Quiet) BY QuietSame
<1>2. CASE ArraySuffix
  <2>1. PICK n \in 1..2 : \E lens \in [1..n -> Lengths] :
          /\ At({"dtor"}) /\ c' = ArrayDecl(Quiet, lens)
          /\ parse' = SetTop(parse, [Top EXCEPT !.phase = "done",
               !.type = FoldRight(LAMBDA len, t : ArrayOf(t, len), lens, @)])
    BY <1>2 DEF ArraySuffix, SuffixOpen, Reduce
  <2>2. PICK lens \in [1..n -> Lengths] :
          /\ At({"dtor"}) /\ c' = ArrayDecl(Quiet, lens)
          /\ parse' = SetTop(parse, [Top EXCEPT !.phase = "done",
               !.type = FoldRight(LAMBDA len, t : ArrayOf(t, len), lens, @)])
    BY <2>1
  <2> DEFINE g == FoldRight(LAMBDA len, t : ArrayOf(t, len), lens, Top.type)
             f == [Top EXCEPT !.phase = "done", !.type = g]
  <2>3. parse' = SetTop(parse, f) BY <2>2
  <2> HIDE DEF g
  <2>4. DOMAIN f = FrameFields /\ f.at = Top.at BY <2>2, AtTop DEF FrameFields
  <2> HIDE DEF f
  <2>5. IsSeq(lens)
    <3>1. n \in Nat OBVIOUS
    <3>2. lens \in Seq(Lengths) BY <3>1
    <3>3. QED BY <3>2 DEF IsSeq
  <2>6. Keeps(Quiet, ArrayDecl(Quiet, lens)) BY <1>1, <2>5, ArrayDeclKeeps
  <2>7. QED BY <2>2, <2>3, <2>4, <2>6, TopStep
<1>3. CASE SizeofSuffix
  <2>1. PICK n, e : /\ At({"dtor"})
                    /\ c' = ArrayDecl(TypeSpecifier(Quiet, TypeByName(c.rt, n)), <<Expr(e)>>)
                    /\ parse' = SetTop(parse, [Top EXCEPT !.phase = "done",
                                                          !.type = ArrayOf(@, Expr(e))])
    BY <1>3 DEF SizeofSuffix, SuffixOpen, Reduce
  <2> DEFINE f == [Top EXCEPT !.phase = "done", !.type = ArrayOf(@, Expr(e))]
             lens == <<Expr(e)>>
             k == TypeSpecifier(Quiet, TypeByName(c.rt, n))
  <2>2. At({"dtor"}) /\ c' = ArrayDecl(k, lens) /\ parse' = SetTop(parse, f) BY <2>1
  <2>3. DOMAIN f = FrameFields /\ f.at = Top.at BY <2>1, AtTop DEF FrameFields
  <2>4. IsSeq(lens)
    <3>1. lens \in Seq({Expr(e)}) OBVIOUS
    <3> HIDE DEF lens
    <3>2. QED BY <3>1 DEF IsSeq
  <2>5. Keeps(Quiet, k) BY <1>1, TypeSpecifierKeeps
  <2> HIDE DEF f, lens, k
  <2>6. Keeps(k, ArrayDecl(k, lens)) BY <2>4, <2>5, ArrayDeclKeeps DEF Keeps
  <2>7. Keeps(Quiet, ArrayDecl(k, lens)) BY <1>1, <2>5, <2>6, KeepsTwice
  <2>8. QED BY <2>2, <2>3, <2>7, TopStep
<1>4. QED BY <1>2, <1>3

(* Steps that open a position.                                             *)
LEMMA OpenSteps ==
  ASSUME StackInv(c, parse),
         \/ DeclarationStart \/ MemberStart \/ DefinitionStart
         \/ StructOpen \/ EnumOpen \/ FunctionOpen
         \/ DeclaratorStart \/ ParamStart \/ BodyOpen
  PROVE  StackInv(c', parse')
<1>1. /\ StackInv(Quiet, parse) /\ Shaped(Quiet) /\ DOMAIN Quiet = Fields
      /\ Keeps(Quiet, Quiet)
  BY QuietSame DEF Shaped
<1>2. CASE DeclarationStart \/ MemberStart \/ DefinitionStart
  <2>1. PICK f : /\ DOMAIN f = FrameFields /\ f.at \in {"decl", "sdecl", "fdef"}
                 /\ c' = DeclarationBegin(Quiet) /\ parse' = Append(parse, f)
    BY <1>2, FrameShape DEF DeclarationStart, MemberStart, DefinitionStart, Reduce, Push
  <2>2. QED BY <1>1, <2>1, DeclarationOpened
<1>3. CASE StructOpen
  <2>1. PICK su, n, term : /\ SpecsOpen \/ At({"struct"})
                           /\ c' = BeginStruct(Quiet, su, n)
                           /\ parse' = Append(parse, Frame("struct", "members", term))
    BY <1>3 DEF StructOpen, Reduce, Push
  <2>2. Len(parse) >= 1 BY <2>1, AtTop DEF SpecsOpen
  <2>3. Keeps(Quiet, BeginStruct(Quiet, su, n)) BY <1>1, StructSteps, UntouchedKeeps
  <2>4. QED BY <1>1, <2>1, <2>2, <2>3, FrameShape, ListOpened
<1>4. CASE EnumOpen
  <2>1. PICK n, term : /\ SpecsOpen /\ c' = BeginEnum(Quiet, n)
                       /\ parse' = Append(parse, Frame("enum", "members", term))
    BY <1>4 DEF EnumOpen, Reduce, Push
  <2>2. Len(parse) >= 1 BY <2>1, AtTop DEF SpecsOpen
  <2>3. Keeps(Quiet, BeginEnum(Quiet, n)) BY <1>1, EnumSteps, UntouchedKeeps
  <2>4. QED BY <1>1, <2>1, <2>2, <2>3, FrameShape, ListOpened
<1>5. CASE FunctionOpen
  <2>1. /\ At({"dtor"}) /\ c' = Quiet
        /\ parse' = Append(parse, Frame("params", "params", NullTerm))
    BY <1>5 DEF FunctionOpen, Reduce, Push
  <2>2. Len(parse) >= 1 BY <2>1, AtTop
  <2>3. QED BY <1>1, <2>1, <2>2, FrameShape, ListOpened
<1>6. CASE DeclaratorStart
  <2>1. /\ At({"decl", "sdecl", "fdef"}) /\ c' = DeclaratorBegin(Quiet)
        /\ parse' = Append(parse, Frame("dtor", "stars", Top.type))
    BY <1>6 DEF DeclaratorStart, Reduce, Push
  <2>2. Len(parse) >= 1 /\ parse[Len(parse)].at \in {"decl", "sdecl", "fdef"} BY <2>1, AtTop
  <2>3. QED BY <1>1, <2>1, <2>2, FrameShape, DeclaratorOpened
<1>7. CASE ParamStart
  <2>1. /\ At({"params"}) /\ c' = DeclaratorBegin(DeclarationBegin(Quiet))
        /\ parse' = Append(parse, Frame("pdecl", "specs", NullTerm))
    BY <1>7 DEF ParamStart, Reduce, Push
  <2>2. Len(parse) >= 1 BY <2>1, AtTop
  <2>3. QED BY <1>1, <2>1, <2>2, FrameShape, ParameterOpened
<1>8. CASE BodyOpen
  <2>1. /\ At({"fdef"}) /\ c' = EmitControl(Quiet, -1)
        /\ parse' = Append(parse, Frame("body", "body", NullTerm))
    BY <1>8 DEF BodyOpen, Reduce, Push
  <2>2. Len(parse) >= 1 /\ parse[Len(parse)].at = "fdef" BY <2>1, AtTop
  <2>3. QED BY <1>1, <2>1, <2>2, FrameShape, BodyOpened
<1>9. QED BY <1>2, <1>3, <1>4, <1>5, <1>6, <1>7, <1>8

(* A list that is closed lies in another position.                         *)
LEMMA ListIsInner ==
  ASSUME NEW s, NEW p, StackInv(s, p), Len(p) >= 1,
         p[Len(p)].at \in {"struct", "enum", "params", "pdecl", "body"}
  PROVE  Len(p) > 1 /\ (p[Len(p)].at = "body" => p[Len(p) - 1].at = "fdef")
<1>1. Len(p) \in 1..Len(p) BY Innermost
<1>2. QED BY <1>1 DEF StackInv, Nests

LEMMA BodyClosed ==
  ASSUME NEW s, NEW p, StackInv(s, p), Len(p) >= 1, p[Len(p)].at = "body"
  PROVE  /\ StackInv(EmitControl(s, 1), Front(p)) /\ Len(Front(p)) >= 1
         /\ Front(p)[Len(Front(p))].at = "fdef"
<1> DEFINE n == Len(p)
           k == EmitControl(s, 1)
<1>1. /\ n \in Nat /\ n > 1 /\ p[n - 1].at = "fdef" /\ Shaped(s)
      /\ Len(s.decls) \in Nat /\ Len(s.dtors) \in Nat /\ s.emit \in Int
  BY Innermost, ListIsInner, AtLeast
<1>2. DOMAIN k = Fields /\ k.decls = s.decls /\ k.dtors = s.dtors /\ k.emit = s.emit + 1
  BY <1>1 DEF EmitControl, Fields, Shaped
<1> HIDE DEF k
<1>3. /\ One(DeclaresAt(p, n)) = 0 /\ One(DeclaratorAt(p, n)) = 0 /\ One(BodyAt(p, n)) = 1
  BY DEF One, DeclaresAt, DeclaratorAt, BodyAt
<1>4. /\ Len(k.decls) = Len(s.decls) - One(DeclaresAt(p, n))
      /\ Len(k.dtors) = Len(s.dtors) - One(DeclaratorAt(p, n))
      /\ k.emit = s.emit + One(BodyAt(p, n))
      /\ \A i \in 1..Len(k.dtors) : k.dtors[i].declaration = s.dtors[i].declaration
  BY <1>1, <1>2, <1>3
<1>5. Shaped(k) BY <1>1, <1>2 DEF Shaped
<1>6. /\ StackInv(k, Front(p)) /\ Len(Front(p)) = n - 1
      /\ \A i \in 1..Len(Front(p)) : Front(p)[i] = p[i]
  <2>1. Pops(s, p, k) BY <1>1, <1>4, <1>5 DEF Pops
  <2>2. QED BY <2>1, MirrorsPop
<1>7. n - 1 >= 1 /\ n - 1 \in 1..n - 1 BY <1>1
<1>8. QED BY <1>1, <1>6, <1>7 DEF k

(* The declarator of a parameter and the parameter are closed together.    *)
LEMMA ParameterClosed ==
  ASSUME NEW s, NEW p, StackInv(s, p), Len(p) > 1, p[Len(p)].at = "dtor",
         p[Len(p) - 1].at = "pdecl"
  PROVE  /\ StackInv(DeclarationEnd(DeclaratorEnd(s)), Front(Front(p)))
         /\ Len(Front(Front(p))) >= 1
<1> DEFINE q == Front(p)
           l == DeclaratorEnd(s)
           k == DeclarationEnd(l)
<1>1. Shaped(s) /\ Len(s.decls) \in Nat /\ Len(s.dtors) \in Nat /\ s.emit \in Int
  <2>1. Len(p) >= 1 BY Innermost
  <2>2. QED BY <2>1, Innermost, AtLeast
<1>4. StackInv(s, q) BY ParameterDeclarator
<1>5. Len(q) >= 1 /\ q[Len(q)].at = "pdecl" BY ParameterDeclarator
<1> HIDE DEF q
<1>6. Len(q) > 1 /\ Len(q) \in Nat BY <1>4, <1>5, ListIsInner, Innermost
<1> DEFINE m == Len(q)
<1>7. /\ One(DeclaresAt(q, m)) = 1 /\ One(DeclaratorAt(q, m)) = 1 /\ One(BodyAt(q, m)) = 0
  BY <1>5 DEF One, DeclaresAt, DeclaratorAt, BodyAt
<1>8. Len(s.decls) >= 1 /\ Len(s.dtors) >= 1
  <2>1. Len(s.decls) >= One(DeclaresAt(q, m)) /\ Len(s.dtors) >= One(DeclaratorAt(q, m))
    BY <1>4, <1>5, AtLeast
  <2>2. QED BY <1>7, <2>1
<1>9. /\ Shaped(l) /\ l.emit = s.emit /\ l.decls = s.decls
      /\ Len(l.dtors) = Len(s.dtors) - 1
      /\ \A i \in 1..Len(l.dtors) : l.dtors[i] = s.dtors[i]
  BY <1>1, <1>8, DeclaratorEndPops
<1> HIDE DEF l
<1>10. Shaped(k) /\ k.emit = l.emit /\ k.dtors = l.dtors /\ Len(k.decls) = Len(l.decls) - 1
  BY <1>8, <1>9, DeclarationEndPops
<1> HIDE DEF k
<1>11. /\ Len(k.decls) = Len(s.decls) - One(DeclaresAt(q, m))
       /\ Len(k.dtors) = Len(s.dtors) - One(DeclaratorAt(q, m))
       /\ k.emit = s.emit + One(BodyAt(q, m))
       /\ \A i \in 1..Len(k.dtors) : k.dtors[i].declaration = s.dtors[i].declaration
  <2>1. Len(k.decls) = Len(s.decls) - 1 BY <1>9, <1>10
  <2>2. Len(k.dtors) = Len(s.dtors) - 1 BY <1>9, <1>10
  <2>3. k.emit = s.emit + 0 BY <1>1, <1>9, <1>10
  <2>4. \A i \in 1..Len(k.dtors) : k.dtors[i].declaration = s.dtors[i].declaration
    BY <1>9, <1>10
  <2>5. QED BY <1>7, <2>1, <2>2, <2>3, <2>4
<1>12. StackInv(k, Front(q)) /\ Len(Front(q)) = m - 1
  <2>1. Shaped(k) BY <1>10
  <2>2. Pops(s, q, k) BY <1>5, <1>11, <2>1 DEF Pops
  <2>3. QED BY <1>4, <2>2, MirrorsPop
<1>13. QED BY <1>6, <1>12 DEF k, l, q

LEMMA ListCloseSteps ==
  ASSUME StackInv(c, parse), StructClose \/ EnumClose \/ FunctionClose
  PROVE  StackInv(c', parse')
<1>1. /\ StackInv(Quiet, parse) /\ Shaped(Quiet) /\ DOMAIN Quiet = Fields
  BY QuietSame DEF Shaped
<1>2. At({"struct", "enum", "params"}) =>
        /\ Len(parse) >= 1 /\ Len(parse) > 1 /\ Len(parse) \in Nat
        /\ parse[Len(parse)].at \in {"struct", "enum", "params"}
  BY AtTop, ListIsInner, Innermost
<1>3. ASSUME At({"struct", "enum", "params"}), NEW k, Keeps(Quiet, k)
      PROVE  StackInv(k, Pop) /\ Len(Pop) >= 1 /\ Len(Pop) = Len(parse) - 1
             /\ \A i \in 1..Len(Pop) : Pop[i] = parse[i]
  <2>1. /\ StackInv(k, Front(parse)) /\ Len(Front(parse)) = Len(parse) - 1
        /\ \A i \in 1..Len(Front(parse)) : Front(parse)[i] = parse[i]
    BY <1>1, <1>2, <1>3, ListClosed
  <2>2. QED BY <1>2, <1>3, <2>1 DEF Pop
<1>4. \A k, t : Shaped(k) => Shaped(TypeSpecifier(k, t)) /\ Keeps(k, TypeSpecifier(k, t))
  BY TypeSpecifierKeeps DEF Keeps
<1>5. CASE StructClose
  <2> DEFINE k == EndStruct(Quiet)
  <2>1. At({"struct", "enum", "params"}) BY <1>5 DEF StructClose, At
  <2>2. Keeps(Quiet, k) BY <1>1, StructSteps, UntouchedKeeps
  <2>3. \/ c' = k /\ parse' = Counted(Pop)
        \/ \E t, term : c' = TypeSpecifier(k, t) /\ parse' = Specified(Pop, term)
    BY <1>5 DEF StructClose, Reduce
  <2> HIDE DEF k
  <2>4. StackInv(k, Pop) /\ Len(Pop) >= 1 /\ Shaped(k) /\ Keeps(k, k)
    BY <1>3, <2>1, <2>2, KeepsSelf DEF Keeps
  <2>5. CASE c' = k /\ parse' = Counted(Pop) BY <2>4, <2>5, Recounted
  <2>6. CASE \E t, term : c' = TypeSpecifier(k, t) /\ parse' = Specified(Pop, term)
    BY <1>4, <2>4, <2>6, SpecsRead
  <2>7. QED BY <2>3, <2>5, <2>6
<1>6. CASE EnumClose
  <2> DEFINE k == EndEnum(Quiet)
  <2>1. At({"struct", "enum", "params"}) BY <1>6 DEF EnumClose, At
  <2>2. Keeps(Quiet, k) BY <1>1, EnumSteps, UntouchedKeeps
  <2>3. PICK t, term : c' = TypeSpecifier(k, t) /\ parse' = Specified(Pop, term)
    BY <1>6 DEF EnumClose, Reduce
  <2> HIDE DEF k
  <2>4. StackInv(k, Pop) /\ Len(Pop) >= 1 /\ Shaped(k) BY <1>3, <2>1, <2>2 DEF Keeps
  <2>5. QED BY <1>4, <2>3, <2>4, SpecsRead
<1>7. CASE FunctionClose
  <2>1. PICK params, t : /\ At({"params"}) /\ c' = FunctionDecl(Quiet, params)
                         /\ parse' = SetTop(Pop, [Under EXCEPT !.phase = "done", !.type = t])
    BY <1>7 DEF FunctionClose, Reduce
  <2> DEFINE k == FunctionDecl(Quiet, params)
             f == [Under EXCEPT !.phase = "done", !.type = t]
  <2>2. At({"struct", "enum", "params"}) BY <2>1 DEF At
  <2>3. Keeps(Quiet, k) BY <1>1, FunctionDeclKeeps
  <2>4. c' = k /\ parse' = SetTop(Pop, f) BY <2>1
  <2> HIDE DEF k
  <2>5. StackInv(k, Pop) /\ Len(Pop) >= 1 /\ Len(Pop) = Len(parse) - 1
        /\ (\A i \in 1..Len(Pop) : Pop[i] = parse[i]) /\ Shaped(k) /\ Keeps(k, k)
    BY <1>3, <2>2, <2>3, KeepsSelf DEF Keeps
  <2>6. DOMAIN Pop[Len(Pop)] = FrameFields /\ Len(Pop) \in 1..Len(Pop)
    BY <2>5, Innermost
  <2>7. Under = Pop[Len(Pop)] BY <2>5, <2>6 DEF Under
  <2>8. DOMAIN f = FrameFields /\ f.at = Pop[Len(Pop)].at BY <2>6, <2>7 DEF FrameFields
  <2> HIDE DEF f
  <2>9. QED BY <2>4, <2>5, <2>8, TopChanged
<1>8. QED BY <1>5, <1>6, <1>7

LEMMA DeclarationCloseSteps ==
  ASSUME StackInv(c, parse),
         \/ MemberStop \/ DeclarationStop \/ DeclaratorStop \/ ParamStop \/ BodyClose
  PROVE  StackInv(c', parse')
<1>1. /\ StackInv(Quiet, parse) /\ Shaped(Quiet) /\ DOMAIN Quiet = Fields
  BY QuietSame DEF Shaped
<1>2. \A s, p : StackInv(s, p) => StackInv(s, Counted(p))
  BY Recounted, KeepsSelf DEF StackInv
<1>3. CASE MemberStop
  <2>1. At({"sdecl"}) /\ c' = DeclarationEnd(Quiet) /\ parse' = Counted(Front(parse))
    BY <1>3 DEF MemberStop, Reduce, Pop
  <2>2. Len(parse) >= 1 /\ parse[Len(parse)].at = "sdecl" BY <2>1, AtTop
  <2>3. StackInv(DeclarationEnd(Quiet), Front(parse)) BY <1>1, <2>2, DeclarationClosed
  <2>4. QED BY <1>2, <2>1, <2>3
<1>4. CASE DeclarationStop
  <2>1. At({"decl"}) /\ c' = EmitDeclaration(Quiet) /\ parse' = Counted(Front(parse))
    BY <1>4 DEF DeclarationStop, Reduce, Pop
  <2>2. Len(parse) >= 1 /\ parse[Len(parse)].at = "decl" BY <2>1, AtTop
  <2>3. StackInv(EmitDeclaration(Quiet), Front(parse)) BY <1>1, <2>2, DeclarationClosed
  <2>4. QED BY <1>2, <2>1, <2>3
<1>5. CASE DeclaratorStop
  <2> DEFINE s == DeclaratorEnd(Quiet)
             d == EndedDeclarator(c)
             p == Counted(Front(parse))
  <2>1. At({"dtor"}) /\ UnderAt({"decl", "sdecl", "fdef"})
    BY <1>5 DEF DeclaratorStop, UnderAt
  <2>2. \/ c' = AddDeclarator(s, d) /\ \E g : parse' = SetTop(p, [Last(p) EXCEPT !.declares = g])
        \/ c' = StructElemDecl(s, d) /\ parse' = p
        \/ c' = s /\ parse' = p
    BY <1>5 DEF DeclaratorStop, Reduce, Pop
  <2>3. /\ Len(parse) > 1 /\ parse[Len(parse)].at = "dtor"
        /\ parse[Len(parse) - 1].at # "pdecl"
    BY <2>1, AtTop
  <2>4. StackInv(s, Front(parse)) BY <1>1, <2>3, DeclaratorClosed
  <2> HIDE DEF s, d
  <2>5. StackInv(s, p) /\ Shaped(s) BY <1>2, <2>4 DEF StackInv
  <2>6. CASE c' = AddDeclarator(s, d) /\ \E g : parse' = SetTop(p, [Last(p) EXCEPT !.declares = g])
    <3>1. PICK g : parse' = SetTop(p, [Last(p) EXCEPT !.declares = g]) BY <2>6
    <3> DEFINE f == [Last(p) EXCEPT !.declares = g]
    <3>2. Front(parse) # <<>>
      <4>1. Len(parse) \in Nat /\ IsSeq(parse) BY Innermost
      <4>2. Len(Front(parse)) = Len(parse) - 1 BY <2>3, <4>1, Fronted
      <4>3. QED BY <2>3, <2>4, <4>1, <4>2, Innermost
    <3>3. Len(p) >= 1
      <4>1. IsSeq(Front(parse)) /\ Len(Front(parse)) \in Nat /\ Len(Front(parse)) >= 1
        BY <2>4, <3>2, Innermost
      <4>2. Len(Front(Front(parse))) = Len(Front(parse)) - 1 /\ IsSeq(Front(Front(parse)))
        BY <4>1, Fronted
      <4>3. \E v : p = Append(Front(Front(parse)), v) BY <3>2 DEF Counted, SetTop
      <4>4. Len(p) = Len(Front(Front(parse))) + 1 BY <4>2, <4>3, Appended
      <4>5. QED BY <4>1, <4>2, <4>4
    <3> HIDE DEF p
    <3>4. Last(p) = p[Len(p)] /\ DOMAIN p[Len(p)] = FrameFields BY <2>5, <3>3, Innermost
    <3>5. DOMAIN f = FrameFields /\ f.at = p[Len(p)].at BY <3>4 DEF FrameFields
    <3>6. parse' = SetTop(p, f) BY <3>1
    <3> HIDE DEF f
    <3>7. Keeps(s, AddDeclarator(s, d)) BY <2>5, AddDeclaratorKeeps
    <3>8. QED BY <2>5, <2>6, <3>3, <3>5, <3>6, <3>7, TopChanged
  <2>7. CASE c' = StructElemDecl(s, d) /\ parse' = p
    <3>1. Keeps(s, StructElemDecl(s, d)) BY <2>5, EmitSteps, UntouchedKeeps DEF Shaped
    <3>2. QED BY <2>4, <2>7, <3>1, Recounted
  <2>8. CASE c' = s /\ parse' = p BY <2>5, <2>8
  <2>9. QED BY <2>2, <2>6, <2>7, <2>8
<1>6. CASE ParamStop
  <2> DEFINE s == ParameterDecl(Quiet)
             k == DeclarationEnd(DeclaratorEnd(s))
             p == Front(Front(parse))
  <2>1. /\ At({"dtor"}) /\ UnderAt({"pdecl"}) /\ c' = k
        /\ \E g, h, n : parse' = SetTop(p, [Last(p) EXCEPT !.params = g, !.types = h, !.n = n])
    BY <1>6 DEF ParamStop, Reduce, Pop
  <2>2. /\ Len(parse) > 1 /\ Len(parse) >= 1 /\ parse[Len(parse)].at = "dtor"
        /\ parse[Len(parse) - 1].at = "pdecl"
    BY <2>1, AtTop
  <2>3. StackInv(s, parse)
    <3>1. Untouched(Quiet, s)
      <4>1. Untouched(Quiet, Quiet) BY <1>1 DEF Untouched
      <4>2. QED BY <1>1, <4>1, SmallSteps DEF ParameterDecl
    <3>2. Keeps(Quiet, s) BY <1>1, <3>1, UntouchedKeeps
    <3>3. SameAts(parse, parse, Len(parse)) BY DEF SameAts
    <3>4. QED BY <1>1, <3>2, <3>3, MirrorsStay DEF StackInv
  <2> HIDE DEF s
  <2>4. StackInv(k, p) /\ Len(p) >= 1 BY <2>2, <2>3, ParameterClosed
  <2> HIDE DEF k, p
  <2>5. PICK g, h, n : parse' = SetTop(p, [Last(p) EXCEPT !.params = g, !.types = h, !.n = n])
    BY <2>1
  <2> DEFINE f == [Last(p) EXCEPT !.params = g, !.types = h, !.n = n]
  <2>6. Last(p) = p[Len(p)] /\ DOMAIN p[Len(p)] = FrameFields BY <2>4, Innermost
  <2>7. DOMAIN f = FrameFields /\ f.at = p[Len(p)].at BY <2>6 DEF FrameFields
  <2>8. parse' = SetTop(p, f) BY <2>5
  <2> HIDE DEF f
  <2>9. Keeps(k, k) BY <2>4, KeepsSelf DEF StackInv
  <2>10. QED BY <2>1, <2>4, <2>7, <2>8, <2>9, TopChanged
<1>7. CASE BodyClose
  <2> DEFINE s == EmitControl(Quiet, 1)
             p == Front(parse)
  <2>1. At({"body"}) /\ c' = EmitDeclaration(s) /\ parse' = Front(p)
    BY <1>7 DEF BodyClose, Reduce, Pop
  <2>2. Len(parse) >= 1 /\ parse[Len(parse)].at = "body" BY <2>1, AtTop
  <2>3. StackInv(s, p) /\ Len(p) >= 1 /\ p[Len(p)].at = "fdef" BY <1>1, <2>2, BodyClosed
  <2> HIDE DEF s, p
  <2>4. StackInv(EmitDeclaration(s), Front(p)) BY <2>3, DeclarationClosed
  <2>5. QED BY <2>1, <2>4
<1>8. QED BY <1>3, <1>4, <1>5, <1>6, <1>7

-----------------------------------------------------------------------------

LEMMA StackInit == Init => StackInv(c, parse)
<1> SUFFICES ASSUME Init PROVE StackInv(c, parse) OBVIOUS
<1>1. /\ DOMAIN c = Fields /\ c.decls = <<>> /\ c.dtors = <<>> /\ c.emit = 1
  BY DEF Init, StartState, Fields
<1>2. parse = <<>> BY DEF Init
<1>3. \A x : x = <<>> => IsSeq(x) /\ Len(x) = 0 BY NoneIsSeq
<1>4. Shaped(c) BY <1>1, <1>3 DEF Shaped
<1>5. Nests(parse) BY <1>2, <1>3 DEF Nests
<1>6. Mirrors(c, parse) BY <1>1, <1>2, <1>3, CountsOfNone DEF Mirrors
<1>7. QED BY <1>4, <1>5, <1>6 DEF StackInv

LEMMA StackStep == StackInv(c, parse) /\ [Next]_cvars => StackInv(c', parse')
<1> SUFFICES ASSUME StackInv(c, parse), [Next]_cvars PROVE StackInv(c', parse') OBVIOUS
<1>1. CASE UNCHANGED cvars BY <1>1 DEF cvars
<1>2. CASE \/ SpecIntrinsic \/ SpecTypeName \/ SpecStruct \/ SpecEnum
  BY <1>2, SpecifierSteps
<1>12. CASE SpecAgain BY <1>12, SpecAgainStep
<1>3. CASE \/ StorageClass \/ Star \/ ParenOpen \/ EnumItem BY <1>3, PlainSteps
<1>4. CASE ParenClose \/ Identifier \/ BitField BY <1>4, DeclaratorSteps
<1>5. CASE ArraySuffix \/ SizeofSuffix BY <1>5, ArraySteps
<1>6. CASE \/ DeclarationStart \/ MemberStart \/ DefinitionStart
           \/ StructOpen \/ EnumOpen \/ FunctionOpen
           \/ DeclaratorStart \/ ParamStart \/ BodyOpen
  BY <1>6, OpenSteps
<1>7. CASE StructClose \/ EnumClose \/ FunctionClose BY <1>7, ListCloseSteps
<1>8. CASE \/ MemberStop \/ DeclarationStop \/ DeclaratorStop \/ ParamStop \/ BodyClose
  BY <1>8, DeclarationCloseSteps
<1>9. CASE Finish
  <2>1. c' = Quiet /\ parse' = parse BY <1>9 DEF Finish
  <2>2. QED BY <2>1, QuietSame
<1>10. CASE SyntaxError
  <2> DEFINE s == [Quiet EXCEPT !.failed = TRUE]
  <2>1. c' = s /\ parse' = parse BY <1>10 DEF SyntaxError
  <2>2. Shaped(Quiet) /\ DOMAIN Quiet = Fields BY QuietSame DEF Shaped
  <2>3. Untouched(Quiet, s) BY <2>2 DEF Untouched, Fields
  <2> HIDE DEF s
  <2>4. Keeps(Quiet, s) BY <2>2, <2>3, UntouchedKeeps
  <2>5. SameAts(parse, parse, Len(parse)) BY DEF SameAts
  <2>6. StackInv(s, parse) BY <2>4, <2>5, QuietSame, MirrorsStay DEF StackInv
  <2>7. QED BY <2>1, <2>6
<1>11. QED
  BY <1>1, <1>2, <1>3, <1>4, <1>5, <1>6, <1>7, <1>8, <1>9, <1>10, <1>12 DEF Next

LEMMA StackInvMirrors == StackInv(c, parse) => StacksMirrorGrammar
<1> SUFFICES ASSUME StackInv(c, parse) PROVE StacksMirrorGrammar OBVIOUS
<1> DEFINE n == Len(parse)
<1>1. n \in Nat /\ DOMAIN parse = 1..n BY Innermost
<1>2. /\ Declaring = Upto(DeclSet(parse), n)
      /\ Declarator = Upto(DtorSet(parse), n)
      /\ Bodies = Upto(BodySet(parse), n)
  BY <1>1 DEF Declaring, Declarator, Bodies, Upto, DeclSet, DtorSet, BodySet,
              DeclaresAt, DeclaratorAt, BodyAt
<1>3. /\ Len(c.decls) = Cardinality(Declaring) /\ Len(c.dtors) = Cardinality(Declarator)
      /\ c.emit = 1 - Cardinality(Bodies)
  BY <1>2 DEF StackInv, Mirrors, NDecl, NDtor, NBody
<1>4. ASSUME At({"pdecl", "dtor"}) PROVE CurDtor(c).declaration = Len(c.decls)
  <2>1. n \in 1..n /\ parse[n].at \in {"pdecl", "dtor"} BY <1>1, <1>4, AtTop
  <2>2. c.dtors[NDtor(parse, n)].declaration = NDecl(parse, n)
    BY <2>1 DEF StackInv, Mirrors
  <2>3. NDtor(parse, n) = Len(c.dtors) /\ NDecl(parse, n) = Len(c.decls)
    BY DEF StackInv, Mirrors
  <2>4. QED BY <2>2, <2>3 DEF CurDtor, Last
<1>5. QED BY <1>3, <1>4 DEF StacksMirrorGrammar

(* The declaration and declarator stacks are as deep as the grammar is     *)
(* nested, the current declarator belongs to the current declaration, and  *)
(* output is off exactly in function bodies: whatever the input and        *)
(* however deep it nests, so gghc_parameter_decl's assert cannot fail.     *)
THEOREM StacksAlwaysMirror == Spec => []StacksMirrorGrammar
<1> DEFINE Inv == StackInv(c, parse)
<1>1. Init => Inv BY StackInit
<1>2. Inv /\ [Next]_cvars => Inv' BY StackStep
<1>3. Inv => StacksMirrorGrammar BY StackInvMirrors
<1> HIDE DEF Inv
<1>4. QED BY <1>1, <1>2, <1>3, PTL DEF Spec

-----------------------------------------------------------------------------
(* The registry under the compiler.                                        *)

RegFields == {"heap", "next", "mods", "nmods", "itab", "cur", "def", "halt"}
ObjFields == {"kind", "name", "rtn", "len", "elems", "pointer_to", "array0_of",
              "prev", "scope", "last"}
ModFields == {"prev", "intrinsic", "tab", "current_struct", "current_enum"}
StructKinds == {"struct", "union"}
TagKinds == {"struct", "union", "enum"}

RegShape(r) ==
  /\ DOMAIN r = RegFields /\ DOMAIN r.heap = ObjId /\ DOMAIN r.mods = ModId
  /\ r.next \in 1..MaxObjs + 1 /\ r.halt \in {"no", "abort", "segv"}
  /\ CurrentModule(r) \in ModId
  /\ DOMAIN Cur(r) = ModFields /\ DOMAIN Cur(r).tab = Tables
  /\ \A t \in ObjId : DOMAIN r.heap[t] = ObjFields

(* The caches of an object hold types of the right kind.                   *)
CachesOK(r, t) ==
  LET x == r.heap[t]
  IN  /\ x.kind # "placeholder"
      /\ x.pointer_to \in 0..r.next - 1
      /\ x.pointer_to # 0 => r.heap[x.pointer_to].kind = "pointer"
      /\ x.array0_of \in 0..r.next - 1
      /\ x.array0_of # 0 => r.heap[x.array0_of].kind = "array"
      /\ x.kind = "array" => x.pointer_to # 0
      /\ x.prev \in 0..r.next - 1

(* The names of the current module.                                        *)
NamesOK(r) ==
  /\ \A su \in StructKinds : \A y \in Cur(r).tab[su] :
       /\ y.addr \in 1..r.next - 1
       /\ r.heap[y.addr].kind = su /\ r.heap[y.addr].name = y.name
  /\ \A y \in Cur(r).tab["enum"] : y.addr = 0
  /\ \A y \in Cur(r).tab["type"] \cup IntrinsicTable(r) :
       /\ y.addr \in 1..r.next - 1 /\ r.heap[y.addr].name = y.name
       /\ r.heap[y.addr].kind = (IF y.name \in Intrinsics THEN "intrinsic" ELSE "typedef")
  /\ \A n \in Intrinsics : Found(IntrinsicTable(r), n)
  /\ Cur(r).current_struct \in 0..r.next - 1 /\ Cur(r).current_enum \in 0..r.next - 1

RegOK(r) == RegShape(r) /\ (\A t \in ObjId : CachesOK(r, t)) /\ NamesOK(r)

SameMods(r, q) ==
  q.mods = r.mods /\ q.itab = r.itab /\ q.cur = r.cur /\ q.def = r.def

(* What has been handed out stays what it is.                              *)
HeapGrows(r, q) ==
  /\ q.next >= r.next
  /\ \A t \in 1..r.next - 1 :
       /\ q.heap[t].kind = r.heap[t].kind /\ q.heap[t].name = r.heap[t].name
       /\ q.heap[t].prev = r.heap[t].prev

TypeStep(r, q) == RegOK(q) /\ SameMods(r, q) /\ HeapGrows(r, q) /\ q.halt = r.halt

LEMMA NamesStay ==
  ASSUME NEW r, RegOK(r), NEW q, SameMods(r, q), HeapGrows(r, q),
         q.next \in 1..MaxObjs + 1
  PROVE  /\ CurrentModule(q) = CurrentModule(r) /\ Cur(q) = Cur(r)
         /\ IntrinsicTable(q) = IntrinsicTable(r) /\ NamesOK(q)
<1>1. CurrentModule(q) = CurrentModule(r) /\ Cur(q) = Cur(r)
  BY DEF SameMods, CurrentModule, Cur
<1>2. IntrinsicTable(q) = IntrinsicTable(r) BY <1>1 DEF IntrinsicTable, SameMods
<1>3. r.next \in Nat /\ q.next \in Nat /\ r.next <= q.next
  BY DEF RegOK, RegShape, HeapGrows, ObjId
<1>4. /\ 1..r.next - 1 \subseteq 1..q.next - 1 /\ 0..r.next - 1 \subseteq 0..q.next - 1
  BY <1>3
<1>5. NamesOK(r) BY DEF RegOK
<1>6. \A t \in 1..r.next - 1 : /\ t \in 1..q.next - 1
                               /\ q.heap[t].kind = r.heap[t].kind
                               /\ q.heap[t].name = r.heap[t].name
  BY <1>4 DEF HeapGrows
<1>7. NamesOK(q) BY <1>1, <1>2, <1>4, <1>5, <1>6 DEF NamesOK
<1>8. QED BY <1>1, <1>2, <1>7

LEMMA AllocStep ==
  ASSUME NEW r, RegOK(r), Room(r, 1), NEW x, DOMAIN x = ObjFields,
         x.kind \notin {"array", "placeholder"}, x.pointer_to = 0, x.array0_of = 0, x.prev = 0
  PROVE  LET q == Alloc(r, x)
         IN  /\ TypeStep(r, q) /\ r.next \in ObjId /\ q.next = r.next + 1
             /\ q.heap[r.next] = x
             /\ \A t \in ObjId \ {r.next} : q.heap[t] = r.heap[t]
<1> DEFINE q == Alloc(r, x)
<1>0. MaxObjs \in Nat BY BoundsAssumption
<1>1. /\ DOMAIN r = RegFields /\ DOMAIN r.heap = ObjId /\ r.next \in 1..MaxObjs + 1
      /\ DOMAIN r.mods = ModId /\ r.next \in Nat
  BY <1>0 DEF RegOK, RegShape
<1>2. r.next \in ObjId BY <1>0, <1>1 DEF Room, ObjId
<1>3. /\ DOMAIN q = RegFields /\ DOMAIN q.heap = ObjId /\ q.next = r.next + 1
      /\ q.mods = r.mods /\ q.itab = r.itab /\ q.cur = r.cur /\ q.def = r.def
      /\ q.halt = r.halt /\ q.heap = [r.heap EXCEPT ![r.next] = x]
  BY <1>1 DEF Alloc, RegFields
<1>4. q.heap[r.next] = x /\ \A t \in ObjId \ {r.next} : q.heap[t] = r.heap[t]
  BY <1>1, <1>2, <1>3
<1> HIDE DEF q
<1>5. SameMods(r, q) BY <1>3 DEF SameMods
<1>6. \A t \in 1..r.next - 1 : t \in ObjId \ {r.next} BY <1>0, <1>1, <1>2 DEF ObjId
<1>7. HeapGrows(r, q) BY <1>1, <1>3, <1>4, <1>6 DEF HeapGrows
<1>8. q.next \in 1..MaxObjs + 1 /\ 0..r.next - 1 \subseteq 0..q.next - 1
  BY <1>0, <1>1, <1>2, <1>3 DEF ObjId
<1>9. NamesOK(q) /\ CurrentModule(q) = CurrentModule(r) /\ Cur(q) = Cur(r)
  BY <1>5, <1>7, <1>8, NamesStay
<1>10. \A t \in ObjId : CachesOK(q, t)
  <2>1. CachesOK(q, r.next) BY <1>4, <1>8, <1>1, <1>3 DEF CachesOK
  <2>2. ASSUME NEW t \in ObjId \ {r.next} PROVE CachesOK(q, t)
    <3>1. CachesOK(r, t) BY DEF RegOK
    <3>2. r.heap[t].pointer_to # 0 => r.heap[t].pointer_to \in 1..r.next - 1
      BY <3>1, <1>1 DEF CachesOK
    <3>3. r.heap[t].array0_of # 0 => r.heap[t].array0_of \in 1..r.next - 1
      BY <3>1, <1>1 DEF CachesOK
    <3>4. r.heap[t].prev \in 0..q.next - 1 BY <3>1, <1>8 DEF CachesOK
    <3>5. QED BY <1>4, <1>6, <1>8, <3>1, <3>2, <3>3, <3>4 DEF CachesOK
  <2>3. QED BY <2>1, <2>2
<1>11. RegShape(q) BY <1>1, <1>3, <1>4, <1>8, <1>9 DEF RegOK, RegShape
<1>12. TypeStep(r, q) BY <1>3, <1>5, <1>7, <1>9, <1>10, <1>11 DEF TypeStep, RegOK
<1>13. QED BY <1>2, <1>3, <1>4, <1>12 DEF q

(* An object gets a cache: pointer_to or array0_of.                        *)
LEMMA CacheStep ==
  ASSUME NEW r, RegOK(r), NEW t \in 1..r.next - 1, NEW x, DOMAIN x = ObjFields,
         x.kind = r.heap[t].kind, x.name = r.heap[t].name, x.prev = r.heap[t].prev,
         NEW q, q = [r EXCEPT !.heap[t] = x], CachesOK(q, t)
  PROVE  /\ TypeStep(r, q) /\ q.next = r.next /\ q.heap[t] = x
         /\ \A i \in ObjId \ {t} : q.heap[i] = r.heap[i]
<1>0. MaxObjs \in Nat BY BoundsAssumption
<1>1. /\ DOMAIN r = RegFields /\ DOMAIN r.heap = ObjId /\ r.next \in 1..MaxObjs + 1
      /\ DOMAIN r.mods = ModId /\ r.next \in Nat
  BY <1>0 DEF RegOK, RegShape
<1>2. t \in ObjId BY <1>0, <1>1 DEF ObjId
<1>3. /\ DOMAIN q = RegFields /\ DOMAIN q.heap = ObjId /\ q.next = r.next
      /\ q.mods = r.mods /\ q.itab = r.itab /\ q.cur = r.cur /\ q.def = r.def
      /\ q.halt = r.halt /\ q.heap = [r.heap EXCEPT ![t] = x]
  BY <1>1 DEF RegFields
<1>4. q.heap[t] = x /\ \A i \in ObjId \ {t} : q.heap[i] = r.heap[i] BY <1>1, <1>2, <1>3
<1>5. SameMods(r, q) BY <1>3 DEF SameMods
<1>6. \A i \in ObjId : q.heap[i].kind = r.heap[i].kind /\ q.heap[i].name = r.heap[i].name
                       /\ q.heap[i].prev = r.heap[i].prev
  BY <1>4
<1>7. \A i \in 0..r.next - 1 : i # 0 => i \in ObjId BY <1>0, <1>1 DEF ObjId
<1>8. HeapGrows(r, q) BY <1>1, <1>3, <1>6, <1>7 DEF HeapGrows
<1>9. NamesOK(q) /\ CurrentModule(q) = CurrentModule(r) /\ Cur(q) = Cur(r)
  BY <1>1, <1>3, <1>5, <1>8, NamesStay
<1>10. ASSUME NEW i \in ObjId \ {t} PROVE CachesOK(q, i)
  <2>1. CachesOK(r, i) BY DEF RegOK
  <2>2. QED BY <1>3, <1>4, <1>6, <1>7, <2>1 DEF CachesOK
<1>11. RegShape(q) BY <1>1, <1>3, <1>4, <1>9 DEF RegOK, RegShape
<1>12. TypeStep(r, q) BY <1>3, <1>5, <1>8, <1>9, <1>10, <1>11 DEF TypeStep, RegOK
<1>13. QED BY <1>3, <1>4, <1>12

LEMMA TypeStepTwice ==
  ASSUME NEW r, RegOK(r), NEW p, TypeStep(r, p), NEW q, TypeStep(p, q)
  PROVE  TypeStep(r, q)
<1>1. r.next \in Nat /\ p.next \in Nat /\ q.next \in Nat
  BY BoundsAssumption DEF TypeStep, RegOK, RegShape
<1>2. \A t \in 1..r.next - 1 : t \in 1..p.next - 1 BY <1>1 DEF TypeStep, HeapGrows
<1>3. HeapGrows(r, q) BY <1>1, <1>2 DEF TypeStep, HeapGrows
<1>4. QED BY <1>3 DEF TypeStep, SameMods

(* A step that changes objects only.                                       *)
LEMMA HeapStep ==
  ASSUME NEW r, RegOK(r), NEW q, DOMAIN q = RegFields, SameMods(r, q), q.halt = r.halt,
         DOMAIN q.heap = ObjId, q.next \in 1..MaxObjs + 1, HeapGrows(r, q),
         \A t \in ObjId : DOMAIN q.heap[t] = ObjFields /\ CachesOK(q, t)
  PROVE  TypeStep(r, q)
<1>1. CurrentModule(q) = CurrentModule(r) /\ Cur(q) = Cur(r) /\ NamesOK(q) BY NamesStay
<1>2. RegShape(q) BY <1>1 DEF RegOK, RegShape, SameMods
<1>3. QED BY <1>1, <1>2 DEF TypeStep, RegOK

LEMMA CachesKept ==
  ASSUME NEW r, RegOK(r), NEW q, HeapGrows(r, q), q.next \in 1..MaxObjs + 1,
         NEW t \in ObjId, q.heap[t] = r.heap[t]
  PROVE  CachesOK(q, t)
<1>1. r.next \in Nat /\ q.next \in Nat /\ r.next <= q.next
  BY BoundsAssumption DEF RegOK, RegShape, HeapGrows
<1>2. CachesOK(r, t) BY DEF RegOK
<1>3. /\ 0..r.next - 1 \subseteq 0..q.next - 1
      /\ \A i \in 0..r.next - 1 : i # 0 => q.heap[i].kind = r.heap[i].kind
  <2>1. \A i \in 0..r.next - 1 : i # 0 => i \in 1..r.next - 1 BY <1>1
  <2>2. QED BY <1>1, <2>1 DEF HeapGrows
<1>4. QED BY <1>2, <1>3 DEF CachesOK

(* ggrt_pointer: the new type and its cache, or the cached type.           *)
LEMMA PointerStep ==
  ASSUME NEW r, RegOK(r), NEW t \in 1..r.next - 1, Room(r, 1)
  PROVE  LET q == Pointer(r, t)
             p == PointerRef(r, t)
         IN  /\ TypeStep(r, q) /\ p \in 1..q.next - 1 /\ q.next <= r.next + 1
             /\ q.heap[p].kind = "pointer" /\ q.heap[t].pointer_to = p
             /\ q.heap[t].kind = r.heap[t].kind /\ q.heap[t].array0_of = r.heap[t].array0_of
             /\ \A i \in ObjId \ {t, r.next} : q.heap[i] = r.heap[i]
             /\ r.heap[t].pointer_to # 0 => q = r
             /\ r.heap[t].pointer_to = 0 =>
                  /\ p = r.next /\ q.next = r.next + 1 /\ q.heap[p].pointer_to = 0
                  /\ q.heap[p].array0_of = 0
<1> DEFINE q == Pointer(r, t)
           p == PointerRef(r, t)
<1>0. MaxObjs \in Nat BY BoundsAssumption
<1>1. r.next \in 1..MaxObjs + 1 /\ r.next \in Nat BY <1>0 DEF RegOK, RegShape
<1>2. t \in ObjId BY <1>0, <1>1 DEF ObjId
<1>3. CachesOK(r, t) /\ DOMAIN r.heap[t] = ObjFields BY <1>2 DEF RegOK, RegShape
<1>4. CASE r.heap[t].pointer_to # 0
  <2>1. q = r /\ p = r.heap[t].pointer_to BY <1>4 DEF Pointer, PointerRef
  <2>2. HeapGrows(r, r) BY <1>1 DEF HeapGrows
  <2>3. TypeStep(r, r) BY <2>2 DEF TypeStep, SameMods
  <2>4. p \in 1..r.next - 1 /\ r.heap[p].kind = "pointer" BY <1>1, <1>3, <1>4, <2>1 DEF CachesOK
  <2>5. QED BY <1>1, <1>4, <2>1, <2>3, <2>4
<1>5. CASE r.heap[t].pointer_to = 0
  <2> DEFINE x == NewObject("pointer", NoName, t, 0, <<>>)
             s == Alloc(r, x)
             y == [r.heap[t] EXCEPT !.pointer_to = r.next]
  <2>1. /\ DOMAIN x = ObjFields /\ x.kind = "pointer" /\ x.pointer_to = 0 /\ x.array0_of = 0
        /\ x.prev = 0
    BY DEF NewObject, ObjFields
  <2> HIDE DEF x
  <2>2. /\ TypeStep(r, s) /\ r.next \in ObjId /\ s.next = r.next + 1 /\ s.heap[r.next] = x
        /\ \A i \in ObjId \ {r.next} : s.heap[i] = r.heap[i]
    BY <2>1, AllocStep
  <2>3. p = r.next /\ q = [s EXCEPT !.heap[t].pointer_to = r.next]
    BY <1>3, <1>5 DEF Pointer, PointerRef, CachesOK, x
  <2> HIDE DEF s, q
  <2>4. s.heap[t] = r.heap[t] /\ t # r.next BY <1>1, <1>2, <2>2
  <2>5. q = [s EXCEPT !.heap[t] = y] BY <2>3, <2>4
  <2>6. /\ DOMAIN y = ObjFields /\ y.kind = r.heap[t].kind /\ y.name = r.heap[t].name
        /\ y.prev = r.heap[t].prev /\ y.pointer_to = r.next /\ y.array0_of = r.heap[t].array0_of
    BY <1>3 DEF ObjFields
  <2> HIDE DEF y
  <2>7. /\ DOMAIN s = RegFields /\ DOMAIN s.heap = ObjId /\ RegOK(s)
    BY <2>2 DEF TypeStep, RegOK, RegShape
  <2>8. /\ q.next = s.next /\ q.heap[t] = y /\ q.heap[r.next] = x
        /\ \A i \in ObjId \ {t} : q.heap[i] = s.heap[i]
    BY <1>2, <2>2, <2>4, <2>5, <2>7 DEF RegFields
  <2>9. CachesOK(q, t)
    <3>1. CachesOK(s, t) BY <1>2, <2>7 DEF RegOK
    <3>2. s.heap[t].array0_of # 0 => q.heap[s.heap[t].array0_of].kind = "array"
      <4>1. s.heap[t].array0_of # 0 => s.heap[t].array0_of \in ObjId
        BY <1>0, <1>1, <2>2, <3>1 DEF CachesOK, ObjId
      <4>2. \A i \in ObjId : q.heap[i].kind = s.heap[i].kind BY <2>4, <2>6, <2>8
      <4>3. QED BY <3>1, <4>1, <4>2 DEF CachesOK
    <3>3. r.next \in 0..q.next - 1 /\ r.next # 0 BY <1>1, <2>2, <2>8
    <3>4. QED BY <2>1, <2>4, <2>6, <2>8, <3>1, <3>2, <3>3 DEF CachesOK
  <2>10. t \in 1..s.next - 1 BY <1>1, <2>2
  <2>11. TypeStep(s, q) BY <2>4, <2>5, <2>6, <2>7, <2>9, <2>10, CacheStep
  <2>12. TypeStep(r, q) BY <2>2, <2>11, TypeStepTwice
  <2>13. p \in 1..q.next - 1 BY <1>1, <2>2, <2>3, <2>8
  <2>14. \A i \in ObjId \ {t, r.next} : q.heap[i] = r.heap[i] BY <2>2, <2>8
  <2>15. q.next = r.next + 1 /\ q.next <= r.next + 1 BY <1>1, <2>2, <2>8
  <2>16. /\ q.heap[p].kind = "pointer" /\ q.heap[p].pointer_to = 0 /\ q.heap[p].array0_of = 0
         /\ q.heap[t].pointer_to = p /\ q.heap[t].kind = r.heap[t].kind
         /\ q.heap[t].array0_of = r.heap[t].array0_of
    BY <2>1, <2>3, <2>6, <2>8
  <2> HIDE DEF p
  <2>17. QED BY <1>5, <2>3, <2>12, <2>13, <2>14, <2>15, <2>16 DEF q, p
<1>6. QED BY <1>4, <1>5

(* ggrt_array: the cached open array; or the new array, whose pointer_to   *)
(* is the pointer to its element, made by the way if there was none.       *)
LEMMA ArrayStep ==
  ASSUME NEW r, RegOK(r), NEW t \in 1..r.next - 1, Room(r, 2), NEW len
  PROVE  LET q == Array(r, t, len)
             a == ArrayRef(r, t, len)
             p == r.heap[t].pointer_to
         IN  /\ TypeStep(r, q) /\ a \in 1..q.next - 1 /\ q.next <= r.next + 2
             /\ q.heap[a].kind = "array"
             /\ ArrayCached(r, t, len) => q = r /\ a = r.heap[t].array0_of
             /\ ~ ArrayCached(r, t, len) =>
                  /\ a = r.next /\ q.heap[a].array0_of = 0 /\ a \in ObjId
                  /\ q.heap[a].pointer_to = q.heap[t].pointer_to
                  /\ q.heap[t].kind = r.heap[t].kind
                  /\ q.heap[t].array0_of \in {r.heap[t].array0_of, a}
                  /\ ~ IsOpenLen(len) => q.heap[t].array0_of = r.heap[t].array0_of
                  /\ p # 0 => /\ q.next = a + 1 /\ q.heap[t].pointer_to = p
                              /\ \A i \in ObjId \ {t, a} : q.heap[i] = r.heap[i]
                  /\ p = 0 => /\ q.next = a + 2 /\ q.heap[t].pointer_to = a + 1
                              /\ a + 1 \in ObjId
                              /\ q.heap[a + 1].kind = "pointer"
                              /\ q.heap[a + 1].pointer_to = 0 /\ q.heap[a + 1].array0_of = 0
                              /\ \A i \in ObjId \ {t, a, a + 1} : q.heap[i] = r.heap[i]
<1> DEFINE q == Array(r, t, len)
           a == ArrayRef(r, t, len)
           p == r.heap[t].pointer_to
<1>0. MaxObjs \in Nat BY BoundsAssumption
<1>1. r.next \in 1..MaxObjs + 1 /\ r.next \in Nat BY <1>0 DEF RegOK, RegShape
<1>2. t \in ObjId /\ DOMAIN r = RegFields /\ DOMAIN r.heap = ObjId
  BY <1>0, <1>1 DEF ObjId, RegOK, RegShape
<1>3. CachesOK(r, t) /\ DOMAIN r.heap[t] = ObjFields BY <1>2 DEF RegOK, RegShape
<1>4. CASE ArrayCached(r, t, len)
  <2>1. q = r /\ a = r.heap[t].array0_of BY <1>4 DEF Array, ArrayRef
  <2>2. HeapGrows(r, r) BY <1>1 DEF HeapGrows
  <2>3. TypeStep(r, r) BY <2>2 DEF TypeStep, SameMods
  <2>4. a \in 1..r.next - 1 /\ r.heap[a].kind = "array"
    BY <1>1, <1>3, <1>4, <2>1 DEF CachesOK, ArrayCached
  <2>5. QED BY <1>1, <1>4, <2>1, <2>3, <2>4
<1>5. CASE ~ ArrayCached(r, t, len)
  <2> DEFINE x == NewObject("array", NoName, t, len, <<>>)
             s == Alloc(r, x)
             u == IF r.heap[t].kind # "placeholder" /\ IsOpenLen(len)
                  THEN [s EXCEPT !.heap[t].array0_of = a] ELSE s
             z == NewObject("pointer", NoName, t, 0, <<>>)
             n == Alloc(u, z)
             w == [n EXCEPT !.heap[t].pointer_to = a + 1]
             m == IF p = 0 THEN w ELSE u
             b == IF p = 0 THEN a + 1 ELSE p
  <2>1. a = r.next /\ t # a /\ a \in ObjId /\ a \in Nat /\ a + 1 \in ObjId /\ t # a + 1 /\ a # a + 1
    BY <1>0, <1>1, <1>5 DEF ArrayRef, Room, ObjId
  <2>2. /\ DOMAIN x = ObjFields /\ x.kind = "array" /\ x.pointer_to = 0 /\ x.array0_of = 0
        /\ x.prev = 0 /\ DOMAIN z = ObjFields /\ z.kind = "pointer" /\ z.pointer_to = 0
        /\ z.array0_of = 0 /\ z.prev = 0
    BY DEF NewObject, ObjFields
  <2>3. /\ DOMAIN s = RegFields /\ DOMAIN s.heap = ObjId /\ SameMods(r, s) /\ s.halt = r.halt
        /\ s.next = a + 1 /\ s.heap[a] = x /\ \A i \in ObjId \ {a} : s.heap[i] = r.heap[i]
    BY <1>2, <2>1 DEF Alloc, RegFields, SameMods
  <2>4. q = [Pointer(u, t) EXCEPT !.heap[a].pointer_to = PointerRef(u, t)]
    BY <1>5, <2>1 DEF Array, ArrayRef
  <2> HIDE DEF x, z, s, a
  <2>5. /\ DOMAIN u = RegFields /\ DOMAIN u.heap = ObjId /\ SameMods(r, u) /\ u.halt = r.halt
        /\ u.next = a + 1 /\ u.heap[a] = x /\ \A i \in ObjId \ {a, t} : u.heap[i] = r.heap[i]
        /\ DOMAIN u.heap[t] = ObjFields /\ u.heap[t].kind = r.heap[t].kind
        /\ u.heap[t].name = r.heap[t].name /\ u.heap[t].prev = r.heap[t].prev
        /\ u.heap[t].pointer_to = p /\ u.heap[t].array0_of \in {r.heap[t].array0_of, a}
    BY <1>2, <1>3, <2>1, <2>3 DEF RegFields, SameMods, ObjFields
  <2>5a. ~ IsOpenLen(len) => u.heap[t].array0_of = r.heap[t].array0_of
    BY <1>2, <2>1, <2>3
  <2> HIDE DEF u
  <2>6. Pointer(u, t) = m /\ PointerRef(u, t) = b
    <3>1. u.heap[t].kind # "placeholder" BY <1>3, <2>5 DEF CachesOK
    <3>2. u.heap[t].pointer_to = p /\ u.next = a + 1 BY <2>5
    <3>3. CASE p = 0
      <4>1. n = Alloc(u, NewObject("pointer", NoName, t, 0, <<>>)) BY DEF z
      <4>2. Pointer(u, t) = [n EXCEPT !.heap[t].pointer_to = u.next]
        BY <3>1, <3>2, <3>3, <4>1, Zenon DEF Pointer
      <4>3. PointerRef(u, t) = u.next BY <3>2, <3>3 DEF PointerRef
      <4> HIDE DEF n
      <4>4. QED BY <3>2, <3>3, <4>2, <4>3
    <3>4. CASE p # 0 BY <3>2, <3>4 DEF Pointer, PointerRef
    <3>5. QED BY <3>3, <3>4
  <2>7. /\ DOMAIN n = RegFields /\ DOMAIN n.heap = ObjId /\ SameMods(r, n) /\ n.halt = r.halt
        /\ n.next = a + 2 /\ n.heap[a] = x /\ n.heap[a + 1] = z /\ n.heap[t] = u.heap[t]
        /\ \A i \in ObjId \ {a, a + 1, t} : n.heap[i] = r.heap[i]
    BY <1>2, <2>1, <2>5 DEF Alloc, RegFields, SameMods
  <2> HIDE DEF n
  <2>8. /\ DOMAIN w = RegFields /\ DOMAIN w.heap = ObjId /\ SameMods(r, w) /\ w.halt = r.halt
        /\ w.next = a + 2 /\ w.heap[a] = x /\ w.heap[a + 1] = z
        /\ \A i \in ObjId \ {a, a + 1, t} : w.heap[i] = r.heap[i]
        /\ DOMAIN w.heap[t] = ObjFields /\ w.heap[t].kind = r.heap[t].kind
        /\ w.heap[t].name = r.heap[t].name /\ w.heap[t].prev = r.heap[t].prev
        /\ w.heap[t].pointer_to = a + 1 /\ w.heap[t].array0_of \in {r.heap[t].array0_of, a}
    BY <1>2, <2>1, <2>5, <2>7 DEF RegFields, SameMods, ObjFields
  <2>8a. w.heap[t].array0_of = u.heap[t].array0_of
    BY <1>2, <2>1, <2>5, <2>7 DEF RegFields, ObjFields
  <2> HIDE DEF w
  <2>8b. m.heap[t].array0_of = u.heap[t].array0_of BY <2>8a
  <2>9. /\ DOMAIN m = RegFields /\ DOMAIN m.heap = ObjId /\ SameMods(r, m) /\ m.halt = r.halt
        /\ m.heap[a] = x /\ DOMAIN m.heap[t] = ObjFields /\ m.heap[t].kind = r.heap[t].kind
        /\ m.heap[t].name = r.heap[t].name /\ m.heap[t].prev = r.heap[t].prev
        /\ m.heap[t].pointer_to = b /\ m.heap[t].array0_of \in {r.heap[t].array0_of, a}
    BY <2>5, <2>8
  <2>10. /\ p # 0 => m.next = a + 1 /\ \A i \in ObjId \ {a, t} : m.heap[i] = r.heap[i]
         /\ p = 0 => /\ m.next = a + 2 /\ m.heap[a + 1] = z
                     /\ \A i \in ObjId \ {a, a + 1, t} : m.heap[i] = r.heap[i]
    BY <2>5, <2>8
  <2>11. q = [m EXCEPT !.heap[a].pointer_to = b] BY <2>4, <2>6
  <2> HIDE DEF m, b, q
  <2>12. /\ DOMAIN q = RegFields /\ DOMAIN q.heap = ObjId /\ SameMods(r, q) /\ q.halt = r.halt
         /\ q.next = m.next /\ \A i \in ObjId \ {a} : q.heap[i] = m.heap[i]
         /\ q.heap[a] = [x EXCEPT !.pointer_to = b]
    BY <2>1, <2>9, <2>11 DEF RegFields, SameMods
  <2>13. /\ DOMAIN q.heap[a] = ObjFields /\ q.heap[a].kind = "array" /\ q.heap[a].pointer_to = b
         /\ q.heap[a].array0_of = 0 /\ q.heap[a].prev = 0
    BY <2>2, <2>12 DEF ObjFields
  <2>14. q.heap[t] = m.heap[t] BY <1>2, <2>1, <2>12
  <2>15. /\ p # 0 => q.next = a + 1 /\ \A i \in ObjId \ {a, t} : q.heap[i] = r.heap[i]
         /\ p = 0 => /\ q.next = a + 2 /\ q.heap[a + 1] = z
                     /\ \A i \in ObjId \ {a, a + 1, t} : q.heap[i] = r.heap[i]
    BY <2>1, <2>10, <2>12
  <2>16. q.next \in 1..MaxObjs + 1 /\ q.next \in {a + 1, a + 2} /\ q.next >= r.next
         /\ a \in 1..q.next - 1
    BY <1>0, <1>1, <2>1, <2>15 DEF Room
  <2>17. \A i \in 1..r.next - 1 : i \in ObjId /\ i # a /\ i # a + 1
    BY <1>0, <1>1, <2>1 DEF ObjId
  <2>18. HeapGrows(r, q)
    <3>1. ASSUME NEW i \in 1..r.next - 1
          PROVE  /\ q.heap[i].kind = r.heap[i].kind /\ q.heap[i].name = r.heap[i].name
                 /\ q.heap[i].prev = r.heap[i].prev
      <4>1. CASE i = t BY <2>9, <2>14, <4>1
      <4>2. CASE i # t BY <2>15, <2>17, <4>2
      <4>3. QED BY <4>1, <4>2
    <3>2. QED BY <2>16, <3>1 DEF HeapGrows
  <2>19. p # 0 => p \in 1..r.next - 1 BY <1>1, <1>3 DEF CachesOK
  <2>20. b \in 1..q.next - 1 /\ q.heap[b].kind = "pointer"
    <3>1. CASE p = 0
      <4>1. b = a + 1 /\ q.next = a + 2 BY <2>15, <3>1 DEF b
      <4>2. q.heap[b].kind = "pointer" BY <2>2, <2>15, <3>1, <4>1
      <4>3. QED BY <2>1, <4>1, <4>2
    <3>2. CASE p # 0
      <4>1. b = p BY <3>2 DEF b
      <4>2. q.heap[p].kind = "pointer" BY <1>3, <2>18, <2>19, <3>2 DEF CachesOK, HeapGrows
      <4>3. QED BY <1>1, <2>16, <2>19, <3>2, <4>1, <4>2
    <3>3. QED BY <3>1, <3>2
  <2>21. ASSUME NEW i \in ObjId PROVE DOMAIN q.heap[i] = ObjFields /\ CachesOK(q, i)
    <3>0. DOMAIN r.heap[i] = ObjFields BY DEF RegOK, RegShape
    <3>1. CASE i = a BY <2>13, <2>16, <2>20, <3>1 DEF CachesOK
    <3>2. CASE i = t
      <4>1. r.heap[t].array0_of # 0 => r.heap[t].array0_of \in 1..r.next - 1
        BY <1>1, <1>3 DEF CachesOK
      <4>2. r.heap[t].array0_of # 0 => q.heap[r.heap[t].array0_of].kind = "array"
        BY <1>3, <2>18, <4>1 DEF CachesOK, HeapGrows
      <4>3. 0..r.next - 1 \subseteq 0..q.next - 1 /\ a \in 0..q.next - 1 /\ a # 0
        BY <1>1, <2>1, <2>16
      <4>4. /\ m.heap[t].array0_of \in 0..q.next - 1
            /\ m.heap[t].array0_of # 0 => q.heap[m.heap[t].array0_of].kind = "array"
        BY <1>3, <2>9, <2>13, <4>2, <4>3 DEF CachesOK
      <4>5. b # 0 /\ b \in 0..q.next - 1 BY <2>16, <2>20
      <4>6. r.heap[t].prev \in 0..q.next - 1 /\ r.heap[t].kind # "placeholder"
        BY <1>3, <4>3 DEF CachesOK
      <4>7. QED BY <2>9, <2>14, <2>20, <3>2, <4>4, <4>5, <4>6 DEF CachesOK
    <3>3. CASE i # a /\ i # t /\ (p # 0 \/ i # a + 1)
      <4>1. q.heap[i] = r.heap[i] BY <2>15, <3>3
      <4>2. QED BY <2>16, <2>18, <3>0, <4>1, CachesKept
    <3>4. CASE i = a + 1 /\ p = 0
      <4>1. q.heap[i] = z BY <2>15, <3>4
      <4>2. 0 \in 0..q.next - 1 BY <2>1, <2>16
      <4>3. QED BY <2>2, <4>1, <4>2 DEF CachesOK
    <3>5. QED BY <3>1, <3>2, <3>3, <3>4
  <2>22. TypeStep(r, q) BY <2>12, <2>16, <2>18, <2>21, HeapStep
  <2>23. q.heap[a].pointer_to = q.heap[t].pointer_to BY <2>9, <2>13, <2>14
  <2>24. q.next <= r.next + 2 BY <2>1, <2>16
  <2>25. /\ p # 0 => q.heap[t].pointer_to = p
         /\ p = 0 => q.heap[t].pointer_to = a + 1
    BY <2>9, <2>14 DEF b
  <2>26. p = 0 => /\ q.heap[a + 1].kind = "pointer" /\ q.heap[a + 1].pointer_to = 0
                  /\ q.heap[a + 1].array0_of = 0
    BY <2>2, <2>15
  <2>27. q.heap[t].kind = r.heap[t].kind /\ q.heap[t].array0_of \in {r.heap[t].array0_of, a}
    BY <2>9, <2>14
  <2>27a. ~ IsOpenLen(len) => q.heap[t].array0_of = r.heap[t].array0_of
    BY <2>5a, <2>8b, <2>14
  <2>28. ArrayRef(r, t, len) = a BY DEF a
  <2>29. Array(r, t, len) = q BY DEF q
  <2>30. QED BY <1>5, <2>1, <2>13, <2>15, <2>16, <2>22, <2>23, <2>24, <2>25, <2>26, <2>27,
         <2>27a, <2>28, <2>29
<1>6. QED BY <1>4, <1>5

-----------------------------------------------------------------------------
(* Steps that change the current module: its tables, the struct or the     *)
(* enum that is open.                                                      *)

SameHeap(r, q) ==
  /\ DOMAIN q = RegFields /\ q.heap = r.heap /\ q.next = r.next /\ q.itab = r.itab
  /\ q.cur = r.cur /\ q.def = r.def

SetModule(r, v) == [r EXCEPT !.mods[CurrentModule(r)] = v]

LEMMA ModuleSet ==
  ASSUME NEW r, RegOK(r), NEW v, DOMAIN v = ModFields, DOMAIN v.tab = Tables,
         v.intrinsic = Cur(r).intrinsic,
         v.current_struct \in 0..r.next - 1, v.current_enum \in 0..r.next - 1,
         \A su \in StructKinds : \A y \in v.tab[su] :
           /\ y.addr \in 1..r.next - 1
           /\ r.heap[y.addr].kind = su /\ r.heap[y.addr].name = y.name,
         \A y \in v.tab["enum"] : y.addr = 0,
         \A y \in v.tab["type"] :
           /\ y.addr \in 1..r.next - 1 /\ r.heap[y.addr].name = y.name
           /\ r.heap[y.addr].kind = (IF y.name \in Intrinsics THEN "intrinsic" ELSE "typedef")
  PROVE  LET q == SetModule(r, v)
         IN  /\ RegOK(q) /\ SameHeap(r, q) /\ q.halt = r.halt /\ Cur(q) = v
             /\ CurrentModule(q) = CurrentModule(r) /\ IntrinsicTable(q) = IntrinsicTable(r)
<1> DEFINE q == SetModule(r, v)
<1>1. /\ DOMAIN r = RegFields /\ DOMAIN r.mods = ModId /\ CurrentModule(r) \in ModId
  BY DEF RegOK, RegShape
<1>2. /\ SameHeap(r, q) /\ DOMAIN q.mods = ModId /\ q.mods[CurrentModule(r)] = v
      /\ q.halt = r.halt
  BY <1>1 DEF SameHeap, RegFields, SetModule
<1> HIDE DEF q
<1>3. CurrentModule(q) = CurrentModule(r) /\ Cur(q) = v
  BY <1>2 DEF SameHeap, CurrentModule, Cur
<1>4. IntrinsicTable(q) = IntrinsicTable(r) BY <1>2, <1>3 DEF IntrinsicTable, SameHeap
<1>5. RegShape(q) BY <1>1, <1>2, <1>3 DEF RegOK, RegShape, SameHeap
<1>6. \A t \in ObjId : CachesOK(q, t) BY <1>2 DEF RegOK, CachesOK, SameHeap
<1>7. NamesOK(q)
  <2>1. NamesOK(r) BY DEF RegOK
  <2>2. q.heap = r.heap /\ q.next = r.next BY <1>2 DEF SameHeap
  <2>3. QED BY <1>3, <1>4, <2>1, <2>2 DEF NamesOK
<1>8. QED BY <1>2, <1>3, <1>4, <1>5, <1>6, <1>7 DEF RegOK, q

LEMMA AddSymbolStep ==
  ASSUME NEW r, RegOK(r), NEW k \in Tables, NEW name, NEW addr, NEW type,
         k \in StructKinds =>
           /\ addr \in 1..r.next - 1
           /\ r.heap[addr].kind = k /\ r.heap[addr].name = name,
         k = "enum" => addr = 0,
         k = "type" =>
           /\ addr \in 1..r.next - 1 /\ r.heap[addr].name = name
           /\ r.heap[addr].kind = (IF name \in Intrinsics THEN "intrinsic" ELSE "typedef")
  PROVE  LET q == AddSymbol(r, k, name, addr, type)
             y == [name |-> name, addr |-> addr, type |-> type]
         IN  /\ RegOK(q) /\ SameHeap(r, q) /\ q.halt = r.halt
             /\ Cur(q).current_struct = Cur(r).current_struct
             /\ Cur(q).current_enum = Cur(r).current_enum
             /\ Cur(q).tab = [Cur(r).tab EXCEPT ![k] = @ \cup {y}]
             /\ CurrentModule(q) = CurrentModule(r)
<1> DEFINE y == [name |-> name, addr |-> addr, type |-> type]
           v == [Cur(r) EXCEPT !.tab = [Cur(r).tab EXCEPT ![k] = Cur(r).tab[k] \cup {y}]]
           q == AddSymbol(r, k, name, addr, type)
<1>1. q = SetModule(r, v) BY DEF AddSymbol, Cur, SetModule
<1>2. /\ DOMAIN Cur(r) = ModFields /\ DOMAIN Cur(r).tab = Tables BY DEF RegOK, RegShape
<1>3. /\ DOMAIN v = ModFields /\ v.tab = [Cur(r).tab EXCEPT ![k] = @ \cup {y}]
      /\ v.intrinsic = Cur(r).intrinsic
      /\ v.current_struct = Cur(r).current_struct /\ v.current_enum = Cur(r).current_enum
  BY <1>2 DEF ModFields
<1>4. y.name = name /\ y.addr = addr OBVIOUS
<1> HIDE DEF y, v, q
<1>5. DOMAIN v.tab = Tables /\ v.tab[k] = Cur(r).tab[k] \cup {y}
      /\ \A j \in Tables \ {k} : v.tab[j] = Cur(r).tab[j]
  BY <1>2, <1>3
<1>6. NamesOK(r) BY DEF RegOK
<1>7. v.current_struct \in 0..r.next - 1 /\ v.current_enum \in 0..r.next - 1
  BY <1>3, <1>6 DEF NamesOK
<1>8. ASSUME NEW su \in StructKinds, NEW z \in v.tab[su]
      PROVE /\ z.addr \in 1..r.next - 1
            /\ r.heap[z.addr].kind = su /\ r.heap[z.addr].name = z.name
  <2>1. CASE z \in Cur(r).tab[su] BY <1>6, <2>1 DEF NamesOK
  <2>2. CASE z \notin Cur(r).tab[su]
    <3>1. su \in Tables BY DEF StructKinds, Tables
    <3>2. su = k /\ z = y BY <1>5, <1>8, <2>2, <3>1
    <3>3. QED BY <1>4, <3>2
  <2>3. QED BY <2>1, <2>2
<1>9. ASSUME NEW z \in v.tab["enum"] PROVE z.addr = 0
  <2>1. "enum" \in Tables BY DEF Tables
  <2>2. z \in Cur(r).tab["enum"] \/ (k = "enum" /\ z = y) BY <1>5, <2>1
  <2>3. QED BY <1>4, <1>6, <2>2 DEF NamesOK
<1>10. ASSUME NEW z \in v.tab["type"]
       PROVE /\ z.addr \in 1..r.next - 1 /\ r.heap[z.addr].name = z.name
             /\ r.heap[z.addr].kind = (IF z.name \in Intrinsics THEN "intrinsic" ELSE "typedef")
  <2>1. "type" \in Tables BY DEF Tables
  <2>2. z \in Cur(r).tab["type"] \/ (k = "type" /\ z = y) BY <1>5, <2>1
  <2>3. CASE z \in Cur(r).tab["type"] BY <1>6, <2>3 DEF NamesOK
  <2>4. CASE k = "type" /\ z = y BY <1>4, <2>4
  <2>5. QED BY <2>2, <2>3, <2>4
<1>11. /\ RegOK(q) /\ SameHeap(r, q) /\ q.halt = r.halt /\ Cur(q) = v
       /\ CurrentModule(q) = CurrentModule(r)
  BY <1>1, <1>3, <1>5, <1>7, <1>8, <1>9, <1>10, ModuleSet
<1>12. QED BY <1>3, <1>11 DEF q, y

(* What every step on a struct, a union, an enum or a name keeps: the      *)
(* caches of the types there are.                                          *)
TagStep(r, q) ==
  /\ RegOK(q) /\ q.next >= r.next
  /\ \A t \in 1..r.next - 1 :
       /\ q.heap[t].kind = r.heap[t].kind /\ q.heap[t].name = r.heap[t].name
       /\ q.heap[t].pointer_to = r.heap[t].pointer_to
       /\ q.heap[t].array0_of = r.heap[t].array0_of
  /\ \A t \in r.next..q.next - 1 : q.heap[t].pointer_to = 0 /\ q.heap[t].array0_of = 0

SamePrevs(r, q) == \A t \in 1..r.next - 1 : q.heap[t].prev = r.heap[t].prev
SameOpen(r, q) ==
  /\ CurrentModule(q) = CurrentModule(r)
  /\ Cur(q).current_struct = Cur(r).current_struct
  /\ Cur(q).current_enum = Cur(r).current_enum
SameTypeNames(r, q) == Cur(q).tab["type"] = Cur(r).tab["type"]

LEMMA TagStepOf ==
  ASSUME NEW r, RegOK(r), NEW q, RegOK(q), q.next >= r.next,
         \A t \in 1..r.next - 1 : q.heap[t] = r.heap[t],
         \A t \in r.next..q.next - 1 : q.heap[t].pointer_to = 0 /\ q.heap[t].array0_of = 0
  PROVE  TagStep(r, q) /\ SamePrevs(r, q)
BY DEF TagStep, SamePrevs

NewTagArgs(r, kind, addr) ==
  /\ RegOK(r) /\ Room(r, 1) /\ kind \in TagKinds
  /\ addr = (IF kind = "enum" THEN 0 ELSE r.next)
NewTag(r, kind, name, addr, type) ==
  LET s == Alloc(r, NewObject(kind, name, 0, 0, <<>>))
  IN  IF name = NoName THEN s ELSE AddSymbol(s, kind, name, addr, type)

(* A new struct, union or enum: its object, and its symbol if it has a     *)
(* tag.                                                                    *)
LEMMA NewTagStep ==
  ASSUME NEW r, NEW kind, NEW name, NEW addr, NEW type, NewTagArgs(r, kind, addr)
  PROVE  LET q == NewTag(r, kind, name, addr, type)
         IN  /\ TagStep(r, q) /\ SamePrevs(r, q) /\ SameOpen(r, q) /\ SameTypeNames(r, q)
             /\ q.halt = r.halt /\ r.next \in ObjId /\ q.next = r.next + 1
             /\ q.heap[r.next] = NewObject(kind, name, 0, 0, <<>>)
             /\ \A t \in ObjId \ {r.next} : q.heap[t] = r.heap[t]
<1> DEFINE x == NewObject(kind, name, 0, 0, <<>>)
           s == Alloc(r, x)
           q == NewTag(r, kind, name, addr, type)
<1>a. /\ RegOK(r) /\ Room(r, 1) /\ kind \in TagKinds
      /\ addr = (IF kind = "enum" THEN 0 ELSE r.next)
  BY DEF NewTagArgs
<1>0. MaxObjs \in Nat /\ r.next \in Nat /\ r.next \in 1..MaxObjs + 1
  BY <1>a, BoundsAssumption DEF RegOK, RegShape
<1>1. /\ DOMAIN x = ObjFields /\ x.kind = kind /\ x.name = name /\ x.pointer_to = 0
      /\ x.array0_of = 0 /\ x.prev = 0 /\ x.kind \notin {"array", "placeholder"}
  BY <1>a DEF NewObject, ObjFields, TagKinds
<1>2. q = IF name = NoName THEN s ELSE AddSymbol(s, kind, name, addr, type) BY DEF NewTag
<1> HIDE DEF x, q
<1>3. /\ TypeStep(r, s) /\ r.next \in ObjId /\ s.next = r.next + 1 /\ s.heap[r.next] = x
      /\ \A t \in ObjId \ {r.next} : s.heap[t] = r.heap[t]
  BY <1>a, <1>1, AllocStep
<1> HIDE DEF s
<1>4. Cur(s) = Cur(r) /\ CurrentModule(s) = CurrentModule(r)
  BY <1>3 DEF TypeStep, SameMods, CurrentModule, Cur
<1>5. /\ RegOK(q) /\ q.heap = s.heap /\ q.next = s.next /\ q.halt = s.halt
      /\ SameOpen(s, q) /\ Cur(q).tab["type"] = Cur(s).tab["type"]
  <2>1. CASE name = NoName BY <1>2, <1>3, <2>1 DEF TypeStep, SameOpen
  <2>2. CASE name # NoName
    <3>1. q = AddSymbol(s, kind, name, addr, type) BY <1>2, <2>2
    <3>2. RegOK(s) BY <1>3 DEF TypeStep
    <3>3. kind \in Tables /\ kind # "type" BY <1>a DEF Tables, TagKinds
    <3>4. /\ kind \in StructKinds => /\ addr \in 1..s.next - 1
                                     /\ s.heap[addr].kind = kind /\ s.heap[addr].name = name
          /\ kind = "enum" => addr = 0
      BY <1>a, <1>0, <1>1, <1>3 DEF StructKinds, TagKinds
    <3>5. /\ RegOK(q) /\ SameHeap(s, q) /\ q.halt = s.halt
          /\ Cur(q).current_struct = Cur(s).current_struct
          /\ Cur(q).current_enum = Cur(s).current_enum
          /\ Cur(q).tab = [Cur(s).tab EXCEPT ![kind] =
                             @ \cup {[name |-> name, addr |-> addr, type |-> type]}]
          /\ CurrentModule(q) = CurrentModule(s)
      BY <3>1, <3>2, <3>3, <3>4, AddSymbolStep
    <3>6. DOMAIN Cur(s).tab = Tables /\ "type" \in Tables
      BY <3>2 DEF RegOK, RegShape, Tables
    <3>7. Cur(q).tab["type"] = Cur(s).tab["type"] BY <3>3, <3>5, <3>6
    <3>8. QED BY <3>5, <3>7 DEF SameHeap, SameOpen
  <2>3. QED BY <2>1, <2>2
<1>6. \A t \in 1..r.next - 1 : t \in ObjId \ {r.next} BY <1>0, <1>3 DEF ObjId
<1>7. \A t \in r.next..q.next - 1 : t = r.next BY <1>0, <1>3, <1>5
<1>8. q.next >= r.next BY <1>0, <1>3, <1>5
<1>9. TagStep(r, q) /\ SamePrevs(r, q)
  BY <1>1, <1>3, <1>5, <1>6, <1>7, <1>8, <1>a, TagStepOf
<1>10. s.halt = r.halt BY <1>3 DEF TypeStep
<1>11. QED BY <1>3, <1>4, <1>5, <1>9, <1>10 DEF x, q, SameOpen, SameTypeNames

LEMMA TagStepSelf ==
  ASSUME NEW r, RegOK(r)
  PROVE  TagStep(r, r) /\ SamePrevs(r, r) /\ SameOpen(r, r) /\ SameTypeNames(r, r)
<1>1. r.next \in Nat BY BoundsAssumption DEF RegOK, RegShape
<1>2. \A t \in r.next..r.next - 1 : FALSE BY <1>1
<1>3. r.next >= r.next BY <1>1
<1>4. QED BY <1>2, <1>3 DEF TagStep, SamePrevs, SameOpen, SameTypeNames

LEMMA TagLookup ==
  ASSUME NEW r, RegOK(r), NEW su \in StructKinds, NEW name, StructKnown(r, su, name)
  PROVE  /\ StructRef(r, su, name) \in 1..r.next - 1
         /\ r.heap[StructRef(r, su, name)].kind = su
         /\ r.heap[StructRef(r, su, name)].name = name
<1>1. /\ Matches(Cur(r).tab[su], name) # {}
      /\ StructRef(r, su, name) = Lookup(Cur(r).tab[su], name).addr
  BY DEF StructKnown, Found, StructRef
<1>2. Lookup(Cur(r).tab[su], name) \in Matches(Cur(r).tab[su], name)
  BY <1>1 DEF Lookup
<1>3. /\ Lookup(Cur(r).tab[su], name) \in Cur(r).tab[su]
      /\ Lookup(Cur(r).tab[su], name).name = name
  BY <1>2 DEF Matches
<1>4. QED BY <1>1, <1>3 DEF RegOK, NamesOK

LEMMA StructForwardStep ==
  ASSUME NEW r, RegOK(r), Room(r, 1), NEW su \in StructKinds, NEW name
  PROVE  LET q == StructForward(r, su, name)
             st == StructRef(r, su, name)
         IN  /\ TagStep(r, q) /\ SamePrevs(r, q) /\ SameOpen(r, q) /\ SameTypeNames(r, q)
             /\ q.halt = r.halt /\ q.next <= r.next + 1
             /\ st \in 1..q.next - 1 /\ st \in ObjId
             /\ q.heap[st].kind = su /\ q.heap[st].name = name
             /\ \A t \in ObjId \ {st} : q.heap[t] = r.heap[t]
             /\ StructKnown(r, su, name) => q = r
             /\ ~ StructKnown(r, su, name) => st = r.next /\ q.next = r.next + 1
<1> DEFINE q == StructForward(r, su, name)
           st == StructRef(r, su, name)
<1>0. MaxObjs \in Nat /\ r.next \in Nat /\ r.next \in 1..MaxObjs + 1
  BY BoundsAssumption DEF RegOK, RegShape
<1>1. CASE StructKnown(r, su, name)
  <2>1. q = r BY <1>1 DEF StructForward
  <2>2. st \in 1..r.next - 1 /\ r.heap[st].kind = su /\ r.heap[st].name = name
    BY <1>1, TagLookup
  <2>3. st \in ObjId BY <1>0, <2>2 DEF ObjId
  <2> HIDE DEF q, st
  <2>4. QED BY <1>0, <1>1, <2>1, <2>2, <2>3, TagStepSelf DEF q, st
<1>2. CASE ~ StructKnown(r, su, name)
  <2> DEFINE a == r.next
  <2>1. q = NewTag(r, su, name, a, 0) BY <1>2 DEF StructForward, NewTag
  <2>2. st = r.next BY <1>2 DEF StructRef
  <2>3. NewTagArgs(r, su, a) BY DEF StructKinds, TagKinds, NewTagArgs
  <2> HIDE DEF a
  <2> HIDE DEF q
  <2>5. /\ TagStep(r, q) /\ SamePrevs(r, q) /\ SameOpen(r, q) /\ SameTypeNames(r, q)
        /\ q.halt = r.halt /\ r.next \in ObjId /\ q.next = r.next + 1
        /\ q.heap[r.next] = NewObject(su, name, 0, 0, <<>>)
        /\ \A t \in ObjId \ {r.next} : q.heap[t] = r.heap[t]
    BY <2>1, <2>3, NewTagStep
  <2>6. q.heap[r.next].kind = su /\ q.heap[r.next].name = name BY <2>5 DEF NewObject
  <2>7. r.next \in 1..q.next - 1 /\ q.next <= r.next + 1 BY <1>0, <2>5
  <2> HIDE DEF st
  <2>8. QED BY <1>2, <2>2, <2>5, <2>6, <2>7 DEF q, st
<1>3. QED BY <1>1, <1>2

SetObject(r, t, x) == [r EXCEPT !.heap[t] = x]

(* A step that changes fields of one object, not its kind or its caches.   *)
LEMMA FieldStep ==
  ASSUME NEW r, RegOK(r), NEW t \in 1..r.next - 1, NEW x, DOMAIN x = ObjFields,
         x.kind = r.heap[t].kind, x.name = r.heap[t].name,
         x.pointer_to = r.heap[t].pointer_to, x.array0_of = r.heap[t].array0_of,
         x.prev \in 0..r.next - 1
  PROVE  LET q == SetObject(r, t, x)
         IN  /\ RegOK(q) /\ SameMods(r, q) /\ q.next = r.next /\ q.halt = r.halt
             /\ q.heap[t] = x /\ \A i \in ObjId \ {t} : q.heap[i] = r.heap[i]
             /\ TagStep(r, q) /\ SameOpen(r, q) /\ SameTypeNames(r, q) /\ t \in ObjId
<1> DEFINE q == SetObject(r, t, x)
<1>1. /\ DOMAIN r = RegFields /\ DOMAIN r.heap = ObjId /\ r.next \in 1..MaxObjs + 1
      /\ r.next \in Nat /\ MaxObjs \in Nat
  BY BoundsAssumption DEF RegOK, RegShape
<1>2. t \in ObjId BY <1>1 DEF ObjId
<1>3. /\ DOMAIN q = RegFields /\ DOMAIN q.heap = ObjId /\ q.next = r.next
      /\ q.mods = r.mods /\ q.itab = r.itab /\ q.cur = r.cur /\ q.def = r.def
      /\ q.halt = r.halt /\ q.heap[t] = x /\ \A i \in ObjId \ {t} : q.heap[i] = r.heap[i]
  BY <1>1, <1>2 DEF RegFields, SetObject
<1> HIDE DEF q
<1>4. /\ CurrentModule(q) = CurrentModule(r) /\ Cur(q) = Cur(r)
      /\ IntrinsicTable(q) = IntrinsicTable(r)
  BY <1>3 DEF CurrentModule, Cur, IntrinsicTable
<1>5. \A i \in ObjId : /\ q.heap[i].kind = r.heap[i].kind /\ q.heap[i].name = r.heap[i].name
                       /\ q.heap[i].pointer_to = r.heap[i].pointer_to
                       /\ q.heap[i].array0_of = r.heap[i].array0_of
                       /\ DOMAIN q.heap[i] = ObjFields
  BY <1>3 DEF RegOK, RegShape
<1>6. \A i \in 1..r.next - 1 : i \in ObjId BY <1>1 DEF ObjId
<1>7. ASSUME NEW i \in ObjId PROVE CachesOK(q, i)
  <2>1. CachesOK(r, i) BY DEF RegOK
  <2>2. \A j \in 0..r.next - 1 : j # 0 => q.heap[j].kind = r.heap[j].kind
    <3>1. \A j \in 0..r.next - 1 : j # 0 => j \in ObjId BY <1>1 DEF ObjId
    <3>2. QED BY <1>5, <3>1
  <2>3. q.heap[i].prev \in 0..r.next - 1 BY <1>3, <2>1 DEF CachesOK
  <2>4. QED BY <1>3, <1>5, <2>1, <2>2, <2>3 DEF CachesOK
<1>8. NamesOK(q)
  <2>1. NamesOK(r) BY DEF RegOK
  <2>2. QED BY <1>3, <1>4, <1>5, <1>6, <2>1 DEF NamesOK
<1>9. RegShape(q) BY <1>3, <1>4, <1>5 DEF RegOK, RegShape
<1>10. RegOK(q) BY <1>7, <1>8, <1>9 DEF RegOK
<1>11. q.next >= r.next /\ \A i \in r.next..q.next - 1 : FALSE BY <1>1, <1>3
<1>12. TagStep(r, q) BY <1>5, <1>6, <1>10, <1>11 DEF TagStep
<1>13. QED BY <1>2, <1>3, <1>4, <1>10, <1>12 DEF SameMods, SameOpen, SameTypeNames, q

(* A struct or an enum becomes the innermost open one, or stops being it.  *)
LEMMA OpenStep ==
  ASSUME NEW r, RegOK(r), NEW cs \in 0..r.next - 1, NEW ce \in 0..r.next - 1, NEW v,
         DOMAIN v = ModFields, v.tab = Cur(r).tab, v.intrinsic = Cur(r).intrinsic,
         v.current_struct = cs, v.current_enum = ce
  PROVE  LET q == SetModule(r, v)
         IN  /\ RegOK(q) /\ SameHeap(r, q) /\ q.halt = r.halt /\ TagStep(r, q)
             /\ SamePrevs(r, q) /\ SameTypeNames(r, q) /\ CurrentModule(q) = CurrentModule(r)
             /\ Cur(q).current_struct = cs /\ Cur(q).current_enum = ce
<1> DEFINE q == SetModule(r, v)
<1>1. DOMAIN Cur(r) = ModFields /\ DOMAIN Cur(r).tab = Tables BY DEF RegOK, RegShape
<1>4. NamesOK(r) BY DEF RegOK
<1>5. /\ \A su \in StructKinds : \A y \in v.tab[su] :
           /\ y.addr \in 1..r.next - 1
           /\ r.heap[y.addr].kind = su /\ r.heap[y.addr].name = y.name
      /\ \A y \in v.tab["enum"] : y.addr = 0
      /\ \A y \in v.tab["type"] :
           /\ y.addr \in 1..r.next - 1 /\ r.heap[y.addr].name = y.name
           /\ r.heap[y.addr].kind = (IF y.name \in Intrinsics THEN "intrinsic" ELSE "typedef")
  BY <1>4 DEF NamesOK
<1>6. /\ RegOK(q) /\ SameHeap(r, q) /\ q.halt = r.halt /\ Cur(q) = v
      /\ CurrentModule(q) = CurrentModule(r)
  BY <1>1, <1>5, ModuleSet
<1> HIDE DEF q
<1>7. r.next \in Nat BY BoundsAssumption DEF RegOK, RegShape
<1>8. q.next >= r.next /\ \A i \in r.next..q.next - 1 : FALSE BY <1>6, <1>7 DEF SameHeap
<1>9. TagStep(r, q) /\ SamePrevs(r, q) BY <1>6, <1>8 DEF TagStep, SamePrevs, SameHeap
<1>10. QED BY <1>6, <1>9 DEF SameTypeNames, q

LEMMA TagStepTwice ==
  ASSUME NEW r, RegOK(r), NEW p, TagStep(r, p), NEW q, TagStep(p, q)
  PROVE  TagStep(r, q)
<1>1. r.next \in Nat /\ p.next \in Nat /\ q.next \in Nat /\ r.next <= p.next /\ p.next <= q.next
  BY BoundsAssumption DEF TagStep, RegOK, RegShape
<1>2. /\ \A t \in 1..r.next - 1 : t \in 1..p.next - 1
      /\ \A t \in r.next..q.next - 1 : t \in r.next..p.next - 1 \/ t \in p.next..q.next - 1
      /\ \A t \in r.next..p.next - 1 : t \in 1..p.next - 1 \/ t = 0
  BY <1>1
<1>3. \A t \in r.next..q.next - 1 : q.heap[t].pointer_to = 0 /\ q.heap[t].array0_of = 0
  <2>1. r.next >= 1 BY BoundsAssumption DEF RegOK, RegShape
  <2>2. \A t \in r.next..p.next - 1 : t \in 1..p.next - 1 BY <1>1, <2>1
  <2>3. QED BY <1>2, <2>2 DEF TagStep
<1>4. q.next >= r.next BY <1>1
<1>5. QED BY <1>2, <1>3, <1>4 DEF TagStep

LEMMA StructStep ==
  ASSUME NEW r, RegOK(r), Room(r, 1), NEW su \in StructKinds, NEW name
  PROVE  LET q == Struct(r, su, name)
             st == StructRef(r, su, name)
         IN  /\ TagStep(r, q) /\ SameTypeNames(r, q) /\ CurrentModule(q) = CurrentModule(r)
             /\ q.halt = r.halt /\ q.next <= r.next + 1
             /\ st \in 1..q.next - 1 /\ st \in ObjId
             /\ q.heap[st].kind = su /\ q.heap[st].name = name
             /\ q.heap[st].prev = Cur(r).current_struct
             /\ \A t \in ObjId \ {st} : q.heap[t] = r.heap[t]
             /\ StructKnown(r, su, name) => q.next = r.next
             /\ ~ StructKnown(r, su, name) => st = r.next /\ q.next = r.next + 1
             /\ Cur(q).current_struct = st /\ Cur(q).current_enum = Cur(r).current_enum
<1> DEFINE s == StructForward(r, su, name)
           st == StructRef(r, su, name)
           cs == Cur(r).current_struct
           x == [s.heap[st] EXCEPT !.scope = cs, !.prev = cs]
           w == SetObject(s, st, x)
           v == [Cur(w) EXCEPT !.current_struct = st]
           q == SetModule(w, v)
<1>1. /\ TagStep(r, s) /\ SamePrevs(r, s) /\ SameOpen(r, s) /\ SameTypeNames(r, s)
      /\ s.halt = r.halt /\ s.next <= r.next + 1
      /\ st \in 1..s.next - 1 /\ st \in ObjId
      /\ s.heap[st].kind = su /\ s.heap[st].name = name
      /\ \A t \in ObjId \ {st} : s.heap[t] = r.heap[t]
      /\ StructKnown(r, su, name) => s = r
      /\ ~ StructKnown(r, su, name) => st = r.next /\ s.next = r.next + 1
  BY StructForwardStep
<1>2. Struct(r, su, name) = [s EXCEPT !.heap[st] = x,
                                      !.mods[CurrentModule(r)].current_struct = st]
  BY DEF Struct
<1>3. RegOK(s) BY <1>1 DEF TagStep
<1>4. DOMAIN s = RegFields /\ DOMAIN s.heap[st] = ObjFields /\ DOMAIN s.mods = ModId
      /\ CurrentModule(s) \in ModId /\ CurrentModule(s) = CurrentModule(r)
      /\ s.mods[CurrentModule(r)] = Cur(s)
  BY <1>1, <1>3 DEF RegOK, RegShape, SameOpen, Cur
<1>5. cs \in 0..s.next - 1
  <2>1. cs \in 0..r.next - 1 BY DEF RegOK, NamesOK
  <2>2. r.next \in Nat /\ s.next \in Nat /\ r.next <= s.next
    BY <1>1, <1>3, BoundsAssumption DEF TagStep, RegOK, RegShape
  <2>3. QED BY <2>1, <2>2
<1> HIDE DEF s, st, cs
<1>6. /\ DOMAIN x = ObjFields /\ x.kind = s.heap[st].kind /\ x.name = s.heap[st].name
      /\ x.pointer_to = s.heap[st].pointer_to /\ x.array0_of = s.heap[st].array0_of
      /\ x.prev = cs
  BY <1>4 DEF ObjFields
<1> HIDE DEF x
<1>7. /\ RegOK(w) /\ SameMods(s, w) /\ w.next = s.next /\ w.halt = s.halt
      /\ w.heap[st] = x /\ \A i \in ObjId \ {st} : w.heap[i] = s.heap[i]
      /\ TagStep(s, w) /\ SameOpen(s, w) /\ SameTypeNames(s, w)
  BY <1>1, <1>3, <1>5, <1>6, FieldStep
<1>8. Struct(r, su, name) = q
  <2>1. w.mods = s.mods /\ CurrentModule(w) = CurrentModule(r) /\ Cur(w) = Cur(s)
    BY <1>4, <1>7 DEF SameMods, SameOpen, Cur
  <2>2. v = [s.mods[CurrentModule(r)] EXCEPT !.current_struct = st] BY <1>4, <2>1
  <2>3. Struct(r, su, name) = [w EXCEPT !.mods[CurrentModule(r)] =
                                 [s.mods[CurrentModule(r)] EXCEPT !.current_struct = st]]
    BY <1>2, <1>4 DEF RegFields, SetObject
  <2>4. QED BY <2>1, <2>2, <2>3 DEF SetModule
<1>9. /\ DOMAIN Cur(w) = ModFields BY <1>7 DEF RegOK, RegShape
<1>10. /\ DOMAIN v = ModFields /\ v.tab = Cur(w).tab /\ v.intrinsic = Cur(w).intrinsic
       /\ v.current_struct = st /\ v.current_enum = Cur(w).current_enum
  BY <1>9 DEF ModFields
<1>11. st \in 0..w.next - 1 /\ Cur(w).current_enum \in 0..w.next - 1
  <2>1. Cur(w).current_enum \in 0..w.next - 1 BY <1>7 DEF RegOK, NamesOK
  <2>2. QED BY <1>1, <1>7, <2>1
<1> HIDE DEF v, w, q
<1>12. q = SetModule(w, v) BY DEF q
<1>13. /\ RegOK(q) /\ SameHeap(w, q) /\ q.halt = w.halt /\ TagStep(w, q) /\ SamePrevs(w, q)
       /\ SameTypeNames(w, q) /\ CurrentModule(q) = CurrentModule(w)
       /\ Cur(q).current_struct = st /\ Cur(q).current_enum = Cur(w).current_enum
  BY <1>7, <1>10, <1>11, <1>12, OpenStep
<1>14. TagStep(r, w) BY <1>1, <1>3, <1>7, TagStepTwice
<1>15. TagStep(r, q) BY <1>13, <1>14, TagStepTwice
<1>16. /\ q.next = s.next /\ q.heap[st] = x /\ \A i \in ObjId \ {st} : q.heap[i] = r.heap[i]
  BY <1>1, <1>7, <1>13 DEF SameHeap
<1>17. CurrentModule(q) = CurrentModule(r) /\ Cur(q).current_enum = Cur(r).current_enum
  BY <1>1, <1>7, <1>13 DEF SameOpen
<1>18. SameTypeNames(r, q) BY <1>1, <1>7, <1>13 DEF SameTypeNames
<1>19. q.halt = r.halt BY <1>1, <1>7, <1>13
<1>20. QED
  BY <1>1, <1>6, <1>8, <1>13, <1>15, <1>16, <1>17, <1>18, <1>19 DEF st, cs

LEMMA StructElemStep ==
  ASSUME NEW r, RegOK(r), NEW st \in 1..r.next - 1, NEW name, NEW t
  PROVE  LET q == StructElem(r, st, name, t)
         IN  /\ RegOK(q) /\ TagStep(r, q) /\ SameOpen(r, q) /\ SameTypeNames(r, q)
             /\ SamePrevs(r, q) /\ q.next = r.next /\ q.halt = r.halt
<1> DEFINE y == [name |-> name, type |-> t, val |-> 0]
           x == [r.heap[st] EXCEPT !.elems = Append(@, y)]
           q == SetObject(r, st, x)
<1>0. MaxObjs \in Nat /\ r.next \in Nat /\ r.next \in 1..MaxObjs + 1
  BY BoundsAssumption DEF RegOK, RegShape
<1>1. st \in ObjId BY <1>0 DEF ObjId
<1>2. DOMAIN r.heap[st] = ObjFields /\ CachesOK(r, st) BY <1>1 DEF RegOK, RegShape
<1>3. /\ DOMAIN x = ObjFields /\ x.kind = r.heap[st].kind /\ x.name = r.heap[st].name
      /\ x.pointer_to = r.heap[st].pointer_to /\ x.array0_of = r.heap[st].array0_of
      /\ x.prev = r.heap[st].prev
  BY <1>2 DEF ObjFields
<1>4. StructElem(r, st, name, t) = q BY DEF StructElem, AppendElem, SetObject
<1>5. r.heap[st].prev \in 0..r.next - 1 BY <1>2 DEF CachesOK
<1> HIDE DEF x
<1>6. /\ RegOK(q) /\ q.next = r.next /\ q.halt = r.halt
      /\ q.heap[st] = x /\ \A i \in ObjId \ {st} : q.heap[i] = r.heap[i]
      /\ TagStep(r, q) /\ SameOpen(r, q) /\ SameTypeNames(r, q)
  BY <1>3, <1>5, FieldStep
<1>7. \A i \in 1..r.next - 1 : i \in ObjId BY <1>0 DEF ObjId
<1> HIDE DEF q
<1>8. SamePrevs(r, q) BY <1>3, <1>6, <1>7 DEF SamePrevs
<1>9. QED BY <1>4, <1>6, <1>8

LEMMA StructEndStep ==
  ASSUME NEW r, RegOK(r), NEW st \in 1..r.next - 1
  PROVE  LET q == StructEnd(r, st)
         IN  /\ RegOK(q) /\ TagStep(r, q) /\ SamePrevs(r, q) /\ SameTypeNames(r, q)
             /\ SameHeap(r, q) /\ q.halt = r.halt
             /\ Cur(q).current_struct = r.heap[st].prev
             /\ Cur(q).current_enum = Cur(r).current_enum
<1> DEFINE v == [Cur(r) EXCEPT !.current_struct = r.heap[st].prev]
           q == SetModule(r, v)
<1>0. MaxObjs \in Nat /\ r.next \in Nat /\ r.next \in 1..MaxObjs + 1
  BY BoundsAssumption DEF RegOK, RegShape
<1>1. st \in ObjId BY <1>0 DEF ObjId
<1>2. r.heap[st].prev \in 0..r.next - 1 BY <1>1 DEF RegOK, CachesOK
<1>3. DOMAIN Cur(r) = ModFields /\ Cur(r).current_enum \in 0..r.next - 1
  BY DEF RegOK, RegShape, NamesOK
<1>4. /\ DOMAIN v = ModFields /\ v.tab = Cur(r).tab /\ v.intrinsic = Cur(r).intrinsic
      /\ v.current_struct = r.heap[st].prev /\ v.current_enum = Cur(r).current_enum
  BY <1>3 DEF ModFields
<1>5. StructEnd(r, st) = q BY DEF StructEnd, Cur, SetModule
<1> HIDE DEF v
<1>6. /\ RegOK(q) /\ SameHeap(r, q) /\ q.halt = r.halt /\ TagStep(r, q) /\ SamePrevs(r, q)
      /\ SameTypeNames(r, q)
      /\ Cur(q).current_struct = r.heap[st].prev /\ Cur(q).current_enum = Cur(r).current_enum
  BY <1>2, <1>3, <1>4, OpenStep
<1>7. QED BY <1>5, <1>6

LEMMA EnumLookup ==
  ASSUME NEW r, RegOK(r), NEW name, EnumKnown(r, name)
  PROVE  EnumRef(r, name) = 0
<1>1. /\ Matches(Cur(r).tab["enum"], name) # {}
      /\ EnumRef(r, name) = Lookup(Cur(r).tab["enum"], name).addr
  BY DEF EnumKnown, Found, EnumRef
<1>2. Lookup(Cur(r).tab["enum"], name) \in Matches(Cur(r).tab["enum"], name)
  BY <1>1 DEF Lookup
<1>3. Lookup(Cur(r).tab["enum"], name) \in Cur(r).tab["enum"] BY <1>2 DEF Matches
<1>4. QED BY <1>1, <1>3 DEF RegOK, NamesOK

LEMMA EnumForwardStep ==
  ASSUME NEW r, RegOK(r), Room(r, 1), NEW name
  PROVE  LET q == EnumForward(r, name)
             et == EnumRef(r, name)
         IN  /\ TagStep(r, q) /\ SamePrevs(r, q) /\ SameOpen(r, q) /\ SameTypeNames(r, q)
             /\ q.halt = r.halt /\ q.next <= r.next + 1
             /\ EnumKnown(r, name) => q = r /\ et = 0
             /\ ~ EnumKnown(r, name) =>
                  /\ et = r.next /\ et \in ObjId /\ q.next = r.next + 1
                  /\ q.heap[et].kind = "enum" /\ q.heap[et].name = name
                  /\ \A t \in ObjId \ {et} : q.heap[t] = r.heap[t]
<1> DEFINE q == EnumForward(r, name)
           et == EnumRef(r, name)
<1>0. MaxObjs \in Nat /\ r.next \in Nat /\ r.next \in 1..MaxObjs + 1
  BY BoundsAssumption DEF RegOK, RegShape
<1>1. CASE EnumKnown(r, name)
  <2>1. q = r /\ et = 0 BY <1>1, EnumLookup DEF EnumForward
  <2> HIDE DEF q, et
  <2>2. QED BY <1>0, <1>1, <2>1, TagStepSelf DEF q, et
<1>2. CASE ~ EnumKnown(r, name)
  <2> DEFINE a == 0
  <2>1. q = NewTag(r, "enum", name, a, r.next) BY <1>2 DEF EnumForward, NewTag
  <2>2. et = r.next BY <1>2 DEF EnumRef
  <2> HIDE DEF q
  <2>4. NewTagArgs(r, "enum", a) BY DEF TagKinds, NewTagArgs
  <2> HIDE DEF a
  <2>5. /\ TagStep(r, q) /\ SamePrevs(r, q) /\ SameOpen(r, q) /\ SameTypeNames(r, q)
        /\ q.halt = r.halt /\ r.next \in ObjId /\ q.next = r.next + 1
        /\ q.heap[r.next] = NewObject("enum", name, 0, 0, <<>>)
        /\ \A t \in ObjId \ {r.next} : q.heap[t] = r.heap[t]
    BY <2>1, <2>4, NewTagStep
  <2>6. q.heap[r.next].kind = "enum" /\ q.heap[r.next].name = name BY <2>5 DEF NewObject
  <2>7. q.next <= r.next + 1 BY <1>0, <2>5
  <2> HIDE DEF et
  <2>8. QED BY <1>2, <2>2, <2>5, <2>6, <2>7 DEF q, et
<1>3. QED BY <1>1, <1>2

LEMMA EnumStep ==
  ASSUME NEW r, RegOK(r), Room(r, 1), NEW name, ~ EnumKnown(r, name)
  PROVE  LET q == Enum(r, name)
             et == EnumRef(r, name)
         IN  /\ TagStep(r, q) /\ SamePrevs(r, q) /\ SameTypeNames(r, q)
             /\ q.halt = r.halt /\ et = r.next /\ et \in ObjId /\ q.next = r.next + 1
             /\ q.heap[et].kind = "enum" /\ q.heap[et].name = name
             /\ \A t \in ObjId \ {et} : q.heap[t] = r.heap[t]
             /\ Cur(q).current_struct = Cur(r).current_struct
             /\ Cur(q).current_enum = et
<1> DEFINE s == EnumForward(r, name)
           et == EnumRef(r, name)
           x == [s.heap[et] EXCEPT !.prev = Cur(r).current_enum, !.scope = Cur(r).current_struct]
           w == SetObject(s, et, x)
           v == [Cur(w) EXCEPT !.current_enum = et]
           q == SetModule(w, v)
<1>0. MaxObjs \in Nat /\ r.next \in Nat /\ r.next \in 1..MaxObjs + 1
  BY BoundsAssumption DEF RegOK, RegShape
<1>1. /\ TagStep(r, s) /\ SamePrevs(r, s) /\ SameOpen(r, s) /\ SameTypeNames(r, s)
      /\ s.halt = r.halt
      /\ et = r.next /\ et \in ObjId /\ s.next = r.next + 1
      /\ s.heap[et].kind = "enum" /\ s.heap[et].name = name
      /\ \A t \in ObjId \ {et} : s.heap[t] = r.heap[t]
  BY EnumForwardStep
<1>2. Enum(r, name) = [s EXCEPT !.heap[et] = x, !.mods[CurrentModule(r)].current_enum = et]
  <2>1. et # 0 BY <1>0, <1>1
  <2>2. QED BY <2>1 DEF Enum, Cur
<1>3. RegOK(s) /\ et \in 1..s.next - 1 BY <1>0, <1>1 DEF TagStep
<1>4. DOMAIN s = RegFields /\ DOMAIN s.heap[et] = ObjFields /\ DOMAIN s.mods = ModId
      /\ CurrentModule(s) \in ModId /\ CurrentModule(s) = CurrentModule(r)
      /\ s.mods[CurrentModule(r)] = Cur(s)
  BY <1>1, <1>3 DEF RegOK, RegShape, SameOpen, Cur
<1>5. Cur(r).current_enum \in 0..s.next - 1
  <2>1. Cur(r).current_enum \in 0..r.next - 1 BY DEF RegOK, NamesOK
  <2>2. QED BY <1>0, <1>1, <2>1
<1> HIDE DEF s, et
<1>6. /\ DOMAIN x = ObjFields /\ x.kind = s.heap[et].kind /\ x.name = s.heap[et].name
      /\ x.pointer_to = s.heap[et].pointer_to /\ x.array0_of = s.heap[et].array0_of
      /\ x.prev = Cur(r).current_enum
  BY <1>4 DEF ObjFields
<1> HIDE DEF x
<1>7. /\ RegOK(w) /\ SameMods(s, w) /\ w.next = s.next /\ w.halt = s.halt
      /\ w.heap[et] = x /\ \A i \in ObjId \ {et} : w.heap[i] = s.heap[i]
      /\ TagStep(s, w) /\ SameOpen(s, w) /\ SameTypeNames(s, w)
  BY <1>3, <1>5, <1>6, FieldStep
<1>8. Enum(r, name) = q
  <2>1. w.mods = s.mods /\ CurrentModule(w) = CurrentModule(r) /\ Cur(w) = Cur(s)
    BY <1>4, <1>7 DEF SameMods, SameOpen, Cur
  <2>2. v = [s.mods[CurrentModule(r)] EXCEPT !.current_enum = et] BY <1>4, <2>1
  <2>3. Enum(r, name) = [w EXCEPT !.mods[CurrentModule(r)] =
                                 [s.mods[CurrentModule(r)] EXCEPT !.current_enum = et]]
    BY <1>2, <1>4 DEF RegFields, SetObject
  <2>4. QED BY <2>1, <2>2, <2>3 DEF SetModule
<1>9. /\ DOMAIN Cur(w) = ModFields BY <1>7 DEF RegOK, RegShape
<1>10. /\ DOMAIN v = ModFields /\ v.tab = Cur(w).tab /\ v.intrinsic = Cur(w).intrinsic
       /\ v.current_enum = et /\ v.current_struct = Cur(w).current_struct
  BY <1>9 DEF ModFields
<1>11. et \in 0..w.next - 1 /\ Cur(w).current_struct \in 0..w.next - 1
  <2>1. Cur(w).current_struct \in 0..w.next - 1 BY <1>7 DEF RegOK, NamesOK
  <2>2. QED BY <1>3, <1>7, <2>1
<1> HIDE DEF v, w, q
<1>12. q = SetModule(w, v) BY DEF q
<1>13. /\ RegOK(q) /\ SameHeap(w, q) /\ q.halt = w.halt /\ TagStep(w, q) /\ SamePrevs(w, q)
       /\ SameTypeNames(w, q) /\ CurrentModule(q) = CurrentModule(w)
       /\ Cur(q).current_enum = et /\ Cur(q).current_struct = Cur(w).current_struct
  BY <1>7, <1>10, <1>11, <1>12, OpenStep
<1>14. TagStep(r, w) BY <1>1, <1>3, <1>7, TagStepTwice
<1>15. TagStep(r, q) BY <1>13, <1>14, TagStepTwice
<1>16. /\ q.next = s.next /\ q.heap[et] = x /\ \A i \in ObjId \ {et} : q.heap[i] = r.heap[i]
  BY <1>1, <1>7, <1>13 DEF SameHeap
<1>17. CurrentModule(q) = CurrentModule(r) /\ Cur(q).current_struct = Cur(r).current_struct
  BY <1>1, <1>7, <1>13 DEF SameOpen
<1>18. SameTypeNames(r, q) BY <1>1, <1>7, <1>13 DEF SameTypeNames
<1>19. q.halt = r.halt BY <1>1, <1>7, <1>13
<1>20. SamePrevs(r, q)
  <2>1. \A t \in 1..r.next - 1 : t \in ObjId \ {et} BY <1>0, <1>1 DEF ObjId
  <2>2. QED BY <1>16, <2>1 DEF SamePrevs
<1>21. QED
  BY <1>1, <1>6, <1>8, <1>13, <1>15, <1>16, <1>17, <1>18, <1>19, <1>20 DEF et

LEMMA EnumElemStep ==
  ASSUME NEW r, RegOK(r), NEW et \in 1..r.next - 1, NEW name
  PROVE  LET q == EnumElem(r, et, name, FALSE, 0)
         IN  /\ RegOK(q) /\ TagStep(r, q) /\ SameOpen(r, q) /\ SameTypeNames(r, q)
             /\ SamePrevs(r, q) /\ q.next = r.next /\ q.halt = r.halt
<1> DEFINE val == EnumVal(r, et, FALSE, 0)
           y == [name |-> name, type |-> et, val |-> val]
           x == [r.heap[et] EXCEPT !.elems = Append(@, y), !.last = val]
           s == AppendElem(r, et, name, et, val)
           q == SetObject(r, et, x)
<1>0. MaxObjs \in Nat /\ r.next \in Nat /\ r.next \in 1..MaxObjs + 1
  BY BoundsAssumption DEF RegOK, RegShape
<1>1. et \in ObjId BY <1>0 DEF ObjId
<1>2. DOMAIN r.heap[et] = ObjFields /\ CachesOK(r, et) /\ DOMAIN r = RegFields
      /\ DOMAIN r.heap = ObjId
  BY <1>1 DEF RegOK, RegShape
<1>3. /\ DOMAIN x = ObjFields /\ x.kind = r.heap[et].kind /\ x.name = r.heap[et].name
      /\ x.pointer_to = r.heap[et].pointer_to /\ x.array0_of = r.heap[et].array0_of
      /\ x.prev = r.heap[et].prev
  BY <1>2 DEF ObjFields
<1>4. EnumElem(r, et, name, FALSE, 0) = [s EXCEPT !.heap[et].last = val]
  BY DEF EnumElem
<1> HIDE DEF val
<1>5. [s EXCEPT !.heap[et].last = val] = q
  <2> DEFINE w == [r.heap[et] EXCEPT !.elems = Append(@, y)]
  <2>1. s = [r EXCEPT !.heap[et] = w] BY DEF AppendElem
  <2>2. [w EXCEPT !.last = val] = x BY <1>2 DEF ObjFields
  <2> HIDE DEF w, x, s
  <2>3. s.heap = [r.heap EXCEPT ![et] = w] /\ s.heap[et] = w BY <1>1, <1>2, <2>1 DEF RegFields
  <2>4. [s EXCEPT !.heap[et].last = val] = [s EXCEPT !.heap[et] = x] BY <2>2, <2>3
  <2>5. [s EXCEPT !.heap[et] = x] = [r EXCEPT !.heap[et] = x] BY <1>2, <2>1 DEF RegFields
  <2>6. QED BY <2>4, <2>5 DEF SetObject
<1>6. r.heap[et].prev \in 0..r.next - 1 BY <1>2 DEF CachesOK
<1> HIDE DEF x, s
<1>7. /\ RegOK(q) /\ q.next = r.next /\ q.halt = r.halt
      /\ q.heap[et] = x /\ \A i \in ObjId \ {et} : q.heap[i] = r.heap[i]
      /\ TagStep(r, q) /\ SameOpen(r, q) /\ SameTypeNames(r, q)
  BY <1>3, <1>6, FieldStep
<1>8. \A i \in 1..r.next - 1 : i \in ObjId BY <1>0 DEF ObjId
<1> HIDE DEF q
<1>9. SamePrevs(r, q) BY <1>3, <1>7, <1>8 DEF SamePrevs
<1>10. QED BY <1>4, <1>5, <1>7, <1>9

LEMMA EnumEndStep ==
  ASSUME NEW r, RegOK(r), NEW et \in 1..r.next - 1
  PROVE  LET q == EnumEnd(r, et)
         IN  /\ RegOK(q) /\ TagStep(r, q) /\ SamePrevs(r, q) /\ SameTypeNames(r, q)
             /\ SameHeap(r, q) /\ q.halt = r.halt
             /\ Cur(q).current_struct = Cur(r).current_struct
<1> DEFINE v == [Cur(r) EXCEPT !.current_enum = r.heap[et].prev]
           q == SetModule(r, v)
<1>0. MaxObjs \in Nat /\ r.next \in Nat /\ r.next \in 1..MaxObjs + 1
  BY BoundsAssumption DEF RegOK, RegShape
<1>1. et \in ObjId BY <1>0 DEF ObjId
<1>2. r.heap[et].prev \in 0..r.next - 1 BY <1>1 DEF RegOK, CachesOK
<1>3. DOMAIN Cur(r) = ModFields /\ Cur(r).current_struct \in 0..r.next - 1
  BY DEF RegOK, RegShape, NamesOK
<1>4. /\ DOMAIN v = ModFields /\ v.tab = Cur(r).tab /\ v.intrinsic = Cur(r).intrinsic
      /\ v.current_enum = r.heap[et].prev /\ v.current_struct = Cur(r).current_struct
  BY <1>3 DEF ModFields
<1>5. EnumEnd(r, et) = q BY DEF EnumEnd, Cur, SetModule
<1> HIDE DEF v
<1>6. /\ RegOK(q) /\ SameHeap(r, q) /\ q.halt = r.halt /\ TagStep(r, q) /\ SamePrevs(r, q)
      /\ SameTypeNames(r, q) /\ Cur(q).current_struct = Cur(r).current_struct
  BY <1>2, <1>3, <1>4, OpenStep
<1>7. QED BY <1>5, <1>6

LEMMA HaltStep ==
  ASSUME NEW r, RegOK(r), NEW how \in {"abort", "segv"}
  PROVE  LET q == Halt(r, how)
         IN  /\ RegOK(q) /\ TagStep(r, q) /\ SamePrevs(r, q) /\ SameOpen(r, q)
             /\ SameTypeNames(r, q) /\ SameMods(r, q) /\ q.heap = r.heap /\ q.next = r.next
             /\ q.halt = how
<1> DEFINE q == Halt(r, how)
<1>1. DOMAIN r = RegFields BY DEF RegOK, RegShape
<1>2. /\ DOMAIN q = RegFields /\ q.heap = r.heap /\ q.next = r.next /\ q.halt = how
      /\ q.mods = r.mods /\ q.itab = r.itab /\ q.cur = r.cur /\ q.def = r.def
  BY <1>1 DEF Halt, RegFields
<1> HIDE DEF q
<1>3. /\ CurrentModule(q) = CurrentModule(r) /\ Cur(q) = Cur(r)
      /\ IntrinsicTable(q) = IntrinsicTable(r)
  BY <1>2 DEF CurrentModule, Cur, IntrinsicTable
<1>4. RegShape(q) BY <1>2, <1>3 DEF RegOK, RegShape
<1>5. \A t \in ObjId : CachesOK(q, t) BY <1>2 DEF RegOK, CachesOK
<1>6. NamesOK(q) BY <1>2, <1>3 DEF RegOK, NamesOK
<1>7. RegOK(q) BY <1>4, <1>5, <1>6 DEF RegOK
<1>8. TagStep(r, r) BY TagStepSelf
<1>9. TagStep(r, q) BY <1>2, <1>7, <1>8 DEF TagStep
<1>10. QED BY <1>2, <1>3, <1>7, <1>9 DEF q, SamePrevs, SameOpen, SameTypeNames, SameMods

LEMMA GlobalStep ==
  ASSUME NEW r, RegOK(r), NEW name, NEW t
  PROVE  LET q == Global(r, name, t)
         IN  /\ RegOK(q) /\ TagStep(r, q) /\ SamePrevs(r, q) /\ SameOpen(r, q)
             /\ SameTypeNames(r, q) /\ q.heap = r.heap /\ q.next = r.next /\ q.halt = r.halt
<1> DEFINE q == Global(r, name, t)
           k == "global"
<1>1. q = AddSymbol(r, k, name, 0, t) BY DEF Global
<1>2. k \in Tables /\ k \notin StructKinds /\ k # "enum" /\ k # "type"
  BY DEF Tables, StructKinds
<1> HIDE DEF q, k
<1>3. /\ RegOK(q) /\ SameHeap(r, q) /\ q.halt = r.halt
      /\ Cur(q).current_struct = Cur(r).current_struct
      /\ Cur(q).current_enum = Cur(r).current_enum
      /\ Cur(q).tab = [Cur(r).tab EXCEPT ![k] =
                         @ \cup {[name |-> name, addr |-> 0, type |-> t]}]
      /\ CurrentModule(q) = CurrentModule(r)
  BY <1>1, <1>2, AddSymbolStep
<1>4. DOMAIN Cur(r).tab = Tables /\ "type" \in Tables BY DEF RegOK, RegShape, Tables
<1>5. Cur(q).tab["type"] = Cur(r).tab["type"] BY <1>2, <1>3, <1>4
<1>6. TagStep(r, r) BY TagStepSelf
<1>7. TagStep(r, q) BY <1>3, <1>6 DEF TagStep, SameHeap
<1>8. QED BY <1>3, <1>5, <1>7 DEF q, SameHeap, SamePrevs, SameOpen, SameTypeNames

(* ggrt_typedef of a name that is not in the table.                        *)
LEMMA TypedefStep ==
  ASSUME NEW r, RegOK(r), Room(r, 1), NEW name, name \notin Intrinsics, NEW t,
         ~ Found(Cur(r).tab["type"], name)
  PROVE  LET q == Typedef(r, name, t)
         IN  /\ RegOK(q) /\ TagStep(r, q) /\ SamePrevs(r, q) /\ SameOpen(r, q)
             /\ q.halt = r.halt /\ r.next \in ObjId /\ q.next = r.next + 1
             /\ q.heap[r.next].kind = "typedef"
             /\ \A i \in ObjId \ {r.next} : q.heap[i] = r.heap[i]
             /\ Cur(q).tab["type"] = Cur(r).tab["type"] \cup
                  {[name |-> name, addr |-> r.next, type |-> t]}
<1> DEFINE x == NewObject("typedef", name, t, 0, <<>>)
           s == Alloc(r, x)
           k == "type"
           y == [name |-> name, addr |-> r.next, type |-> t]
           q == AddSymbol(s, k, name, r.next, t)
<1>0. MaxObjs \in Nat /\ r.next \in Nat /\ r.next \in 1..MaxObjs + 1
  BY BoundsAssumption DEF RegOK, RegShape
<1>1. Typedef(r, name, t) = q BY DEF Typedef
<1>2. /\ DOMAIN x = ObjFields /\ x.kind = "typedef" /\ x.name = name /\ x.pointer_to = 0
      /\ x.array0_of = 0 /\ x.prev = 0
  BY DEF NewObject, ObjFields
<1> HIDE DEF x
<1>3. /\ TypeStep(r, s) /\ r.next \in ObjId /\ s.next = r.next + 1 /\ s.heap[r.next] = x
      /\ \A i \in ObjId \ {r.next} : s.heap[i] = r.heap[i]
  BY <1>2, AllocStep
<1> HIDE DEF s
<1>4. RegOK(s) /\ s.halt = r.halt /\ Cur(s) = Cur(r) /\ CurrentModule(s) = CurrentModule(r)
  BY <1>3 DEF TypeStep, SameMods, CurrentModule, Cur
<1>5. r.next \in 1..s.next - 1 BY <1>0, <1>3
<1>6. k \in Tables /\ k \notin StructKinds /\ k # "enum" /\ k = "type"
  BY DEF Tables, StructKinds
<1>7. k = "type" => /\ r.next \in 1..s.next - 1 /\ s.heap[r.next].name = name
                    /\ s.heap[r.next].kind = (IF name \in Intrinsics THEN "intrinsic" ELSE "typedef")
  BY <1>2, <1>3, <1>5
<1>8. Cur(s).tab[k] = Cur(r).tab["type"] BY <1>4
<1> HIDE DEF k, q
<1>9. /\ RegOK(q) /\ SameHeap(s, q) /\ q.halt = s.halt
      /\ Cur(q).current_struct = Cur(s).current_struct
      /\ Cur(q).current_enum = Cur(s).current_enum
      /\ Cur(q).tab = [Cur(s).tab EXCEPT ![k] = @ \cup {y}]
      /\ CurrentModule(q) = CurrentModule(s)
  BY <1>4, <1>6, <1>7, AddSymbolStep DEF q
<1>10. DOMAIN Cur(s).tab = Tables BY <1>4 DEF RegOK, RegShape
<1> HIDE DEF y
<1>11. Cur(q).tab["type"] = Cur(r).tab["type"] \cup {y} BY <1>6, <1>8, <1>9, <1>10
<1>12. q.heap = s.heap /\ q.next = s.next BY <1>9 DEF SameHeap
<1>13. \A i \in 1..r.next - 1 : i \in ObjId \ {r.next} BY <1>0, <1>3 DEF ObjId
<1>14. \A i \in r.next..q.next - 1 : i = r.next BY <1>0, <1>3, <1>12
<1>15. q.next >= r.next BY <1>0, <1>3, <1>12
<1>16. TagStep(r, q) /\ SamePrevs(r, q)
  BY <1>2, <1>3, <1>9, <1>12, <1>13, <1>14, <1>15, TagStepOf
<1>17. QED
  BY <1>1, <1>2, <1>3, <1>4, <1>9, <1>11, <1>12, <1>16 DEF SameOpen, y

-----------------------------------------------------------------------------
(* What the input has to keep to for the properties that depend on it: no  *)
(* typedef name is used as a type, no enum tag refers to an enum, and no   *)
(* bit-field is unnamed; no tag is used before it is declared; and, for    *)
(* the types written to be those of C, all lengths that are expressions    *)
(* are the same one, without sizeof, no declarator has parentheses, no     *)
(* parameter list is (void), and no further type specifier means another   *)
(* type than the one the code keeps.  With each of these constructs the    *)
(* code does something else than C, and the property is false.             *)

Resolved == Syntax \cap {"typename", "enumref", "padding"} = {}
Declared == "forward" \notin Syntax
Exact == /\ Resolved /\ Declared
         /\ \A e, f \in Exprs : e = f
         /\ Syntax \cap {"sizeof", "paren", "void", "specifiers"} = {}

-----------------------------------------------------------------------------
(* The texts of the types.                                                 *)

TextFields == {"term", "consts", "tags"}
StructFields == {"made", "nelem", "prev"}
BaseKinds == {"intrinsic", "struct", "union", "enum", "typedef"}

StoreOK(s) ==
  /\ DOMAIN s = Fields /\ RegOK(s.rt)
  /\ DOMAIN s.text = ObjId /\ DOMAIN s.structs = ObjId /\ DOMAIN s.enums = ObjId
  /\ DOMAIN s.unnamed = {"struct", "enum"}
  /\ \A t \in ObjId : /\ DOMAIN s.text[t] = TextFields
                      /\ DOMAIN s.structs[t] = StructFields
                      /\ t >= s.rt.next => s.text[t].consts = {}

(* The text of a pointer type that is cached is made of the text of its    *)
(* target, and an open array refers to what its element refers to and has  *)
(* the one length there is that is an expression.                          *)
PointerTextOK(s, t, p) ==
  /\ s.rt.heap[t].kind # "function" => s.text[p].consts = {}
  /\ Declared => s.text[p].tags = s.text[t].tags
  /\ Exact /\ s.rt.heap[t].kind # "array" => s.text[p].term = PointerTo(s.text[t].term)

OpenTextOK(s, t, a) ==
  /\ Declared => s.text[a].tags = s.text[t].tags
  /\ Exact => \A e \in Exprs : s.text[a].term = ArrayOf(s.text[t].term, Expr(e))

TextOK(s, t) ==
  LET x == s.rt.heap[t]
      w == s.text[t]
  IN  /\ x.kind \in BaseKinds => w.consts = {}
      /\ x.kind \in {"intrinsic", "typedef"} => w.tags = {}
      /\ x.kind = "intrinsic" => w.term = Base(x.name)
      /\ x.kind \in {"struct", "union", "enum"} /\ Declared => w.tags = {w.term}
      /\ x.kind \in StructKinds /\ Declared =>
           /\ s.structs[t].made
           /\ x.name # NoName => w.term = Tagged(x.kind, x.name, 0)
      /\ x.pointer_to # 0 => PointerTextOK(s, t, x.pointer_to)
      /\ x.array0_of # 0 => OpenTextOK(s, t, x.array0_of)

ConstsOK(s) ==
  /\ s.constant_id \in Nat
  /\ \A a \in s.written : a.id \in 1..s.constant_id
  /\ \A a, b \in s.written : a.id = b.id => a = b

TypesOK(s) == /\ StoreOK(s) /\ ConstsOK(s)
              /\ \A t \in 1..s.rt.next - 1 : TextOK(s, t)

(* A text that may be written: what it refers to has been written.         *)
Writable(s, w) ==
  s.emit # 0 => w.consts \subseteq s.written /\ (Declared => w.tags \subseteq s.begun)
Good(s, t) == Writable(s, s.text[t])

(* A type a declarator may have, and one that derives no text from others. *)
Typ(s, t) ==
  /\ t \in 0..s.rt.next - 1
  /\ Resolved => t # 0 /\ s.rt.heap[t].kind # "typedef"
  /\ t # 0 => Good(s, t)
Prim(s, t) ==
  /\ Typ(s, t)
  /\ t # 0 => /\ s.rt.heap[t].kind \notin {"function", "array", "bitfield"}
              /\ s.text[t].consts = {}

(* What has been handed out keeps its kind, its name and its text, but for *)
(* the cached open arrays and the tags used before they are declared.      *)
Grows(s, k) ==
  /\ k.rt.next >= s.rt.next
  /\ k.emit = s.emit /\ s.written \subseteq k.written /\ s.begun \subseteq k.begun
  /\ \A t \in 1..s.rt.next - 1 :
       /\ k.rt.heap[t].kind = s.rt.heap[t].kind /\ k.rt.heap[t].name = s.rt.heap[t].name
       /\ \/ k.text[t] = s.text[t]
          \/ /\ Good(k, t) /\ (Exact => k.text[t].term = s.text[t].term)
             /\ \/ s.rt.heap[t].kind = "array"
                \/ s.rt.heap[t].kind \in StructKinds /\ ~ Declared /\ k.text[t].consts = {}

(* Nothing but types and texts changes.                                    *)
Stays(s, k) ==
  /\ k.structs = s.structs /\ k.current_struct = s.current_struct /\ k.enums = s.enums
  /\ k.unnamed = s.unnamed /\ k.said = s.said /\ k.begun = s.begun /\ k.forms = s.forms
  /\ SameOpen(s.rt, k.rt) /\ SameTypeNames(s.rt, k.rt) /\ SamePrevs(s.rt, k.rt)
  /\ \A t \in 1..s.rt.next - 1 : s.rt.heap[t].kind # "array" => k.text[t] = s.text[t]

Derives(s, k) == TypesOK(k) /\ Grows(s, k) /\ Stays(s, k)
SameStacks(s, k) == k.decls = s.decls /\ k.dtors = s.dtors

LEMMA Ranges ==
  ASSUME NEW r, RegOK(r)
  PROVE  /\ MaxObjs \in Nat /\ r.next \in Nat /\ r.next \in 1..MaxObjs + 1
         /\ \A t \in 1..r.next - 1 : t \in ObjId
         /\ \A t \in 0..r.next - 1 : t # 0 => t \in 1..r.next - 1
<1>1. MaxObjs \in Nat /\ r.next \in 1..MaxObjs + 1 BY BoundsAssumption DEF RegOK, RegShape
<1>2. QED BY <1>1 DEF ObjId

LEMMA GrowsNext ==
  ASSUME NEW s, TypesOK(s), NEW k, TypesOK(k), Grows(s, k)
  PROVE  /\ s.rt.next \in Nat /\ k.rt.next \in Nat /\ s.rt.next <= k.rt.next
         /\ 1..s.rt.next - 1 \subseteq 1..k.rt.next - 1
         /\ 0..s.rt.next - 1 \subseteq 0..k.rt.next - 1
         /\ \A t \in 0..s.rt.next - 1 : t # 0 => t \in 1..s.rt.next - 1
<1>1. s.rt.next \in Nat /\ k.rt.next \in Nat BY Ranges DEF TypesOK, StoreOK
<1>2. s.rt.next <= k.rt.next BY <1>1 DEF Grows
<1>3. QED BY <1>1, <1>2

LEMMA TypGrows ==
  ASSUME NEW s, TypesOK(s), NEW k, TypesOK(k), Grows(s, k), NEW t, Typ(s, t)
  PROVE  /\ Typ(k, t) /\ (Prim(s, t) => Prim(k, t))
         /\ Exact => k.text[t].term = s.text[t].term
<1>1. t \in 0..s.rt.next - 1 BY DEF Typ
<1>2. t \in 0..k.rt.next - 1 /\ (t # 0 => t \in 1..s.rt.next - 1) BY <1>1, GrowsNext
<1>3. t # 0 => k.rt.heap[t].kind = s.rt.heap[t].kind BY <1>2 DEF Grows
<1>4. t # 0 => Good(k, t)
  <2>1. ASSUME t # 0, k.text[t] = s.text[t] PROVE Good(k, t)
    BY <2>1 DEF Typ, Good, Writable, Grows
  <2>2. QED BY <1>2, <2>1 DEF Grows
<1>5. Typ(k, t) BY <1>2, <1>3, <1>4 DEF Typ
<1>6. ASSUME Prim(s, t) PROVE Prim(k, t)
  <2>1. t # 0 => s.rt.heap[t].kind # "array" /\ s.text[t].consts = {} BY <1>6 DEF Prim
  <2>2. t # 0 => k.text[t].consts = {} BY <1>2, <2>1 DEF Grows
  <2>3. QED BY <1>3, <1>5, <1>6, <2>2 DEF Prim
<1>7. Exact => k.text[t].term = s.text[t].term BY <1>2 DEF Grows, Typ, Exact
<1>8. QED BY <1>5, <1>6, <1>7

LEMMA GrowsTwice ==
  ASSUME NEW s, TypesOK(s), NEW k, TypesOK(k), Grows(s, k), NEW l, TypesOK(l), Grows(k, l)
  PROVE  Grows(s, l)
<1>1. /\ s.rt.next \in Nat /\ k.rt.next \in Nat /\ l.rt.next \in Nat
      /\ s.rt.next <= k.rt.next /\ k.rt.next <= l.rt.next
      /\ \A t \in 1..s.rt.next - 1 : t \in 1..k.rt.next - 1
  BY GrowsNext
<1>2. l.rt.next >= s.rt.next BY <1>1
<1>3. /\ l.emit = s.emit /\ k.emit = s.emit /\ s.written \subseteq l.written /\ s.begun \subseteq l.begun
      /\ k.written \subseteq l.written /\ k.begun \subseteq l.begun
  BY DEF Grows
<1>4. ASSUME NEW t \in 1..s.rt.next - 1
      PROVE /\ l.rt.heap[t].kind = s.rt.heap[t].kind /\ l.rt.heap[t].name = s.rt.heap[t].name
            /\ \/ l.text[t] = s.text[t]
               \/ /\ Good(l, t) /\ (Exact => l.text[t].term = s.text[t].term)
                  /\ \/ s.rt.heap[t].kind = "array"
                     \/ s.rt.heap[t].kind \in StructKinds /\ ~ Declared /\ l.text[t].consts = {}
  <2>1. t \in 1..k.rt.next - 1 BY <1>1
  <2>2. /\ l.rt.heap[t].kind = k.rt.heap[t].kind /\ l.rt.heap[t].name = k.rt.heap[t].name
        /\ k.rt.heap[t].kind = s.rt.heap[t].kind /\ k.rt.heap[t].name = s.rt.heap[t].name
    BY <2>1 DEF Grows
  <2>3. Good(k, t) /\ l.text[t] = k.text[t] => Good(l, t) BY <1>3 DEF Good, Writable, Grows
  <2>4. QED BY <2>1, <2>2, <2>3 DEF Grows
<1>5. QED BY <1>2, <1>3, <1>4 DEF Grows

LEMMA DerivesTwice ==
  ASSUME NEW s, TypesOK(s), NEW k, Derives(s, k), NEW l, Derives(k, l)
  PROVE  Derives(s, l)
<1>1. \A t \in 1..s.rt.next - 1 : t \in 1..k.rt.next - 1 BY GrowsNext DEF Derives
<1>2. Grows(s, l) BY GrowsTwice DEF Derives
<1>3. /\ \A t \in 1..s.rt.next - 1 : k.rt.heap[t].kind = s.rt.heap[t].kind
  BY DEF Derives, Grows
<1>4. Stays(s, l)
  BY <1>1, <1>3 DEF Derives, Stays, SameOpen, SameTypeNames, SamePrevs
<1>5. QED BY <1>2, <1>4 DEF Derives

(* Steps that change no type and no text.                                  *)
LEMMA SameTypes ==
  ASSUME NEW s, TypesOK(s), NEW k, DOMAIN k = Fields, RegOK(k.rt),
         k.rt.heap = s.rt.heap, k.rt.next = s.rt.next, k.text = s.text,
         DOMAIN k.structs = ObjId, DOMAIN k.enums = ObjId,
         DOMAIN k.unnamed = {"struct", "enum"},
         \A t \in ObjId : /\ DOMAIN k.structs[t] = StructFields
                          /\ k.structs[t].made = s.structs[t].made,
         ConstsOK(k), k.emit = s.emit, s.written \subseteq k.written, s.begun \subseteq k.begun
  PROVE  TypesOK(k) /\ Grows(s, k)
<1>1. s.rt.next \in Nat /\ \A t \in 1..s.rt.next - 1 : t \in ObjId
  BY Ranges DEF TypesOK, StoreOK
<1>2. StoreOK(k) BY DEF TypesOK, StoreOK
<1>3. ASSUME NEW t \in 1..k.rt.next - 1 PROVE TextOK(k, t)
  <2>1. t \in 1..s.rt.next - 1 /\ t \in ObjId BY <1>1
  <2>2. TextOK(s, t) BY <2>1 DEF TypesOK
  <2>3. k.structs[t].made = s.structs[t].made BY <2>1
  <2>4. QED BY <2>2, <2>3 DEF TextOK, PointerTextOK, OpenTextOK
<1>4. Grows(s, k) BY <1>1 DEF Grows
<1>5. QED BY <1>2, <1>3, <1>4 DEF TypesOK

LEMMA StaysSelf == \A s : Stays(s, s) /\ SameStacks(s, s)
BY DEF Stays, SameStacks, SameOpen, SameTypeNames, SamePrevs

LEMMA DerivesSelf ==
  ASSUME NEW s, TypesOK(s)
  PROVE  Derives(s, s)
<1>1. /\ RegOK(s.rt) /\ ConstsOK(s) /\ DOMAIN s = Fields /\ DOMAIN s.structs = ObjId
      /\ DOMAIN s.enums = ObjId /\ DOMAIN s.unnamed = {"struct", "enum"}
      /\ \A t \in ObjId : DOMAIN s.structs[t] = StructFields
  BY DEF TypesOK, StoreOK
<1>2. s.written \subseteq s.written /\ s.begun \subseteq s.begun OBVIOUS
<1>3. Grows(s, s) BY <1>1, <1>2, SameTypes
<1>4. QED BY <1>3, StaysSelf DEF Derives

LEMMA StopStep ==
  ASSUME NEW s, TypesOK(s), NEW how \in {"abort", "segv"}
  PROVE  LET k == Stop(s, how)
         IN  Derives(s, k) /\ SameStacks(s, k) /\ k.rt.halt = how /\ k.rt.next = s.rt.next
             /\ k.constant_id = s.constant_id
<1> DEFINE k == Stop(s, how)
           r == Halt(s.rt, how)
<1>0. StoreOK(s) /\ ConstsOK(s) BY DEF TypesOK
<1>1. /\ RegOK(r) /\ SamePrevs(s.rt, r) /\ SameOpen(s.rt, r)
      /\ SameTypeNames(s.rt, r) /\ r.heap = s.rt.heap /\ r.next = s.rt.next /\ r.halt = how
  BY <1>0, HaltStep DEF StoreOK
<1>2. /\ DOMAIN k = Fields /\ k.rt = r /\ k.text = s.text /\ k.structs = s.structs
      /\ k.enums = s.enums /\ k.unnamed = s.unnamed /\ k.emit = s.emit
      /\ k.written = s.written /\ k.begun = s.begun /\ k.constant_id = s.constant_id
      /\ k.decls = s.decls /\ k.dtors = s.dtors /\ k.current_struct = s.current_struct
      /\ k.said = s.said /\ k.forms = s.forms
  BY <1>0 DEF Stop, StoreOK, Fields
<1> HIDE DEF k, r
<1>3. ConstsOK(k) BY <1>0, <1>2 DEF ConstsOK
<1>4. TypesOK(k) /\ Grows(s, k) BY <1>0, <1>1, <1>2, <1>3, SameTypes DEF StoreOK
<1>5. Stays(s, k) BY <1>1, <1>2 DEF Stays
<1>6. QED BY <1>1, <1>2, <1>4, <1>5 DEF Derives, SameStacks, k

(* gghc_constant.                                                          *)
LEMMA ConstantStep ==
  ASSUME NEW s, TypesOK(s), NEW op, NEW name, NEW of
  PROVE  LET k == Constant(s, op, name, of)
         IN  /\ Derives(s, k) /\ SameStacks(s, k) /\ k.rt = s.rt /\ k.text = s.text
             /\ k.constant_id = s.constant_id + 1
             /\ s.emit # 0 => NextConstant(s, op, name, of) \in k.written
<1> DEFINE k == Constant(s, op, name, of)
           n == NextConstant(s, op, name, of)
<1>0. StoreOK(s) /\ ConstsOK(s) BY DEF TypesOK
<1>1. n.id = s.constant_id + 1 BY DEF NextConstant
<1>2. /\ DOMAIN k = Fields /\ k.rt = s.rt /\ k.text = s.text /\ k.structs = s.structs
      /\ k.enums = s.enums /\ k.unnamed = s.unnamed /\ k.emit = s.emit
      /\ k.written = (IF s.emit # 0 THEN s.written \cup {n} ELSE s.written)
      /\ k.begun = s.begun /\ k.constant_id = s.constant_id + 1
      /\ k.decls = s.decls /\ k.dtors = s.dtors /\ k.current_struct = s.current_struct
      /\ k.said = s.said /\ k.forms = s.forms
  BY <1>0 DEF Constant, StoreOK, Fields
<1> HIDE DEF k, n
<1>3. ConstsOK(k)
  <2>1. k.constant_id \in Nat BY <1>0, <1>2 DEF ConstsOK
  <2>2. \A a \in s.written : a.id \in 1..k.constant_id /\ a.id # n.id
    BY <1>0, <1>1, <1>2 DEF ConstsOK
  <2>3. n.id \in 1..k.constant_id BY <1>0, <1>1, <1>2 DEF ConstsOK
  <2>4. \A a \in k.written : a \in s.written \/ a = n BY <1>2
  <2>5. \A a, b \in k.written : a.id = b.id => a = b BY <1>0, <2>2, <2>4 DEF ConstsOK
  <2>6. QED BY <2>1, <2>2, <2>3, <2>4, <2>5 DEF ConstsOK
<1>4. s.written \subseteq k.written /\ s.begun \subseteq k.begun BY <1>2
<1>5. TypesOK(k) /\ Grows(s, k) BY <1>0, <1>2, <1>3, <1>4, SameTypes DEF StoreOK
<1>6. Stays(s, k) BY <1>2, StaysSelf DEF Stays
<1>7. QED BY <1>2, <1>5, <1>6 DEF Derives, SameStacks, k, n

LEMMA AfterLengthStep ==
  ASSUME NEW s, TypesOK(s), NEW len
  PROVE  LET k == AfterLength(s, len)
         IN  /\ Derives(s, k) /\ SameStacks(s, k) /\ k.rt = s.rt /\ k.text = s.text
             /\ k.constant_id <= s.constant_id + 1
             /\ s.emit # 0 => LengthUses(s, len) \subseteq k.written
<1>1. CASE IsLiteral(len)
  <2>1. AfterLength(s, len) = s /\ LengthUses(s, len) = {}
    BY <1>1 DEF AfterLength, LengthUses
  <2>2. s.constant_id <= s.constant_id + 1 BY DEF TypesOK, ConstsOK
  <2>3. QED BY <2>1, <2>2, DerivesSelf, StaysSelf
<1>2. CASE ~ IsLiteral(len)
  <2> DEFINE k == Constant(s, "expr", len.expr, NullTerm)
             n == NextConstant(s, "expr", len.expr, NullTerm)
  <2>1. AfterLength(s, len) = k /\ LengthUses(s, len) = {n}
    BY <1>2 DEF AfterLength, LengthUses
  <2>2. /\ Derives(s, k) /\ SameStacks(s, k) /\ k.rt = s.rt /\ k.text = s.text
        /\ k.constant_id = s.constant_id + 1 /\ (s.emit # 0 => n \in k.written)
    BY ConstantStep
  <2> HIDE DEF k, n
  <2>3. k.constant_id <= s.constant_id + 1 BY <2>2 DEF TypesOK, ConstsOK
  <2>4. QED BY <2>1, <2>2, <2>3
<1>3. QED BY <1>1, <1>2

-----------------------------------------------------------------------------
(* Derived types.                                                          *)

LEMMA TypeStepTags ==
  ASSUME NEW r, NEW q, TypeStep(r, q)
  PROVE  /\ SamePrevs(r, q) /\ SameOpen(r, q) /\ SameTypeNames(r, q) /\ RegOK(q)
         /\ q.next >= r.next /\ q.halt = r.halt
<1>1. CurrentModule(q) = CurrentModule(r) /\ Cur(q) = Cur(r)
  BY DEF TypeStep, SameMods, CurrentModule, Cur
<1>2. QED BY <1>1 DEF TypeStep, HeapGrows, SamePrevs, SameOpen, SameTypeNames

(* What k has with only the registry and some texts changed.               *)
NewTexts(s, k) ==
  /\ DOMAIN k = Fields
  /\ k.structs = s.structs /\ k.current_struct = s.current_struct /\ k.enums = s.enums
  /\ k.unnamed = s.unnamed /\ k.said = s.said /\ k.begun = s.begun /\ k.forms = s.forms
  /\ k.emit = s.emit /\ k.written = s.written /\ k.constant_id = s.constant_id
  /\ DOMAIN k.text = ObjId /\ \A t \in ObjId : DOMAIN k.text[t] = TextFields

LEMMA NewTextsDerive ==
  ASSUME NEW s, TypesOK(s), NEW k, NewTexts(s, k), TypeStep(s.rt, k.rt),
         \A t \in ObjId : t >= k.rt.next => k.text[t] = s.text[t],
         \A t \in 1..s.rt.next - 1 :
           \/ k.text[t] = s.text[t]
           \/ /\ Good(k, t) /\ s.rt.heap[t].kind = "array"
              /\ Exact => k.text[t].term = s.text[t].term,
         \A t \in 1..k.rt.next - 1 : TextOK(k, t)
  PROVE  Derives(s, k)
<1>1. /\ StoreOK(s) /\ ConstsOK(s) /\ s.rt.next \in Nat /\ k.rt.next \in Nat
      /\ s.rt.next <= k.rt.next
  BY Ranges, TypeStepTags DEF TypesOK, StoreOK
<1>2. SamePrevs(s.rt, k.rt) /\ SameOpen(s.rt, k.rt) /\ SameTypeNames(s.rt, k.rt) /\ RegOK(k.rt)
  BY TypeStepTags
<1>3. \A t \in ObjId : t >= k.rt.next => k.text[t].consts = {}
  <2>1. \A t \in ObjId : t >= k.rt.next => t >= s.rt.next BY <1>1 DEF ObjId
  <2>2. QED BY <1>1, <2>1 DEF StoreOK
<1>4. StoreOK(k) BY <1>1, <1>2, <1>3 DEF StoreOK, NewTexts
<1>5. ConstsOK(k) BY <1>1 DEF ConstsOK, NewTexts
<1>6. Grows(s, k) BY <1>1 DEF Grows, NewTexts, TypeStep, HeapGrows
<1>7. Stays(s, k) BY <1>2 DEF Stays, NewTexts
<1>8. QED BY <1>4, <1>5, <1>6, <1>7 DEF Derives, TypesOK

LEMMA MakePointerStep ==
  ASSUME NEW s, TypesOK(s), NEW t, Typ(s, t), Room(s.rt, 1),
         \/ Prim(s, t)
         \/ s.rt.heap[t].kind = "function" /\ s.rt.heap[t].pointer_to = 0
  PROVE  LET k == MakePointer(s, t)
             p == PointerRef(s.rt, t)
         IN  /\ IsBogus(s, t) => k = Stop(s, "segv")
             /\ ~ IsBogus(s, t) =>
                  /\ Derives(s, k) /\ SameStacks(s, k) /\ k.rt.halt = s.rt.halt
                  /\ k.rt.next <= s.rt.next + 1 /\ k.constant_id = s.constant_id
                  /\ Typ(k, p) /\ (Prim(s, t) => Prim(k, p))
                  /\ Exact => k.text[p].term = PointerTo(s.text[t].term)
<1> DEFINE k == MakePointer(s, t)
           p == PointerRef(s.rt, t)
<1>0. StoreOK(s) /\ ConstsOK(s) /\ RegOK(s.rt) BY DEF TypesOK, StoreOK
<1>1. CASE IsBogus(s, t) BY <1>1 DEF MakePointer
<1>2. CASE ~ IsBogus(s, t)
  <2>1. t \in 1..s.rt.next - 1 /\ t \in ObjId /\ s.rt.heap[t].kind # "typedef" /\ t # 0
    BY <1>0, <1>2, Ranges DEF IsBogus, Typ
  <2>2. TextOK(s, t) BY <2>1 DEF TypesOK
  <2>3. Good(s, t) BY <2>1 DEF Typ
  <2>4. /\ MaxObjs \in Nat /\ s.rt.next \in Nat /\ s.rt.next \in 1..MaxObjs + 1
        /\ \A i \in 1..s.rt.next - 1 : i \in ObjId
    BY <1>0, Ranges
  <2>5. CASE s.rt.heap[t].pointer_to # 0
    <3>1. k = s /\ p = s.rt.heap[t].pointer_to BY <1>2, <2>5 DEF MakePointer, PointerRef
    <3>2. Prim(s, t) BY <2>5
    <3>3. p \in 1..s.rt.next - 1 /\ s.rt.heap[p].kind = "pointer"
      <4>1. CachesOK(s.rt, t) BY <1>0, <2>1 DEF RegOK
      <4>2. QED BY <1>0, <2>5, <3>1, <4>1, Ranges DEF CachesOK
    <3>4. PointerTextOK(s, t, p) BY <2>2, <2>5, <3>1 DEF TextOK
    <3>5. s.rt.heap[t].kind \notin {"function", "array"} BY <2>1, <3>2 DEF Prim
    <3>6. s.text[p].consts = {} /\ (Declared => s.text[p].tags = s.text[t].tags)
          /\ (Exact => s.text[p].term = PointerTo(s.text[t].term))
      BY <3>4, <3>5 DEF PointerTextOK
    <3>7. Good(s, p) BY <2>3, <3>6 DEF Good, Writable
    <3>8. p \in 0..s.rt.next - 1 /\ p # 0 BY <3>3
    <3>9. Prim(s, p) /\ Typ(s, p) BY <3>3, <3>6, <3>7, <3>8 DEF Prim, Typ
    <3>10. s.rt.next <= s.rt.next + 1 BY <2>4
    <3> HIDE DEF k, p
    <3>11. Derives(s, k) /\ SameStacks(s, k) BY <3>1, DerivesSelf, StaysSelf
    <3>12. QED BY <1>2, <3>1, <3>6, <3>9, <3>10, <3>11 DEF k, p
  <2>6. CASE s.rt.heap[t].pointer_to = 0
    <3> DEFINE r == Pointer(s.rt, t)
               w == PointerText(s, t)
    <3>1. k = [s EXCEPT !.rt = r, !.text[s.rt.next] = w] BY <1>2, <2>6 DEF MakePointer
    <3>2. /\ TypeStep(s.rt, r) /\ p \in 1..r.next - 1
          /\ r.heap[p].kind = "pointer" /\ r.heap[t].pointer_to = p
          /\ r.heap[t].kind = s.rt.heap[t].kind /\ r.heap[t].array0_of = s.rt.heap[t].array0_of
          /\ \A i \in ObjId \ {t, s.rt.next} : r.heap[i] = s.rt.heap[i]
          /\ p = s.rt.next /\ r.next = s.rt.next + 1 /\ r.heap[p].pointer_to = 0
          /\ r.heap[p].array0_of = 0
      BY <1>0, <2>1, <2>6, PointerStep
    <3>3. /\ DOMAIN w = TextFields /\ w.term = PointerTo(s.text[t].term)
          /\ w.consts = s.text[t].consts /\ w.tags = s.text[t].tags
      BY DEF PointerText, Text, TextFields
    <3>4. p \in ObjId BY <2>4, <3>2 DEF Room, ObjId
    <3> HIDE DEF r, w
    <3>5. /\ k.rt = r /\ DOMAIN k = Fields /\ DOMAIN k.text = ObjId /\ k.text[p] = w
          /\ \A i \in ObjId \ {p} : k.text[i] = s.text[i]
          /\ k.structs = s.structs /\ k.current_struct = s.current_struct /\ k.enums = s.enums
          /\ k.unnamed = s.unnamed /\ k.said = s.said /\ k.begun = s.begun /\ k.forms = s.forms
          /\ k.emit = s.emit /\ k.written = s.written /\ k.constant_id = s.constant_id
          /\ k.decls = s.decls /\ k.dtors = s.dtors
      BY <1>0, <3>1, <3>2, <3>4 DEF StoreOK, Fields
    <3> HIDE DEF k, p
    <3>6. \A i \in ObjId : DOMAIN k.text[i] = TextFields BY <1>0, <3>3, <3>5 DEF StoreOK
    <3>7. NewTexts(s, k) BY <3>5, <3>6 DEF NewTexts
    <3>8. \A i \in 1..s.rt.next - 1 : i \in ObjId /\ i # p BY <2>4, <3>2
    <3>9. s.rt.heap[t].kind # "function" => s.text[t].consts = {} BY <2>1 DEF Prim
    <3>10. k.text[t] = s.text[t] BY <2>1, <3>5, <3>8
    <3>11. ASSUME NEW i \in 1..k.rt.next - 1 PROVE TextOK(k, i)
      <4>1. CASE i = p
        <5>1. k.rt.heap[i].kind = "pointer" /\ k.rt.heap[i].pointer_to = 0
              /\ k.rt.heap[i].array0_of = 0
          BY <3>2, <3>5, <4>1
        <5>2. QED BY <5>1 DEF TextOK, BaseKinds, StructKinds
      <4>2. CASE i = t
        <5>1. PointerTextOK(k, t, p)
          BY <3>2, <3>3, <3>5, <3>9, <3>10 DEF PointerTextOK
        <5>2. k.rt.heap[t].array0_of # 0 => k.text[k.rt.heap[t].array0_of] = s.text[k.rt.heap[t].array0_of]
          <6>1. CachesOK(s.rt, t) BY <1>0, <2>1 DEF RegOK
          <6>2. k.rt.heap[t].array0_of = s.rt.heap[t].array0_of BY <3>2, <3>5
          <6>3. k.rt.heap[t].array0_of # 0 => k.rt.heap[t].array0_of \in 1..s.rt.next - 1
            BY <1>0, <6>1, <6>2, Ranges DEF CachesOK
          <6>4. QED BY <3>5, <3>8, <6>3
        <5>3. k.rt.heap[t].name = s.rt.heap[t].name BY <2>1, <3>2, <3>5 DEF TypeStep, HeapGrows
        <5>4. /\ k.rt.heap[t].kind = s.rt.heap[t].kind /\ k.rt.heap[t].pointer_to = p
              /\ k.rt.heap[t].array0_of = s.rt.heap[t].array0_of
              /\ k.structs[t] = s.structs[t]
          BY <3>2, <3>5
        <5>5. k.rt.heap[t].array0_of # 0 => OpenTextOK(k, t, k.rt.heap[t].array0_of)
          BY <2>2, <3>10, <5>2, <5>4 DEF TextOK, OpenTextOK
        <5>6. TextOK(k, t)
          BY <2>2, <3>10, <5>1, <5>3, <5>4, <5>5 DEF TextOK
        <5>7. QED BY <4>2, <5>6
      <4>3. CASE i # p /\ i # t
        <5>1. i \in 1..s.rt.next - 1 BY <2>4, <3>2, <3>5, <4>3
        <5>2. k.rt.heap[i] = s.rt.heap[i] /\ k.text[i] = s.text[i]
          BY <3>2, <3>5, <3>8, <4>3, <5>1
        <5>3. CachesOK(s.rt, i) /\ TextOK(s, i) BY <1>0, <3>8, <5>1 DEF RegOK, TypesOK
        <5>4. /\ s.rt.heap[i].pointer_to # 0 => s.rt.heap[i].pointer_to \in 1..s.rt.next - 1
              /\ s.rt.heap[i].array0_of # 0 => s.rt.heap[i].array0_of \in 1..s.rt.next - 1
          BY <1>0, <5>3, Ranges DEF CachesOK
        <5>5. /\ s.rt.heap[i].pointer_to # 0 =>
                   k.text[s.rt.heap[i].pointer_to] = s.text[s.rt.heap[i].pointer_to]
              /\ s.rt.heap[i].array0_of # 0 =>
                   k.text[s.rt.heap[i].array0_of] = s.text[s.rt.heap[i].array0_of]
          BY <3>5, <3>8, <5>4
        <5>6. QED BY <3>5, <5>2, <5>3, <5>5, ZenonT(60) DEF TextOK, PointerTextOK, OpenTextOK
      <4>4. QED BY <4>1, <4>2, <4>3
    <3>12. \A i \in 1..s.rt.next - 1 : k.text[i] = s.text[i] BY <3>5, <3>8
    <3>13. \A i \in ObjId : i >= k.rt.next => k.text[i] = s.text[i]
      BY <2>4, <3>2, <3>5
    <3>14. TypeStep(s.rt, k.rt) BY <3>2, <3>5
    <3>15. Derives(s, k) BY <3>7, <3>11, <3>12, <3>13, <3>14, NewTextsDerive
    <3>16. Good(k, p) BY <2>3, <3>3, <3>5 DEF Good, Writable
    <3>17. p \in 0..k.rt.next - 1 /\ p # 0 BY <2>4, <3>2, <3>5
    <3>18. Typ(k, p) BY <3>2, <3>5, <3>16, <3>17 DEF Typ
    <3>19. Prim(s, t) => Prim(k, p) BY <2>1, <3>2, <3>3, <3>5, <3>18 DEF Prim
    <3>20. SameStacks(s, k) BY <3>5 DEF SameStacks
    <3>21. k.rt.halt = s.rt.halt BY <3>14 DEF TypeStep
    <3>22. k.rt.next <= s.rt.next + 1 BY <2>4, <3>2, <3>5
    <3>23. QED BY <1>2, <3>3, <3>5, <3>15, <3>18, <3>19, <3>20, <3>21, <3>22 DEF k, p
  <2>7. QED BY <2>5, <2>6
<1>3. QED BY <1>1, <1>2

SetText(s, t, w) == [s EXCEPT !.text[t] = w]

(* The text of an open array that is cached is written anew.               *)
LEMMA CachedArrayText ==
  ASSUME NEW s, TypesOK(s), NEW t \in 1..s.rt.next - 1, s.rt.heap[t].array0_of # 0,
         NEW w, DOMAIN w = TextFields, w.tags = s.text[t].tags, Writable(s, w),
         Exact => w.term = s.text[s.rt.heap[t].array0_of].term
  PROVE  LET a == s.rt.heap[t].array0_of
             k == SetText(s, a, w)
         IN  /\ Derives(s, k) /\ SameStacks(s, k) /\ k.rt = s.rt /\ k.text[a] = w
             /\ k.constant_id = s.constant_id /\ a \in 1..s.rt.next - 1
             /\ s.rt.heap[a].kind = "array" /\ Good(k, a)
<1> DEFINE a == s.rt.heap[t].array0_of
           k == SetText(s, a, w)
<1>0. StoreOK(s) /\ RegOK(s.rt) BY DEF TypesOK, StoreOK
<1>1. t \in ObjId BY <1>0, Ranges
<1>2. a \in 1..s.rt.next - 1 /\ s.rt.heap[a].kind = "array" /\ a \in ObjId
  <2>1. CachesOK(s.rt, t) BY <1>0, <1>1 DEF RegOK
  <2>2. QED BY <1>0, <2>1, Ranges DEF CachesOK
<1>3. /\ k.rt = s.rt /\ DOMAIN k = Fields /\ DOMAIN k.text = ObjId /\ k.text[a] = w
      /\ \A i \in ObjId \ {a} : k.text[i] = s.text[i]
      /\ k.structs = s.structs /\ k.current_struct = s.current_struct /\ k.enums = s.enums
      /\ k.unnamed = s.unnamed /\ k.said = s.said /\ k.begun = s.begun /\ k.forms = s.forms
      /\ k.emit = s.emit /\ k.written = s.written /\ k.constant_id = s.constant_id
      /\ k.decls = s.decls /\ k.dtors = s.dtors
  BY <1>0, <1>2 DEF StoreOK, Fields, SetText
<1> HIDE DEF k, a
<1>4. \A i \in ObjId : DOMAIN k.text[i] = TextFields BY <1>0, <1>3 DEF StoreOK
<1>5. NewTexts(s, k) BY <1>3, <1>4 DEF NewTexts
<1>6. TypeStep(s.rt, k.rt)
  <2>1. s.rt.next >= s.rt.next BY <1>0, Ranges
  <2>2. QED BY <1>0, <1>3, <2>1 DEF TypeStep, SameMods, HeapGrows
<1>7. Good(k, a) BY <1>3 DEF Good, Writable
<1>8. \A i \in ObjId : i >= k.rt.next => k.text[i] = s.text[i]
  <2>1. s.rt.next \in Nat BY <1>0, Ranges
  <2>2. ~ (a >= s.rt.next) BY <1>2, <2>1
  <2>3. QED BY <1>3, <2>2
<1>9. \A i \in 1..s.rt.next - 1 : i \in ObjId BY <1>0, Ranges
<1>10. \A i \in 1..s.rt.next - 1 :
          \/ k.text[i] = s.text[i]
          \/ /\ Good(k, i) /\ s.rt.heap[i].kind = "array"
             /\ Exact => k.text[i].term = s.text[i].term
  BY <1>2, <1>3, <1>7, <1>9 DEF a
<1>11. Declared => w.tags = s.text[a].tags
  <2>1. TextOK(s, t) BY DEF TypesOK
  <2>2. OpenTextOK(s, t, a) BY <2>1 DEF TextOK, a
  <2>3. QED BY <2>2 DEF OpenTextOK
<1>12. /\ Declared => \A i \in ObjId : k.text[i].tags = s.text[i].tags
       /\ Exact => \A i \in ObjId : k.text[i].term = s.text[i].term
  <2>1. Exact => w.term = s.text[a].term BY DEF a
  <2>2. QED BY <1>3, <1>11, <2>1
<1>13. ASSUME NEW i \in 1..k.rt.next - 1 PROVE TextOK(k, i)
  <2>1. i \in 1..s.rt.next - 1 /\ i \in ObjId BY <1>3, <1>9
  <2>2. TextOK(s, i) /\ CachesOK(s.rt, i) BY <1>0, <2>1 DEF TypesOK, RegOK
  <2> DEFINE p == s.rt.heap[i].pointer_to
             b == s.rt.heap[i].array0_of
  <2>3. (p # 0 => p \in ObjId /\ p # a) /\ (b # 0 => b \in ObjId)
    BY <1>0, <1>2, <2>2, Ranges DEF CachesOK
  <2>4. p # 0 => k.text[p] = s.text[p] BY <1>3, <2>3
  <2>5. i # a => k.text[i] = s.text[i] BY <1>3, <2>1
  <2>6. p # 0 => PointerTextOK(s, i, p) BY <2>2 DEF TextOK
  <2>7. p # 0 => PointerTextOK(k, i, p) BY <1>3, <1>12, <2>1, <2>3, <2>4, <2>6 DEF PointerTextOK
  <2>8. b # 0 => OpenTextOK(k, i, b)
    <3>1. b # 0 => OpenTextOK(s, i, b) BY <2>2 DEF TextOK
    <3> HIDE DEF b
    <3>2. QED BY <1>12, <2>1, <2>3, <3>1 DEF OpenTextOK
  <2> HIDE DEF p, b
  <2>9. CASE i = a
    <3>1. s.rt.heap[i].kind = "array" BY <1>2, <2>9
    <3>2. QED BY <1>3, <2>7, <2>8, <3>1 DEF TextOK, BaseKinds, StructKinds, p, b
  <2>10. CASE i # a
    <3>1. k.text[i] = s.text[i] BY <2>5, <2>10
    <3>2. QED BY <1>3, <2>2, <2>7, <2>8, <3>1 DEF TextOK, p, b
  <2>11. QED BY <2>9, <2>10
<1>14. Derives(s, k) BY <1>5, <1>6, <1>8, <1>10, <1>13, NewTextsDerive
<1>15. QED BY <1>2, <1>3, <1>7, <1>14 DEF SameStacks, k, a

(* A new array, and the pointer to its element if there was none.          *)
WithArray(s, t, v, w) ==
  LET a == s.rt.next
      u == IF s.rt.heap[t].pointer_to # 0 THEN s ELSE SetText(s, a + 1, PointerText(s, t))
  IN  [u EXCEPT !.rt = Array(@, t, v), !.text[a] = w]

LEMMA NewArrayText ==
  ASSUME NEW s, TypesOK(s), NEW t \in 1..s.rt.next - 1, Room(s.rt, 2), NEW v,
         ~ ArrayCached(s.rt, t, v),
         \/ s.text[t].consts = {} /\ s.rt.heap[t].kind # "function"
         \/ s.rt.heap[t].kind = "array",
         NEW w, DOMAIN w = TextFields, w.tags = s.text[t].tags, Writable(s, w),
         Exact /\ IsOpenLen(v) =>
           \A e \in Exprs : w.term = ArrayOf(s.text[t].term, Expr(e))
  PROVE  LET a == s.rt.next
             k == WithArray(s, t, v, w)
         IN  /\ Derives(s, k) /\ SameStacks(s, k) /\ k.rt.halt = s.rt.halt /\ k.text[a] = w
             /\ k.constant_id = s.constant_id /\ k.rt.next <= s.rt.next + 2
             /\ a \in 1..k.rt.next - 1 /\ k.rt.heap[a].kind = "array" /\ Good(k, a)
<1> DEFINE a == s.rt.next
           r == Array(s.rt, t, v)
           p == s.rt.heap[t].pointer_to
           z == PointerText(s, t)
           u == IF p # 0 THEN s ELSE SetText(s, a + 1, z)
           k == WithArray(s, t, v, w)
<1>0. /\ StoreOK(s) /\ RegOK(s.rt) /\ s.rt.next \in Nat /\ MaxObjs \in Nat
      /\ s.rt.next \in 1..MaxObjs + 1
  BY Ranges DEF TypesOK, StoreOK
<1>1. t \in ObjId /\ \A i \in 1..s.rt.next - 1 : i \in ObjId BY <1>0, Ranges
<1>2. TextOK(s, t) /\ CachesOK(s.rt, t) BY <1>0, <1>1 DEF TypesOK, RegOK
<1>3. /\ TypeStep(s.rt, r) /\ a \in 1..r.next - 1 /\ r.next <= s.rt.next + 2
      /\ r.heap[a].kind = "array" /\ r.heap[a].array0_of = 0 /\ a \in ObjId
      /\ r.heap[a].pointer_to = r.heap[t].pointer_to
      /\ r.heap[t].kind = s.rt.heap[t].kind
      /\ r.heap[t].array0_of \in {s.rt.heap[t].array0_of, a}
      /\ ~ IsOpenLen(v) => r.heap[t].array0_of = s.rt.heap[t].array0_of
      /\ p # 0 => /\ r.next = a + 1 /\ r.heap[t].pointer_to = p
                  /\ \A i \in ObjId \ {t, a} : r.heap[i] = s.rt.heap[i]
      /\ p = 0 => /\ r.next = a + 2 /\ r.heap[t].pointer_to = a + 1
                  /\ a + 1 \in ObjId /\ r.heap[a + 1].kind = "pointer"
                  /\ r.heap[a + 1].pointer_to = 0 /\ r.heap[a + 1].array0_of = 0
                  /\ \A i \in ObjId \ {t, a, a + 1} : r.heap[i] = s.rt.heap[i]
  <2>1. ArrayRef(s.rt, t, v) = a BY DEF ArrayRef
  <2>2. QED BY <1>0, <2>1, ArrayStep
<1>4. /\ DOMAIN z = TextFields /\ z.term = PointerTo(s.text[t].term)
      /\ z.consts = s.text[t].consts /\ z.tags = s.text[t].tags
  BY DEF PointerText, Text, TextFields
<1>5. k = [u EXCEPT !.rt = r, !.text[a] = w]
  <2>1. u.rt = s.rt BY <1>0 DEF SetText, StoreOK, Fields
  <2>2. QED BY <2>1 DEF WithArray
<1> HIDE DEF r, z
<1>6. /\ DOMAIN u = Fields /\ DOMAIN u.text = ObjId
      /\ \A i \in ObjId : u.text[i] = IF i = a + 1 /\ p = 0 THEN z ELSE s.text[i]
      /\ u.structs = s.structs /\ u.current_struct = s.current_struct /\ u.enums = s.enums
      /\ u.unnamed = s.unnamed /\ u.said = s.said /\ u.begun = s.begun /\ u.forms = s.forms
      /\ u.emit = s.emit /\ u.written = s.written /\ u.constant_id = s.constant_id
      /\ u.decls = s.decls /\ u.dtors = s.dtors
  BY <1>0, <1>3 DEF StoreOK, Fields, SetText
<1> HIDE DEF u
<1>7. /\ k.rt = r /\ DOMAIN k = Fields /\ DOMAIN k.text = ObjId /\ k.text[a] = w
      /\ \A i \in ObjId \ {a} : k.text[i] = u.text[i]
      /\ k.structs = s.structs /\ k.current_struct = s.current_struct /\ k.enums = s.enums
      /\ k.unnamed = s.unnamed /\ k.said = s.said /\ k.begun = s.begun /\ k.forms = s.forms
      /\ k.emit = s.emit /\ k.written = s.written /\ k.constant_id = s.constant_id
      /\ k.decls = s.decls /\ k.dtors = s.dtors
  BY <1>3, <1>5, <1>6 DEF Fields
<1> HIDE DEF k
<1>8. \A i \in ObjId \ {a} : k.text[i] = IF i = a + 1 /\ p = 0 THEN z ELSE s.text[i]
  BY <1>6, <1>7
<1>9. \A i \in ObjId : DOMAIN k.text[i] = TextFields BY <1>0, <1>4, <1>7, <1>8 DEF StoreOK
<1>10. NewTexts(s, k) BY <1>7, <1>9 DEF NewTexts
<1>11. \A i \in 1..s.rt.next - 1 : i \in ObjId /\ i # a /\ i # a + 1 /\ k.text[i] = s.text[i]
  BY <1>0, <1>1, <1>8
<1>12. \A i \in ObjId : i >= k.rt.next => k.text[i] = s.text[i]
  <2> SUFFICES ASSUME NEW i \in ObjId, i >= k.rt.next PROVE k.text[i] = s.text[i] OBVIOUS
  <2>1. k.rt.next = IF p = 0 THEN a + 2 ELSE a + 1 BY <1>3, <1>7
  <2>2. a \in Nat /\ i \in Nat /\ i >= k.rt.next BY <1>0 DEF ObjId
  <2> HIDE DEF a, p
  <2>3. i # a /\ ~ (i = a + 1 /\ p = 0) BY <2>1, <2>2
  <2>4. QED BY <1>8, <2>3
<1>13. Good(k, a) BY <1>7 DEF Good, Writable
<1>14. k.text[t] = s.text[t] /\ (p # 0 => p \in 1..s.rt.next - 1)
  BY <1>0, <1>2, <1>11, Ranges DEF CachesOK
<1> DEFINE q == r.heap[t].pointer_to

<1>15. PointerTextOK(k, t, q) /\ q # a
  <2>1. CASE p = 0
    <3>1. q = a + 1 /\ q # a /\ q \in ObjId BY <1>0, <1>3, <2>1
    <3>2. k.text[q] = z BY <1>8, <2>1, <3>1
    <3>3. s.rt.heap[t].kind # "array" BY <1>2, <2>1 DEF CachesOK
    <3>4. s.text[t].consts = {} BY <3>3
    <3>5. k.rt.heap[t].kind = s.rt.heap[t].kind BY <1>3, <1>7
    <3>6. k.text[t] = s.text[t] BY <1>14
    <3> HIDE DEF q
    <3>7. QED BY <1>4, <3>1, <3>2, <3>4, <3>5, <3>6 DEF PointerTextOK
  <2>2. CASE p # 0
    <3>1. q = p /\ q # a /\ q \in 1..s.rt.next - 1 BY <1>0, <1>3, <1>14, <2>2
    <3>2. k.text[q] = s.text[q] /\ k.text[t] = s.text[t] BY <1>11, <3>1
    <3>3. PointerTextOK(s, t, q) BY <1>2, <2>2, <3>1 DEF TextOK
    <3>4. k.rt.heap[t].kind = s.rt.heap[t].kind BY <1>3, <1>7
    <3> HIDE DEF q, p
    <3>5. QED BY <3>1, <3>2, <3>3, <3>4 DEF PointerTextOK
  <2>3. QED BY <2>1, <2>2
<1>16. q # 0 BY <1>0, <1>3, <1>14
<1>17. PointerTextOK(k, a, q)
  <2>1. k.rt.heap[t].kind # "function" BY <1>3, <1>7
  <2>2. k.text[q].consts = {} BY <1>15, <2>1 DEF PointerTextOK
  <2>3. k.rt.heap[a].kind = "array" BY <1>3, <1>7
  <2>4. Declared => k.text[q].tags = k.text[a].tags BY <1>7, <1>14, <1>15 DEF PointerTextOK
  <2> HIDE DEF q, a
  <2>5. QED BY <2>2, <2>3, <2>4 DEF PointerTextOK
<1>18. ASSUME NEW i \in 1..k.rt.next - 1 PROVE TextOK(k, i)
  <2>1. CASE i = a
    <3>1. /\ k.rt.heap[i].kind = "array" /\ k.rt.heap[i].array0_of = 0
          /\ k.rt.heap[i].pointer_to = q
      BY <1>3, <1>7, <2>1
    <3> HIDE DEF q
    <3>2. QED BY <1>17, <2>1, <3>1 DEF TextOK, BaseKinds, StructKinds
  <2>2. CASE i = t
    <3> DEFINE b == k.rt.heap[t].array0_of
    <3>1. /\ k.rt.heap[t].kind = s.rt.heap[t].kind /\ k.rt.heap[t].pointer_to = q
          /\ b \in {s.rt.heap[t].array0_of, a} /\ k.structs[t] = s.structs[t]
          /\ ~ IsOpenLen(v) => b = s.rt.heap[t].array0_of
      BY <1>3, <1>7
    <3>2. k.rt.heap[t].name = s.rt.heap[t].name BY <1>3, <1>7 DEF TypeStep, HeapGrows
    <3>3. b # 0 => OpenTextOK(k, t, b)
      <4>1. CASE b = a /\ IsOpenLen(v) BY <1>7, <1>14, <4>1 DEF OpenTextOK
      <4>2. CASE b = s.rt.heap[t].array0_of
        <5>1. b # 0 => b \in 1..s.rt.next - 1 BY <1>0, <1>2, <4>2, Ranges DEF CachesOK
        <5>2. b # 0 => k.text[b] = s.text[b] BY <1>11, <5>1
        <5> HIDE DEF b
        <5>3. b # 0 => OpenTextOK(s, t, b) BY <1>2, <4>2 DEF TextOK
        <5>4. QED BY <1>14, <5>2, <5>3 DEF OpenTextOK
      <4>3. QED BY <3>1, <4>1, <4>2
    <3>4. k.text[t] = s.text[t] BY <1>14
    <3> HIDE DEF b, q
    <3>5. TextOK(k, t) BY <1>2, <1>15, <3>1, <3>2, <3>3, <3>4 DEF TextOK, b
    <3>6. QED BY <2>2, <3>5
  <2>3. CASE i = a + 1 /\ p = 0
    <3>1. /\ k.rt.heap[i].kind = "pointer" /\ k.rt.heap[i].array0_of = 0
          /\ k.rt.heap[i].pointer_to = 0
      BY <1>3, <1>7, <2>3
    <3>2. QED BY <3>1 DEF TextOK, BaseKinds, StructKinds
  <2>4. CASE i # a /\ i # t /\ ~ (i = a + 1 /\ p = 0)
    <3>1. i \in 1..s.rt.next - 1
      <4>1. k.rt.next = IF p = 0 THEN a + 2 ELSE a + 1 BY <1>3, <1>7
      <4>2. QED BY <1>0, <2>4, <4>1
    <3>2. k.rt.heap[i] = s.rt.heap[i] /\ k.text[i] = s.text[i] /\ i \in ObjId
      BY <1>3, <1>7, <1>11, <2>4, <3>1
    <3>3. CachesOK(s.rt, i) /\ TextOK(s, i) BY <1>0, <3>1, <3>2 DEF RegOK, TypesOK
    <3>4. /\ s.rt.heap[i].pointer_to # 0 => s.rt.heap[i].pointer_to \in 1..s.rt.next - 1
          /\ s.rt.heap[i].array0_of # 0 => s.rt.heap[i].array0_of \in 1..s.rt.next - 1
      BY <1>0, <3>3, Ranges DEF CachesOK
    <3>5. /\ s.rt.heap[i].pointer_to # 0 =>
               k.text[s.rt.heap[i].pointer_to] = s.text[s.rt.heap[i].pointer_to]
          /\ s.rt.heap[i].array0_of # 0 =>
               k.text[s.rt.heap[i].array0_of] = s.text[s.rt.heap[i].array0_of]
      BY <1>11, <3>4
    <3>6. k.structs = s.structs BY <1>7
    <3>7. s.rt.heap[i].pointer_to # 0 => PointerTextOK(k, i, s.rt.heap[i].pointer_to)
      <4>1. s.rt.heap[i].pointer_to # 0 => PointerTextOK(s, i, s.rt.heap[i].pointer_to)
        BY <3>3 DEF TextOK
      <4>2. QED BY <3>2, <3>5, <4>1 DEF PointerTextOK
    <3>8. s.rt.heap[i].array0_of # 0 => OpenTextOK(k, i, s.rt.heap[i].array0_of)
      <4>1. s.rt.heap[i].array0_of # 0 => OpenTextOK(s, i, s.rt.heap[i].array0_of)
        BY <3>3 DEF TextOK
      <4>2. QED BY <3>2, <3>5, <4>1 DEF OpenTextOK
    <3> HIDE DEF a, p
    <3>9. QED BY <3>2, <3>3, <3>5, <3>6, <3>7, <3>8 DEF TextOK
  <2>5. QED BY <2>1, <2>2, <2>3, <2>4
<1>19. TypeStep(s.rt, k.rt) BY <1>3, <1>7
<1>20. Derives(s, k) BY <1>10, <1>11, <1>12, <1>18, <1>19, NewTextsDerive
<1>21. k.rt.halt = s.rt.halt BY <1>19 DEF TypeStep
<1>22. a \in 1..k.rt.next - 1 /\ k.rt.next <= s.rt.next + 2 /\ k.rt.heap[a].kind = "array"
  BY <1>3, <1>7
<1>23. QED BY <1>7, <1>13, <1>20, <1>21, <1>22 DEF SameStacks, k, a

(* gghc_array, of the type of a declarator or of another dimension.        *)
LEMMA MakeArrayStep ==
  ASSUME NEW s, TypesOK(s), NEW t, Typ(s, t), Room(s.rt, 2), NEW len \in Lengths,
         Prim(s, t) \/ (t # 0 /\ s.rt.heap[t].kind = "array")
  PROVE  LET k == MakeArray(s, t, len)
             a == MadeArray(s, t, len)
         IN  /\ IsBogus(s, t) => k = Stop(s, "segv")
             /\ ~ IsBogus(s, t) =>
                  /\ Derives(s, k) /\ SameStacks(s, k) /\ k.rt.halt = s.rt.halt
                  /\ k.rt.next <= s.rt.next + 2 /\ k.constant_id <= s.constant_id + 1
                  /\ Typ(k, a) /\ a # 0 /\ k.rt.heap[a].kind = "array"
                  /\ k.text[a].term = ArrayOf(s.text[t].term, len)
<1> DEFINE k == MakeArray(s, t, len)
           l == AfterLength(s, len)
           v == LengthValue(len)
           a == MadeArray(s, t, len)
           w == Text(ArrayOf(l.text[t].term, len), l.text[t].consts \cup LengthUses(s, len),
                     l.text[t].tags)
<1>1. CASE IsBogus(s, t) BY <1>1 DEF MakeArray
<1>2. CASE ~ IsBogus(s, t)
  <2>1. /\ Derives(s, l) /\ SameStacks(s, l) /\ l.rt = s.rt /\ l.text = s.text
        /\ l.constant_id <= s.constant_id + 1
        /\ s.emit # 0 => LengthUses(s, len) \subseteq l.written
    BY AfterLengthStep
  <2>2. TypesOK(l) /\ Grows(s, l) /\ Typ(l, t) BY <2>1, TypGrows DEF Derives
  <2>3. t # 0 /\ t \in 1..s.rt.next - 1
    <3>1. RegOK(s.rt) BY DEF TypesOK, StoreOK
    <3>2. QED BY <1>2, <3>1, Ranges DEF IsBogus, Typ
  <2>4. /\ DOMAIN w = TextFields /\ w.term = ArrayOf(s.text[t].term, len)
        /\ w.consts = s.text[t].consts \cup LengthUses(s, len) /\ w.tags = s.text[t].tags
    BY <2>1 DEF Text, TextFields
  <2>5. Writable(l, w)
    <3>1. Good(l, t) /\ l.emit = s.emit BY <2>2, <2>3 DEF Typ, Grows
    <3> HIDE DEF w, l
    <3>2. QED BY <2>1, <2>4, <3>1 DEF Good, Writable
  <2>6. a = ArrayRef(l.rt, t, v) BY <2>1 DEF MadeArray
  <2>7. DOMAIN l = Fields BY <2>2 DEF TypesOK, StoreOK
  <2>7a. IsOpenLen(v) => \E f \in Exprs : len = Expr(f)
    <3>1. SUFFICES ASSUME IsOpenLen(v) PROVE ~ IsLiteral(len)
      BY DEF Lengths, IsLiteral, Literal
    <3>2. SUFFICES ASSUME IsLiteral(len) PROVE FALSE OBVIOUS
    <3>3. PICK n \in Literals : len = Literal(n)
      BY <3>2, CompilerAssumption DEF Lengths, IsLiteral, Expr
    <3>4. v = n /\ n \in Nat /\ n # 0
      BY <3>2, <3>3, CompilerAssumption DEF LengthValue, Literal
    <3> HIDE DEF v
    <3>5. QED BY <3>1, <3>4 DEF IsOpenLen, UNSPEC
  <2>8. /\ Derives(l, k) /\ SameStacks(l, k) /\ k.rt.halt = l.rt.halt /\ k.text[a] = w
        /\ k.constant_id = l.constant_id /\ k.rt.next <= l.rt.next + 2
        /\ a \in 1..k.rt.next - 1 /\ k.rt.heap[a].kind = "array" /\ Good(k, a)
    <3>1. CASE ArrayCached(l.rt, t, v)
      <4>1. a = l.rt.heap[t].array0_of /\ l.rt.heap[t].array0_of # 0
        BY <2>6, <3>1 DEF ArrayRef, ArrayCached
      <4>2. Exact => w.term = l.text[a].term
        <5>1. IsOpenLen(v) BY <3>1 DEF ArrayCached
        <5>2. OpenTextOK(l, t, a)
          <6>1. TextOK(l, t) BY <2>1, <2>2, <2>3 DEF TypesOK
          <6> HIDE DEF l, a, w
          <6>2. QED BY <4>1, <6>1 DEF TextOK
        <5> HIDE DEF l, w, a, v
        <5>3. PICK f \in Exprs : len = Expr(f) BY <2>7a, <5>1
        <5>4. QED BY <2>1, <2>4, <5>2, <5>3 DEF OpenTextOK
      <4>3. k = SetText(l, a, w)
        <5>1. Array(l.rt, t, v) = l.rt BY <3>1 DEF Array
        <5>2. k = [l EXCEPT !.rt = Array(@, t, v), !.text[a] = w]
          BY <1>2, <2>1, <3>1 DEF MakeArray, MadeArray
        <5> HIDE DEF l, w, a, v, k
        <5>3. k = [l EXCEPT !.rt = l.rt, !.text[a] = w] BY <5>1, <5>2
        <5>4. QED BY <2>7, <5>3 DEF SetText, Fields
      <4> HIDE DEF l, w, a, v, k
      <4>4. t \in 1..l.rt.next - 1 BY <2>1, <2>3
      <4>5. w.tags = l.text[t].tags BY <2>1, <2>4
      <4>6. /\ Derives(l, k) /\ SameStacks(l, k) /\ k.rt = l.rt /\ k.text[a] = w
            /\ k.constant_id = l.constant_id /\ a \in 1..l.rt.next - 1
            /\ l.rt.heap[a].kind = "array" /\ Good(k, a)
        <5>1. TypesOK(l) /\ l.rt.heap[t].array0_of # 0 /\ DOMAIN w = TextFields
          BY <2>2, <2>4, <4>1
        <5>2. Exact => w.term = l.text[l.rt.heap[t].array0_of].term BY <4>1, <4>2
        <5>3. LET b == l.rt.heap[t].array0_of
                  m == SetText(l, b, w)
              IN  /\ Derives(l, m) /\ SameStacks(l, m) /\ m.rt = l.rt /\ m.text[b] = w
                  /\ m.constant_id = l.constant_id /\ b \in 1..l.rt.next - 1
                  /\ l.rt.heap[b].kind = "array" /\ Good(m, b)
          BY <2>5, <4>4, <4>5, <5>1, <5>2, CachedArrayText
        <5>4. QED BY <4>1, <4>3, <5>3
      <4>7. l.rt.next <= l.rt.next + 2
        <5>1. RegOK(l.rt) BY <2>2 DEF TypesOK, StoreOK
        <5>2. QED BY <5>1, Ranges
      <4>8. QED BY <4>6, <4>7
    <3>2. CASE ~ ArrayCached(l.rt, t, v)
      <4>1. a = l.rt.next BY <2>6, <3>2 DEF ArrayRef
      <4>2. k = WithArray(l, t, v, w)
        BY <1>2, <2>1, <3>2, <4>1 DEF MakeArray, MadeArray, WithArray, SetText
      <4>3. \/ l.text[t].consts = {} /\ l.rt.heap[t].kind # "function"
            \/ l.rt.heap[t].kind = "array"
        BY <2>1, <2>3 DEF Prim
      <4> HIDE DEF l, w, a, v, k
      <4>4. t \in 1..l.rt.next - 1 /\ Room(l.rt, 2) BY <2>1, <2>3
      <4>5. w.tags = l.text[t].tags BY <2>1, <2>4
      <4>6. Exact /\ IsOpenLen(v) =>
              \A e \in Exprs : w.term = ArrayOf(l.text[t].term, Expr(e))
        BY <2>1, <2>4, <2>7a DEF Exact
      <4>7. QED
        BY <2>2, <2>4, <2>5, <3>2, <4>1, <4>2, <4>3, <4>4, <4>5, <4>6, NewArrayText
    <3>3. QED BY <3>1, <3>2
  <2> HIDE DEF l, w, a, k
  <2>9. Derives(s, k) BY <2>1, <2>8, DerivesTwice
  <2>10. SameStacks(s, k) BY <2>1, <2>8 DEF SameStacks
  <2>11. a # 0 /\ a \in 0..k.rt.next - 1
    <3>1. RegOK(k.rt) BY <2>8 DEF Derives, TypesOK, StoreOK
    <3>2. k.rt.next \in Nat BY <3>1, Ranges
    <3>3. QED BY <2>8, <3>2
  <2>12. Typ(k, a) BY <2>8, <2>11 DEF Typ
  <2>13. QED BY <1>2, <2>1, <2>4, <2>8, <2>9, <2>10, <2>11, <2>12 DEF k, a
<1>3. QED BY <1>1, <1>2

(* A new type that is no cached one: a bit-field or a function.            *)
WithType(s, x, w) == [s EXCEPT !.rt = Alloc(@, x), !.text[s.rt.next] = w]

LEMMA NewTypeText ==
  ASSUME NEW s, TypesOK(s), Room(s.rt, 1), NEW x, DOMAIN x = ObjFields,
         x.kind \in {"bitfield", "function"}, x.pointer_to = 0, x.array0_of = 0, x.prev = 0,
         NEW w, DOMAIN w = TextFields, Writable(s, w)
  PROVE  LET a == s.rt.next
             k == WithType(s, x, w)
         IN  /\ Derives(s, k) /\ SameStacks(s, k) /\ k.rt.halt = s.rt.halt /\ k.text[a] = w
             /\ k.constant_id = s.constant_id /\ k.rt.next = s.rt.next + 1
             /\ a \in 1..k.rt.next - 1 /\ k.rt.heap[a] = x /\ Good(k, a)
             /\ Typ(k, a) /\ a # 0
<1> DEFINE a == s.rt.next
           r == Alloc(s.rt, x)
           k == WithType(s, x, w)
<1>0. /\ StoreOK(s) /\ RegOK(s.rt) /\ s.rt.next \in Nat /\ MaxObjs \in Nat
      /\ s.rt.next \in 1..MaxObjs + 1
  BY Ranges DEF TypesOK, StoreOK
<1>1. /\ TypeStep(s.rt, r) /\ a \in ObjId /\ r.next = a + 1 /\ r.heap[a] = x
      /\ \A i \in ObjId \ {a} : r.heap[i] = s.rt.heap[i]
  <2>1. x.kind \notin {"array", "placeholder"} OBVIOUS
  <2>2. QED BY <1>0, <2>1, AllocStep
<1>2. k = [s EXCEPT !.rt = r, !.text[a] = w] BY <1>0 DEF WithType
<1> HIDE DEF r
<1>3. /\ k.rt = r /\ DOMAIN k = Fields /\ DOMAIN k.text = ObjId /\ k.text[a] = w
      /\ \A i \in ObjId \ {a} : k.text[i] = s.text[i]
      /\ k.structs = s.structs /\ k.current_struct = s.current_struct /\ k.enums = s.enums
      /\ k.unnamed = s.unnamed /\ k.said = s.said /\ k.begun = s.begun /\ k.forms = s.forms
      /\ k.emit = s.emit /\ k.written = s.written /\ k.constant_id = s.constant_id
      /\ k.decls = s.decls /\ k.dtors = s.dtors
  BY <1>0, <1>1, <1>2 DEF StoreOK, Fields
<1> HIDE DEF k
<1>4. \A i \in ObjId : DOMAIN k.text[i] = TextFields BY <1>0, <1>3 DEF StoreOK
<1>5. NewTexts(s, k) BY <1>3, <1>4 DEF NewTexts
<1>6. \A i \in 1..s.rt.next - 1 : i \in ObjId /\ i # a BY <1>0, Ranges
<1>7. \A i \in 1..s.rt.next - 1 : k.text[i] = s.text[i] BY <1>3, <1>6
<1>8. \A i \in ObjId : i >= k.rt.next => i # a BY <1>0, <1>1, <1>3
<1>9. \A i \in ObjId : i >= k.rt.next => k.text[i] = s.text[i] BY <1>3, <1>8
<1>10. ASSUME NEW i \in 1..k.rt.next - 1 PROVE TextOK(k, i)
  <2>1. CASE i = a
    <3>1. k.rt.heap[i] = x BY <1>1, <1>3, <2>1
    <3>2. QED BY <3>1 DEF TextOK, BaseKinds, StructKinds
  <2>2. CASE i # a
    <3>1. i \in 1..s.rt.next - 1 BY <1>0, <1>1, <1>3, <2>2
    <3>2. k.rt.heap[i] = s.rt.heap[i] /\ k.text[i] = s.text[i] /\ i \in ObjId
      BY <1>1, <1>3, <1>6, <1>7, <2>2, <3>1
    <3>3. CachesOK(s.rt, i) /\ TextOK(s, i) BY <1>0, <3>1, <3>2 DEF RegOK, TypesOK
    <3>4. /\ s.rt.heap[i].pointer_to # 0 => s.rt.heap[i].pointer_to \in 1..s.rt.next - 1
          /\ s.rt.heap[i].array0_of # 0 => s.rt.heap[i].array0_of \in 1..s.rt.next - 1
      BY <1>0, <3>3, Ranges DEF CachesOK
    <3>5. /\ s.rt.heap[i].pointer_to # 0 =>
               k.text[s.rt.heap[i].pointer_to] = s.text[s.rt.heap[i].pointer_to]
          /\ s.rt.heap[i].array0_of # 0 =>
               k.text[s.rt.heap[i].array0_of] = s.text[s.rt.heap[i].array0_of]
      BY <1>7, <3>4
    <3>6. k.structs = s.structs BY <1>3
    <3>7. s.rt.heap[i].pointer_to # 0 => PointerTextOK(k, i, s.rt.heap[i].pointer_to)
      <4>1. s.rt.heap[i].pointer_to # 0 => PointerTextOK(s, i, s.rt.heap[i].pointer_to)
        BY <3>3 DEF TextOK
      <4>2. QED BY <3>2, <3>5, <4>1 DEF PointerTextOK
    <3>8. s.rt.heap[i].array0_of # 0 => OpenTextOK(k, i, s.rt.heap[i].array0_of)
      <4>1. s.rt.heap[i].array0_of # 0 => OpenTextOK(s, i, s.rt.heap[i].array0_of)
        BY <3>3 DEF TextOK
      <4>2. QED BY <3>2, <3>5, <4>1 DEF OpenTextOK
    <3>9. QED BY <3>2, <3>3, <3>5, <3>6, <3>7, <3>8 DEF TextOK
  <2>3. QED BY <2>1, <2>2
<1>11. TypeStep(s.rt, k.rt) BY <1>1, <1>3
<1>12. Derives(s, k) BY <1>5, <1>7, <1>9, <1>10, <1>11, NewTextsDerive
<1>13. Good(k, a) BY <1>3 DEF Good, Writable
<1>14. k.rt.halt = s.rt.halt BY <1>11 DEF TypeStep
<1>15. k.rt.next = s.rt.next + 1 /\ a \in 1..k.rt.next - 1 /\ k.rt.heap[a] = x /\ a # 0
       /\ a \in 0..k.rt.next - 1
  BY <1>0, <1>1, <1>3
<1>16. Typ(k, a) BY <1>13, <1>15 DEF Typ
<1>17. QED BY <1>3, <1>12, <1>13, <1>14, <1>15, <1>16 DEF SameStacks, k, a

LEMMA MakeBitfieldStep ==
  ASSUME NEW s, TypesOK(s), NEW t, Typ(s, t), t # 0, Room(s.rt, 1), NEW len
  PROVE  LET k == MakeBitfield(s, t, len)
             a == s.rt.next
         IN  /\ Derives(s, k) /\ SameStacks(s, k) /\ k.rt.halt = s.rt.halt
             /\ k.rt.next = s.rt.next + 1 /\ k.constant_id <= s.constant_id + 1
             /\ Typ(k, a) /\ a # 0
             /\ k.text[a].term = BitsOf(s.text[t].term, len)
<1> DEFINE k == MakeBitfield(s, t, len)
           l == AfterLength(s, len)
           a == s.rt.next
           x == NewObject("bitfield", NoName, t, 0, <<>>)
           w == Text(BitsOf(l.text[t].term, len), l.text[t].consts \cup LengthUses(s, len),
                     l.text[t].tags)
<1>1. /\ Derives(s, l) /\ SameStacks(s, l) /\ l.rt = s.rt /\ l.text = s.text
      /\ l.constant_id <= s.constant_id + 1
      /\ s.emit # 0 => LengthUses(s, len) \subseteq l.written
  BY AfterLengthStep
<1>2. TypesOK(l) /\ Grows(s, l) /\ Typ(l, t) BY <1>1, TypGrows DEF Derives
<1>3. /\ DOMAIN w = TextFields /\ w.term = BitsOf(s.text[t].term, len)
      /\ w.consts = s.text[t].consts \cup LengthUses(s, len) /\ w.tags = s.text[t].tags
  BY <1>1 DEF Text, TextFields
<1>4. /\ DOMAIN x = ObjFields /\ x.kind \in {"bitfield", "function"} /\ x.pointer_to = 0
      /\ x.array0_of = 0 /\ x.prev = 0
  BY DEF NewObject, ObjFields
<1>5. k = WithType(l, x, w) BY DEF MakeBitfield, Bitfield, WithType
<1> HIDE DEF l, w, x, k
<1>6. Writable(l, w)
  <2>1. Good(l, t) /\ l.emit = s.emit BY <1>2 DEF Typ, Grows
  <2>2. QED BY <1>1, <1>3, <2>1 DEF Good, Writable
<1>7. Room(l.rt, 1) BY <1>1
<1>8. /\ Derives(l, k) /\ SameStacks(l, k) /\ k.rt.halt = l.rt.halt /\ k.text[a] = w
      /\ k.constant_id = l.constant_id /\ k.rt.next = l.rt.next + 1
      /\ Typ(k, a) /\ a # 0
  BY <1>1, <1>2, <1>3, <1>4, <1>5, <1>6, <1>7, NewTypeText
<1>9. Derives(s, k) BY <1>1, <1>8, DerivesTwice
<1>10. SameStacks(s, k) BY <1>1, <1>8 DEF SameStacks
<1>11. QED BY <1>1, <1>3, <1>8, <1>9, <1>10 DEF k

LEMMA MakeFunctionStep ==
  ASSUME NEW s, TypesOK(s), NEW rtn, Typ(s, rtn), rtn # 0, Room(s.rt, 1),
         NEW params, IsSeq(params), \A i \in DOMAIN params : Typ(s, params[i]) /\ params[i] # 0
  PROVE  LET k == MakeFunction(s, rtn, params)
             a == s.rt.next
         IN  /\ Derives(s, k) /\ SameStacks(s, k) /\ k.rt.halt = s.rt.halt
             /\ k.rt.next = s.rt.next + 1 /\ k.constant_id = s.constant_id
             /\ Typ(k, a) /\ a # 0
             /\ k.rt.heap[a].kind = "function" /\ k.rt.heap[a].pointer_to = 0
             /\ k.text[a].term = FunctionOf(s.text[rtn].term,
                                    [i \in DOMAIN params |-> s.text[params[i]].term])
<1> DEFINE all == <<rtn>> \o params
           k == MakeFunction(s, rtn, params)
           a == s.rt.next
           x == NewObject("function", NoName, rtn, 0,
                  [i \in DOMAIN params |-> [name |-> NoName, type |-> params[i], val |-> 0]])
           w == Text(FunctionOf(s.text[rtn].term, [i \in DOMAIN params |-> s.text[params[i]].term]),
                     UNION {s.text[all[i]].consts : i \in DOMAIN all},
                     UNION {s.text[all[i]].tags : i \in DOMAIN all})
<1>1. \A i \in DOMAIN all : Typ(s, all[i]) /\ all[i] # 0
  <2>1. PICK S : params \in Seq(S) BY DEF IsSeq
  <2>2. Len(params) \in Nat /\ DOMAIN params = 1..Len(params) BY <2>1
  <2>3. <<rtn>> \in Seq({rtn}) /\ Len(<<rtn>>) = 1 OBVIOUS
  <2>4. DOMAIN all = 1..1 + Len(params)
        /\ \A i \in 1..1 + Len(params) : all[i] = IF i = 1 THEN rtn ELSE params[i - 1]
    <3>1. <<rtn>> \in Seq({rtn} \cup S) /\ params \in Seq({rtn} \cup S)
      <4>1. \A i \in 1..Len(params) : params[i] \in S BY <2>1
      <4>2. QED BY <2>1
    <3>2. QED BY <2>2, <2>3, <3>1
  <2> HIDE DEF all
  <2>5. \A i \in 1..1 + Len(params) : i # 1 => i - 1 \in DOMAIN params BY <2>2
  <2>6. QED BY <2>4, <2>5
<1>2. /\ DOMAIN w = TextFields
      /\ w.term = FunctionOf(s.text[rtn].term, [i \in DOMAIN params |-> s.text[params[i]].term])
      /\ w.consts = UNION {s.text[all[i]].consts : i \in DOMAIN all}
      /\ w.tags = UNION {s.text[all[i]].tags : i \in DOMAIN all}
  BY DEF Text, TextFields
<1>3. /\ DOMAIN x = ObjFields /\ x.kind = "function" /\ x.pointer_to = 0
      /\ x.array0_of = 0 /\ x.prev = 0
  BY DEF NewObject, ObjFields
<1>4. k = WithType(s, x, w) BY DEF MakeFunction, Func, WithType
<1> HIDE DEF all, w, x, k
<1>5. Writable(s, w)
  <2>1. \A i \in DOMAIN all : Writable(s, s.text[all[i]]) BY <1>1 DEF Typ, Good
  <2>2. QED BY <1>2, <2>1 DEF Writable
<1>6. x.kind \in {"bitfield", "function"} BY <1>3
<1>7. /\ Derives(s, k) /\ SameStacks(s, k) /\ k.rt.halt = s.rt.halt /\ k.text[a] = w
      /\ k.constant_id = s.constant_id /\ k.rt.next = s.rt.next + 1
      /\ Typ(k, a) /\ a # 0 /\ k.rt.heap[a] = x
  BY <1>2, <1>3, <1>4, <1>5, <1>6, NewTypeText
<1>8. QED BY <1>2, <1>3, <1>7 DEF k

-----------------------------------------------------------------------------
(* Steps on tags, members and names.                                       *)

(* The state keeps its shape.                                              *)
StoreShape(k) ==
  /\ DOMAIN k = Fields
  /\ DOMAIN k.text = ObjId /\ DOMAIN k.structs = ObjId /\ DOMAIN k.enums = ObjId
  /\ DOMAIN k.unnamed = {"struct", "enum"}
  /\ \A t \in ObjId : DOMAIN k.text[t] = TextFields /\ DOMAIN k.structs[t] = StructFields

(* A struct used before it is declared gets its text with its members.     *)
LateText(s, k, t) ==
  s.rt.heap[t].kind \in StructKinds /\ ~ Declared /\ k.text[t].consts = {}

LEMMA TagTypes ==
  ASSUME NEW s, TypesOK(s), NEW k, StoreShape(k), TagStep(s.rt, k.rt),
         ConstsOK(k), k.emit = s.emit, s.written \subseteq k.written, s.begun \subseteq k.begun,
         \A t \in ObjId : t >= k.rt.next => k.text[t].consts = {},
         \A t \in 1..s.rt.next - 1 :
           /\ k.text[t] = s.text[t] \/ LateText(s, k, t)
           /\ s.structs[t].made => k.structs[t].made,
         \A t \in s.rt.next..k.rt.next - 1 : TextOK(k, t)
  PROVE  TypesOK(k) /\ Grows(s, k)
<1>0. /\ RegOK(s.rt) /\ RegOK(k.rt) /\ s.rt.next \in Nat /\ k.rt.next \in Nat
      /\ s.rt.next <= k.rt.next
  BY Ranges DEF TypesOK, StoreOK, TagStep
<1>1. \A t \in 1..s.rt.next - 1 :
        /\ t \in ObjId
        /\ k.rt.heap[t].kind = s.rt.heap[t].kind /\ k.rt.heap[t].name = s.rt.heap[t].name
        /\ k.rt.heap[t].pointer_to = s.rt.heap[t].pointer_to
        /\ k.rt.heap[t].array0_of = s.rt.heap[t].array0_of
  BY <1>0, Ranges DEF TagStep
<1>2. ASSUME NEW t \in 1..s.rt.next - 1 PROVE TextOK(k, t)
  <2> DEFINE p == s.rt.heap[t].pointer_to
             b == s.rt.heap[t].array0_of
  <2>1. CachesOK(s.rt, t) /\ TextOK(s, t) BY <1>0, <1>1 DEF RegOK, TypesOK
  <2>2. /\ p # 0 => p \in 1..s.rt.next - 1 /\ s.rt.heap[p].kind = "pointer"
        /\ b # 0 => b \in 1..s.rt.next - 1 /\ s.rt.heap[b].kind = "array"
    BY <1>0, <2>1, Ranges DEF CachesOK
  <2>3. (p # 0 => k.text[p] = s.text[p]) /\ (b # 0 => k.text[b] = s.text[b])
    BY <2>2 DEF LateText, StructKinds
  <2>4. p # 0 => PointerTextOK(s, t, p) BY <2>1 DEF TextOK
  <2>5. s.structs[t].made => k.structs[t].made OBVIOUS
  <2>6. /\ k.rt.heap[t].kind = s.rt.heap[t].kind /\ k.rt.heap[t].name = s.rt.heap[t].name
        /\ k.rt.heap[t].pointer_to = p /\ k.rt.heap[t].array0_of = b
    BY <1>1
  <2> HIDE DEF p, b
  <2>7. CASE k.text[t] = s.text[t]
    <3>1. p # 0 => PointerTextOK(k, t, p) BY <2>3, <2>4, <2>6, <2>7 DEF PointerTextOK
    <3>2. b # 0 => OpenTextOK(k, t, b)
      <4>1. b # 0 => OpenTextOK(s, t, b) BY <2>1 DEF TextOK, b
      <4>2. QED BY <2>3, <2>7, <4>1 DEF OpenTextOK
    <3>3. QED BY <2>1, <2>5, <2>6, <2>7, <3>1, <3>2 DEF TextOK
  <2>8. CASE LateText(s, k, t)
    <3>1. p # 0 => PointerTextOK(k, t, p)
      <4>1. ~ Declared /\ ~ Exact BY <2>8 DEF LateText, Exact
      <4>2. s.rt.heap[t].kind # "function" BY <2>8 DEF LateText, StructKinds
      <4>3. QED BY <2>3, <2>4, <2>6, <4>1, <4>2 DEF PointerTextOK
    <3>2. s.rt.heap[t].kind \in {"struct", "union"} /\ ~ Declared /\ k.text[t].consts = {}
      BY <2>8 DEF LateText, StructKinds
    <3>3. ~ Declared /\ ~ Exact BY <2>8 DEF LateText, Exact
    <3>4. QED BY <2>6, <3>1, <3>2, <3>3 DEF TextOK, OpenTextOK
  <2>9. QED BY <2>7, <2>8
<1>3. \A t \in 1..k.rt.next - 1 : TextOK(k, t)
  <2> SUFFICES ASSUME NEW t \in 1..k.rt.next - 1 PROVE TextOK(k, t) OBVIOUS
  <2>1. CASE t < s.rt.next
    <3>1. t \in 1..s.rt.next - 1 BY <1>0, <2>1
    <3>2. QED BY <1>2, <3>1
  <2>2. CASE ~ (t < s.rt.next)
    <3>1. t \in s.rt.next..k.rt.next - 1 BY <1>0, <2>2
    <3>2. QED BY <3>1
  <2>3. QED BY <2>1, <2>2
<1>4. StoreOK(k) BY <1>0 DEF StoreOK, StoreShape
<1>5. TypesOK(k) BY <1>3, <1>4 DEF TypesOK
<1>6. \A t \in 1..s.rt.next - 1 : LateText(s, k, t) => ~ Exact /\ Good(k, t)
  BY DEF LateText, Exact, Good, Writable
<1>7. k.rt.next >= s.rt.next BY <1>0
<1>8. Grows(s, k) BY <1>1, <1>6, <1>7 DEF Grows, LateText
<1>9. QED BY <1>5, <1>8

WithRegistry(s, r) == [s EXCEPT !.rt = r]

(* Only the registry changes, and new types are tags not yet declared.     *)
LEMMA RegistryStep ==
  ASSUME NEW s, TypesOK(s), NEW r, TagStep(s.rt, r), SameOpen(s.rt, r), SamePrevs(s.rt, r),
         SameTypeNames(s.rt, r),
         \A t \in s.rt.next..r.next - 1 : r.heap[t].kind \in TagKinds /\ ~ Declared
  PROVE  LET k == WithRegistry(s, r)
         IN  /\ Derives(s, k) /\ SameStacks(s, k) /\ k.rt = r /\ k.text = s.text
             /\ k.constant_id = s.constant_id
<1> DEFINE k == WithRegistry(s, r)
<1>0. StoreOK(s) /\ ConstsOK(s) BY DEF TypesOK
<1>1. /\ k.rt = r /\ DOMAIN k = Fields /\ k.text = s.text
      /\ k.structs = s.structs /\ k.current_struct = s.current_struct /\ k.enums = s.enums
      /\ k.unnamed = s.unnamed /\ k.said = s.said /\ k.begun = s.begun /\ k.forms = s.forms
      /\ k.emit = s.emit /\ k.written = s.written /\ k.constant_id = s.constant_id
      /\ k.decls = s.decls /\ k.dtors = s.dtors
  BY <1>0 DEF StoreOK, Fields, WithRegistry
<1> HIDE DEF k
<1>2. StoreShape(k) BY <1>0, <1>1 DEF StoreOK, StoreShape
<1>3. ConstsOK(k) BY <1>0, <1>1 DEF ConstsOK
<1>4. /\ RegOK(s.rt) /\ RegOK(r) /\ s.rt.next \in Nat /\ r.next \in Nat /\ s.rt.next <= r.next
      /\ \A t \in 1..r.next - 1 : t \in ObjId
  BY <1>0, Ranges DEF StoreOK, TagStep
<1>5. \A t \in ObjId : t >= s.rt.next => k.text[t].consts = {} BY <1>0, <1>1 DEF StoreOK
<1>6. \A t \in ObjId : t >= k.rt.next => t >= s.rt.next BY <1>1, <1>4 DEF ObjId
<1>7. ASSUME NEW t \in s.rt.next..k.rt.next - 1 PROVE TextOK(k, t)
  <2>1. r.heap[t].pointer_to = 0 /\ r.heap[t].array0_of = 0 BY <1>1 DEF TagStep
  <2>2. r.heap[t].kind \in TagKinds /\ ~ Declared BY <1>1
  <2>3. t \in ObjId /\ t >= s.rt.next
    <3>1. s.rt.next >= 1 BY <1>4, Ranges
    <3>2. t \in 1..r.next - 1 BY <1>1, <1>4, <3>1
    <3>3. QED BY <1>4, <3>2
  <2>4. k.text[t].consts = {} BY <1>5, <2>3
  <2>5. QED BY <1>1, <2>1, <2>2, <2>4 DEF TextOK, TagKinds, StructKinds
<1>8. \A t \in 1..s.rt.next - 1 :
        /\ k.text[t] = s.text[t] \/ LateText(s, k, t)
        /\ s.structs[t].made => k.structs[t].made
  BY <1>1
<1>9. TagStep(s.rt, k.rt) BY <1>1
<1>10. TypesOK(k) /\ Grows(s, k)
  BY <1>1, <1>2, <1>3, <1>5, <1>6, <1>7, <1>8, <1>9, TagTypes
<1>11. Stays(s, k) BY <1>1 DEF Stays
<1>12. QED BY <1>1, <1>10, <1>11 DEF Derives, SameStacks, k

(* struct S or enum E, without members.                                    *)
MayName(s, su, name) ==
  /\ TypesOK(s) /\ Room(s.rt, 1) /\ su \in StructKinds
  /\ Declared => StructKnown(s.rt, su, name)

LEMMA SpecStructStep ==
  ASSUME NEW s, NEW su, NEW name, MayName(s, su, name)
  PROVE  LET k == WithRegistry(s, StructForward(s.rt, su, name))
             st == StructRef(s.rt, su, name)
         IN  /\ Derives(s, k) /\ SameStacks(s, k) /\ k.rt.halt = s.rt.halt
             /\ k.rt.next <= s.rt.next + 1 /\ k.constant_id = s.constant_id
             /\ st \in 1..k.rt.next - 1 /\ st # 0
             /\ k.rt.heap[st].kind = su /\ k.rt.heap[st].name = name
             /\ k.text[st].consts = {}
<1> DEFINE r == StructForward(s.rt, su, name)
           st == StructRef(s.rt, su, name)
           k == WithRegistry(s, StructForward(s.rt, su, name))
<1>0. /\ RegOK(s.rt) /\ s.rt.next \in Nat /\ TypesOK(s) /\ Room(s.rt, 1) /\ su \in StructKinds
      /\ ~ Declared \/ StructKnown(s.rt, su, name)
  BY Ranges DEF TypesOK, StoreOK, MayName
<1>1. /\ TagStep(s.rt, r) /\ SamePrevs(s.rt, r) /\ SameOpen(s.rt, r)
      /\ SameTypeNames(s.rt, r) /\ r.halt = s.rt.halt /\ r.next <= s.rt.next + 1
      /\ st \in 1..r.next - 1 /\ st \in ObjId
      /\ r.heap[st].kind = su /\ r.heap[st].name = name
      /\ StructKnown(s.rt, su, name) => r = s.rt
      /\ ~ StructKnown(s.rt, su, name) => st = s.rt.next /\ r.next = s.rt.next + 1
  BY <1>0, StructForwardStep
<1>2. k = WithRegistry(s, r) BY DEF WithRegistry
<1> HIDE DEF r, k, st
<1>3. \A t \in s.rt.next..r.next - 1 : r.heap[t].kind \in TagKinds /\ ~ Declared
  <2>1. CASE StructKnown(s.rt, su, name)
    <3>1. r.next = s.rt.next BY <1>1, <2>1
    <3>2. QED BY <1>0, <3>1
  <2>2. CASE ~ StructKnown(s.rt, su, name)
    <3>1. \A t \in s.rt.next..r.next - 1 : t = st BY <1>0, <1>1, <2>2
    <3>2. QED BY <1>0, <1>1, <2>2, <3>1 DEF StructKinds, TagKinds
  <2>3. QED BY <2>1, <2>2
<1>4. /\ Derives(s, k) /\ SameStacks(s, k) /\ k.rt = r /\ k.text = s.text
      /\ k.constant_id = s.constant_id
  BY <1>0, <1>1, <1>2, <1>3, RegistryStep
<1>5. st # 0 BY <1>1 DEF ObjId
<1>6. k.text[st].consts = {}
  <2>1. TypesOK(k) BY <1>4 DEF Derives
  <2>2. TextOK(k, st) BY <1>1, <1>4, <2>1 DEF TypesOK
  <2>3. QED BY <1>0, <1>1, <1>4, <2>2 DEF TextOK, BaseKinds, StructKinds
<1>7. QED BY <1>1, <1>4, <1>5, <1>6 DEF k, st

LEMMA SpecEnumStep ==
  ASSUME NEW s, TypesOK(s), Room(s.rt, 1), NEW name, ~ Declared \/ EnumKnown(s.rt, name)
  PROVE  LET k == [s EXCEPT !.rt = EnumForward(@, name)]
             et == EnumRef(s.rt, name)
         IN  /\ Derives(s, k) /\ SameStacks(s, k) /\ k.rt.halt = s.rt.halt
             /\ k.rt.next <= s.rt.next + 1 /\ k.constant_id = s.constant_id
             /\ et \in 0..k.rt.next - 1
             /\ et # 0 => k.rt.heap[et].kind = "enum" /\ k.text[et].consts = {} /\ ~ Declared
<1> DEFINE r == EnumForward(s.rt, name)
           et == EnumRef(s.rt, name)
           k == [s EXCEPT !.rt = EnumForward(@, name)]
<1>0. RegOK(s.rt) /\ s.rt.next \in Nat /\ s.rt.next >= 1 BY Ranges DEF TypesOK, StoreOK
<1>1. /\ TagStep(s.rt, r) /\ SamePrevs(s.rt, r) /\ SameOpen(s.rt, r)
      /\ SameTypeNames(s.rt, r) /\ r.halt = s.rt.halt /\ r.next <= s.rt.next + 1
      /\ EnumKnown(s.rt, name) => r = s.rt /\ et = 0
      /\ ~ EnumKnown(s.rt, name) =>
           /\ et = s.rt.next /\ et \in ObjId /\ r.next = s.rt.next + 1
           /\ r.heap[et].kind = "enum"
  BY <1>0, EnumForwardStep
<1>2. k = WithRegistry(s, r) BY DEF WithRegistry
<1> HIDE DEF r, k, et
<1>3. \A t \in s.rt.next..r.next - 1 : r.heap[t].kind \in TagKinds /\ ~ Declared
  <2>1. CASE EnumKnown(s.rt, name)
    <3>1. r.next = s.rt.next BY <1>1, <2>1
    <3>2. QED BY <1>0, <3>1
  <2>2. CASE ~ EnumKnown(s.rt, name)
    <3>1. \A t \in s.rt.next..r.next - 1 : t = et BY <1>0, <1>1, <2>2
    <3>2. QED BY <1>1, <2>2, <3>1 DEF TagKinds
  <2>3. QED BY <2>1, <2>2
<1>4. /\ Derives(s, k) /\ SameStacks(s, k) /\ k.rt = r /\ k.text = s.text
      /\ k.constant_id = s.constant_id
  BY <1>1, <1>2, <1>3, RegistryStep
<1>5. et \in 0..k.rt.next - 1 /\ (et # 0 => et \in 1..k.rt.next - 1) BY <1>0, <1>1, <1>4
<1>6. et # 0 => k.rt.heap[et].kind = "enum" /\ ~ Declared BY <1>1, <1>4
<1>7. et # 0 => k.text[et].consts = {}
  <2>1. TypesOK(k) BY <1>4 DEF Derives
  <2>2. et # 0 => TextOK(k, et) BY <1>5, <2>1 DEF TypesOK
  <2>3. QED BY <1>6, <2>2 DEF TextOK, BaseKinds
<1>8. QED BY <1>1, <1>4, <1>5, <1>6, <1>7 DEF k, et

(* ggrt_struct with its callback: a struct or a union that is not yet made *)
(* becomes the innermost open one.                                         *)
StructBegun(s, k, st, term) ==
  /\ SameTypeNames(s.rt, k.rt) /\ CurrentModule(k.rt) = CurrentModule(s.rt)
  /\ Cur(k.rt).current_struct = st /\ k.current_struct = st
  /\ Cur(k.rt).current_enum = Cur(s.rt).current_enum
  /\ k.enums = s.enums /\ k.said = s.said
  /\ k.structs[st].made /\ k.structs[st].prev = s.current_struct
  /\ k.rt.heap[st].prev = Cur(s.rt).current_struct
  /\ k.text[st].term = term
  /\ \A t \in ObjId \ {st} :
       /\ k.structs[t] = s.structs[t] /\ k.text[t] = s.text[t]
       /\ k.rt.heap[t] = s.rt.heap[t]
  /\ s.emit # 0 => k.forms = Append(s.forms, st) /\ term \in k.begun
  /\ s.emit = 0 => k.forms = s.forms

LEMMA BeginStructStep ==
  ASSUME NEW s, TypesOK(s), Room(s.rt, 1), NEW su \in StructKinds, NEW name,
         ~ s.structs[StructRef(s.rt, su, name)].made
  PROVE  LET k == BeginStruct(s, su, name)
             st == StructRef(s.rt, su, name)
             term == StructTerm(s, su, name)
         IN  /\ TypesOK(k) /\ Grows(s, k) /\ SameStacks(s, k) /\ StructBegun(s, k, st, term)
             /\ k.rt.halt = s.rt.halt /\ k.rt.next <= s.rt.next + 1
             /\ k.constant_id = s.constant_id
             /\ st \in 1..k.rt.next - 1 /\ st \in ObjId /\ k.rt.heap[st].kind = su
<1> DEFINE r == Struct(s.rt, su, name)
           st == StructRef(s.rt, su, name)
           term == StructTerm(s, su, name)
           w == Text(term, {}, {term})
           l == [s EXCEPT !.rt = Struct(@, su, name)]
           m == MakeStruct(l, st)
           n == [m EXCEPT !.structs[st].prev = m.current_struct, !.current_struct = st]
           k == BeginStruct(s, su, name)
<1>0. /\ StoreOK(s) /\ ConstsOK(s) /\ RegOK(s.rt) /\ s.rt.next \in Nat /\ s.rt.next >= 1
      /\ DOMAIN s = Fields /\ MaxObjs \in Nat
  BY Ranges DEF TypesOK, StoreOK
<1>1. /\ TagStep(s.rt, r) /\ SameTypeNames(s.rt, r) /\ CurrentModule(r) = CurrentModule(s.rt)
      /\ r.halt = s.rt.halt /\ r.next <= s.rt.next + 1
      /\ st \in 1..r.next - 1 /\ st \in ObjId
      /\ r.heap[st].kind = su /\ r.heap[st].name = name
      /\ r.heap[st].prev = Cur(s.rt).current_struct
      /\ \A t \in ObjId \ {st} : r.heap[t] = s.rt.heap[t]
      /\ StructKnown(s.rt, su, name) => r.next = s.rt.next
      /\ ~ StructKnown(s.rt, su, name) => st = s.rt.next /\ r.next = s.rt.next + 1
      /\ Cur(r).current_struct = st /\ Cur(r).current_enum = Cur(s.rt).current_enum
  BY <1>0, StructStep
<1>2. l = [s EXCEPT !.rt = r] OBVIOUS
<1>3. k = OpenForm(n, st) BY DEF BeginStruct
<1>4. /\ DOMAIN w = TextFields /\ w.term = term /\ w.consts = {} /\ w.tags = {term}
  BY DEF Text, TextFields
<1> HIDE DEF r, st, k, w
<1>5. /\ DOMAIN l = Fields /\ l.rt = r /\ l.structs = s.structs /\ l.unnamed = s.unnamed
      /\ l.text = s.text /\ l.current_struct = s.current_struct
      /\ l.enums = s.enums /\ l.said = s.said /\ l.begun = s.begun /\ l.forms = s.forms
      /\ l.emit = s.emit /\ l.written = s.written /\ l.constant_id = s.constant_id
      /\ l.decls = s.decls /\ l.dtors = s.dtors
  BY <1>0, <1>2 DEF Fields
<1> HIDE DEF l
<1> DEFINE u == IF name = NoName THEN l.unnamed["struct"] + 1 ELSE l.unnamed["struct"]
<1>6. m = [l EXCEPT !.structs[st].made = TRUE, !.text[st] = w, !.unnamed.struct = u]
  <2>1. ~ l.structs[st].made BY <1>5 DEF st
  <2>2. StructTerm(l, l.rt.heap[st].kind, l.rt.heap[st].name) = term
    BY <1>1, <1>5 DEF StructTerm, UnnamedId
  <2>3. l.rt.heap[st].name = name BY <1>1, <1>5
  <2>4. QED BY <2>1, <2>2, <2>3 DEF MakeStruct, w
<1> HIDE DEF u, m
<1>7. DOMAIN l.structs = ObjId /\ DOMAIN l.text = ObjId /\ DOMAIN l.structs[st] = StructFields
      /\ DOMAIN l.unnamed = {"struct", "enum"}
  BY <1>0, <1>1, <1>5 DEF StoreOK
<1>8. /\ DOMAIN m = Fields /\ m.rt = r /\ m.current_struct = s.current_struct
      /\ DOMAIN m.structs = ObjId /\ DOMAIN m.structs[st] = StructFields /\ m.structs[st].made
      /\ \A t \in ObjId \ {st} : m.structs[t] = s.structs[t]
      /\ DOMAIN m.text = ObjId /\ m.text[st] = w /\ DOMAIN m.unnamed = {"struct", "enum"}
      /\ \A t \in ObjId \ {st} : m.text[t] = s.text[t]
      /\ m.enums = s.enums /\ m.said = s.said /\ m.begun = s.begun /\ m.forms = s.forms
      /\ m.emit = s.emit /\ m.written = s.written /\ m.constant_id = s.constant_id
      /\ m.decls = s.decls /\ m.dtors = s.dtors
  BY <1>1, <1>5, <1>6, <1>7 DEF Fields, StructFields
<1>9. /\ DOMAIN n = Fields /\ n.rt = r /\ n.current_struct = st
      /\ DOMAIN n.structs = ObjId /\ DOMAIN n.structs[st] = StructFields /\ n.structs[st].made
      /\ n.structs[st].prev = s.current_struct
      /\ \A t \in ObjId \ {st} : n.structs[t] = s.structs[t]
      /\ n.text = m.text /\ n.unnamed = m.unnamed
      /\ n.enums = s.enums /\ n.said = s.said /\ n.begun = s.begun /\ n.forms = s.forms
      /\ n.emit = s.emit /\ n.written = s.written /\ n.constant_id = s.constant_id
      /\ n.decls = s.decls /\ n.dtors = s.dtors
  BY <1>1, <1>8 DEF Fields, StructFields
<1> HIDE DEF n
<1>10. /\ DOMAIN k = Fields /\ k.rt = r /\ k.current_struct = st
       /\ k.structs = n.structs /\ k.text = m.text /\ k.unnamed = m.unnamed
       /\ k.enums = s.enums /\ k.said = s.said
       /\ k.emit = s.emit /\ k.written = s.written /\ k.constant_id = s.constant_id
       /\ k.decls = s.decls /\ k.dtors = s.dtors
       /\ s.emit # 0 => k.forms = Append(s.forms, st) /\ k.begun = s.begun \cup {n.text[st].term}
       /\ s.emit = 0 => k.forms = s.forms /\ k.begun = s.begun
  BY <1>3, <1>9 DEF Fields, OpenForm
<1>11. k.text[st] = w /\ \A t \in ObjId \ {st} : k.text[t] = s.text[t] BY <1>8, <1>10
<1>12. s.begun \subseteq k.begun /\ (s.emit # 0 => term \in k.begun)
  BY <1>4, <1>8, <1>9, <1>10
<1>13. StoreShape(k) BY <1>0, <1>4, <1>8, <1>9, <1>10, <1>11 DEF StoreShape, StoreOK
<1>14. ConstsOK(k) BY <1>0, <1>10 DEF ConstsOK
<1>15. RegOK(r) /\ r.next \in Nat /\ s.rt.next <= r.next BY <1>1, Ranges DEF TagStep
<1>16. \A t \in ObjId : t >= k.rt.next => k.text[t].consts = {}
  <2>1. \A t \in ObjId : t >= k.rt.next => t >= s.rt.next /\ t # st
    BY <1>0, <1>1, <1>10, <1>15 DEF ObjId
  <2>2. QED BY <1>0, <1>11, <2>1 DEF StoreOK
<1>17. StructKnown(s.rt, su, name) =>
         st \in 1..s.rt.next - 1 /\ s.rt.heap[st].kind = su /\ ~ Declared
  <2>1. ASSUME StructKnown(s.rt, su, name)
        PROVE  st \in 1..s.rt.next - 1 /\ s.rt.heap[st].kind = su
    BY <1>0, <2>1, TagLookup DEF st
  <2>2. ASSUME StructKnown(s.rt, su, name), Declared PROVE FALSE
    <3>1. TextOK(s, st) BY <2>1, <2>2 DEF TypesOK
    <3>2. s.structs[st].made BY <2>1, <2>2, <3>1 DEF TextOK
    <3>3. QED BY <3>2 DEF st
  <2>3. QED BY <2>1, <2>2
<1>18. \A t \in 1..s.rt.next - 1 :
         /\ k.text[t] = s.text[t] \/ LateText(s, k, t)
         /\ s.structs[t].made => k.structs[t].made
  <2> SUFFICES ASSUME NEW t \in 1..s.rt.next - 1
               PROVE  /\ k.text[t] = s.text[t] \/ LateText(s, k, t)
                      /\ s.structs[t].made => k.structs[t].made
    OBVIOUS
  <2>1. t \in ObjId BY <1>0, Ranges
  <2>2. CASE t # st BY <1>9, <1>10, <1>11, <2>1, <2>2
  <2>3. CASE t = st
    <3>1. StructKnown(s.rt, su, name) BY <1>0, <1>1, <2>3
    <3>2. LateText(s, k, t) BY <1>4, <1>11, <1>17, <2>3, <3>1 DEF LateText
    <3>3. QED BY <1>9, <1>10, <2>3, <3>2
  <2>4. QED BY <2>2, <2>3
<1>19. ASSUME NEW t \in s.rt.next..k.rt.next - 1 PROVE TextOK(k, t)
  <2>1. ~ StructKnown(s.rt, su, name) /\ t = st BY <1>0, <1>1, <1>10, <1>15
  <2>2. k.rt.heap[t].pointer_to = 0 /\ k.rt.heap[t].array0_of = 0 BY <1>1, <1>10 DEF TagStep
  <2>3. k.rt.heap[t].kind = su /\ k.rt.heap[t].name = name /\ k.text[t] = w
        /\ k.structs[t].made
    BY <1>1, <1>9, <1>10, <1>11, <2>1
  <2>4. name # NoName => term = Tagged(su, name, 0) BY DEF StructTerm, UnnamedId
  <2>5. QED BY <1>4, <2>2, <2>3, <2>4 DEF TextOK, StructKinds
<1>20. TagStep(s.rt, k.rt) BY <1>1, <1>10
<1>21. TypesOK(k) /\ Grows(s, k)
  BY <1>10, <1>12, <1>13, <1>14, <1>16, <1>18, <1>19, <1>20, TagTypes
<1>22. StructBegun(s, k, st, term)
  BY <1>1, <1>4, <1>8, <1>9, <1>10, <1>11, <1>12 DEF StructBegun, SameTypeNames
<1>23. QED BY <1>1, <1>10, <1>21, <1>22 DEF SameStacks, k, st

(* ggrt_struct_end with its callback, and ggrt_enum_end.                   *)
FormClosed(s, k) ==
  IF s.emit = 0 \/ s.forms = <<>> THEN k.forms = s.forms ELSE k.forms = Front(s.forms)

Ended(s, k) ==
  /\ SameTypeNames(s.rt, k.rt) /\ CurrentModule(k.rt) = CurrentModule(s.rt)
  /\ k.rt.heap = s.rt.heap /\ k.rt.next = s.rt.next /\ k.text = s.text
  /\ k.structs = s.structs /\ k.enums = s.enums /\ k.said = s.said /\ k.begun = s.begun
  /\ k.rt.halt = s.rt.halt /\ k.constant_id = s.constant_id /\ FormClosed(s, k)

LEMMA EndStructStep ==
  ASSUME NEW s, TypesOK(s), s.current_struct = Cur(s.rt).current_struct,
         s.current_struct \in 1..s.rt.next - 1
  PROVE  LET k == EndStruct(s)
             st == s.current_struct
         IN  /\ TypesOK(k) /\ Grows(s, k) /\ SameStacks(s, k) /\ Ended(s, k)
             /\ k.current_struct = s.structs[st].prev
             /\ Cur(k.rt).current_struct = s.rt.heap[st].prev
             /\ Cur(k.rt).current_enum = Cur(s.rt).current_enum
<1> DEFINE st == s.current_struct
           r == StructEnd(s.rt, st)
           m == [s EXCEPT !.rt = r, !.current_struct = s.structs[st].prev]
           k == EndStruct(s)
<1>0. StoreOK(s) /\ ConstsOK(s) /\ RegOK(s.rt) /\ DOMAIN s = Fields
  BY DEF TypesOK, StoreOK
<1>1. /\ RegOK(r) /\ SameTypeNames(s.rt, r) /\ r.heap = s.rt.heap /\ r.next = s.rt.next
      /\ r.halt = s.rt.halt /\ CurrentModule(r) = CurrentModule(s.rt)
      /\ Cur(r).current_struct = s.rt.heap[st].prev
      /\ Cur(r).current_enum = Cur(s.rt).current_enum
  BY <1>0, StructEndStep DEF SameHeap, CurrentModule
<1>2. k = CloseForm(m) BY DEF EndStruct
<1> HIDE DEF r, st, k
<1>3. /\ DOMAIN m = Fields /\ m.rt = r /\ m.current_struct = s.structs[st].prev
      /\ m.structs = s.structs /\ m.unnamed = s.unnamed /\ m.text = s.text
      /\ m.enums = s.enums /\ m.said = s.said /\ m.begun = s.begun /\ m.forms = s.forms
      /\ m.emit = s.emit /\ m.written = s.written /\ m.constant_id = s.constant_id
      /\ m.decls = s.decls /\ m.dtors = s.dtors
  BY <1>0 DEF Fields
<1> HIDE DEF m
<1>4. /\ DOMAIN k = Fields /\ k.rt = r /\ k.current_struct = s.structs[st].prev
      /\ k.structs = s.structs /\ k.unnamed = s.unnamed /\ k.text = s.text
      /\ k.enums = s.enums /\ k.said = s.said /\ k.begun = s.begun
      /\ k.emit = s.emit /\ k.written = s.written /\ k.constant_id = s.constant_id
      /\ k.decls = s.decls /\ k.dtors = s.dtors /\ FormClosed(s, k)
  BY <1>2, <1>3 DEF Fields, CloseForm, FormClosed
<1>5. ConstsOK(k) BY <1>0, <1>4 DEF ConstsOK
<1>6. TypesOK(k) /\ Grows(s, k)
  BY <1>0, <1>1, <1>4, <1>5, SameTypes DEF StoreOK
<1>7. QED BY <1>1, <1>4, <1>6 DEF SameStacks, Ended, SameTypeNames, k, st

LEMMA EndEnumStep ==
  ASSUME NEW s, TypesOK(s), Cur(s.rt).current_enum \in 1..s.rt.next - 1
  PROVE  LET k == EndEnum(s)
         IN  /\ TypesOK(k) /\ Grows(s, k) /\ SameStacks(s, k) /\ Ended(s, k)
             /\ k.current_struct = s.current_struct
             /\ Cur(k.rt).current_struct = Cur(s.rt).current_struct
<1> DEFINE et == Cur(s.rt).current_enum
           r == EnumEnd(s.rt, et)
           m == [s EXCEPT !.rt = r]
           k == EndEnum(s)
<1>0. StoreOK(s) /\ ConstsOK(s) /\ RegOK(s.rt) /\ DOMAIN s = Fields
  BY DEF TypesOK, StoreOK
<1>1. /\ RegOK(r) /\ SameTypeNames(s.rt, r) /\ r.heap = s.rt.heap /\ r.next = s.rt.next
      /\ r.halt = s.rt.halt /\ CurrentModule(r) = CurrentModule(s.rt)
      /\ Cur(r).current_struct = Cur(s.rt).current_struct
  BY <1>0, EnumEndStep DEF SameHeap, CurrentModule
<1>2. k = CloseForm(m) BY DEF EndEnum
<1> HIDE DEF r, et, k
<1>3. /\ DOMAIN m = Fields /\ m.rt = r /\ m.current_struct = s.current_struct
      /\ m.structs = s.structs /\ m.unnamed = s.unnamed /\ m.text = s.text
      /\ m.enums = s.enums /\ m.said = s.said /\ m.begun = s.begun /\ m.forms = s.forms
      /\ m.emit = s.emit /\ m.written = s.written /\ m.constant_id = s.constant_id
      /\ m.decls = s.decls /\ m.dtors = s.dtors
  BY <1>0 DEF Fields
<1> HIDE DEF m
<1>4. /\ DOMAIN k = Fields /\ k.rt = r /\ k.current_struct = s.current_struct
      /\ k.structs = s.structs /\ k.unnamed = s.unnamed /\ k.text = s.text
      /\ k.enums = s.enums /\ k.said = s.said /\ k.begun = s.begun
      /\ k.emit = s.emit /\ k.written = s.written /\ k.constant_id = s.constant_id
      /\ k.decls = s.decls /\ k.dtors = s.dtors /\ FormClosed(s, k)
  BY <1>2, <1>3 DEF Fields, CloseForm, FormClosed
<1>5. ConstsOK(k) BY <1>0, <1>4 DEF ConstsOK
<1>6. TypesOK(k) /\ Grows(s, k)
  BY <1>0, <1>1, <1>4, <1>5, SameTypes DEF StoreOK
<1>7. QED BY <1>1, <1>4, <1>6 DEF SameStacks, Ended, SameTypeNames, k

(* ggrt_enum with its callback: a new enum, whose form waits for the first *)
(* enumerator.                                                             *)
EnumBegun(s, k, et, term) ==
  /\ SameTypeNames(s.rt, k.rt) /\ CurrentModule(k.rt) = CurrentModule(s.rt)
  /\ Cur(k.rt).current_struct = Cur(s.rt).current_struct
  /\ Cur(k.rt).current_enum = et
  /\ k.current_struct = s.current_struct /\ k.structs = s.structs
  /\ k.said = s.said /\ k.forms = s.forms /\ k.enums[et] = 1
  /\ k.text[et].term = term
  /\ \A t \in ObjId \ {et} :
       /\ k.enums[t] = s.enums[t] /\ k.text[t] = s.text[t]
       /\ k.rt.heap[t] = s.rt.heap[t]
  /\ s.emit # 0 => term \in k.begun

LEMMA BeginEnumStep ==
  ASSUME NEW s, TypesOK(s), Room(s.rt, 1), NEW name, ~ EnumKnown(s.rt, name)
  PROVE  LET k == BeginEnum(s, name)
             et == s.rt.next
             term == Tagged("enum", name, UnnamedId(s, "enum", name))
         IN  s.rt.halt = "no" =>
             /\ TypesOK(k) /\ Grows(s, k) /\ SameStacks(s, k) /\ EnumBegun(s, k, et, term)
             /\ k.rt.halt = s.rt.halt /\ k.rt.next = s.rt.next + 1
             /\ k.constant_id = s.constant_id
             /\ et \in ObjId /\ k.rt.heap[et].kind = "enum"
<1> DEFINE r == Enum(s.rt, name)
           et == EnumRef(s.rt, name)
           term == Tagged("enum", name, UnnamedId(s, "enum", name))
           w == Text(term, {}, {term})
           u == IF name = NoName THEN s.unnamed["enum"] + 1 ELSE s.unnamed["enum"]
           b == IF s.emit # 0 THEN s.begun \cup {term} ELSE s.begun
           k == BeginEnum(s, name)
<1>0. /\ StoreOK(s) /\ ConstsOK(s) /\ RegOK(s.rt) /\ s.rt.next \in Nat /\ s.rt.next >= 1
      /\ DOMAIN s = Fields /\ MaxObjs \in Nat
  BY Ranges DEF TypesOK, StoreOK
<1>1. /\ TagStep(s.rt, r) /\ SamePrevs(s.rt, r) /\ SameTypeNames(s.rt, r)
      /\ r.halt = s.rt.halt /\ et = s.rt.next /\ et \in ObjId /\ r.next = s.rt.next + 1
      /\ r.heap[et].kind = "enum" /\ r.heap[et].name = name
      /\ \A t \in ObjId \ {et} : r.heap[t] = s.rt.heap[t]
      /\ Cur(r).current_struct = Cur(s.rt).current_struct
      /\ Cur(r).current_enum = et
  BY <1>0, EnumStep
<1>m. CurrentModule(r) = CurrentModule(s.rt)
  <2> DEFINE f == EnumForward(s.rt, name)
  <2>1. RegOK(f) /\ CurrentModule(f) = CurrentModule(s.rt)
    BY <1>0, EnumForwardStep DEF TagStep, SameOpen
  <2>2. DOMAIN f = RegFields BY <2>1 DEF RegOK, RegShape
  <2>3. et # 0 BY <1>0, <1>1
  <2> HIDE DEF f
  <2>4. r.cur = f.cur /\ r.def = f.def BY <2>2, <2>3 DEF Enum, f, RegFields
  <2>5. QED BY <2>1, <2>4 DEF CurrentModule
<1>2. s.rt.halt = "no" =>
      k = [s EXCEPT !.rt = r, !.text[et] = w, !.enums[et] = 1, !.unnamed.enum = u, !.begun = b]
  BY <1>1 DEF BeginEnum
<1>3. /\ DOMAIN w = TextFields /\ w.term = term /\ w.consts = {} /\ w.tags = {term}
  BY DEF Text, TextFields
<1>4. s.begun \subseteq b /\ (s.emit # 0 => term \in b) OBVIOUS
<1> HIDE DEF r, et, k, w, u, b
<1> SUFFICES ASSUME s.rt.halt = "no"
             PROVE  /\ TypesOK(k) /\ Grows(s, k) /\ SameStacks(s, k)
                    /\ EnumBegun(s, k, s.rt.next, term)
                    /\ k.rt.halt = s.rt.halt /\ k.rt.next = s.rt.next + 1
                    /\ k.constant_id = s.constant_id
                    /\ s.rt.next \in ObjId /\ k.rt.heap[s.rt.next].kind = "enum"
  BY <1>1 DEF k
<1>5. /\ DOMAIN s.text = ObjId /\ DOMAIN s.enums = ObjId /\ DOMAIN s.unnamed = {"struct", "enum"}
  BY <1>0 DEF StoreOK
<1>6. /\ DOMAIN k = Fields /\ k.rt = r /\ k.current_struct = s.current_struct
      /\ k.structs = s.structs /\ DOMAIN k.text = ObjId /\ k.text[et] = w
      /\ DOMAIN k.unnamed = {"struct", "enum"}
      /\ \A t \in ObjId \ {et} : k.text[t] = s.text[t] /\ k.enums[t] = s.enums[t]
      /\ DOMAIN k.enums = ObjId /\ k.enums[et] = 1 /\ k.begun = b
      /\ k.said = s.said /\ k.forms = s.forms
      /\ k.emit = s.emit /\ k.written = s.written /\ k.constant_id = s.constant_id
      /\ k.decls = s.decls /\ k.dtors = s.dtors
  <2>1. DOMAIN k = Fields /\ k.rt = r /\ k.current_struct = s.current_struct
        /\ k.structs = s.structs /\ k.said = s.said /\ k.forms = s.forms /\ k.begun = b
        /\ k.emit = s.emit /\ k.written = s.written /\ k.constant_id = s.constant_id
        /\ k.decls = s.decls /\ k.dtors = s.dtors
    BY <1>0, <1>2 DEF Fields
  <2>2. /\ k.text = [s.text EXCEPT ![et] = w] /\ k.enums = [s.enums EXCEPT ![et] = 1]
        /\ k.unnamed = [s.unnamed EXCEPT !.enum = u]
    BY <1>0, <1>2 DEF Fields
  <2>3. QED BY <1>1, <1>5, <2>1, <2>2
<1>7. StoreShape(k) BY <1>0, <1>3, <1>6 DEF StoreShape, StoreOK
<1>8. ConstsOK(k) BY <1>0, <1>6 DEF ConstsOK
<1>9. \A t \in ObjId : t >= k.rt.next => k.text[t].consts = {}
  <2>1. \A t \in ObjId : t >= k.rt.next => t >= s.rt.next /\ t # et
    BY <1>0, <1>1, <1>6 DEF ObjId
  <2>2. QED BY <1>0, <1>6, <2>1 DEF StoreOK
<1>10. \A t \in 1..s.rt.next - 1 :
         /\ k.text[t] = s.text[t] \/ LateText(s, k, t)
         /\ s.structs[t].made => k.structs[t].made
  <2>1. \A t \in 1..s.rt.next - 1 : t \in ObjId /\ t # et BY <1>0, <1>1, Ranges
  <2>2. QED BY <1>6, <2>1
<1>11. ASSUME NEW t \in s.rt.next..k.rt.next - 1 PROVE TextOK(k, t)
  <2>1. t = et BY <1>0, <1>1, <1>6
  <2>2. k.rt.heap[t].pointer_to = 0 /\ k.rt.heap[t].array0_of = 0 BY <1>1, <1>6 DEF TagStep
  <2>3. k.rt.heap[t].kind = "enum" /\ k.text[t] = w BY <1>1, <1>6, <2>1
  <2>4. QED BY <1>3, <2>2, <2>3 DEF TextOK, StructKinds
<1>12. TagStep(s.rt, k.rt) BY <1>1, <1>6
<1>13. s.begun \subseteq k.begun /\ (s.emit # 0 => term \in k.begun) BY <1>4, <1>6
<1>14. TypesOK(k) /\ Grows(s, k)
  BY <1>6, <1>7, <1>8, <1>9, <1>10, <1>11, <1>12, <1>13, TagTypes
<1>15. EnumBegun(s, k, et, term)
  BY <1>1, <1>m, <1>3, <1>6, <1>13 DEF EnumBegun, SameTypeNames
<1>16. QED BY <1>1, <1>6, <1>14, <1>15 DEF SameStacks

(* What has been written says nothing that is not defined.                 *)
FormOK(s, f) ==
  f.text.consts \subseteq s.written /\ (Declared => f.text.tags \subseteq s.begun)
SaidOK(s) == \A f \in s.said : FormOK(s, f)

(* A new form is written, of one of these kinds.                           *)
Says(s, k, kinds) ==
  /\ s.said \subseteq k.said
  /\ \A f \in k.said : f \in s.said \/ (f.kind \in kinds /\ FormOK(k, f))

(* The first enumerator opens the form; each may be written.               *)
Enumerated(s, k, et) ==
  /\ SameTypeNames(s.rt, k.rt) /\ SameOpen(s.rt, k.rt) /\ SamePrevs(s.rt, k.rt)
  /\ k.current_struct = s.current_struct /\ k.structs = s.structs /\ k.text = s.text
  /\ k.enums[et] = 2 /\ \A t \in ObjId \ {et} : k.enums[t] = s.enums[t]
  /\ k.forms = IF s.emit = 0 \/ s.enums[et] = 2 THEN s.forms ELSE Append(s.forms, et)

LEMMA EnumeratorStep ==
  ASSUME NEW s, TypesOK(s), Cur(s.rt).current_enum \in 1..s.rt.next - 1, NEW name
  PROVE  LET k == Enumerator(s, name)
             et == Cur(s.rt).current_enum
         IN  /\ TypesOK(k) /\ Grows(s, k) /\ SameStacks(s, k) /\ Enumerated(s, k, et)
             /\ Says(s, k, {"enumerator"})
             /\ k.rt.halt = s.rt.halt /\ k.rt.next = s.rt.next
             /\ k.constant_id <= s.constant_id + 1
<1> DEFINE et == Cur(s.rt).current_enum
           o == [s EXCEPT !.enums[et] = 2]
           l == IF s.enums[et] = 2 THEN s ELSE OpenForm(o, et)
           r == EnumElem(s.rt, et, name, FALSE, 0)
           a == [l EXCEPT !.rt = r]
           n == Constant(a, "expr", name, NullTerm)
           uses == {NextConstant(a, "expr", name, NullTerm)}
           w == Text(NullTerm, uses, {})
           form == Form("enumerator", name, w)
           k == Enumerator(s, name)
<1>0. /\ StoreOK(s) /\ ConstsOK(s) /\ RegOK(s.rt) /\ DOMAIN s = Fields
      /\ et \in ObjId /\ DOMAIN s.enums = ObjId /\ s.constant_id \in Nat
  BY Ranges DEF TypesOK, StoreOK, ConstsOK
<1>1. /\ RegOK(r) /\ TagStep(s.rt, r) /\ SameOpen(s.rt, r) /\ SameTypeNames(s.rt, r)
      /\ SamePrevs(s.rt, r) /\ r.next = s.rt.next /\ r.halt = s.rt.halt
  BY <1>0, EnumElemStep
<1>2. /\ DOMAIN o = Fields /\ o.enums = [s.enums EXCEPT ![et] = 2]
      /\ o.rt = s.rt /\ o.current_struct = s.current_struct
      /\ o.structs = s.structs /\ o.unnamed = s.unnamed /\ o.text = s.text
      /\ o.said = s.said /\ o.begun = s.begun /\ o.forms = s.forms
      /\ o.emit = s.emit /\ o.written = s.written /\ o.constant_id = s.constant_id
      /\ o.decls = s.decls /\ o.dtors = s.dtors
  BY <1>0 DEF Fields
<1> HIDE DEF o, et
<1>3. /\ DOMAIN l = Fields /\ l.enums[et] = 2 /\ DOMAIN l.enums = ObjId
      /\ \A t \in ObjId \ {et} : l.enums[t] = s.enums[t]
      /\ l.rt = s.rt /\ l.current_struct = s.current_struct
      /\ l.structs = s.structs /\ l.unnamed = s.unnamed /\ l.text = s.text
      /\ l.said = s.said /\ s.begun \subseteq l.begun
      /\ l.forms = IF s.emit = 0 \/ s.enums[et] = 2 THEN s.forms ELSE Append(s.forms, et)
      /\ l.emit = s.emit /\ l.written = s.written /\ l.constant_id = s.constant_id
      /\ l.decls = s.decls /\ l.dtors = s.dtors
  <2>1. CASE s.enums[et] = 2 BY <1>0, <2>1
  <2>2. CASE s.enums[et] # 2
    <3>1. o.enums[et] = 2 /\ DOMAIN o.enums = ObjId
          /\ \A t \in ObjId \ {et} : o.enums[t] = s.enums[t]
      BY <1>0, <1>2
    <3>2. l = OpenForm(o, et) BY <2>2
    <3> HIDE DEF l
    <3>3. /\ DOMAIN l = Fields /\ l.enums = o.enums /\ l.rt = o.rt
          /\ l.current_struct = o.current_struct
          /\ l.structs = o.structs /\ l.unnamed = o.unnamed /\ l.text = o.text
          /\ l.said = o.said /\ o.begun \subseteq l.begun
          /\ l.forms = (IF o.emit = 0 THEN o.forms ELSE Append(o.forms, et))
          /\ l.emit = o.emit /\ l.written = o.written /\ l.constant_id = o.constant_id
          /\ l.decls = o.decls /\ l.dtors = o.dtors
      BY <1>2, <3>2 DEF OpenForm, Fields
    <3>4. QED BY <1>2, <2>2, <3>1, <3>3
  <2>3. QED BY <2>1, <2>2
<1>4. k = IF s.emit = 0 THEN a ELSE Say(n, form)
  BY <1>3 DEF Enumerator, et, o
<1> HIDE DEF l, k, r
<1>5. /\ DOMAIN a = Fields /\ a.rt = r /\ a.enums = l.enums
      /\ a.current_struct = s.current_struct
      /\ a.structs = s.structs /\ a.unnamed = s.unnamed /\ a.text = s.text
      /\ a.said = s.said /\ a.begun = l.begun /\ a.forms = l.forms
      /\ a.emit = s.emit /\ a.written = s.written /\ a.constant_id = s.constant_id
      /\ a.decls = s.decls /\ a.dtors = s.dtors
  BY <1>3 DEF Fields
<1> HIDE DEF a
<1>6. RegOK(a.rt) /\ a.rt.heap = r.heap /\ a.rt.next = s.rt.next BY <1>1, <1>5
<1>7. StoreShape(a) /\ ConstsOK(a)
  BY <1>0, <1>3, <1>5 DEF StoreShape, StoreOK, ConstsOK
<1>8. TypesOK(a) /\ Grows(s, a)
  <2>1. \A t \in ObjId : t >= a.rt.next => a.text[t].consts = {} BY <1>0, <1>5, <1>6 DEF StoreOK
  <2>2. \A t \in 1..s.rt.next - 1 :
          /\ a.text[t] = s.text[t] \/ LateText(s, a, t)
          /\ s.structs[t].made => a.structs[t].made
    BY <1>5
  <2>3. \A t \in s.rt.next..a.rt.next - 1 : TextOK(a, t)
    <3>1. s.rt.next \in Nat BY <1>0, Ranges
    <3>2. QED BY <1>6, <3>1
  <2>4. TagStep(s.rt, a.rt) BY <1>1, <1>5
  <2>5. s.begun \subseteq a.begun /\ s.written \subseteq a.written BY <1>3, <1>5
  <2>6. QED BY <1>5, <1>7, <2>1, <2>2, <2>3, <2>4, <2>5, TagTypes
<1>9. /\ Derives(a, n) /\ SameStacks(a, n) /\ n.rt = a.rt /\ n.text = a.text
      /\ n.constant_id = a.constant_id + 1
      /\ a.emit # 0 => NextConstant(a, "expr", name, NullTerm) \in n.written
  BY <1>8, ConstantStep
<1>10. w.consts = uses /\ w.tags = {} /\ form.text = w /\ form.kind = "enumerator"
  BY DEF Text, Form
<1>11. TypesOK(n) /\ DOMAIN n = Fields BY <1>9 DEF Derives, TypesOK, StoreOK
<1> DEFINE e == Say(n, form)
<1>12. Grows(s, n) BY <1>8, <1>9, <1>11, GrowsTwice DEF Derives
<1>13. /\ n.current_struct = s.current_struct /\ n.structs = s.structs /\ n.enums = l.enums
       /\ n.forms = l.forms /\ n.said = s.said /\ n.begun = l.begun /\ n.emit = s.emit
       /\ n.decls = s.decls /\ n.dtors = s.dtors /\ n.unnamed = s.unnamed
  BY <1>5, <1>9 DEF Derives, Stays, SameStacks, Grows
<1> HIDE DEF n
<1>14. /\ DOMAIN e = Fields /\ e.rt = n.rt /\ e.text = n.text /\ e.structs = n.structs
       /\ e.enums = n.enums /\ e.unnamed = n.unnamed /\ e.written = n.written
       /\ e.constant_id = n.constant_id /\ e.begun = n.begun /\ e.emit = n.emit
       /\ e.forms = n.forms /\ e.current_struct = n.current_struct
       /\ e.decls = n.decls /\ e.dtors = n.dtors
       /\ e.said = IF s.emit # 0 THEN n.said \cup {form} ELSE n.said
  BY <1>11, <1>13 DEF Say, Fields
<1> HIDE DEF e
<1>15. TypesOK(e) /\ Grows(n, e)
  <2>1. ConstsOK(e) BY <1>11, <1>14 DEF ConstsOK, TypesOK
  <2>2. QED BY <1>11, <1>14, <2>1, SameTypes DEF TypesOK, StoreOK
<1>16. Grows(s, e) BY <1>11, <1>12, <1>15, GrowsTwice
<1>17. CASE s.emit = 0
  <2>1. k = a BY <1>4, <1>17
  <2>2. Enumerated(s, k, et) BY <1>1, <1>3, <1>5, <2>1 DEF Enumerated
  <2>3. Says(s, k, {"enumerator"}) BY <1>5, <2>1 DEF Says
  <2>4. QED BY <1>0, <1>1, <1>5, <1>8, <2>1, <2>2, <2>3 DEF SameStacks, k, et
<1>18. CASE s.emit # 0
  <2>1. k = e BY <1>4, <1>18 DEF e
  <2>2. Enumerated(s, k, et) BY <1>1, <1>3, <1>5, <1>9, <1>13, <1>14, <2>1 DEF Enumerated
  <2>3. FormOK(k, form) BY <1>5, <1>9, <1>10, <1>14, <1>18, <2>1 DEF FormOK
  <2>4. Says(s, k, {"enumerator"}) BY <1>10, <1>13, <1>14, <2>1, <2>3 DEF Says
  <2>5. SameStacks(s, k) /\ k.rt = r /\ k.constant_id = s.constant_id + 1
    BY <1>5, <1>9, <1>13, <1>14, <2>1 DEF SameStacks
  <2>6. QED BY <1>0, <1>1, <1>15, <1>16, <2>1, <2>2, <2>4, <2>5 DEF k, et
<1>19. QED BY <1>17, <1>18

(* The structs and the enums that are open stay as they are.               *)
Beside(s, k) ==
  /\ k.current_struct = s.current_struct /\ k.forms = s.forms /\ k.enums = s.enums
  /\ SameOpen(s.rt, k.rt) /\ SamePrevs(s.rt, k.rt)
  /\ \A t \in 1..s.rt.next - 1 :
       /\ k.structs[t].made = s.structs[t].made /\ k.structs[t].prev = s.structs[t].prev
       /\ s.rt.heap[t].kind \in TagKinds => k.text[t] = s.text[t]

LEMMA DerivesBeside ==
  ASSUME NEW s, NEW k, Derives(s, k)
  PROVE  /\ TypesOK(k) /\ Grows(s, k) /\ Beside(s, k) /\ SameTypeNames(s.rt, k.rt)
         /\ k.said = s.said /\ k.emit = s.emit
BY DEF Derives, Stays, Beside, TagKinds, Grows

LEMMA BesideTwice ==
  ASSUME NEW s, TypesOK(s), NEW k, TypesOK(k), Grows(s, k), Beside(s, k),
         NEW l, Beside(k, l)
  PROVE  Beside(s, l)
<1>1. 1..s.rt.next - 1 \subseteq 1..k.rt.next - 1 BY GrowsNext
<1>2. SamePrevs(s.rt, l.rt) BY <1>1 DEF Beside, SamePrevs
<1>3. \A t \in 1..s.rt.next - 1 :
        /\ l.structs[t].made = s.structs[t].made /\ l.structs[t].prev = s.structs[t].prev
        /\ s.rt.heap[t].kind \in TagKinds => l.text[t] = s.text[t]
  BY <1>1 DEF Beside, Grows
<1>4. QED BY <1>2, <1>3 DEF Beside, SameOpen

(* What the forms written declare.                                         *)
DeclKinds == {"global", "typedef", "element"}
DeclaredBy(said) ==
  {[kind |-> f.kind, name |-> f.name, term |-> f.text.term] :
     f \in {g \in said : g.kind \in DeclKinds}}

LEMMA DeclaredByMore ==
  ASSUME NEW said, NEW f
  PROVE  /\ f.kind \in DeclKinds =>
              DeclaredBy(said \cup {f}) =
                DeclaredBy(said) \cup {Declares(f.kind, f.name, f.text.term)}
         /\ f.kind \notin DeclKinds => DeclaredBy(said \cup {f}) = DeclaredBy(said)
BY DEF DeclaredBy, Declares

LEMMA SayStep ==
  ASSUME NEW s, TypesOK(s), NEW form, s.emit # 0 => FormOK(s, form)
  PROVE  LET k == Say(s, form)
         IN  /\ TypesOK(k) /\ Grows(s, k) /\ SameStacks(s, k) /\ Beside(s, k)
             /\ Says(s, k, {form.kind})
             /\ k.rt = s.rt /\ k.text = s.text /\ k.structs = s.structs
             /\ k.constant_id = s.constant_id /\ k.written = s.written /\ k.begun = s.begun
             /\ k.said = IF s.emit # 0 THEN s.said \cup {form} ELSE s.said
<1> DEFINE k == Say(s, form)
<1>0. StoreOK(s) /\ ConstsOK(s) /\ RegOK(s.rt) /\ DOMAIN s = Fields BY DEF TypesOK, StoreOK
<1>1. /\ DOMAIN k = Fields /\ k.rt = s.rt /\ k.text = s.text /\ k.structs = s.structs
      /\ k.enums = s.enums /\ k.unnamed = s.unnamed /\ k.written = s.written
      /\ k.constant_id = s.constant_id /\ k.begun = s.begun /\ k.emit = s.emit
      /\ k.forms = s.forms /\ k.current_struct = s.current_struct
      /\ k.decls = s.decls /\ k.dtors = s.dtors
      /\ k.said = IF s.emit # 0 THEN s.said \cup {form} ELSE s.said
  BY <1>0 DEF Say, Fields
<1> HIDE DEF k
<1>2. ConstsOK(k) BY <1>0, <1>1 DEF ConstsOK
<1>3. TypesOK(k) /\ Grows(s, k) BY <1>0, <1>1, <1>2, SameTypes DEF StoreOK
<1>4. Beside(s, k) BY <1>1 DEF Beside, SameOpen, SamePrevs
<1>5. Says(s, k, {form.kind}) BY <1>1 DEF Says, FormOK
<1>6. QED BY <1>1, <1>3, <1>4, <1>5 DEF SameStacks, k

Follows(s, k) == TypesOK(k) /\ Grows(s, k) /\ Beside(s, k) /\ SameStacks(s, k)

LEMMA FollowsTwice ==
  ASSUME NEW s, TypesOK(s), NEW k, Follows(s, k), NEW l, Follows(k, l)
  PROVE  Follows(s, l)
BY GrowsTwice, BesideTwice DEF Follows, SameStacks

LEMMA DerivesFollows ==
  ASSUME NEW s, NEW k, Derives(s, k), SameStacks(s, k)
  PROVE  Follows(s, k) /\ SameTypeNames(s.rt, k.rt) /\ k.said = s.said /\ k.emit = s.emit
BY DerivesBeside DEF Follows

OneMember(s, st) == [s EXCEPT !.structs[st].nelem = @ + 1]

LEMMA OneMemberStep ==
  ASSUME NEW s, TypesOK(s), NEW st \in ObjId
  PROVE  LET k == OneMember(s, st)
         IN  /\ Follows(s, k) /\ k.rt = s.rt /\ k.text = s.text /\ k.said = s.said
             /\ k.constant_id = s.constant_id /\ k.written = s.written
             /\ k.emit = s.emit /\ k.begun = s.begun
<1> DEFINE x == s.structs[st]
           v == [x EXCEPT !.nelem = x.nelem + 1]
           k == OneMember(s, st)
<1>0. StoreOK(s) /\ ConstsOK(s) /\ RegOK(s.rt) /\ DOMAIN s = Fields
      /\ DOMAIN s.structs = ObjId /\ \A t \in ObjId : DOMAIN s.structs[t] = StructFields
  BY DEF TypesOK, StoreOK
<1>1. k = [s EXCEPT !.structs = [s.structs EXCEPT ![st] = v]] BY <1>0 DEF OneMember, Fields
<1>2. DOMAIN v = StructFields /\ v.made = x.made /\ v.prev = x.prev BY <1>0 DEF StructFields
<1> HIDE DEF k, v
<1>3. /\ DOMAIN k = Fields /\ k.rt = s.rt /\ k.text = s.text
      /\ k.structs = [s.structs EXCEPT ![st] = v]
      /\ k.enums = s.enums /\ k.unnamed = s.unnamed /\ k.written = s.written
      /\ k.constant_id = s.constant_id /\ k.begun = s.begun /\ k.emit = s.emit
      /\ k.forms = s.forms /\ k.current_struct = s.current_struct
      /\ k.decls = s.decls /\ k.dtors = s.dtors /\ k.said = s.said
  BY <1>0, <1>1 DEF Fields
<1>4. DOMAIN k.structs = ObjId /\ \A t \in ObjId :
        /\ DOMAIN k.structs[t] = StructFields
        /\ k.structs[t].made = s.structs[t].made /\ k.structs[t].prev = s.structs[t].prev
  BY <1>0, <1>2, <1>3
<1>5. ConstsOK(k) BY <1>0, <1>3 DEF ConstsOK
<1>6. TypesOK(k) /\ Grows(s, k) BY <1>0, <1>3, <1>4, <1>5, SameTypes DEF StoreOK
<1>7. Beside(s, k) BY <1>0, <1>3, <1>4, Ranges DEF Beside, SameOpen, SamePrevs
<1>8. QED BY <1>3, <1>6, <1>7 DEF Follows, SameStacks, k

(* gghc_struct_elem.                                                       *)
MemberSaid(s, k, d) ==
  DeclaredBy(k.said) =
    DeclaredBy(s.said) \cup
      (IF s.emit = 0 THEN {}
       ELSE {Declares("element", d.identifier, s.text[d.type].term)})

LEMMA MemberTypes ==
  ASSUME NEW s, TypesOK(s), s.current_struct \in 1..s.rt.next - 1,
         NEW d, d.type # 0, Typ(s, d.type),
         s.emit # 0 /\ Declared => s.text[s.current_struct].term \in s.begun
  PROVE  LET k == Member(s, d)
         IN  /\ Follows(s, k) /\ SameTypeNames(s.rt, k.rt)
             /\ Says(s, k, {"sizeof", "element"}) /\ MemberSaid(s, k, d)
             /\ k.rt.halt = s.rt.halt /\ k.rt.next = s.rt.next /\ k.text = s.text
             /\ k.constant_id <= s.constant_id + 2
<1> DEFINE st == s.current_struct
           tag == s.text[st].term
           named == s.rt.heap[st].name # NoName
           r == StructElem(s.rt, st, d.identifier, d.type)
           a == [s EXCEPT !.rt = StructElem(@, st, d.identifier, d.type)]
           size == named /\ s.structs[st].nelem = 0
           sc == NextConstant(a, "sizeof", NoName, tag)
           b == Constant(a, "sizeof", NoName, tag)
           sf == Form("sizeof", NoName, Text(NullTerm, {sc}, {tag}))
           k == IF size THEN Say(b, sf) ELSE a
           offset == named /\ d.bits = Literal(0)
           oc == NextConstant(k, "offsetof", d.identifier, tag)
           l == IF offset THEN Constant(k, "offsetof", d.identifier, tag) ELSE k
           uses == IF offset THEN {oc} ELSE {}
           m == OneMember(l, st)
           w == [s.text[d.type] EXCEPT !.consts = @ \cup uses]
           ef == Form("element", d.identifier, w)
           e == Member(s, d)
<1>0. /\ StoreOK(s) /\ RegOK(s.rt) /\ DOMAIN s = Fields /\ st \in ObjId
      /\ s.constant_id \in Nat /\ s.rt.next \in Nat
  BY Ranges DEF TypesOK, StoreOK, ConstsOK
<1>1. /\ RegOK(r) /\ TagStep(s.rt, r) /\ SameOpen(s.rt, r) /\ SameTypeNames(s.rt, r)
      /\ SamePrevs(s.rt, r) /\ r.next = s.rt.next /\ r.halt = s.rt.halt
  BY <1>0, StructElemStep
<1>2. a = WithRegistry(s, r) BY DEF WithRegistry
<1>3. e = Say(m, ef) BY DEF Member, OneMember
<1> HIDE DEF st, r, a, e
<1>4. /\ Derives(s, a) /\ SameStacks(s, a) /\ a.rt = r /\ a.text = s.text
      /\ a.constant_id = s.constant_id
  <2>1. \A t \in s.rt.next..r.next - 1 : r.heap[t].kind \in TagKinds /\ ~ Declared
    BY <1>0, <1>1
  <2>2. QED BY <1>1, <1>2, <2>1, RegistryStep
<1>5. /\ Follows(s, a) /\ TypesOK(a) /\ a.said = s.said /\ a.emit = s.emit
      /\ a.begun = s.begun
  BY <1>4, DerivesFollows DEF Follows, Derives, Stays
<1>6. /\ Derives(a, b) /\ SameStacks(a, b) /\ b.rt = a.rt /\ b.text = a.text
      /\ b.constant_id = a.constant_id + 1
      /\ a.emit # 0 => sc \in b.written
  BY <1>5, ConstantStep
<1>7. /\ Follows(a, b) /\ TypesOK(b) /\ b.said = a.said /\ b.emit = a.emit
      /\ b.begun = a.begun
  BY <1>6, DerivesFollows DEF Follows, Derives, Stays
<1> HIDE DEF b, sc
<1>8. /\ sf.kind = "sizeof" /\ sf.text.consts = {sc} /\ sf.text.tags = {tag}
  BY DEF Form, Text
<1>9. b.emit # 0 => FormOK(b, sf)
  BY <1>5, <1>6, <1>7, <1>8 DEF FormOK, st
<1> HIDE DEF sf
<1>10. /\ Follows(s, k) /\ TypesOK(k) /\ k.rt = r /\ k.text = s.text /\ k.emit = s.emit
       /\ k.begun = s.begun /\ k.constant_id \in Nat
       /\ k.constant_id <= s.constant_id + 1 /\ Says(s, k, {"sizeof"})
       /\ DeclaredBy(k.said) = DeclaredBy(s.said)
  <2>1. CASE size
    <3>1. k = Say(b, sf) BY <2>1
    <3> HIDE DEF k
    <3>2. /\ Follows(b, k) /\ Says(b, k, {sf.kind}) /\ k.rt = b.rt /\ k.text = b.text
          /\ k.constant_id = b.constant_id /\ k.begun = b.begun /\ k.emit = b.emit
          /\ k.said = IF b.emit # 0 THEN b.said \cup {sf} ELSE b.said
      <4>1. /\ TypesOK(k) /\ Grows(b, k) /\ SameStacks(b, k) /\ Beside(b, k)
            /\ Says(b, k, {sf.kind}) /\ k.rt = b.rt /\ k.text = b.text
            /\ k.constant_id = b.constant_id /\ k.begun = b.begun
            /\ k.said = IF b.emit # 0 THEN b.said \cup {sf} ELSE b.said
        BY <1>7, <1>9, <3>1, SayStep
      <4>2. QED BY <4>1 DEF Follows, Grows
    <3>3. Follows(s, k) BY <1>5, <1>7, <3>2, FollowsTwice
    <3>4. sf.kind \notin DeclKinds BY <1>8 DEF DeclKinds
    <3>5. DeclaredBy(k.said) = DeclaredBy(s.said)
      <4>1. b.said = s.said BY <1>5, <1>7
      <4>2. k.said = s.said \cup {sf} \/ k.said = s.said BY <3>2, <4>1
      <4>3. QED BY <3>4, <4>2, DeclaredByMore
    <3>6. Says(s, k, {"sizeof"}) BY <1>5, <1>7, <1>8, <3>2 DEF Says
    <3>7. QED BY <1>0, <1>4, <1>5, <1>6, <1>7, <3>2, <3>3, <3>5, <3>6 DEF Follows
  <2>2. CASE ~ size
    <3>1. Says(s, a, {"sizeof"}) BY <1>5 DEF Says
    <3>2. k = a BY <2>2
    <3>3. QED BY <1>0, <1>4, <1>5, <3>1, <3>2
  <2>3. QED BY <2>1, <2>2
<1> HIDE DEF k, size
<1>11. /\ Follows(k, l) /\ TypesOK(l) /\ l.rt = r /\ l.text = s.text /\ l.emit = s.emit
       /\ l.begun = s.begun /\ l.constant_id \in Nat /\ l.said = k.said
       /\ l.constant_id <= k.constant_id + 1 /\ (s.emit # 0 => uses \subseteq l.written)
       /\ k.written \subseteq l.written
  <2>1. CASE offset
    <3>1. l = Constant(k, "offsetof", d.identifier, tag) /\ uses = {oc} BY <2>1
    <3> HIDE DEF l, uses
    <3>2. /\ Derives(k, l) /\ SameStacks(k, l) /\ l.rt = k.rt /\ l.text = k.text
          /\ l.constant_id = k.constant_id + 1 /\ (k.emit # 0 => oc \in l.written)
      BY <1>10, <3>1, ConstantStep
    <3>3. Follows(k, l) /\ l.said = k.said /\ l.emit = k.emit BY <3>2, DerivesFollows
    <3>4. TypesOK(l) /\ k.written \subseteq l.written /\ l.begun = k.begun
      BY <3>2 DEF Derives, Stays, Grows
    <3>5. QED BY <1>10, <3>1, <3>2, <3>3, <3>4
  <2>2. CASE ~ offset
    <3>1. l = k /\ uses = {} BY <2>2
    <3>2. Follows(k, k) BY <1>10, DerivesSelf, DerivesFollows, StaysSelf
    <3>3. QED BY <1>10, <3>1, <3>2
  <2>3. QED BY <2>1, <2>2
<1> HIDE DEF l, uses, offset, oc
<1>12. /\ Follows(l, m) /\ m.rt = l.rt /\ m.text = l.text /\ m.said = l.said
       /\ m.constant_id = l.constant_id /\ m.written = l.written
       /\ m.emit = l.emit /\ m.begun = l.begun /\ TypesOK(m)
  BY <1>0, <1>11, OneMemberStep DEF Follows
<1> HIDE DEF m
<1>13. DOMAIN s.text[d.type] = TextFields /\ d.type \in 1..s.rt.next - 1 /\ d.type \in ObjId
  BY <1>0, Ranges DEF Typ, StoreOK
<1>14. /\ w.consts = s.text[d.type].consts \cup uses /\ w.tags = s.text[d.type].tags
       /\ w.term = s.text[d.type].term
  BY <1>13 DEF TextFields
<1> HIDE DEF w
<1>15. Follows(s, m) BY <1>5, <1>10, <1>11, <1>12, FollowsTwice
<1>16. ef.kind = "element" /\ ef.name = d.identifier /\ ef.text = w BY DEF Form
<1> HIDE DEF ef
<1>17. m.emit # 0 => FormOK(m, ef)
  <2>1. ASSUME m.emit # 0 PROVE FormOK(m, ef)
    <3>1. s.emit # 0 BY <1>11, <1>12, <2>1
    <3>2. Good(m, d.type) BY <1>13, <1>15, TypGrows DEF Follows, Typ
    <3>3. m.text[d.type] = s.text[d.type] BY <1>11, <1>12
    <3>4. QED BY <1>11, <1>12, <1>14, <1>16, <2>1, <3>1, <3>2, <3>3 DEF FormOK, Good, Writable
  <2>2. QED BY <2>1
<1>18. /\ Follows(m, e) /\ Says(m, e, {"element"}) /\ e.rt = m.rt /\ e.text = m.text
       /\ e.constant_id = m.constant_id
       /\ e.said = IF m.emit # 0 THEN m.said \cup {ef} ELSE m.said
       /\ e.written = m.written /\ e.begun = m.begun
  BY <1>3, <1>12, <1>16, <1>17, SayStep DEF Follows
<1>19. Follows(s, e) BY <1>15, <1>18, FollowsTwice
<1>20. MemberSaid(s, e, d)
  <2>1. CASE s.emit = 0
    <3>1. e.said = k.said BY <1>11, <1>12, <1>18, <2>1
    <3>2. QED BY <1>10, <2>1, <3>1 DEF MemberSaid
  <2>2. CASE s.emit # 0
    <3>1. e.said = k.said \cup {ef} BY <1>11, <1>12, <1>18, <2>2
    <3>2. ef.kind \in DeclKinds BY <1>16 DEF DeclKinds
    <3>3. DeclaredBy(e.said) =
            DeclaredBy(k.said) \cup {Declares(ef.kind, ef.name, ef.text.term)}
      BY <3>1, <3>2, DeclaredByMore
    <3>4. QED BY <1>10, <1>14, <1>16, <2>2, <3>3 DEF MemberSaid
  <2>3. QED BY <2>1, <2>2
<1>21. Says(s, e, {"sizeof", "element"})
  <2>1. k.written \subseteq e.written /\ k.begun = e.begun BY <1>10, <1>11, <1>12, <1>18
  <2>2. \A f \in k.said : FormOK(k, f) => FormOK(e, f) BY <2>1 DEF FormOK
  <2>3. s.said \subseteq e.said BY <1>10, <1>11, <1>12, <1>18 DEF Says
  <2>4. \A f \in e.said : f \in k.said \/ (f.kind = "element" /\ FormOK(e, f))
    BY <1>11, <1>12, <1>18 DEF Says
  <2>5. QED BY <1>10, <2>2, <2>3, <2>4 DEF Says
<1>22. k.constant_id \in Nat /\ e.constant_id <= s.constant_id + 2
  BY <1>0, <1>10, <1>11, <1>12, <1>18
<1>23. QED BY <1>1, <1>11, <1>12, <1>18, <1>19, <1>20, <1>21, <1>22 DEF e

-----------------------------------------------------------------------------
(* Names of types, members.                                                *)

LEMMA MatchIn ==
  ASSUME NEW tab, NEW name, Found(tab, name)
  PROVE  Lookup(tab, name) \in tab /\ Lookup(tab, name).name = name
<1>1. \E x \in Matches(tab, name) : TRUE BY DEF Found
<1>2. Lookup(tab, name) \in Matches(tab, name) BY <1>1 DEF Lookup
<1>3. QED BY <1>2 DEF Matches

(* ggrt_type of the name of an intrinsic type, and of a typedef's.         *)
LEMMA NameLookup ==
  ASSUME NEW r, RegOK(r), NEW name, name \in Intrinsics \/ Found(Cur(r).tab["type"], name)
  PROVE  LET t == TypeByName(r, name)
         IN  /\ t \in 1..r.next - 1 /\ t # 0 /\ r.heap[t].name = name
             /\ r.heap[t].kind = (IF name \in Intrinsics THEN "intrinsic" ELSE "typedef")
<1>1. name \in Intrinsics => Found(IntrinsicTable(r), name) BY DEF RegOK, NamesOK
<1>2. \E y \in Cur(r).tab["type"] \cup IntrinsicTable(r) :
        y.name = name /\ TypeByName(r, name) = y.addr
  BY <1>1, MatchIn DEF TypeByName
<1>3. r.next \in Nat BY Ranges
<1>4. QED BY <1>2, <1>3 DEF RegOK, NamesOK

LEMMA NamedType ==
  ASSUME NEW s, TypesOK(s), NEW name,
         name \in Intrinsics \/ (~ Resolved /\ Found(Cur(s.rt).tab["type"], name))
  PROVE  LET t == TypeByName(s.rt, name)
         IN  /\ Prim(s, t) /\ t # 0
             /\ name \in Intrinsics => s.text[t].term = Base(name)
<1> DEFINE t == TypeByName(s.rt, name)
<1>0. RegOK(s.rt) /\ s.rt.next \in Nat BY Ranges DEF TypesOK, StoreOK
<1>1. /\ t \in 1..s.rt.next - 1 /\ t # 0 /\ s.rt.heap[t].name = name
      /\ s.rt.heap[t].kind = (IF name \in Intrinsics THEN "intrinsic" ELSE "typedef")
  BY <1>0, NameLookup
<1> HIDE DEF t
<1>2. TextOK(s, t) BY <1>1 DEF TypesOK
<1>3. /\ s.text[t].consts = {} /\ s.text[t].tags = {}
      /\ name \in Intrinsics => s.text[t].term = Base(name)
  BY <1>1, <1>2 DEF TextOK, BaseKinds
<1>4. t \in 0..s.rt.next - 1 BY <1>0, <1>1
<1>5. Prim(s, t) BY <1>1, <1>3, <1>4 DEF Prim, Typ, Good, Writable
<1>6. QED BY <1>1, <1>3, <1>5 DEF t

(* A form has been written, and more is defined by now.                    *)
LEMMA SaysLater ==
  ASSUME NEW s, NEW k, NEW l, NEW kinds, s.said = k.said, Says(k, l, kinds)
  PROVE  Says(s, l, kinds)
BY DEF Says

(* gghc_struct_elem_decl, with the bits of a bit-field if it has any.      *)
MemberText(s, t, bits) ==
  IF bits = Literal(0) THEN s.text[t].term ELSE BitsOf(s.text[t].term, bits)

LEMMA StructElemDeclStep ==
  ASSUME NEW s, TypesOK(s), s.current_struct \in 1..s.rt.next - 1,
         s.rt.heap[s.current_struct].kind \in StructKinds,
         NEW d, Typ(s, d.type), DOMAIN d = DtorFields,
         d.bits = Literal(0) \/ Room(s.rt, 1),
         s.emit # 0 /\ Declared => s.text[s.current_struct].term \in s.begun
  PROVE  LET k == StructElemDecl(s, d)
         IN  /\ Follows(s, k) /\ SameTypeNames(s.rt, k.rt)
             /\ Says(s, k, {"sizeof", "element"})
             /\ k.constant_id <= s.constant_id + 3
             /\ d.identifier # NoName => k.rt.halt = s.rt.halt
             /\ d.identifier # NoName /\ d.type # 0 =>
                  DeclaredBy(k.said) =
                    DeclaredBy(s.said) \cup
                      (IF s.emit = 0 THEN {}
                       ELSE {Declares("element", d.identifier,
                                      MemberText(s, d.type, d.bits))})
<1> DEFINE bits == d.bits # Literal(0)
           t == IF d.type = 0 THEN TypeByName(s.rt, "int") ELSE d.type
           m == IF bits THEN MakeBitfield(s, t, d.bits) ELSE s
           x == IF bits THEN m.rt.next - 1 ELSE t
           e == [d EXCEPT !.type = IF bits THEN m.rt.next - 1 ELSE t]
           k == StructElemDecl(s, d)
<1>0. RegOK(s.rt) /\ s.rt.next \in Nat /\ s.constant_id \in Nat
  BY Ranges DEF TypesOK, StoreOK, ConstsOK
<1>1. Typ(s, t) /\ t # 0
  <2>1. "int" \in Intrinsics BY CompilerAssumption
  <2>2. CASE d.type = 0 BY <2>1, <2>2, NamedType DEF Prim
  <2>3. CASE d.type # 0 BY <2>3
  <2>4. QED BY <2>2, <2>3
<1>2. k = IF d.identifier = NoName THEN Stop(m, "abort") ELSE Member(m, e)
  BY DEF StructElemDecl
<1>3. e.type = x /\ e.identifier = d.identifier /\ e.bits = d.bits BY DEF DtorFields
<1>t. d.type # 0 => t = d.type OBVIOUS
<1> HIDE DEF k, e, t
<1>4. /\ Derives(s, m) /\ SameStacks(s, m) /\ m.rt.halt = s.rt.halt
      /\ m.constant_id \in Nat /\ m.constant_id <= s.constant_id + 1
      /\ Typ(m, x) /\ x # 0 /\ m.text[x].term = MemberText(s, t, d.bits)
  <2>1. CASE bits
    <3>1. m = MakeBitfield(s, t, d.bits) /\ x = m.rt.next - 1 BY <2>1
    <3> HIDE DEF m, x
    <3>2. /\ Derives(s, m) /\ SameStacks(s, m) /\ m.rt.halt = s.rt.halt
          /\ m.rt.next = s.rt.next + 1 /\ m.constant_id <= s.constant_id + 1
          /\ Typ(m, s.rt.next) /\ s.rt.next # 0
          /\ m.text[s.rt.next].term = BitsOf(s.text[t].term, d.bits)
      BY <1>1, <2>1, <3>1, MakeBitfieldStep
    <3>3. x = s.rt.next BY <1>0, <3>1, <3>2
    <3>4. m.constant_id \in Nat BY <3>2 DEF Derives, TypesOK, ConstsOK
    <3>5. QED BY <2>1, <3>2, <3>3, <3>4 DEF MemberText
  <2>2. CASE ~ bits
    <3>1. m = s /\ x = t BY <2>2
    <3>2. Derives(s, s) /\ SameStacks(s, s) BY DerivesSelf, StaysSelf
    <3>3. QED BY <1>0, <1>1, <2>2, <3>1, <3>2 DEF MemberText
  <2>3. QED BY <2>1, <2>2
<1> HIDE DEF m, x
<1>5. /\ Follows(s, m) /\ TypesOK(m) /\ SameTypeNames(s.rt, m.rt) /\ m.said = s.said
      /\ m.emit = s.emit /\ m.current_struct = s.current_struct /\ m.begun = s.begun
      /\ Grows(s, m) /\ Beside(s, m)
  BY <1>4, DerivesFollows, DerivesBeside DEF Derives, Stays
<1>6. CASE d.identifier = NoName
  <2>1. k = Stop(m, "abort") BY <1>2, <1>6
  <2>2. Derives(m, k) /\ SameStacks(m, k) /\ k.constant_id = m.constant_id
    BY <1>5, <2>1, StopStep
  <2>3. Follows(m, k) /\ SameTypeNames(m.rt, k.rt) /\ k.said = m.said BY <2>2, DerivesFollows
  <2>4. Follows(s, k) BY <1>5, <2>3, FollowsTwice
  <2>5. Says(s, k, {"sizeof", "element"}) BY <1>5, <2>3 DEF Says
  <2>6. k.constant_id <= s.constant_id + 3 BY <1>0, <1>4, <2>2
  <2>7. QED BY <1>5, <1>6, <2>3, <2>4, <2>5, <2>6 DEF SameTypeNames, k
<1>7. CASE d.identifier # NoName
  <2>1. k = Member(m, e) BY <1>2, <1>7
  <2>2. m.current_struct \in 1..m.rt.next - 1 BY <1>5, GrowsNext
  <2>3. m.emit # 0 /\ Declared => m.text[m.current_struct].term \in m.begun
    <3>1. ASSUME m.emit # 0, Declared PROVE m.text[m.current_struct] = s.text[s.current_struct]
      BY <1>5 DEF Beside, StructKinds, TagKinds
    <3>2. QED BY <1>5, <3>1
  <2>4. e.type # 0 /\ Typ(m, e.type) BY <1>3, <1>4
  <2>5. /\ Follows(m, k) /\ SameTypeNames(m.rt, k.rt)
        /\ Says(m, k, {"sizeof", "element"}) /\ MemberSaid(m, k, e)
        /\ k.rt.halt = m.rt.halt /\ k.constant_id <= m.constant_id + 2
    BY <1>5, <2>1, <2>2, <2>3, <2>4, MemberTypes
  <2>6. Follows(s, k) BY <1>5, <2>5, FollowsTwice
  <2>7. Says(s, k, {"sizeof", "element"}) BY <1>5, <2>5, SaysLater
  <2>8. k.constant_id \in Nat BY <2>5 DEF Follows, TypesOK, ConstsOK
  <2>9. k.constant_id <= s.constant_id + 3 BY <1>0, <1>4, <2>5, <2>8
  <2>10. d.type # 0 =>
           DeclaredBy(k.said) =
             DeclaredBy(s.said) \cup
               (IF s.emit = 0 THEN {}
                ELSE {Declares("element", d.identifier, MemberText(s, d.type, d.bits))})
    BY <1>t, <1>3, <1>4, <1>5, <2>5 DEF MemberSaid
  <2>11. SameTypeNames(s.rt, k.rt) BY <1>5, <2>5 DEF SameTypeNames
  <2>12. QED BY <1>4, <2>5, <2>6, <2>7, <2>9, <2>10, <2>11 DEF k
<1>8. QED BY <1>6, <1>7

-----------------------------------------------------------------------------
(* The types of declarations and of declarators.                           *)

DtorTyped(s, d) == Typ(s, d.type) /\ d.identifier \notin Intrinsics
DeclTyped(s, d) ==
  /\ Prim(s, d.type)
  /\ \A j \in DOMAIN d.declarators : DtorTyped(s, d.declarators[j])

StacksTyped(s) ==
  /\ \A i \in 1..Len(s.decls) : DeclTyped(s, s.decls[i])
  /\ \A i \in 1..Len(s.dtors) : DtorTyped(s, s.dtors[i])

Held(s) == TypesOK(s) /\ Shaped(s) /\ SaidOK(s) /\ StacksTyped(s)

LEMMA TypedGrows ==
  ASSUME NEW s, TypesOK(s), NEW k, TypesOK(k), Grows(s, k)
  PROVE  /\ \A d : DtorTyped(s, d) => DtorTyped(k, d)
         /\ \A d : DeclTyped(s, d) => DeclTyped(k, d)
<1>1. \A t : Typ(s, t) => Typ(k, t) BY TypGrows
<1>2. \A t : Prim(s, t) => Prim(k, t) BY TypGrows DEF Prim
<1>3. \A d : DtorTyped(s, d) => DtorTyped(k, d) BY <1>1 DEF DtorTyped
<1>4. \A d : DeclTyped(s, d) => DeclTyped(k, d) BY <1>2, <1>3 DEF DeclTyped
<1>5. QED BY <1>3, <1>4

(* Nothing but one more form is written: what is held stays so.            *)
LEMMA HeldFollows ==
  ASSUME NEW s, Held(s), NEW k, Follows(s, k), NEW kinds, k.said = s.said \/ Says(s, k, kinds)
  PROVE  Held(k)
<1>1. TypesOK(s) /\ TypesOK(k) /\ Grows(s, k) /\ SameStacks(s, k) BY DEF Held, Follows
<1>2. StacksTyped(k) BY <1>1, TypedGrows DEF Held, StacksTyped, SameStacks
<1>3. Shaped(k) BY <1>1 DEF Held, Shaped, SameStacks, TypesOK, StoreOK
<1>4. \A f : FormOK(s, f) => FormOK(k, f) BY <1>1 DEF FormOK, Grows
<1>5. SaidOK(k) BY <1>4 DEF Held, SaidOK, Says
<1>6. QED BY <1>1, <1>2, <1>3, <1>5 DEF Held

(* Steps that change the stacks only.                                      *)
Same(s, k) ==
  /\ DOMAIN k = Fields
  /\ k.rt = s.rt /\ k.text = s.text /\ k.structs = s.structs
  /\ k.current_struct = s.current_struct /\ k.enums = s.enums /\ k.emit = s.emit
  /\ k.constant_id = s.constant_id /\ k.unnamed = s.unnamed /\ k.said = s.said
  /\ k.written = s.written /\ k.begun = s.begun /\ k.forms = s.forms

LEMMA SameStep ==
  ASSUME NEW s, TypesOK(s), NEW k, Same(s, k)
  PROVE  /\ TypesOK(k) /\ Grows(s, k) /\ Beside(s, k) /\ SameTypeNames(s.rt, k.rt)
         /\ Derives(s, k)
<1>0. StoreOK(s) /\ ConstsOK(s) /\ RegOK(s.rt) BY DEF TypesOK, StoreOK
<1>1. ConstsOK(k) BY <1>0 DEF Same, ConstsOK
<1>2. TypesOK(k) /\ Grows(s, k) BY <1>0, <1>1, SameTypes DEF Same, StoreOK
<1>3. Stays(s, k) BY DEF Same, Stays, SameOpen, SamePrevs, SameTypeNames
<1>4. Derives(s, k) BY <1>2, <1>3 DEF Derives
<1>5. QED BY <1>2, <1>4, DerivesBeside

LEMMA SameHeld ==
  ASSUME NEW s, Held(s), NEW k, Same(s, k), Shaped(k),
         \A i \in 1..Len(k.decls) : DeclTyped(s, k.decls[i]),
         \A i \in 1..Len(k.dtors) : DtorTyped(s, k.dtors[i])
  PROVE  Held(k)
<1>1. TypesOK(s) BY DEF Held
<1>2. TypesOK(k) /\ Grows(s, k) BY <1>1, SameStep
<1>3. StacksTyped(k) BY <1>1, <1>2, TypedGrows DEF StacksTyped
<1>4. SaidOK(k) BY DEF Held, SaidOK, FormOK, Same
<1>5. QED BY <1>2, <1>3, <1>4 DEF Held

(* The elements of the stacks but the last ones are the same.              *)
BelowSame(x, y) == /\ Len(y) = Len(x)
                   /\ \A i \in 1..Len(x) - 1 : y[i] = x[i]

(* The current declarator becomes v.                                       *)
SetDtor(s, v) == [s EXCEPT !.dtors[Len(s.dtors)] = v]

LEMMA SetDtorStep ==
  ASSUME NEW s, Held(s), Len(s.dtors) >= 1, NEW v, DOMAIN v = DtorFields, DtorTyped(s, v)
  PROVE  LET k == SetDtor(s, v)
         IN  /\ Held(k) /\ Same(s, k) /\ k.decls = s.decls /\ k.failed = s.failed
             /\ BelowSame(s.dtors, k.dtors)
             /\ k.dtors[Len(s.dtors)] = v
<1> DEFINE n == Len(s.dtors)
           k == SetDtor(s, v)
<1>0. Shaped(s) /\ DOMAIN s = Fields /\ IsSeq(s.dtors) BY DEF Held, Shaped
<1>1. n \in Nat /\ DOMAIN s.dtors = 1..n BY <1>0, SeqFacts
<1>2. k.dtors = [s.dtors EXCEPT ![n] = v] /\ Same(s, k) /\ k.decls = s.decls
      /\ k.failed = s.failed
  BY <1>0 DEF Fields, SetDtor, Same
<1> HIDE DEF k
<1>3. IsSeq(k.dtors) /\ DOMAIN k.dtors = 1..n
  <2>1. IsSeq(s.dtors) BY <1>0
  <2>2. k.dtors = [s.dtors EXCEPT ![n] = v] BY <1>2
  <2>3. IsSeq(k.dtors) BY <2>1, <2>2, Replaced
  <2>4. QED BY <1>1, <1>2, <2>3
<1>4. Len(k.dtors) = n
  <2>1. DOMAIN k.dtors = 1..Len(k.dtors) /\ Len(k.dtors) \in Nat BY <1>3, SeqFacts
  <2>2. QED BY <1>1, <1>3, <2>1
<1>5. k.dtors[n] = v /\ \A i \in 1..n : i # n => k.dtors[i] = s.dtors[i] BY <1>1, <1>2
<1>6. Shaped(k) BY <1>0, <1>2, <1>3, <1>4, <1>5 DEF Shaped, Same
<1>7. \A i \in 1..Len(k.dtors) : DtorTyped(s, k.dtors[i])
  BY <1>4, <1>5 DEF Held, StacksTyped
<1>8. Held(k) BY <1>2, <1>6, <1>7, SameHeld DEF Held, StacksTyped
<1>9. BelowSame(s.dtors, k.dtors) BY <1>1, <1>4, <1>5 DEF BelowSame
<1>10. QED BY <1>2, <1>5, <1>8, <1>9 DEF k

LEMMA SetTypeStep ==
  ASSUME NEW s, Held(s), Len(s.dtors) >= 1, NEW t, Typ(s, t)
  PROVE  LET k == SetType(s, t)
             n == Len(s.dtors)
         IN  /\ Held(k) /\ Same(s, k) /\ k.decls = s.decls /\ BelowSame(s.dtors, k.dtors)
             /\ k.failed = s.failed /\ CurDtor(k) = k.dtors[n]
             /\ k.dtors[n] = [s.dtors[n] EXCEPT !.type = t]
             /\ k.dtors[n].type = t /\ k.dtors[n].identifier = s.dtors[n].identifier
             /\ k.dtors[n].parenthised = s.dtors[n].parenthised
             /\ k.dtors[n].bits = s.dtors[n].bits
<1> DEFINE n == Len(s.dtors)
           v == [s.dtors[n] EXCEPT !.type = t]
           k == SetType(s, t)
<1>0. Shaped(s) /\ DOMAIN s = Fields /\ IsSeq(s.dtors) /\ n \in Nat /\ n \in 1..n
      /\ DOMAIN s.dtors = 1..n
  BY SeqFacts DEF Held, Shaped
<1>1. k = SetDtor(s, v) BY <1>0 DEF SetType, SetDtor, Fields
<1>2. DOMAIN s.dtors[n] = DtorFields /\ DtorTyped(s, s.dtors[n])
  BY <1>0 DEF Shaped, Held, StacksTyped
<1>3. /\ DOMAIN v = DtorFields /\ v.type = t /\ v.identifier = s.dtors[n].identifier
      /\ v.parenthised = s.dtors[n].parenthised /\ v.bits = s.dtors[n].bits
  BY <1>2 DEF DtorFields
<1> HIDE DEF k, v
<1>4. DtorTyped(s, v) BY <1>2, <1>3 DEF DtorTyped
<1>5. /\ Held(k) /\ Same(s, k) /\ k.decls = s.decls /\ BelowSame(s.dtors, k.dtors)
      /\ k.dtors[n] = v /\ k.failed = s.failed
  BY <1>0, <1>1, <1>3, <1>4, SetDtorStep
<1>6. CurDtor(k) = k.dtors[n] BY <1>5 DEF CurDtor, Last, BelowSame
<1>7. QED BY <1>3, <1>5, <1>6 DEF k, v

(* The current declaration becomes v.                                      *)
SetDecl(s, v) == [s EXCEPT !.decls[Len(s.decls)] = v]

LEMMA SetDeclStep ==
  ASSUME NEW s, Held(s), Len(s.decls) >= 1, NEW v, DOMAIN v = DeclFields,
         IsSeq(v.declarators), DeclTyped(s, v)
  PROVE  LET k == SetDecl(s, v)
         IN  /\ Held(k) /\ Same(s, k) /\ k.dtors = s.dtors
             /\ BelowSame(s.decls, k.decls) /\ k.decls[Len(s.decls)] = v
<1> DEFINE n == Len(s.decls)
           k == SetDecl(s, v)
<1>0. Shaped(s) /\ DOMAIN s = Fields /\ IsSeq(s.decls) BY DEF Held, Shaped
<1>1. n \in Nat /\ DOMAIN s.decls = 1..n BY <1>0, SeqFacts
<1>2. k.decls = [s.decls EXCEPT ![n] = v] /\ Same(s, k) /\ k.dtors = s.dtors
  BY <1>0 DEF Fields, SetDecl, Same
<1> HIDE DEF k
<1>3. IsSeq(k.decls) /\ DOMAIN k.decls = 1..n
  <2>1. IsSeq(k.decls) BY <1>0, <1>2, Replaced, ZenonT(60)
  <2>2. QED BY <1>1, <1>2, <2>1
<1>4. Len(k.decls) = n
  <2>1. DOMAIN k.decls = 1..Len(k.decls) /\ Len(k.decls) \in Nat BY <1>3, SeqFacts
  <2>2. QED BY <1>1, <1>3, <2>1
<1>5. k.decls[n] = v /\ \A i \in 1..n : i # n => k.decls[i] = s.decls[i] BY <1>1, <1>2
<1>6. Shaped(k) BY <1>0, <1>2, <1>3, <1>4, <1>5 DEF Shaped, Same
<1>7. \A i \in 1..Len(k.decls) : DeclTyped(s, k.decls[i])
  BY <1>4, <1>5 DEF Held, StacksTyped
<1>8. Held(k) BY <1>2, <1>6, <1>7, SameHeld DEF Held, StacksTyped
<1>9. BelowSame(s.decls, k.decls) BY <1>1, <1>4, <1>5 DEF BelowSame
<1>10. QED BY <1>2, <1>5, <1>8, <1>9 DEF k

Failing(s, b) == [s EXCEPT !.failed = @ \/ b]

LEMMA SameTwice ==
  ASSUME NEW s, NEW k, Same(s, k), NEW l, Same(k, l)
  PROVE  Same(s, l)
BY DEF Same

(* The type field of the current declaration, or declarator, is t.         *)
TypeSet(x, y, t) ==
  /\ BelowSame(x, y)
  /\ y[Len(x)] = [x[Len(x)] EXCEPT !.type = t]

LEMMA TypeSpecifierStep ==
  ASSUME NEW s, Held(s), Len(s.decls) >= 1, NEW t, Prim(s, t)
  PROVE  LET k == TypeSpecifier(s, t)
         IN  /\ Held(k) /\ Same(s, k) /\ TypeSet(s.decls, k.decls, t)
             /\ s.dtors = <<>> => k.dtors = <<>>
             /\ s.dtors # <<>> => Len(s.dtors) >= 1 /\ TypeSet(s.dtors, k.dtors, t)
<1> DEFINE n == Len(s.decls)
           v == [s.decls[n] EXCEPT !.type = t]
           m == SetDecl(s, v)
           l == Failing(m, t = 0)
           k == TypeSpecifier(s, t)
<1>0. Shaped(s) /\ DOMAIN s = Fields /\ IsSeq(s.decls) /\ n \in Nat /\ n \in 1..n
      /\ DOMAIN s.decls = 1..n /\ IsSeq(s.dtors) /\ Len(s.dtors) \in Nat
      /\ (s.dtors # <<>> => Len(s.dtors) >= 1)
  BY SeqFacts DEF Held, Shaped
<1>1. l = [s EXCEPT !.decls[Len(s.decls)].type = t, !.failed = @ \/ t = 0]
  BY <1>0 DEF Failing, SetDecl, Fields
<1>2. k = IF s.dtors = <<>> THEN l ELSE SetType(l, t) BY <1>1 DEF TypeSpecifier
<1>3. DOMAIN s.decls[n] = DeclFields /\ DeclTyped(s, s.decls[n])
      /\ IsSeq(s.decls[n].declarators)
  BY <1>0 DEF Shaped, Held, StacksTyped
<1>4. DOMAIN v = DeclFields /\ v.type = t /\ v.declarators = s.decls[n].declarators
  BY <1>3 DEF DeclFields
<1>5. DeclTyped(s, v) BY <1>3, <1>4 DEF DeclTyped
<1>6. /\ Held(m) /\ Same(s, m) /\ m.dtors = s.dtors
      /\ BelowSame(s.decls, m.decls) /\ m.decls[n] = v
  BY <1>0, <1>3, <1>4, <1>5, SetDeclStep
<1> HIDE DEF m
<1>7. Same(m, l) /\ l.decls = m.decls /\ l.dtors = m.dtors
  BY <1>6 DEF Held, Shaped, Failing, Same, Fields
<1> HIDE DEF l
<1>8. Held(l)
  <2>1. Shaped(l) BY <1>6, <1>7 DEF Held, Shaped, Same
  <2>2. QED BY <1>6, <1>7, <2>1, SameHeld DEF Held, StacksTyped
<1>9. Same(s, l) BY <1>6, <1>7, SameTwice
<1>10. TypeSet(s.decls, l.decls, t) BY <1>6, <1>7 DEF TypeSet
<1>11. CASE s.dtors = <<>>
  BY <1>2, <1>6, <1>7, <1>8, <1>9, <1>10, <1>11 DEF k
<1>12. CASE s.dtors # <<>>
  <2>1. k = SetType(l, t) BY <1>2, <1>12
  <2>2. Len(l.dtors) >= 1 BY <1>0, <1>6, <1>7, <1>12
  <2>3. Prim(l, t)
    <3>1. Grows(s, l) BY <1>9, SameStep DEF Held
    <3>2. QED BY <1>8, <3>1, TypGrows DEF Held, Prim
  <2>4. /\ Held(k) /\ Same(l, k) /\ k.decls = l.decls /\ BelowSame(l.dtors, k.dtors)
        /\ k.dtors[Len(l.dtors)] = [l.dtors[Len(l.dtors)] EXCEPT !.type = t]
    BY <1>8, <2>1, <2>2, <2>3, SetTypeStep DEF Prim
  <2>5. Same(s, k) BY <1>9, <2>4, SameTwice
  <2>6. TypeSet(s.dtors, k.dtors, t) BY <1>6, <1>7, <2>4 DEF TypeSet
  <2>7. QED BY <1>0, <1>10, <1>12, <2>4, <2>5, <2>6 DEF k
<1>13. QED BY <1>11, <1>12

(* One element more, and the others the same.                              *)
Pushed(x, y, v) ==
  /\ Len(y) = Len(x) + 1 /\ y[Len(x) + 1] = v
  /\ \A i \in 1..Len(x) : y[i] = x[i]
Popped(x, y) ==
  /\ Len(y) = Len(x) - 1
  /\ \A i \in 1..Len(x) - 1 : y[i] = x[i]

LEMMA DeclarationBeginStep ==
  ASSUME NEW s, Held(s)
  PROVE  LET k == DeclarationBegin(s)
             t == TypeByName(s.rt, "int")
         IN  /\ Held(k) /\ Same(s, k) /\ k.dtors = s.dtors
             /\ Pushed(s.decls, k.decls, NewDeclaration(t))
             /\ CurDecl(k) = NewDeclaration(t) /\ Prim(k, t) /\ Prim(s, t)
             /\ s.text[t].term = Base("int") /\ t # 0
<1> DEFINE t == TypeByName(s.rt, "int")
           v == NewDeclaration(t)
           k == DeclarationBegin(s)
<1>0. Shaped(s) /\ DOMAIN s = Fields /\ IsSeq(s.decls) /\ TypesOK(s) /\ Len(s.decls) \in Nat
  BY SeqFacts DEF Held, Shaped
<1>1. Prim(s, t) /\ t # 0 /\ s.text[t].term = Base("int")
  <2>1. "int" \in Intrinsics BY CompilerAssumption
  <2>2. QED BY <1>0, <2>1, NamedType
<1>2. /\ DOMAIN v = DeclFields /\ v.type = t /\ v.declarators = <<>> /\ IsSeq(v.declarators)
      /\ DOMAIN v.declarators = {}
  BY NoneIsSeq DEF NewDeclaration, DeclFields
<1>3. k.decls = Append(s.decls, v) /\ Same(s, k) /\ k.dtors = s.dtors
  BY <1>0 DEF DeclarationBegin, Same, Fields
<1> HIDE DEF k, v
<1>4. /\ IsSeq(k.decls) /\ Len(k.decls) = Len(s.decls) + 1
      /\ k.decls[Len(s.decls) + 1] = v
      /\ \A i \in 1..Len(s.decls) : k.decls[i] = s.decls[i]
  BY <1>0, <1>3, Appended
<1>5. Shaped(k) BY <1>0, <1>2, <1>3, <1>4 DEF Shaped, Same
<1>6. DeclTyped(s, v) BY <1>1, <1>2 DEF DeclTyped
<1>7. \A i \in 1..Len(k.decls) : DeclTyped(s, k.decls[i])
  BY <1>0, <1>4, <1>6 DEF Held, StacksTyped
<1>8. Held(k) BY <1>3, <1>5, <1>7, SameHeld DEF Held, StacksTyped
<1>9. Prim(k, t)
  <2>1. Grows(s, k) BY <1>0, <1>3, SameStep
  <2>2. QED BY <1>0, <1>1, <1>8, <2>1, TypGrows DEF Held, Prim
<1>10. CurDecl(k) = v BY <1>4 DEF CurDecl, Last
<1>11. QED BY <1>1, <1>3, <1>4, <1>8, <1>9, <1>10 DEF k, v, Pushed

LEMMA DeclarationEndStep ==
  ASSUME NEW s, Held(s), Len(s.decls) >= 1
  PROVE  LET k == DeclarationEnd(s)
         IN  /\ Held(k) /\ Same(s, k) /\ k.dtors = s.dtors /\ Popped(s.decls, k.decls)
<1> DEFINE k == DeclarationEnd(s)
<1>0. Shaped(s) /\ DOMAIN s = Fields /\ IsSeq(s.decls) /\ Len(s.decls) \in Nat
  BY SeqFacts DEF Held, Shaped
<1>1. k.decls = Front(s.decls) /\ Same(s, k) /\ k.dtors = s.dtors
  BY <1>0 DEF DeclarationEnd, Same, Fields
<1> HIDE DEF k
<1>2. IsSeq(k.decls) /\ Popped(s.decls, k.decls) BY <1>0, <1>1, Fronted DEF Popped
<1>3. \A i \in 1..Len(k.decls) : i \in 1..Len(s.decls) /\ k.decls[i] = s.decls[i]
  BY <1>0, <1>2 DEF Popped
<1>4. Shaped(k) BY <1>0, <1>1, <1>2, <1>3 DEF Shaped, Same
<1>5. Held(k) BY <1>1, <1>3, <1>4, SameHeld DEF Held, StacksTyped
<1>6. QED BY <1>1, <1>2, <1>5 DEF k

LEMMA DeclaratorBeginStep ==
  ASSUME NEW s, Held(s), Len(s.decls) >= 1
  PROVE  LET k == DeclaratorBegin(s)
             d == NewDeclarator(CurDecl(s).type, Len(s.decls))
         IN  /\ Held(k) /\ Same(s, k) /\ k.decls = s.decls /\ Pushed(s.dtors, k.dtors, d)
             /\ CurDtor(k) = d /\ Prim(k, CurDecl(s).type) /\ CurDecl(s) = s.decls[Len(s.decls)]
<1> DEFINE t == CurDecl(s).type
           d == NewDeclarator(t, Len(s.decls))
           k == DeclaratorBegin(s)
<1>0. /\ Shaped(s) /\ DOMAIN s = Fields /\ IsSeq(s.decls) /\ IsSeq(s.dtors) /\ TypesOK(s)
      /\ Len(s.decls) \in Nat /\ Len(s.dtors) \in Nat /\ s.decls # <<>>
      /\ Len(s.decls) \in 1..Len(s.decls)
  BY SeqFacts DEF Held, Shaped
<1>1. CurDecl(s) = s.decls[Len(s.decls)] /\ Prim(s, t)
  BY <1>0 DEF CurDecl, Last, Held, StacksTyped, DeclTyped
<1>2. DOMAIN d = DtorFields /\ d.type = t /\ d.identifier = NoName
  BY DEF NewDeclarator, DtorFields
<1>3. k.dtors = Append(s.dtors, d) /\ Same(s, k) /\ k.decls = s.decls
  BY <1>0 DEF DeclaratorBegin, Same, Fields
<1> HIDE DEF k, d, t
<1>4. /\ IsSeq(k.dtors) /\ Len(k.dtors) = Len(s.dtors) + 1
      /\ k.dtors[Len(s.dtors) + 1] = d
      /\ \A i \in 1..Len(s.dtors) : k.dtors[i] = s.dtors[i]
  BY <1>0, <1>3, Appended
<1>5. Shaped(k) BY <1>0, <1>2, <1>3, <1>4 DEF Shaped, Same
<1>6. DtorTyped(s, d) BY <1>1, <1>2, NamesAssumption DEF DtorTyped, Prim
<1>7. \A i \in 1..Len(k.dtors) : DtorTyped(s, k.dtors[i])
  BY <1>0, <1>4, <1>6 DEF Held, StacksTyped
<1>8. Held(k) BY <1>3, <1>5, <1>7, SameHeld DEF Held, StacksTyped
<1>9. Prim(k, t)
  <2>1. Grows(s, k) BY <1>0, <1>3, SameStep
  <2>2. QED BY <1>0, <1>1, <1>8, <2>1, TypGrows DEF Held, Prim
<1>10. CurDtor(k) = d BY <1>4 DEF CurDtor, Last
<1>11. QED BY <1>1, <1>3, <1>4, <1>8, <1>9, <1>10 DEF k, d, t, Pushed

LEMMA DeclaratorEndStep ==
  ASSUME NEW s, Held(s), Len(s.dtors) >= 1
  PROVE  LET k == DeclaratorEnd(s)
         IN  /\ Held(k) /\ Same(s, k) /\ k.decls = s.decls /\ Popped(s.dtors, k.dtors)
<1> DEFINE k == DeclaratorEnd(s)
<1>0. Shaped(s) /\ DOMAIN s = Fields /\ IsSeq(s.dtors) /\ Len(s.dtors) \in Nat
  BY SeqFacts DEF Held, Shaped
<1>1. k.dtors = Front(s.dtors) /\ Same(s, k) /\ k.decls = s.decls
  BY <1>0 DEF DeclaratorEnd, Same, Fields
<1> HIDE DEF k
<1>2. IsSeq(k.dtors) /\ Popped(s.dtors, k.dtors) BY <1>0, <1>1, Fronted DEF Popped
<1>3. \A i \in 1..Len(k.dtors) : i \in 1..Len(s.dtors) /\ k.dtors[i] = s.dtors[i]
  BY <1>0, <1>2 DEF Popped
<1>4. Shaped(k) BY <1>0, <1>1, <1>2, <1>3 DEF Shaped, Same
<1>5. Held(k) BY <1>1, <1>3, <1>4, SameHeld DEF Held, StacksTyped
<1>6. QED BY <1>1, <1>2, <1>5 DEF k

LEMMA EndedDeclaratorStep ==
  ASSUME NEW s, Held(s), Len(s.dtors) >= 1, CurDtor(s).declaration \in 1..Len(s.decls)
  PROVE  LET d == CurDtor(s)
             e == EndedDeclarator(s)
         IN  /\ d = s.dtors[Len(s.dtors)] /\ DOMAIN d = DtorFields /\ DtorTyped(s, d)
             /\ DOMAIN e = DtorFields /\ DtorTyped(s, e)
             /\ e.identifier = d.identifier /\ e.bits = d.bits
             /\ e.parenthised = d.parenthised
             /\ d.type # 0 => e.type = d.type
             /\ d.type = 0 => e.type = s.decls[d.declaration].type
             /\ Prim(s, d.type) => Prim(s, e.type)
<1> DEFINE d == CurDtor(s)
           t == s.decls[d.declaration].type
           e == EndedDeclarator(s)
<1>0. Shaped(s) /\ IsSeq(s.dtors) /\ Len(s.dtors) \in Nat /\ Len(s.dtors) \in 1..Len(s.dtors)
  BY SeqFacts DEF Held, Shaped
<1>1. d = s.dtors[Len(s.dtors)] /\ DOMAIN d = DtorFields /\ DtorTyped(s, d)
  BY <1>0 DEF CurDtor, Last, Held, StacksTyped, Shaped
<1>2. Prim(s, t) BY DEF Held, StacksTyped, DeclTyped
<1>3. e = IF d.type = 0 THEN [d EXCEPT !.type = t] ELSE d BY DEF EndedDeclarator
<1> HIDE DEF d, t, e
<1>4. /\ DOMAIN e = DtorFields /\ e.identifier = d.identifier /\ e.bits = d.bits
      /\ e.parenthised = d.parenthised
      /\ d.type # 0 => e.type = d.type
      /\ d.type = 0 => e.type = t
  BY <1>1, <1>3 DEF DtorFields
<1>5. DtorTyped(s, e) /\ (Prim(s, d.type) => Prim(s, e.type))
  BY <1>1, <1>2, <1>4 DEF DtorTyped, Prim
<1>6. QED BY <1>1, <1>4, <1>5 DEF d, t, e

LEMMA AddDeclaratorStep ==
  ASSUME NEW s, Held(s), Len(s.decls) >= 1, NEW d, DtorTyped(s, d)
  PROVE  LET k == AddDeclarator(s, d)
             n == Len(s.decls)
         IN  /\ Held(k) /\ Same(s, k) /\ k.dtors = s.dtors /\ BelowSame(s.decls, k.decls)
             /\ k.decls[n].type = s.decls[n].type /\ k.decls[n].storage = s.decls[n].storage
             /\ IsSeq(s.decls[n].declarators)
             /\ Pushed(s.decls[n].declarators, k.decls[n].declarators, d)
<1> DEFINE n == Len(s.decls)
           x == s.decls[n]
           y == Append(x.declarators, d)
           v == [x EXCEPT !.declarators = y]
           k == AddDeclarator(s, d)
<1>0. Shaped(s) /\ DOMAIN s = Fields /\ IsSeq(s.decls) /\ n \in Nat /\ n \in 1..n
      /\ DOMAIN s.decls = 1..n
  BY SeqFacts DEF Held, Shaped
<1>1. DOMAIN x = DeclFields /\ IsSeq(x.declarators) /\ DeclTyped(s, x)
  BY <1>0 DEF Shaped, Held, StacksTyped
<1>2. k = SetDecl(s, v) BY <1>0, <1>1 DEF AddDeclarator, SetDecl, Fields, DeclFields
<1>3. /\ IsSeq(y) /\ Len(y) = Len(x.declarators) + 1 /\ y[Len(x.declarators) + 1] = d
      /\ \A i \in 1..Len(x.declarators) : y[i] = x.declarators[i]
  BY <1>1, Appended
<1> HIDE DEF k, y
<1>4. DOMAIN v = DeclFields /\ v.type = x.type /\ v.storage = x.storage /\ v.declarators = y
  BY <1>1 DEF DeclFields
<1> HIDE DEF v, x
<1>5. DeclTyped(s, v)
  <2>1. DOMAIN y = 1..Len(x.declarators) + 1 /\ DOMAIN x.declarators = 1..Len(x.declarators)
        /\ Len(x.declarators) \in Nat
    BY <1>1, <1>3, SeqFacts
  <2>2. \A j \in DOMAIN y : DtorTyped(s, y[j]) BY <1>1, <1>3, <2>1 DEF DeclTyped
  <2>3. QED BY <1>1, <1>4, <2>2 DEF DeclTyped
<1>6. /\ Held(k) /\ Same(s, k) /\ k.dtors = s.dtors
      /\ BelowSame(s.decls, k.decls) /\ k.decls[n] = v
  BY <1>0, <1>2, <1>3, <1>4, <1>5, SetDeclStep
<1>7. QED BY <1>1, <1>3, <1>4, <1>6 DEF k, y, x, Pushed

-----------------------------------------------------------------------------
(* Declarators.                                                            *)

(* Types are derived, and the current declarator's type becomes t.         *)
Moves(s, k) ==
  /\ Held(k) /\ Grows(s, k) /\ Beside(s, k) /\ SameTypeNames(s.rt, k.rt)
  /\ k.said = s.said

DtorMoved(s, k, t) ==
  LET n == Len(s.dtors)
      x == s.dtors[n]
      y == k.dtors[n]
  IN  /\ k.decls = s.decls /\ BelowSame(s.dtors, k.dtors) /\ CurDtor(k) = y
      /\ y.type = t /\ y.identifier = x.identifier
      /\ y.parenthised = x.parenthised /\ y.bits = x.bits

LEMMA MovesTwice ==
  ASSUME NEW s, Held(s), NEW k, Moves(s, k), NEW l, Moves(k, l)
  PROVE  Moves(s, l)
<1>1. TypesOK(s) /\ TypesOK(k) /\ TypesOK(l) BY DEF Held, Moves
<1>2. Grows(s, l) BY <1>1, GrowsTwice DEF Moves
<1>3. Beside(s, l) BY <1>1, BesideTwice DEF Moves
<1>4. QED BY <1>2, <1>3 DEF Moves, SameTypeNames

LEMMA DerivesMoves ==
  ASSUME NEW s, Held(s), NEW k, Derives(s, k), SameStacks(s, k)
  PROVE  Moves(s, k) /\ Follows(s, k)
<1>1. /\ Follows(s, k) /\ SameTypeNames(s.rt, k.rt) /\ k.said = s.said BY DerivesFollows
<1>2. Held(k) BY <1>1, HeldFollows
<1>3. QED BY <1>1, <1>2 DEF Moves, Follows

LEMMA SameMoves ==
  ASSUME NEW s, Held(s), NEW k, Held(k), Same(s, k)
  PROVE  Moves(s, k) /\ k.rt = s.rt /\ k.constant_id = s.constant_id /\ k.text = s.text
<1>1. Derives(s, k) BY SameStep DEF Held
<1>2. k.said = s.said BY DEF Same
<1>3. QED BY <1>1, <1>2, DerivesBeside DEF Moves, Same

LEMMA SetTypeMoves ==
  ASSUME NEW s, Held(s), Len(s.dtors) >= 1, NEW m, Derives(s, m), SameStacks(s, m),
         NEW t, Typ(m, t)
  PROVE  LET k == SetType(m, t)
         IN  /\ Moves(s, k) /\ DtorMoved(s, k, t) /\ k.rt = m.rt /\ k.text = m.text
             /\ k.constant_id = m.constant_id /\ k.failed = m.failed
             /\ Prim(m, t) => Prim(k, t)
             /\ Typ(k, t)
<1> DEFINE k == SetType(m, t)
<1>1. Moves(s, m) /\ Held(m) BY DerivesMoves DEF Moves
<1>2. m.dtors = s.dtors /\ m.decls = s.decls BY DEF SameStacks
<1> DEFINE n == Len(m.dtors)
<1>3. /\ Held(k) /\ Same(m, k) /\ k.decls = m.decls /\ BelowSame(m.dtors, k.dtors)
      /\ k.failed = m.failed /\ CurDtor(k) = k.dtors[n]
      /\ k.dtors[n].type = t /\ k.dtors[n].identifier = m.dtors[n].identifier
      /\ k.dtors[n].parenthised = m.dtors[n].parenthised
      /\ k.dtors[n].bits = m.dtors[n].bits
  <2>1. n >= 1 BY <1>2
  <2>2. Held(m) BY <1>1
  <2>3. Typ(m, t) OBVIOUS
  <2> HIDE DEF n
  <2>4. /\ Held(k) /\ Same(m, k) /\ k.decls = m.decls /\ BelowSame(m.dtors, k.dtors)
        /\ k.failed = m.failed /\ CurDtor(k) = k.dtors[n]
    BY <2>1, <2>2, <2>3, SetTypeStep DEF n
  <2>5. k.dtors[n] = [m.dtors[n] EXCEPT !.type = t]
    BY <2>1, <2>2, <2>3, SetTypeStep DEF n
  <2>6. DOMAIN m.dtors[n] = DtorFields
    <3>1. n \in 1..Len(m.dtors) BY <2>1, <2>2, SeqFacts DEF n, Held, Shaped
    <3>2. QED BY <2>2, <3>1 DEF Held, Shaped
  <2>7. QED BY <2>4, <2>5, <2>6 DEF DtorFields
<1> HIDE DEF k
<1>4. Moves(m, k) /\ k.rt = m.rt /\ k.constant_id = m.constant_id /\ k.text = m.text
  BY <1>1, <1>3, SameMoves
<1>5. Moves(s, k) BY <1>1, <1>4, MovesTwice
<1>6. DtorMoved(s, k, t) BY <1>2, <1>3 DEF DtorMoved
<1>7. Typ(k, t) /\ (Prim(m, t) => Prim(k, t)) BY <1>1, <1>4, TypGrows DEF Moves, Held
<1>8. QED BY <1>3, <1>4, <1>5, <1>6, <1>7 DEF k

(* gghc_pointer_decl.                                                      *)
LEMMA PointerDeclStep ==
  ASSUME NEW s, Held(s), s.rt.halt = "no", Len(s.dtors) >= 1, Room(s.rt, 1),
         NEW t, t = CurDtor(s).type,
         \/ Prim(s, t)
         \/ s.rt.heap[t].kind = "function" /\ s.rt.heap[t].pointer_to = 0 /\ t # 0 /\ Typ(s, t)
  PROVE  LET k == PointerDecl(s)
         IN  /\ Moves(s, k) /\ k.constant_id = s.constant_id
             /\ k.rt.next <= s.rt.next + 1
             /\ Resolved => k.rt.halt = "no"
             /\ \E p : /\ DtorMoved(s, k, p) /\ (Prim(s, t) => Prim(k, p)) /\ Typ(k, p)
                       /\ k.rt.halt = "no" /\ Exact =>
                            k.text[p].term = PointerTo(s.text[t].term)
<1> DEFINE m == MakePointer(s, t)
           p == PointerRef(s.rt, t)
           k == PointerDecl(s)
<1>0. TypesOK(s) /\ s.rt.next \in Nat BY Ranges DEF Held, TypesOK, StoreOK
<1>1. Typ(s, t) BY DEF Prim
<1>2. k = IF m.rt.halt # "no" THEN m ELSE SetType(m, p) BY DEF PointerDecl
<1>3. /\ IsBogus(s, t) => m = Stop(s, "segv")
      /\ ~ IsBogus(s, t) =>
           /\ Derives(s, m) /\ SameStacks(s, m) /\ m.rt.halt = s.rt.halt
           /\ m.rt.next <= s.rt.next + 1 /\ m.constant_id = s.constant_id
           /\ Typ(m, p) /\ (Prim(s, t) => Prim(m, p))
           /\ Exact => m.text[p].term = PointerTo(s.text[t].term)
  BY <1>0, <1>1, MakePointerStep
<1> HIDE DEF m, p, k
<1>4. CASE IsBogus(s, t)
  <2>1. Derives(s, m) /\ SameStacks(s, m) /\ m.rt.halt = "segv" /\ m.rt.next = s.rt.next
        /\ m.constant_id = s.constant_id
    BY <1>0, <1>3, <1>4, StopStep
  <2>2. k = m BY <1>2, <2>1
  <2>3. Moves(s, m) BY <2>1, DerivesMoves
  <2>4. ~ Resolved BY <1>1, <1>4 DEF IsBogus, Typ
  <2>5. DtorMoved(s, m, t)
    <3>1. Len(s.dtors) \in Nat BY SeqFacts DEF Held, Shaped
    <3>2. CurDtor(m) = m.dtors[Len(s.dtors)] /\ CurDtor(s) = s.dtors[Len(s.dtors)]
      BY <2>1 DEF CurDtor, Last, SameStacks
    <3>3. QED BY <2>1, <3>2 DEF DtorMoved, SameStacks, BelowSame
  <2>6. Typ(m, t) /\ (Prim(s, t) => Prim(m, t)) BY <1>0, <1>1, <2>3, TypGrows DEF Moves, Held
  <2>7. QED BY <1>0, <2>1, <2>2, <2>3, <2>4, <2>5, <2>6 DEF k
<1>5. CASE ~ IsBogus(s, t)
  <2>1. k = SetType(m, p) BY <1>2, <1>3, <1>5
  <2>2. /\ Moves(s, k) /\ DtorMoved(s, k, p) /\ k.rt = m.rt /\ k.text = m.text
        /\ k.constant_id = m.constant_id
        /\ Typ(k, p) /\ (Prim(m, p) => Prim(k, p))
    BY <1>3, <1>5, <2>1, SetTypeMoves
  <2>3. QED BY <1>3, <1>5, <2>2 DEF k
<1>6. QED BY <1>4, <1>5

(* n more dimensions: the type is an array whose text is term.             *)
Dimensioned(s, k, n, term) ==
  /\ Moves(s, k) /\ k.constant_id <= s.constant_id + n /\ k.rt.next <= s.rt.next + 2 * n
  /\ Resolved => k.rt.halt = "no"
  /\ \E t : /\ DtorMoved(s, k, t) /\ Typ(k, t)
            /\ k.rt.halt = "no" => /\ t # 0 /\ k.rt.heap[t].kind = "array"
                                   /\ Exact => k.text[t].term = term

LEMMA ArrayOfTypeStep ==
  ASSUME NEW s, Held(s), s.rt.halt = "no", Len(s.dtors) >= 1, Room(s.rt, 2),
         NEW t, t = CurDtor(s).type, Typ(s, t), NEW len \in Lengths,
         Prim(s, t) \/ (t # 0 /\ s.rt.heap[t].kind = "array")
  PROVE  Dimensioned(s, ArrayOfType(s, len), 1, ArrayOf(s.text[t].term, len))
<1> DEFINE m == MakeArray(s, t, len)
           a == MadeArray(s, t, len)
           k == ArrayOfType(s, len)
           term == ArrayOf(s.text[t].term, len)
<1>0. TypesOK(s) /\ s.rt.next \in Nat /\ s.constant_id \in Nat
  BY Ranges DEF Held, TypesOK, StoreOK, ConstsOK
<1>2. k = IF m.rt.halt # "no" THEN m ELSE SetType(m, a) BY DEF ArrayOfType
<1>3. /\ IsBogus(s, t) => m = Stop(s, "segv")
      /\ ~ IsBogus(s, t) =>
           /\ Derives(s, m) /\ SameStacks(s, m) /\ m.rt.halt = s.rt.halt
           /\ m.rt.next <= s.rt.next + 2 /\ m.constant_id <= s.constant_id + 1
           /\ Typ(m, a) /\ a # 0 /\ m.rt.heap[a].kind = "array"
           /\ m.text[a].term = term
  BY <1>0, MakeArrayStep
<1> HIDE DEF m, a, k, term
<1>4. CASE IsBogus(s, t)
  <2>1. Derives(s, m) /\ SameStacks(s, m) /\ m.rt.halt = "segv" /\ m.rt.next = s.rt.next
        /\ m.constant_id = s.constant_id
    BY <1>0, <1>3, <1>4, StopStep
  <2>2. k = m BY <1>2, <2>1
  <2>3. Moves(s, m) BY <2>1, DerivesMoves
  <2>4. ~ Resolved BY <1>4 DEF IsBogus, Typ
  <2>5. DtorMoved(s, m, t)
    <3>1. Len(s.dtors) \in Nat BY SeqFacts DEF Held, Shaped
    <3>2. CurDtor(m) = m.dtors[Len(s.dtors)] /\ CurDtor(s) = s.dtors[Len(s.dtors)]
      BY <2>1 DEF CurDtor, Last, SameStacks
    <3>3. QED BY <2>1, <3>2 DEF DtorMoved, SameStacks, BelowSame
  <2>6. Typ(m, t) BY <1>0, <2>3, TypGrows DEF Moves, Held
  <2>7. Dimensioned(s, m, 1, term) BY <1>0, <2>1, <2>3, <2>4, <2>5, <2>6 DEF Dimensioned
  <2>8. QED BY <2>2, <2>7 DEF k, term
<1>5. CASE ~ IsBogus(s, t)
  <2>1. k = SetType(m, a) BY <1>2, <1>3, <1>5
  <2>2. /\ Moves(s, k) /\ DtorMoved(s, k, a) /\ k.rt = m.rt /\ k.text = m.text
        /\ k.constant_id = m.constant_id /\ Typ(k, a)
    BY <1>3, <1>5, <2>1, SetTypeMoves
  <2>3. Dimensioned(s, k, 1, term) BY <1>0, <1>3, <1>5, <2>2 DEF Dimensioned
  <2>4. QED BY <2>3 DEF k, term
<1>6. QED BY <1>4, <1>5

LEMMA DtorMovedTwice ==
  ASSUME NEW s, NEW k, NEW t, DtorMoved(s, k, t), NEW l, NEW u, DtorMoved(k, l, u)
  PROVE  DtorMoved(s, l, u)
BY DEF DtorMoved, BelowSame

(* A declarator has one dimension or two.                                  *)
LEMMA FoldOne ==
  ASSUME NEW over, NEW storage, NEW x, NEW base, IsSeq(x), Len(x) = 1
  PROVE  FoldIter(over, storage, x, base)[DOMAIN x] = Apply(over, storage, x[1], base)
<1> DEFINE g == FoldIter(over, storage, x, base)
<1>1. DOMAIN x = {1} BY SeqFacts
<1>2. \A s \in SUBSET DOMAIN x : g[s] = FoldStep(over, storage, x, base, g, s)
  BY FoldIterExists
<1> HIDE DEF g
<1>3. Lowest({1}) = 1 BY DEF Lowest
<1>4. g[{}] = base BY <1>2 DEF FoldStep
<1>5. {1} \ {1} = {} /\ {1} # {} OBVIOUS
<1>6. g[{1}] = Apply(over, storage, x[1], g[{}]) BY <1>1, <1>2, <1>3, <1>5 DEF FoldStep
<1>7. QED BY <1>1, <1>4, <1>6 DEF g

LEMMA FoldTwo ==
  ASSUME NEW over, NEW storage, NEW x, NEW base, IsSeq(x), Len(x) = 2
  PROVE  FoldIter(over, storage, x, base)[DOMAIN x] =
           Apply(over, storage, x[1], Apply(over, storage, x[2], base))
<1> DEFINE g == FoldIter(over, storage, x, base)
<1>1. DOMAIN x = {1, 2} BY SeqFacts
<1>2. \A s \in SUBSET DOMAIN x : g[s] = FoldStep(over, storage, x, base, g, s)
  BY FoldIterExists
<1> HIDE DEF g
<1>3. Lowest({1, 2}) = 1 /\ Lowest({2}) = 2
  <2>1. \E m \in {1, 2} : \A n \in {1, 2} : m <= n OBVIOUS
  <2>2. Lowest({1, 2}) \in {1, 2} /\ \A n \in {1, 2} : Lowest({1, 2}) <= n BY <2>1 DEF Lowest
  <2>3. Lowest({2}) = 2 BY DEF Lowest
  <2>4. QED BY <2>2, <2>3
<1>4. g[{}] = base BY <1>2 DEF FoldStep
<1>5. {2} \ {2} = {} /\ {2} # {} /\ {1, 2} \ {1} = {2} /\ {1, 2} # {} OBVIOUS
<1>6. g[{2}] = Apply(over, storage, x[2], g[{}]) BY <1>1, <1>2, <1>3, <1>5 DEF FoldStep
<1>7. g[{1, 2}] = Apply(over, storage, x[1], g[{2}]) BY <1>1, <1>2, <1>3, <1>5 DEF FoldStep
<1>8. QED BY <1>1, <1>4, <1>6, <1>7 DEF g

Dimensions(x, t) == FoldRight(LAMBDA len, u : ArrayOf(u, len), x, t)

LEMMA DimensionsIsIter ==
  ASSUME NEW x, NEW base
  PROVE  Dimensions(x, base) = FoldIter("terms", "none", x, base)[DOMAIN x]
<1> DEFINE F(g) == [s \in SUBSET DOMAIN x |-> FoldStep("terms", "none", x, base, g, s)]
           G(g) == [s \in SUBSET DOMAIN x |->
                      IF s = {} THEN base
                      ELSE ArrayOf(g[s \ {Lowest(s)}], x[Lowest(s)])]
           f == CHOOSE g : g = F(g)
           h == CHOOSE g : g = G(g)
<1>1. \A g : F(g) = G(g) BY DEF Apply, FoldStep
<1>2. Dimensions(x, base) = h[DOMAIN x]
  BY DEF Dimensions, FoldRight, MapThenFoldSet, Min, Lowest
<1>3. FoldIter("terms", "none", x, base) = f BY DEF FoldIter
<1> HIDE DEF F, G
<1>4. f = h
  <2>1. \A g : (g = F(g)) <=> (g = G(g)) BY <1>1
  <2>2. QED BY <2>1, Zenon
<1>5. QED BY <1>2, <1>3, <1>4

LEMMA ArrayDeclUnfolds ==
  ASSUME NEW n \in 1..2, NEW x \in [1..n -> Lengths]
  PROVE  /\ IsSeq(x) /\ Len(x) = n
         /\ \A s : s.rt.halt = "no" /\ n = 1 => ArrayDecl(s, x) = ArrayOfType(s, x[1])
         /\ \A s : s.rt.halt = "no" /\ n = 2 =>
              LET k == ArrayOfType(s, x[2])
              IN  ArrayDecl(s, x) = IF k.rt.halt # "no" THEN k ELSE ArrayOfType(k, x[1])
         /\ \A t : n = 1 => Dimensions(x, t) = ArrayOf(t, x[1])
         /\ \A t : n = 2 => Dimensions(x, t) = ArrayOf(ArrayOf(t, x[2]), x[1])
<1>1. x \in Seq(Lengths) OBVIOUS
<1>2. IsSeq(x) /\ Len(x) = n BY <1>1 DEF IsSeq
<1>3. ASSUME NEW s, s.rt.halt = "no", n = 1 PROVE ArrayDecl(s, x) = ArrayOfType(s, x[1])
  <2>1. ArrayDecl(s, x) = Apply("lengths", "none", x[1], s)
    BY <1>2, <1>3, ArrayDeclIsIter, FoldOne
  <2>2. QED BY <1>3, <2>1 DEF Apply
<1>4. ASSUME NEW s, s.rt.halt = "no", n = 2
      PROVE  LET k == ArrayOfType(s, x[2])
             IN  ArrayDecl(s, x) = IF k.rt.halt # "no" THEN k ELSE ArrayOfType(k, x[1])
  <2>1. ArrayDecl(s, x) =
          Apply("lengths", "none", x[1], Apply("lengths", "none", x[2], s))
    BY <1>2, <1>4, ArrayDeclIsIter, FoldTwo
  <2>2. Apply("lengths", "none", x[2], s) = ArrayOfType(s, x[2]) BY <1>4 DEF Apply
  <2>3. QED BY <2>1, <2>2 DEF Apply
<1>5. ASSUME NEW t, n = 1 PROVE Dimensions(x, t) = ArrayOf(t, x[1])
  <2>1. Dimensions(x, t) = Apply("terms", "none", x[1], t)
    BY <1>2, <1>5, DimensionsIsIter, FoldOne
  <2>2. QED BY <2>1 DEF Apply
<1>6. ASSUME NEW t, n = 2 PROVE Dimensions(x, t) = ArrayOf(ArrayOf(t, x[2]), x[1])
  <2>1. Dimensions(x, t) = Apply("terms", "none", x[1], Apply("terms", "none", x[2], t))
    BY <1>2, <1>6, DimensionsIsIter, FoldTwo
  <2>2. QED BY <2>1 DEF Apply
<1>7. QED BY <1>2, <1>3, <1>4, <1>5, <1>6

LEMMA TwoSteps ==
  ASSUME NEW a \in Nat, NEW b \in Nat, NEW e \in Nat, NEW d \in Nat, b <= a + d, e <= b + d
  PROVE  e <= a + 2 * d /\ b <= a + 2 * d
OBVIOUS

(* gghc_array_decl.                                                        *)
LEMMA ArrayDeclStep ==
  ASSUME NEW s, Held(s), s.rt.halt = "no", Len(s.dtors) >= 1,
         NEW n \in 1..2, NEW x \in [1..n -> Lengths], Room(s.rt, 2 * n),
         NEW t, t = CurDtor(s).type, Prim(s, t)
  PROVE  Dimensioned(s, ArrayDecl(s, x), n, Dimensions(x, s.text[t].term))
<1>0. TypesOK(s) /\ s.rt.next \in Nat /\ s.constant_id \in Nat /\ MaxObjs \in Nat
  BY Ranges DEF Held, TypesOK, StoreOK, ConstsOK
<1>1. Typ(s, t) BY DEF Prim
<1>2. \A i \in 1..n : x[i] \in Lengths OBVIOUS
<1>3. CASE n = 1
  <2>1. x[1] \in Lengths BY <1>2, <1>3
  <2>2. Room(s.rt, 2) BY <1>3
  <2>3. Dimensioned(s, ArrayOfType(s, x[1]), 1, ArrayOf(s.text[t].term, x[1]))
    BY <1>1, <2>1, <2>2, ArrayOfTypeStep
  <2>4. ArrayDecl(s, x) = ArrayOfType(s, x[1]) BY <1>3, ArrayDeclUnfolds
  <2>5. Dimensions(x, s.text[t].term) = ArrayOf(s.text[t].term, x[1])
    BY <1>3, ArrayDeclUnfolds
  <2>6. QED BY <1>3, <2>3, <2>4, <2>5
<1>4. CASE n = 2
  <2> DEFINE k == ArrayOfType(s, x[2])
             l == ArrayOfType(k, x[1])
             half == ArrayOf(s.text[t].term, x[2])
  <2>1. x[1] \in Lengths /\ x[2] \in Lengths BY <1>2, <1>4
  <2>2. Room(s.rt, 2) BY <1>0, <1>4 DEF Room
  <2>3. Dimensioned(s, k, 1, half) BY <1>1, <2>1, <2>2, ArrayOfTypeStep
  <2>4. ArrayDecl(s, x) = IF k.rt.halt # "no" THEN k ELSE l BY <1>4, ArrayDeclUnfolds
  <2>5. Dimensions(x, s.text[t].term) = ArrayOf(half, x[1]) BY <1>4, ArrayDeclUnfolds
  <2> HIDE DEF half, k
  <2>6. Held(k) /\ Moves(s, k) /\ k.rt.next <= s.rt.next + 2
        /\ k.constant_id <= s.constant_id + 1
    BY <2>3 DEF Dimensioned, Moves
  <2>7. k.rt.next \in Nat /\ k.constant_id \in Nat
    BY <2>6, Ranges DEF Held, TypesOK, StoreOK, ConstsOK
  <2>8. CASE k.rt.halt # "no"
    <3>1. k.rt.next <= s.rt.next + 2 * 2 /\ k.constant_id <= s.constant_id + 2
      <4> HIDE DEF Held, TypesOK, Moves
      <4>1. k.rt.next <= s.rt.next + 2 * 2 BY <1>0, <2>6, <2>7
      <4>2. QED BY <1>0, <2>6, <2>7, <4>1
    <3>2. (Resolved => k.rt.halt = "no") /\ \E u : DtorMoved(s, k, u) /\ Typ(k, u)
      BY <2>3 DEF Dimensioned
    <3>3. Dimensioned(s, k, 2, ArrayOf(half, x[1]))
      BY <2>6, <2>8, <3>1, <3>2 DEF Dimensioned
    <3>4. QED BY <1>4, <2>4, <2>5, <2>8, <3>3
  <2>9. CASE k.rt.halt = "no"
    <3>1. PICK u : /\ DtorMoved(s, k, u) /\ Typ(k, u) /\ u # 0 /\ k.rt.heap[u].kind = "array"
                   /\ Exact => k.text[u].term = half
      BY <2>3, <2>9 DEF Dimensioned
    <3>2. Room(k.rt, 2) BY <1>0, <1>4, <2>6, <2>7, SMTT(40) DEF Room
    <3>3. Len(k.dtors) >= 1 /\ u = CurDtor(k).type BY <3>1 DEF DtorMoved, BelowSame
    <3>4. Dimensioned(k, l, 1, ArrayOf(k.text[u].term, x[1]))
      <4>1. k.rt.halt = "no" /\ Held(k) BY <2>6, <2>9
      <4>2. QED BY <2>1, <3>1, <3>2, <3>3, <4>1, ArrayOfTypeStep
    <3> HIDE DEF l
    <3>5. Moves(s, l) BY <2>6, <3>4, MovesTwice DEF Dimensioned
    <3>6. l.rt.next \in Nat /\ l.constant_id \in Nat
      BY <3>5, Ranges DEF Moves, Held, TypesOK, StoreOK, ConstsOK
    <3>7. PICK v : /\ DtorMoved(k, l, v) /\ Typ(l, v)
                   /\ l.rt.halt = "no" =>
                        /\ v # 0 /\ l.rt.heap[v].kind = "array"
                        /\ Exact => l.text[v].term = ArrayOf(k.text[u].term, x[1])
      BY <3>4 DEF Dimensioned
    <3>8. DtorMoved(s, l, v) BY <3>1, <3>7, DtorMovedTwice
    <3>9. /\ l.constant_id <= s.constant_id + 2 /\ l.rt.next <= s.rt.next + 2 * 2
          /\ Resolved => l.rt.halt = "no"
      <4>1. /\ l.constant_id <= k.constant_id + 1 /\ l.rt.next <= k.rt.next + 2 * 1
            /\ Resolved => l.rt.halt = "no"
        BY <3>4 DEF Dimensioned
      <4>2. l.rt.next <= k.rt.next + 2 BY <4>1
      <4>3. l.rt.next <= s.rt.next + 2 * 2 BY <1>0, <2>6, <2>7, <3>6, <4>2, TwoSteps
      <4>4. l.constant_id <= s.constant_id + 2 * 1 BY <1>0, <2>6, <2>7, <3>6, <4>1, TwoSteps
      <4>5. QED BY <4>1, <4>3, <4>4
    <3>10. Exact /\ l.rt.halt = "no" => l.text[v].term = ArrayOf(half, x[1]) BY <3>1, <3>7
    <3>11. Dimensioned(s, l, 2, ArrayOf(half, x[1]))
      BY <3>5, <3>7, <3>8, <3>9, <3>10 DEF Dimensioned
    <3>12. QED BY <1>4, <2>4, <2>5, <2>9, <3>11
  <2>10. QED BY <2>8, <2>9
<1>5. QED BY <1>3, <1>4

(* gghc_function_decl.                                                     *)
LEMMA FunctionDeclStep ==
  ASSUME NEW s, Held(s), s.rt.halt = "no", Len(s.dtors) >= 1, Room(s.rt, 2),
         CurDtor(s).declaration \in 1..Len(s.decls),
         NEW params, IsSeq(params), \A i \in DOMAIN params : Typ(s, params[i]) /\ params[i] # 0
  PROVE  LET k == FunctionDecl(s, params)
             rtn == EndedDeclarator(s).type
         IN  /\ Moves(s, k) /\ k.constant_id = s.constant_id /\ k.rt.next <= s.rt.next + 2
             /\ Resolved => k.rt.halt = "no"
             /\ \E t : /\ DtorMoved(s, k, t) /\ Typ(k, t)
                       /\ Exact /\ ~ CurDtor(s).parenthised =>
                            k.text[t].term =
                              FunctionOf(s.text[rtn].term,
                                         [i \in DOMAIN params |-> s.text[params[i]].term])
<1> DEFINE rtn == EndedDeclarator(s).type
           term == FunctionOf(s.text[rtn].term,
                              [i \in DOMAIN params |-> s.text[params[i]].term])
           m == MakeFunction(s, rtn, params)
           a == s.rt.next
           k == SetType(m, a)
           l == FunctionDecl(s, params)
           par == CurDtor(s).parenthised
<1>0. TypesOK(s) /\ s.rt.next \in Nat /\ MaxObjs \in Nat BY Ranges DEF Held, TypesOK, StoreOK
<1>1. Typ(s, rtn) BY EndedDeclaratorStep DEF DtorTyped
<1>2. l = IF rtn = 0 THEN Stop(s, "abort") ELSE IF par THEN PointerDecl(k) ELSE k
  BY DEF FunctionDecl
<1>3. rtn # 0 =>
        /\ Derives(s, m) /\ SameStacks(s, m) /\ m.rt.halt = s.rt.halt
        /\ m.rt.next = s.rt.next + 1 /\ m.constant_id = s.constant_id
        /\ Typ(m, a) /\ a # 0
        /\ m.rt.heap[a].kind = "function" /\ m.rt.heap[a].pointer_to = 0
        /\ m.text[a].term = term
  <2>1. Room(s.rt, 1) BY <1>0 DEF Room
  <2> HIDE DEF rtn
  <2>2. QED BY <1>0, <1>1, <2>1, MakeFunctionStep
<1> HIDE DEF rtn, term, m, l
<1>4. CASE rtn = 0
  <2>1. /\ Derives(s, l) /\ SameStacks(s, l) /\ l.rt.halt = "abort" /\ l.rt.next = s.rt.next
        /\ l.constant_id = s.constant_id
    BY <1>0, <1>2, <1>4, StopStep
  <2>2. Moves(s, l) BY <2>1, DerivesMoves
  <2>3. ~ Resolved BY <1>1, <1>4 DEF Typ
  <2> DEFINE t == CurDtor(s).type
  <2>4. DtorMoved(s, l, t)
    <3>1. Len(s.dtors) \in Nat BY SeqFacts DEF Held, Shaped
    <3>2. CurDtor(l) = l.dtors[Len(s.dtors)] /\ CurDtor(s) = s.dtors[Len(s.dtors)]
      BY <2>1 DEF CurDtor, Last, SameStacks
    <3>3. QED BY <2>1, <3>2 DEF DtorMoved, SameStacks, BelowSame
  <2>5. Typ(l, t)
    <3>1. Typ(s, t) BY EndedDeclaratorStep DEF DtorTyped
    <3>2. QED BY <1>0, <2>2, <3>1, TypGrows DEF Moves, Held
  <2> HIDE DEF t
  <2>6. ~ Exact BY <2>3 DEF Exact
  <2>7. QED BY <1>0, <2>1, <2>2, <2>3, <2>4, <2>5, <2>6 DEF l, rtn
<1>5. CASE rtn # 0
  <2>1. /\ Moves(s, k) /\ DtorMoved(s, k, a) /\ k.rt = m.rt /\ k.text = m.text
        /\ k.constant_id = m.constant_id /\ Typ(k, a)
    BY <1>3, <1>5, SetTypeMoves
  <2> HIDE DEF k
  <2>2. Held(k) /\ Len(k.dtors) >= 1 /\ CurDtor(k).type = a
    BY <2>1 DEF Moves, DtorMoved, BelowSame
  <2>3. CASE ~ par
    <3>1. l = k BY <1>2, <1>5, <2>3
    <3>2. k.text[a].term = term BY <1>3, <1>5, <2>1
    <3>3. /\ Moves(s, l) /\ l.constant_id = s.constant_id /\ l.rt.next <= s.rt.next + 2
          /\ l.rt.halt = "no" /\ DtorMoved(s, l, a) /\ Typ(l, a) /\ l.text[a].term = term
      BY <1>0, <1>3, <1>5, <2>1, <3>1, <3>2
    <3>4. QED BY <3>3 DEF l, rtn, term
  <2>4. CASE par
    <3>1. l = PointerDecl(k) BY <1>2, <1>5, <2>4
    <3>2. Room(k.rt, 1) /\ k.rt.halt = "no" BY <1>0, <1>3, <1>5, <2>1 DEF Room
    <3>3. k.rt.heap[a].kind = "function" /\ k.rt.heap[a].pointer_to = 0 /\ a # 0 /\ Typ(k, a)
      BY <1>3, <1>5, <2>1
    <3> HIDE DEF a
    <3>4. /\ Moves(k, l) /\ l.constant_id = k.constant_id /\ l.rt.next <= k.rt.next + 1
          /\ Resolved => l.rt.halt = "no"
          /\ \E p : DtorMoved(k, l, p) /\ Typ(l, p)
      BY <2>2, <3>1, <3>2, <3>3, PointerDeclStep
    <3>5. PICK p : DtorMoved(k, l, p) /\ Typ(l, p) BY <3>4
    <3>6. Moves(s, l) /\ DtorMoved(s, l, p) BY <2>1, <3>4, <3>5, MovesTwice, DtorMovedTwice
    <3>7. l.rt.next <= s.rt.next + 2
      <4>1. l.rt.next \in Nat /\ k.rt.next = s.rt.next + 1
        BY <1>3, <1>5, <2>1, <3>6, Ranges DEF Moves, Held, TypesOK, StoreOK
      <4>2. QED BY <1>0, <3>4, <4>1
    <3>8. l.constant_id = s.constant_id BY <1>3, <1>5, <2>1, <3>4
    <3>9. QED BY <2>4, <3>4, <3>5, <3>6, <3>7, <3>8 DEF l, par
  <2>5. QED BY <2>3, <2>4
<1>6. QED BY <1>4, <1>5

(* gghc_parameter_decl: the type of a parameter is never NULL.             *)
LEMMA ParameterTypeStep ==
  ASSUME NEW s, Held(s), Len(s.dtors) >= 1, CurDtor(s).declaration \in 1..Len(s.decls)
  PROVE  LET t == ParameterType(s)
         IN  /\ Typ(s, t) /\ t # 0
             /\ EndedDeclarator(s).type # 0 => t = EndedDeclarator(s).type
<1>1. Typ(s, EndedDeclarator(s).type) BY EndedDeclaratorStep DEF DtorTyped
<1>2. "int" \in Intrinsics BY CompilerAssumption
<1>3. Typ(s, TypeByName(s.rt, "int")) /\ TypeByName(s.rt, "int") # 0
  BY <1>2, NamedType DEF Held, Prim
<1>4. QED BY <1>1, <1>3 DEF ParameterType

-----------------------------------------------------------------------------
(* The end of a declaration.                                               *)

(* Forms are written and typedef names introduced.                         *)
Emits(s, k) ==
  /\ Follows(s, k) /\ k.constant_id = s.constant_id
  /\ Says(s, k, {"global", "typedef"})

TypeNamesOf(r) == {y.name : y \in Cur(r).tab["type"]}

(* The declarator d is written, and if it is a typedef's, introduced.      *)
KindOf(storage) == IF storage = "typedef" THEN "typedef" ELSE "global"
Written(s, k, d, storage) ==
  /\ k.rt.halt = "no"
  /\ TypeNamesOf(k.rt) =
       TypeNamesOf(s.rt) \cup (IF storage = "typedef" THEN {d.identifier} ELSE {})
  /\ DeclaredBy(k.said) =
       DeclaredBy(s.said) \cup
         (IF s.emit = 0 THEN {}
          ELSE {Declares(KindOf(storage), d.identifier, s.text[d.type].term)})

LEMMA EmitsSame ==
  ASSUME NEW s, NEW k, Derives(s, k), SameStacks(s, k), k.constant_id = s.constant_id
  PROVE  Emits(s, k)
<1>1. Follows(s, k) /\ k.said = s.said BY DerivesFollows
<1>2. QED BY <1>1 DEF Emits, Says

(* A new typedef, which is written.                                        *)
NewTypedef(s, name, t) ==
  [s EXCEPT !.rt = Typedef(@, name, t), !.text[s.rt.next] = Plain(WildTerm)]

LEMMA NewTypedefStep ==
  ASSUME NEW s, TypesOK(s), Room(s.rt, 1), NEW name, name \notin Intrinsics, NEW t,
         ~ Found(Cur(s.rt).tab["type"], name)
  PROVE  LET k == NewTypedef(s, name, t)
         IN  /\ Follows(s, k) /\ k.said = s.said /\ k.written = s.written
             /\ k.begun = s.begun /\ k.constant_id = s.constant_id /\ k.emit = s.emit
             /\ k.rt = Typedef(s.rt, name, t)
             /\ k.rt.halt = s.rt.halt /\ k.rt.next = s.rt.next + 1
             /\ TypeNamesOf(k.rt) = TypeNamesOf(s.rt) \cup {name}
<1> DEFINE q == Typedef(s.rt, name, t)
           n == s.rt.next
           w == Plain(WildTerm)
           k == NewTypedef(s, name, t)
<1>0. RegOK(s.rt) /\ StoreOK(s) /\ ConstsOK(s) /\ DOMAIN s = Fields BY DEF TypesOK, StoreOK
<1>1. /\ RegOK(q) /\ TagStep(s.rt, q) /\ SamePrevs(s.rt, q) /\ SameOpen(s.rt, q)
      /\ q.halt = s.rt.halt /\ n \in ObjId /\ q.next = n + 1
      /\ q.heap[n].kind = "typedef"
      /\ Cur(q).tab["type"] = Cur(s.rt).tab["type"] \cup
           {[name |-> name, addr |-> n, type |-> t]}
  BY <1>0, TypedefStep
<1>2. DOMAIN w = TextFields /\ w.consts = {} /\ w.tags = {}
  BY DEF Plain, Text, TextFields
<1>3. TypeNamesOf(q) = TypeNamesOf(s.rt) \cup {name}
  <2>1. \A tab, y : {x.name : x \in tab \cup {y}} = {x.name : x \in tab} \cup {y.name}
    OBVIOUS
  <2>2. [name |-> name, addr |-> n, type |-> t].name = name OBVIOUS
  <2>3. QED BY <1>1, <2>1, <2>2 DEF TypeNamesOf
<1> HIDE DEF q, w
<1>4. /\ DOMAIN k = Fields /\ k.rt = q /\ k.text = [s.text EXCEPT ![n] = w]
      /\ k.structs = s.structs /\ k.enums = s.enums /\ k.unnamed = s.unnamed
      /\ k.written = s.written /\ k.constant_id = s.constant_id /\ k.begun = s.begun
      /\ k.emit = s.emit /\ k.forms = s.forms /\ k.current_struct = s.current_struct
      /\ k.decls = s.decls /\ k.dtors = s.dtors /\ k.said = s.said
  BY <1>0 DEF NewTypedef, Fields, q, w
<1> HIDE DEF k
<1>5. s.rt.next \in Nat /\ MaxObjs \in Nat /\ \A i \in 1..n - 1 : i \in ObjId BY <1>0, Ranges
<1>6. k.text[n] = w /\ \A i \in ObjId \ {n} : k.text[i] = s.text[i]
  BY <1>0, <1>1, <1>4 DEF StoreOK
<1>7. StoreShape(k)
  <2>1. DOMAIN k.text = ObjId BY <1>0, <1>4 DEF StoreOK
  <2>2. \A i \in ObjId : DOMAIN k.text[i] = TextFields BY <1>0, <1>2, <1>6 DEF StoreOK
  <2>3. QED BY <1>0, <1>4, <2>1, <2>2 DEF StoreShape, StoreOK
<1>8. \A i \in ObjId : i >= k.rt.next => k.text[i].consts = {}
  <2>1. \A i \in ObjId : i >= n => s.text[i].consts = {} BY <1>0 DEF StoreOK
  <2>2. \A i \in ObjId : i >= k.rt.next => i >= n BY <1>1, <1>4, <1>5 DEF ObjId
  <2>3. QED BY <1>2, <1>6, <2>1, <2>2
<1>9. \A i \in 1..n - 1 : k.text[i] = s.text[i]
  <2>1. \A i \in 1..n - 1 : i \in ObjId \ {n} BY <1>5
  <2>2. QED BY <1>6, <2>1
<1>10. \A i \in n..k.rt.next - 1 : TextOK(k, i)
  <2>1. k.rt.next - 1 = n BY <1>1, <1>4, <1>5
  <2>2. k.rt.heap[n].pointer_to = 0 /\ k.rt.heap[n].array0_of = 0
    BY <1>1, <1>4, <1>5, <2>1 DEF TagStep
  <2>3. TextOK(k, n) BY <1>1, <1>2, <1>4, <1>6, <2>2 DEF TextOK, StructKinds
  <2>4. QED BY <1>5, <2>1, <2>3
<1>11. ConstsOK(k) BY <1>0, <1>4 DEF ConstsOK
<1>12. TypesOK(k) /\ Grows(s, k)
  <2>1. /\ TagStep(s.rt, k.rt) /\ k.emit = s.emit /\ s.written \subseteq k.written
        /\ s.begun \subseteq k.begun
        /\ \A i \in 1..s.rt.next - 1 : /\ k.text[i] = s.text[i] \/ LateText(s, k, i)
                                       /\ s.structs[i].made => k.structs[i].made
    BY <1>1, <1>4, <1>9
  <2>2. \A i \in s.rt.next..k.rt.next - 1 : TextOK(k, i) BY <1>10
  <2>3. QED BY <1>7, <1>8, <1>11, <2>1, <2>2, TagTypes
<1>13. Beside(s, k) BY <1>1, <1>4, <1>9 DEF Beside
<1>14. QED BY <1>1, <1>3, <1>4, <1>12, <1>13 DEF Follows, SameStacks, k, q

(* A form for d is written, in a state that has just grown.                *)
LEMMA FormWritten ==
  ASSUME NEW s, TypesOK(s), NEW m, Follows(s, m), m.said = s.said, m.emit = s.emit,
         m.rt.halt = "no", m.constant_id = s.constant_id,
         NEW d, d.type # 0, Typ(s, d.type), NEW storage,
         TypeNamesOf(m.rt) =
           TypeNamesOf(s.rt) \cup (IF storage = "typedef" THEN {d.identifier} ELSE {})
  PROVE  LET k == Say(m, Form(KindOf(storage), d.identifier, s.text[d.type]))
         IN  Emits(s, k) /\ k.rt = m.rt /\ Written(s, k, d, storage)
<1> DEFINE kind == KindOf(storage)
           form == Form(kind, d.identifier, s.text[d.type])
           k == Say(m, form)
<1>1. TypesOK(m) /\ s.written \subseteq m.written /\ s.begun \subseteq m.begun
  BY DEF Follows, Grows
<1>2. kind \in {"global", "typedef"} /\ kind \in DeclKinds BY DEF KindOf, DeclKinds
<1>3. form.kind = kind /\ form.name = d.identifier /\ form.text = s.text[d.type] BY DEF Form
<1>4. m.emit # 0 => FormOK(m, form)
  BY <1>1, <1>3 DEF FormOK, Typ, Good, Writable
<1> HIDE DEF form, kind
<1>5. /\ TypesOK(k) /\ Grows(m, k) /\ SameStacks(m, k) /\ Beside(m, k)
      /\ Says(m, k, {form.kind}) /\ k.rt = m.rt /\ k.constant_id = m.constant_id
      /\ k.said = IF m.emit # 0 THEN m.said \cup {form} ELSE m.said
  BY <1>1, <1>4, SayStep
<1> HIDE DEF k
<1>6. Follows(m, k) BY <1>5 DEF Follows
<1>7. Follows(s, k) BY <1>6, FollowsTwice
<1>8. Says(s, k, {kind}) BY <1>3, <1>5, SaysLater
<1>9. Emits(s, k) BY <1>2, <1>5, <1>7, <1>8 DEF Emits, Says
<1>10. DeclaredBy(m.said \cup {form}) =
         DeclaredBy(m.said) \cup {Declares(kind, d.identifier, s.text[d.type].term)}
  BY <1>2, <1>3, DeclaredByMore, ZenonT(60)
<1>11. Written(s, k, d, storage) BY <1>5, <1>10 DEF Written, TypeNamesOf, kind
<1>12. QED BY <1>5, <1>9, <1>11 DEF k, form, kind

LEMMA EmitDeclaratorStep ==
  ASSUME NEW s, TypesOK(s), Room(s.rt, 1), NEW d, DtorTyped(s, d), NEW storage
  PROVE  LET k == EmitDeclarator(d, storage, s)
         IN  /\ Emits(s, k) /\ k.rt.next <= s.rt.next + 1
             /\ /\ s.rt.halt = "no" /\ d.type # 0
                /\ storage = "typedef" => d.identifier \notin TypeNamesOf(s.rt)
                => Written(s, k, d, storage)
<1> DEFINE k == EmitDeclarator(d, storage, s)
           name == d.identifier
           t == d.type
           tab == Cur(s.rt).tab["type"]
<1>0. /\ RegOK(s.rt) /\ s.rt.next \in Nat /\ Typ(s, t) /\ name \notin Intrinsics
      /\ DOMAIN s = Fields
  BY Ranges DEF TypesOK, StoreOK, DtorTyped
<1>1. Found(tab, name) <=> name \in TypeNamesOf(s.rt)
  BY DEF Found, Matches, TypeNamesOf
<1>2. CASE s.rt.halt # "no"
  <2>1. k = s BY <1>2 DEF EmitDeclarator
  <2>2. Emits(s, s) BY EmitsSame, DerivesSelf, StaysSelf
  <2>3. QED BY <1>0, <1>2, <2>1, <2>2
<1>3. CASE s.rt.halt = "no" /\ t = 0
  <2>1. k = [s EXCEPT !.failed = TRUE] BY <1>3 DEF EmitDeclarator
  <2>2. Same(s, k) /\ SameStacks(s, k) BY <1>0, <2>1 DEF Same, SameStacks, Fields
  <2> HIDE DEF k
  <2>3. Derives(s, k) /\ k.constant_id = s.constant_id /\ k.rt = s.rt
    BY <2>2, SameStep DEF Same
  <2>4. Emits(s, k) BY <2>2, <2>3, EmitsSame
  <2>5. QED BY <1>0, <1>3, <2>3, <2>4 DEF k
<1>4. CASE s.rt.halt = "no" /\ t # 0 /\ storage # "typedef"
  <2> DEFINE q == Global(s.rt, name, t)
             m == WithRegistry(s, q)
  <2>1. /\ RegOK(q) /\ TagStep(s.rt, q) /\ SamePrevs(s.rt, q) /\ SameOpen(s.rt, q)
        /\ SameTypeNames(s.rt, q) /\ q.next = s.rt.next /\ q.halt = s.rt.halt
    BY <1>0, GlobalStep
  <2>2. k = Say(m, Form("global", name, s.text[t])) BY <1>4 DEF EmitDeclarator, WithRegistry
  <2> HIDE DEF q
  <2>3. /\ Derives(s, m) /\ SameStacks(s, m) /\ m.rt = q /\ m.constant_id = s.constant_id
    <3>1. \A i \in s.rt.next..q.next - 1 : q.heap[i].kind \in TagKinds /\ ~ Declared
      BY <1>0, <2>1
    <3>2. QED BY <2>1, <3>1, RegistryStep
  <2> HIDE DEF m, k
  <2>4. Follows(s, m) /\ m.said = s.said /\ m.emit = s.emit BY <2>3, DerivesFollows
  <2>5. KindOf(storage) = "global" BY <1>4 DEF KindOf
  <2>6. TypeNamesOf(m.rt) =
          TypeNamesOf(s.rt) \cup (IF storage = "typedef" THEN {name} ELSE {})
    BY <1>4, <2>1, <2>3 DEF TypeNamesOf, SameTypeNames
  <2>7. Emits(s, k) /\ k.rt = m.rt /\ Written(s, k, d, storage)
    <3>1. m.rt.halt = "no" BY <1>4, <2>1, <2>3
    <3>2. d.type # 0 /\ Typ(s, d.type) BY <1>0, <1>4
    <3>3. k = Say(m, Form(KindOf(storage), d.identifier, s.text[d.type])) BY <2>2, <2>5
    <3>4. QED BY <2>3, <2>4, <2>6, <3>1, <3>2, <3>3, FormWritten
  <2>8. QED BY <1>0, <2>1, <2>3, <2>7 DEF k
<1>5. CASE s.rt.halt = "no" /\ t # 0 /\ storage = "typedef" /\ ~ Found(tab, name)
  <2> DEFINE m == NewTypedef(s, name, t)
             q == Typedef(s.rt, name, t)
  <2>1. /\ Follows(s, m) /\ m.said = s.said /\ m.constant_id = s.constant_id
        /\ m.emit = s.emit /\ m.rt = q /\ m.rt.halt = s.rt.halt
        /\ m.rt.next = s.rt.next + 1
        /\ TypeNamesOf(m.rt) = TypeNamesOf(s.rt) \cup {name}
    <3>1. ~ Found(Cur(s.rt).tab["type"], name) /\ name \notin Intrinsics BY <1>0, <1>5
    <3> HIDE DEF name
    <3>2. QED BY <3>1, NewTypedefStep
  <2>2. k = Say(m, Form("typedef", name, s.text[t]))
    <3>1. k = EmitTypedef(s, name, t) BY <1>5 DEF EmitDeclarator
    <3>2. q.next # s.rt.next BY <1>0, <2>1
    <3>3. QED BY <3>1, <3>2 DEF EmitTypedef, NewTypedef
  <2> HIDE DEF m, q, k
  <2>3. KindOf(storage) = "typedef" BY <1>5 DEF KindOf
  <2>4. Emits(s, k) /\ k.rt = m.rt /\ Written(s, k, d, storage)
    <3>1. m.rt.halt = "no" BY <1>5, <2>1
    <3>2. d.type # 0 /\ Typ(s, d.type) BY <1>0, <1>5
    <3>3. k = Say(m, Form(KindOf(storage), d.identifier, s.text[d.type])) BY <2>2, <2>3
    <3>4. TypeNamesOf(m.rt) =
            TypeNamesOf(s.rt) \cup (IF storage = "typedef" THEN {d.identifier} ELSE {})
      BY <1>5, <2>1
    <3>5. QED BY <2>1, <3>1, <3>2, <3>3, <3>4, FormWritten
  <2>5. QED BY <1>0, <2>1, <2>4 DEF k
<1>6. CASE s.rt.halt = "no" /\ t # 0 /\ storage = "typedef" /\ Found(tab, name)
  <2> DEFINE q == Typedef(s.rt, name, t)
  <2>1. q = s.rt \/ q = Halt(s.rt, "abort") BY <1>6 DEF Typedef
  <2>2. q.next = s.rt.next BY <1>0, <2>1, HaltStep
  <2>3. k = WithRegistry(s, q)
    <3>1. k = EmitTypedef(s, name, t) BY <1>6 DEF EmitDeclarator
    <3>2. QED BY <2>2, <3>1 DEF EmitTypedef, WithRegistry
  <2>4. /\ TagStep(s.rt, q) /\ SameOpen(s.rt, q) /\ SamePrevs(s.rt, q)
        /\ SameTypeNames(s.rt, q)
    BY <1>0, <2>1, TagStepSelf, HaltStep
  <2> HIDE DEF q
  <2>5. Derives(s, k) /\ SameStacks(s, k) /\ k.rt = q /\ k.constant_id = s.constant_id
    <3>1. \A i \in s.rt.next..q.next - 1 : q.heap[i].kind \in TagKinds /\ ~ Declared
      BY <1>0, <2>2
    <3>2. QED BY <2>3, <2>4, <3>1, RegistryStep
  <2>6. Emits(s, k) BY <2>5, EmitsSame
  <2>7. QED BY <1>0, <1>1, <1>6, <2>2, <2>5, <2>6
<1>7. QED BY <1>2, <1>3, <1>4, <1>5, <1>6

(* The declarators at the positions z of x have been written.              *)
IdsAt(x, z) == {x[j].identifier : j \in z}
DeclarationsAt(s, x, z, storage) ==
  {Declares(KindOf(storage), x[j].identifier, s.text[x[j].type].term) : j \in z}

Introducible(s, x, storage) ==
  /\ s.rt.halt = "no" /\ \A j \in DOMAIN x : x[j].type # 0
  /\ storage = "typedef" =>
       /\ \A j \in DOMAIN x : x[j].identifier \notin TypeNamesOf(s.rt)
       /\ \A i, j \in DOMAIN x : x[i].identifier = x[j].identifier => i = j

AllWritten(s, k, x, z, storage) ==
  /\ k.rt.halt = "no"
  /\ TypeNamesOf(k.rt) =
       TypeNamesOf(s.rt) \cup (IF storage = "typedef" THEN IdsAt(x, z) ELSE {})
  /\ Exact => DeclaredBy(k.said) =
                DeclaredBy(s.said) \cup
                  (IF s.emit = 0 THEN {} ELSE DeclarationsAt(s, x, z, storage))

AllEmitted(s, k, x, z, storage) ==
  /\ Emits(s, k) /\ k.rt.next <= s.rt.next + Cardinality(z)
  /\ Introducible(s, x, storage) => AllWritten(s, k, x, z, storage)

LEMMA EmitsTwice ==
  ASSUME NEW s, TypesOK(s), NEW k, Emits(s, k), NEW l, Emits(k, l)
  PROVE  Emits(s, l)
<1>1. Follows(s, l) BY FollowsTwice DEF Emits
<1>2. s.written \subseteq l.written /\ k.written \subseteq l.written
      /\ k.begun \subseteq l.begun
  BY <1>1 DEF Follows, Grows, Emits
<1>3. Says(s, l, {"global", "typedef"}) BY <1>2 DEF Emits, Says, FormOK
<1>4. QED BY <1>1, <1>3 DEF Emits

LEMMA WrittenMore ==
  ASSUME NEW s, TypesOK(s), NEW k, Emits(s, k), NEW x, NEW storage,
         \A j \in DOMAIN x : DtorTyped(s, x[j]),
         NEW z \in SUBSET DOMAIN x, AllWritten(s, k, x, z, storage),
         NEW i \in DOMAIN x, NEW l, Written(k, l, x[i], storage)
  PROVE  AllWritten(s, l, x, z \cup {i}, storage)
<1>1. IdsAt(x, z \cup {i}) = IdsAt(x, z) \cup {x[i].identifier} BY DEF IdsAt
<1>2. TypeNamesOf(l.rt) =
        TypeNamesOf(s.rt) \cup (IF storage = "typedef" THEN IdsAt(x, z \cup {i}) ELSE {})
  BY <1>1 DEF Written, AllWritten
<1>3. ASSUME Exact
      PROVE  DeclaredBy(l.said) =
               DeclaredBy(s.said) \cup
                 (IF s.emit = 0 THEN {} ELSE DeclarationsAt(s, x, z \cup {i}, storage))
  <2> DEFINE d(j) == Declares(KindOf(storage), x[j].identifier, s.text[x[j].type].term)
  <2>1. k.text[x[i].type].term = s.text[x[i].type].term
    <3>1. Typ(s, x[i].type) BY DEF DtorTyped
    <3>2. TypesOK(k) /\ Grows(s, k) BY DEF Emits, Follows
    <3>3. QED BY <1>3, <3>1, <3>2, TypGrows
  <2>2. DeclaredBy(l.said) = DeclaredBy(k.said) \cup (IF k.emit = 0 THEN {} ELSE {d(i)})
    BY <2>1 DEF Written
  <2>3. k.emit = s.emit BY DEF Emits, Follows, Grows
  <2>4. DeclarationsAt(s, x, z, storage) = {d(j) : j \in z}
        /\ DeclarationsAt(s, x, z \cup {i}, storage) = {d(j) : j \in z \cup {i}}
    BY DEF DeclarationsAt
  <2> HIDE DEF d
  <2>5. {d(j) : j \in z \cup {i}} = {d(j) : j \in z} \cup {d(i)} OBVIOUS
  <2>6. QED BY <1>3, <2>2, <2>3, <2>4, <2>5 DEF AllWritten
<1>4. QED BY <1>2, <1>3 DEF AllWritten, Written

LEMMA EmitMore ==
  ASSUME NEW s, TypesOK(s), NEW x, NEW storage, IsSeq(x), Room(s.rt, Len(x)),
         \A j \in DOMAIN x : DtorTyped(s, x[j]),
         NEW z \in SUBSET DOMAIN x, NEW i \in DOMAIN x, i \notin z,
         Cardinality(z) \in Nat, Cardinality(z \cup {i}) = Cardinality(z) + 1,
         Cardinality(z) < Len(x),
         NEW k, AllEmitted(s, k, x, z, storage)
  PROVE  AllEmitted(s, EmitDeclarator(x[i], storage, k), x, z \cup {i}, storage)
<1> DEFINE l == EmitDeclarator(x[i], storage, k)
           n == Cardinality(z)
<1>0. /\ TypesOK(k) /\ Grows(s, k) /\ Emits(s, k) /\ k.rt.next <= s.rt.next + n
      /\ k.rt.next \in Nat /\ s.rt.next \in Nat /\ MaxObjs \in Nat /\ Len(x) \in Nat
  BY Ranges, SeqFacts DEF AllEmitted, Emits, Follows, TypesOK, StoreOK
<1>1. Room(k.rt, 1)
  <2>1. s.rt.next + Len(x) <= MaxObjs + 1 BY DEF Room
  <2>2. n \in Nat /\ n + 1 <= Len(x) BY <1>0
  <2>2a. /\ k.rt.next <= s.rt.next + n
         /\ k.rt.next \in Nat /\ s.rt.next \in Nat /\ MaxObjs \in Nat /\ Len(x) \in Nat
    BY <1>0
  <2> HIDE DEF n
  <2>3. k.rt.next + 1 <= MaxObjs + 1 BY <2>1, <2>2, <2>2a, SMTT(40)
  <2>4. QED BY <2>3 DEF Room
<1>2. DtorTyped(k, x[i]) BY <1>0, TypedGrows
<1>3. /\ Emits(k, l) /\ l.rt.next <= k.rt.next + 1
      /\ /\ k.rt.halt = "no" /\ x[i].type # 0
         /\ storage = "typedef" => x[i].identifier \notin TypeNamesOf(k.rt)
         => Written(k, l, x[i], storage)
  BY <1>0, <1>1, <1>2, EmitDeclaratorStep
<1> HIDE DEF l
<1>4. Emits(s, l) BY <1>0, <1>3, EmitsTwice
<1>5. l.rt.next <= s.rt.next + Cardinality(z \cup {i})
  <2>1. l.rt.next \in Nat BY <1>4, Ranges DEF Emits, Follows, TypesOK, StoreOK
  <2>2. l.rt.next <= k.rt.next + 1 /\ k.rt.next <= s.rt.next + n BY <1>0, <1>3
  <2>3. k.rt.next \in Nat /\ s.rt.next \in Nat /\ n \in Nat BY <1>0
  <2>4. Cardinality(z \cup {i}) = n + 1 OBVIOUS
  <2> HIDE DEF n
  <2>5. QED BY <2>1, <2>2, <2>3, <2>4, SMTT(40)
<1>6. ASSUME Introducible(s, x, storage) PROVE AllWritten(s, l, x, z \cup {i}, storage)
  <2>1. AllWritten(s, k, x, z, storage) BY <1>6 DEF AllEmitted
  <2>2. storage = "typedef" => x[i].identifier \notin TypeNamesOf(k.rt)
    <3>1. ASSUME storage = "typedef", x[i].identifier \in TypeNamesOf(k.rt) PROVE FALSE
      <4>1. x[i].identifier \in IdsAt(x, z)
        BY <1>6, <2>1, <3>1 DEF AllWritten, Introducible
      <4>2. PICK j \in z : x[j].identifier = x[i].identifier BY <4>1 DEF IdsAt
      <4>3. i = j BY <1>6, <3>1, <4>2 DEF Introducible
      <4>4. QED BY <4>2, <4>3
    <3>2. QED BY <3>1
  <2>3. Written(k, l, x[i], storage)
    BY <1>3, <1>6, <2>1, <2>2 DEF AllWritten, Introducible
  <2>4. QED BY <1>0, <2>1, <2>3, WrittenMore
<1>7. QED BY <1>4, <1>5, <1>6 DEF AllEmitted, l

LEMMA NoneEmitted ==
  ASSUME NEW s, TypesOK(s), NEW x, NEW storage
  PROVE  AllEmitted(s, s, x, {}, storage)
<1>1. Emits(s, s) BY EmitsSame, DerivesSelf, StaysSelf
<1>2. Cardinality({}) = 0 BY FS_EmptySet
<1>3. s.rt.next \in Nat BY Ranges DEF TypesOK, StoreOK
<1>4. IdsAt(x, {}) = {} /\ DeclarationsAt(s, x, {}, storage) = {} BY DEF IdsAt, DeclarationsAt
<1>5. Introducible(s, x, storage) => AllWritten(s, s, x, {}, storage)
  BY <1>4 DEF Introducible, AllWritten
<1>6. QED BY <1>1, <1>2, <1>3, <1>5 DEF AllEmitted

LEMMA SeqSize ==
  ASSUME NEW x, IsSeq(x)
  PROVE  IsFiniteSet(DOMAIN x) /\ Cardinality(DOMAIN x) = Len(x) /\ Len(x) \in Nat
<1>1. DOMAIN x = 1..Len(x) /\ Len(x) \in Nat BY SeqFacts
<1>2. \A n \in Nat : IsFiniteSet(1..n) /\ Cardinality(1..n) = n
  <2>1. SUFFICES ASSUME NEW n \in Nat PROVE IsFiniteSet(1..n) /\ Cardinality(1..n) = n
    OBVIOUS
  <2>2. 1 \in Int /\ n \in Int OBVIOUS
  <2>3. IsFiniteSet(1..n) /\ Cardinality(1..n) = IF 1 > n THEN 0 ELSE n - 1 + 1
    BY <2>2, FS_Interval
  <2>4. QED BY <2>3
<1>3. QED BY <1>1, <1>2

LEMMA FoldEmits ==
  ASSUME NEW base, TypesOK(base), NEW x, NEW storage, IsSeq(x), Room(base.rt, Len(x)),
         \A j \in DOMAIN x : DtorTyped(base, x[j])
  PROVE  AllEmitted(base, FoldIter("declarators", storage, x, base)[DOMAIN x],
                    x, DOMAIN x, storage)
<1> DEFINE g == FoldIter("declarators", storage, x, base)
           K == {k \in Nat : \A z \in SUBSET DOMAIN x :
                               Cardinality(z) <= k => AllEmitted(base, g[z], x, z, storage)}
<1>1. \A z \in SUBSET DOMAIN x : g[z] = FoldStep("declarators", storage, x, base, g, z)
  BY FoldIterExists
<1> HIDE DEF g
<1>2. g[{}] = base BY <1>1 DEF FoldStep
<1>3. \A z \in SUBSET DOMAIN x : z # {} =>
        g[z] = EmitDeclarator(x[Lowest(z)], storage, g[z \ {Lowest(z)}])
  BY <1>1 DEF FoldStep, Apply
<1>4. IsFiniteSet(DOMAIN x) /\ Cardinality(DOMAIN x) = Len(x) /\ Len(x) \in Nat
  BY SeqSize
<1>5. 0 \in K
  <2>1. ASSUME NEW z \in SUBSET DOMAIN x, Cardinality(z) <= 0, z # {} PROVE FALSE
    <3>1. Cardinality(z) \in Nat /\ Cardinality(z) >= 1 BY <2>1, LowestIn
    <3>2. QED BY <2>1, <3>1
  <2>2. AllEmitted(base, g[{}], x, {}, storage) BY <1>2, NoneEmitted
  <2>3. QED BY <2>1, <2>2
<1>6. ASSUME NEW k \in K PROVE k + 1 \in K
  <2>1. ASSUME NEW y \in SUBSET DOMAIN x, Cardinality(y) <= k + 1, y # {}
        PROVE  AllEmitted(base, g[y], x, y, storage)
    <3> DEFINE i == Lowest(y)
               z == y \ {i}
    <3>1. /\ i \in y /\ z \in SUBSET DOMAIN x /\ Cardinality(y) \in Nat
          /\ Cardinality(y) >= 1 /\ Cardinality(z) = Cardinality(y) - 1
      BY <2>1, LowestIn
    <3>2. Cardinality(z) <= k /\ Cardinality(z) \in Nat BY <2>1, <3>1
    <3>3. AllEmitted(base, g[z], x, z, storage) BY <3>1, <3>2
    <3>4. g[y] = EmitDeclarator(x[i], storage, g[z]) BY <1>3, <2>1
    <3>5. i \in DOMAIN x /\ i \notin z /\ z \cup {i} = y BY <2>1, <3>1
    <3>6. Cardinality(y) <= Len(x) BY <1>4, <2>1, FS_Subset
    <3> HIDE DEF i, z
    <3>7. Cardinality(z) < Len(x) /\ Cardinality(z \cup {i}) = Cardinality(z) + 1
      <4>1. Cardinality(z) = Cardinality(y) - 1 BY <3>1
      <4>2. Cardinality(y) \in Nat /\ Cardinality(y) <= Len(x) BY <3>1, <3>6
      <4>3. Cardinality(z \cup {i}) = Cardinality(y) BY <3>5
      <4>4. Len(x) \in Nat BY <1>4
      <4>5. QED BY <3>2, <4>1, <4>2, <4>3, <4>4
    <3>8. AllEmitted(base, g[y], x, z \cup {i}, storage)
      BY <3>1, <3>2, <3>3, <3>4, <3>5, <3>7, EmitMore
    <3>9. QED BY <3>5, <3>8
  <2>2. AllEmitted(base, g[{}], x, {}, storage) BY <1>2, NoneEmitted
  <2>3. ASSUME NEW y \in SUBSET DOMAIN x, Cardinality(y) <= k + 1
        PROVE  AllEmitted(base, g[y], x, y, storage)
    BY <2>1, <2>2, <2>3
  <2>4. QED BY <2>3
<1>7. K = Nat
  <2>1. K \in SUBSET Nat OBVIOUS
  <2> HIDE DEF K
  <2>2. QED BY <1>5, <1>6, <2>1, NatSetInduction
<1>8. AllEmitted(base, g[DOMAIN x], x, DOMAIN x, storage) BY <1>4, <1>7
<1>9. QED BY <1>8 DEF g

(* gghc_emit_declaration.                                                  *)
LEMMA EmitDeclarationStep ==
  ASSUME NEW s, Held(s), Len(s.decls) >= 1, Room(s.rt, Len(CurDecl(s).declarators))
  PROVE  LET k == EmitDeclaration(s)
             x == CurDecl(s).declarators
             storage == CurDecl(s).storage
         IN  /\ Held(k) /\ Grows(s, k) /\ Beside(s, k) /\ k.constant_id = s.constant_id
             /\ k.rt.next <= s.rt.next + Len(x)
             /\ k.dtors = s.dtors /\ Popped(s.decls, k.decls)
             /\ IsSeq(x) /\ CurDecl(s) = s.decls[Len(s.decls)]
             /\ Introducible(s, x, storage) => AllWritten(s, k, x, DOMAIN x, storage)
<1> DEFINE x == CurDecl(s).declarators
           storage == CurDecl(s).storage
           base == DeclarationEnd(s)
           k == EmitDeclaration(s)
<1>1. Held(base) /\ Same(s, base) /\ base.dtors = s.dtors /\ Popped(s.decls, base.decls)
  BY DeclarationEndStep
<1>2. Len(s.decls) \in 1..Len(s.decls) BY SeqFacts DEF Held, Shaped
<1>3. CurDecl(s) = s.decls[Len(s.decls)] BY DEF CurDecl, Last
<1>4. IsSeq(x) /\ \A j \in DOMAIN x : DtorTyped(s, x[j])
  BY <1>2, <1>3 DEF Held, Shaped, StacksTyped, DeclTyped
<1>5. k = FoldIter("declarators", storage, x, base)[DOMAIN x] BY EmitDeclarationIsIter
<1>6. Room(s.rt, Len(x)) OBVIOUS
<1> HIDE DEF x, storage, base, k
<1>7. TypesOK(base) /\ Grows(s, base) /\ Beside(s, base) /\ TypesOK(s) /\ base.rt = s.rt
      /\ base.said = s.said /\ base.constant_id = s.constant_id /\ base.text = s.text
      /\ base.emit = s.emit
  BY <1>1, SameStep DEF Held, Same
<1>8. AllEmitted(base, k, x, DOMAIN x, storage)
  <2>1. \A j \in DOMAIN x : DtorTyped(base, x[j]) BY <1>4, <1>7, TypedGrows
  <2>2. Room(base.rt, Len(x)) BY <1>6, <1>7
  <2>3. QED BY <1>4, <1>5, <1>7, <2>1, <2>2, FoldEmits
<1>9. Follows(base, k) /\ Says(base, k, {"global", "typedef"})
      /\ k.constant_id = base.constant_id
  BY <1>8 DEF AllEmitted, Emits
<1>10. Held(k) BY <1>1, <1>9, HeldFollows
<1>11. Grows(s, k) /\ Beside(s, k)
  BY <1>7, <1>9, GrowsTwice, BesideTwice DEF Follows
<1>12. k.dtors = s.dtors /\ Popped(s.decls, k.decls)
  BY <1>1, <1>9 DEF Follows, SameStacks
<1>13. k.rt.next <= s.rt.next + Len(x)
  <2>1. Cardinality(DOMAIN x) = Len(x) BY <1>4, SeqSize
  <2>2. QED BY <1>7, <1>8, <2>1 DEF AllEmitted
<1>14. ASSUME Introducible(s, x, storage) PROVE AllWritten(s, k, x, DOMAIN x, storage)
  <2>1. Introducible(base, x, storage) BY <1>7, <1>14 DEF Introducible
  <2>2. AllWritten(base, k, x, DOMAIN x, storage) BY <1>8, <2>1 DEF AllEmitted
  <2>3. DeclarationsAt(base, x, DOMAIN x, storage) = DeclarationsAt(s, x, DOMAIN x, storage)
    BY <1>7 DEF DeclarationsAt
  <2>4. QED BY <1>7, <2>2, <2>3 DEF AllWritten
<1>15. QED BY <1>3, <1>4, <1>7, <1>9, <1>10, <1>11, <1>12, <1>13, <1>14 DEF x, storage, k

-----------------------------------------------------------------------------
(* The open grammar positions: what lies on what.                          *)

MayLie(a, b) ==
  /\ a \in {"decl", "fdef", "body", "struct", "enum", "sdecl", "dtor", "params", "pdecl"}
  /\ a = "decl"   => b \in {"none", "body"}
  /\ a = "fdef"   => b = "none"
  /\ a = "body"   => b = "fdef"
  /\ a = "struct" => b \in {"decl", "sdecl", "pdecl", "struct"}
  /\ a = "enum"   => b \in {"decl", "sdecl", "pdecl"}
  /\ a = "sdecl"  => b = "struct"
  /\ a = "dtor"   => b \in {"decl", "sdecl", "pdecl", "fdef"}
  /\ a = "params" => b = "dtor"
  /\ a = "pdecl"  => b = "params"
PlaceOK(p, i) == MayLie(p[i].at, IF i = 1 THEN "none" ELSE p[i - 1].at)
Places(p) == \A i \in 1..Len(p) : PlaceOK(p, i)

LEMMA PlacesSame ==
  ASSUME NEW p, Places(p), Len(p) \in Nat, NEW q, Len(q) \in Nat, Len(q) <= Len(p),
         \A i \in 1..Len(q) : q[i].at = p[i].at
  PROVE  Places(q)
<1>1. ASSUME NEW i \in 1..Len(q) PROVE PlaceOK(q, i)
  <2>1. PlaceOK(p, i) /\ q[i].at = p[i].at BY <1>1 DEF Places
  <2>2. i # 1 => q[i - 1].at = p[i - 1].at BY <1>1
  <2>3. QED BY <2>1, <2>2 DEF PlaceOK
<1>2. QED BY <1>1 DEF Places

LEMMA PlacesPush ==
  ASSUME NEW p, Places(p), Len(p) \in Nat, NEW q, Len(q) = Len(p) + 1,
         \A i \in 1..Len(p) : q[i] = p[i], PlaceOK(q, Len(p) + 1)
  PROVE  Places(q)
<1>1. ASSUME NEW i \in 1..Len(p) PROVE PlaceOK(q, i)
  <2>1. PlaceOK(p, i) /\ q[i].at = p[i].at BY <1>1 DEF Places
  <2>2. i # 1 => q[i - 1].at = p[i - 1].at BY <1>1
  <2>3. QED BY <2>1, <2>2 DEF PlaceOK
<1>2. \A i \in 1..Len(q) : i \in 1..Len(p) \/ i = Len(p) + 1 OBVIOUS
<1>3. QED BY <1>1, <1>2 DEF Places

(* What reads the stacks below the innermost position.                     *)
LEMMA Inner ==
  ASSUME NEW s, NEW p, StackInv(s, p), Places(p), NEW i \in 1..Len(p), i < Len(p)
  PROVE  /\ DeclaresAt(p, Len(p)) => NDecl(p, i) < Len(s.decls)
         /\ p[i].at = "dtor" /\ p[Len(p)].at # "params" => NDtor(p, i) < Len(s.dtors)
         /\ NDecl(p, i) <= Len(s.decls) /\ NDtor(p, i) <= Len(s.dtors)
<1> DEFINE n == Len(p)
<1>1. n \in Nat /\ n >= 1 /\ i \in Nat /\ i <= n - 1 /\ n - 1 \in Nat BY Innermost
<1>2. Len(s.decls) = NDecl(p, n) /\ Len(s.dtors) = NDtor(p, n) BY DEF StackInv, Mirrors
<1>3. /\ NDecl(p, n) = NDecl(p, n - 1) + One(DeclaresAt(p, n))
      /\ NDecl(p, n - 1) \in Nat /\ NDecl(p, i) \in Nat /\ NDtor(p, i) \in Nat
      /\ NDecl(p, n) \in Nat /\ NDtor(p, n) \in Nat
  <2>1. n = (n - 1) + 1 BY <1>1
  <2> HIDE DEF n
  <2>2. QED BY <1>1, <2>1, Counts
<1>4. NDecl(p, i) <= NDecl(p, n - 1) BY <1>1, CountGrows DEF NDecl
<1>5. NDtor(p, i) <= NDtor(p, n) /\ NDecl(p, i) <= NDecl(p, n)
  BY <1>1, CountGrows DEF NDtor, NDecl
<1>6. DeclaresAt(p, n) => NDecl(p, i) < Len(s.decls) BY <1>2, <1>3, <1>4 DEF One
<1>7. ASSUME p[i].at = "dtor", p[n].at # "params" PROVE NDtor(p, i) < Len(s.dtors)
  <2>1. PlaceOK(p, i + 1) /\ i + 1 # 1 /\ i + 1 - 1 = i BY <1>1 DEF Places
  <2>2. p[i + 1].at = "params" BY <1>7, <2>1 DEF PlaceOK, MayLie
  <2>3. i + 1 # n BY <1>7, <2>2
  <2>4. i + 2 \in 1..n /\ i + 2 # 1 /\ i + 2 - 1 = i + 1 BY <1>1, <2>3
  <2>5. PlaceOK(p, i + 2) BY <2>4 DEF Places
  <2>6. p[i + 2].at = "pdecl" BY <2>2, <2>4, <2>5 DEF PlaceOK, MayLie
  <2>7. /\ NDtor(p, i + 1) = NDtor(p, i) + One(DeclaratorAt(p, i + 1))
        /\ NDtor(p, (i + 1) + 1) = NDtor(p, i + 1) + One(DeclaratorAt(p, (i + 1) + 1))
        /\ NDtor(p, i + 1) \in Nat /\ NDtor(p, (i + 1) + 1) \in Nat
    <3>1. \A m \in Nat : /\ NDtor(p, m + 1) = NDtor(p, m) + One(DeclaratorAt(p, m + 1))
                         /\ NDtor(p, m + 1) \in Nat
      <4>1. SUFFICES ASSUME NEW m \in Nat
                     PROVE  /\ NDtor(p, m + 1) = NDtor(p, m) + One(DeclaratorAt(p, m + 1))
                            /\ NDtor(p, m + 1) \in Nat
        OBVIOUS
      <4>2. m + 1 \in Nat OBVIOUS
      <4>3. QED BY <4>2, Counts
    <3>2. i \in Nat /\ i + 1 \in Nat BY <1>1
    <3>3. QED BY <3>1, <3>2
  <2>8. (i + 1) + 1 = i + 2 BY <1>1
  <2>9. DeclaratorAt(p, i + 2) BY <2>6 DEF DeclaratorAt
  <2>10. NDtor(p, i + 2) >= NDtor(p, i) + 1
    BY <1>3, <2>7, <2>8, <2>9 DEF One
  <2>11. NDtor(p, i + 2) <= NDtor(p, n)
    <3>1. i + 2 \in 0..n BY <2>4
    <3> HIDE DEF n
    <3>2. QED BY <1>1, <3>1, CountGrows DEF NDtor
  <2>12. QED BY <1>2, <1>3, <2>7, <2>8, <2>10, <2>11
<1>8. QED BY <1>2, <1>5, <1>6, <1>7

(* The positions up to n are the same, and so is what they have on the     *)
(* stacks.                                                                 *)
Kept(s, p, k, q, n) ==
  \A i \in 1..n :
    /\ q[i] = p[i]
    /\ DeclaresAt(p, i) => k.decls[NDecl(q, i)] = s.decls[NDecl(p, i)]
    /\ p[i].at = "dtor" => k.dtors[NDtor(q, i)] = s.dtors[NDtor(p, i)]

LEMMA Positions ==
  ASSUME NEW s, NEW p, StackInv(s, p), NEW i \in 1..Len(p)
  PROVE  /\ DeclaresAt(p, i) => NDecl(p, i) \in 1..Len(s.decls)
         /\ p[i].at = "dtor" => NDtor(p, i) \in 1..Len(s.dtors)
<1>1. Len(p) \in Nat /\ i - 1 \in Nat /\ i \in Nat /\ i = (i - 1) + 1 /\ i \in 0..Len(p)
  BY Innermost
<1>2. Len(s.decls) = NDecl(p, Len(p)) BY DEF StackInv, Mirrors
<1>3. NDecl(p, i) = NDecl(p, i - 1) + One(DeclaresAt(p, i)) /\ NDecl(p, i - 1) \in Nat
      /\ NDecl(p, i) \in Nat
  BY <1>1, Counts
<1>4. NDecl(p, i) <= NDecl(p, Len(p)) /\ NDecl(p, Len(p)) \in Nat
  BY <1>1, CountGrows, Counts DEF NDecl
<1>5. DeclaresAt(p, i) => NDecl(p, i) \in 1..Len(s.decls) BY <1>2, <1>3, <1>4 DEF One
<1>6. p[i].at = "dtor" => NDtor(p, i) \in 1..Len(s.dtors) BY DEF StackInv, Mirrors
<1>7. QED BY <1>5, <1>6

(* Positions are opened or closed above n.                                 *)
LEMMA KeptBelow ==
  ASSUME NEW s, NEW p, StackInv(s, p), NEW k, NEW q, StackInv(k, q),
         NEW n \in Nat, n <= Len(p), n <= Len(q), \A i \in 1..n : q[i] = p[i],
         \A i \in 1..Len(s.decls) : i <= Len(k.decls) => k.decls[i] = s.decls[i],
         \A i \in 1..Len(s.dtors) : i <= Len(k.dtors) => k.dtors[i] = s.dtors[i]
  PROVE  Kept(s, p, k, q, n)
<1>1. SUFFICES ASSUME NEW i \in 1..n
               PROVE  /\ DeclaresAt(p, i) => k.decls[NDecl(q, i)] = s.decls[NDecl(p, i)]
                      /\ p[i].at = "dtor" => k.dtors[NDtor(q, i)] = s.dtors[NDtor(p, i)]
  BY DEF Kept
<1>2. Len(p) \in Nat /\ Len(q) \in Nat /\ i \in 1..Len(p) /\ i \in 1..Len(q) /\ i \in 0..n
  BY Innermost
<1>3. SameAts(p, q, n) BY DEF SameAts
<1>4. NDecl(q, i) = NDecl(p, i) /\ NDtor(q, i) = NDtor(p, i) BY <1>2, <1>3, CountsSame
<1>5. q[i] = p[i] OBVIOUS
<1>6. DeclaresAt(p, i) => DeclaresAt(q, i) BY <1>5 DEF DeclaresAt
<1>7. DeclaresAt(p, i) => NDecl(p, i) \in 1..Len(s.decls) /\ NDecl(p, i) \in 1..Len(k.decls)
  BY <1>2, <1>4, <1>6, Positions
<1>8. p[i].at = "dtor" => NDtor(p, i) \in 1..Len(s.dtors) /\ NDtor(p, i) \in 1..Len(k.dtors)
  BY <1>2, <1>4, <1>5, Positions
<1>9. QED BY <1>4, <1>7, <1>8

(* The innermost position changes, and what it has on the stacks.          *)
LEMMA KeptTop ==
  ASSUME NEW s, NEW p, StackInv(s, p), Places(p), NEW k, NEW q,
         Len(p) >= 1, \A i \in 1..Len(p) - 1 : q[i] = p[i],
         k.decls = s.decls \/ (BelowSame(s.decls, k.decls) /\ DeclaresAt(p, Len(p))),
         k.dtors = s.dtors \/ (BelowSame(s.dtors, k.dtors) /\ p[Len(p)].at # "params")
  PROVE  Kept(s, p, k, q, Len(p) - 1)
<1>1. SUFFICES ASSUME NEW i \in 1..Len(p) - 1
               PROVE  /\ DeclaresAt(p, i) => k.decls[NDecl(q, i)] = s.decls[NDecl(p, i)]
                      /\ p[i].at = "dtor" => k.dtors[NDtor(q, i)] = s.dtors[NDtor(p, i)]
  BY DEF Kept
<1>2. /\ Len(p) \in Nat /\ i \in 1..Len(p) /\ i < Len(p) /\ i \in 0..Len(p) - 1
      /\ Len(p) - 1 \in Nat /\ Len(s.decls) \in Nat /\ Len(s.dtors) \in Nat
  BY Innermost
<1>3. SameAts(p, q, Len(p) - 1) BY DEF SameAts
<1>4. NDecl(q, i) = NDecl(p, i) /\ NDtor(q, i) = NDtor(p, i)
  <2> DEFINE n == Len(p) - 1
  <2>1. n \in Nat /\ SameAts(p, q, n) /\ i \in 0..n BY <1>2, <1>3
  <2> HIDE DEF n
  <2>2. QED BY <2>1, CountsSame
<1>5. /\ DeclaresAt(p, Len(p)) => NDecl(p, i) < Len(s.decls)
      /\ p[i].at = "dtor" /\ p[Len(p)].at # "params" => NDtor(p, i) < Len(s.dtors)
  BY <1>2, Inner
<1>6. /\ DeclaresAt(p, i) => NDecl(p, i) \in 1..Len(s.decls)
      /\ p[i].at = "dtor" => NDtor(p, i) \in 1..Len(s.dtors)
  BY <1>2, Positions
<1>7. DeclaresAt(p, i) => k.decls[NDecl(q, i)] = s.decls[NDecl(p, i)]
  BY <1>2, <1>4, <1>5, <1>6 DEF BelowSame
<1>8. p[i].at = "dtor" => k.dtors[NDtor(q, i)] = s.dtors[NDtor(p, i)]
  BY <1>2, <1>4, <1>5, <1>6 DEF BelowSame
<1>9. QED BY <1>7, <1>8

(* What the open positions have collected: parameters whose types may be   *)
(* written, and no more declarators than the list is long.                 *)
ParamsTyped(s, f) ==
  IsSeq(f.params) /\ \A j \in DOMAIN f.params : Typ(s, f.params[j]) /\ f.params[j] # 0
Few(f, d) == Len(d.declarators) <= (IF f.at = "decl" THEN f.n ELSE 0)

Linked(s, p) ==
  \A i \in 1..Len(p) :
    /\ p[i].n \in Nat
    /\ ParamsTyped(s, p[i])
    /\ DeclaresAt(p, i) => Few(p[i], s.decls[NDecl(p, i)])

LEMMA ParamsGrow ==
  ASSUME NEW s, TypesOK(s), NEW k, TypesOK(k), Grows(s, k), NEW f, ParamsTyped(s, f)
  PROVE  ParamsTyped(k, f)
BY TypGrows DEF ParamsTyped

LEMMA LinkedKept ==
  ASSUME NEW s, NEW p, Linked(s, p), TypesOK(s), NEW k, TypesOK(k), Grows(s, k),
         NEW q, NEW n \in Nat, Kept(s, p, k, q, n), n <= Len(p), Len(p) \in Nat,
         \/ Len(q) = n
         \/ /\ Len(q) = n + 1 /\ ParamsTyped(k, q[n + 1]) /\ q[n + 1].n \in Nat
            /\ DeclaresAt(q, n + 1) => Few(q[n + 1], k.decls[NDecl(q, n + 1)])
  PROVE  Linked(k, q)
<1>1. ASSUME NEW i \in 1..n
      PROVE  /\ ParamsTyped(k, q[i]) /\ q[i].n \in Nat
             /\ DeclaresAt(q, i) => Few(q[i], k.decls[NDecl(q, i)])
  <2>1. q[i] = p[i] /\ i \in 1..Len(p)
        /\ (DeclaresAt(p, i) => k.decls[NDecl(q, i)] = s.decls[NDecl(p, i)])
    BY <1>1 DEF Kept
  <2>2. ParamsTyped(s, p[i]) /\ (DeclaresAt(p, i) => Few(p[i], s.decls[NDecl(p, i)]))
        /\ p[i].n \in Nat
    BY <2>1 DEF Linked
  <2>3. ParamsTyped(k, q[i]) BY <2>1, <2>2, ParamsGrow
  <2>4. DeclaresAt(q, i) => DeclaresAt(p, i) BY <2>1 DEF DeclaresAt
  <2>5. QED BY <2>1, <2>2, <2>3, <2>4
<1>2. \A i \in 1..Len(q) : i \in 1..n \/ (i = n + 1 /\ Len(q) = n + 1) OBVIOUS
<1>3. QED BY <1>1, <1>2 DEF Linked

-----------------------------------------------------------------------------
(* The structs and enums that are open: o[i] is the innermost struct that  *)
(* is open at position i.                                                  *)

IsOpen(p, i) == p[i].at = "struct" \/ (p[i].at = "enum" /\ p[i].n > 0)
OpenSet(p) == {i \in Nat : IsOpen(p, i)}
NOpen(p, n) == Cardinality(Upto(OpenSet(p), n))

StructAt(s, st, f, up) ==
  /\ st \in 1..s.rt.next - 1 /\ s.rt.heap[st].kind \in StructKinds
  /\ s.structs[st].made /\ s.structs[st].prev = up /\ s.rt.heap[st].prev = up
  /\ s.text[st].term = f.type
  /\ s.emit # 0 => f.type \in s.begun
EnumAt(s, et, f) ==
  /\ et \in 1..s.rt.next - 1 /\ s.rt.heap[et].kind = "enum"
  /\ s.text[et].term = f.type /\ s.enums[et] = (IF f.n > 0 THEN 2 ELSE 1)
  /\ s.emit # 0 => f.type \in s.begun

FormAt(s, p, o, i) == IF p[i].at = "struct" THEN o[i] ELSE Cur(s.rt).current_enum

Chain(s, p, o) ==
  /\ o[0] = 0 /\ s.current_struct = o[Len(p)] /\ Cur(s.rt).current_struct = o[Len(p)]
  /\ \A i \in 1..Len(p) :
       /\ p[i].at = "struct" => StructAt(s, o[i], p[i], o[i - 1])
       /\ p[i].at # "struct" => o[i] = o[i - 1]
       /\ p[i].at = "enum" => i = Len(p) /\ EnumAt(s, Cur(s.rt).current_enum, p[i])
  /\ IsSeq(s.forms)
  /\ s.emit = 0 => s.forms = <<>>
  /\ s.emit # 0 =>
       /\ Len(s.forms) = NOpen(p, Len(p))
       /\ \A i \in 1..Len(p) : IsOpen(p, i) => s.forms[NOpen(p, i)] = FormAt(s, p, o, i)

LEMMA OpenCounts ==
  ASSUME NEW p, NEW n \in Nat
  PROVE  /\ NOpen(p, n) \in Nat /\ NOpen(p, 0) = 0
         /\ NOpen(p, n + 1) = NOpen(p, n) + One(IsOpen(p, n + 1))
         /\ \A m \in 0..n : NOpen(p, m) <= NOpen(p, n)
<1>1. /\ NOpen(p, n) \in Nat
      /\ NOpen(p, n + 1) = NOpen(p, n) + (IF n + 1 \in OpenSet(p) THEN 1 ELSE 0)
  BY CountStep DEF NOpen
<1>2. n + 1 \in OpenSet(p) <=> IsOpen(p, n + 1) BY DEF OpenSet
<1>3. \A m \in 0..n : NOpen(p, m) <= NOpen(p, n) BY CountGrows DEF NOpen
<1>4. NOpen(p, 0) = 0
  <2>1. Upto(OpenSet(p), 0) = {} BY DEF Upto
  <2>2. QED BY <2>1, FS_EmptySet DEF NOpen
<1>5. QED BY <1>1, <1>2, <1>3, <1>4 DEF One

LEMMA OpenSame ==
  ASSUME NEW p, NEW q, NEW n \in Nat, \A i \in 1..n : IsOpen(q, i) <=> IsOpen(p, i),
         NEW m \in 0..n
  PROVE  NOpen(q, m) = NOpen(p, m)
<1>1. Upto(OpenSet(q), m) = Upto(OpenSet(p), m)
  <2>1. \A i \in 1..m : i \in Nat /\ i \in 1..n OBVIOUS
  <2>2. QED BY <2>1 DEF Upto, OpenSet
<1>2. QED BY <1>1 DEF NOpen

(* What the links of the chain need of a step.                             *)
LinksStay(s, k) ==
  /\ s.rt.next <= k.rt.next /\ s.rt.next \in Nat /\ k.rt.next \in Nat
  /\ k.emit = s.emit /\ s.begun \subseteq k.begun
  /\ \A t \in 1..s.rt.next - 1 :
       s.rt.heap[t].kind \in StructKinds /\ s.structs[t].made =>
         /\ k.rt.heap[t].kind = s.rt.heap[t].kind /\ k.structs[t].made
         /\ k.structs[t].prev = s.structs[t].prev /\ k.rt.heap[t].prev = s.rt.heap[t].prev
         /\ k.text[t].term = s.text[t].term

LEMMA StructStays ==
  ASSUME NEW s, NEW k, LinksStay(s, k), NEW st, NEW f, NEW up, StructAt(s, st, f, up)
  PROVE  StructAt(k, st, f, up)
BY DEF LinksStay, StructAt

LEMMA BesideLinks ==
  ASSUME NEW s, TypesOK(s), NEW k, TypesOK(k), Grows(s, k), Beside(s, k)
  PROVE  /\ LinksStay(s, k) /\ k.emit = s.emit /\ k.forms = s.forms
         /\ k.current_struct = s.current_struct
         /\ Cur(k.rt).current_struct = Cur(s.rt).current_struct
         /\ Cur(k.rt).current_enum = Cur(s.rt).current_enum
         /\ \A et, f : EnumAt(s, et, f) => EnumAt(k, et, f)
<1>1. /\ s.rt.next \in Nat /\ k.rt.next \in Nat /\ s.rt.next <= k.rt.next
      /\ 1..s.rt.next - 1 \subseteq 1..k.rt.next - 1
  BY GrowsNext
<1>2. \A t \in 1..s.rt.next - 1 : s.rt.heap[t].kind \in TagKinds => k.text[t] = s.text[t]
  BY DEF Beside
<1>3. StructKinds \subseteq TagKinds /\ "enum" \in TagKinds BY DEF StructKinds, TagKinds
<1>4. LinksStay(s, k) BY <1>1, <1>2, <1>3 DEF LinksStay, Grows, Beside, SamePrevs
<1>5. \A et, f : EnumAt(s, et, f) => EnumAt(k, et, f)
  BY <1>1, <1>2, <1>3 DEF EnumAt, Grows, Beside
<1>6. QED BY <1>4, <1>5 DEF Grows, Beside, SameOpen

(* The open structs and enums are the same in q as in p.                   *)
SameOpenAt(p, q, i) ==
  /\ q[i].at = p[i].at
  /\ p[i].at \in {"struct", "enum"} => q[i].type = p[i].type
  /\ p[i].at = "enum" => q[i].n = p[i].n

LEMMA ChainTop ==
  ASSUME NEW s, TypesOK(s), NEW k, TypesOK(k), Grows(s, k), Beside(s, k),
         NEW p, NEW o, Chain(s, p, o), Len(p) \in Nat,
         NEW q, Len(q) = Len(p), \A i \in 1..Len(p) : SameOpenAt(p, q, i)
  PROVE  Chain(k, q, o)
<1>1. /\ LinksStay(s, k) /\ k.emit = s.emit /\ k.forms = s.forms
      /\ k.current_struct = s.current_struct
      /\ Cur(k.rt).current_struct = Cur(s.rt).current_struct
      /\ Cur(k.rt).current_enum = Cur(s.rt).current_enum
      /\ \A et, f : EnumAt(s, et, f) => EnumAt(k, et, f)
  BY BesideLinks
<1>2. ASSUME NEW i \in 1..Len(p)
      PROVE  /\ q[i].at = "struct" => StructAt(k, o[i], q[i], o[i - 1])
             /\ q[i].at # "struct" => o[i] = o[i - 1]
             /\ q[i].at = "enum" => i = Len(p) /\ EnumAt(k, Cur(k.rt).current_enum, q[i])
  <2>1. SameOpenAt(p, q, i) BY <1>2
  <2>2. p[i].at # "struct" => o[i] = o[i - 1] BY <1>2 DEF Chain
  <2>3. ASSUME q[i].at = "struct" PROVE StructAt(k, o[i], q[i], o[i - 1])
    <3>1. p[i].at = "struct" /\ q[i].type = p[i].type BY <2>1, <2>3 DEF SameOpenAt
    <3>2. StructAt(s, o[i], p[i], o[i - 1]) BY <1>2, <3>1 DEF Chain
    <3>3. StructAt(k, o[i], p[i], o[i - 1]) BY <1>1, <3>2, StructStays
    <3>4. QED BY <3>1, <3>3 DEF StructAt
  <2>4. ASSUME q[i].at = "enum"
        PROVE  i = Len(p) /\ EnumAt(k, Cur(k.rt).current_enum, q[i])
    <3>1. p[i].at = "enum" /\ q[i].type = p[i].type /\ q[i].n = p[i].n
      BY <2>1, <2>4 DEF SameOpenAt
    <3>2. i = Len(p) /\ EnumAt(s, Cur(s.rt).current_enum, p[i]) BY <1>2, <3>1 DEF Chain
    <3>3. EnumAt(k, Cur(k.rt).current_enum, p[i]) BY <1>1, <3>2
    <3>4. QED BY <3>1, <3>2, <3>3 DEF EnumAt
  <2>5. QED BY <2>1, <2>2, <2>3, <2>4 DEF SameOpenAt
<1>3. \A i \in 1..Len(p) : (IsOpen(q, i) <=> IsOpen(p, i)) /\ FormAt(k, q, o, i) = FormAt(s, p, o, i)
  BY <1>1 DEF SameOpenAt, IsOpen, FormAt
<1>4. \A m \in 0..Len(p) : NOpen(q, m) = NOpen(p, m) BY <1>3, OpenSame
<1>5. k.emit # 0 =>
        /\ Len(k.forms) = NOpen(q, Len(q))
        /\ \A i \in 1..Len(q) : IsOpen(q, i) => k.forms[NOpen(q, i)] = FormAt(k, q, o, i)
  <2>1. ASSUME k.emit # 0, NEW i \in 1..Len(p), IsOpen(q, i)
        PROVE  k.forms[NOpen(q, i)] = FormAt(k, q, o, i)
    <3>1. IsOpen(p, i) /\ FormAt(k, q, o, i) = FormAt(s, p, o, i) BY <1>3, <2>1
    <3>2. NOpen(q, i) = NOpen(p, i) BY <1>4
    <3>3. s.forms[NOpen(p, i)] = FormAt(s, p, o, i) BY <1>1, <2>1, <3>1 DEF Chain
    <3>4. QED BY <1>1, <3>1, <3>2, <3>3
  <2>2. Len(p) \in 0..Len(p) OBVIOUS
  <2>3. QED BY <1>1, <1>4, <2>1, <2>2 DEF Chain
<1>6. QED BY <1>1, <1>2, <1>5 DEF Chain

(* A position that is neither a struct nor an enum is opened, or closed.   *)
LEMMA ChainPush ==
  ASSUME NEW s, TypesOK(s), NEW k, TypesOK(k), Grows(s, k), Beside(s, k),
         NEW p, NEW o, Chain(s, p, o), Len(p) \in Nat,
         NEW q, Len(q) = Len(p) + 1, \A i \in 1..Len(p) : q[i] = p[i],
         \A i \in 1..Len(p) : p[i].at # "enum",
         q[Len(p) + 1].at \notin {"struct", "enum"}
  PROVE  \E u : Chain(k, q, u)
<1> DEFINE n == Len(p)
           u == [i \in 0..n + 1 |-> IF i <= n THEN o[i] ELSE o[n]]
<1>1. (\A i \in 0..n : u[i] = o[i]) /\ u[n + 1] = o[n] OBVIOUS
<1>2. /\ LinksStay(s, k) /\ k.emit = s.emit /\ k.forms = s.forms
      /\ k.current_struct = s.current_struct
      /\ Cur(k.rt).current_struct = Cur(s.rt).current_struct
      /\ Cur(k.rt).current_enum = Cur(s.rt).current_enum
  BY BesideLinks
<1> HIDE DEF u
<1>3. ASSUME NEW i \in 1..n
      PROVE  /\ q[i].at = "struct" => StructAt(k, u[i], q[i], u[i - 1])
             /\ q[i].at # "struct" => u[i] = u[i - 1]
             /\ q[i].at # "enum"
  <2>1. q[i] = p[i] /\ u[i] = o[i] /\ u[i - 1] = o[i - 1] BY <1>1, <1>3
  <2>2. /\ p[i].at = "struct" => StructAt(s, o[i], p[i], o[i - 1])
        /\ p[i].at # "struct" => o[i] = o[i - 1]
    BY <1>3 DEF Chain
  <2>3. QED BY <1>2, <2>1, <2>2, StructStays
<1>4. \A i \in 1..n : (IsOpen(q, i) <=> IsOpen(p, i)) /\ FormAt(k, q, u, i) = FormAt(s, p, o, i)
  BY <1>1, <1>2 DEF IsOpen, FormAt
<1>5. \A m \in 0..n : NOpen(q, m) = NOpen(p, m) BY <1>4, OpenSame
<1>6. ~ IsOpen(q, n + 1) BY DEF IsOpen
<1>7. NOpen(q, n + 1) = NOpen(p, n)
  <2>1. n \in 0..n OBVIOUS
  <2>2. NOpen(q, n + 1) = NOpen(q, n) + One(IsOpen(q, n + 1)) /\ NOpen(q, n) \in Nat
    BY OpenCounts
  <2>3. QED BY <1>5, <1>6, <2>1, <2>2 DEF One
<1>8. k.emit # 0 =>
        /\ Len(k.forms) = NOpen(q, Len(q))
        /\ \A i \in 1..Len(q) : IsOpen(q, i) => k.forms[NOpen(q, i)] = FormAt(k, q, u, i)
  <2>1. ASSUME k.emit # 0, NEW i \in 1..Len(q), IsOpen(q, i)
        PROVE  k.forms[NOpen(q, i)] = FormAt(k, q, u, i)
    <3>1. i \in 1..n BY <1>6, <2>1
    <3>2. IsOpen(p, i) /\ FormAt(k, q, u, i) = FormAt(s, p, o, i) BY <1>4, <2>1, <3>1
    <3>3. NOpen(q, i) = NOpen(p, i) BY <1>5, <3>1
    <3>4. s.forms[NOpen(p, i)] = FormAt(s, p, o, i) BY <1>2, <2>1, <3>1, <3>2 DEF Chain
    <3>5. QED BY <1>2, <3>2, <3>3, <3>4
  <2>2. QED BY <1>2, <1>7, <2>1 DEF Chain
<1>9. \A i \in 1..Len(q) : i \in 1..n \/ i = n + 1 OBVIOUS
<1>10. q[n + 1].at \notin {"struct", "enum"} /\ u[n + 1] = u[(n + 1) - 1] /\ u[0] = 0
       /\ u[Len(q)] = o[n]
  BY <1>1 DEF Chain
<1>11. Chain(k, q, u)
  <2>1. \A i \in 1..Len(q) :
          /\ q[i].at = "struct" => StructAt(k, u[i], q[i], u[i - 1])
          /\ q[i].at # "struct" => u[i] = u[i - 1]
          /\ q[i].at # "enum"
    BY <1>3, <1>9, <1>10
  <2>2. QED BY <1>2, <1>8, <1>10, <2>1 DEF Chain
<1>12. QED BY <1>11

LEMMA ChainPop ==
  ASSUME NEW s, TypesOK(s), NEW k, TypesOK(k), Grows(s, k), Beside(s, k),
         NEW p, NEW o, Chain(s, p, o), Len(p) \in Nat, Len(p) >= 1,
         NEW q, Len(q) = Len(p) - 1, \A i \in 1..Len(q) : q[i] = p[i],
         p[Len(p)].at \notin {"struct", "enum"}
  PROVE  Chain(k, q, o)
<1> DEFINE n == Len(q)
<1>0. n \in Nat /\ n + 1 = Len(p) OBVIOUS
<1>1. /\ LinksStay(s, k) /\ k.emit = s.emit /\ k.forms = s.forms
      /\ k.current_struct = s.current_struct
      /\ Cur(k.rt).current_struct = Cur(s.rt).current_struct
      /\ Cur(k.rt).current_enum = Cur(s.rt).current_enum
  BY BesideLinks
<1>2. ASSUME NEW i \in 1..n
      PROVE  /\ q[i].at = "struct" => StructAt(k, o[i], q[i], o[i - 1])
             /\ q[i].at # "struct" => o[i] = o[i - 1]
             /\ q[i].at # "enum"
  <2>1. q[i] = p[i] /\ i \in 1..Len(p) /\ i # Len(p) BY <1>0, <1>2
  <2>2. /\ p[i].at = "struct" => StructAt(s, o[i], p[i], o[i - 1])
        /\ p[i].at # "struct" => o[i] = o[i - 1]
        /\ p[i].at # "enum"
    BY <2>1 DEF Chain
  <2>3. QED BY <1>1, <2>1, <2>2, StructStays
<1>3. \A i \in 1..n : (IsOpen(q, i) <=> IsOpen(p, i)) /\ FormAt(k, q, o, i) = FormAt(s, p, o, i)
  BY <1>1 DEF IsOpen, FormAt
<1>4. \A m \in 0..n : NOpen(q, m) = NOpen(p, m) BY <1>0, <1>3, OpenSame
<1>5. NOpen(p, Len(p)) = NOpen(q, n)
  <2>1. ~ IsOpen(p, n + 1) BY <1>0 DEF IsOpen
  <2>2. NOpen(p, n + 1) = NOpen(p, n) + One(IsOpen(p, n + 1)) /\ NOpen(p, n) \in Nat
    BY <1>0, OpenCounts
  <2>3. n \in 0..n BY <1>0
  <2>4. QED BY <1>0, <1>4, <2>1, <2>2, <2>3 DEF One
<1>6. k.emit # 0 =>
        /\ Len(k.forms) = NOpen(q, Len(q))
        /\ \A i \in 1..Len(q) : IsOpen(q, i) => k.forms[NOpen(q, i)] = FormAt(k, q, o, i)
  <2>1. ASSUME k.emit # 0, NEW i \in 1..n, IsOpen(q, i)
        PROVE  k.forms[NOpen(q, i)] = FormAt(k, q, o, i)
    <3>1. IsOpen(p, i) /\ FormAt(k, q, o, i) = FormAt(s, p, o, i) BY <1>3, <2>1
    <3>2. NOpen(q, i) = NOpen(p, i) /\ i \in 1..Len(p) BY <1>0, <1>4
    <3>3. s.forms[NOpen(p, i)] = FormAt(s, p, o, i) BY <1>1, <2>1, <3>1, <3>2 DEF Chain
    <3>4. QED BY <1>1, <3>1, <3>2, <3>3
  <2>2. QED BY <1>1, <1>5, <2>1 DEF Chain
<1>7. o[Len(p)] = o[n]
  <2>1. Len(p) \in 1..Len(p) BY <1>0
  <2>2. o[Len(p)] = o[Len(p) - 1] BY <2>1 DEF Chain
  <2>3. QED BY <1>0, <2>2
<1>8. QED BY <1>1, <1>2, <1>6, <1>7 DEF Chain

(* The chain up to n, where no enum lies, for a step that leaves it alone. *)
ChainUpto(k, q, u, forms, n) ==
  \A i \in 1..n :
    /\ q[i].at = "struct" => StructAt(k, u[i], q[i], u[i - 1])
    /\ q[i].at # "struct" => u[i] = u[i - 1]
    /\ q[i].at # "enum"
    /\ k.emit # 0 /\ IsOpen(q, i) =>
         /\ q[i].at = "struct" /\ NOpen(q, i) \in 1..NOpen(q, n)
         /\ forms[NOpen(q, i)] = u[i]

SameUpto(p, o, q, u, n) ==
  /\ Len(p) \in Nat /\ n \in Nat /\ n <= Len(p)
  /\ \A i \in 1..n : q[i] = p[i] /\ p[i].at # "enum"
  /\ \A i \in 0..n : u[i] = o[i]

LEMMA ChainPart ==
  ASSUME NEW s, NEW k, LinksStay(s, k), NEW p, NEW o, Chain(s, p, o),
         NEW q, NEW u, NEW n, SameUpto(p, o, q, u, n)
  PROVE  /\ ChainUpto(k, q, u, s.forms, n) /\ NOpen(q, n) = NOpen(p, n) /\ u[0] = 0
         /\ NOpen(q, n) \in Nat
<1> USE DEF SameUpto
<1>1. \A i \in 1..n : IsOpen(q, i) <=> IsOpen(p, i) BY DEF IsOpen
<1>2. \A m \in 0..n : NOpen(q, m) = NOpen(p, m) BY <1>1, OpenSame
<1>3. NOpen(q, n) \in Nat BY OpenCounts
<1>4. ASSUME NEW i \in 1..n
      PROVE  /\ q[i].at = "struct" => StructAt(k, u[i], q[i], u[i - 1])
             /\ q[i].at # "struct" => u[i] = u[i - 1]
  <2>1. q[i] = p[i] /\ u[i] = o[i] /\ u[i - 1] = o[i - 1] /\ i \in 1..Len(p) BY <1>4
  <2>2. /\ p[i].at = "struct" => StructAt(s, o[i], p[i], o[i - 1])
        /\ p[i].at # "struct" => o[i] = o[i - 1]
    BY <2>1 DEF Chain
  <2>3. QED BY <2>1, <2>2, StructStays
<1>5. ASSUME NEW i \in 1..n, k.emit # 0, IsOpen(q, i)
      PROVE  /\ q[i].at = "struct" /\ NOpen(q, i) \in 1..NOpen(q, n)
             /\ s.forms[NOpen(q, i)] = u[i]
  <2>1. q[i] = p[i] /\ u[i] = o[i] /\ i \in 1..Len(p) /\ p[i].at # "enum" BY <1>5
  <2>2. q[i].at = "struct" /\ IsOpen(p, i) BY <1>5, <2>1 DEF IsOpen
  <2>3. s.forms[NOpen(p, i)] = FormAt(s, p, o, i) BY <1>5, <2>1, <2>2 DEF Chain, LinksStay
  <2>4. FormAt(s, p, o, i) = u[i] BY <2>1, <2>2 DEF FormAt
  <2>5. NOpen(q, i) = NOpen(p, i) BY <1>2, <1>5
  <2>6. NOpen(q, i) \in 1..NOpen(q, n)
    <3>1. i - 1 \in Nat /\ i \in 0..n BY <1>5
    <3>2. /\ NOpen(q, (i - 1) + 1) = NOpen(q, i - 1) + One(IsOpen(q, (i - 1) + 1))
          /\ NOpen(q, i - 1) \in Nat
      BY <3>1, OpenCounts
    <3>3. NOpen(q, i) <= NOpen(q, n) BY <3>1, OpenCounts
    <3>4. (i - 1) + 1 = i BY <1>5
    <3>5. QED BY <1>3, <1>5, <3>2, <3>3, <3>4 DEF One
  <2>7. QED BY <2>2, <2>3, <2>4, <2>5, <2>6
<1>6. u[0] = 0 BY DEF Chain
<1>7. n \in 0..n OBVIOUS
<1>8. QED BY <1>2, <1>3, <1>4, <1>5, <1>6, <1>7 DEF ChainUpto

(* A struct is opened.                                                     *)
LEMMA ChainStruct ==
  ASSUME NEW s, TypesOK(s), NEW k, TypesOK(k), Grows(s, k), NEW st, NEW term,
         StructBegun(s, k, st, term), ~ s.structs[st].made,
         st \in 1..k.rt.next - 1, st \in ObjId, k.rt.heap[st].kind \in StructKinds,
         NEW p, NEW o, Chain(s, p, o), Len(p) \in Nat,
         \A i \in 1..Len(p) : p[i].at # "enum",
         NEW q, Len(q) = Len(p) + 1, \A i \in 1..Len(p) : q[i] = p[i],
         q[Len(p) + 1].at = "struct", q[Len(p) + 1].type = term
  PROVE  \E u : Chain(k, q, u)
<1> DEFINE n == Len(p)
           u == [i \in 0..n + 1 |-> IF i <= n THEN o[i] ELSE st]
<1>1. (\A i \in 0..n : u[i] = o[i]) /\ u[n + 1] = st /\ n + 1 - 1 = n /\ n \in 0..n OBVIOUS
<1> HIDE DEF u
<1>2. LinksStay(s, k)
  <2>1. /\ s.rt.next \in Nat /\ k.rt.next \in Nat /\ s.rt.next <= k.rt.next
        /\ \A t \in 1..s.rt.next - 1 : t \in ObjId
    BY GrowsNext, Ranges DEF TypesOK, StoreOK
  <2>2. ASSUME NEW t \in 1..s.rt.next - 1, s.structs[t].made
        PROVE  /\ k.rt.heap[t].kind = s.rt.heap[t].kind /\ k.structs[t].made
               /\ k.structs[t].prev = s.structs[t].prev /\ k.rt.heap[t].prev = s.rt.heap[t].prev
               /\ k.text[t].term = s.text[t].term
    <3>1. t \in ObjId \ {st} BY <2>1, <2>2
    <3>2. QED BY <2>2, <3>1 DEF StructBegun
  <2>3. QED BY <2>1, <2>2 DEF LinksStay, Grows
<1>3. /\ ChainUpto(k, q, u, s.forms, n) /\ NOpen(q, n) = NOpen(p, n) /\ u[0] = 0
      /\ NOpen(q, n) \in Nat
  <2>1. SameUpto(p, o, q, u, n) BY <1>1 DEF SameUpto
  <2>2. QED BY <1>2, <2>1, ChainPart
<1>4. IsOpen(q, n + 1) /\ NOpen(q, n + 1) = NOpen(q, n) + 1
  <2>1. IsOpen(q, n + 1) BY DEF IsOpen
  <2>2. QED BY <2>1, OpenCounts DEF One
<1>5. StructAt(k, u[n + 1], q[n + 1], u[n])
  <2>1. s.current_struct = u[n] /\ Cur(s.rt).current_struct = u[n] BY <1>1 DEF Chain
  <2>2. k.emit = s.emit BY DEF Grows
  <2>3. QED BY <1>1, <2>1, <2>2 DEF StructAt, StructBegun
<1>6. k.emit = s.emit /\ IsSeq(s.forms) /\ (s.emit = 0 => s.forms = <<>>)
      /\ (s.emit # 0 => Len(s.forms) = NOpen(q, n))
  BY <1>3 DEF Chain, Grows
<1>7. IsSeq(k.forms) /\ (k.emit = 0 => k.forms = <<>>)
  <2>1. CASE s.emit = 0 BY <1>6, <2>1 DEF StructBegun
  <2>2. CASE s.emit # 0
    <3>1. k.forms = Append(s.forms, st) BY <2>2 DEF StructBegun
    <3>2. IsSeq(Append(s.forms, st)) BY <1>6, Appended
    <3>3. QED BY <1>6, <2>2, <3>1, <3>2
  <2>3. QED BY <2>1, <2>2
<1>8. ASSUME k.emit # 0
      PROVE  /\ Len(k.forms) = NOpen(q, n + 1) /\ k.forms[NOpen(q, n + 1)] = u[n + 1]
             /\ \A j \in 1..NOpen(q, n) : k.forms[j] = s.forms[j]
  <2>1. k.forms = Append(s.forms, st) BY <1>6, <1>8 DEF StructBegun
  <2>2. Len(s.forms) = NOpen(q, n) BY <1>6, <1>8
  <2>3. /\ Len(k.forms) = Len(s.forms) + 1 /\ k.forms[Len(s.forms) + 1] = st
        /\ \A i \in 1..Len(s.forms) : k.forms[i] = s.forms[i]
    BY <1>6, <2>1, Appended
  <2>4. QED BY <1>1, <1>4, <2>2, <2>3
<1>9. ASSUME NEW i \in 1..n + 1
      PROVE  /\ q[i].at = "struct" => StructAt(k, u[i], q[i], u[i - 1])
             /\ q[i].at # "struct" => u[i] = u[i - 1]
             /\ q[i].at # "enum"
             /\ k.emit # 0 /\ IsOpen(q, i) => k.forms[NOpen(q, i)] = FormAt(k, q, u, i)
  <2>1. CASE i = n + 1 BY <1>1, <1>5, <1>8, <2>1 DEF FormAt
  <2>2. CASE i \in 1..n BY <1>3, <1>8, <2>2 DEF ChainUpto, FormAt
  <2>3. QED BY <1>9, <2>1, <2>2
<1>10. k.current_struct = u[Len(q)] /\ Cur(k.rt).current_struct = u[Len(q)]
  BY <1>1 DEF StructBegun
<1>11. Chain(k, q, u) BY <1>3, <1>7, <1>8, <1>9, <1>10 DEF Chain
<1>12. QED BY <1>11

(* An enum is opened; its form is not, before its first enumerator.        *)
EnumPushed(s, p, k, q, et, term) ==
  /\ EnumBegun(s, k, et, term) /\ et = s.rt.next /\ et \in ObjId /\ k.rt.next = et + 1
  /\ k.rt.heap[et].kind = "enum"
  /\ Len(p) \in Nat /\ \A i \in 1..Len(p) : p[i].at # "enum"
  /\ Len(q) = Len(p) + 1 /\ \A i \in 1..Len(p) : q[i] = p[i]
  /\ q[Len(p) + 1].at = "enum" /\ q[Len(p) + 1].type = term /\ q[Len(p) + 1].n = 0

LEMMA ChainEnum ==
  ASSUME NEW s, TypesOK(s), NEW k, TypesOK(k), Grows(s, k), NEW et, NEW term,
         NEW p, NEW o, Chain(s, p, o), NEW q, EnumPushed(s, p, k, q, et, term)
  PROVE  \E u : Chain(k, q, u)
<1> USE DEF EnumPushed
<1> DEFINE n == Len(p)
           u == [i \in 0..n + 1 |-> IF i <= n THEN o[i] ELSE o[n]]
<1>1. (\A i \in 0..n : u[i] = o[i]) /\ u[n + 1] = o[n] /\ n + 1 - 1 = n /\ n \in 0..n OBVIOUS
<1> HIDE DEF u
<1>2. LinksStay(s, k)
  <2>1. /\ s.rt.next \in Nat /\ k.rt.next \in Nat /\ s.rt.next <= k.rt.next
        /\ \A t \in 1..s.rt.next - 1 : t \in ObjId
    BY GrowsNext, Ranges DEF TypesOK, StoreOK
  <2>2. ASSUME NEW t \in 1..s.rt.next - 1, s.structs[t].made
        PROVE  /\ k.rt.heap[t].kind = s.rt.heap[t].kind /\ k.structs[t].made
               /\ k.structs[t].prev = s.structs[t].prev /\ k.rt.heap[t].prev = s.rt.heap[t].prev
               /\ k.text[t].term = s.text[t].term
    <3>1. t \in ObjId \ {et} BY <2>1, <2>2
    <3>2. QED BY <2>2, <3>1 DEF EnumBegun
  <2>3. QED BY <2>1, <2>2 DEF LinksStay, Grows
<1>3. /\ ChainUpto(k, q, u, s.forms, n) /\ NOpen(q, n) = NOpen(p, n) /\ u[0] = 0
      /\ NOpen(q, n) \in Nat
  <2>1. SameUpto(p, o, q, u, n) BY <1>1 DEF SameUpto
  <2>2. QED BY <1>2, <2>1, ChainPart
<1>4. ~ IsOpen(q, n + 1) /\ NOpen(q, n + 1) = NOpen(q, n)
  <2>1. ~ IsOpen(q, n + 1) BY DEF IsOpen
  <2>2. NOpen(q, n + 1) = NOpen(q, n) + One(IsOpen(q, n + 1)) BY OpenCounts
  <2>3. QED BY <1>3, <2>1, <2>2 DEF One
<1>5. EnumAt(k, Cur(k.rt).current_enum, q[n + 1])
  <2>1. k.emit = s.emit BY DEF Grows
  <2>2. et \in 1..k.rt.next - 1 BY DEF ObjId
  <2>3. QED BY <2>1, <2>2 DEF EnumAt, EnumBegun
<1>6. k.emit = s.emit /\ IsSeq(k.forms) /\ (k.emit = 0 => k.forms = <<>>)
      /\ (k.emit # 0 => Len(k.forms) = NOpen(q, n)) /\ k.forms = s.forms
  BY <1>3 DEF Chain, Grows, EnumBegun
<1>9. ASSUME NEW i \in 1..n + 1
      PROVE  /\ q[i].at = "struct" => StructAt(k, u[i], q[i], u[i - 1])
             /\ q[i].at # "struct" => u[i] = u[i - 1]
             /\ q[i].at = "enum" => i = n + 1 /\ EnumAt(k, Cur(k.rt).current_enum, q[i])
             /\ k.emit # 0 /\ IsOpen(q, i) => k.forms[NOpen(q, i)] = FormAt(k, q, u, i)
  <2>1. CASE i = n + 1 BY <1>1, <1>4, <1>5, <2>1
  <2>2. CASE i \in 1..n BY <1>3, <1>6, <2>2 DEF ChainUpto, FormAt
  <2>3. QED BY <1>9, <2>1, <2>2
<1>10. k.current_struct = u[Len(q)] /\ Cur(k.rt).current_struct = u[Len(q)]
  BY <1>1 DEF EnumBegun, Chain
<1>11. Chain(k, q, u) BY <1>3, <1>4, <1>6, <1>9, <1>10 DEF Chain
<1>12. QED BY <1>11

(* The innermost struct, or an enum with an enumerator, is closed.         *)
LEMMA ChainClosed ==
  ASSUME NEW s, TypesOK(s), NEW k, TypesOK(k), Grows(s, k), Ended(s, k),
         NEW p, NEW o, Chain(s, p, o), Len(p) \in Nat, Len(p) >= 1,
         \A i \in 1..Len(p) - 1 : p[i].at # "enum",
         IsOpen(p, Len(p)),
         NEW q, Len(q) = Len(p) - 1, \A i \in 1..Len(q) : q[i] = p[i],
         k.current_struct = o[Len(q)], Cur(k.rt).current_struct = o[Len(q)]
  PROVE  Chain(k, q, o)
<1> DEFINE n == Len(q)
<1>1. n \in Nat /\ n + 1 = Len(p) /\ n + 1 - 1 = n /\ n \in 0..n OBVIOUS
<1>2. LinksStay(s, k)
  <2>1. /\ s.rt.next \in Nat /\ k.rt.next \in Nat /\ s.rt.next <= k.rt.next BY GrowsNext
  <2>2. QED BY <2>1 DEF LinksStay, Grows, Ended
<1>3. /\ ChainUpto(k, q, o, s.forms, n) /\ NOpen(q, n) = NOpen(p, n) /\ o[0] = 0
      /\ NOpen(q, n) \in Nat
  <2>1. SameUpto(p, o, q, o, n) BY <1>1 DEF SameUpto
  <2>2. QED BY <1>2, <2>1, ChainPart
<1>4. NOpen(p, Len(p)) = NOpen(q, n) + 1
  <2>1. NOpen(p, n + 1) = NOpen(p, n) + One(IsOpen(p, n + 1)) BY <1>1, OpenCounts
  <2>2. QED BY <1>1, <1>3, <2>1 DEF One
<1>5. k.emit = s.emit /\ IsSeq(s.forms) /\ (s.emit = 0 => s.forms = <<>>)
      /\ (s.emit # 0 => Len(s.forms) = NOpen(q, n) + 1)
  BY <1>4 DEF Chain, Grows
<1>6. k.emit = 0 => k.forms = <<>> BY <1>5 DEF Ended, FormClosed
<1>7. k.emit # 0 => /\ IsSeq(k.forms) /\ Len(k.forms) = NOpen(q, n)
                    /\ \A j \in 1..NOpen(q, n) : k.forms[j] = s.forms[j]
  <2>1. CASE k.emit # 0
    <3>1. Len(s.forms) >= 1 BY <1>3, <1>5, <2>1
    <3>2. s.forms # <<>> BY <1>5, <3>1, SeqFacts
    <3>3. k.forms = Front(s.forms) BY <1>5, <2>1, <3>2 DEF Ended, FormClosed
    <3>4. /\ IsSeq(Front(s.forms)) /\ Len(Front(s.forms)) = Len(s.forms) - 1
          /\ \A i \in 1..Len(s.forms) - 1 : Front(s.forms)[i] = s.forms[i]
      BY <1>5, <3>1, Fronted
    <3>5. Len(s.forms) - 1 = NOpen(q, n) BY <1>3, <1>5, <2>1
    <3>6. QED BY <3>3, <3>4, <3>5
  <2>2. QED BY <2>1
<1>8. IsSeq(k.forms) BY <1>6, <1>7, NoneIsSeq
<1>9. ASSUME NEW i \in 1..n
      PROVE  /\ q[i].at = "struct" => StructAt(k, o[i], q[i], o[i - 1])
             /\ q[i].at # "struct" => o[i] = o[i - 1]
             /\ q[i].at # "enum"
             /\ k.emit # 0 /\ IsOpen(q, i) => k.forms[NOpen(q, i)] = FormAt(k, q, o, i)
  BY <1>3, <1>7, <1>9 DEF ChainUpto, FormAt
<1>10. QED BY <1>3, <1>6, <1>7, <1>8, <1>9 DEF Chain

(* An enumerator is read; the first one opens the form of its enum.        *)
LEMMA ChainEnumerator ==
  ASSUME NEW s, TypesOK(s), NEW k, TypesOK(k), Grows(s, k),
         Enumerated(s, k, Cur(s.rt).current_enum),
         NEW p, NEW o, Chain(s, p, o), Len(p) \in Nat, Len(p) >= 1,
         \A i \in 1..Len(p) - 1 : p[i].at # "enum",
         p[Len(p)].at = "enum", p[Len(p)].n \in Nat,
         NEW q, Len(q) = Len(p), \A i \in 1..Len(p) - 1 : q[i] = p[i],
         q[Len(p)].at = "enum", q[Len(p)].type = p[Len(p)].type,
         q[Len(p)].n = p[Len(p)].n + 1
  PROVE  Chain(k, q, o)
<1> DEFINE n == Len(p) - 1
           et == Cur(s.rt).current_enum
<1>1. n \in Nat /\ n + 1 = Len(p) /\ n + 1 - 1 = n /\ n \in 0..n OBVIOUS
<1>2. LinksStay(s, k)
  <2>1. /\ s.rt.next \in Nat /\ k.rt.next \in Nat /\ s.rt.next <= k.rt.next BY GrowsNext
  <2>2. QED BY <2>1 DEF LinksStay, Grows, Enumerated, SamePrevs
<1>3. /\ ChainUpto(k, q, o, s.forms, n) /\ NOpen(q, n) = NOpen(p, n) /\ o[0] = 0
      /\ NOpen(q, n) \in Nat
  <2>1. SameUpto(p, o, q, o, n) BY <1>1 DEF SameUpto
  <2>2. QED BY <1>2, <2>1, ChainPart
<1>4. IsOpen(q, n + 1) /\ NOpen(q, n + 1) = NOpen(q, n) + 1
  <2>1. IsOpen(q, n + 1) BY <1>1 DEF IsOpen
  <2>2. NOpen(q, n + 1) = NOpen(q, n) + One(IsOpen(q, n + 1)) BY <1>1, OpenCounts
  <2>3. QED BY <2>1, <2>2 DEF One
<1>5. Len(p) \in 1..Len(p) /\ EnumAt(s, et, p[Len(p)]) BY DEF Chain
<1>6. EnumAt(k, et, q[n + 1]) /\ Cur(k.rt).current_enum = et
  <2>1. /\ et \in 1..k.rt.next - 1 /\ k.rt.heap[et].kind = "enum" /\ k.text[et] = s.text[et]
        /\ k.emit = s.emit /\ s.begun \subseteq k.begun
    <3>1. et \in 1..s.rt.next - 1 /\ s.rt.heap[et].kind = "enum" BY <1>5 DEF EnumAt
    <3>2. 1..s.rt.next - 1 \subseteq 1..k.rt.next - 1 BY GrowsNext
    <3>3. QED BY <3>1, <3>2 DEF Grows, Enumerated
  <2>2. k.enums[et] = 2 /\ Cur(k.rt).current_enum = et BY DEF Enumerated, SameOpen
  <2>3. QED BY <1>1, <1>5, <2>1, <2>2 DEF EnumAt
<1>7. k.emit = s.emit /\ IsSeq(s.forms) /\ (s.emit = 0 => s.forms = <<>>)
      /\ (s.emit # 0 => Len(s.forms) = NOpen(p, Len(p)))
  BY DEF Chain, Grows
<1>8. k.emit = 0 => k.forms = <<>> BY <1>7 DEF Enumerated
<1>9. ASSUME k.emit # 0
      PROVE  /\ IsSeq(k.forms) /\ Len(k.forms) = NOpen(q, n + 1)
             /\ k.forms[NOpen(q, n + 1)] = et
             /\ \A j \in 1..NOpen(q, n) : k.forms[j] = s.forms[j]
  <2>1. NOpen(p, n + 1) = NOpen(p, n) + One(IsOpen(p, n + 1)) BY <1>1, OpenCounts
  <2>2. CASE p[Len(p)].n > 0
    <3>1. s.enums[et] = 2 BY <1>5, <2>2 DEF EnumAt
    <3>2. k.forms = s.forms BY <3>1 DEF Enumerated
    <3>3. IsOpen(p, Len(p)) BY <2>2 DEF IsOpen
    <3>4. NOpen(p, Len(p)) = NOpen(q, n) + 1 BY <1>1, <1>3, <2>1, <3>3 DEF One
    <3>5. s.forms[NOpen(p, Len(p))] = FormAt(s, p, o, Len(p))
      BY <1>5, <1>7, <1>9, <3>3 DEF Chain
    <3>6. FormAt(s, p, o, Len(p)) = et BY DEF FormAt
    <3>7. QED BY <1>4, <1>7, <1>9, <3>2, <3>4, <3>5, <3>6
  <2>3. CASE p[Len(p)].n = 0
    <3>1. s.enums[et] = 1 BY <1>5, <2>3 DEF EnumAt
    <3>2. k.forms = Append(s.forms, et) BY <1>7, <1>9, <3>1 DEF Enumerated
    <3>3. ~ IsOpen(p, n + 1) BY <1>1, <2>3 DEF IsOpen
    <3>4. Len(s.forms) = NOpen(q, n) BY <1>1, <1>3, <1>7, <1>9, <2>1, <3>3 DEF One
    <3>5. /\ IsSeq(k.forms) /\ Len(k.forms) = Len(s.forms) + 1
          /\ k.forms[Len(s.forms) + 1] = et
          /\ \A i \in 1..Len(s.forms) : k.forms[i] = s.forms[i]
      BY <1>7, <3>2, Appended
    <3>6. QED BY <1>4, <3>4, <3>5
  <2>4. QED BY <2>2, <2>3
<1>10. IsSeq(k.forms) BY <1>8, <1>9, NoneIsSeq
<1>11. ASSUME NEW i \in 1..n + 1
       PROVE  /\ q[i].at = "struct" => StructAt(k, o[i], q[i], o[i - 1])
              /\ q[i].at # "struct" => o[i] = o[i - 1]
              /\ q[i].at = "enum" => i = n + 1 /\ EnumAt(k, Cur(k.rt).current_enum, q[i])
              /\ k.emit # 0 /\ IsOpen(q, i) => k.forms[NOpen(q, i)] = FormAt(k, q, o, i)
  <2>1. CASE i = n + 1
    <3>1. o[Len(p)] = o[Len(p) - 1] BY <1>5 DEF Chain
    <3>2. QED BY <1>1, <1>6, <1>9, <2>1, <3>1 DEF FormAt
  <2>2. CASE i \in 1..n BY <1>3, <1>9, <2>2 DEF ChainUpto, FormAt
  <2>3. QED BY <1>11, <2>1, <2>2
<1>12. k.current_struct = o[Len(q)] /\ Cur(k.rt).current_struct = o[Len(q)]
  BY DEF Enumerated, SameOpen, Chain
<1>13. QED BY <1>1, <1>3, <1>8, <1>9, <1>10, <1>11, <1>12 DEF Chain

-----------------------------------------------------------------------------
(* The inductive invariant, but for the declarator that is being read.     *)

Wired(s, p) ==
  /\ StackInv(s, p) /\ Places(p) /\ Held(s) /\ Linked(s, p)
  /\ \E o : Chain(s, p, o)

(* A step from s to k, in which types are only added.                      *)
Onward(s, k) == Held(k) /\ Grows(s, k)

(* What is to be shown of the innermost position f.                        *)
FrameOK(s, f) ==
  /\ f.n \in Nat /\ ParamsTyped(s, f)
  /\ f.at \in {"decl", "sdecl", "pdecl", "fdef"} => Few(f, CurDecl(s))

(* The elements of the stacks that the innermost position may change.      *)
TopMoved(s, p, k) ==
  /\ k.decls = s.decls \/ (BelowSame(s.decls, k.decls) /\ DeclaresAt(p, Len(p)))
  /\ k.dtors = s.dtors \/ (BelowSame(s.dtors, k.dtors) /\ p[Len(p)].at # "params")

LEMMA WiredFacts ==
  ASSUME NEW s, NEW p, Wired(s, p)
  PROVE  /\ IsSeq(p) /\ Len(p) \in Nat /\ DOMAIN p = 1..Len(p) /\ (p = <<>> <=> Len(p) = 0)
         /\ TypesOK(s) /\ Shaped(s) /\ StackInv(s, p) /\ Places(p) /\ Held(s) /\ Linked(s, p)
         /\ Last(p) = p[Len(p)]
         /\ Len(p) >= 1 => FrameOK(s, p[Len(p)]) /\ DOMAIN p[Len(p)] = FrameFields
         /\ \A i \in 1..Len(p) : p[i].at = "enum" => i = Len(p)
<1>1. /\ IsSeq(p) /\ Len(p) \in Nat /\ DOMAIN p = 1..Len(p) /\ (p = <<>> <=> Len(p) = 0)
      /\ Last(p) = p[Len(p)] /\ (Len(p) >= 1 => DOMAIN p[Len(p)] = FrameFields)
      /\ Shaped(s)
  BY Innermost DEF Wired
<1>2. ASSUME Len(p) >= 1 PROVE FrameOK(s, p[Len(p)])
  <2>1. Len(p) \in 1..Len(p) BY <1>1, <1>2
  <2>2. /\ p[Len(p)].n \in Nat /\ ParamsTyped(s, p[Len(p)])
        /\ DeclaresAt(p, Len(p)) => Few(p[Len(p)], s.decls[NDecl(p, Len(p))])
    BY <2>1 DEF Wired, Linked
  <2>3. NDecl(p, Len(p)) = Len(s.decls) BY DEF Wired, StackInv, Mirrors
  <2>4. QED BY <2>2, <2>3 DEF FrameOK, DeclaresAt, CurDecl, Last
<1>3. \A i \in 1..Len(p) : p[i].at = "enum" => i = Len(p) BY DEF Wired, Chain
<1>4. QED BY <1>1, <1>2, <1>3 DEF Wired, Held

(* The innermost position becomes f.                                       *)
SameFrame(f, g) ==
  /\ g.at = f.at
  /\ f.at \in {"struct", "enum"} => g.type = f.type
  /\ f.at = "enum" => g.n = f.n

LEMMA TopSet ==
  ASSUME NEW s, NEW p, Wired(s, p), Len(p) >= 1, NEW f, NEW k, StackInv(k, SetTop(p, f)),
         Onward(s, k), TopMoved(s, p, k), FrameOK(k, f), f.at = p[Len(p)].at
  PROVE  LET q == SetTop(p, f)
         IN  /\ Len(q) = Len(p) /\ q[Len(p)] = f /\ \A i \in 1..Len(p) - 1 : q[i] = p[i]
             /\ Places(q) /\ Linked(k, q) /\ Kept(s, p, k, q, Len(p) - 1)
<1> DEFINE q == SetTop(p, f)
           n == Len(p) - 1
<1>1. IsSeq(p) /\ Len(p) \in Nat /\ TypesOK(s) BY WiredFacts
<1>2. /\ IsSeq(Front(p)) /\ Len(Front(p)) = n /\ \A i \in 1..n : Front(p)[i] = p[i]
  BY <1>1, Fronted
<1>3. /\ Len(q) = Len(Front(p)) + 1 /\ q[Len(Front(p)) + 1] = f
      /\ \A i \in 1..Len(Front(p)) : q[i] = Front(p)[i]
  BY <1>2, Appended DEF SetTop
<1>4. Len(q) = Len(p) /\ q[Len(p)] = f /\ \A i \in 1..n : q[i] = p[i]
  BY <1>1, <1>2, <1>3
<1>5. Places(q)
  <2>1. \A i \in 1..Len(q) : q[i].at = p[i].at
    <3>1. \A i \in 1..Len(q) : i = Len(p) \/ i \in 1..n BY <1>1, <1>4
    <3>2. QED BY <1>4, <3>1
  <2>2. QED BY <1>1, <1>4, <2>1, PlacesSame DEF Wired
<1> HIDE DEF q
<1>6. Kept(s, p, k, q, n)
  BY <1>4, KeptTop DEF Wired, TopMoved
<1>7. TypesOK(k) /\ Grows(s, k) BY DEF Onward, Held
<1>8. DeclaresAt(q, n + 1) => Few(q[n + 1], k.decls[NDecl(q, n + 1)])
  <2>1. NDecl(q, Len(q)) = Len(k.decls) BY DEF StackInv, Mirrors, q
  <2>2. n + 1 = Len(p) BY <1>1
  <2>3. QED BY <1>4, <2>1, <2>2 DEF FrameOK, DeclaresAt, CurDecl, Last
<1>9. Linked(k, q)
  <2>1. n \in Nat /\ n <= Len(p) /\ Len(q) = n + 1 BY <1>1, <1>4
  <2>2. ParamsTyped(k, q[n + 1]) /\ q[n + 1].n \in Nat BY <1>1, <1>4 DEF FrameOK
  <2>3. QED BY <1>1, <1>6, <1>7, <1>8, <2>1, <2>2, LinkedKept DEF Wired
<1>10. QED BY <1>4, <1>5, <1>6, <1>9 DEF q

LEMMA TopWired ==
  ASSUME NEW s, NEW p, Wired(s, p), Len(p) >= 1, NEW f, NEW k, StackInv(k, SetTop(p, f)),
         Onward(s, k), Beside(s, k), TopMoved(s, p, k), FrameOK(k, f),
         SameFrame(p[Len(p)], f)
  PROVE  Wired(k, SetTop(p, f)) /\ Kept(s, p, k, SetTop(p, f), Len(p) - 1)
<1> DEFINE q == SetTop(p, f)
<1>1. Len(p) \in Nat /\ TypesOK(s) BY WiredFacts
<1>2. /\ Len(q) = Len(p) /\ q[Len(p)] = f /\ \A i \in 1..Len(p) - 1 : q[i] = p[i]
      /\ Places(q) /\ Linked(k, q) /\ Kept(s, p, k, q, Len(p) - 1)
  BY TopSet DEF SameFrame
<1>3. PICK o : Chain(s, p, o) BY DEF Wired
<1>4. \A i \in 1..Len(p) : SameOpenAt(p, q, i)
  <2>1. \A i \in 1..Len(p) : i = Len(p) \/ i \in 1..Len(p) - 1 BY <1>1
  <2>2. QED BY <1>2, <2>1 DEF SameOpenAt, SameFrame
<1> HIDE DEF q
<1>5. Chain(k, q, o)
  <2>1. TypesOK(k) /\ Grows(s, k) BY DEF Onward, Held
  <2>2. QED BY <1>1, <1>2, <1>3, <1>4, <2>1, ChainTop
<1>6. QED BY <1>2, <1>5 DEF q, Wired, Onward

(* Nothing happens to the positions or to the stacks.                      *)
LEMMA StillWired ==
  ASSUME NEW s, NEW p, Wired(s, p), NEW k, StackInv(k, p), Onward(s, k), Beside(s, k),
         SameStacks(s, k)
  PROVE  Wired(k, p) /\ Kept(s, p, k, p, Len(p))
<1>1. Len(p) \in Nat /\ TypesOK(s) BY WiredFacts
<1>2. Kept(s, p, k, p, Len(p)) BY DEF Kept, SameStacks
<1>3. TypesOK(k) /\ Grows(s, k) BY DEF Onward, Held
<1>4. Linked(k, p) BY <1>1, <1>2, <1>3, LinkedKept DEF Wired
<1>5. PICK o : Chain(s, p, o) BY DEF Wired
<1>6. Chain(k, p, o)
  <2>1. \A i \in 1..Len(p) : SameOpenAt(p, p, i) BY DEF SameOpenAt
  <2>2. QED BY <1>1, <1>3, <1>5, <2>1, ChainTop
<1>7. QED BY <1>2, <1>4, <1>6 DEF Wired, Onward

(* A position f is opened.                                                 *)
HeadAt(p) == IF Len(p) = 0 THEN "none" ELSE p[Len(p)].at

(* The stacks grow or shrink at their ends.                                *)
EndsMoved(s, k) ==
  /\ \A i \in 1..Len(s.decls) : i <= Len(k.decls) => k.decls[i] = s.decls[i]
  /\ \A i \in 1..Len(s.dtors) : i <= Len(k.dtors) => k.dtors[i] = s.dtors[i]

LEMMA Pushing ==
  ASSUME NEW s, NEW p, Wired(s, p), NEW f, NEW k, StackInv(k, Append(p, f)), Onward(s, k),
         EndsMoved(s, k), FrameOK(k, f), MayLie(f.at, HeadAt(p))
  PROVE  LET q == Append(p, f)
         IN  /\ Len(q) = Len(p) + 1 /\ q[Len(p) + 1] = f /\ \A i \in 1..Len(p) : q[i] = p[i]
             /\ Places(q) /\ Linked(k, q) /\ Kept(s, p, k, q, Len(p))
<1> DEFINE q == Append(p, f)
           n == Len(p)
<1>1. IsSeq(p) /\ n \in Nat /\ TypesOK(s) BY WiredFacts
<1>2. Len(q) = n + 1 /\ q[n + 1] = f /\ \A i \in 1..n : q[i] = p[i] BY <1>1, Appended
<1> HIDE DEF q
<1>3. PlaceOK(q, n + 1)
  <2>1. CASE n = 0 BY <1>2, <2>1 DEF PlaceOK, HeadAt
  <2>2. CASE n # 0
    <3>1. n \in 1..n /\ n + 1 # 1 /\ n + 1 - 1 = n BY <1>1, <2>2
    <3>2. q[n] = p[n] BY <1>2, <3>1
    <3>3. QED BY <1>2, <2>2, <3>1, <3>2 DEF PlaceOK, HeadAt
  <2>3. QED BY <2>1, <2>2
<1>4. Places(q) BY <1>1, <1>2, <1>3, PlacesPush DEF Wired
<1>5. Kept(s, p, k, q, n)
  <2>1. StackInv(s, p) /\ StackInv(k, q) BY DEF Wired, q
  <2>2. n \in Nat /\ n <= Len(p) /\ n <= Len(q) BY <1>1, <1>2
  <2>3. QED BY <1>2, <2>1, <2>2, KeptBelow DEF EndsMoved
<1>6. TypesOK(k) /\ Grows(s, k) BY DEF Onward, Held
<1>7. DeclaresAt(q, n + 1) => Few(q[n + 1], k.decls[NDecl(q, n + 1)])
  <2>1. NDecl(q, Len(q)) = Len(k.decls) BY DEF StackInv, Mirrors, q
  <2>2. QED BY <1>2, <2>1 DEF FrameOK, DeclaresAt, CurDecl, Last
<1>8. Linked(k, q)
  <2>1. n \in Nat /\ n <= Len(p) /\ Len(q) = n + 1 BY <1>1, <1>2
  <2>2. ParamsTyped(k, q[n + 1]) /\ q[n + 1].n \in Nat BY <1>2 DEF FrameOK
  <2>3. QED BY <1>1, <1>5, <1>6, <1>7, <2>1, <2>2, LinkedKept DEF Wired
<1>9. QED BY <1>2, <1>4, <1>5, <1>8 DEF q

LEMMA PushedWired ==
  ASSUME NEW s, NEW p, Wired(s, p), NEW f, NEW k, StackInv(k, Append(p, f)), Onward(s, k),
         EndsMoved(s, k), FrameOK(k, f), MayLie(f.at, HeadAt(p)),
         Beside(s, k), f.at \notin {"struct", "enum"}, HeadAt(p) # "enum"
  PROVE  Wired(k, Append(p, f)) /\ Kept(s, p, k, Append(p, f), Len(p))
<1> DEFINE q == Append(p, f)
<1>1. Len(p) \in Nat /\ TypesOK(s) BY WiredFacts
<1>2. /\ Len(q) = Len(p) + 1 /\ q[Len(p) + 1] = f /\ \A i \in 1..Len(p) : q[i] = p[i]
      /\ Places(q) /\ Linked(k, q) /\ Kept(s, p, k, q, Len(p))
  BY Pushing
<1>3. PICK o : Chain(s, p, o) BY DEF Wired
<1>4. \A i \in 1..Len(p) : p[i].at # "enum"
  <2>1. \A i \in 1..Len(p) : p[i].at = "enum" => i = Len(p) BY WiredFacts
  <2>2. QED BY <1>1, <2>1 DEF HeadAt
<1> HIDE DEF q
<1>5. \E u : Chain(k, q, u)
  <2>1. TypesOK(k) /\ Grows(s, k) BY DEF Onward, Held
  <2>2. QED BY <1>1, <1>2, <1>3, <1>4, <2>1, ChainPush
<1>6. QED BY <1>2, <1>5 DEF q, Wired, Onward

(* The innermost position is closed.                                       *)
LEMMA Popping ==
  ASSUME NEW s, NEW p, Wired(s, p), Len(p) >= 1, NEW k, StackInv(k, Front(p)), Onward(s, k),
         EndsMoved(s, k)
  PROVE  LET q == Front(p)
         IN  /\ Len(q) = Len(p) - 1 /\ \A i \in 1..Len(q) : q[i] = p[i]
             /\ Places(q) /\ Linked(k, q) /\ Kept(s, p, k, q, Len(q))
<1> DEFINE q == Front(p)
           n == Len(q)
<1>1. IsSeq(p) /\ Len(p) \in Nat /\ TypesOK(s) BY WiredFacts
<1>2. n = Len(p) - 1 /\ \A i \in 1..n : q[i] = p[i] BY <1>1, Fronted
<1> HIDE DEF q
<1>3. Places(q) BY <1>1, <1>2, PlacesSame DEF Wired
<1>4. Kept(s, p, k, q, n)
  <2>1. StackInv(s, p) /\ StackInv(k, q) BY DEF Wired, q
  <2>2. n \in Nat /\ n <= Len(p) /\ n <= Len(q) BY <1>1, <1>2
  <2>3. QED BY <1>2, <2>1, <2>2, KeptBelow DEF EndsMoved
<1>5. TypesOK(k) /\ Grows(s, k) BY DEF Onward, Held
<1>6. Linked(k, q) BY <1>1, <1>2, <1>4, <1>5, LinkedKept DEF Wired
<1>7. QED BY <1>2, <1>3, <1>4, <1>6 DEF q

LEMMA PoppedWired ==
  ASSUME NEW s, NEW p, Wired(s, p), Len(p) >= 1, NEW k, StackInv(k, Front(p)), Onward(s, k),
         EndsMoved(s, k), Beside(s, k), p[Len(p)].at \notin {"struct", "enum"}
  PROVE  Wired(k, Front(p)) /\ Kept(s, p, k, Front(p), Len(p) - 1)
<1> DEFINE q == Front(p)
<1>1. Len(p) \in Nat /\ TypesOK(s) BY WiredFacts
<1>2. /\ Len(q) = Len(p) - 1 /\ \A i \in 1..Len(q) : q[i] = p[i]
      /\ Places(q) /\ Linked(k, q) /\ Kept(s, p, k, q, Len(q))
  BY Popping
<1>3. PICK o : Chain(s, p, o) BY DEF Wired
<1> HIDE DEF q
<1>4. Chain(k, q, o)
  <2>1. TypesOK(k) /\ Grows(s, k) BY DEF Onward, Held
  <2>2. QED BY <1>1, <1>2, <1>3, <2>1, ChainPop
<1>5. QED BY <1>2, <1>4 DEF q, Wired, Onward
=============================================================================
