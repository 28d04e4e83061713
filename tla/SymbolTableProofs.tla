------------------------- MODULE SymbolTableProofs -------------------------
(***************************************************************************)
(* Proofs about SymbolTable, for any names, addresses and number of        *)
(* symbols: bisection in a sorted array finds a symbol with the key when   *)
(* there is one, the two arrays agree, and the table implements SymbolSpec.*)
(***************************************************************************)
EXTENDS SymbolTable, SetInduction, FiniteSetTheorems, SequenceTheorems

-----------------------------------------------------------------------------
(* Bisection.  Probe is the recursive function of Bsearch, whose step is   *)
(* ProbeStep; key k[i] is that of the i-th symbol.                         *)

ProbeStep(a, field, key, f, r) ==
  LET i == (r[1] + r[2]) \div 2
  IN  IF r[1] >= r[2] THEN None
      ELSE IF key < a[i + 1][field] THEN f[<<r[1], i>>]
      ELSE IF key > a[i + 1][field] THEN f[<<i + 1, r[2]>>]
      ELSE a[i + 1]

IsProbe(a, field, key, f) ==
  f = [r \in Ranges(a) |-> ProbeStep(a, field, key, f, r)]

Probe(a, field, key) == CHOOSE f : IsProbe(a, field, key, f)

(* Both halves of a range that is not empty are shorter ranges.            *)
LEMMA Halves ==
  ASSUME NEW n \in Nat, NEW l \in 0..n, NEW u \in 0..n, l < u
  PROVE  LET i == (l + u) \div 2
         IN  /\ i \in 0..n /\ i + 1 \in 0..n /\ i + 1 \in 1..n
             /\ l <= i /\ i < u
<1> DEFINE i == (l + u) \div 2
<1>1. i \in Int /\ 2 * i <= l + u /\ l + u < 2 * i + 2 OBVIOUS
<1>2. l \in Int /\ u \in Int /\ 0 <= l /\ u <= n OBVIOUS
<1> HIDE DEF i
<1>3. l <= i /\ i < u BY <1>1, <1>2
<1>4. QED BY <1>1, <1>2, <1>3 DEF i

(* The recursion of bisection is well founded, so that Probe satisfies it. *)
LEMMA ProbeExists ==
  ASSUME NEW a, Len(a) \in Nat, NEW field, NEW key
  PROVE  IsProbe(a, field, key, Probe(a, field, key))
<1> DEFINE Body(f, r) == ProbeStep(a, field, key, f, r)
           Upto(f, n) == \A r \in Ranges(a) : r[2] - r[1] <= n => f[r] = Body(f, r)
           S == {n \in Nat : \E f : Upto(f, n)}
<1>1. 0 \in S
  <2>1. \A r \in Ranges(a) : r[2] - r[1] <= 0 => r[1] >= r[2] BY DEF Ranges
  <2>2. \A f : \A r \in Ranges(a) : r[1] >= r[2] => Body(f, r) = None
    BY DEF ProbeStep
  <2>3. Upto([r \in Ranges(a) |-> None], 0) BY <2>1, <2>2
  <2>4. QED BY <2>3
<1>2. ASSUME NEW n \in S PROVE n + 1 \in S
  <2>1. PICK f : Upto(f, n) OBVIOUS
  <2> DEFINE g == [r \in Ranges(a) |-> Body(f, r)]
  <2>2. \A r \in Ranges(a) : g[r] = Body(f, r) OBVIOUS
  <2> HIDE DEF g
  <2>3. \A r \in Ranges(a) : r[2] - r[1] <= n => g[r] = f[r] BY <2>1, <2>2
  <2>4. ASSUME NEW r \in Ranges(a), r[2] - r[1] <= n + 1
        PROVE  g[r] = Body(g, r)
    <3>1. r[1] \in 0..Len(a) /\ r[2] \in 0..Len(a) BY DEF Ranges
    <3>2. CASE r[1] < r[2]
      <4> DEFINE i == (r[1] + r[2]) \div 2
      <4>1. i \in 0..Len(a) /\ i + 1 \in 0..Len(a) /\ r[1] <= i /\ i < r[2]
        BY <3>1, <3>2, Halves
      <4> HIDE DEF i
      <4>2. <<r[1], i>> \in Ranges(a) /\ <<i + 1, r[2]>> \in Ranges(a)
        BY <3>1, <4>1 DEF Ranges
      <4>3. i - r[1] <= n /\ r[2] - (i + 1) <= n BY <2>4, <3>1, <4>1
      <4>4. g[<<r[1], i>>] = f[<<r[1], i>>] BY <2>3, <4>2, <4>3
      <4>5. g[<<i + 1, r[2]>>] = f[<<i + 1, r[2]>>] BY <2>3, <4>2, <4>3
      <4>6. Body(g, r) = Body(f, r) BY <4>4, <4>5 DEF ProbeStep, i
      <4>7. QED BY <2>2, <4>6
    <3>3. CASE r[1] >= r[2] BY <2>2, <3>3 DEF ProbeStep
    <3>4. QED BY <3>1, <3>2, <3>3
  <2>5. Upto(g, n + 1) BY <2>4
  <2>6. QED BY <2>5
<1>3. S = Nat
  <2>1. S \in SUBSET Nat OBVIOUS
  <2> HIDE DEF S
  <2>2. QED BY <1>1, <1>2, <2>1, NatSetInduction
<1>4. PICK f : Upto(f, Len(a)) BY <1>3
<1>5. \A r \in Ranges(a) : f[r] = Body(f, r)
  <2>1. \A r \in Ranges(a) : r[2] - r[1] <= Len(a) BY DEF Ranges
  <2>2. QED BY <1>4, <2>1
<1> DEFINE g == [r \in Ranges(a) |-> Body(f, r)]
<1>6. g = [r \in Ranges(a) |-> f[r]] BY <1>5
<1>7. \A r \in Ranges(a) : g[r] = f[r] BY <1>5
<1>8. ASSUME NEW r \in Ranges(a) PROVE Body(g, r) = Body(f, r)
  <2>1. r[1] \in 0..Len(a) /\ r[2] \in 0..Len(a) BY DEF Ranges
  <2>2. CASE r[1] < r[2]
    <3> DEFINE i == (r[1] + r[2]) \div 2
    <3>1. i \in 0..Len(a) /\ i + 1 \in 0..Len(a) BY <2>1, <2>2, Halves
    <3> HIDE DEF i, g
    <3>2. <<r[1], i>> \in Ranges(a) /\ <<i + 1, r[2]>> \in Ranges(a)
      BY <2>1, <3>1 DEF Ranges
    <3>3. g[<<r[1], i>>] = f[<<r[1], i>>] /\ g[<<i + 1, r[2]>>] = f[<<i + 1, r[2]>>]
      BY <1>7, <3>2
    <3>4. QED BY <3>3 DEF ProbeStep, i
  <2>3. CASE r[1] >= r[2] BY <2>3 DEF ProbeStep
  <2>4. QED BY <2>1, <2>2, <2>3
<1>9. IsProbe(a, field, key, g) BY <1>8 DEF IsProbe
<1>10. QED BY <1>9 DEF Probe

(* Fields and keys are numbers.                                            *)
LEMMA Keys ==
  ASSUME NEW s \in Symbol, NEW field \in {"name", "addr"}
  PROVE  s[field] \in Nat
BY SymbolAssumption DEF Symbol

(* What bisection promises of an array in order: a symbol with the key, or *)
(* None when there is none.                                                *)
Hits(a, field, key) == {s \in Held(a) : s[field] = key}

LEMMA BsearchFinds ==
  ASSUME NEW a \in Array, NEW field \in {"name", "addr"}, NEW key \in Nat,
         Sorted(a, field)
  PROVE  Bsearch(a, field, key) \in
           IF Hits(a, field, key) = {} THEN {None} ELSE Hits(a, field, key)
<1> DEFINE n == Len(a)
           p == Probe(a, field, key)
           In(r) == {j \in r[1] + 1 .. r[2] : a[j][field] = key}
           Right(r) == \/ In(r) = {} /\ p[r] = None
                       \/ \E j \in In(r) : p[r] = a[j]
           S == {m \in Nat : \A r \in Ranges(a) : r[2] - r[1] <= m => Right(r)}
<1>1. n \in Nat /\ DOMAIN a = 1..n /\ \A j \in 1..n : a[j] \in Symbol
  BY DEF Array
<1>2. \A j \in 1..n : a[j][field] \in Nat BY <1>1, Keys
<1>3. \A i, j \in 1..n : i <= j => a[i][field] <= a[j][field]
  BY <1>1, <1>2 DEF Sorted
<1>4. Bsearch(a, field, key) = p[<<0, n>>]
  BY DEF Bsearch, Probe, IsProbe, ProbeStep
<1>5. \A r \in Ranges(a) : p[r] = ProbeStep(a, field, key, p, r)
  BY <1>1, ProbeExists DEF IsProbe
<1> HIDE DEF p
<1>6. \A r \in Ranges(a) : r[1] >= r[2] => Right(r)
  <2>1. \A r \in Ranges(a) : r[1] >= r[2] => In(r) = {} BY DEF Ranges
  <2>2. QED BY <1>5, <2>1 DEF ProbeStep
<1>7. 0 \in S BY <1>6 DEF Ranges
<1>8. ASSUME NEW m \in S PROVE m + 1 \in S
  <2>1. SUFFICES ASSUME NEW r \in Ranges(a), r[2] - r[1] <= m + 1, r[1] < r[2]
                 PROVE  Right(r)
    BY <1>6 DEF Ranges
  <2> DEFINE i == (r[1] + r[2]) \div 2
             x == <<r[1], i>>
             y == <<i + 1, r[2]>>
  <2>2. r[1] \in 0..n /\ r[2] \in 0..n BY DEF Ranges
  <2>3. i \in 0..n /\ i + 1 \in 0..n /\ i + 1 \in 1..n /\ r[1] <= i /\ i < r[2]
    BY <1>1, <2>1, <2>2, Halves
  <2>4. p[r] = IF key < a[i + 1][field] THEN p[x]
               ELSE IF key > a[i + 1][field] THEN p[y] ELSE a[i + 1]
    BY <1>5, <2>1, <2>2 DEF ProbeStep
  <2> HIDE DEF i
  <2>5. x \in Ranges(a) /\ y \in Ranges(a) BY <2>2, <2>3 DEF Ranges
  <2>6. i - r[1] <= m /\ r[2] - (i + 1) <= m BY <2>1, <2>2, <2>3
  <2>7. Right(x) /\ Right(y)
    <3>1. \A q \in Ranges(a) : q[2] - q[1] <= m => Right(q) OBVIOUS
    <3> HIDE DEF Right
    <3>2. QED BY <2>5, <2>6, <3>1
  <2>8. CASE key < a[i + 1][field]
    <3>1. In(r) = In(x) BY <1>2, <1>3, <2>2, <2>3, <2>8, SMTT(20)
    <3>2. p[r] = p[x] BY <2>4, <2>8
    <3> HIDE DEF In
    <3>3. QED BY <2>7, <3>1, <3>2
  <2>9. CASE key > a[i + 1][field]
    <3>1. In(r) = In(y)
      <4>1. \A j \in 1..n : j <= i + 1 => a[j][field] <= a[i + 1][field]
        BY <1>3, <2>3
      <4>2. \A j \in 1..n : j <= i + 1 => a[j][field] # key
        BY <1>2, <2>3, <2>9, <4>1
      <4>3. \A j \in r[1] + 1 .. r[2] :
              j \in 1..n /\ (a[j][field] = key => j \in i + 2 .. r[2])
        BY <2>2, <2>3, <4>2
      <4>4. \A j \in i + 2 .. r[2] : j \in r[1] + 1 .. r[2] BY <2>2, <2>3
      <4>5. QED BY <2>2, <2>3, <4>3, <4>4
    <3>2. p[r] = p[y] BY <1>2, <2>3, <2>4, <2>9
    <3> HIDE DEF In
    <3>3. QED BY <2>7, <3>1, <3>2
  <2>10. CASE key = a[i + 1][field]
    <3>1. i + 1 \in In(r) BY <2>2, <2>3, <2>10
    <3>2. p[r] = a[i + 1] BY <1>2, <2>3, <2>4, <2>10
    <3> HIDE DEF In
    <3>3. QED BY <3>1, <3>2
  <2>11. QED BY <1>2, <2>3, <2>8, <2>9, <2>10
<1>9. S = Nat
  <2>1. S \in SUBSET Nat OBVIOUS
  <2> HIDE DEF S
  <2>2. QED BY <1>7, <1>8, <2>1, NatSetInduction
<1>10. Right(<<0, n>>)
  <2>1. <<0, n>> \in Ranges(a) BY <1>1 DEF Ranges
  <2>2. \A q \in Ranges(a) : q[2] - q[1] <= n => Right(q) BY <1>1, <1>9
  <2> HIDE DEF Right
  <2>3. QED BY <1>1, <2>1, <2>2
<1>11. Hits(a, field, key) = {a[j] : j \in In(<<0, n>>)}
  BY <1>1 DEF Hits, Held
<1>12. QED BY <1>4, <1>10, <1>11

-----------------------------------------------------------------------------
(* Sorting keeps the symbols, each once.                                   *)

LEMMA HeldFinite ==
  ASSUME NEW a \in Array
  PROVE  IsFiniteSet(Held(a)) /\ Held(a) \subseteq Symbol
<1>1. Len(a) \in Nat /\ DOMAIN a = 1..Len(a) /\ \A i \in 1..Len(a) : a[i] \in Symbol
  BY DEF Array
<1>2. IsFiniteSet(1..Len(a)) BY <1>1, FS_Interval
<1>3. a \in Surjection(1..Len(a), Held(a)) BY <1>1 DEF Surjection, Held, Array
<1>4. QED BY <1>1, <1>2, <1>3, FS_Surjection DEF Held

LEMMA QsortKeeps ==
  ASSUME NEW a \in Array, NEW field, NEW b \in Qsort(a, field)
  PROVE  /\ b \in Array /\ Held(b) = Held(a)
         /\ IsInjective(b) /\ Sorted(b, field)
         /\ Len(b) = Cardinality(Held(a))
<1> DEFINE n == Cardinality(Held(a))
<1>1. IsFiniteSet(Held(a)) /\ Held(a) \subseteq Symbol /\ n \in Nat
  BY HeldFinite, FS_CardinalityType
<1>2. /\ b \in [1..n -> Held(a)] /\ Sorted(b, field)
      /\ \A i, j \in 1..n : i # j => b[i] # b[j]
  BY DEF Qsort, SetToSeqs
<1> HIDE DEF n
<1>3. IsInjective(b) BY <1>2 DEF IsInjective
<1>4. b \in Seq(Held(a)) /\ Len(b) = n BY <1>1, <1>2
<1>5. b \in Array BY <1>1, <1>4, SeqMonotonic DEF Array
<1>6. b \in Injection(1..n, Held(a)) BY <1>2, <1>3 DEF Injection
<1>7. Cardinality(1..n) = n BY <1>1, FS_Interval
<1>8. b \in Surjection(1..n, Held(a)) BY <1>1, <1>6, <1>7, FS_Injection DEF n
<1>9. Held(b) = Held(a) BY <1>2, <1>8 DEF Held, Surjection
<1>10. QED BY <1>2, <1>3, <1>4, <1>5, <1>9 DEF n

LEMMA HeldAppend ==
  ASSUME NEW a \in Array, NEW s \in Symbol
  PROVE  Append(a, s) \in Array /\ Held(Append(a, s)) = Held(a) \cup {s}
<1>1. Len(a) \in Nat /\ DOMAIN a = 1..Len(a) BY DEF Array
<1>2. /\ Append(a, s) \in Array
      /\ DOMAIN Append(a, s) = 1..Len(a) + 1
      /\ \A i \in 1..Len(a) : Append(a, s)[i] = a[i]
      /\ Append(a, s)[Len(a) + 1] = s
  BY <1>1, AppendProperties DEF Array
<1>3. \A i \in 1..Len(a) + 1 : i \in 1..Len(a) \/ i = Len(a) + 1 BY <1>1
<1>4. \A i \in 1..Len(a) : i \in 1..Len(a) + 1 BY <1>1
<1>5. Len(a) + 1 \in 1..Len(a) + 1 BY <1>1
<1>6. QED BY <1>1, <1>2, <1>3, <1>4, <1>5 DEF Held

-----------------------------------------------------------------------------
(* The inductive invariant: the arrays agree, and the symbols are numbered *)
(* in the order of their addition, so that a new one is none of them.      *)

Numbered ==
  /\ Cardinality(Held(st.by_name)) = Len(st.by_name)
  /\ \A s \in Held(st.by_name) : s.id <= Len(st.by_name)

IInv == TypeOK /\ ArraysAgree /\ Numbered

LEMMA Start ==
  ASSUME Init
  PROVE  IInv
<1>1. st.by_name = <<>> /\ st.by_addr = <<>> /\ asked = None /\ answer = None
  BY DEF Init, NewTable
<1>2. TypeOK BY DEF Init, NewTable, TypeOK, Table, Array
<1>3. Held(<<>>) = {} BY DEF Held
<1>4. ArraysAgree BY <1>1 DEF ArraysAgree, IsInjective, Sorted
<1>5. Numbered BY <1>1, <1>3, FS_EmptySet DEF Numbered
<1>6. QED BY <1>2, <1>4, <1>5 DEF IInv

(* What an addition makes of the table.                                    *)
LEMMA Added ==
  ASSUME IInv, NEW nm \in Names, NEW ad \in Addrs, Nsymbs(st) < MaxSyms,
         st' \in Add(st, [id |-> Nsymbs(st) + 1, name |-> nm, addr |-> ad])
  PROVE  \E s \in Symbol \ Held(st.by_name) :
           /\ s.id = Len(st.by_name) + 1
           /\ st' \in Table /\ ArraysAgree'
           /\ Held(st'.by_name) = Held(st.by_name) \cup {s}
           /\ Len(st'.by_name) = Len(st.by_name) + 1
           /\ Cardinality(Held(st'.by_name)) = Len(st'.by_name)
<1> DEFINE s == [id |-> Nsymbs(st) + 1, name |-> nm, addr |-> ad]
           bn == st.by_name
           ba == st.by_addr
<1>1. /\ st \in Table /\ bn \in Array /\ ba \in Array /\ Len(bn) \in Nat
      /\ Held(bn) = Held(ba)
      /\ Cardinality(Held(bn)) = Len(bn) /\ \A x \in Held(bn) : x.id <= Len(bn)
  BY DEF IInv, TypeOK, ArraysAgree, Numbered, Table, Array
<1>2. s \in Symbol /\ s.id = Len(bn) + 1
  BY <1>1, SymbolAssumption DEF Symbol, Nsymbs
<1>3. /\ st' \in [by_name : Qsort(Append(bn, s), "name"),
                  by_addr : Qsort(Append(ba, s), "addr")]
  BY DEF Add
<1> HIDE DEF s
<1>4. s \notin Held(bn) BY <1>1, <1>2
<1>5. /\ Append(bn, s) \in Array /\ Held(Append(bn, s)) = Held(bn) \cup {s}
      /\ Append(ba, s) \in Array /\ Held(Append(ba, s)) = Held(bn) \cup {s}
  BY <1>1, <1>2, HeldAppend
<1>6. /\ st'.by_name \in Qsort(Append(bn, s), "name")
      /\ st'.by_addr \in Qsort(Append(ba, s), "addr")
  BY <1>3
<1>7. /\ st'.by_name \in Array /\ Held(st'.by_name) = Held(bn) \cup {s}
      /\ IsInjective(st'.by_name) /\ Sorted(st'.by_name, "name")
      /\ Len(st'.by_name) = Cardinality(Held(bn) \cup {s})
  BY <1>5, <1>6, QsortKeeps
<1>8. /\ st'.by_addr \in Array /\ Held(st'.by_addr) = Held(bn) \cup {s}
      /\ IsInjective(st'.by_addr) /\ Sorted(st'.by_addr, "addr")
  BY <1>5, <1>6, QsortKeeps
<1>9. Cardinality(Held(bn) \cup {s}) = Len(bn) + 1
  BY <1>1, <1>4, HeldFinite, FS_AddElement
<1>10. st' \in Table BY <1>3, <1>7, <1>8 DEF Table
<1>11. ArraysAgree' BY <1>7, <1>8 DEF ArraysAgree
<1>12. QED BY <1>2, <1>4, <1>7, <1>9, <1>10, <1>11

(* What a lookup answers.                                                  *)
LEMMA Answered ==
  ASSUME IInv, NEW q \in Question
  PROVE  Get(st, q) \in
           IF {s \in Held(st.by_name) : s[q.field] = q.key} = {} THEN {None}
           ELSE {s \in Held(st.by_name) : s[q.field] = q.key}
<1>1. /\ st.by_name \in Array /\ st.by_addr \in Array
      /\ Held(st.by_name) = Held(st.by_addr)
      /\ Sorted(st.by_name, "name") /\ Sorted(st.by_addr, "addr")
  BY DEF IInv, TypeOK, ArraysAgree, Table
<1>2. q.field \in {"name", "addr"} /\ q.key \in Nat
  BY SymbolAssumption DEF Question
<1>3. CASE q.field = "name"
  <2>1. Get(st, q) = Bsearch(st.by_name, q.field, q.key) BY <1>3 DEF Get
  <2>2. QED BY <1>1, <1>2, <1>3, <2>1, BsearchFinds DEF Hits
<1>4. CASE q.field = "addr"
  <2>1. Get(st, q) = Bsearch(st.by_addr, q.field, q.key) BY <1>4 DEF Get
  <2>2. QED BY <1>1, <1>2, <1>4, <2>1, BsearchFinds DEF Hits
<1>5. QED BY <1>2, <1>3, <1>4
LEMMA AddStep ==
  ASSUME IInv, DoAdd
  PROVE  IInv' /\ Abstract!Add
<1>1. PICK nm \in Names, ad \in Addrs :
        st' \in Add(st, [id |-> Nsymbs(st) + 1, name |-> nm, addr |-> ad])
  BY DEF DoAdd
<1>2. Nsymbs(st) < MaxSyms /\ asked' = None /\ answer' = None BY DEF DoAdd
<1>3. PICK s \in Symbol \ Held(st.by_name) :
        /\ s.id = Len(st.by_name) + 1
        /\ st' \in Table /\ ArraysAgree'
        /\ Held(st'.by_name) = Held(st.by_name) \cup {s}
        /\ Len(st'.by_name) = Len(st.by_name) + 1
        /\ Cardinality(Held(st'.by_name)) = Len(st'.by_name)
  BY <1>1, <1>2, Added
<1>4. TypeOK' BY <1>2, <1>3 DEF TypeOK
<1>5. Len(st.by_name) \in Nat /\ \A x \in Held(st.by_name) : x \in Symbol
  BY HeldFinite DEF IInv, TypeOK, Table, Array
<1>6. \A x \in Held(st.by_name) : x.id <= Len(st.by_name) BY DEF IInv, Numbered
<1>7. \A x \in Held(st'.by_name) : x.id <= Len(st'.by_name)
  BY <1>3, <1>5, <1>6 DEF Symbol
<1>8. Numbered' BY <1>3, <1>7 DEF Numbered
<1>9. Abstract!Add BY <1>2, <1>3 DEF Abstract!Add
<1>10. QED BY <1>3, <1>4, <1>8, <1>9 DEF IInv

LEMMA GetStep ==
  ASSUME IInv, DoGet
  PROVE  IInv' /\ Abstract!Get
<1>1. PICK q \in Question : asked' = q /\ answer' = Get(st, q) /\ st' = st
  BY DEF DoGet
<1>2. answer' \in IF {s \in Held(st.by_name) : s[q.field] = q.key} = {} THEN {None}
                  ELSE {s \in Held(st.by_name) : s[q.field] = q.key}
  BY <1>1, Answered
<1>3. Held(st.by_name) \subseteq Symbol
  BY HeldFinite DEF IInv, TypeOK, Table
<1>4. TypeOK' BY <1>1, <1>2, <1>3 DEF IInv, TypeOK
<1>5. ArraysAgree' /\ Numbered' BY <1>1 DEF IInv, ArraysAgree, Numbered
<1>6. Abstract!Get
  BY <1>1, <1>2 DEF Abstract!Get, Abstract!Having
<1>7. QED BY <1>4, <1>5, <1>6 DEF IInv

LEMMA Step ==
  ASSUME IInv, [Next]_vars
  PROVE  IInv'
<1>1. CASE UNCHANGED vars
  BY <1>1 DEF vars, IInv, TypeOK, ArraysAgree, Numbered
<1>2. QED BY <1>1, AddStep, GetStep DEF Next

LEMMA Invariance == Spec => []IInv
<1>1. Init => IInv BY Start
<1>2. IInv /\ [Next]_vars => IInv' BY Step
<1>3. QED BY <1>1, <1>2, PTL DEF Spec

-----------------------------------------------------------------------------
(* The theorems.                                                           *)

(* No lookup reads outside the arrays, however many symbols there are.     *)
THEOREM TableTypes == Spec => []TypeOK
<1>1. IInv => TypeOK BY DEF IInv
<1>2. QED BY <1>1, Invariance, PTL

(* The array by name and the array by address always hold the same         *)
(* symbols, each in its order: ggrt_symbol_table_add sorts both            *)
(* (st.c:51-69).                                                           *)
THEOREM ArraysAlwaysAgree == Spec => []ArraysAgree
<1>1. IInv => ArraysAgree BY DEF IInv
<1>2. QED BY <1>1, Invariance, PTL

(* The arrays with bisection implement a set of symbols: whatever ties     *)
(* qsort breaks, a lookup answers with a symbol that has the name or       *)
(* address when one was added, and with NULL otherwise (st.c:43-49).       *)
THEOREM TableImplementsSymbolSpec == Spec => ImplementsSymbolSpec
<1>1. Init => Abstract!Init
  <2>1. Held(<<>>) = {} BY DEF Held
  <2>2. QED BY <2>1 DEF Init, NewTable, Abstract!Init
<1>2. IInv /\ [Next]_vars => [Abstract!Next]_<<Held(st.by_name), asked, answer>>
  <2>1. ASSUME IInv, Next PROVE Abstract!Next
    BY <2>1, AddStep, GetStep DEF Next, Abstract!Next
  <2>2. ASSUME UNCHANGED vars PROVE UNCHANGED <<Held(st.by_name), asked, answer>>
    BY <2>2 DEF vars
  <2>3. QED BY <2>1, <2>2
<1>3. QED BY <1>1, <1>2, Invariance, PTL DEF Spec, ImplementsSymbolSpec, Abstract!Spec
=============================================================================
