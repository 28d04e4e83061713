-------------------------- MODULE TokenStreamProofs --------------------------
(***************************************************************************)
(* Proofs about the text behind the tokens (TokenStream): for inputs of    *)
(* any length, any depth of the parser's stack and any productions, each   *)
(* symbol has the line and the text of its tokens.                         *)
(*                                                                         *)
(* The invariant says of the lexer that mb_token is never behind a sign of *)
(* a directive that is still open (Scanned), which is why the line it has  *)
(* counted is the line that the directives give; of each region that it is *)
(* whole (Piece) and begins and ends with a sign of a token (Symbol) or is *)
(* Empty; and of the stack that its regions are in order and hold exactly  *)
(* the signs that were shifted.  A production replaces regions next to     *)
(* each other by their union (MergeUnites), which loses none.              *)
(* VInv says of the texts that symbols keep themselves that one is left on *)
(* the stack only below a tag.                                             *)
(***************************************************************************)
EXTENDS TokenStream, SetInduction, FiniteSetTheorems, SequenceTheorems

-----------------------------------------------------------------------------
(* The input and the lexer's matches.                                      *)

InputOK == Len(input) \in Nat /\ Len(input) <= MaxInput /\ MaxInput \in Nat /\ Line \in Nat

LEMMA NewlinesFinite ==
  ASSUME NEW from \in Nat, NEW to \in Int
  PROVE  /\ IsFiniteSet(Newlines(from, to))
         /\ Cardinality(Newlines(from, to)) \in Nat
<1>1. from \in Int OBVIOUS
<1>2. IsFiniteSet(from..to) BY <1>1, FS_Interval
<1>3. Newlines(from, to) \subseteq from..to BY DEF Newlines
<1>4. IsFiniteSet(Newlines(from, to)) BY <1>2, <1>3, FS_Subset
<1>5. QED BY <1>4, FS_CardinalityType

LEMMA NewlinesAdd ==
  ASSUME NEW from \in Nat, NEW mid \in Nat, NEW to \in Nat, from <= mid, mid <= to + 1
  PROVE  Cardinality(Newlines(from, to)) =
           Cardinality(Newlines(from, mid - 1)) + Cardinality(Newlines(mid, to))
<1> DEFINE A == Newlines(from, mid - 1)
           B == Newlines(mid, to)
<1>1. IsFiniteSet(A) /\ IsFiniteSet(B) BY NewlinesFinite
<1>2. Newlines(from, to) = A \cup B BY DEF Newlines
<1>3. A \cap B = {} BY DEF Newlines
<1> HIDE DEF A, B
<1>4. Cardinality({}) = 0 BY FS_EmptySet
<1>5. Cardinality(A) \in Nat /\ Cardinality(B) \in Nat BY <1>1, FS_CardinalityType
<1>6. Cardinality(A \cup B) = Cardinality(A) + Cardinality(B) - Cardinality(A \cap B)
  BY <1>1, FS_Union
<1>7. Cardinality(A \cup B) = Cardinality(A) + Cardinality(B)
  <2>1. Cardinality(A \cap B) = 0 BY <1>3, <1>4, Zenon
  <2>2. QED BY <1>5, <1>6, <2>1
<1>8. QED BY <1>2, <1>7 DEF A, B

(* The end of a line is its first newline, if there is one.                *)
LEMMA EndOfLineIsFirst ==
  ASSUME InputOK, NEW p \in 1..Len(input) + 1
  PROVE  /\ EndOfLine(p) \in Nat
         /\ EndOfLine(p) <= Len(input) <=> Newlines(p, Len(input)) # {}
         /\ EndOfLine(p) <= Len(input) =>
              EndOfLine(p) \in p..Len(input) /\ input[EndOfLine(p)] = "nl"
         /\ Newlines(p, EndOfLine(p) - 1) = {}
<1> DEFINE ends == Newlines(p, Len(input)) \cup {Len(input) + 1}
<1>1. ends \in SUBSET Nat /\ ends # {} BY DEF InputOK, Newlines
<1>2. \E i \in ends : \A j \in ends : i <= j BY <1>1, LeastNatural
<1>3. EndOfLine(p) \in ends /\ \A j \in ends : EndOfLine(p) <= j BY <1>2 DEF EndOfLine
<1> DEFINE e == EndOfLine(p)
<1>4. e \in ends /\ \A j \in ends : e <= j BY <1>3
<1> HIDE DEF e
<1>5. \A i \in Newlines(p, Len(input)) : i \in p..Len(input) /\ input[i] = "nl" BY DEF Newlines
<1>6. e \in Nat BY <1>1, <1>4
<1>7. e <= Len(input) => e \in Newlines(p, Len(input)) BY <1>4 DEF InputOK
<1>8. ASSUME NEW i \in Newlines(p, Len(input)) PROVE e <= Len(input)
  <2>1. i \in p..Len(input) /\ e <= i BY <1>4, <1>5
  <2>2. QED BY <1>6, <2>1 DEF InputOK
<1>9. Newlines(p, e - 1) = {}
  <2>1. e <= Len(input) + 1 BY <1>4
  <2>2. ASSUME NEW i \in Newlines(p, e - 1) PROVE FALSE
    <3>1. i \in p..e - 1 /\ input[i] = "nl" BY DEF Newlines
    <3>2. i \in p..Len(input) BY <1>6, <2>1, <3>1 DEF InputOK
    <3>3. i \in ends BY <3>1, <3>2 DEF Newlines
    <3>4. QED BY <1>4, <1>6, <3>1, <3>3
  <2>3. QED BY <2>2
<1>10. QED BY <1>5, <1>6, <1>7, <1>8, <1>9 DEF e

LEMMA LastSameIsSame ==
  ASSUME InputOK, NEW p \in 1..Len(input), input[p] = "a"
  PROVE  LastSame(p) \in p..Len(input) /\ Same(p, LastSame(p))
<1> DEFINE T == {i \in p..Len(input) : input[i] # "a"}
           Last(q) == Same(p, q) /\ (q < Len(input) => ~ Same(p, q + 1))
<1>1. \E q \in p..Len(input) : Last(q)
  <2>1. CASE T = {}
    <3>1. Last(Len(input)) BY <2>1 DEF Same, InputOK
    <3>2. Len(input) \in p..Len(input) BY DEF InputOK
    <3>3. QED BY <3>1, <3>2
  <2>2. CASE T # {}
    <3>1. T \in SUBSET Nat OBVIOUS
    <3> HIDE DEF T
    <3>2. PICK m \in T : \A i \in T : m <= i BY <2>2, <3>1, LeastNatural
    <3>3. m \in p..Len(input) /\ input[m] # "a" BY <3>2 DEF T
    <3>4. m # p BY <3>3
    <3>5. m - 1 \in p..Len(input) BY <3>3, <3>4 DEF InputOK
    <3>6. \A i \in p..m - 1 : i \in p..Len(input) /\ i \notin T
      BY <3>1, <3>2, <3>3 DEF InputOK
    <3>7. Same(p, m - 1) BY <3>6 DEF Same, T
    <3>8. ~ Same(p, m - 1 + 1) BY <3>3 DEF Same
    <3>9. QED BY <3>5, <3>7, <3>8
  <2>3. QED BY <2>1, <2>2
<1>2. QED BY <1>1 DEF LastSame

(* What one match is: a directive to the end of its line, a run of one     *)
(* kind of sign, or one character; the lexer reads at least that far.      *)
LEMMA Matches ==
  ASSUME InputOK, NEW p \in 1..Len(input)
  PROVE  /\ MatchEnd(p) \in p..Len(input)
         /\ ReadEnd(p) \in p..Len(input) /\ MatchEnd(p) <= ReadEnd(p)
         /\ IsDirective(p) =>
              /\ input[p] = "#" /\ input[MatchEnd(p)] = "nl"
              /\ MatchEnd(p) = EndOfLine(p)
         /\ input[p] \in {"a", "+"} =>
              \A i \in p..MatchEnd(p) : input[i] = input[p]
         /\ input[p] \notin {"a", "+"} /\ ~ IsDirective(p) => MatchEnd(p) = p
<1>1. p \in 1..Len(input) + 1 BY DEF InputOK
<1>2. CASE IsDirective(p)
  <2>1. input[p] = "#" /\ EndOfLine(p) <= Len(input) BY <1>2 DEF IsDirective
  <2>2. MatchEnd(p) = EndOfLine(p) BY <1>2, <2>1 DEF MatchEnd
  <2>3. ReadEnd(p) = EndOfLine(p) BY <1>2, <2>1 DEF ReadEnd
  <2>4. EndOfLine(p) \in p..Len(input) /\ input[EndOfLine(p)] = "nl"
    BY <1>1, <2>1, EndOfLineIsFirst
  <2>5. QED BY <1>2, <2>1, <2>2, <2>3, <2>4 DEF InputOK
<1>3. CASE ~ IsDirective(p) /\ input[p] = "#"
  <2>1. MatchEnd(p) = p BY <1>3 DEF MatchEnd
  <2>2. ReadEnd(p) = Len(input) BY <1>3 DEF ReadEnd
  <2>3. QED BY <1>3, <2>1, <2>2 DEF InputOK
<1>4. CASE input[p] = "a"
  <2>1. ~ IsDirective(p) BY <1>4 DEF IsDirective
  <2>2. MatchEnd(p) = LastSame(p) BY <1>4, <2>1 DEF MatchEnd
  <2>3. ReadEnd(p) = IF LastSame(p) < Len(input) THEN LastSame(p) + 1 ELSE LastSame(p)
    BY <1>4 DEF ReadEnd
  <2>4. LastSame(p) \in p..Len(input) /\ Same(p, LastSame(p)) BY <1>4, LastSameIsSame
  <2>5. ReadEnd(p) \in p..Len(input) /\ MatchEnd(p) <= ReadEnd(p)
    BY <2>2, <2>3, <2>4 DEF InputOK
  <2>6. QED BY <1>4, <2>1, <2>2, <2>4, <2>5 DEF Same
<1>5. CASE input[p] = "+"
  <2>1. ~ IsDirective(p) BY <1>5 DEF IsDirective
  <2>2. MatchEnd(p) = IF p < Len(input) /\ input[p + 1] = "+" THEN p + 1 ELSE p
    BY <1>5, <2>1 DEF MatchEnd
  <2>3. ReadEnd(p) = IF p < Len(input) THEN p + 1 ELSE p BY <1>5 DEF ReadEnd
  <2>4. MatchEnd(p) \in p..Len(input) /\ ReadEnd(p) \in p..Len(input)
        /\ MatchEnd(p) <= ReadEnd(p)
    BY <2>2, <2>3 DEF InputOK
  <2>5. \A i \in p..MatchEnd(p) : input[i] = "+"
    <3>1. CASE p < Len(input) /\ input[p + 1] = "+" BY <1>5, <2>2, <3>1
    <3>2. CASE ~ (p < Len(input) /\ input[p + 1] = "+") BY <1>5, <2>2, <3>2
    <3>3. QED BY <3>1, <3>2
  <2>6. QED BY <1>5, <2>1, <2>4, <2>5
<1>6. CASE input[p] \notin {"a", "+", "#"}
  <2>1. ~ IsDirective(p) BY <1>6 DEF IsDirective
  <2>2. MatchEnd(p) = p BY <1>6, <2>1 DEF MatchEnd
  <2>3. ReadEnd(p) = p BY <1>6 DEF ReadEnd
  <2>4. QED BY <1>6, <2>1, <2>2, <2>3 DEF InputOK
<1>7. QED BY <1>2, <1>3, <1>4, <1>5, <1>6

-----------------------------------------------------------------------------
(* The line that the directives give a character.                          *)

LEMMA GreatestNatural ==
  ASSUME NEW n \in Nat, NEW T \in SUBSET (0..n), T # {}
  PROVE  \E m \in T : \A t \in T : t <= m
<1> DEFINE U == {n - t : t \in T}
<1>1. U \in SUBSET Nat /\ U # {}
  <2>1. \A t \in T : t \in 0..n /\ n - t \in Nat OBVIOUS
  <2>2. QED BY <2>1
<1>2. PICK u \in U : \A x \in U : u <= x
  <2> HIDE DEF U
  <2>1. QED BY <1>1, LeastNatural
<1>3. PICK m \in T : u = n - m OBVIOUS
<1>4. ASSUME NEW t \in T PROVE t <= m
  <2>1. n - t \in U OBVIOUS
  <2>2. n - m <= n - t BY <1>2, <1>3, <2>1
  <2>3. m \in 0..n /\ t \in 0..n OBVIOUS
  <2>4. QED BY <2>2, <2>3
<1>5. QED BY <1>4

(* The ends of the directives before p, and the last of them.              *)
Ends(p) == {e \in Newlines(1, p - 1) : InDirective(e)}
LastEnd(p) == CHOOSE e \in Ends(p) : \A d \in Ends(p) : d <= e

LEMMA LastEndIsLast ==
  ASSUME NEW p \in Nat, Ends(p) # {}
  PROVE  LastEnd(p) \in 1..p - 1 /\ LastEnd(p) \in Ends(p)
         /\ \A d \in Ends(p) : d <= LastEnd(p)
<1>1. \A e \in Ends(p) : e \in 1..p - 1 BY DEF Ends, Newlines
<1>2. Ends(p) \in SUBSET (0..p) BY <1>1
<1>3. \E m \in Ends(p) : \A t \in Ends(p) : t <= m BY <1>2, GreatestNatural
<1>4. QED BY <1>1, <1>3 DEF LastEnd

LEMMA LineAtEnds ==
  ASSUME NEW p
  PROVE  LineAt(p) = IF Ends(p) = {} THEN 1 + Cardinality(Newlines(1, p - 1))
                     ELSE Line + Cardinality(Newlines(LastEnd(p) + 1, p - 1))
BY DEF LineAt, Ends, LastEnd

LEMMA LineAtType ==
  ASSUME InputOK, NEW p \in Nat
  PROVE  LineAt(p) \in Nat
<1>1. CASE Ends(p) = {}
  <2>1. Cardinality(Newlines(1, p - 1)) \in Nat BY NewlinesFinite
  <2>2. LineAt(p) = 1 + Cardinality(Newlines(1, p - 1)) BY <1>1, LineAtEnds
  <2>3. QED BY <2>1, <2>2
<1>2. CASE Ends(p) # {}
  <2>1. LastEnd(p) + 1 \in Nat BY <1>2, LastEndIsLast
  <2>2. Cardinality(Newlines(LastEnd(p) + 1, p - 1)) \in Nat 
    <3>1. p - 1 \in Int OBVIOUS
    <3>2. QED BY <2>1, <3>1, NewlinesFinite
  <2>3. LineAt(p) = Line + Cardinality(Newlines(LastEnd(p) + 1, p - 1))
    BY <1>2, LineAtEnds
  <2>4. QED BY <2>2, <2>3 DEF InputOK
<1>3. QED BY <1>1, <1>2

(* Characters that end no directive move the line by their newlines ...    *)
LEMMA LineMoves ==
  ASSUME InputOK, NEW p \in 1..Len(input), NEW q \in p..Len(input),
         \A i \in Newlines(p, q) : ~ InDirective(i)
  PROVE  LineAt(q + 1) = LineAt(p) + Cardinality(Newlines(p, q))
<1>1. p \in Nat /\ q \in Nat /\ q + 1 \in Nat /\ 1 <= p /\ p <= q /\ (q + 1) - 1 = q
  BY DEF InputOK
<1>2. Ends(q + 1) = Ends(p)
  <2>1. Newlines(1, q) = Newlines(1, p - 1) \cup Newlines(p, q) BY <1>1 DEF Newlines
  <2>2. QED BY <1>1, <2>1 DEF Ends
<1>3. Cardinality(Newlines(p, q)) \in Nat BY <1>1, NewlinesFinite
<1>4. p - 1 \in Int BY <1>1
<1>5. CASE Ends(p) = {}
  <2>1. Cardinality(Newlines(1, q)) =
          Cardinality(Newlines(1, p - 1)) + Cardinality(Newlines(p, q))
    BY <1>1, NewlinesAdd
  <2>2. LineAt(p) = 1 + Cardinality(Newlines(1, p - 1)) BY <1>5, LineAtEnds
  <2>3. LineAt(q + 1) = 1 + Cardinality(Newlines(1, q)) BY <1>1, <1>2, <1>5, LineAtEnds
  <2>4. Cardinality(Newlines(1, p - 1)) \in Nat BY <1>4, NewlinesFinite
  <2>5. QED BY <1>3, <2>1, <2>2, <2>3, <2>4
<1>6. CASE Ends(p) # {}
  <2> DEFINE m == LastEnd(p) + 1
  <2>1. m \in Nat /\ m <= p BY <1>1, <1>6, LastEndIsLast
  <2>2. LastEnd(q + 1) = LastEnd(p) BY <1>2 DEF LastEnd
  <2>3. LineAt(p) = Line + Cardinality(Newlines(m, p - 1)) BY <1>6, LineAtEnds
  <2>4. LineAt(q + 1) = Line + Cardinality(Newlines(m, q))
    BY <1>1, <1>2, <1>6, <2>2, LineAtEnds
  <2> HIDE DEF m
  <2>5. Cardinality(Newlines(m, q)) =
          Cardinality(Newlines(m, p - 1)) + Cardinality(Newlines(p, q))
    BY <1>1, <2>1, NewlinesAdd
  <2>6. Cardinality(Newlines(m, p - 1)) \in Nat BY <1>1, <1>4, <2>1, NewlinesFinite
  <2>7. QED BY <1>3, <2>3, <2>4, <2>5, <2>6 DEF InputOK
<1>7. QED BY <1>5, <1>6

(* ... and the character after a directive is on the line that it gives.   *)
LEMMA LineIsSet ==
  ASSUME InputOK, NEW q \in 1..Len(input), input[q] = "nl", InDirective(q)
  PROVE  LineAt(q + 1) = Line
<1>1. q \in Nat /\ q + 1 \in Nat /\ (q + 1) - 1 = q /\ 1 <= q BY DEF InputOK
<1>2. q \in Ends(q + 1) BY <1>1 DEF Ends, Newlines
<1>3. Ends(q + 1) # {} BY <1>2
<1>4. LastEnd(q + 1) \in 1..q /\ q <= LastEnd(q + 1) BY <1>1, <1>2, <1>3, LastEndIsLast
<1>5. LastEnd(q + 1) = q BY <1>1, <1>4
<1>6. Newlines(q + 1, q) = {} BY <1>1 DEF Newlines
<1>7. Cardinality(Newlines(q + 1, q)) = 0 BY <1>6, FS_EmptySet
<1>8. LineAt(q + 1) = Line + Cardinality(Newlines(q + 1, q))
  BY <1>1, <1>3, <1>5, LineAtEnds
<1>9. QED BY <1>7, <1>8 DEF InputOK

(* The lexer is at p and every directive before p is behind it.            *)
Scanned(p) ==
  \A i \in 1..p - 1 :
    input[i] = "#" => Newlines(i, p - 1) # {} \/ Newlines(p, Len(input)) = {}

(* What follows is on the directive's side of nothing: no character of a   *)
(* match that starts at p, and is no directive, is within one.             *)
LEMMA OutsideDirectives ==
  ASSUME InputOK, NEW p \in 1..Len(input), Scanned(p), ~ IsDirective(p)
  PROVE  /\ \A i \in p..MatchEnd(p) : ~ InDirective(i)
         /\ Scanned(MatchEnd(p) + 1)
<1> DEFINE q == MatchEnd(p)
<1>1. q \in p..Len(input) BY Matches
<1>2. p \in Nat /\ q \in Nat /\ Len(input) \in Nat BY <1>1 DEF InputOK
<1>3. \A i \in p + 1 .. q : input[i] # "#"
  <2>1. CASE input[p] \in {"a", "+"}
    <3>1. \A i \in p..q : input[i] = input[p] BY <2>1, Matches
    <3>2. \A i \in p + 1 .. q : i \in p..q BY <1>2
    <3>3. QED BY <2>1, <3>1, <3>2
  <2>2. CASE input[p] \notin {"a", "+"}
    <3>1. q = p BY <2>2, Matches
    <3>2. QED BY <1>2, <3>1
  <2>3. QED BY <2>1, <2>2
<1>4. input[p] = "#" => Newlines(p, Len(input)) = {}
  <2>1. p \in 1..Len(input) + 1 BY <1>2
  <2>2. input[p] = "#" => ~ (EndOfLine(p) <= Len(input)) BY DEF IsDirective
  <2>3. QED BY <2>1, <2>2, EndOfLineIsFirst
<1> HIDE DEF q
<1>5. \A i, j \in Nat : i <= j => Newlines(j, Len(input)) \subseteq Newlines(i, Len(input))
  BY <1>2 DEF Newlines
<1>6. \A i, j, k \in Nat : j <= k => Newlines(i, j - 1) \subseteq Newlines(i, k - 1)
  BY DEF Newlines
<1>7. ASSUME NEW j \in p..q, InDirective(j) PROVE FALSE
  <2>1. j \in Nat /\ j \in 1..Len(input) + 1 /\ p <= j BY <1>1, <1>2
  <2>2. Newlines(j, Len(input)) # {} BY <1>7, <2>1, EndOfLineIsFirst DEF InDirective
  <2>3. Newlines(p, Len(input)) # {} BY <1>2, <1>5, <2>1, <2>2
  <2>4. PICK i \in 1..j : input[i] = "#" /\ Newlines(i, j - 1) = {} BY <1>7 DEF InDirective
  <2>5. i \notin p + 1 .. q BY <1>3, <2>4
  <2>6. i # p BY <1>4, <2>3, <2>4
  <2>7. i \in 1..p - 1 /\ i \in Nat BY <1>1, <1>2, <2>1, <2>4, <2>5, <2>6
  <2>8. Newlines(i, p - 1) = {} BY <1>2, <1>6, <2>1, <2>4, <2>7
  <2>9. QED BY <2>3, <2>4, <2>7, <2>8 DEF Scanned
<1>8. ASSUME NEW i \in 1..(q + 1) - 1, input[i] = "#"
      PROVE  Newlines(i, (q + 1) - 1) # {} \/ Newlines(q + 1, Len(input)) = {}
  <2>1. i \in Nat /\ (q + 1) - 1 = q BY <1>2
  <2>2. Newlines(q + 1, Len(input)) \subseteq Newlines(p, Len(input))
    <3>1. q + 1 \in Nat /\ p <= q + 1 BY <1>1, <1>2
    <3>2. QED BY <1>2, <1>5, <3>1
  <2>3. CASE i \in 1..p - 1
    <3>1. Newlines(i, p - 1) # {} \/ Newlines(p, Len(input)) = {}
      BY <1>8, <2>3 DEF Scanned
    <3>2. Newlines(i, p - 1) \subseteq Newlines(i, (q + 1) - 1)
      <4>1. q + 1 \in Nat /\ p <= q + 1 BY <1>1, <1>2
      <4>2. QED BY <1>2, <1>6, <2>1, <4>1
    <3>3. QED BY <2>2, <3>1, <3>2
  <2>4. CASE i = p BY <1>4, <1>8, <2>2, <2>4
  <2>5. i \notin p + 1 .. q BY <1>3, <1>8
  <2>6. QED BY <1>1, <1>2, <2>1, <2>3, <2>4, <2>5
<1>9. Scanned(q + 1) BY <1>8 DEF Scanned
<1>10. QED BY <1>7, <1>9 DEF q

(* A directive's characters are all within it, and then it is behind.      *)
LEMMA InsideDirective ==
  ASSUME InputOK, NEW p \in 1..Len(input), Scanned(p), IsDirective(p)
  PROVE  /\ \A i \in p..MatchEnd(p) : InDirective(i)
         /\ Scanned(MatchEnd(p) + 1)
<1> DEFINE q == MatchEnd(p)
<1>1. /\ q \in p..Len(input) /\ input[q] = "nl" /\ input[p] = "#" /\ q = EndOfLine(p)
  BY Matches
<1>2. p \in Nat /\ q \in Nat /\ Len(input) \in Nat /\ p \in 1..Len(input) + 1
  BY <1>1 DEF InputOK
<1>3. Newlines(p, q - 1) = {} BY <1>1, <1>2, EndOfLineIsFirst
<1> HIDE DEF q
<1>4. ASSUME NEW j \in p..q PROVE InDirective(j)
  <2>1. j \in 1..Len(input) + 1 /\ j \in Nat /\ p \in 1..j BY <1>1, <1>2
  <2>2. q \in Newlines(j, Len(input)) BY <1>1, <1>2, <2>1 DEF Newlines
  <2>3. EndOfLine(j) <= Len(input) BY <2>1, <2>2, EndOfLineIsFirst
  <2>4. Newlines(p, j - 1) = {}
    <3>1. Newlines(p, j - 1) \subseteq Newlines(p, q - 1) BY <1>2, <2>1 DEF Newlines
    <3>2. QED BY <1>3, <3>1
  <2>5. QED BY <1>1, <2>1, <2>3, <2>4 DEF InDirective
<1>5. ASSUME NEW i \in 1..(q + 1) - 1 PROVE Newlines(i, (q + 1) - 1) # {}
  <2>1. q \in Newlines(i, (q + 1) - 1) BY <1>1, <1>2 DEF Newlines
  <2>2. QED BY <2>1
<1>6. Scanned(q + 1) BY <1>5 DEF Scanned
<1>7. QED BY <1>4, <1>6 DEF q

LEMMA LenIs ==
  ASSUME NEW n \in Nat, NEW s, DOMAIN s = 1..n
  PROVE  Len(s) = n
OBVIOUS

-----------------------------------------------------------------------------
(* Regions.                                                                *)

OwnText(r) == [from |-> r.pos, size |-> r.size]

(* A region of what was read, with the line of its first character and, if *)
(* any, its own text; and one that begins and ends with signs of tokens.   *)
Piece(r) ==
  /\ r \in Region
  /\ 1 <= r.pos /\ 1 <= r.size
  /\ r.end = r.pos + r.size /\ r.end <= Len(input) + 1
  /\ r.pos <= r.endpos /\ r.endpos < r.end
  /\ r.line = LineAt(r.pos)
  /\ r.cstr \in {NoText, OwnText(r)}

IsSign(i) == i \in Signs(1, Len(input))
Symbol(r) == Piece(r) /\ IsSign(r.pos) /\ IsSign(r.end - 1)
Item(r)   == r = Empty \/ Symbol(r)

(* The regions of s are in the order of the input and apart.               *)
Ordered(s) ==
  \A i, j \in DOMAIN s : i < j /\ s[i] # Empty /\ s[j] # Empty => s[i].end <= s[j].pos

LEMMA EmptyIsRegion ==
  ASSUME InputOK
  PROVE  Empty \in Region /\ Empty.pos = 0 /\ Empty.endpos = 0 /\ Empty.cstr = NoText
BY DEF InputOK, Empty, Region, NoText, Interval

LEMMA ItemHasPos ==
  ASSUME NEW r, Item(r), InputOK
  PROVE  r \in Region /\ (r.pos # 0 <=> r # Empty)
BY EmptyIsRegion DEF Item, Symbol, Piece, Region

(* m is the union of the first k regions of rhs: of all from the a'th to   *)
(* the b'th, the first and the last that are not empty.                    *)
Unites(rhs, k, m) ==
  \/ m = Empty /\ \A i \in 1..k : rhs[i] = Empty
  \/ /\ Symbol(m)
     /\ \E a, b \in 1..k :
          /\ a <= b /\ rhs[a] # Empty /\ rhs[b] # Empty
          /\ \A i \in 1..k : rhs[i] # Empty => a <= i /\ i <= b
          /\ m.pos = rhs[a].pos /\ m.end = rhs[b].end /\ m.endpos = rhs[b].endpos

LEMMA Widths ==
  ASSUME NEW L \in Nat, NEW M \in Nat, L <= M, NEW p \in Nat, NEW e \in Nat,
         1 <= p, p < e, e <= L + 1
  PROVE  e - p \in 0..M /\ 1 <= e - p /\ e = p + (e - p)
OBVIOUS

LEMMA UnionUnites ==
  ASSUME InputOK, NEW n \in Nat, NEW rhs, DOMAIN rhs = 1..n,
         \A i \in 1..n : Item(rhs[i]), Ordered(rhs),
         NEW k \in Nat, k + 1 <= n, NEW m, Unites(rhs, k, m)
  PROVE  Unites(rhs, k + 1, Union(m, rhs[k + 1]))
<1> DEFINE src == rhs[k + 1]
           u   == Union(m, src)
<1>1. k + 1 \in 1..n /\ Item(src) /\ \A i \in 1..k + 1 : i \in 1..k \/ i = k + 1
  OBVIOUS
<1>2. \A i \in 1..k : i \in 1..n /\ i \in 1..k + 1 /\ i < k + 1 OBVIOUS
<1>3. src \in Region /\ (src.pos # 0 <=> src # Empty) BY <1>1, ItemHasPos
<1>4. CASE m = Empty /\ \A i \in 1..k : rhs[i] = Empty
  <2>1. u = src BY <1>4, EmptyIsRegion DEF Union
  <2> HIDE DEF u
  <2>2. CASE src = Empty
    <3>1. \A i \in 1..k + 1 : rhs[i] = Empty BY <1>1, <1>4, <2>2
    <3>2. QED BY <2>1, <2>2, <3>1 DEF Unites, u
  <2>3. CASE src # Empty
    <3>1. Symbol(src) BY <1>1, <2>3 DEF Item
    <3>2. k + 1 \in 1..k + 1 BY <1>1
    <3>3. \A i \in 1..k + 1 : rhs[i] # Empty => i = k + 1 BY <1>1, <1>4
    <3>4. \A i \in 1..k + 1 : rhs[i] # Empty => k + 1 <= i /\ i <= k + 1 BY <3>3
    <3>5. k + 1 <= k + 1 OBVIOUS
    <3>6. rhs[k + 1] # Empty /\ src.pos = rhs[k + 1].pos /\ src.end = rhs[k + 1].end
          /\ src.endpos = rhs[k + 1].endpos
      BY <2>3
    <3> HIDE DEF src
    <3>7. Unites(rhs, k + 1, src) BY <3>1, <3>2, <3>4, <3>5, <3>6 DEF Unites
    <3>8. QED BY <2>1, <3>7 DEF u, src
  <2>4. QED BY <2>2, <2>3 DEF u
<1>5. ASSUME Symbol(m), NEW a \in 1..k, NEW b \in 1..k,
             a <= b, rhs[a] # Empty, rhs[b] # Empty,
             \A i \in 1..k : rhs[i] # Empty => a <= i /\ i <= b,
             m.pos = rhs[a].pos, m.end = rhs[b].end, m.endpos = rhs[b].endpos
      PROVE  Unites(rhs, k + 1, u)
  <2>1. m \in Region /\ m.pos # 0 /\ m.pos >= 1 BY <1>5 DEF Symbol, Piece, Region
  <2>2. PICK pos \in 0..MaxInput + 1, size \in 0..MaxInput, line \in Nat,
             endpos \in 0..MaxInput + 1, end \in 0..MaxInput + 1, cstr \in Interval :
               m = [pos |-> pos, size |-> size, line |-> line,
                    endpos |-> endpos, end |-> end, cstr |-> cstr]
    BY <2>1 DEF Region
  <2>3. CASE src = Empty
    <3>1. m.pos > src.endpos BY <2>1, <2>3, EmptyIsRegion DEF Region
    <3>2. u = [m EXCEPT !.endpos = m.endpos, !.end = m.end,
                        !.size = m.end - m.pos, !.cstr = NoText]
      BY <2>1, <3>1 DEF Union
    <3> HIDE DEF u
    <3>3. m.end - m.pos = m.size BY <1>5, <2>1 DEF Symbol, Piece, Region
    <3>4. u = [pos |-> pos, size |-> size, line |-> line,
               endpos |-> endpos, end |-> end, cstr |-> NoText]
      BY <2>2, <3>2, <3>3
    <3>5. u.pos = m.pos /\ u.size = m.size /\ u.line = m.line /\ u.endpos = m.endpos
          /\ u.end = m.end /\ u.cstr = NoText
      BY <2>2, <3>4
    <3>6. u \in Region BY <3>4 DEF Region, Interval, NoText
    <3>7. Symbol(u) BY <1>5, <3>5, <3>6 DEF Symbol, Piece
    <3>8. \A i \in 1..k + 1 : rhs[i] # Empty => i \in 1..k BY <1>1, <2>3
    <3>9. \A i \in 1..k + 1 : rhs[i] # Empty => a <= i /\ i <= b BY <1>5, <3>8
    <3>10. a \in 1..k + 1 /\ b \in 1..k + 1 BY <1>2
    <3>11. QED BY <1>5, <3>5, <3>7, <3>9, <3>10 DEF Unites
  <2>4. CASE src # Empty
    <3>1. Symbol(src) BY <1>1, <2>4 DEF Item
    <3>2. rhs[b].end <= src.pos
      <4>1. b \in DOMAIN rhs /\ k + 1 \in DOMAIN rhs /\ b < k + 1 BY <1>1, <1>2
      <4>2. QED BY <1>5, <2>4, <4>1 DEF Ordered
    <3>3. Piece(m) /\ Piece(src) BY <1>5, <3>1 DEF Symbol
    <3> HIDE DEF src
    <3>4. /\ src.pos \in Nat /\ src.endpos \in Nat /\ src.endpos \in 0..MaxInput + 1
          /\ src.end \in Nat /\ src.end \in 0..MaxInput + 1 /\ src.size \in Nat
          /\ m.pos \in Nat /\ m.end \in Nat /\ m.size \in Nat
          /\ Len(input) \in Nat /\ MaxInput \in Nat /\ Len(input) <= MaxInput
      <4>1. MaxInput \in Nat /\ Len(input) \in Nat /\ Len(input) <= MaxInput BY DEF InputOK
      <4>2. \A r \in Region : /\ r.pos \in 0..MaxInput + 1 /\ r.endpos \in 0..MaxInput + 1
                              /\ r.end \in 0..MaxInput + 1 /\ r.size \in 0..MaxInput
        BY DEF Region
      <4>3. \A i \in 0..MaxInput + 1 : i \in Nat BY <4>1
      <4>4. \A i \in 0..MaxInput : i \in Nat BY <4>1
      <4>5. QED BY <1>3, <2>1, <4>1, <4>2, <4>3, <4>4
    <3>5. m.pos < m.end /\ m.end <= src.pos /\ src.pos <= src.endpos /\ src.pos < src.end
          /\ src.end <= Len(input) + 1 /\ src.endpos < src.end
      <4>1. m.end <= src.pos BY <1>5, <3>2
      <4>2. m.end = m.pos + m.size /\ 1 <= m.size BY <3>3 DEF Piece
      <4>3. src.end = src.pos + src.size /\ 1 <= src.size /\ src.pos <= src.endpos
            /\ src.endpos < src.end /\ src.end <= Len(input) + 1
        BY <3>3 DEF Piece
      <4>4. QED BY <3>4, <4>1, <4>2, <4>3, SMTT(20)
    <3>6. ~ (m.pos > src.endpos) BY <3>4, <3>5
    <3>7. u = [m EXCEPT !.endpos = src.endpos, !.end = src.end,
                        !.size = src.end - m.pos, !.cstr = NoText]
      BY <2>1, <3>6 DEF Union
    <3> HIDE DEF u
    <3>8. u = [pos |-> pos, size |-> src.end - pos, line |-> line,
               endpos |-> src.endpos, end |-> src.end, cstr |-> NoText]
      BY <2>2, <3>7
    <3>9. u.pos = m.pos /\ u.size = src.end - m.pos /\ u.line = m.line
          /\ u.endpos = src.endpos /\ u.end = src.end /\ u.cstr = NoText
      BY <2>2, <3>8
    <3>10. src.end - m.pos \in 0..MaxInput 
      <4>1. 1 <= m.pos /\ m.pos < src.end BY <2>1, <3>4, <3>5
      <4>2. QED BY <3>4, <3>5, <4>1, Widths
    <3>11. pos = m.pos BY <2>2
    <3>12. u \in Region BY <3>4, <3>8, <3>10, <3>11 DEF Region, Interval, NoText
    <3>13. Piece(u)
      <4>1. 1 <= u.pos /\ 1 <= u.size /\ u.end = u.pos + u.size /\ u.end <= Len(input) + 1
            /\ u.pos <= u.endpos /\ u.endpos < u.end
        <5>1. 1 <= m.pos /\ m.pos < src.end /\ m.pos <= src.endpos BY <2>1, <3>4, <3>5, SMTT(20)
        <5>2. 1 <= src.end - m.pos /\ src.end = m.pos + (src.end - m.pos)
          BY <3>4, <3>5, <5>1, Widths
        <5>3. QED BY <3>5, <3>9, <5>1, <5>2
      <4>2. u.line = LineAt(u.pos) BY <3>3, <3>9 DEF Piece
      <4>3. QED BY <3>9, <3>12, <4>1, <4>2 DEF Piece
    <3>14. Symbol(u) BY <1>5, <3>1, <3>9, <3>13 DEF Symbol
    <3>15. \A i \in 1..k + 1 : rhs[i] # Empty => a <= i /\ i <= k + 1
      BY <1>1, <1>2, <1>5
    <3>16. a \in 1..k + 1 /\ k + 1 \in 1..k + 1 /\ a <= k + 1 BY <1>1, <1>2
    <3>17. rhs[k + 1] # Empty /\ u.pos = rhs[a].pos /\ u.end = rhs[k + 1].end
           /\ u.endpos = rhs[k + 1].endpos
      BY <1>5, <2>4, <3>9 DEF src
    <3>18. QED BY <1>5, <3>14, <3>15, <3>16, <3>17 DEF Unites
  <2>5. QED BY <2>3, <2>4
<1> HIDE DEF u
<1>6. QED BY <1>4, <1>5 DEF Unites, u

(* The recursion of token_merge has a solution, and it unites them all.    *)
United(rhs, f) ==
  \A n \in 0..Len(rhs) : f[n] = IF n = 0 THEN Empty ELSE Union(f[n - 1], rhs[n])

Uniting(rhs) ==
  CHOOSE f : f = [n \in 0..Len(rhs) |-> IF n = 0 THEN Empty ELSE Union(f[n - 1], rhs[n])]

LEMMA MergeIsUniting ==
  ASSUME NEW rhs
  PROVE  Merge(rhs) = Uniting(rhs)[Len(rhs)]
BY DEF Merge, Uniting

LEMMA UnitingExists ==
  ASSUME NEW rhs, Len(rhs) \in Nat
  PROVE  United(rhs, Uniting(rhs))
<1> DEFINE N == Len(rhs)
           Step(f, n) == IF n = 0 THEN Empty ELSE Union(f[n - 1], rhs[n])
           Upto(f, k) == \A n \in 0..N : n <= k => f[n] = Step(f, n)
           S == {k \in Nat : \E f : Upto(f, k)}
<1>1. 0 \in S
  <2>1. Upto([n \in 0..N |-> Empty], 0)
    <3>1. \A n \in 0..N : n <= 0 => n = 0 OBVIOUS
    <3>2. QED BY <3>1
  <2>2. QED BY <2>1
<1>2. ASSUME NEW k \in S PROVE k + 1 \in S
  <2>1. PICK f : Upto(f, k) OBVIOUS
  <2> DEFINE g == [n \in 0..N |-> Step(f, n)]
  <2>2. \A n \in 0..N : g[n] = Step(f, n) OBVIOUS
  <2> HIDE DEF g
  <2>3. \A n \in 0..N : n <= k => g[n] = f[n] BY <2>1, <2>2
  <2>4. ASSUME NEW n \in 0..N, n <= k + 1 PROVE g[n] = Step(g, n)
    <3>1. CASE n = 0 BY <2>2, <3>1
    <3>2. CASE n # 0
      <4>1. n - 1 \in 0..N /\ n - 1 <= k BY <2>4, <3>2
      <4>2. g[n - 1] = f[n - 1] BY <2>3, <4>1
      <4>3. QED BY <2>2, <4>2
    <3>3. QED BY <3>1, <3>2
  <2>5. Upto(g, k + 1) BY <2>4
  <2>6. QED BY <2>5
<1>3. S = Nat
  <2>1. S \in SUBSET Nat OBVIOUS
  <2> HIDE DEF S
  <2>2. QED BY <1>1, <1>2, <2>1, NatSetInduction
<1>4. PICK f : Upto(f, N) BY <1>3
<1>5. \A n \in 0..N : f[n] = Step(f, n)
  <2>1. \A n \in 0..N : n <= N OBVIOUS
  <2>2. QED BY <1>4, <2>1
<1> DEFINE g == [n \in 0..N |-> f[n]]
<1>6. \A n \in 0..N : g[n] = f[n] OBVIOUS
<1>7. ASSUME NEW n \in 0..N PROVE Step(g, n) = Step(f, n)
  <2>1. CASE n = 0 BY <2>1
  <2>2. CASE n # 0
    <3>1. n - 1 \in 0..N BY <2>2
    <3> HIDE DEF g
    <3>2. QED BY <1>6, <3>1
  <2>3. QED BY <2>1, <2>2
<1>8. g = [n \in 0..N |-> Step(g, n)]
  <2>1. \A n \in 0..N : f[n] = Step(g, n) BY <1>5, <1>7
  <2>2. QED BY <2>1
<1>9. \E h : h = [n \in 0..N |-> Step(h, n)] BY <1>8
<1>10. Uniting(rhs) = [n \in 0..N |-> Step(Uniting(rhs), n)] BY <1>9 DEF Uniting
<1>11. QED BY <1>10 DEF United

LEMMA MergeUnites ==
  ASSUME InputOK, NEW n \in Nat, NEW rhs, DOMAIN rhs = 1..n, Len(rhs) = n,
         \A i \in 1..n : Item(rhs[i]), Ordered(rhs)
  PROVE  Unites(rhs, n, Merge(rhs))
<1> DEFINE f == Uniting(rhs)
           S == {k \in Nat : k <= n => Unites(rhs, k, f[k])}
<1>1. \A k \in 0..n : f[k] = IF k = 0 THEN Empty ELSE Union(f[k - 1], rhs[k])
  BY UnitingExists DEF United
<1> HIDE DEF f
<1>2. 0 \in S
  <2>1. f[0] = Empty BY <1>1
  <2>2. QED BY <2>1 DEF Unites
<1>3. ASSUME NEW k \in S PROVE k + 1 \in S
  <2>1. CASE k + 1 <= n
    <3>1. k <= n /\ k \in Nat BY <2>1
    <3>2. Unites(rhs, k, f[k]) BY <3>1
    <3>3. Unites(rhs, k + 1, Union(f[k], rhs[k + 1])) BY <2>1, <3>1, <3>2, UnionUnites
    <3>4. f[k + 1] = Union(f[k], rhs[k + 1])
      <4>1. k + 1 \in 0..n /\ k + 1 # 0 /\ (k + 1) - 1 = k BY <2>1, <3>1
      <4>2. QED BY <1>1, <4>1
    <3>5. QED BY <3>1, <3>3, <3>4
  <2>2. QED BY <2>1
<1>4. S = Nat
  <2>1. S \in SUBSET Nat OBVIOUS
  <2> HIDE DEF S
  <2>2. QED BY <1>2, <1>3, <2>1, NatSetInduction
<1>5. Unites(rhs, n, f[n]) BY <1>4
<1>6. QED BY <1>5, MergeIsUniting DEF f

-----------------------------------------------------------------------------
(* The stack: its regions are symbols or Empty, in order, and hold the     *)
(* signs in front of f, no more and no less.                               *)

Covered(r, g) == r # Empty /\ r.pos <= g /\ g < r.end

Covers(s, f) ==
  \A g \in 1..Len(input) :
    IsSign(g) => (g < f <=> \E i \in DOMAIN s : Covered(s[i], g))

Holds(s, f) ==
  /\ \A i \in DOMAIN s : Item(s[i])
  /\ Ordered(s)
  /\ Covers(s, f)

LEMMA SignIsChar ==
  ASSUME NEW g, IsSign(g)
  PROVE  g \in 1..Len(input)
BY DEF IsSign, Signs

LEMMA SymbolFacts ==
  ASSUME InputOK, NEW r, Item(r), r # Empty
  PROVE  /\ Symbol(r) /\ r.pos \in Nat /\ r.end \in Nat /\ 1 <= r.pos /\ r.pos < r.end
         /\ r.end <= Len(input) + 1 /\ r.size \in Nat /\ r.size = r.end - r.pos
<1>1. Symbol(r) /\ Piece(r) /\ r \in Region BY DEF Item, Symbol, Piece
<1>2. r.pos \in 0..MaxInput + 1 /\ r.end \in 0..MaxInput + 1 /\ r.size \in 0..MaxInput
  BY <1>1 DEF Region
<1>3. r.end = r.pos + r.size /\ 1 <= r.size /\ 1 <= r.pos /\ r.end <= Len(input) + 1
  BY <1>1 DEF Piece
<1>4. QED BY <1>1, <1>2, <1>3 DEF InputOK

(* No region reaches beyond the signs that were shifted.                   *)
LEMMA HeldBehind ==
  ASSUME InputOK, NEW s, NEW f \in Nat, Holds(s, f), NEW i \in DOMAIN s, s[i] # Empty
  PROVE  s[i].end <= f
<1>1. Item(s[i]) BY DEF Holds
<1>2. Symbol(s[i]) /\ s[i].pos \in Nat /\ s[i].end \in Nat /\ s[i].pos < s[i].end
  BY <1>1, SymbolFacts
<1> DEFINE g == s[i].end - 1
<1>3. IsSign(g) BY <1>2 DEF Symbol
<1>4. g \in 1..Len(input) BY <1>3, SignIsChar
<1>5. s[i].pos <= g /\ g < s[i].end BY <1>2
<1>6. Covered(s[i], g) BY <1>5 DEF Covered
<1>7. g < f BY <1>3, <1>4, <1>6 DEF Holds, Covers
<1>8. QED BY <1>2, <1>7

(* A token is pushed that begins where the shifted signs end.              *)
LEMMA PushHolds ==
  ASSUME InputOK, NEW n \in Nat, NEW s, DOMAIN s = 1..n, NEW f \in Nat, Holds(s, f),
         NEW r, Symbol(r), r.pos = f,
         NEW t, DOMAIN t = 1..n + 1, \A i \in 1..n : t[i] = s[i], t[n + 1] = r
  PROVE  Holds(t, r.end)
<1>1. Item(r) /\ (r.pos # 0 <=> r # Empty)
  <2>1. Item(r) BY DEF Item
  <2>2. QED BY <2>1, ItemHasPos
<1>2. r # Empty BY <1>1 DEF Symbol, Piece
<1>3. r.pos \in Nat /\ r.end \in Nat /\ r.pos < r.end BY <1>1, <1>2, SymbolFacts
<1>4. \A i \in 1..n + 1 : i \in 1..n \/ i = n + 1 OBVIOUS
<1>5. \A i \in 1..n : i \in 1..n + 1 /\ i < n + 1 /\ i \in DOMAIN s OBVIOUS
<1>6. n + 1 \in DOMAIN t OBVIOUS
<1>7. ASSUME NEW i \in DOMAIN t PROVE Item(t[i])
  <2>1. CASE i \in 1..n BY <1>5, <2>1 DEF Holds
  <2>2. CASE i = n + 1 BY <1>1, <2>2
  <2>3. QED BY <1>4, <2>1, <2>2
<1>8. ASSUME NEW i \in DOMAIN t, NEW j \in DOMAIN t, i < j, t[i] # Empty, t[j] # Empty
      PROVE  t[i].end <= t[j].pos
  <2>1. i \in 1..n BY <1>8
  <2>2. CASE j \in 1..n BY <1>5, <1>8, <2>1, <2>2 DEF Holds, Ordered
  <2>3. CASE j = n + 1
    <3>1. s[i].end <= f BY <1>5, <1>8, <2>1, HeldBehind
    <3>2. QED BY <2>1, <2>3, <3>1
  <2>4. QED BY <1>4, <2>2, <2>3
<1>9. ASSUME NEW g \in 1..Len(input), IsSign(g)
      PROVE  g < r.end <=> \E i \in DOMAIN t : Covered(t[i], g)
  <2>1. g < f <=> \E i \in DOMAIN s : Covered(s[i], g) BY <1>9 DEF Holds, Covers
  <2>2. ASSUME g < r.end PROVE \E i \in DOMAIN t : Covered(t[i], g)
    <3>1. CASE g < f
      <4>1. PICK i \in DOMAIN s : Covered(s[i], g) BY <2>1, <3>1
      <4>2. i \in DOMAIN t /\ Covered(t[i], g) BY <1>5, <4>1
      <4>3. QED BY <4>2
    <3>2. CASE ~ (g < f)
      <4>1. r.pos <= g BY <1>3, <3>2
      <4>2. Covered(t[n + 1], g) BY <1>2, <2>2, <4>1 DEF Covered
      <4>3. QED BY <1>6, <4>2
    <3>3. QED BY <3>1, <3>2
  <2>3. ASSUME NEW i \in DOMAIN t, Covered(t[i], g) PROVE g < r.end
    <3>1. CASE i \in 1..n
      <4>1. Covered(s[i], g) BY <2>3, <3>1
      <4>2. g < f BY <1>5, <2>1, <3>1, <4>1
      <4>3. QED BY <1>3, <4>2
    <3>2. CASE i = n + 1 BY <2>3, <3>2 DEF Covered
    <3>3. QED BY <1>4, <3>1, <3>2
  <2>4. QED BY <2>2, <2>3
<1>10. Ordered(t) BY <1>8 DEF Ordered
<1>11. Covers(t, r.end) BY <1>9 DEF Covers
<1>12. QED BY <1>7, <1>10, <1>11 DEF Holds

(* The last n regions are replaced by their union.                         *)
LEMMA ReplaceHolds ==
  ASSUME InputOK, NEW k \in Nat, NEW n \in Nat, NEW s, DOMAIN s = 1..k + n,
         NEW f \in Nat, Holds(s, f),
         NEW rhs, \A i \in 1..n : rhs[i] = s[k + i], NEW m, Unites(rhs, n, m),
         NEW t, DOMAIN t = 1..k + 1, \A i \in 1..k : t[i] = s[i], t[k + 1] = m
  PROVE  Holds(t, f)
<1>1. \A i \in 1..k + 1 : i \in 1..k \/ i = k + 1 OBVIOUS
<1>2. \A i \in 1..k : i \in DOMAIN t /\ i \in DOMAIN s /\ i < k + 1 OBVIOUS
<1>3. \A i \in 1..n : k + i \in DOMAIN s OBVIOUS
<1>4. \A i \in DOMAIN s : i \in 1..k \/ (i - k \in 1..n /\ k + (i - k) = i) OBVIOUS
<1>5. k + 1 \in DOMAIN t OBVIOUS
<1>6. CASE m = Empty /\ \A i \in 1..n : rhs[i] = Empty
  <2>1. \A i \in DOMAIN t : t[i] # Empty => i \in 1..k BY <1>1, <1>6
  <2>2. \A i \in DOMAIN s : s[i] # Empty => i \in 1..k BY <1>4, <1>6
  <2>3. ASSUME NEW i \in DOMAIN t PROVE Item(t[i])
    <3>1. CASE i \in 1..k BY <1>2, <3>1 DEF Holds
    <3>2. CASE i = k + 1 BY <1>6, <3>2 DEF Item
    <3>3. QED BY <1>1, <3>1, <3>2
  <2>4. Ordered(t) BY <1>2, <2>1 DEF Holds, Ordered
  <2>5. ASSUME NEW g PROVE (\E i \in DOMAIN s : Covered(s[i], g)) <=> \E i \in DOMAIN t : Covered(t[i], g)
    <3>1. \A i \in DOMAIN s : Covered(s[i], g) => i \in 1..k BY <2>2 DEF Covered
    <3>2. \A i \in DOMAIN t : Covered(t[i], g) => i \in 1..k BY <2>1 DEF Covered
    <3>3. QED BY <1>2, <3>1, <3>2
  <2>6. Covers(t, f) BY <2>5 DEF Holds, Covers
  <2>7. QED BY <2>3, <2>4, <2>6 DEF Holds
<1>7. ASSUME Symbol(m), NEW a \in 1..n, NEW b \in 1..n, rhs[a] # Empty, rhs[b] # Empty,
             \A i \in 1..n : rhs[i] # Empty => a <= i /\ i <= b,
             m.pos = rhs[a].pos, m.end = rhs[b].end
      PROVE  Holds(t, f)
  <2> DEFINE A == k + a
             B == k + b
  <2>1. A \in DOMAIN s /\ B \in DOMAIN s /\ A \in Nat /\ B \in Nat BY <1>3
  <2>2. s[A] # Empty /\ s[B] # Empty /\ m.pos = s[A].pos /\ m.end = s[B].end BY <1>7
  <2>3. \A i \in 1..k : i < A OBVIOUS
  <2>4. \A i \in DOMAIN s : s[i] # Empty /\ i \notin 1..k => A <= i /\ i <= B
    BY <1>4, <1>7
  <2> HIDE DEF A, B
  <2>5. Item(m) BY <1>7 DEF Item
  <2>6. m # Empty /\ m.pos \in Nat /\ m.end \in Nat /\ m.pos < m.end
    <3>1. m # Empty BY <1>7, <2>5, ItemHasPos DEF Symbol, Piece
    <3>2. QED BY <2>5, <3>1, SymbolFacts
  <2>7. ASSUME NEW i \in DOMAIN t PROVE Item(t[i])
    <3>1. CASE i \in 1..k BY <1>2, <3>1 DEF Holds
    <3>2. CASE i = k + 1 BY <2>5, <3>2
    <3>3. QED BY <1>1, <3>1, <3>2
  <2>8. \A i, j \in DOMAIN s : i < j /\ s[i] # Empty /\ s[j] # Empty => s[i].end <= s[j].pos
    BY DEF Holds, Ordered
  <2>9. ASSUME NEW i \in DOMAIN t, NEW j \in DOMAIN t, i < j, t[i] # Empty, t[j] # Empty
        PROVE  t[i].end <= t[j].pos
    <3>1. i \in 1..k BY <2>9
    <3>2. CASE j \in 1..k BY <1>2, <2>8, <2>9, <3>1, <3>2
    <3>3. CASE j = k + 1
      <4>1. s[i].end <= s[A].pos BY <1>2, <2>1, <2>2, <2>3, <2>8, <2>9, <3>1
      <4>2. QED BY <2>2, <3>1, <3>3, <4>1
    <3>4. QED BY <1>1, <3>2, <3>3
  <2>10. \A i \in DOMAIN s : s[i] # Empty => s[i].pos \in Nat /\ s[i].end \in Nat /\ s[i].pos < s[i].end
    <3>1. \A i \in DOMAIN s : Item(s[i]) BY DEF Holds
    <3>2. QED BY <3>1, SymbolFacts
  <2>11. ASSUME NEW g \in 1..Len(input), IsSign(g)
         PROVE  g < f <=> \E i \in DOMAIN t : Covered(t[i], g)
    <3>1. g < f <=> \E i \in DOMAIN s : Covered(s[i], g) BY <2>11 DEF Holds, Covers
    <3>2. ASSUME NEW i \in DOMAIN s, Covered(s[i], g)
          PROVE  \E j \in DOMAIN t : Covered(t[j], g)
      <4>1. CASE i \in 1..k BY <1>2, <3>2, <4>1
      <4>2. CASE i \notin 1..k
        <5>1. s[i] # Empty /\ s[i].pos <= g /\ g < s[i].end BY <3>2 DEF Covered
        <5>2. A <= i /\ i <= B /\ i \in Nat BY <2>4, <4>2, <5>1
        <5>3. s[A].pos <= s[i].pos
          <6>1. CASE i = A BY <2>2, <2>6, <6>1
          <6>2. CASE A < i
            <7>1. s[A].end <= s[i].pos BY <2>1, <2>2, <2>8, <5>1, <6>2
            <7>2. QED BY <2>1, <2>2, <2>10, <5>1, <7>1
          <6>3. QED BY <2>1, <5>2, <6>1, <6>2
        <5>4. s[i].end <= s[B].end
          <6>1. CASE i = B BY <2>2, <2>6, <6>1
          <6>2. CASE i < B
            <7>1. s[i].end <= s[B].pos BY <2>1, <2>2, <2>8, <5>1, <6>2
            <7>2. QED BY <2>1, <2>2, <2>10, <5>1, <7>1
          <6>3. QED BY <2>1, <5>2, <6>1, <6>2
        <5>5. m.pos <= g /\ g < m.end
          <6>1. s[i].pos \in Nat /\ s[i].end \in Nat /\ g \in Nat BY <2>10, <5>1
          <6>2. m.pos <= s[i].pos /\ s[i].end <= m.end BY <2>2, <5>3, <5>4
          <6>3. QED BY <2>6, <5>1, <6>1, <6>2
        <5>6. Covered(t[k + 1], g) BY <2>6, <5>5 DEF Covered
        <5>7. QED BY <1>5, <5>6
      <4>3. QED BY <4>1, <4>2
    <3>3. ASSUME NEW j \in DOMAIN t, Covered(t[j], g) PROVE g < f
      <4>1. CASE j \in 1..k BY <1>2, <3>1, <3>3, <4>1
      <4>2. CASE j = k + 1
        <5>1. g < m.end BY <3>3, <4>2 DEF Covered
        <5>2. s[B].end <= f BY <2>1, <2>2, HeldBehind
        <5>3. QED BY <2>2, <2>6, <5>1, <5>2
      <4>3. QED BY <1>1, <4>1, <4>2
    <3>4. QED BY <3>1, <3>2, <3>3
  <2>12. Ordered(t) BY <2>9 DEF Ordered
  <2>13. Covers(t, f) BY <2>11 DEF Covers
  <2>14. QED BY <2>7, <2>12, <2>13 DEF Holds
<1>8. QED BY <1>6, <1>7 DEF Unites

LEMMA RegionRecord ==
  ASSUME NEW pos \in 0..MaxInput + 1, NEW size \in 0..MaxInput, NEW line \in Nat,
         NEW endpos \in 0..MaxInput + 1, NEW end \in 0..MaxInput + 1, NEW cstr \in Interval
  PROVE  [pos |-> pos, size |-> size, line |-> line,
          endpos |-> endpos, end |-> end, cstr |-> cstr] \in Region
BY DEF Region

(* The text of a region is taken.                                          *)
LEMMA TextHolds ==
  ASSUME InputOK, NEW s, NEW f, Holds(s, f), NEW j \in DOMAIN s, s[j].pos # 0,
         NEW t, DOMAIN t = DOMAIN s,
         t[j] = [s[j] EXCEPT !.cstr = Text(s[j])],
         \A i \in DOMAIN s : i # j => t[i] = s[i]
  PROVE  Holds(t, f)
<1> DEFINE r == s[j]
<1>1. Item(r) BY DEF Holds
<1>2. r # Empty BY <1>1, ItemHasPos
<1> HIDE DEF r
<1>3. /\ Symbol(r) /\ r.pos \in Nat /\ r.end \in Nat /\ r.size \in Nat
      /\ r.pos < r.end /\ 1 <= r.pos /\ r.end <= Len(input) + 1 /\ r.size = r.end - r.pos
  BY <1>1, <1>2, SymbolFacts
<1>4. Piece(r) /\ r \in Region BY <1>3 DEF Symbol, Piece
<1>5. PICK pos \in 0..MaxInput + 1, size \in 0..MaxInput, line \in Nat,
           endpos \in 0..MaxInput + 1, end \in 0..MaxInput + 1, cstr \in Interval :
             r = [pos |-> pos, size |-> size, line |-> line,
                  endpos |-> endpos, end |-> end, cstr |-> cstr]
  BY <1>4 DEF Region
<1>6. Text(r) = OwnText(r)
  <2>1. r.cstr \in {NoText, OwnText(r)} BY <1>4 DEF Piece
  <2>2. QED BY <2>1 DEF Text, OwnText
<1>7. OwnText(r) \in Interval
  <2>1. r.pos \in 1..MaxInput /\ r.size \in 1..MaxInput BY <1>3 DEF InputOK
  <2>2. QED BY <2>1 DEF OwnText, Interval
<1>8. t[j] = [r EXCEPT !.cstr = OwnText(r)] BY <1>6 DEF r
<1>9. t[j] = [pos |-> pos, size |-> size, line |-> line,
              endpos |-> endpos, end |-> end, cstr |-> OwnText(r)]
  BY <1>5, <1>8
<1>10. /\ t[j].pos = r.pos /\ t[j].size = r.size /\ t[j].line = r.line
       /\ t[j].endpos = r.endpos /\ t[j].end = r.end /\ t[j].cstr = OwnText(r)
  BY <1>5, <1>9
<1>11. t[j] \in Region
  <2>1. [pos |-> pos, size |-> size, line |-> line,
         endpos |-> endpos, end |-> end, cstr |-> OwnText(r)] \in Region
    BY <1>7, RegionRecord
  <2>2. QED BY <1>9, <2>1
<1>12. OwnText(t[j]) = OwnText(r) BY <1>10 DEF OwnText
<1>13. Symbol(t[j]) BY <1>3, <1>4, <1>10, <1>11, <1>12 DEF Symbol, Piece
<1>14. Item(t[j]) /\ t[j] # Empty
  <2>1. Item(t[j]) BY <1>13 DEF Item
  <2>2. t[j].pos # 0 BY <1>3, <1>10
  <2>3. QED BY <2>1, <2>2, ItemHasPos
<1>15. \A i \in DOMAIN s : /\ (t[i] # Empty <=> s[i] # Empty)
                          /\ t[i].pos = s[i].pos /\ t[i].end = s[i].end
  BY <1>2, <1>10, <1>14 DEF r
<1>16. \A i \in DOMAIN t : Item(t[i]) BY <1>14 DEF Holds
<1>17. Ordered(t) BY <1>15 DEF Holds, Ordered
<1>18. \A g : \A i \in DOMAIN s : Covered(t[i], g) <=> Covered(s[i], g) BY <1>15 DEF Covered
<1>19. Covers(t, f) BY <1>18 DEF Holds, Covers
<1>20. QED BY <1>16, <1>17, <1>19 DEF Holds

-----------------------------------------------------------------------------
(* The invariant.                                                          *)

Front == IF token THEN last_token.pos ELSE mb_token.pos

Buffer == [pos : 1..Len(input) + 1, line : Nat]

BuffersOK ==
  /\ mb \in Buffer /\ mb_token \in Buffer
  /\ mb_token.pos <= mb.pos
  /\ Scanned(mb_token.pos)
  /\ mb_token.line = LineAt(mb_token.pos)

LastOK ==
  \/ last_token = Empty /\ ~ token
  \/ /\ Piece(last_token) /\ last_token.end = mb_token.pos
     /\ token => Symbol(last_token)

StackOK ==
  /\ stack \in Seq(Region) /\ Len(stack) <= MaxStack
  /\ Holds(stack, Front)

IInv == InputOK /\ token \in BOOLEAN /\ BuffersOK /\ LastOK /\ StackOK

LEMMA FrontType ==
  ASSUME IInv
  PROVE  Front \in Nat /\ mb_token.pos \in Nat
<1>1. mb_token.pos \in 1..Len(input) + 1 BY DEF IInv, BuffersOK, Buffer
<1>2. mb_token.pos \in Nat BY <1>1 DEF IInv, InputOK
<1>3. token => last_token.pos \in Nat
  BY SymbolFacts DEF IInv, LastOK, Symbol, Piece, Region, InputOK
<1>4. QED BY <1>2, <1>3 DEF Front

LEMMA InitInv == Init => IInv
<1> SUFFICES ASSUME Init PROVE IInv OBVIOUS
<1>1. PICK n \in 1..MaxInput : input \in [1..n -> Chars] BY DEF Init
<1>2. MaxInput \in Nat /\ Line \in Nat /\ MaxStack \in Nat /\ n \in Nat
  BY BoundsAssumption
<1>3. Len(input) = n
  <2>1. input \in Seq(Chars) /\ DOMAIN input = 1..n BY <1>1, <1>2
  <2>2. QED BY <1>2, <2>1
<1>4. InputOK BY <1>2, <1>3 DEF InputOK
<1>5. mb = [pos |-> 1, line |-> 1] /\ mb_token = mb /\ last_token = Empty /\ token = FALSE
      /\ stack = <<>>
  BY DEF Init
<1>6. Newlines(1, 0) = {} BY DEF Newlines
<1>7. LineAt(1) = 1
  <2>1. Newlines(1, 1 - 1) = {} BY <1>6
  <2>2. Ends(1) = {} BY <2>1 DEF Ends
  <2>3. Cardinality(Newlines(1, 1 - 1)) = 0 BY <2>1, FS_EmptySet
  <2>4. QED BY <2>2, <2>3, LineAtEnds
<1>8. Scanned(1) BY DEF Scanned
<1>9. BuffersOK BY <1>2, <1>3, <1>5, <1>7, <1>8 DEF BuffersOK, Buffer
<1>10. LastOK BY <1>5 DEF LastOK
<1>11. Front = 1 BY <1>5 DEF Front
<1>12. stack \in Seq(Region) /\ Len(stack) = 0 /\ DOMAIN stack = {} BY <1>5
<1>13. Covers(stack, Front)
  <2>1. \A g \in 1..Len(input) : ~ (g < 1) BY <1>4 DEF InputOK
  <2>2. QED BY <1>11, <1>12, <2>1 DEF Covers
<1>14. Holds(stack, Front) BY <1>12, <1>13 DEF Holds, Ordered
<1>15. StackOK BY <1>2, <1>12, <1>14 DEF StackOK
<1>16. QED BY <1>4, <1>5, <1>9, <1>10, <1>15 DEF IInv

(* What a match of the lexer leaves.                                       *)
LEMMA ReadMoves ==
  ASSUME InputOK, NEW b \in Buffer, NEW e \in Nat, b.pos <= e, e <= Len(input)
  PROVE  Read(b, e - b.pos + 1) =
           [pos |-> e + 1, line |-> b.line + Cardinality(Newlines(b.pos, e))]
<1>1. b.pos \in Nat /\ Len(input) \in Nat BY DEF Buffer, InputOK
<1>2. b.pos + (e - b.pos + 1) - 1 = e /\ ~ (e > Len(input)) BY <1>1
<1>3. QED BY <1>2 DEF Read

LEMMA LexLeaves ==
  ASSUME IInv, Lex
  PROVE  LET p == mb_token.pos
             q == MatchEnd(p)
         IN  /\ p \in 1..Len(input) /\ q \in p..Len(input) /\ ~ token
             /\ mb' \in Buffer /\ q + 1 <= mb'.pos
             /\ mb_token' = [pos |-> q + 1, line |-> LineAt(q + 1)]
             /\ LineAt(q + 1) \in Nat /\ Scanned(q + 1)
             /\ last_token' = [pos |-> p, size |-> q + 1 - p, line |-> LineAt(p),
                               endpos |-> p, end |-> q + 1, cstr |-> NoText]
             /\ token' = (input[p] \in {"a", "+"})
             /\ input' = input /\ stack' = stack
<1> DEFINE p == mb_token.pos
           q == MatchEnd(p)
           r == ReadEnd(p)
           next == Read(mb_token, q - p + 1)
           read == IF r >= mb.pos THEN Read(mb, r - mb.pos + 1) ELSE mb
<1>1. InputOK /\ BuffersOK BY DEF IInv
<1>2. mb \in Buffer /\ mb_token \in Buffer /\ mb_token.pos <= mb.pos
      /\ Scanned(p) /\ mb_token.line = LineAt(p)
  BY <1>1 DEF BuffersOK
<1>3. /\ ~ token /\ p <= Len(input)
      /\ mb' = IF IsDirective(p) THEN [read EXCEPT !.line = Line] ELSE read
      /\ mb_token' = Source(p, next)
      /\ last_token' = RegionOf(mb_token, next)
      /\ token' = (input[p] \in {"a", "+"})
      /\ input' = input /\ stack' = stack
  BY DEF Lex
<1>4. p \in 1..Len(input) /\ p \in Nat /\ Len(input) \in Nat /\ Line \in Nat
      /\ mb.pos \in Nat /\ mb.pos <= Len(input) + 1 /\ mb.pos >= 1
      /\ mb.line \in Nat /\ mb_token.line \in Nat
  BY <1>1, <1>2, <1>3 DEF Buffer, InputOK
<1>0. mb_token.pos = p OBVIOUS
<1> HIDE DEF p, q, r, read, next
<1>5. q \in p..Len(input) /\ r \in p..Len(input) /\ q <= r BY <1>1, <1>4, Matches DEF q, r
<1>6. q \in Nat /\ r \in Nat /\ q + 1 \in Nat /\ r \in Int BY <1>4, <1>5
<1>7. next = [pos |-> q + 1, line |-> LineAt(p) + Cardinality(Newlines(p, q))]
  BY <1>1, <1>2, <1>5, <1>6, <1>4, ReadMoves DEF next, p
<1>8. read \in Buffer /\ q + 1 <= read.pos
  <2>1. CASE r >= mb.pos
    <3>1. read = [pos |-> r + 1, line |-> mb.line + Cardinality(Newlines(mb.pos, r))]
      BY <1>1, <1>2, <1>4, <1>5, <1>6, <2>1, ReadMoves DEF read
    <3>2. Cardinality(Newlines(mb.pos, r)) \in Nat BY <1>4, <1>6, NewlinesFinite
    <3>3. r + 1 \in 1..Len(input) + 1 /\ mb.line + Cardinality(Newlines(mb.pos, r)) \in Nat
      BY <1>4, <1>5, <1>6, <3>2
    <3>4. QED BY <1>5, <1>6, <3>1, <3>3 DEF Buffer
  <2>2. CASE ~ (r >= mb.pos)
    <3>1. read = mb BY <2>2 DEF read
    <3>2. q + 1 <= mb.pos BY <1>4, <1>5, <1>6, <2>2
    <3>3. QED BY <1>2, <3>1, <3>2
  <2>3. QED BY <2>1, <2>2
<1>9. mb' \in Buffer /\ q + 1 <= mb'.pos
  <2>1. CASE IsDirective(p)
    <3>1. mb' = [read EXCEPT !.line = Line] BY <1>3, <2>1
    <3>2. QED BY <1>4, <1>8, <3>1 DEF Buffer
  <2>2. CASE ~ IsDirective(p) BY <1>3, <1>8, <2>2
  <2>3. QED BY <2>1, <2>2
<1>10. Scanned(q + 1)
  <2>1. CASE IsDirective(p) BY <1>1, <1>2, <1>4, <2>1, InsideDirective DEF q
  <2>2. CASE ~ IsDirective(p) BY <1>1, <1>2, <1>4, <2>2, OutsideDirectives DEF q
  <2>3. QED BY <2>1, <2>2
<1>11. mb_token' = [pos |-> q + 1, line |-> LineAt(q + 1)]
  <2>1. CASE IsDirective(p)
    <3>1. mb_token' = [next EXCEPT !.line = Line] BY <1>3, <2>1 DEF Source
    <3>2. input[q] = "nl" BY <1>1, <1>4, <2>1, Matches DEF q
    <3>3. \A i \in p..q : InDirective(i) BY <1>1, <1>2, <1>4, <2>1, InsideDirective DEF q
    <3>4. q \in p..q /\ q \in 1..Len(input) BY <1>4, <1>5, <1>6
    <3>5. LineAt(q + 1) = Line BY <1>1, <3>2, <3>3, <3>4, LineIsSet
    <3>6. QED BY <1>7, <3>1, <3>5
  <2>2. CASE ~ IsDirective(p)
    <3>1. mb_token' = next BY <1>3, <2>2 DEF Source
    <3>2. \A i \in p..q : ~ InDirective(i) BY <1>1, <1>2, <1>4, <2>2, OutsideDirectives DEF q
    <3>3. \A i \in Newlines(p, q) : ~ InDirective(i) BY <3>2 DEF Newlines
    <3>4. LineAt(q + 1) = LineAt(p) + Cardinality(Newlines(p, q))
      BY <1>1, <1>4, <1>5, <3>3, LineMoves
    <3>5. QED BY <1>7, <3>1, <3>4
  <2>3. QED BY <2>1, <2>2
<1>12. LineAt(q + 1) \in Nat BY <1>1, <1>6, LineAtType
<1>13. last_token' = [pos |-> p, size |-> q + 1 - p, line |-> LineAt(p),
                      endpos |-> p, end |-> q + 1, cstr |-> NoText]
  <2>1. next.pos = q + 1 BY <1>7
  <2>2. last_token' = [pos |-> mb_token.pos, size |-> next.pos - mb_token.pos,
                       line |-> mb_token.line, endpos |-> mb_token.pos,
                       end |-> next.pos, cstr |-> NoText]
    BY <1>3 DEF RegionOf
  <2>3. mb_token.line = LineAt(p) BY <1>2
  <2>4. next.pos - mb_token.pos = q + 1 - p BY <1>0, <1>4, <1>6, <2>1
  <2>5. QED BY <1>0, <2>1, <2>2, <2>3, <2>4
<1>14. QED BY <1>3, <1>4, <1>5, <1>9, <1>10, <1>11, <1>12, <1>13 DEF p, q

(* The input stays, and so does what is said of it.                        *)
LEMMA InputStays ==
  ASSUME input' = input
  PROVE  /\ InputOK' <=> InputOK
         /\ Buffer' = Buffer
         /\ \A p : (Scanned(p)' <=> Scanned(p)) /\ LineAt(p)' = LineAt(p)
         /\ \A r : (Piece(r)' <=> Piece(r)) /\ (Symbol(r)' <=> Symbol(r))
         /\ \A s, f : Holds(s, f)' <=> Holds(s, f)
<1>1. \A i, j : Newlines(i, j)' = Newlines(i, j) BY DEF Newlines
<1>2. \A p : EndOfLine(p)' = EndOfLine(p) BY <1>1 DEF EndOfLine
<1>3. \A p : InDirective(p)' <=> InDirective(p) BY <1>1, <1>2 DEF InDirective
<1>4. ASSUME NEW p PROVE LineAt(p)' = LineAt(p)
  <2>1. Ends(p)' = Ends(p) BY <1>1, <1>3 DEF Ends
  <2>2. LastEnd(p)' = LastEnd(p) BY <2>1 DEF LastEnd
  <2>3. LineAt(p)' = (IF Ends(p) = {} THEN 1 + Cardinality(Newlines(1, p - 1))
                      ELSE Line + Cardinality(Newlines(LastEnd(p) + 1, p - 1)))'
    BY DEF LineAt, Ends, LastEnd
  <2>4. QED BY <1>1, <2>1, <2>2, <2>3, LineAtEnds
<1>5. \A p : Scanned(p)' <=> Scanned(p) BY <1>1 DEF Scanned
<1>6. \A r : Piece(r)' <=> Piece(r) BY <1>4 DEF Piece
<1>7. \A i : IsSign(i)' <=> IsSign(i) BY <1>3 DEF IsSign, Signs
<1>8. \A r : Symbol(r)' <=> Symbol(r) BY <1>6, <1>7 DEF Symbol
<1>9. \A r : Item(r)' <=> Item(r) BY <1>8 DEF Item
<1>10. \A s, f : Covers(s, f)' <=> Covers(s, f) BY <1>7 DEF Covers
<1>11. \A s, f : Holds(s, f)' <=> Holds(s, f) BY <1>9, <1>10 DEF Holds, Ordered
<1>12. QED BY <1>4, <1>5, <1>6, <1>8, <1>11 DEF InputOK, Buffer

-----------------------------------------------------------------------------
(* Each action preserves the invariant.                                    *)

LEMMA LexInv == IInv /\ Lex => IInv'
<1> SUFFICES ASSUME IInv, Lex PROVE IInv' OBVIOUS
<1> DEFINE p == mb_token.pos
           q == MatchEnd(p)
<1>1. /\ p \in 1..Len(input) /\ q \in p..Len(input) /\ ~ token
      /\ mb' \in Buffer /\ q + 1 <= mb'.pos
      /\ mb_token' = [pos |-> q + 1, line |-> LineAt(q + 1)]
      /\ LineAt(q + 1) \in Nat /\ Scanned(q + 1)
      /\ last_token' = [pos |-> p, size |-> q + 1 - p, line |-> LineAt(p),
                        endpos |-> p, end |-> q + 1, cstr |-> NoText]
      /\ token' = (input[p] \in {"a", "+"})
      /\ input' = input /\ stack' = stack
  BY LexLeaves
<1>2. InputOK /\ BuffersOK /\ StackOK BY DEF IInv
<1>3. p \in Nat /\ q \in Nat /\ Len(input) \in Nat /\ MaxInput \in Nat /\ p <= q
      /\ 1 <= p /\ q <= Len(input) /\ Len(input) <= MaxInput
  BY <1>1, <1>2 DEF InputOK
<1>4. Scanned(p) BY <1>2 DEF BuffersOK
<1>5. Front = p BY <1>1 DEF Front
<1> HIDE DEF p, q
<1>6. mb_token'.pos = q + 1 /\ mb_token'.line = LineAt(q + 1) BY <1>1
<1>7. /\ last_token'.pos = p /\ last_token'.size = q + 1 - p /\ last_token'.line = LineAt(p)
      /\ last_token'.endpos = p /\ last_token'.end = q + 1 /\ last_token'.cstr = NoText
  BY <1>1
<1>8. BuffersOK'
  <2>1. mb_token' \in Buffer BY <1>1, <1>3 DEF Buffer
  <2>2. mb' \in Buffer' /\ mb_token' \in Buffer' BY <1>1, <2>1, InputStays
  <2>3. Scanned(mb_token.pos)' /\ mb_token'.line = LineAt(mb_token.pos)'
    <3>1. PICK e : e = q + 1 OBVIOUS
    <3>2. mb_token'.pos = e /\ mb_token'.line = LineAt(e) /\ Scanned(e) BY <1>1, <1>6, <3>1
    <3>3. Scanned(e)' /\ LineAt(e)' = LineAt(e) BY <1>1, <3>2, InputStays
    <3>4. Scanned(mb_token.pos)' BY <3>2, <3>3 DEF Scanned, Newlines
    <3>5. LineAt(mb_token.pos)' = LineAt(e)' BY <3>2 DEF LineAt, Newlines
    <3>6. QED BY <3>2, <3>3, <3>4, <3>5
  <2>4. QED BY <1>1, <1>6, <2>2, <2>3 DEF BuffersOK
<1>9. Piece(last_token)'
  <2> DEFINE r == last_token'
  <2>1. r \in Region
    <3>1. p \in 0..MaxInput + 1 /\ q + 1 - p \in 0..MaxInput /\ q + 1 \in 0..MaxInput + 1
      BY <1>3
    <3>2. LineAt(p) \in Nat BY <1>2, <1>3, LineAtType
    <3>3. NoText \in Interval BY DEF NoText, Interval
    <3>4. QED BY <1>1, <3>1, <3>2, <3>3, RegionRecord
  <2>2. Piece(r) BY <1>3, <1>7, <2>1 DEF Piece
  <2>3. QED BY <1>1, <2>2, InputStays
<1>10. ASSUME token' PROVE IsSign(p) /\ IsSign(q)
  <2>1. input[p] \in {"a", "+"} BY <1>1, <1>10
  <2>2. ~ IsDirective(p) BY <2>1 DEF IsDirective
  <2>3. \A i \in p..q : ~ InDirective(i)
    BY <1>1, <1>2, <1>4, <2>2, OutsideDirectives DEF q
  <2>4. \A i \in p..q : input[i] = input[p] BY <1>1, <1>2, <2>1, Matches DEF q
  <2>5. p \in p..q /\ q \in p..q /\ p \in 1..Len(input) /\ q \in 1..Len(input)
    BY <1>1, <1>3
  <2>6. QED BY <2>1, <2>3, <2>4, <2>5 DEF IsSign, Signs
<1>11. LastOK'
  <2>1. token' => Symbol(last_token)'
    <3>1. ASSUME token' PROVE Symbol(last_token')
      <4>1. Piece(last_token') BY <1>1, <1>9, InputStays
      <4>2. last_token'.end - 1 = q BY <1>3, <1>7
      <4>3. QED BY <1>7, <1>10, <3>1, <4>1, <4>2 DEF Symbol
    <3>2. QED BY <1>1, <3>1, InputStays
  <2>2. last_token'.end = mb_token'.pos BY <1>6, <1>7
  <2>3. QED BY <1>9, <2>1, <2>2 DEF LastOK
<1>12. Holds(stack, p) BY <1>2, <1>5 DEF StackOK
<1>13. Front' = IF token' THEN p ELSE q + 1 BY <1>6, <1>7 DEF Front
<1>14. Holds(stack, Front')
  <2>1. CASE token' BY <1>12, <1>13, <2>1
  <2>2. CASE ~ token'
    <3>1. input[p] \notin {"a", "+"} BY <1>1, <2>2
    <3>2. \A i \in p..q : ~ IsSign(i)
      <4>1. CASE IsDirective(p)
        <5>1. \A i \in p..q : InDirective(i)
          BY <1>1, <1>2, <1>4, <4>1, InsideDirective DEF q
        <5>2. QED BY <5>1 DEF IsSign, Signs
      <4>2. CASE ~ IsDirective(p)
        <5>1. q = p BY <1>1, <1>2, <3>1, <4>2, Matches DEF q
        <5>2. \A i \in p..q : i = p BY <1>3, <5>1
        <5>3. QED BY <3>1, <5>2 DEF IsSign, Signs
      <4>3. QED BY <4>1, <4>2
    <3>3. \A g \in 1..Len(input) : IsSign(g) => (g < p <=> g < q + 1)
      <4>1. ASSUME NEW g \in 1..Len(input), IsSign(g) PROVE g < p <=> g < q + 1
        <5>1. g \notin p..q BY <3>2, <4>1
        <5>2. QED BY <1>3, <5>1
      <4>2. QED BY <4>1
    <3>4. Covers(stack, q + 1) BY <1>12, <3>3 DEF Holds, Covers
    <3>5. QED BY <1>12, <1>13, <2>2, <3>4 DEF Holds
  <2>3. QED BY <2>1, <2>2
<1>15. StackOK'
  <2>1. Holds(stack', Front') BY <1>1, <1>14
  <2>2. Holds(stack, Front)' BY <1>1, <2>1, InputStays
  <2>3. QED BY <1>1, <1>2, <2>2 DEF StackOK, Region, Interval
<1>16. token' \in BOOLEAN BY <1>1
<1>17. InputOK' BY <1>1, <1>2, InputStays
<1>18. QED BY <1>8, <1>11, <1>15, <1>16, <1>17 DEF IInv

(* What the actions of the parser leave alone.                             *)
LEMMA ParserKeeps ==
  ASSUME IInv, input' = input, mb' = mb, mb_token' = mb_token, last_token' = last_token,
         token' \in BOOLEAN, token' => token,
         stack' \in Seq(Region), Len(stack') <= MaxStack, Holds(stack', Front')
  PROVE  IInv'
<1>1. BuffersOK'
  <2>1. mb' \in Buffer' /\ mb_token' \in Buffer' /\ mb_token'.pos <= mb'.pos
    BY InputStays DEF IInv, BuffersOK
  <2>2. Scanned(mb_token.pos)' BY DEF IInv, BuffersOK, Scanned, Newlines
  <2>3. PICK e : e = mb_token.pos OBVIOUS
  <2>4. LineAt(e)' = LineAt(e) BY InputStays
  <2>5. LineAt(mb_token.pos)' = LineAt(e)' BY <2>3 DEF LineAt, Newlines
  <2>6. mb_token'.line = LineAt(mb_token.pos)' BY <2>3, <2>4, <2>5 DEF IInv, BuffersOK
  <2>7. QED BY <2>1, <2>2, <2>6 DEF BuffersOK
<1>2. LastOK'
  <2>1. Piece(last_token)' <=> Piece(last_token')
    <3>1. PICK r : r = last_token OBVIOUS
    <3>2. Piece(r)' <=> Piece(r) BY InputStays
    <3>3. Piece(last_token)' <=> Piece(r)' BY <3>1 DEF Piece
    <3>4. QED BY <3>1, <3>2, <3>3
  <2>2. Symbol(last_token)' <=> Symbol(last_token')
    <3>1. PICK r : r = last_token OBVIOUS
    <3>2. Symbol(r)' <=> Symbol(r) BY InputStays
    <3>3. Symbol(last_token)' <=> Symbol(r)' BY <3>1 DEF Symbol, Piece, IsSign
    <3>4. QED BY <3>1, <3>2, <3>3
  <2>3. QED BY <2>1, <2>2 DEF IInv, LastOK
<1>3. StackOK'
  <2>1. PICK s, f : s = stack' /\ f = Front' OBVIOUS
  <2>2. Holds(s, f)' BY <2>1, InputStays
  <2>3. Holds(stack, Front)' BY <2>1, <2>2
  <2>4. QED BY <2>3 DEF StackOK, Region, Interval
<1>4. InputOK' BY InputStays DEF IInv
<1>5. QED BY <1>1, <1>2, <1>3, <1>4 DEF IInv

LEMMA ShiftInv == IInv /\ Shift => IInv'
<1> SUFFICES ASSUME IInv, Shift PROVE IInv' OBVIOUS
<1>1. /\ token /\ Len(stack) < MaxStack /\ stack' = Append(stack, last_token)
      /\ token' = FALSE
      /\ input' = input /\ mb' = mb /\ mb_token' = mb_token /\ last_token' = last_token
  BY DEF Shift
<1>2. InputOK /\ stack \in Seq(Region) /\ Holds(stack, Front) BY DEF IInv, StackOK
<1>3. Symbol(last_token) /\ last_token.end = mb_token.pos BY <1>1 DEF IInv, LastOK
<1>4. last_token \in Region BY <1>3 DEF Symbol, Piece
<1> DEFINE n == Len(stack)
<1>5. n \in Nat /\ DOMAIN stack = 1..n BY <1>2
<1>6. /\ stack' \in Seq(Region) /\ Len(stack') = n + 1 /\ DOMAIN stack' = 1..n + 1
      /\ \A i \in 1..n : stack'[i] = stack[i]
      /\ stack'[n + 1] = last_token
  BY <1>1, <1>2, <1>4
<1> HIDE DEF n
<1>7. Front = last_token.pos /\ Front' = last_token.end BY <1>1, <1>3 DEF Front
<1>8. Holds(stack', Front')
  <2>1. Front \in Nat BY FrontType
  <2>2. QED BY <1>2, <1>3, <1>5, <1>6, <1>7, <2>1, PushHolds
<1>9. Len(stack') <= MaxStack
  <2>1. MaxStack \in Nat BY BoundsAssumption
  <2>2. QED BY <1>1, <1>5, <1>6, <2>1 DEF n
<1>10. QED BY <1>1, <1>6, <1>8, <1>9, ParserKeeps

LEMMA ReduceInv == IInv /\ Reduce => IInv'
<1> SUFFICES ASSUME IInv, Reduce PROVE IInv' OBVIOUS
<1> DEFINE N == Len(stack)
<1>1. PICK n \in 0..MaxArity, kind \in {"phrase", "other"} :
        /\ N - n >= 0 /\ N - n < MaxStack
        /\ stack' = Append(SubSeq(stack, 1, N - n),
                           Merge(SubSeq(stack, N - n + 1, N)))
        /\ input' = input /\ mb' = mb /\ mb_token' = mb_token
        /\ last_token' = last_token /\ token' = token
  BY DEF Reduce
<1>2. InputOK /\ stack \in Seq(Region) /\ Holds(stack, Front) /\ token \in BOOLEAN
  BY DEF IInv, StackOK
<1>3. N \in Nat /\ DOMAIN stack = 1..N /\ n \in Nat /\ MaxStack \in Nat
  BY <1>2, BoundsAssumption
<1> DEFINE k   == N - n
           rhs == SubSeq(stack, k + 1, N)
           top == SubSeq(stack, 1, k)
           m   == Merge(rhs)
<1>4. k \in Nat /\ k <= N /\ N = k + n /\ k < MaxStack BY <1>1, <1>3
<1>5. /\ DOMAIN rhs = 1..n /\ Len(rhs) = n
      /\ \A i \in 1..n : rhs[i] = stack[k + i]
  <2>1. k + 1 \in Int /\ N \in Int BY <1>3, <1>4
  <2>2. N - (k + 1) + 1 = n /\ \A i \in 1..n : (k + 1) + i - 1 = k + i BY <1>3, <1>4
  <2>3. \A i \in k + 1 .. N : i \in DOMAIN stack BY <1>3, <1>4
  <2> HIDE DEF N, k
  <2>4. \A i \in k + 1 .. N : stack[i] \in Region BY <1>2, <2>3
  <2>5. /\ rhs \in Seq(Region)
        /\ Len(rhs) = IF k + 1 <= N THEN N - (k + 1) + 1 ELSE 0
        /\ \A i \in 1..N - (k + 1) + 1 : rhs[i] = stack[(k + 1) + i - 1]
    BY <2>1, <2>4, SubSeqProperties
  <2> HIDE DEF rhs
  <2>6. Len(rhs) = n BY <1>3, <1>4, <2>2, <2>5
  <2>7. DOMAIN rhs = 1..n BY <2>5, <2>6
  <2>8. \A i \in 1..n : rhs[i] = stack[k + i] BY <2>2, <2>5
  <2>9. QED BY <2>6, <2>7, <2>8
<1>6. /\ top \in Seq(Region) /\ Len(top) = k /\ \A i \in 1..k : top[i] = stack[i]
  <2>1. k \in 0..Len(stack) BY <1>3, <1>4
  <2> HIDE DEF k
  <2>2. QED BY <1>2, <1>4, <2>1, SubSeqProperties
<1>7. Unites(rhs, n, m)
  <2>1. \A i \in 1..n : k + i \in DOMAIN stack BY <1>3, <1>4
  <2>2. \A i \in 1..n : Item(rhs[i]) BY <1>2, <1>5, <2>1 DEF Holds
  <2>3. \A i, j \in 1..n : i < j => k + i < k + j BY <1>4
  <2>4. Ordered(rhs) BY <1>2, <1>5, <2>1, <2>3 DEF Holds, Ordered
  <2> HIDE DEF rhs
  <2>5. QED BY <1>2, <1>3, <1>5, <2>2, <2>4, MergeUnites
<1>8. m \in Region BY <1>2, <1>7, EmptyIsRegion DEF Unites, Symbol, Piece
<1>9. stack' = Append(top, m) BY <1>1
<1> HIDE DEF rhs, top, m, k, N
<1>10. /\ stack' \in Seq(Region) /\ Len(stack') = k + 1 /\ DOMAIN stack' = 1..k + 1
       /\ \A i \in 1..k : stack'[i] = stack[i]
       /\ stack'[k + 1] = m
  BY <1>4, <1>6, <1>8, <1>9
<1>11. Front' = Front BY <1>1 DEF Front
<1>12. Holds(stack', Front')
  <2>1. Front \in Nat BY FrontType
  <2>2. DOMAIN stack = 1..k + n BY <1>3, <1>4
  <2>3. \A i \in 1..n : rhs[i] = stack[k + i] BY <1>5
  <2>4. /\ DOMAIN stack' = 1..k + 1 /\ \A i \in 1..k : stack'[i] = stack[i]
        /\ stack'[k + 1] = m
    BY <1>10
  <2>5. InputOK /\ Holds(stack, Front) /\ k \in Nat /\ n \in Nat BY <1>2, <1>3, <1>4
  <2>6. Holds(stack', Front) BY <1>7, <2>1, <2>2, <2>3, <2>4, <2>5, ReplaceHolds, ZenonT(30)
  <2>7. QED BY <1>11, <2>6
<1>13. Len(stack') <= MaxStack BY <1>3, <1>4, <1>10
<1>14. QED BY <1>1, <1>2, <1>10, <1>12, <1>13, ParserKeeps

LEMMA TakeTextInv == IInv /\ TakeText => IInv'
<1> SUFFICES ASSUME IInv, TakeText PROVE IInv' OBVIOUS
<1>1. PICK j \in DOMAIN stack :
        /\ stack[j].pos # 0
        /\ stack' = [stack EXCEPT ![j].cstr = Text(stack[j])]
        /\ input' = input /\ mb' = mb /\ mb_token' = mb_token
        /\ last_token' = last_token /\ token' = token
  BY DEF TakeText
<1>2. InputOK /\ stack \in Seq(Region) /\ Len(stack) <= MaxStack
      /\ Holds(stack, Front) /\ token \in BOOLEAN
  BY DEF IInv, StackOK
<1> DEFINE r == [stack[j] EXCEPT !.cstr = Text(stack[j])]
<1>3. stack' = [stack EXCEPT ![j] = r] BY <1>1
<1> HIDE DEF r
<1>4. DOMAIN stack' = DOMAIN stack /\ stack'[j] = r
      /\ \A i \in DOMAIN stack : i # j => stack'[i] = stack[i]
  BY <1>3
<1>5. Front' = Front BY <1>1 DEF Front
<1>6. Holds(stack', Front)
  BY <1>1, <1>2, <1>4, TextHolds DEF r
<1>7. \A i \in DOMAIN stack' : stack'[i] \in Region
  BY <1>2, <1>6, ItemHasPos DEF Holds
<1>8. stack' \in Seq(Region) /\ Len(stack') = Len(stack)
  <2>1. r \in Region BY <1>4, <1>7
  <2>2. QED BY <1>2, <1>3, <2>1
<1>9. QED BY <1>1, <1>2, <1>5, <1>6, <1>8, ParserKeeps

LEMMA NameTagInv == IInv /\ NameTag => IInv'
<1> SUFFICES ASSUME IInv, NameTag PROVE IInv' OBVIOUS
<1> DEFINE k == Len(stack)
           t == [stack EXCEPT ![k].cstr =
                   IF values[k].expr # NoText THEN @ ELSE Text(stack[k])]
<1>1. /\ k \in 2..MaxStack - 1 /\ stack' = Append(t, Empty)
      /\ input' = input /\ mb' = mb /\ mb_token' = mb_token
      /\ last_token' = last_token /\ token' = token
  BY DEF NameTag
<1>2. InputOK /\ stack \in Seq(Region) /\ Holds(stack, Front) /\ token \in BOOLEAN
  BY DEF IInv, StackOK
<1>3. k \in Nat /\ DOMAIN stack = 1..k /\ MaxStack \in Nat /\ k \in DOMAIN stack
      /\ k + 1 <= MaxStack
  BY <1>1, <1>2, BoundsAssumption
<1> DEFINE r == [stack[k] EXCEPT !.cstr =
                   IF values[k].expr # NoText THEN stack[k].cstr ELSE Text(stack[k])]
<1>4. t = [stack EXCEPT ![k] = r] OBVIOUS
<1>5. Item(stack[k]) /\ stack[k] \in Region
  BY <1>2, <1>3, ItemHasPos DEF Holds
<1>6. r = stack[k] \/ (stack[k].pos # 0 /\ r = [stack[k] EXCEPT !.cstr = Text(stack[k])])
  <2>1. CASE values[k].expr # NoText
    <3>1. r = [stack[k] EXCEPT !.cstr = stack[k].cstr] BY <2>1
    <3>2. QED BY <1>5, <3>1 DEF Region
  <2>2. CASE values[k].expr = NoText /\ stack[k].pos # 0 BY <2>2
  <2>3. CASE values[k].expr = NoText /\ stack[k].pos = 0
    <3>1. stack[k] = Empty BY <1>2, <1>5, <2>3, ItemHasPos
    <3>2. Text(stack[k]) = stack[k].cstr BY <3>1 DEF Text, Empty, NoText
    <3>3. r = [stack[k] EXCEPT !.cstr = stack[k].cstr] BY <2>3, <3>2
    <3>4. QED BY <1>5, <3>3 DEF Region
  <2>4. QED BY <2>1, <2>2, <2>3
<1> HIDE DEF r, t, k
<1>7. DOMAIN t = DOMAIN stack /\ t[k] = r
      /\ \A i \in DOMAIN stack : i # k => t[i] = stack[i]
  BY <1>3, <1>4
<1>8. Holds(t, Front)
  <2>1. CASE r = stack[k]
    <3>1. t = stack BY <1>2, <1>3, <1>4, <2>1
    <3>2. QED BY <1>2, <3>1
  <2>2. CASE stack[k].pos # 0 /\ r = [stack[k] EXCEPT !.cstr = Text(stack[k])]
    BY <1>2, <1>3, <1>7, <2>2, TextHolds
  <2>3. QED BY <1>6, <2>1, <2>2
<1>9. t \in Seq(Region) /\ Len(t) = k
  <2>1. r \in Region BY <1>2, <1>3, <1>7, <1>8, ItemHasPos DEF Holds
  <2>2. QED BY <1>2, <1>3, <1>4, <2>1 DEF k
<1>10. /\ stack' \in Seq(Region) /\ Len(stack') = k + 1 /\ DOMAIN stack' = 1..k + 1
       /\ \A i \in 1..k : stack'[i] = t[i]
       /\ stack'[k + 1] = Empty
  <2>1. Empty \in Region BY <1>2, EmptyIsRegion
  <2>2. PICK e \in Region : e = Empty BY <2>1
  <2>3. stack' = Append(t, e) BY <1>1, <2>2
  <2>4. /\ stack' \in Seq(Region) /\ Len(stack') = k + 1 /\ DOMAIN stack' = 1..k + 1
        /\ \A i \in 1..k : stack'[i] = t[i]
        /\ stack'[k + 1] = e
    BY <1>3, <1>9, <2>3
  <2>5. QED BY <2>2, <2>4
<1>11. Front' = Front BY <1>1 DEF Front
<1>12. Holds(stack', Front)
  <2>1. Front \in Nat BY FrontType
  <2>2. DOMAIN t = 1..k + 0 BY <1>3, <1>7
  <2>3. \A i \in 1..0 : (<<>>)[i] = t[k + i] OBVIOUS
  <2>4. Unites(<<>>, 0, Empty) BY DEF Unites
  <2>5. 0 \in Nat OBVIOUS
  <2>6. QED
    BY <1>2, <1>3, <1>8, <1>10, <2>1, <2>2, <2>3, <2>4, <2>5, ReplaceHolds, ZenonT(30)
<1>13. Len(stack') <= MaxStack BY <1>3, <1>10
<1>14. QED BY <1>1, <1>2, <1>10, <1>11, <1>12, <1>13, ParserKeeps

LEMMA StutterInv == IInv /\ UNCHANGED vars => IInv'
<1> SUFFICES ASSUME IInv, UNCHANGED vars PROVE IInv' OBVIOUS
<1>1. /\ input' = input /\ mb' = mb /\ mb_token' = mb_token
      /\ last_token' = last_token /\ token' = token /\ stack' = stack
  BY DEF vars
<1>2. Front' = Front BY <1>1 DEF Front
<1>3. QED BY <1>1, <1>2, ParserKeeps DEF IInv, StackOK

-----------------------------------------------------------------------------
(* The symbols' own copies of their texts.  Only the action after a tag's  *)
(* name leaves one behind on the stack, and the tag is still above it:     *)
(* the production that takes the name takes the tag too, and does not      *)
(* begin with either, so the default action copies no text of a phrase.    *)

CopiesOwn(s, v) ==
  \A i \in 1..Len(s) :
    v[i].kind = "phrase" /\ v[i].expr # NoText =>
      i + 1 \in 1..Len(s) /\ v[i + 1].kind = "tag" /\ v[i].expr = OwnText(s[i])

VInv ==
  /\ 1 <= MaxInput
  /\ values \in Seq(Value) /\ Len(values) = Len(stack)
  /\ CopiesOwn(stack, values)

LEMMA OwnTextType ==
  ASSUME InputOK, NEW r, Item(r)
  PROVE  OwnText(r) \in Interval
<1>1. CASE r = Empty BY <1>1 DEF OwnText, Empty, Interval
<1>2. CASE Symbol(r)
  <2>1. /\ r.pos \in Nat /\ r.size \in Nat /\ r.end \in Nat
        /\ 1 <= r.pos /\ r.end <= Len(input) + 1
    <3>1. r # Empty BY <1>2, EmptyIsRegion DEF Symbol, Piece
    <3>2. QED BY <3>1, SymbolFacts
  <2>2. 1 <= r.size /\ r.end = r.pos + r.size BY <1>2 DEF Symbol, Piece
  <2>3. r.pos \in 1..MaxInput /\ r.size \in 1..MaxInput BY <2>1, <2>2 DEF InputOK
  <2>4. QED BY <2>3 DEF OwnText, Interval
<1>3. QED BY <1>1, <1>2 DEF Item

(* Asked for its text, a phrase answers with its own.                      *)
LEMMA TextIsOwnText ==
  ASSUME InputOK, NEW r, Item(r)
  PROVE  r.cstr \in {NoText, OwnText(r)} /\ Text(r) = OwnText(r)
<1>1. r.cstr \in {NoText, OwnText(r)}
  BY EmptyIsRegion DEF Item, Symbol, Piece, OwnText, NoText
<1>2. QED BY <1>1 DEF Text, OwnText

(* A symbol is put in the place of those above the first k, of which none  *)
(* is a phrase with a copy of its text, nor the k'th one.                  *)
LEMMA ReplaceCopies ==
  ASSUME VInv, NEW k \in 0..Len(stack), NEW x \in Value, NEW r,
         ~ (k \in 1..Len(stack) /\ values[k].kind = "phrase" /\ values[k].expr # NoText),
         x.kind = "phrase" => x.expr = NoText,
         stack' \in Seq(Region), Len(stack') = k + 1,
         \A i \in 1..k : stack'[i] = stack[i],
         values' = Append(SubSeq(values, 1, k), x)
  PROVE  VInv'
<1>1. values \in Seq(Value) /\ Len(values) = Len(stack) /\ Len(stack) \in Nat /\ k \in Nat
  BY DEF VInv
<1> DEFINE low == SubSeq(values, 1, k)
<1>2. low \in Seq(Value) /\ Len(low) = k /\ \A i \in 1..k : low[i] = values[i]
  <2>1. k \in 0..Len(values) BY <1>1
  <2>2. QED BY <1>1, <2>1, SubSeqProperties
<1> HIDE DEF low
<1>3. values' = Append(low, x) BY DEF low
<1>4. /\ values' \in Seq(Value) /\ Len(values') = k + 1
      /\ \A i \in 1..k : values'[i] = values[i]
      /\ values'[k + 1] = x
  BY <1>1, <1>2, <1>3
<1>5. ASSUME NEW i \in 1..k + 1, values'[i].kind = "phrase", values'[i].expr # NoText
      PROVE  i + 1 \in 1..k + 1 /\ values'[i + 1].kind = "tag"
             /\ values'[i].expr = OwnText(stack'[i])
  <2>1. i # k + 1 BY <1>4, <1>5
  <2>2. i \in 1..k /\ i \in 1..Len(stack) BY <1>1, <2>1
  <2>3. values[i].kind = "phrase" /\ values[i].expr # NoText BY <1>4, <1>5, <2>2
  <2>4. i + 1 \in 1..Len(stack) /\ values[i + 1].kind = "tag"
        /\ values[i].expr = OwnText(stack[i])
    BY <2>2, <2>3 DEF VInv, CopiesOwn
  <2>5. values'[i + 1].kind = "tag"
    <3>1. i # k BY <2>2, <2>3
    <3>2. i + 1 \in 1..k BY <1>1, <2>2, <3>1
    <3>3. QED BY <1>4, <2>4, <3>2
  <2>6. i + 1 \in 1..k + 1 BY <1>1, <2>2
  <2>7. QED BY <1>4, <2>2, <2>4, <2>5, <2>6
<1>6. CopiesOwn(stack, values)' BY <1>5 DEF CopiesOwn
<1>7. QED BY <1>4, <1>6 DEF VInv

(* What the parser leaves alone of them, but for the texts in regions.     *)
LEMMA SameCopies ==
  ASSUME VInv, values' = values, Len(stack') = Len(stack),
         \A i \in 1..Len(stack) : OwnText(stack'[i]) = OwnText(stack[i])
  PROVE  VInv'
BY DEF VInv, CopiesOwn

LEMMA ForeignType ==
  ASSUME VInv, InputOK
  PROVE  Foreign \in Interval
BY DEF VInv, InputOK, Foreign, Interval

LEMMA ShiftCopies == IInv /\ VInv /\ Shift => VInv'
<1> SUFFICES ASSUME IInv, VInv, Shift PROVE VInv' OBVIOUS
<1> DEFINE k == Len(stack)
           x == [kind |-> "phrase", expr |-> NoText]
<1>1. stack' = Append(stack, last_token) /\ values' = Append(values, x) /\ token
  BY DEF Shift
<1>2. stack \in Seq(Region) /\ values \in Seq(Value) /\ Len(values) = k /\ k \in Nat
  BY DEF IInv, StackOK, VInv
<1>3. last_token \in Region BY <1>1 DEF IInv, LastOK, Symbol, Piece
<1>4. x \in Value BY DEF Value, Kinds, Interval, NoText
<1>5. stack' \in Seq(Region) /\ Len(stack') = k + 1 /\ \A i \in 1..k : stack'[i] = stack[i]
  BY <1>1, <1>2, <1>3
<1>6. values' = Append(SubSeq(values, 1, k), x)
  <2>1. SubSeq(values, 1, k) = values BY <1>2
  <2>2. QED BY <1>1, <2>1
<1>7. ~ (k \in 1..Len(stack) /\ values[k].kind = "phrase" /\ values[k].expr # NoText)
  BY <1>2 DEF VInv, CopiesOwn
<1>8. k \in 0..Len(stack) BY <1>2
<1>9. x.kind = "phrase" => x.expr = NoText OBVIOUS
<1> HIDE DEF k, x
<1>10. QED BY <1>4, <1>5, <1>6, <1>7, <1>8, <1>9, ReplaceCopies

LEMMA ReduceCopies == IInv /\ VInv /\ Reduce => VInv'
<1> SUFFICES ASSUME IInv, VInv, Reduce PROVE VInv' OBVIOUS
<1> DEFINE N == Len(stack)
<1>1. PICK n \in 0..MaxArity, kind \in {"phrase", "other"} :
        LET k == N - n
            expr == IF kind = "phrase" THEN Copied(k + 1) ELSE Foreign
        IN  /\ k >= 0
            /\ kind = "phrase" => n > 0 /\ values[k + 1].kind = "phrase"
            /\ \A m \in DOMAIN values : values[m].kind = "tag" => k + 1 \notin {m - 1, m}
            /\ stack' = Append(SubSeq(stack, 1, k), Merge(SubSeq(stack, k + 1, N)))
            /\ values' = Append(SubSeq(values, 1, k), [kind |-> kind, expr |-> expr])
  BY DEF Reduce
<1> DEFINE k == N - n
           x == [kind |-> kind, expr |-> IF kind = "phrase" THEN Copied(k + 1) ELSE Foreign]
<1>2. stack \in Seq(Region) /\ values \in Seq(Value) /\ Len(values) = N /\ N \in Nat
      /\ DOMAIN values = 1..N
  BY DEF IInv, StackOK, VInv
<1>3. MaxArity \in Nat BY BoundsAssumption
<1>4. k \in 0..N /\ k \in Nat /\ n \in Nat /\ N = k + n BY <1>1, <1>2, <1>3
<1>5. \A m \in 1..N : values[m].kind = "tag" => k + 1 # m - 1 /\ k + 1 # m BY <1>1, <1>2
<1>6. kind = "phrase" => k + 1 \in 1..N /\ values[k + 1].kind = "phrase" BY <1>1, <1>2, <1>4
<1>7. stack' \in Seq(Region) /\ Len(stack') = k + 1 /\ \A i \in 1..k : stack'[i] = stack[i]
  <2>1. IInv' BY ReduceInv
  <2>2. stack' \in Seq(Region)
    <3>1. Region' = Region
      <4>1. input' = input BY DEF Reduce
      <4>2. QED BY DEF Region, Interval
    <3>2. QED BY <2>1, <3>1 DEF IInv, StackOK
  <2> DEFINE top == SubSeq(stack, 1, k)
             m == Merge(SubSeq(stack, k + 1, N))
  <2>3. top \in Seq(Region) /\ Len(top) = k /\ \A i \in 1..k : top[i] = stack[i]
    BY <1>2, <1>4, SubSeqProperties
  <2>4. stack' = Append(top, m) BY <1>1
  <2> HIDE DEF top, m, k, N
  <2>5. Len(stack') = k + 1 /\ \A i \in 1..k : stack'[i] = top[i] BY <1>4, <2>3, <2>4
  <2>6. QED BY <2>2, <2>3, <2>5
<1>8. values' = Append(SubSeq(values, 1, k), x) BY <1>1
<1>9. x.kind = "phrase" => x.expr = NoText
  <2>1. ASSUME kind = "phrase" PROVE Copied(k + 1) = NoText
    <3>1. k + 1 \in 1..N /\ values[k + 1].kind = "phrase" BY <1>6, <2>1
    <3>2. ASSUME values[k + 1].expr # NoText PROVE FALSE
      <4>1. (k + 1) + 1 \in 1..N /\ values[(k + 1) + 1].kind = "tag"
        BY <3>1, <3>2 DEF VInv, CopiesOwn
      <4>2. k + 1 = ((k + 1) + 1) - 1 BY <1>4
      <4>3. QED BY <1>5, <4>1, <4>2
    <3>3. QED BY <3>2 DEF Copied
  <2>2. QED BY <2>1
<1>10. x \in Value
  <2>1. Foreign \in Interval BY ForeignType DEF IInv
  <2>2. kind = "phrase" => Copied(k + 1) \in Interval BY <1>9 DEF Interval, NoText
  <2>3. QED BY <2>1, <2>2 DEF Value, Kinds
<1>11. k \in 1..N /\ values[k].kind = "phrase" /\ values[k].expr # NoText => FALSE
  <2>1. ASSUME k \in 1..N, values[k].kind = "phrase", values[k].expr # NoText PROVE FALSE
    <3>1. k + 1 \in 1..N /\ values[k + 1].kind = "tag" BY <2>1 DEF VInv, CopiesOwn
    <3>2. QED BY <1>5, <3>1
  <2>2. QED BY <2>1
<1> HIDE DEF x, k
<1>12. k \in 0..Len(stack) BY <1>4
<1>13. ~ (k \in 1..Len(stack) /\ values[k].kind = "phrase" /\ values[k].expr # NoText)
  BY <1>11
<1>14. QED BY <1>7, <1>8, <1>9, <1>10, <1>12, <1>13, ReplaceCopies

LEMMA NameTagCopies == IInv /\ VInv /\ NameTag => VInv'
<1> SUFFICES ASSUME IInv, VInv, NameTag PROVE VInv' OBVIOUS
<1> DEFINE k == Len(stack)
           t == [stack EXCEPT ![k].cstr =
                   IF values[k].expr # NoText THEN @ ELSE Text(stack[k])]
           v == [values EXCEPT ![k].expr = ToExpr(k)]
           x == [kind |-> "tag", expr |-> Foreign]
<1>1. k \in 2..MaxStack - 1 /\ values[k].kind = "phrase"
      /\ stack' = Append(t, Empty) /\ values' = Append(v, x) /\ input' = input
  BY DEF NameTag
<1>2. stack \in Seq(Region) /\ values \in Seq(Value) /\ Len(values) = k /\ k \in Nat
      /\ InputOK /\ Holds(stack, Front)
  BY DEF IInv, StackOK, VInv
<1>3. k \in 1..k /\ DOMAIN stack = 1..k /\ DOMAIN values = 1..k BY <1>1, <1>2
<1>4. Item(stack[k]) /\ stack[k] \in Region BY <1>2, <1>3, ItemHasPos DEF Holds
<1>5. values[k].expr = NoText BY <1>1, <1>2, <1>3 DEF VInv, CopiesOwn
<1>6. ToExpr(k) = OwnText(stack[k]) BY <1>2, <1>4, <1>5, TextIsOwnText DEF ToExpr
<1>7. OwnText(stack[k]) \in Interval BY <1>2, <1>4, OwnTextType
<1>8. values[k] \in Value BY <1>2, <1>3
<1> DEFINE r == [stack[k] EXCEPT !.cstr = Text(stack[k])]
           y == [values[k] EXCEPT !.expr = OwnText(stack[k])]
<1>9. t = [stack EXCEPT ![k] = r] BY <1>5
<1>10. v = [values EXCEPT ![k] = y] BY <1>6
<1>11. OwnText(r) = OwnText(stack[k]) BY <1>4 DEF OwnText, Region
<1>12. y.kind = "phrase" /\ y.expr = OwnText(stack[k]) /\ y \in Value
  BY <1>1, <1>7, <1>8 DEF Value
<1>13. x \in Value /\ x.kind = "tag"
  <2>1. Foreign \in Interval BY <1>2, ForeignType
  <2>2. QED BY <2>1 DEF Value, Kinds
<1> HIDE DEF t, v, x, y, r
<1>14. /\ DOMAIN t = 1..k /\ t[k] = r /\ \A i \in 1..k : i # k => t[i] = stack[i]
  BY <1>3, <1>9
<1>15. v \in Seq(Value) /\ Len(v) = k
       /\ v[k] = y /\ \A i \in 1..k : i # k => v[i] = values[i]
  <2>1. \A i \in DOMAIN values : values[i] \in Value BY <1>2
  <2>2. DOMAIN v = 1..k /\ v[k] = y /\ \A i \in 1..k : i # k => v[i] = values[i]
    BY <1>3, <1>10
  <2>3. \A i \in 1..k : v[i] \in Value BY <1>3, <1>12, <2>1, <2>2
  <2>4. v \in Seq(Value) /\ Len(v) = k BY <1>2, <1>3, <1>10, <1>12, ExceptSeq
  <2>5. QED BY <2>2, <2>4
<1>16. /\ values' \in Seq(Value) /\ Len(values') = k + 1
       /\ \A i \in 1..k : values'[i] = v[i]
       /\ values'[k + 1] = x
  BY <1>1, <1>2, <1>13, <1>15
<1>17. Len(stack') = k + 1 /\ \A i \in 1..k : stack'[i] = t[i]
  <2>1. r \in Region
    <3>1. r = [stack[k] EXCEPT !.cstr = OwnText(stack[k])]
      BY <1>2, <1>4, TextIsOwnText DEF r
    <3>2. QED BY <1>4, <1>7, <3>1 DEF Region
  <2>2. t \in Seq(Region) /\ Len(t) = k
    <3>1. Len(stack) = k BY DEF k
    <3>2. QED BY <1>2, <1>3, <1>9, <2>1, <3>1, ExceptSeq
  <2>3. PICK e : e = Empty /\ e \in Region BY <1>2, EmptyIsRegion
  <2>4. stack' = Append(t, e) BY <1>1, <2>3
  <2>5. QED BY <1>2, <2>2, <2>4
<1>18. ASSUME NEW i \in 1..k + 1, values'[i].kind = "phrase", values'[i].expr # NoText
       PROVE  i + 1 \in 1..k + 1 /\ values'[i + 1].kind = "tag"
              /\ values'[i].expr = OwnText(stack'[i])
  <2>1. i \in 1..k BY <1>2, <1>13, <1>16, <1>18
  <2>2. CASE i = k
    <3>1. stack'[k] = r /\ values'[k] = y /\ values'[k + 1] = x
      BY <1>3, <1>14, <1>15, <1>16, <1>17
    <3>2. k + 1 \in 1..k + 1 BY <1>2
    <3>3. QED BY <1>11, <1>12, <1>13, <2>2, <3>1, <3>2
  <2>3. CASE i # k
    <3>1. values'[i] = values[i] /\ stack'[i] = stack[i]
      BY <1>14, <1>15, <1>16, <1>17, <2>1, <2>3
    <3>2. i + 1 \in 1..k /\ values[i + 1].kind = "tag" /\ values[i].expr = OwnText(stack[i])
      BY <1>18, <2>1, <3>1 DEF VInv, CopiesOwn
    <3>3. i + 1 # k BY <1>1, <3>2
    <3>4. values'[i + 1] = values[i + 1] BY <1>15, <1>16, <3>2, <3>3
    <3>5. QED BY <1>2, <3>1, <3>2, <3>4
  <2>4. QED BY <2>2, <2>3
<1> HIDE DEF k
<1>19. CopiesOwn(stack, values)' BY <1>17, <1>18 DEF CopiesOwn
<1>20. QED BY <1>16, <1>17, <1>19 DEF VInv

LEMMA TakeTextCopies == IInv /\ VInv /\ TakeText => VInv'
<1> SUFFICES ASSUME IInv, VInv, TakeText PROVE VInv' OBVIOUS
<1>1. PICK j \in DOMAIN stack :
        stack' = [stack EXCEPT ![j].cstr = Text(stack[j])] /\ values' = values
  BY DEF TakeText
<1>2. stack \in Seq(Region) BY DEF IInv, StackOK
<1>3. ASSUME NEW i \in 1..Len(stack) PROVE OwnText(stack'[i]) = OwnText(stack[i])
  <2>1. stack[i] \in Region /\ i \in DOMAIN stack BY <1>2
  <2>2. CASE i = j
    <3>1. stack'[i] = [stack[i] EXCEPT !.cstr = Text(stack[i])] BY <1>1, <2>1, <2>2
    <3>2. QED BY <2>1, <3>1 DEF OwnText, Region
  <2>3. CASE i # j BY <1>1, <2>1, <2>3
  <2>4. QED BY <2>2, <2>3
<1>4. Len(stack') = Len(stack) BY <1>1, <1>2
<1>5. QED BY <1>1, <1>3, <1>4, SameCopies

LEMMA Invariance == Spec => [](IInv /\ VInv)
<1>1. Init => VInv
  <2> SUFFICES ASSUME Init PROVE VInv OBVIOUS
  <2>1. stack = <<>> /\ values = <<>> BY DEF Init
  <2>2. 1 <= MaxInput
    <3>1. PICK n \in 1..MaxInput : input \in [1..n -> Chars] BY DEF Init
    <3>2. QED BY <3>1, BoundsAssumption
  <2>3. values \in Seq(Value) /\ Len(values) = 0 /\ Len(stack) = 0 BY <2>1
  <2>4. CopiesOwn(stack, values) BY <2>3 DEF CopiesOwn
  <2>5. QED BY <2>2, <2>3, <2>4 DEF VInv
<1>2. IInv /\ [Next]_vars => IInv'
  BY LexInv, ShiftInv, ReduceInv, NameTagInv, TakeTextInv, StutterInv DEF Next
<1>3. IInv /\ VInv /\ [Next]_vars => VInv'
  <2> SUFFICES ASSUME IInv, VInv, [Next]_vars PROVE VInv' OBVIOUS
  <2>1. CASE Lex
    <3>1. stack' = stack /\ values' = values BY <2>1 DEF Lex
    <3>2. QED BY <3>1, SameCopies
  <2>2. CASE Shift BY <2>2, ShiftCopies
  <2>3. CASE Reduce BY <2>3, ReduceCopies
  <2>4. CASE NameTag BY <2>4, NameTagCopies
  <2>5. CASE TakeText BY <2>5, TakeTextCopies
  <2>6. CASE UNCHANGED vars
    <3>1. stack' = stack /\ values' = values BY <2>6 DEF vars
    <3>2. QED BY <3>1, SameCopies
  <2>7. QED BY <2>1, <2>2, <2>3, <2>4, <2>5, <2>6 DEF Next
<1>4. QED BY InitInv, <1>1, <1>2, <1>3, PTL DEF Spec

-----------------------------------------------------------------------------
(* The theorems.                                                           *)

(* For inputs, stacks and productions of any length the buffers, the       *)
(* regions and the stack are well typed: sizes do not go negative and no   *)
(* region reaches beyond the input (mm_buf.c, token_merge).                *)
THEOREM StreamTypes == Spec => []TypeOK
<1>1. IInv /\ VInv => TypeOK
  <2> SUFFICES ASSUME IInv, VInv PROVE TypeOK OBVIOUS
  <2>1. InputOK /\ BuffersOK /\ token \in BOOLEAN BY DEF IInv
  <2>2. \A i \in 1..Len(input) + 1 : i \in 1..MaxInput + 1 BY <2>1 DEF InputOK
  <2>3. mb \in State /\ mb_token \in State
    BY <2>1, <2>2 DEF BuffersOK, Buffer, State
  <2>4. last_token \in Region BY <2>1, EmptyIsRegion DEF IInv, LastOK, Piece
  <2>5. QED BY <2>1, <2>3, <2>4 DEF TypeOK, IInv, StackOK, VInv
<1>2. QED BY Invariance, <1>1, PTL

(* The line that messages and symbols name is the line that the last       *)
(* directive before their first character gives it, however far ahead the  *)
(* lexer has read (cl.l, mm_buf_region_begin).                             *)
THEOREM LinesAreRight == Spec => []LinesAsDirected
<1>1. IInv => LinesAsDirected
  <2> SUFFICES ASSUME IInv PROVE LinesAsDirected OBVIOUS
  <2>1. last_token.pos # 0 => last_token.line = LineAt(last_token.pos)
    BY EmptyIsRegion DEF IInv, LastOK, Piece
  <2>2. ASSUME NEW i \in DOMAIN stack, stack[i].pos # 0
        PROVE  stack[i].line = LineAt(stack[i].pos)
    BY <2>2, EmptyIsRegion DEF IInv, StackOK, Holds, Item, Symbol, Piece
  <2>3. QED BY <2>1, <2>2 DEF LinesAsDirected
<1>2. QED BY Invariance, <1>1, PTL

(* The parser's symbols are apart, in order, and hold the tokens shifted,  *)
(* whatever productions, empty ones included, made them                    *)
(* (mm_buf_region_union).                                                  *)
THEOREM SymbolsKeepTokens == Spec => []SymbolsSpanTokens
<1>1. IInv => SymbolsSpanTokens
  <2> SUFFICES ASSUME IInv PROVE SymbolsSpanTokens OBVIOUS
  <2> DEFINE Span(i) == stack[i].pos .. stack[i].pos + stack[i].size - 1
             f == IF token THEN last_token.pos ELSE mb_token.pos
             signs == Signs(1, Len(input))
  <2>1. InputOK /\ Holds(stack, f) BY DEF IInv, StackOK, Front
  <2>2. f \in Nat BY FrontType DEF Front
  <2>3. \A i \in DOMAIN stack : Item(stack[i]) BY <2>1 DEF Holds
  <2>4. \A i \in Symbols : i \in DOMAIN stack /\ stack[i] # Empty
    BY <2>1, <2>3, ItemHasPos DEF Symbols
  <2>5. \A i \in DOMAIN stack : stack[i] # Empty => i \in Symbols
    BY <2>1, <2>3, ItemHasPos DEF Symbols
  <2> HIDE DEF f, signs
  <2>6. \A i \in Symbols : /\ Symbol(stack[i]) /\ stack[i].pos \in Nat
                           /\ stack[i].end \in Nat /\ stack[i].size \in Nat
                           /\ stack[i].end = stack[i].pos + stack[i].size
    BY <2>1, <2>3, <2>4, SymbolFacts DEF Symbol, Piece
  <2>7. ASSUME NEW i \in Symbols, NEW j \in Symbols, i < j
        PROVE  stack[i].pos + stack[i].size <= stack[j].pos
    BY <2>1, <2>4, <2>6, <2>7 DEF Holds, Ordered
  <2>8. ASSUME NEW i \in Symbols
        PROVE  {stack[i].pos, stack[i].pos + stack[i].size - 1} \subseteq signs
    BY <2>6 DEF Symbol, IsSign, signs
  <2>9. \A g \in signs : g \in 1..Len(input) /\ IsSign(g) BY SignIsChar DEF IsSign, signs
  <2>10. ASSUME NEW g \in signs
         PROVE  g < f <=> \E i \in Symbols : g \in Span(i)
    <3>1. g \in 1..Len(input) /\ g \in Nat BY <2>9
    <3>2. g < f <=> \E i \in DOMAIN stack : Covered(stack[i], g)
      BY <2>1, <2>9 DEF Holds, Covers
    <3>3. \A i \in DOMAIN stack : Covered(stack[i], g) => i \in Symbols
      BY <2>5 DEF Covered
    <3>4. ASSUME NEW i \in Symbols PROVE Covered(stack[i], g) <=> g \in Span(i)
      <4>1. stack[i].pos \in Nat /\ stack[i].size \in Nat
            /\ stack[i].end = stack[i].pos + stack[i].size /\ stack[i] # Empty
        BY <2>4, <2>6
      <4>2. QED BY <3>1, <4>1 DEF Covered
    <3> HIDE DEF Span
    <3>5. QED BY <2>4, <3>2, <3>3, <3>4
  <2>11. Signs(1, f - 1) = {g \in signs : g < f}
    <3>1. Len(input) \in Nat BY <2>1 DEF InputOK
    <3>2. f <= Len(input) + 1
      <4>1. mb_token.pos <= Len(input) + 1 BY <3>1 DEF IInv, BuffersOK, Buffer
      <4>2. token => last_token.pos <= Len(input) + 1
        <5>1. ASSUME token PROVE last_token.pos <= Len(input) + 1
          <6>1. IsSign(last_token.pos) BY <5>1 DEF IInv, LastOK, Symbol
          <6>2. last_token.pos \in 1..Len(input) BY <6>1, SignIsChar
          <6>3. QED BY <3>1, <6>2
        <5>2. QED BY <5>1
      <4>3. QED BY <4>1, <4>2 DEF f
    <3>3. \A g : g \in 1..f - 1 <=> g \in 1..Len(input) /\ g < f BY <2>2, <3>1, <3>2
    <3>4. QED BY <3>3 DEF Signs, signs
  <2> HIDE DEF Span
  <2>12. UNION {Span(i) \cap signs : i \in Symbols} = Signs(1, f - 1)
    BY <2>10, <2>11
  <2>13. QED BY <2>7, <2>8, <2>12 DEF SymbolsSpanTokens, Span, f, signs
<1>2. QED BY Invariance, <1>1, PTL

(* The text of a phrase, whenever an action asks for it and whichever of   *)
(* the two copies answers, is what was written from its first token to its *)
(* last: neither the region's copy (mm_buf_region_cstr) nor the symbol's   *)
(* own (_to_expr, and the default action) is that of a smaller symbol.     *)
THEOREM TextsAreOwn == Spec => []TextIsOwn
<1>1. IInv /\ VInv => TextIsOwn
  <2> SUFFICES ASSUME IInv, VInv, NEW i \in DOMAIN stack
               PROVE  /\ stack[i].cstr \in {NoText, OwnText(stack[i])}
                      /\ values[i].kind = "phrase" => ToExpr(i) = OwnText(stack[i])
    BY DEF TextIsOwn, OwnText
  <2>1. Item(stack[i]) /\ InputOK BY DEF IInv, StackOK, Holds
  <2>2. stack[i].cstr \in {NoText, OwnText(stack[i])} /\ Text(stack[i]) = OwnText(stack[i])
    BY <2>1, TextIsOwnText
  <2>3. i \in 1..Len(stack) BY DEF IInv, StackOK
  <2>4. ASSUME values[i].kind = "phrase", values[i].expr # NoText
        PROVE  values[i].expr = OwnText(stack[i])
    BY <2>3, <2>4 DEF VInv, CopiesOwn
  <2>5. QED BY <2>2, <2>4 DEF ToExpr
<1>2. QED BY Invariance, <1>1, PTL
=============================================================================
