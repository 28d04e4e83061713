-------------------------- MODULE MallocZoneProofs --------------------------
(***************************************************************************)
(* Proofs about MallocZone, for any number of blocks and zones and with or *)
(* without objects freed through a zone that is not theirs:                *)
(*   - the rings stay doubly linked and apart, and complete;               *)
(*   - the zones implement ZoneSpec;                                       *)
(*   - the counters are those of the rings, and no assert fails but free's *)
(*     on the bytes, in a zone whose objects have none, until an object is *)
(*     freed through a wrong zone.                                         *)
(*                                                                         *)
(* Completeness (the ring met from the header is all the zone owns) is not *)
(* inductive in the form of an equation.  Reach says it of every closed    *)
(* set, which each step carries over by building, from a set closed after  *)
(* the step, one that was closed before it.                                *)
(***************************************************************************)
EXTENDS MCMallocZone, SetInduction, FiniteSetTheorems, TLAPS

Reach(h) ==
  \A z \in Zones : \A S \in SUBSET Blocks :
    Closed(h, z, S) => Owned(h, z) \subseteq S

Good(h) == h \in Memory /\ Linked(h) /\ Reach(h)

(* Same rings: counters, sizes, halt and up may differ.                    *)
SameRings(h, s) == s.next = h.next /\ s.prev = h.prev /\ s.owner = h.owner

LEMMA Apart ==
  /\ \A b \in Blocks : b \notin Zones /\ b # Null /\ b \in Node
  /\ \A z \in Zones : z \notin Blocks /\ z # Null /\ z \in Node
BY BlocksAssumption DEF Node

LEMMA WrapType == \A n \in Int : Wrap(n) \in Counter
<1>1. Modulus \in Nat \ {0}
  BY BlocksAssumption, ModulusAssumption, FS_CardinalityType
<1>2. QED BY <1>1 DEF Wrap, Counter

LEMMA LinkedFields ==
  ASSUME NEW h \in Memory, Linked(h), NEW n \in Live(h) \cup Zones
  PROVE  /\ h.next[n] \in Live(h) \cup Zones /\ h.prev[n] \in Live(h) \cup Zones
         /\ h.next[h.prev[n]] = n /\ h.prev[h.next[n]] = n
         /\ Home(h, h.next[n]) = Home(h, n) /\ Home(h, h.prev[n]) = Home(h, n)
BY DEF Linked

LEMMA SameRingsGood ==
  ASSUME NEW h, NEW s \in Memory, Good(h), SameRings(h, s)
  PROVE  Good(s) /\ \A z : Owned(s, z) = Owned(h, z) /\ Ring(s, z) = Ring(h, z)
<1>1. Live(s) = Live(h) /\ \A n : Home(s, n) = Home(h, n)
  BY DEF SameRings, Live, Home
<1>2. Linked(s) BY <1>1 DEF Good, Linked, SameRings
<1>3. \A z : Owned(s, z) = Owned(h, z) BY DEF Owned, SameRings
<1>4. \A z, S : Closed(s, z, S) = Closed(h, z, S) BY DEF Closed, SameRings
<1>5. \A z : Ring(s, z) = Ring(h, z) BY <1>4 DEF Ring
<1>6. Reach(s) BY <1>3, <1>4 DEF Good, Reach
<1>7. QED BY <1>2, <1>3, <1>5, <1>6 DEF Good

(* What a zone owns is closed, so the ring of a good memory is what the    *)
(* zone owns.                                                              *)
LEMMA OwnedClosed ==
  ASSUME NEW h \in Memory, Linked(h), NEW z \in Zones
  PROVE  Closed(h, z, Owned(h, z))
<1>1. \A b \in Owned(h, z) \cup {z} :
        b \in Live(h) \cup Zones /\ Home(h, b) = z
  BY Apart DEF Owned, Live, Home
<1>2. \A n \in Live(h) \cup Zones : Home(h, n) = z => n \in Owned(h, z) \cup {z}
  BY DEF Owned, Live, Home
<1>3. \A b \in Owned(h, z) \cup {z} : h.next[b] \in Owned(h, z) \cup {z}
  BY <1>1, <1>2, LinkedFields
<1>4. QED BY <1>3 DEF Closed

LEMMA RingIsOwned ==
  ASSUME NEW h, Good(h), NEW z \in Zones
  PROVE  Ring(h, z) = Owned(h, z)
<1>1. Owned(h, z) \in SUBSET Blocks BY DEF Owned
<1>2. Ring(h, z) \subseteq Owned(h, z)
  BY <1>1, OwnedClosed DEF Good, Ring
<1>3. Owned(h, z) \subseteq Ring(h, z)
  BY <1>1 DEF Good, Reach, Ring
<1>4. QED BY <1>2, <1>3

-----------------------------------------------------------------------------
(* malloc                                                                  *)

LEMMA MallocFields ==
  ASSUME NEW h \in Memory, NEW z \in Zones, NEW b \in Blocks, NEW n \in Nat
  PROVE  LET s == Malloc(h, z, b, n)
         IN  /\ s \in Memory
             /\ s.next = [h.next EXCEPT ![b] = h.next[z], ![z] = b]
             /\ s.prev = [h.prev EXCEPT ![b] = z, ![h.next[z]] = b]
             /\ s.owner = [h.owner EXCEPT ![b] = z]
             /\ s.halt = h.halt /\ s.up = h.up
<1> DEFINE s == Malloc(h, z, b, n)
<1> DEFINE nx == [h.next EXCEPT ![b] = h.next[z], ![z] = b]
           pv == [h.prev EXCEPT ![b] = z, ![h.next[z]] = b]
           sz == [h.size EXCEPT ![b] = n]
           ow == [h.owner EXCEPT ![b] = z]
           no == [h.nobjects EXCEPT ![z] = Wrap(@ + 1)]
           nb == [h.nbytes EXCEPT ![z] = Wrap(@ + n)]
           nm == [h.nmallocs EXCEPT ![z] = Wrap(@ + 1)]
<1>1. b \in Node /\ z \in Node /\ h.next[z] \in Node BY Apart DEF Memory
<1>2. nx \in [Node -> Node] /\ pv \in [Node -> Node] BY <1>1 DEF Memory
<1>3. sz \in [Blocks -> Nat] /\ ow \in [Blocks -> Zones \cup {Null}] BY DEF Memory
<1>4. /\ h.nobjects[z] \in Counter /\ h.nbytes[z] \in Counter
      /\ h.nmallocs[z] \in Counter
  BY DEF Memory
<1>5. /\ Wrap(h.nobjects[z] + 1) \in Counter /\ Wrap(h.nbytes[z] + n) \in Counter
      /\ Wrap(h.nmallocs[z] + 1) \in Counter
  <2>1. /\ h.nobjects[z] + 1 \in Int /\ h.nbytes[z] + n \in Int
        /\ h.nmallocs[z] + 1 \in Int
    BY <1>4 DEF Counter
  <2>2. QED BY <2>1, WrapType
<1>6. no \in [Zones -> Counter] /\ nb \in [Zones -> Counter] /\ nm \in [Zones -> Counter]
  BY <1>5 DEF Memory
<1>7. s = [h EXCEPT !.next = nx, !.prev = pv, !.size = sz, !.owner = ow,
                    !.nobjects = no, !.nbytes = nb, !.nmallocs = nm]
  BY DEF Malloc
<1> HIDE DEF s, nx, pv, sz, ow, no, nb, nm
<1>8. s \in Memory BY <1>2, <1>3, <1>6, <1>7 DEF Memory
<1>9. /\ s.next = nx /\ s.prev = pv /\ s.owner = ow /\ s.halt = h.halt /\ s.up = h.up
  BY <1>7 DEF Memory
<1>10. QED BY <1>8, <1>9 DEF s, nx, pv, ow

LEMMA MallocGood ==
  ASSUME NEW h, Good(h), NEW z \in Zones, NEW b \in Blocks \ Live(h), NEW n \in Nat
  PROVE  LET s == Malloc(h, z, b, n)
         IN  /\ Good(s) /\ s.halt = h.halt /\ s.up = h.up
             /\ Owned(s, z) = Owned(h, z) \cup {b}
             /\ \A y \in Zones \ {z} : Owned(s, y) = Owned(h, y)
             /\ Live(s) = Live(h) \cup {b}
<1> DEFINE s == Malloc(h, z, b, n)
           x == h.next[z]
<1>0. h \in Memory /\ Linked(h) /\ Reach(h) BY DEF Good
<1>1. /\ s \in Memory
      /\ s.next = [h.next EXCEPT ![b] = x, ![z] = b]
      /\ s.prev = [h.prev EXCEPT ![b] = z, ![x] = b]
      /\ s.owner = [h.owner EXCEPT ![b] = z]
      /\ s.halt = h.halt /\ s.up = h.up
  BY <1>0, MallocFields
<1> HIDE DEF s
<1>2. h.next \in [Node -> Node] /\ h.prev \in [Node -> Node]
      /\ h.owner \in [Blocks -> Zones \cup {Null}]
  BY <1>0 DEF Memory
<1>3. /\ b \in Node /\ z \in Node /\ b \notin Zones /\ b # z /\ h.owner[b] = Null
      /\ z \in Live(h) \cup Zones /\ b \notin Live(h) \cup Zones
  BY Apart DEF Live
<1>4. /\ Live(s) = Live(h) \cup {b}
      /\ Owned(s, z) = Owned(h, z) \cup {b}
      /\ \A y \in Zones \ {z} : Owned(s, y) = Owned(h, y)
  BY <1>1, <1>2, <1>3, Apart DEF Live, Owned
<1>5. Live(h) \cup Zones \subseteq Node BY Apart DEF Live
<1>6. x \in Live(h) \cup Zones /\ h.prev[x] = z /\ x # b /\ x \in Node
      /\ Home(h, x) = z
  BY <1>0, <1>3, <1>5, LinkedFields DEF Home
<1>7. /\ s.next[z] = b /\ s.next[b] = x /\ s.prev[b] = z /\ s.prev[x] = b
      /\ \A m \in Live(h) \cup Zones : m # z => s.next[m] = h.next[m]
      /\ \A m \in Live(h) \cup Zones : m # x => s.prev[m] = h.prev[m]
  BY <1>1, <1>2, <1>3, <1>5, <1>6
<1>8. /\ Home(s, b) = z
      /\ \A m \in Live(h) \cup Zones : Home(s, m) = Home(h, m)
  BY <1>1, <1>2, <1>3 DEF Home, Live
<1> HIDE DEF x
<1>9. Linked(s)
  <2>1. SUFFICES ASSUME NEW m \in Live(s) \cup Zones
        PROVE /\ s.next[m] \in Live(s) \cup Zones /\ s.prev[m] \in Live(s) \cup Zones
              /\ s.next[s.prev[m]] = m /\ s.prev[s.next[m]] = m
              /\ Home(s, s.next[m]) = Home(s, m)
    BY DEF Linked
  <2>2. Home(s, z) = z /\ Home(s, x) = z BY <1>3, <1>6, <1>8 DEF Home
  <2>3. CASE m = b BY <1>3, <1>4, <1>6, <1>7, <1>8, <2>2, <2>3
  <2>4. CASE m # b
    <3>1. m \in Live(h) \cup Zones BY <1>4, <2>4
    <3>2. /\ h.next[m] \in Live(h) \cup Zones /\ h.prev[m] \in Live(h) \cup Zones
          /\ h.next[h.prev[m]] = m /\ h.prev[h.next[m]] = m
          /\ Home(h, h.next[m]) = Home(h, m)
      BY <1>0, <3>1, LinkedFields
    <3>3. /\ s.next[m] \in Live(s) \cup Zones /\ s.prev[s.next[m]] = m
          /\ Home(s, s.next[m]) = Home(s, m)
      <4>1. CASE m = z BY <1>4, <1>7, <1>8, <2>2, <4>1
      <4>2. CASE m # z
        <5>1. s.next[m] = h.next[m] BY <1>7, <3>1, <4>2
        <5>2. h.next[m] # x BY <1>6, <3>2, <4>2
        <5>3. QED BY <1>4, <1>7, <1>8, <3>1, <3>2, <5>1, <5>2
      <4>3. QED BY <4>1, <4>2
    <3>4. s.prev[m] \in Live(s) \cup Zones /\ s.next[s.prev[m]] = m
      <4>1. CASE m = x BY <1>4, <1>7, <4>1
      <4>2. CASE m # x
        <5>1. s.prev[m] = h.prev[m] BY <1>7, <3>1, <4>2
        <5>2. h.prev[m] # z BY <3>2, <4>2 DEF x
        <5>3. QED BY <1>4, <1>7, <3>2, <5>1, <5>2
      <4>3. QED BY <4>1, <4>2
    <3>5. QED BY <3>3, <3>4
  <2>5. QED BY <2>3, <2>4
<1>10. Reach(s)
  <2>1. SUFFICES ASSUME NEW y \in Zones, NEW S \in SUBSET Blocks, Closed(s, y, S)
                 PROVE  Owned(s, y) \subseteq S
    BY DEF Reach
  <2> DEFINE R == S \cap Owned(h, y)
  <2>2. /\ s.next[y] \in S \cup {y} /\ \A c \in S : s.next[c] \in S \cup {y}
    BY <2>1 DEF Closed
  <2>3. /\ h.next[y] \in Owned(h, y) \cup {y}
        /\ \A c \in Owned(h, y) : h.next[c] \in Owned(h, y) \cup {y}
    BY <1>0, OwnedClosed DEF Closed
  <2>4. Owned(h, y) \subseteq Live(h) /\ y \in Live(h) \cup Zones
    BY Apart DEF Owned, Live
  <2>5. \A c \in Owned(h, y) : c # z /\ s.next[c] = h.next[c]
    BY <1>7, <2>4, Apart DEF Owned
  <2>6. \A c \in R : h.next[c] \in R \cup {y} BY <2>2, <2>3, <2>5
  <2>7. h.next[y] \in R \cup {y}
    <3>1. CASE y = z
      <4>1. b \in S BY <1>7, <2>2, <3>1, Apart
      <4>2. x \in S \cup {y} BY <1>7, <2>2, <4>1
      <4>3. QED BY <2>3, <3>1, <4>2 DEF x
    <3>2. CASE y # z BY <1>7, <2>2, <2>3, <2>4, <3>2
    <3>3. QED BY <3>1, <3>2
  <2>8. Closed(h, y, R) BY <2>6, <2>7 DEF Closed
  <2>9. Owned(h, y) \subseteq R
    <3>1. R \in SUBSET Blocks OBVIOUS
    <3>2. QED BY <1>0, <2>8, <3>1 DEF Reach
  <2>10. CASE y = z
    <3>1. b \in S BY <1>7, <2>2, <2>10, Apart
    <3>2. QED BY <1>4, <2>9, <2>10, <3>1
  <2>11. CASE y # z BY <1>4, <2>9, <2>11
  <2>12. QED BY <2>10, <2>11
<1>11. QED BY <1>1, <1>4, <1>9, <1>10 DEF Good, s

-----------------------------------------------------------------------------
(* free, realloc                                                           *)

LEMMA UnlinkFields ==
  ASSUME NEW h \in Memory, Linked(h), NEW p \in Live(h)
  PROVE  LET s == Unlink(h, p)
         IN  /\ s \in Memory
             /\ s.next = [h.next EXCEPT ![h.prev[p]] = h.next[p]]
             /\ s.prev = [h.prev EXCEPT ![h.next[p]] = h.prev[p]]
             /\ s.owner = [h.owner EXCEPT ![p] = Null]
             /\ s.halt = h.halt /\ s.up = h.up
<1> DEFINE s == Unlink(h, p)
           nx == [h.next EXCEPT ![h.prev[p]] = h.next[p]]
           pv == [h.prev EXCEPT ![h.next[p]] = h.prev[p]]
           ow == [h.owner EXCEPT ![p] = Null]
<1>1. p \in Blocks /\ p \in Node /\ h.next[p] \in Node /\ h.prev[p] \in Node
  BY Apart DEF Live, Memory
<1>2. nx \in [Node -> Node] /\ pv \in [Node -> Node] BY <1>1 DEF Memory
<1>3. ow \in [Blocks -> Zones \cup {Null}] BY DEF Memory
<1>4. s = [h EXCEPT !.next = nx, !.prev = pv, !.owner = ow] BY DEF Unlink
<1> HIDE DEF s, nx, pv, ow
<1>5. s \in Memory BY <1>2, <1>3, <1>4 DEF Memory
<1>6. /\ s.next = nx /\ s.prev = pv /\ s.owner = ow /\ s.halt = h.halt /\ s.up = h.up
  BY <1>4 DEF Memory
<1>7. QED BY <1>5, <1>6 DEF s, nx, pv, ow

LEMMA UnlinkGood ==
  ASSUME NEW h, Good(h), NEW p \in Live(h)
  PROVE  LET s == Unlink(h, p)
         IN  /\ Good(s) /\ s.halt = h.halt /\ s.up = h.up
             /\ \A y \in Zones : Owned(s, y) = Owned(h, y) \ {p}
             /\ Live(s) = Live(h) \ {p}
<1> DEFINE s == Unlink(h, p)
           q == h.prev[p]
           r == h.next[p]
<1>0. h \in Memory /\ Linked(h) /\ Reach(h) BY DEF Good
<1>1. /\ s \in Memory
      /\ s.next = [h.next EXCEPT ![q] = r]
      /\ s.prev = [h.prev EXCEPT ![r] = q]
      /\ s.owner = [h.owner EXCEPT ![p] = Null]
      /\ s.halt = h.halt /\ s.up = h.up
  BY <1>0, UnlinkFields
<1> HIDE DEF s
<1>2. h.next \in [Node -> Node] /\ h.prev \in [Node -> Node]
      /\ h.owner \in [Blocks -> Zones \cup {Null}]
  BY <1>0 DEF Memory
<1>3. p \in Node /\ p \in Blocks /\ p \notin Zones /\ p \in Live(h) \cup Zones
  BY Apart DEF Live
<1>4. /\ Live(s) = Live(h) \ {p}
      /\ \A y \in Zones : Owned(s, y) = Owned(h, y) \ {p}
  BY <1>1, <1>2, <1>3, Apart DEF Live, Owned
<1>5. Live(h) \cup Zones \subseteq Node BY Apart DEF Live
<1>6. /\ q \in Live(h) \cup Zones /\ r \in Live(h) \cup Zones
      /\ h.next[q] = p /\ h.prev[r] = p
      /\ Home(h, q) = Home(h, p) /\ Home(h, r) = Home(h, p)
  BY <1>0, <1>3, LinkedFields
<1>7. q # p /\ r # p
  <2>1. SUFFICES ASSUME h.next[p] = p PROVE FALSE BY <1>6
  <2> DEFINE z == h.owner[p]
             S == Owned(h, z) \ {p}
  <2>2. z \in Zones /\ p \in Owned(h, z) BY <1>2, <1>3 DEF Live, Owned
  <2>3. Closed(h, z, Owned(h, z)) BY <1>0, <2>2, OwnedClosed
  <2>4. \A m \in Owned(h, z) \cup {z} : m \in Live(h) \cup Zones
    BY <2>2, Apart DEF Owned, Live
  <2>5. \A m \in Owned(h, z) \cup {z} : m # p => h.next[m] # p
    BY <1>0, <2>1, <2>4, LinkedFields
  <2>6. z # p BY <1>3, <2>2
  <2>7. Closed(h, z, S) BY <2>3, <2>5, <2>6 DEF Closed
  <2>8. S \in SUBSET Blocks BY DEF Owned
  <2>9. QED BY <1>0, <2>2, <2>7, <2>8 DEF Reach
<1>8. /\ s.next[q] = r /\ s.prev[r] = q
      /\ \A m \in Live(h) \cup Zones : m # q => s.next[m] = h.next[m]
      /\ \A m \in Live(h) \cup Zones : m # r => s.prev[m] = h.prev[m]
  BY <1>1, <1>2, <1>5, <1>6
<1>9. \A m \in Live(h) \cup Zones : m # p => Home(s, m) = Home(h, m)
  BY <1>1, <1>2, <1>3 DEF Home, Live
<1> HIDE DEF q, r
<1>10. Linked(s)
  <2>1. SUFFICES ASSUME NEW m \in Live(s) \cup Zones
        PROVE /\ s.next[m] \in Live(s) \cup Zones /\ s.prev[m] \in Live(s) \cup Zones
              /\ s.next[s.prev[m]] = m /\ s.prev[s.next[m]] = m
              /\ Home(s, s.next[m]) = Home(s, m)
    BY DEF Linked
  <2>2. m \in Live(h) \cup Zones /\ m # p BY <1>3, <1>4
  <2>3. /\ h.next[m] \in Live(h) \cup Zones /\ h.prev[m] \in Live(h) \cup Zones
        /\ h.next[h.prev[m]] = m /\ h.prev[h.next[m]] = m
        /\ Home(h, h.next[m]) = Home(h, m)
    BY <1>0, <2>2, LinkedFields
  <2>4. \A k \in Live(h) \cup Zones : k # p => k \in Live(s) \cup Zones
    BY <1>3, <1>4
  <2>5. /\ s.next[m] \in Live(s) \cup Zones /\ s.prev[s.next[m]] = m
        /\ Home(s, s.next[m]) = Home(s, m)
    <3>1. CASE m = q BY <1>6, <1>7, <1>8, <1>9, <2>4, <3>1
    <3>2. CASE m # q
      <4>1. s.next[m] = h.next[m] BY <1>8, <2>2, <3>2
      <4>2. h.next[m] # p BY <2>3, <3>2 DEF q
      <4>3. h.next[m] # r BY <1>6, <2>2, <2>3
      <4>4. QED BY <1>8, <1>9, <2>2, <2>3, <2>4, <4>1, <4>2, <4>3
    <3>3. QED BY <3>1, <3>2
  <2>6. s.prev[m] \in Live(s) \cup Zones /\ s.next[s.prev[m]] = m
    <3>1. CASE m = r BY <1>6, <1>7, <1>8, <2>4, <3>1
    <3>2. CASE m # r
      <4>1. s.prev[m] = h.prev[m] BY <1>8, <2>2, <3>2
      <4>2. h.prev[m] # p BY <2>3, <3>2 DEF r
      <4>3. h.prev[m] # q BY <1>6, <2>2, <2>3
      <4>4. QED BY <1>8, <2>3, <2>4, <4>1, <4>2, <4>3
    <3>3. QED BY <3>1, <3>2
  <2>7. QED BY <2>5, <2>6
<1>11. Reach(s)
  <2>1. SUFFICES ASSUME NEW y \in Zones, NEW S \in SUBSET Blocks, Closed(s, y, S)
                 PROVE  Owned(h, y) \ {p} \subseteq S
    BY <1>4 DEF Reach
  <2>2. /\ s.next[y] \in S \cup {y} /\ \A c \in S : s.next[c] \in S \cup {y}
    BY <2>1 DEF Closed
  <2>3. Closed(h, y, Owned(h, y)) BY <1>0, OwnedClosed
  <2>4. \A m \in Owned(h, y) \cup {y} :
          m \in Live(h) \cup Zones /\ h.next[m] \in Owned(h, y) \cup {y}
    BY <2>3, Apart DEF Owned, Live, Closed
  <2> DEFINE R == S \cap Owned(h, y)
  <2>5. CASE q \in R \cup {y}
    <3>1. r \in S \cup {y} BY <1>8, <2>2, <2>5
    <3>2. r \in Owned(h, y) \cup {y}
      BY <1>6, <2>4, <2>5 DEF r
    <3>3. \A c \in R \cup {y} : h.next[c] \in R \cup {p} \cup {y}
      <4>1. \A c \in R \cup {y} : c # q => h.next[c] = s.next[c]
        BY <1>8, <2>4
      <4>2. QED BY <1>6, <2>2, <2>4, <4>1
    <3>4. h.next[p] \in R \cup {y} BY <3>1, <3>2 DEF r
    <3>5. Closed(h, y, R \cup {p}) BY <3>3, <3>4 DEF Closed
    <3>6. R \cup {p} \in SUBSET Blocks BY <1>3
    <3>7. QED BY <1>0, <3>5, <3>6 DEF Reach
  <2>6. CASE q \notin R \cup {y}
    <3>1. \A c \in R \cup {y} : h.next[c] = s.next[c] BY <1>8, <2>4, <2>6
    <3>2. Closed(h, y, R) BY <2>2, <2>4, <3>1 DEF Closed
    <3>3. R \in SUBSET Blocks OBVIOUS
    <3>4. QED BY <1>0, <3>2, <3>3 DEF Reach
  <2>7. QED BY <2>5, <2>6
<1>12. QED BY <1>1, <1>4, <1>10, <1>11 DEF Good, s

(* What a step does to the owned sets.                                     *)
SameOwned(h, s) == \A y \in Zones : Owned(s, y) = Owned(h, y)
Gives(h, s, p)  == \A y \in Zones : Owned(s, y) = Owned(h, y) \ {p}
Clears(h, s, z) ==
  \A y \in Zones : Owned(s, y) = IF y = z THEN {} ELSE Owned(h, y)

LEMMA HaltGood ==
  ASSUME NEW h, Good(h), NEW why \in {"no", "nobjects", "nbytes", "clear"}
  PROVE  Good(Halt(h, why)) /\ SameOwned(h, Halt(h, why)) /\ Halt(h, why).up = h.up
<1>1. Halt(h, why) \in Memory /\ SameRings(h, Halt(h, why)) /\ Halt(h, why).up = h.up
  BY DEF Good, Memory, Halt, SameRings
<1>2. QED BY <1>1, SameRingsGood DEF SameOwned

LEMMA FreeGood ==
  ASSUME NEW h, Good(h), NEW z \in Zones, NEW p \in Live(h) \cup {Null}
  PROVE  LET s == Free(h, z, p)
         IN  /\ Good(s) /\ s.up = h.up
             /\ SameOwned(h, s) \/ (p \in Live(h) /\ Gives(h, s, p))
<1> DEFINE s == Free(h, z, p)
<1>1. CASE p = Null BY <1>1 DEF Free, SameOwned
<1>2. CASE p # Null /\ h.nobjects[z] = 0 BY <1>2, HaltGood DEF Free
<1>3. CASE p # Null /\ h.nobjects[z] # 0 /\ h.nbytes[z] = 0
  BY <1>3, HaltGood DEF Free
<1>4. CASE p # Null /\ h.nobjects[z] # 0 /\ h.nbytes[z] # 0
  <2> DEFINE u == Unlink(h, p)
             no == [u.nobjects EXCEPT ![z] = Wrap(@ - 1)]
             nb == [u.nbytes EXCEPT ![z] = Wrap(@ - h.size[p])]
             nf == [u.nfrees EXCEPT ![z] = Wrap(@ + 1)]
  <2>1. p \in Live(h) BY <1>4
  <2>2. Good(u) /\ u.up = h.up /\ Gives(h, u, p) BY <2>1, UnlinkGood DEF Gives
  <2>3. s = [u EXCEPT !.nobjects = no, !.nbytes = nb, !.nfrees = nf]
    BY <1>4 DEF Free
  <2> HIDE DEF u, s
  <2>4. u \in Memory /\ h \in Memory BY <2>2 DEF Good
  <2>5. h.size[p] \in Int
    <3>1. p \in Blocks /\ h.size \in [Blocks -> Nat] BY <2>1, <2>4 DEF Live, Memory
    <3>2. QED BY <3>1
  <2>6. /\ u.nobjects[z] \in Int /\ u.nbytes[z] \in Int /\ u.nfrees[z] \in Int
    BY <2>4 DEF Memory, Counter
  <2>7. /\ u.nobjects[z] - 1 \in Int /\ u.nbytes[z] - h.size[p] \in Int
        /\ u.nfrees[z] + 1 \in Int
    BY <2>5, <2>6
  <2>8. /\ Wrap(u.nobjects[z] - 1) \in Counter
        /\ Wrap(u.nbytes[z] - h.size[p]) \in Counter
        /\ Wrap(u.nfrees[z] + 1) \in Counter
    BY <2>7, WrapType
  <2>9. no \in [Zones -> Counter] /\ nb \in [Zones -> Counter] /\ nf \in [Zones -> Counter]
    BY <2>4, <2>8 DEF Memory
  <2> HIDE DEF no, nb, nf
  <2>10. s \in Memory /\ SameRings(u, s) /\ s.up = u.up
    BY <2>3, <2>4, <2>9 DEF Memory, SameRings
  <2>11. Good(s) /\ \A y : Owned(s, y) = Owned(u, y) BY <2>2, <2>10, SameRingsGood
  <2>12. QED BY <2>1, <2>2, <2>10, <2>11 DEF Gives, s
<1>5. QED BY <1>1, <1>2, <1>3, <1>4

-----------------------------------------------------------------------------
(* clear, destroy                                                          *)

LEMMA ClearFields ==
  ASSUME NEW h \in Memory, NEW z \in Zones, h.nobjects[z] = Cardinality(Ring(h, z))
  PROVE  LET s == Clear(h, z)
         IN  /\ s \in Memory
             /\ s.next = [h.next EXCEPT ![z] = z] /\ s.prev = [h.prev EXCEPT ![z] = z]
             /\ s.owner = [b \in Blocks |-> IF b \in Ring(h, z) THEN Null ELSE h.owner[b]]
             /\ s.up = h.up /\ s.halt = h.halt
<1> DEFINE s == Clear(h, z)
           nx == [h.next EXCEPT ![z] = z]
           pv == [h.prev EXCEPT ![z] = z]
           ow == [b \in Blocks |-> IF b \in Ring(h, z) THEN Null ELSE h.owner[b]]
           no == [h.nobjects EXCEPT ![z] = 0]
           nb == [h.nbytes EXCEPT ![z] = 0]
           nm == [h.nmallocs EXCEPT ![z] = 0]
           nf == [h.nfrees EXCEPT ![z] = 0]
<1>1. z \in Node BY Apart
<1>2. nx \in [Node -> Node] /\ pv \in [Node -> Node] BY <1>1 DEF Memory
<1>3. ow \in [Blocks -> Zones \cup {Null}]
  <2>1. h.owner \in [Blocks -> Zones \cup {Null}] BY DEF Memory
  <2>2. QED BY <2>1
<1>4. 0 \in Counter
  <2>1. Wrap(0) \in Counter BY WrapType
  <2>2. Modulus \in Nat BY ModulusAssumption
  <2>3. QED BY <2>1, <2>2 DEF Counter
<1>5. /\ no \in [Zones -> Counter] /\ nb \in [Zones -> Counter]
      /\ nm \in [Zones -> Counter] /\ nf \in [Zones -> Counter]
  BY <1>4 DEF Memory
<1>6. s = [h EXCEPT !.next = nx, !.prev = pv, !.owner = ow, !.nobjects = no,
                    !.nbytes = nb, !.nmallocs = nm, !.nfrees = nf]
  <2>1. h.owner = [b \in Blocks |-> h.owner[b]] BY DEF Memory
  <2>2. QED BY <2>1 DEF Clear
<1> HIDE DEF s, nx, pv, ow, no, nb, nm, nf
<1>7. s \in Memory BY <1>2, <1>3, <1>5, <1>6 DEF Memory
<1>8. /\ s.next = nx /\ s.prev = pv /\ s.owner = ow /\ s.up = h.up /\ s.halt = h.halt
  BY <1>6 DEF Memory
<1>9. QED BY <1>7, <1>8 DEF s, nx, pv, ow

LEMMA ClearGood ==
  ASSUME NEW h, Good(h), NEW z \in Zones
  PROVE  LET s == Clear(h, z)
         IN  /\ Good(s) /\ s.up = h.up
             /\ SameOwned(h, s) \/ Clears(h, s, z)
<1> DEFINE s == Clear(h, z)
<1>1. CASE h.nobjects[z] # Cardinality(Ring(h, z)) BY <1>1, HaltGood DEF Clear
<1>2. CASE h.nobjects[z] = Cardinality(Ring(h, z))
  <2>0. h \in Memory /\ Linked(h) /\ Reach(h) BY DEF Good
  <2>1. /\ s \in Memory /\ s.up = h.up
        /\ s.next = [h.next EXCEPT ![z] = z] /\ s.prev = [h.prev EXCEPT ![z] = z]
        /\ s.owner = [b \in Blocks |-> IF b \in Ring(h, z) THEN Null ELSE h.owner[b]]
    BY <1>2, <2>0, ClearFields
  <2> HIDE DEF s
  <2>2. Ring(h, z) = Owned(h, z) BY RingIsOwned
  <2>3. \A b \in Blocks : s.owner[b] = IF h.owner[b] = z THEN Null ELSE h.owner[b]
    BY <2>1, <2>2 DEF Owned
  <2>4. /\ h.next \in [Node -> Node] /\ h.prev \in [Node -> Node]
        /\ h.owner \in [Blocks -> Zones \cup {Null}]
    BY <2>0 DEF Memory
  <2>5. Clears(h, s, z) BY <2>3, Apart DEF Clears, Owned
  <2>6. Live(s) = Live(h) \ Owned(h, z) BY <2>3, Apart DEF Live, Owned
  <2>7. /\ s.next[z] = z /\ s.prev[z] = z
        /\ \A m \in Node : m # z => s.next[m] = h.next[m] /\ s.prev[m] = h.prev[m]
    BY <2>1, <2>4, Apart
  <2>8. \A m \in Live(s) \cup Zones : m # z =>
          /\ m \in Live(h) \cup Zones /\ m \in Node
          /\ Home(h, m) # z /\ Home(s, m) = Home(h, m)
    BY <2>3, <2>6, Apart DEF Home, Live, Owned
  <2>9. \A m \in Live(h) \cup Zones : Home(h, m) # z =>
          m # z /\ m \in Live(s) \cup Zones
    BY <2>6 DEF Home, Owned, Live
  <2>10. Linked(s)
    <3>1. SUFFICES ASSUME NEW m \in Live(s) \cup Zones
          PROVE /\ s.next[m] \in Live(s) \cup Zones /\ s.prev[m] \in Live(s) \cup Zones
                /\ s.next[s.prev[m]] = m /\ s.prev[s.next[m]] = m
                /\ Home(s, s.next[m]) = Home(s, m)
      BY DEF Linked
    <3>2. CASE m = z BY <2>7, <3>2
    <3>3. CASE m # z
      <4>1. /\ m \in Live(h) \cup Zones /\ m \in Node /\ Home(h, m) # z
            /\ Home(s, m) = Home(h, m)
        BY <2>8, <3>3
      <4>2. /\ h.next[m] \in Live(h) \cup Zones /\ h.prev[m] \in Live(h) \cup Zones
            /\ h.next[h.prev[m]] = m /\ h.prev[h.next[m]] = m
            /\ Home(h, h.next[m]) = Home(h, m) /\ Home(h, h.prev[m]) = Home(h, m)
        BY <2>0, <4>1, LinkedFields
      <4>3. s.next[m] = h.next[m] /\ s.prev[m] = h.prev[m] BY <2>7, <3>3, <4>1
      <4>4. /\ h.next[m] # z /\ h.next[m] \in Live(s) \cup Zones
            /\ h.prev[m] # z /\ h.prev[m] \in Live(s) \cup Zones
        BY <2>9, <4>1, <4>2
      <4>5. QED BY <2>7, <2>8, <4>1, <4>2, <4>3, <4>4
    <3>4. QED BY <3>2, <3>3
  <2>11. Reach(s)
    <3>1. SUFFICES ASSUME NEW y \in Zones, y # z, NEW S \in SUBSET Blocks,
                          Closed(s, y, S)
                   PROVE  Owned(h, y) \subseteq S
      BY <2>5 DEF Reach, Clears
    <3>2. \A c \in S \cup {y} : s.next[c] = h.next[c] BY <2>7, <3>1, Apart
    <3>3. Closed(h, y, S) BY <3>1, <3>2 DEF Closed
    <3>4. QED BY <2>0, <3>3 DEF Reach
  <2>12. QED BY <2>1, <2>5, <2>10, <2>11 DEF Good, s
<1>3. QED BY <1>1, <1>2

LEMMA DestroyGood ==
  ASSUME NEW h, Good(h), NEW z \in Zones
  PROVE  LET s == Destroy(h, z)
         IN  Good(s) /\ (SameOwned(h, s) \/ Clears(h, s, z))
<1> DEFINE c == Clear(h, z)
           s == Destroy(h, z)
<1>1. Good(c) /\ (SameOwned(h, c) \/ Clears(h, c, z)) BY ClearGood
<1>2. s = c \/ s = [c EXCEPT !.up = c.up \ {z}] BY DEF Destroy
<1> HIDE DEF c, s
<1>3. s \in Memory /\ SameRings(c, s) BY <1>1, <1>2 DEF Good, Memory, SameRings
<1>4. Good(s) /\ \A y : Owned(s, y) = Owned(c, y) BY <1>1, <1>3, SameRingsGood
<1>5. QED BY <1>1, <1>4 DEF s, SameOwned, Clears

-----------------------------------------------------------------------------
(* The state machine.                                                      *)

IInv == Good(mem)

LEMMA InitIInv == Init => IInv
<1> SUFFICES ASSUME Init PROVE Good(mem) BY DEF IInv
<1>1. 0 \in Counter
  <2>1. Wrap(0) \in Counter BY WrapType
  <2>2. Modulus \in Nat BY ModulusAssumption
  <2>3. QED BY <2>1, <2>2 DEF Counter
<1>2. mem \in Memory BY <1>1 DEF Init, Memory
<1>3. /\ \A n \in Node : mem.next[n] = n /\ mem.prev[n] = n
      /\ \A b \in Blocks : mem.owner[b] = Null
  BY DEF Init
<1>4. Live(mem) = {} BY <1>3 DEF Live
<1>5. Linked(mem) BY <1>3, <1>4, Apart DEF Linked, Home
<1>6. Reach(mem) BY <1>3, Apart DEF Reach, Owned
<1>7. QED BY <1>2, <1>5, <1>6 DEF Good

(* What a malloc of block b in zone z does to the owned sets.              *)
Takes(h, s, z, b) ==
  \A y \in Zones : Owned(s, y) = IF y = z THEN Owned(h, y) \cup {b} ELSE Owned(h, y)
Moves(h, s, z, b, p) ==
  \A y \in Zones :
    Owned(s, y) = (IF y = z THEN Owned(h, y) \cup {b} ELSE Owned(h, y)) \ {p}

(* Each step keeps the rings good and is a step of ZoneSpec or a stutter.  *)
Effect(h, s) ==
  \/ SameOwned(h, s)
  \/ \E p \in Live(h) : Gives(h, s, p)
  \/ \E z \in Zones : Clears(h, s, z)
  \/ \E z \in Zones, b \in Blocks \ Live(h) :
       Takes(h, s, z, b) \/ \E p \in Live(h) : Moves(h, s, z, b, p)

LEMMA StepEffect ==
  ASSUME IInv, Next
  PROVE  IInv' /\ Effect(mem, mem')
<1>0. Good(mem) BY DEF IInv
<1>1. PICK z \in mem.up :
        DoMalloc(z) \/ DoFree(z) \/ DoRealloc(z) \/ DoClear(z) \/ DoDestroy(z)
  BY DEF Next
<1>2. z \in Zones BY <1>0, <1>1 DEF Good, Memory
<1>3. Mine(z) \cup {Null} \subseteq Live(mem) \cup {Null}
  BY <1>2, Apart DEF Mine, Owned, Live
<1>4. Sizes \subseteq Nat BY SizesAssumption
<1>5. CASE DoMalloc(z)
  <2>1. PICK b \in Blocks \ Live(mem), n \in Sizes : mem' = Malloc(mem, z, b, n)
    BY <1>5 DEF DoMalloc
  <2>2. n \in Nat BY <1>4
  <2>3. Good(mem') /\ Takes(mem, mem', z, b)
    BY <1>0, <1>2, <2>1, <2>2, MallocGood DEF Takes
  <2>4. QED BY <1>2, <2>3 DEF IInv, Effect
<1>6. CASE DoFree(z)
  <2>1. PICK p \in Mine(z) \cup {Null} : mem' = Free(mem, z, p) BY <1>6 DEF DoFree
  <2>2. Good(mem') /\ (SameOwned(mem, mem') \/ (p \in Live(mem) /\ Gives(mem, mem', p)))
    BY <1>0, <1>2, <1>3, <2>1, FreeGood
  <2>3. QED BY <2>2 DEF IInv, Effect
<1>7. CASE DoRealloc(z)
  <2>1. PICK p \in Mine(z) \cup {Null}, b \in Blocks \ Live(mem), n \in Sizes :
          mem' = Realloc(mem, z, p, b, n)
    BY <1>7 DEF DoRealloc
  <2> DEFINE u == Malloc(mem, z, b, n)
  <2>2. n \in Nat BY <1>4
  <2>3. Good(u) /\ Takes(mem, u, z, b) /\ Live(u) = Live(mem) \cup {b}
    BY <1>0, <1>2, <2>2, MallocGood DEF Takes
  <2>4. mem' = Free(u, z, p) BY <2>1 DEF Realloc
  <2> HIDE DEF u
  <2>5. p \in Live(u) \cup {Null} /\ p # b
    BY <1>3, <2>1, <2>3, Apart
  <2>6. Good(mem') /\ (SameOwned(u, mem') \/ (p \in Live(u) /\ Gives(u, mem', p)))
    BY <1>2, <2>3, <2>4, <2>5, FreeGood
  <2>7. CASE SameOwned(u, mem')
    <3>1. Takes(mem, mem', z, b) BY <2>3, <2>7 DEF SameOwned, Takes
    <3>2. QED BY <1>2, <2>1, <2>6, <3>1 DEF IInv, Effect
  <2>8. CASE p \in Live(u) /\ Gives(u, mem', p)
    <3>1. Moves(mem, mem', z, b, p) BY <2>3, <2>8 DEF Gives, Takes, Moves
    <3>2. p \in Live(mem) BY <2>3, <2>5, <2>8
    <3>3. QED BY <1>2, <2>1, <2>6, <3>1, <3>2 DEF IInv, Effect
  <2>9. QED BY <2>6, <2>7, <2>8
<1>8. CASE DoClear(z)
  <2>1. Good(mem') /\ (SameOwned(mem, mem') \/ Clears(mem, mem', z))
    BY <1>0, <1>2, <1>8, ClearGood DEF DoClear
  <2>2. QED BY <1>2, <2>1 DEF IInv, Effect
<1>9. CASE DoDestroy(z)
  <2>1. Good(mem') /\ (SameOwned(mem, mem') \/ Clears(mem, mem', z))
    BY <1>0, <1>2, <1>9, DestroyGood DEF DoDestroy
  <2>2. QED BY <1>2, <2>1 DEF IInv, Effect
<1>10. QED BY <1>1, <1>5, <1>6, <1>7, <1>8, <1>9

LEMMA Invariance == Spec => []IInv
<1>1. IInv /\ UNCHANGED mem => IInv' BY DEF IInv
<1>2. IInv /\ [Next]_mem => IInv' BY <1>1, StepEffect
<1>3. QED BY InitIInv, <1>2, PTL DEF Spec

(* The memory always has its type: the counters stay within size_t and     *)
(* every link points at a block or a header.                               *)
THEOREM TypeCorrect == Spec => []TypeOK
<1>1. IInv => TypeOK BY DEF IInv, Good, TypeOK
<1>2. QED BY <1>1, Invariance, PTL

(* No sequence of malloc, free, realloc and clear in any number of zones   *)
(* breaks or mixes the rings, freeing through the wrong zone included.     *)
THEOREM RingsStayLinked == Spec => []RingsLinked
<1>1. IInv => RingsLinked BY DEF IInv, Good, RingsLinked
<1>2. QED BY <1>1, Invariance, PTL

(* The ring met from a header is always exactly what its zone handed out   *)
(* and nobody freed.                                                       *)
THEOREM RingsStayComplete == Spec => []RingsComplete
<1>1. IInv => RingsComplete BY RingIsOwned DEF IInv, RingsComplete
<1>2. QED BY <1>1, Invariance, PTL

-----------------------------------------------------------------------------
(* The zones implement ZoneSpec.                                           *)

OwnedMap(h) == [z \in Zones |-> Ring(h, z)]

LEMMA OwnedMapFacts ==
  ASSUME NEW h, Good(h)
  PROVE  /\ \A z \in Zones : OwnedMap(h)[z] = Owned(h, z)
         /\ UNION {OwnedMap(h)[z] : z \in Zones} = Live(h)
<1>1. \A z \in Zones : OwnedMap(h)[z] = Owned(h, z) BY RingIsOwned DEF OwnedMap
<1>2. h.owner \in [Blocks -> Zones \cup {Null}] BY DEF Good, Memory
<1>3. UNION {Owned(h, z) : z \in Zones} = Live(h)
  BY <1>2, Apart DEF Owned, Live
<1>4. QED BY <1>1, <1>3

(* The steps of ZoneSpec, on two values of owned.                          *)
AbstractStep(o, o1) ==
  \/ o1 = o
  \/ \E z \in Zones :
       \/ \E b \in Blocks \ UNION {o[y] : y \in Zones} :
            o1 = [o EXCEPT ![z] = @ \cup {b}]
       \/ \E b \in o[z] : o1 = [o EXCEPT ![z] = @ \ {b}]
       \/ \E b \in Blocks \ UNION {o[y] : y \in Zones},
             p \in UNION {o[y] : y \in Zones} :
            o1 = [x \in Zones |-> IF x = z THEN (o[x] \cup {b}) \ {p} ELSE o[x] \ {p}]
       \/ o1 = [o EXCEPT ![z] = {}]

LEMMA EffectIsAbstract ==
  ASSUME NEW h, NEW s, Good(h), Good(s), Effect(h, s)
  PROVE  AbstractStep(OwnedMap(h), OwnedMap(s))
<1> DEFINE o == OwnedMap(h)
           o1 == OwnedMap(s)
<1>1. /\ o = [z \in Zones |-> o[z]] /\ o1 = [z \in Zones |-> o1[z]]
      /\ DOMAIN o = Zones /\ DOMAIN o1 = Zones
  BY DEF OwnedMap
<1>2. /\ \A z \in Zones : o[z] = Owned(h, z) /\ o1[z] = Owned(s, z)
      /\ UNION {o[y] : y \in Zones} = Live(h)
  BY OwnedMapFacts
<1> HIDE DEF o, o1
<1>3. CASE SameOwned(h, s)
  <2>1. o1 = o BY <1>1, <1>2, <1>3 DEF SameOwned
  <2>2. QED BY <2>1 DEF AbstractStep, o, o1
<1>4. CASE \E p \in Live(h) : Gives(h, s, p)
  <2>1. PICK p \in Live(h) : Gives(h, s, p) BY <1>4
  <2> DEFINE z == h.owner[p]
  <2>2. h.owner \in [Blocks -> Zones \cup {Null}] BY DEF Good, Memory
  <2>3. z \in Zones /\ p \in Owned(h, z) BY <2>2 DEF Live, Owned
  <2>4. \A y \in Zones : y # z => p \notin Owned(h, y) BY DEF Owned
  <2> HIDE DEF z
  <2>5. \A y \in Zones : o1[y] = IF y = z THEN o[y] \ {p} ELSE o[y]
    BY <1>2, <2>1, <2>4 DEF Gives
  <2>6. o1 = [o EXCEPT ![z] = @ \ {p}] BY <1>1, <2>3, <2>5
  <2>7. p \in o[z] BY <1>2, <2>3
  <2>8. QED BY <2>3, <2>6, <2>7 DEF AbstractStep, o, o1
<1>5. CASE \E z \in Zones : Clears(h, s, z)
  <2>1. PICK z \in Zones : Clears(h, s, z) BY <1>5
  <2>2. \A y \in Zones : o1[y] = IF y = z THEN {} ELSE o[y]
    BY <1>2, <2>1 DEF Clears
  <2>3. o1 = [o EXCEPT ![z] = {}] BY <1>1, <2>2
  <2>4. QED BY <2>3 DEF AbstractStep, o, o1
<1>6. CASE \E z \in Zones, b \in Blocks \ Live(h) : Takes(h, s, z, b)
  <2>1. PICK z \in Zones, b \in Blocks \ Live(h) : Takes(h, s, z, b) BY <1>6
  <2>2. \A y \in Zones : o1[y] = IF y = z THEN o[y] \cup {b} ELSE o[y]
    BY <1>2, <2>1 DEF Takes
  <2>3. o1 = [o EXCEPT ![z] = @ \cup {b}] BY <1>1, <2>2
  <2>4. QED BY <1>2, <2>3 DEF AbstractStep, o, o1
<1>7. CASE \E z \in Zones, b \in Blocks \ Live(h), p \in Live(h) : Moves(h, s, z, b, p)
  <2>1. PICK z \in Zones, b \in Blocks \ Live(h), p \in Live(h) : Moves(h, s, z, b, p)
    BY <1>7
  <2>2. \A y \in Zones :
          o1[y] = IF y = z THEN (o[y] \cup {b}) \ {p} ELSE o[y] \ {p}
    BY <1>2, <2>1 DEF Moves
  <2>3. o1 = [y \in Zones |-> IF y = z THEN (o[y] \cup {b}) \ {p} ELSE o[y] \ {p}]
    BY <1>1, <2>2
  <2>4. b \in Blocks \ UNION {o[y] : y \in Zones} /\ p \in UNION {o[y] : y \in Zones}
    BY <1>2, <2>1
  <2>5. AbstractStep(o, o1) BY <2>1, <2>3, <2>4, ZenonT(30) DEF AbstractStep
  <2>6. QED BY <2>5 DEF o, o1
<1>8. QED BY <1>3, <1>4, <1>5, <1>6, <1>7 DEF Effect

ownedBar == OwnedMap(mem)

(* The rings and counters implement sets of owned blocks: whatever the     *)
(* callers do, a block is handed out again only after it was given back,   *)
(* and never to two zones.                                                 *)
THEOREM ZonesImplementZoneSpec == Spec => ImplementsZoneSpec
<1>1. Init => Abstract!Init
  <2>1. SUFFICES ASSUME Init PROVE OwnedMap(mem) = [z \in Zones |-> {}]
    BY DEF Abstract!Init, OwnedMap
  <2>2. Good(mem) BY InitIInv, <2>1 DEF IInv
  <2>3. \A z \in Zones : Owned(mem, z) = {}
    BY <2>1, Apart DEF Init, Owned
  <2>4. QED BY <2>2, <2>3, RingIsOwned DEF OwnedMap
<1>2. IInv /\ Next => [Abstract!Next]_ownedBar
  <2>1. SUFFICES ASSUME IInv, Next PROVE [Abstract!Next]_ownedBar OBVIOUS
  <2>2. IInv' /\ Effect(mem, mem') BY <2>1, StepEffect
  <2>3. Good(mem) /\ Good(mem') BY <2>1, <2>2 DEF IInv
  <2>4. AbstractStep(OwnedMap(mem), OwnedMap(mem')) BY <2>2, <2>3, EffectIsAbstract
  <2>5. QED
    BY <2>4 DEF AbstractStep, ownedBar, OwnedMap, Abstract!Next, Abstract!Malloc, Abstract!Free,
                Abstract!Realloc, Abstract!Clear, Abstract!Taken
<1>3. UNCHANGED mem => UNCHANGED ownedBar BY DEF ownedBar, OwnedMap, Ring, Closed
<1>4. QED
  <2>1. IInv /\ [Next]_mem => [Abstract!Next]_ownedBar BY <1>2, <1>3
  <2>2. QED
    BY <1>1, <2>1, Invariance, PTL
    DEF Spec, ImplementsZoneSpec, Abstract!Spec, ownedBar, OwnedMap

-----------------------------------------------------------------------------
(* The counters, as long as every object is freed in the zone it came      *)
(* from.  Their wrapping is carried along: a counter is the remainder of   *)
(* what it counts, which adding and subtracting preserve.                  *)

LEMMA WrapAdd ==
  ASSUME NEW a \in Int, NEW b \in Int
  PROVE  Wrap(Wrap(a) + b) = Wrap(a + b)
<1>1. Modulus \in Nat \ {0} BY BlocksAssumption, ModulusAssumption, FS_CardinalityType
<1>2. QED BY <1>1, RemainderAdd DEF Wrap

LEMMA WrapSubtract ==
  ASSUME NEW a \in Int, NEW b \in Int
  PROVE  Wrap(a - Wrap(b)) = Wrap(a - b)
<1>1. Modulus \in Nat \ {0} BY BlocksAssumption, ModulusAssumption, FS_CardinalityType
<1>2. QED BY <1>1, RemainderSubtract DEF Wrap

LEMMA WrapSmall ==
  ASSUME NEW a \in Nat, a < Modulus
  PROVE  Wrap(a) = a
<1>1. Modulus \in Nat \ {0} BY ModulusAssumption
<1>2. Modulus * 0 + a = a BY <1>1
<1>3. a \in 0..Modulus - 1 BY <1>1
<1>4. QED BY <1>1, <1>2, <1>3, RemainderIs DEF Wrap

Bytes(h, z) == Total(h.size, Owned(h, z))

ZoneBalanced(h, z) ==
  /\ h.nobjects[z] = Cardinality(Owned(h, z))
  /\ h.nbytes[z] = Wrap(Bytes(h, z))
  /\ h.nobjects[z] = Wrap(h.nmallocs[z] - h.nfrees[z])

Balanced(h) == \A z \in Zones : ZoneBalanced(h, z)

(* The asserts on the counts: the one on the bytes fails in a zone whose    *)
(* objects have none, or wrap the counter, and no other one fails.          *)
Halted(h) ==
  \/ h.halt = "no"
  \/ h.halt = "nbytes" /\ \E z \in Zones : Owned(h, z) # {} /\ Wrap(Bytes(h, z)) = 0

Sound(h) == Good(h) /\ Balanced(h) /\ Halted(h)

LEMMA OwnedFacts ==
  ASSUME NEW h \in Memory, NEW z \in Zones
  PROVE  /\ Owned(h, z) \subseteq Blocks /\ IsFiniteSet(Owned(h, z))
         /\ Cardinality(Owned(h, z)) \in Nat
         /\ Cardinality(Owned(h, z)) <= Cardinality(Blocks)
         /\ Cardinality(Blocks) \in Nat
         /\ \A b \in Blocks : h.size[b] \in Nat
         /\ Bytes(h, z) \in Nat
<1>1. Owned(h, z) \subseteq Blocks BY DEF Owned
<1>2. IsFiniteSet(Owned(h, z)) /\ Cardinality(Owned(h, z)) <= Cardinality(Blocks)
  BY <1>1, BlocksAssumption, FS_Subset
<1>3. Cardinality(Owned(h, z)) \in Nat /\ Cardinality(Blocks) \in Nat
  BY <1>2, BlocksAssumption, FS_CardinalityType
<1>4. \A b \in Blocks : h.size[b] \in Nat BY DEF Memory
<1>5. Bytes(h, z) \in Nat BY <1>1, <1>4, BlocksAssumption, TotalRemove DEF Bytes
<1>6. QED BY <1>1, <1>2, <1>3, <1>4, <1>5

(* A zone that nothing was done to keeps its balance.                      *)
LEMMA OtherBalanced ==
  ASSUME NEW h \in Memory, NEW s \in Memory, NEW y \in Zones, ZoneBalanced(h, y),
         Owned(s, y) = Owned(h, y), \A b \in Owned(h, y) : s.size[b] = h.size[b],
         s.nobjects[y] = h.nobjects[y], s.nbytes[y] = h.nbytes[y],
         s.nmallocs[y] = h.nmallocs[y], s.nfrees[y] = h.nfrees[y]
  PROVE  ZoneBalanced(s, y)
<1>1. \A b \in Owned(h, y) : h.size[b] \in Nat /\ s.size[b] = h.size[b] BY OwnedFacts
<1>2. IsFiniteSet(Owned(h, y)) BY OwnedFacts
<1>3. Total(s.size, Owned(h, y)) = Total(h.size, Owned(h, y)) BY <1>1, <1>2, TotalSame
<1>4. QED BY <1>3 DEF ZoneBalanced, Bytes

LEMMA MallocCounts ==
  ASSUME NEW h \in Memory, NEW z \in Zones, NEW b \in Blocks, NEW n \in Nat
  PROVE  LET s == Malloc(h, z, b, n)
         IN  /\ s.size = [h.size EXCEPT ![b] = n] /\ s.nfrees = h.nfrees
             /\ s.nobjects = [h.nobjects EXCEPT ![z] = Wrap(@ + 1)]
             /\ s.nbytes = [h.nbytes EXCEPT ![z] = Wrap(@ + n)]
             /\ s.nmallocs = [h.nmallocs EXCEPT ![z] = Wrap(@ + 1)]
<1> DEFINE s == Malloc(h, z, b, n)
           nx == [h.next EXCEPT ![b] = h.next[z], ![z] = b]
           pv == [h.prev EXCEPT ![b] = z, ![h.next[z]] = b]
           sz == [h.size EXCEPT ![b] = n]
           ow == [h.owner EXCEPT ![b] = z]
           no == [h.nobjects EXCEPT ![z] = Wrap(@ + 1)]
           nb == [h.nbytes EXCEPT ![z] = Wrap(@ + n)]
           nm == [h.nmallocs EXCEPT ![z] = Wrap(@ + 1)]
<1>1. s = [h EXCEPT !.next = nx, !.prev = pv, !.size = sz, !.owner = ow,
                    !.nobjects = no, !.nbytes = nb, !.nmallocs = nm]
  BY DEF Malloc
<1> HIDE DEF s, nx, pv, sz, ow, no, nb, nm
<1>2. /\ s.size = sz /\ s.nfrees = h.nfrees /\ s.nobjects = no /\ s.nbytes = nb
      /\ s.nmallocs = nm
  BY <1>1 DEF Memory
<1>3. QED BY <1>2 DEF s, sz, no, nb, nm

LEMMA MallocSound ==
  ASSUME NEW h, Sound(h), h.halt = "no",
         NEW z \in Zones, NEW b \in Blocks \ Live(h), NEW n \in Sizes
  PROVE  Sound(Malloc(h, z, b, n)) /\ Malloc(h, z, b, n).halt = "no"
<1> DEFINE s == Malloc(h, z, b, n)
<1>1. Good(h) /\ Balanced(h) /\ h \in Memory BY DEF Sound, Good
<1>2. n \in Nat /\ b \in Blocks BY SizesAssumption
<1>3. /\ Good(s) /\ s.halt = h.halt
      /\ Owned(s, z) = Owned(h, z) \cup {b}
      /\ \A y \in Zones \ {z} : Owned(s, y) = Owned(h, y)
      /\ Live(s) = Live(h) \cup {b}
  BY <1>1, <1>2, MallocGood
<1>4. /\ s.size = [h.size EXCEPT ![b] = n] /\ s.nfrees = h.nfrees
      /\ s.nobjects = [h.nobjects EXCEPT ![z] = Wrap(@ + 1)]
      /\ s.nbytes = [h.nbytes EXCEPT ![z] = Wrap(@ + n)]
      /\ s.nmallocs = [h.nmallocs EXCEPT ![z] = Wrap(@ + 1)]
  BY <1>1, <1>2, MallocCounts
<1> HIDE DEF s
<1>5. s \in Memory BY <1>3 DEF Good
<1>6. /\ h.size \in [Blocks -> Nat] /\ h.nobjects \in [Zones -> Counter]
      /\ h.nbytes \in [Zones -> Counter] /\ h.nmallocs \in [Zones -> Counter]
      /\ h.nfrees \in [Zones -> Counter]
  BY <1>1 DEF Memory
<1>7. s.size[b] = n /\ \A c \in Blocks \ {b} : s.size[c] = h.size[c] BY <1>2, <1>4, <1>6
<1>8. \A y \in Zones : b \notin Owned(h, y) BY Apart DEF Owned, Live
<1>9. ASSUME NEW y \in Zones, y # z PROVE ZoneBalanced(s, y)
  <2>1. Owned(s, y) = Owned(h, y) /\ ZoneBalanced(h, y) BY <1>1, <1>3, <1>9 DEF Balanced
  <2>2. \A c \in Owned(h, y) : s.size[c] = h.size[c] BY <1>7, <1>8 DEF Owned
  <2>3. /\ s.nobjects[y] = h.nobjects[y] /\ s.nbytes[y] = h.nbytes[y]
        /\ s.nmallocs[y] = h.nmallocs[y] /\ s.nfrees[y] = h.nfrees[y]
    BY <1>4, <1>6, <1>9
  <2>4. QED BY <1>1, <1>5, <2>1, <2>2, <2>3, OtherBalanced
<1>10. ZoneBalanced(s, z)
  <2> DEFINE O == Owned(h, z)
             P == Owned(s, z)
             T == Total(h.size, O)
  <2>1. /\ O \subseteq Blocks /\ IsFiniteSet(O) /\ Cardinality(O) \in Nat
        /\ \A c \in Blocks : h.size[c] \in Nat /\ T \in Nat
    BY <1>1, OwnedFacts DEF Bytes
  <2>2. P \subseteq Blocks /\ Cardinality(P) <= Cardinality(Blocks)
        /\ Cardinality(P) \in Nat /\ Cardinality(Blocks) \in Nat
        /\ \A c \in Blocks : s.size[c] \in Nat
    BY <1>5, OwnedFacts
  <2>3. b \notin O /\ P = O \cup {b} BY <1>3, <1>8
  <2>4. ZoneBalanced(h, z) BY <1>1 DEF Balanced
  <2>5. h.nobjects[z] = Cardinality(O) /\ h.nbytes[z] = Wrap(T)
        /\ h.nobjects[z] = Wrap(h.nmallocs[z] - h.nfrees[z])
    BY <2>4 DEF ZoneBalanced, Bytes
  <2>6. /\ s.nobjects[z] = Wrap(h.nobjects[z] + 1) /\ s.nbytes[z] = Wrap(h.nbytes[z] + n)
        /\ s.nmallocs[z] = Wrap(h.nmallocs[z] + 1) /\ s.nfrees[z] = h.nfrees[z]
    BY <1>4, <1>6
  <2> HIDE DEF O, P, T
  <2>7. h.nmallocs[z] \in Int /\ h.nfrees[z] \in Int BY <1>6 DEF Counter
  <2>8. Cardinality(P) = Cardinality(O) + 1 BY <2>1, <2>3, FS_AddElement
  <2>9. s.nobjects[z] = Cardinality(P)
    <3>1. Cardinality(P) < Modulus BY <2>2, ModulusAssumption
    <3>2. QED BY <2>2, <2>5, <2>6, <2>8, <3>1, WrapSmall
  <2>10. Total(s.size, P) = n + T
    <3>1. Total(s.size, P) = s.size[b] + Total(s.size, P \ {b})
      BY <2>2, <2>3, BlocksAssumption, TotalRemove
    <3>2. P \ {b} = O BY <2>3
    <3>3. \A c \in O : h.size[c] \in Nat /\ s.size[c] = h.size[c] BY <1>7, <2>1, <2>3
    <3>4. Total(s.size, O) = T BY <2>1, <3>3, TotalSame DEF T
    <3>5. QED BY <1>7, <3>1, <3>2, <3>4
  <2>11. s.nbytes[z] = Wrap(Total(s.size, P))
    <3>1. s.nbytes[z] = Wrap(T + n) BY <1>2, <2>1, <2>5, <2>6, WrapAdd
    <3>2. T + n = n + T BY <1>2, <2>1
    <3>3. QED BY <2>10, <3>1, <3>2
  <2>12. s.nobjects[z] = Wrap(s.nmallocs[z] - s.nfrees[z])
    <3> DEFINE m == h.nmallocs[z]
               f == h.nfrees[z]
    <3>1. s.nobjects[z] = Wrap(Wrap(m - f) + 1) BY <2>5, <2>6
    <3>2. s.nmallocs[z] - s.nfrees[z] = Wrap(m + 1) - f BY <2>6
    <3>3. m \in Int /\ f \in Int BY <2>7
    <3> HIDE DEF m, f
    <3>4. Wrap(Wrap(m - f) + 1) = Wrap((m - f) + 1)
      <4>1. m - f \in Int BY <3>3
      <4>2. QED BY <4>1, WrapAdd
    <3>5. Wrap(Wrap(m + 1) + (0 - f)) = Wrap((m + 1) + (0 - f))
      <4>1. m + 1 \in Int /\ 0 - f \in Int BY <3>3
      <4>2. QED BY <4>1, WrapAdd
    <3>6. Wrap(m + 1) \in Int
      <4>1. m + 1 \in Int BY <3>3
      <4>2. Wrap(m + 1) \in Counter BY <4>1, WrapType
      <4>3. QED BY <4>2 DEF Counter
    <3>7. Wrap(m + 1) - f = Wrap(m + 1) + (0 - f) BY <3>3, <3>6
    <3>8. (m + 1) + (0 - f) = (m - f) + 1 BY <3>3
    <3>9. QED BY <3>1, <3>2, <3>4, <3>5, <3>7, <3>8
  <2>13. QED BY <2>9, <2>11, <2>12 DEF ZoneBalanced, Bytes, P
<1>11. Balanced(s) BY <1>9, <1>10 DEF Balanced
<1>12. QED BY <1>3, <1>11 DEF Sound, Halted, s

LEMMA HaltFields ==
  ASSUME NEW h \in Memory, NEW why
  PROVE  LET s == Halt(h, why)
         IN  /\ s.size = h.size /\ s.owner = h.owner /\ s.halt = why
             /\ s.nobjects = h.nobjects /\ s.nbytes = h.nbytes
             /\ s.nmallocs = h.nmallocs /\ s.nfrees = h.nfrees
BY DEF Halt, Memory

LEMMA FreeCounts ==
  ASSUME NEW h, Good(h), NEW z \in Zones, NEW p \in Live(h),
         h.nobjects[z] # 0, h.nbytes[z] # 0
  PROVE  LET s == Free(h, z, p)
         IN  /\ Good(s) /\ s.halt = h.halt /\ s.size = h.size
             /\ Gives(h, s, p) /\ Live(s) = Live(h) \ {p}
             /\ s.nobjects = [h.nobjects EXCEPT ![z] = Wrap(@ - 1)]
             /\ s.nbytes = [h.nbytes EXCEPT ![z] = Wrap(@ - h.size[p])]
             /\ s.nmallocs = h.nmallocs
             /\ s.nfrees = [h.nfrees EXCEPT ![z] = Wrap(@ + 1)]
<1> DEFINE s == Free(h, z, p)
           u == Unlink(h, p)
           nx == [h.next EXCEPT ![h.prev[p]] = h.next[p]]
           pv == [h.prev EXCEPT ![h.next[p]] = h.prev[p]]
           ow == [h.owner EXCEPT ![p] = Null]
           no == [u.nobjects EXCEPT ![z] = Wrap(@ - 1)]
           nb == [u.nbytes EXCEPT ![z] = Wrap(@ - h.size[p])]
           nf == [u.nfrees EXCEPT ![z] = Wrap(@ + 1)]
<1>1. p # Null /\ h \in Memory BY Apart DEF Good, Live
<1>2. s = [u EXCEPT !.nobjects = no, !.nbytes = nb, !.nfrees = nf] BY <1>1 DEF Free
<1>3. u = [h EXCEPT !.next = nx, !.prev = pv, !.owner = ow] BY DEF Unlink
<1>4. Good(s) BY FreeGood
<1>5. Good(u) /\ u.halt = h.halt /\ Gives(h, u, p) /\ Live(u) = Live(h) \ {p}
  BY UnlinkGood DEF Gives
<1> HIDE DEF u, s, nx, pv, ow
<1>6. /\ u.size = h.size /\ u.nobjects = h.nobjects /\ u.nbytes = h.nbytes
      /\ u.nmallocs = h.nmallocs /\ u.nfrees = h.nfrees
  BY <1>1, <1>3 DEF Memory
<1> HIDE DEF no, nb, nf
<1>7. u \in Memory BY <1>5 DEF Good
<1>8. /\ s.size = u.size /\ s.nobjects = no /\ s.nbytes = nb /\ s.nmallocs = u.nmallocs
      /\ s.nfrees = nf /\ s.owner = u.owner /\ s.halt = u.halt
  BY <1>2, <1>7 DEF Memory
<1>9. Gives(h, s, p) BY <1>5, <1>8 DEF Gives, Owned
<1>10. Live(s) = Live(h) \ {p} BY <1>5, <1>8 DEF Live
<1>11. /\ no = [h.nobjects EXCEPT ![z] = Wrap(@ - 1)]
       /\ nb = [h.nbytes EXCEPT ![z] = Wrap(@ - h.size[p])]
       /\ nf = [h.nfrees EXCEPT ![z] = Wrap(@ + 1)]
  BY <1>6 DEF no, nb, nf
<1>12. QED BY <1>4, <1>5, <1>6, <1>8, <1>9, <1>10, <1>11 DEF s

LEMMA HaltSound ==
  ASSUME NEW h, Sound(h), NEW z \in Zones, Owned(h, z) # {}, h.nbytes[z] = 0
  PROVE  Sound(Halt(h, "nbytes"))
<1> DEFINE s == Halt(h, "nbytes")
<1>1. h \in Memory BY DEF Sound, Good
<1>2. Good(s) BY HaltGood DEF Sound
<1>3. /\ s.size = h.size /\ s.owner = h.owner /\ s.halt = "nbytes"
      /\ s.nobjects = h.nobjects /\ s.nbytes = h.nbytes
      /\ s.nmallocs = h.nmallocs /\ s.nfrees = h.nfrees
  BY <1>1, HaltFields
<1> HIDE DEF s
<1>4. \A y : Owned(s, y) = Owned(h, y) BY <1>3 DEF Owned
<1>5. Balanced(s) BY <1>3, <1>4 DEF Sound, Balanced, ZoneBalanced, Bytes
<1>6. s.nbytes[z] = Wrap(Bytes(s, z)) BY <1>5 DEF Balanced, ZoneBalanced
<1>7. Halted(s) BY <1>3, <1>4, <1>6 DEF Halted
<1>8. QED BY <1>2, <1>5, <1>7 DEF Sound, s

LEMMA FreeSound ==
  ASSUME NEW h, Sound(h), h.halt = "no",
         NEW z \in Zones, NEW p \in Owned(h, z) \cup {Null}
  PROVE  Sound(Free(h, z, p))
<1>1. CASE p = Null BY <1>1 DEF Free
<1>2. CASE p \in Owned(h, z)
  <2> DEFINE s == Free(h, z, p)
             O == Owned(h, z)
             P == Owned(s, z)
             T == Total(h.size, O)
  <2>1. Good(h) /\ Balanced(h) /\ h \in Memory BY DEF Sound, Good
  <2>2. p \in Live(h) /\ p \in Blocks /\ p # Null BY <1>2, Apart DEF Owned, Live
  <2>3. ZoneBalanced(h, z) BY <2>1 DEF Balanced
  <2>4. h.nobjects[z] = Cardinality(O) /\ h.nbytes[z] = Wrap(T)
        /\ h.nobjects[z] = Wrap(h.nmallocs[z] - h.nfrees[z])
    BY <2>3 DEF ZoneBalanced, Bytes
  <2>5. /\ O \subseteq Blocks /\ IsFiniteSet(O) /\ Cardinality(O) \in Nat
        /\ Cardinality(O) <= Cardinality(Blocks) /\ Cardinality(Blocks) \in Nat
        /\ \A c \in Blocks : h.size[c] \in Nat /\ T \in Nat
    BY <2>1, OwnedFacts DEF Bytes
  <2>6. Cardinality(O \ {p}) = Cardinality(O) - 1 /\ Cardinality(O \ {p}) \in Nat
    <3>1. p \in O BY <1>2
    <3> HIDE DEF O
    <3>2. IsFiniteSet(O \ {p}) /\ Cardinality(O \ {p}) = Cardinality(O) - 1
      BY <2>5, <3>1, FS_RemoveElement
    <3>3. QED BY <3>2, FS_CardinalityType
  <2>7. h.nobjects[z] # 0 BY <2>4, <2>5, <2>6
  <2>8. CASE h.nbytes[z] = 0
    <3>1. Owned(h, z) # {} BY <1>2
    <3>2. Free(h, z, p) = Halt(h, "nbytes") BY <2>2, <2>7, <2>8 DEF Free
    <3>3. QED BY <2>8, <3>1, <3>2, HaltSound
  <2>9. CASE h.nbytes[z] # 0
    <3>1. /\ Good(s) /\ s.halt = h.halt /\ s.size = h.size
          /\ Gives(h, s, p) /\ Live(s) = Live(h) \ {p}
          /\ s.nobjects = [h.nobjects EXCEPT ![z] = Wrap(@ - 1)]
          /\ s.nbytes = [h.nbytes EXCEPT ![z] = Wrap(@ - h.size[p])]
          /\ s.nmallocs = h.nmallocs
          /\ s.nfrees = [h.nfrees EXCEPT ![z] = Wrap(@ + 1)]
      BY <2>1, <2>2, <2>7, <2>9, FreeCounts
    <3> HIDE DEF s
    <3>2. s \in Memory BY <3>1 DEF Good
    <3>3. /\ h.nobjects \in [Zones -> Counter] /\ h.nbytes \in [Zones -> Counter]
          /\ h.nmallocs \in [Zones -> Counter] /\ h.nfrees \in [Zones -> Counter]
      BY <2>1 DEF Memory
    <3>4. ASSUME NEW y \in Zones, y # z PROVE ZoneBalanced(s, y)
      <4>1. p \notin Owned(h, y) BY <1>2, <3>4 DEF Owned
      <4>2. Owned(s, y) = Owned(h, y) /\ ZoneBalanced(h, y)
        BY <2>1, <3>1, <4>1 DEF Balanced, Gives
      <4>3. /\ s.nobjects[y] = h.nobjects[y] /\ s.nbytes[y] = h.nbytes[y]
            /\ s.nmallocs[y] = h.nmallocs[y] /\ s.nfrees[y] = h.nfrees[y]
        BY <3>1, <3>3, <3>4
      <4>4. \A c \in Owned(h, y) : s.size[c] = h.size[c] BY <3>1
      <4>5. QED BY <2>1, <3>2, <4>2, <4>3, <4>4, OtherBalanced
    <3>5. ZoneBalanced(s, z)
      <4>1. P = O \ {p} /\ p \in O BY <1>2, <3>1 DEF Gives
      <4>2. /\ s.nobjects[z] = Wrap(h.nobjects[z] - 1)
            /\ s.nbytes[z] = Wrap(h.nbytes[z] - h.size[p])
            /\ s.nmallocs[z] = h.nmallocs[z] /\ s.nfrees[z] = Wrap(h.nfrees[z] + 1)
        BY <3>1, <3>3
      <4> HIDE DEF O, P, T
      <4>3. h.nmallocs[z] \in Int /\ h.nfrees[z] \in Int BY <3>3 DEF Counter
      <4>4. s.nobjects[z] = Cardinality(P)
        <5>1. Cardinality(O) - 1 < Modulus BY <2>5, ModulusAssumption
        <5>2. QED BY <2>4, <2>6, <4>1, <4>2, <5>1, WrapSmall
      <4>5. T = h.size[p] + Total(h.size, P) /\ Total(h.size, P) \in Nat /\ h.size[p] \in Nat
        <5>1. O \ {p} \in SUBSET Blocks BY <2>5
        <5>2. Total(h.size, O \ {p}) \in Nat BY <2>5, <5>1, BlocksAssumption, TotalRemove
        <5>3. Total(h.size, O) = h.size[p] + Total(h.size, O \ {p})
          BY <2>5, <4>1, BlocksAssumption, TotalRemove
        <5>4. QED BY <2>2, <2>5, <4>1, <5>2, <5>3 DEF T
      <4>6. s.nbytes[z] = Wrap(Total(s.size, P))
        <5>1. 0 - h.size[p] \in Int /\ T \in Int BY <2>5, <4>5
        <5>2. Wrap(Wrap(T) + (0 - h.size[p])) = Wrap(T + (0 - h.size[p])) BY <5>1, WrapAdd
        <5>3. T + (0 - h.size[p]) = Total(h.size, P) BY <4>5
        <5>4. Wrap(T) \in Int BY <5>1, WrapType DEF Counter
        <5>5. Wrap(T) - h.size[p] = Wrap(T) + (0 - h.size[p]) BY <4>5, <5>4
        <5>6. QED BY <2>4, <3>1, <4>2, <5>2, <5>3, <5>5
      <4>7. s.nobjects[z] = Wrap(s.nmallocs[z] - s.nfrees[z])
        <5> DEFINE m == h.nmallocs[z]
                   f == h.nfrees[z]
        <5>1. s.nobjects[z] = Wrap(Wrap(m - f) - 1) BY <2>4, <4>2
        <5>2. s.nmallocs[z] - s.nfrees[z] = m - Wrap(f + 1) BY <4>2
        <5>3. m \in Int /\ f \in Int BY <4>3
        <5> HIDE DEF m, f
        <5>4. m - f \in Int /\ f + 1 \in Int /\ 0 - 1 \in Int BY <5>3
        <5>5. Wrap(Wrap(m - f) + (0 - 1)) = Wrap((m - f) + (0 - 1)) BY <5>4, WrapAdd
        <5>6. Wrap(m - Wrap(f + 1)) = Wrap(m - (f + 1)) BY <5>3, <5>4, WrapSubtract
        <5>7. Wrap(m - f) \in Int BY <5>4, WrapType DEF Counter
        <5>8. Wrap(m - f) - 1 = Wrap(m - f) + (0 - 1) BY <5>7
        <5>9. (m - f) + (0 - 1) = m - (f + 1) BY <5>3
        <5>10. QED BY <5>1, <5>2, <5>5, <5>6, <5>8, <5>9
      <4>8. QED BY <4>4, <4>6, <4>7 DEF ZoneBalanced, Bytes, P
    <3>6. Balanced(s) BY <3>4, <3>5 DEF Balanced
    <3>7. QED BY <3>1, <3>6 DEF Sound, Halted, s
  <2>10. QED BY <2>8, <2>9
<1>3. QED BY <1>1, <1>2

LEMMA ReallocSound ==
  ASSUME NEW h, Sound(h), h.halt = "no", NEW z \in Zones, NEW p \in Owned(h, z) \cup {Null},
         NEW b \in Blocks \ Live(h), NEW n \in Sizes
  PROVE  Sound(Realloc(h, z, p, b, n))
<1> DEFINE u == Malloc(h, z, b, n)
<1>1. Sound(u) /\ u.halt = "no" BY MallocSound
<1>2. n \in Nat /\ Good(h) BY SizesAssumption DEF Sound
<1>3. Owned(u, z) = Owned(h, z) \cup {b} BY <1>2, MallocGood
<1> HIDE DEF u
<1>4. p \in Owned(u, z) \cup {Null} BY <1>3
<1>5. Sound(Free(u, z, p)) BY <1>1, <1>4, FreeSound
<1>6. QED BY <1>5 DEF Realloc, u

(* Clearing a sound zone does not abort.                                   *)
LEMMA ClearCounts ==
  ASSUME NEW h, Sound(h), NEW z \in Zones
  PROVE  LET s == Clear(h, z)
         IN  /\ Good(s) /\ s.halt = h.halt /\ s.size = h.size
             /\ Clears(h, s, z) /\ Live(s) \subseteq Live(h)
             /\ s.nobjects = [h.nobjects EXCEPT ![z] = 0]
             /\ s.nbytes = [h.nbytes EXCEPT ![z] = 0]
             /\ s.nmallocs = [h.nmallocs EXCEPT ![z] = 0]
             /\ s.nfrees = [h.nfrees EXCEPT ![z] = 0]
<1> DEFINE s == Clear(h, z)
           nx == [h.next EXCEPT ![z] = z]
           pv == [h.prev EXCEPT ![z] = z]
           ow == [b \in Blocks |-> IF b \in Ring(h, z) THEN Null ELSE h.owner[b]]
           no == [h.nobjects EXCEPT ![z] = 0]
           nb == [h.nbytes EXCEPT ![z] = 0]
           nm == [h.nmallocs EXCEPT ![z] = 0]
           nf == [h.nfrees EXCEPT ![z] = 0]
<1>1. Good(h) /\ h \in Memory BY DEF Sound, Good
<1>2. Ring(h, z) = Owned(h, z) BY <1>1, RingIsOwned
<1>3. h.nobjects[z] = Cardinality(Ring(h, z))
  BY <1>2 DEF Sound, Balanced, ZoneBalanced
<1>4. s = [h EXCEPT !.next = nx, !.prev = pv, !.owner = ow, !.nobjects = no,
                    !.nbytes = nb, !.nmallocs = nm, !.nfrees = nf]
  <2>1. h.owner = [b \in Blocks |-> h.owner[b]] BY <1>1 DEF Memory
  <2>2. QED BY <1>3, <2>1 DEF Clear
<1>5. Good(s) BY <1>1, ClearGood
<1> HIDE DEF s, nx, pv, ow, no, nb, nm, nf
<1>6. /\ s.owner = ow /\ s.halt = h.halt /\ s.size = h.size /\ s.nobjects = no
      /\ s.nbytes = nb /\ s.nmallocs = nm /\ s.nfrees = nf
  BY <1>1, <1>4 DEF Memory
<1>7. \A b \in Blocks : s.owner[b] = IF h.owner[b] = z THEN Null ELSE h.owner[b]
  BY <1>2, <1>6 DEF Owned, ow
<1>8. Clears(h, s, z) BY <1>7, Apart DEF Clears, Owned
<1>9. Live(s) \subseteq Live(h) BY <1>7 DEF Live
<1>10. QED BY <1>5, <1>6, <1>8, <1>9 DEF s, no, nb, nm, nf

LEMMA ClearSound ==
  ASSUME NEW h, Sound(h), h.halt = "no", NEW z \in Zones
  PROVE  Sound(Clear(h, z)) /\ Clear(h, z).halt = "no"
<1> DEFINE s == Clear(h, z)
<1>1. Good(h) /\ Balanced(h) /\ h \in Memory BY DEF Sound, Good
<1>2. /\ Good(s) /\ s.halt = h.halt /\ s.size = h.size
      /\ Clears(h, s, z) /\ Live(s) \subseteq Live(h)
      /\ s.nobjects = [h.nobjects EXCEPT ![z] = 0]
      /\ s.nbytes = [h.nbytes EXCEPT ![z] = 0]
      /\ s.nmallocs = [h.nmallocs EXCEPT ![z] = 0]
      /\ s.nfrees = [h.nfrees EXCEPT ![z] = 0]
  BY ClearCounts
<1> HIDE DEF s
<1>3. s \in Memory BY <1>2 DEF Good
<1>4. /\ h.nobjects \in [Zones -> Counter] /\ h.nbytes \in [Zones -> Counter]
      /\ h.nmallocs \in [Zones -> Counter] /\ h.nfrees \in [Zones -> Counter]
  BY <1>1 DEF Memory
<1>5. ASSUME NEW y \in Zones, y # z PROVE ZoneBalanced(s, y)
  <2>1. Owned(s, y) = Owned(h, y) /\ ZoneBalanced(h, y)
    BY <1>1, <1>2, <1>5 DEF Balanced, Clears
  <2>2. /\ s.nobjects[y] = h.nobjects[y] /\ s.nbytes[y] = h.nbytes[y]
        /\ s.nmallocs[y] = h.nmallocs[y] /\ s.nfrees[y] = h.nfrees[y]
    BY <1>2, <1>4, <1>5
  <2>3. \A b \in Owned(h, y) : s.size[b] = h.size[b] BY <1>2
  <2>4. QED BY <1>1, <1>3, <2>1, <2>2, <2>3, OtherBalanced
<1>6. ZoneBalanced(s, z)
  <2>1. /\ s.nobjects[z] = 0 /\ s.nbytes[z] = 0
        /\ s.nmallocs[z] = 0 /\ s.nfrees[z] = 0
    BY <1>2, <1>4
  <2>2. Owned(s, z) = {} BY <1>2 DEF Clears
  <2>3. Cardinality({}) = 0 BY FS_EmptySet
  <2>4. Total(s.size, {}) = 0 BY TotalEmpty
  <2>5. Wrap(0) = 0
    <3>1. 0 < Modulus BY BlocksAssumption, ModulusAssumption, FS_CardinalityType
    <3>2. QED BY <3>1, WrapSmall
  <2>6. QED BY <2>1, <2>2, <2>3, <2>4, <2>5 DEF ZoneBalanced, Bytes
<1>7. Balanced(s) BY <1>5, <1>6 DEF Balanced
<1>8. QED BY <1>2, <1>7 DEF Sound, Halted, s

LEMMA DestroySound ==
  ASSUME NEW h, Sound(h), h.halt = "no", NEW z \in Zones
  PROVE  Sound(Destroy(h, z))
<1> DEFINE c == Clear(h, z)
           s == Destroy(h, z)
<1>1. Sound(c) /\ c.halt = "no" BY ClearSound
<1>2. s = c \/ s = [c EXCEPT !.up = c.up \ {z}] BY DEF Destroy
<1> HIDE DEF c, s
<1>3. Good(c) /\ c \in Memory BY <1>1 DEF Sound, Good
<1>4. /\ s \in Memory /\ SameRings(c, s) /\ s.halt = c.halt /\ s.size = c.size
      /\ s.nobjects = c.nobjects /\ s.nbytes = c.nbytes
      /\ s.nmallocs = c.nmallocs /\ s.nfrees = c.nfrees
  BY <1>2, <1>3 DEF Memory, SameRings
<1>5. Good(s) /\ \A y : Owned(s, y) = Owned(c, y) BY <1>3, <1>4, SameRingsGood
<1>7. Balanced(s) BY <1>1, <1>4, <1>5 DEF Sound, Balanced, ZoneBalanced, Bytes
<1>8. Sound(s) BY <1>1, <1>4, <1>5, <1>7 DEF Sound, Halted
<1>9. QED BY <1>8 DEF s

CInv == Good(mem) /\ (crossed \/ Sound(mem))

LEMMA InitCInv == MCInit => CInv
<1> SUFFICES ASSUME MCInit PROVE CInv OBVIOUS
<1>1. Good(mem) BY InitIInv DEF MCInit, IInv
<1>2. /\ mem.halt = "no" /\ \A b \in Blocks : mem.owner[b] = Null
      /\ \A z \in Zones : /\ mem.nobjects[z] = 0 /\ mem.nbytes[z] = 0
                          /\ mem.nmallocs[z] = 0 /\ mem.nfrees[z] = 0
  BY DEF MCInit, Init
<1>3. Live(mem) = {} /\ \A z \in Zones : Owned(mem, z) = {}
  BY <1>2, Apart DEF Live, Owned
<1>4. Wrap(0) = 0
  <2>1. 0 < Modulus BY BlocksAssumption, ModulusAssumption, FS_CardinalityType
  <2>2. QED BY <2>1, WrapSmall
<1>5. Cardinality({}) = 0 /\ Total(mem.size, {}) = 0 BY FS_EmptySet, TotalEmpty
<1>6. Balanced(mem) BY <1>2, <1>3, <1>4, <1>5 DEF Balanced, ZoneBalanced, Bytes
<1>7. Sound(mem) BY <1>1, <1>2, <1>6 DEF Sound, Halted
<1>8. QED BY <1>1, <1>7 DEF CInv

LEMMA OwnStepSound ==
  ASSUME Sound(mem), mem.halt = "no", NEW z \in Zones, OwnStep(z)
  PROVE  Sound(mem')
<1>1. CASE DoMalloc(z) BY <1>1, MallocSound DEF DoMalloc
<1>2. CASE DoClear(z) BY <1>2, ClearSound DEF DoClear
<1>3. CASE DoDestroy(z) BY <1>3, DestroySound DEF DoDestroy
<1>4. ASSUME NEW p \in Owned(mem, z) \cup {Null}, mem' = Free(mem, z, p)
      PROVE  Sound(mem')
  BY <1>4, FreeSound
<1>5. ASSUME NEW p \in Owned(mem, z) \cup {Null}, NEW b \in Blocks \ Live(mem),
             NEW n \in Sizes, mem' = Realloc(mem, z, p, b, n)
      PROVE  Sound(mem')
  BY <1>5, ReallocSound
<1>6. QED BY <1>1, <1>2, <1>3, <1>4, <1>5 DEF OwnStep

LEMMA StepCInv == CInv /\ [MCNext]_<<mem, crossed>> => CInv'
<1>1. CInv /\ UNCHANGED <<mem, crossed>> => CInv' BY DEF CInv
<1>2. ASSUME CInv, MCNext PROVE CInv'
  <2>1. Good(mem)' BY <1>2, StepEffect DEF CInv, MCNext, Next, IInv
  <2>2. ASSUME ~ crossed' PROVE Sound(mem')
    <3>1. PICK z \in mem.up : crossed' = (crossed \/ ~ OwnStep(z)) BY <1>2 DEF MCNext
    <3>2. ~ crossed /\ OwnStep(z) BY <2>2, <3>1
    <3>3. Sound(mem) BY <1>2, <3>2 DEF CInv
    <3>4. z \in Zones BY <1>2, <3>1 DEF CInv, Good, Memory
    <3>5. mem.halt = "no" BY <1>2 DEF MCNext
    <3>6. QED BY <3>2, <3>3, <3>4, <3>5, OwnStepSound
  <2>3. QED BY <2>1, <2>2 DEF CInv
<1>3. QED BY <1>1, <1>2

LEMMA CInvariance == MCSpec => []CInv
BY InitCInv, StepCInv, PTL DEF MCSpec

(* However often the counters wrap, they describe the rings, the bytes by  *)
(* their remainder, until an object is freed in a zone not its own.        *)
THEOREM OwnCountersStayRight == MCSpec => []OwnCountersAgree
<1>1. CInv => OwnCountersAgree
  <2>1. SUFFICES ASSUME Sound(mem), NEW z \in Zones
        PROVE  /\ mem.nobjects[z] = Cardinality(Ring(mem, z))
               /\ mem.nbytes[z] = Wrap(MapThenSumSet(LAMBDA b : mem.size[b], Ring(mem, z)))
               /\ mem.nobjects[z] = Wrap(mem.nmallocs[z] - mem.nfrees[z])
    BY DEF CInv, OwnCountersAgree, CountersAgree
  <2>2. Ring(mem, z) = Owned(mem, z) BY <2>1, RingIsOwned DEF Sound
  <2>3. MapThenSumSet(LAMBDA b : mem.size[b], Ring(mem, z)) = Total(mem.size, Ring(mem, z))
    BY SumIsTotal
  <2>4. QED BY <2>1, <2>2, <2>3 DEF Sound, Balanced, ZoneBalanced, Bytes
<1>2. QED BY <1>1, CInvariance, PTL

(* As long as objects are freed in their own zone, the asserts on the      *)
(* object count, in _malloc_zone_free and in malloc_zone_clear, never      *)
(* fail, and the one on the byte count fails in a zone whose objects have  *)
(* no bytes between them, or wrap the counter, and in no other: for any    *)
(* sizes, zero included, and any width of the counters.                    *)
THEOREM OnlyEmptyObjectsEverAbort == MCSpec => []OnlyEmptyObjectsAbort
<1>1. CInv => OnlyEmptyObjectsAbort
  <2>1. SUFFICES ASSUME Sound(mem), mem.halt # "no"
        PROVE  /\ mem.halt = "nbytes"
               /\ \E z \in Zones :
                    /\ Ring(mem, z) # {}
                    /\ Wrap(MapThenSumSet(LAMBDA b : mem.size[b], Ring(mem, z))) = 0
    BY DEF CInv, OnlyEmptyObjectsAbort
  <2>2. PICK z \in Zones : Owned(mem, z) # {} /\ Wrap(Bytes(mem, z)) = 0
    BY <2>1 DEF Sound, Halted
  <2>3. Ring(mem, z) = Owned(mem, z) BY <2>1, RingIsOwned DEF Sound
  <2>4. MapThenSumSet(LAMBDA b : mem.size[b], Ring(mem, z)) = Total(mem.size, Ring(mem, z))
    BY SumIsTotal
  <2>5. Ring(mem, z) # {} /\ Wrap(MapThenSumSet(LAMBDA b : mem.size[b], Ring(mem, z))) = 0
    BY <2>2, <2>3, <2>4 DEF Bytes
  <2>6. mem.halt = "nbytes" BY <2>1 DEF Sound, Halted
  <2>7. QED BY <2>5, <2>6
<1>2. QED BY <1>1, CInvariance, PTL
=============================================================================
