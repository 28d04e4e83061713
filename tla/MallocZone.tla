----------------------------- MODULE MallocZone -----------------------------
(***************************************************************************)
(* The allocation zones of ggrt (malloc_zone.c).  A zone keeps its objects *)
(* on a doubly linked ring through its header and counts them; gghc has    *)
(* one zone in its own context and one in the registry context.  An object *)
(* is unlinked through its own links, but counted out of the zone that the *)
(* caller names.                                                           *)
(*                                                                         *)
(* The operators take the memory h, a record, so that realloc is malloc    *)
(* followed by free.  The contents of objects are not modelled, nor        *)
(* passthru, which nothing sets.                                           *)
(***************************************************************************)
EXTENDS Integers, FiniteSets, FiniteSetsExt

CONSTANTS
  Blocks,     \* addresses the underlying malloc may return
  Zones,      \* the zones, and the addresses of their headers
  Null,       \* the NULL pointer
  Sizes,      \* sizes a caller asks for
  Modulus,    \* 2^w for the size_t counters
  MaxMallocs, \* bound: calls of malloc in one zone
  CrossFree   \* TRUE: a caller may free an object in a zone not its own

ASSUME BlocksAssumption ==
  /\ IsFiniteSet(Blocks)
  /\ Blocks \cap Zones = {} /\ Null \notin Blocks \cup Zones
ASSUME SizesAssumption == Sizes \subseteq Nat
ASSUME ModulusAssumption == Modulus \in Nat /\ Cardinality(Blocks) < Modulus

VARIABLE mem

Node    == Blocks \cup Zones
Counter == 0..Modulus - 1

(* owner: history, the zone on whose ring a block is, Null while the block *)
(* is free; up: the zones not yet destroyed.                               *)
Memory == [next : [Node -> Node], prev : [Node -> Node],
           size : [Blocks -> Nat], owner : [Blocks -> Zones \cup {Null}],
           up : SUBSET Zones,
           nobjects : [Zones -> Counter], nbytes : [Zones -> Counter],
           nmallocs : [Zones -> Counter], nfrees : [Zones -> Counter],
           halt : {"no", "nobjects", "nbytes", "clear"}]

Wrap(n) == n % Modulus

Owned(h, z) == {b \in Blocks : h.owner[b] = z}
Live(h)     == {b \in Blocks : h.owner[b] # Null}

(* The objects met by walking next from the header: the smallest set that  *)
(* holds the header's successor and the successor of each of its members.  *)
Closed(h, z, S) ==
  h.next[z] \in S \cup {z} /\ \A b \in S : h.next[b] \in S \cup {z}
Ring(h, z) ==
  {b \in Blocks : \A S \in SUBSET Blocks : Closed(h, z, S) => b \in S}

(* The ring a live object or a header is on, named by its zone.            *)
Home(h, n) == IF n \in Zones THEN n ELSE h.owner[n]

Linked(h) ==
  \A n \in Live(h) \cup Zones :
    /\ h.next[n] \in Live(h) \cup Zones /\ h.prev[n] \in Live(h) \cup Zones
    /\ h.next[h.prev[n]] = n /\ h.prev[h.next[n]] = n
    /\ Home(h, h.next[n]) = Home(h, n)

Halt(h, assertion) == [h EXCEPT !.halt = assertion]

-----------------------------------------------------------------------------
(* malloc_zone_malloc: b is what the underlying malloc returned; it goes   *)
(* to the head of the ring.  (nobjects cannot wrap: it counts blocks.)     *)
(* Mutant: the old head keeps its prev.                                    *)
MallocHalfLinked(h, z, b, n) ==
  [h EXCEPT !.next = [@ EXCEPT ![b] = h.next[z], ![z] = b],
            !.prev = [@ EXCEPT ![b] = z],
            !.size[b] = n, !.owner[b] = z,
            !.nobjects[z] = Wrap(@ + 1), !.nbytes[z] = Wrap(@ + n),
            !.nmallocs[z] = Wrap(@ + 1)]
Malloc(h, z, b, n) ==
  [h EXCEPT !.next = [@ EXCEPT ![b] = h.next[z], ![z] = b],
            !.prev = [@ EXCEPT ![b] = z, ![h.next[z]] = b],
            !.size[b] = n, !.owner[b] = z,
            !.nobjects[z] = Wrap(@ + 1), !.nbytes[z] = Wrap(@ + n),
            !.nmallocs[z] = Wrap(@ + 1)]

(* An object leaves the ring it is on.                                     *)
(* Mutants: its successor keeps pointing back at it; the list ends with    *)
(* NULL instead of the header.                                             *)
UnlinkForward(h, b) ==
  [h EXCEPT !.next = [@ EXCEPT ![h.prev[b]] = h.next[b]], !.owner[b] = Null]
UnlinkNullEnd(h, b) ==
  [h EXCEPT !.next = [@ EXCEPT ![h.prev[b]] =
                        IF h.next[b] \in Zones THEN Null ELSE h.next[b]],
            !.prev = [@ EXCEPT ![h.next[b]] = h.prev[b]],
            !.owner[b] = Null]
Unlink(h, b) ==
  [h EXCEPT !.next = [@ EXCEPT ![h.prev[b]] = h.next[b]],
            !.prev = [@ EXCEPT ![h.next[b]] = h.prev[b]],
            !.owner[b] = Null]

(* _malloc_zone_free(zone, ptr).                                           *)
(* Mutants: the bytes stay counted; the asserts follow the decrements.     *)
FreeBytesKept(h, z, p) ==
  IF p = Null THEN h
  ELSE IF h.nobjects[z] = 0 THEN Halt(h, "nobjects")
  ELSE IF h.nbytes[z] = 0 THEN Halt(h, "nbytes")
  ELSE [Unlink(h, p) EXCEPT !.nobjects[z] = Wrap(@ - 1), !.nfrees[z] = Wrap(@ + 1)]
FreeAssertsLate(h, z, p) ==
  IF p = Null THEN h
  ELSE IF h.nobjects[z] = 1 THEN Halt(h, "nobjects")
  ELSE [Unlink(h, p) EXCEPT !.nobjects[z] = Wrap(@ - 1),
                            !.nbytes[z] = Wrap(@ - h.size[p]),
                            !.nfrees[z] = Wrap(@ + 1)]
Free(h, z, p) ==
  IF p = Null THEN h
  ELSE IF h.nobjects[z] = 0 THEN Halt(h, "nobjects")
  ELSE IF h.nbytes[z] = 0 THEN Halt(h, "nbytes")
  ELSE [Unlink(h, p) EXCEPT !.nobjects[z] = Wrap(@ - 1),
                            !.nbytes[z] = Wrap(@ - h.size[p]),
                            !.nfrees[z] = Wrap(@ + 1)]

Realloc(h, z, p, b, n) == Free(Malloc(h, z, b, n), z, p)

(* malloc_zone_clear: an aborting clear is the program's last step, what   *)
(* it freed before the assert does not matter any more.                    *)
(* Mutant: the header is not reset.                                        *)
ClearKeepsHeader(h, z) ==
  [h EXCEPT !.owner = [b \in Blocks |-> IF b \in Ring(h, z) THEN Null ELSE @[b]],
            !.nobjects[z] = 0, !.nbytes[z] = 0, !.nmallocs[z] = 0, !.nfrees[z] = 0]
Clear(h, z) ==
  IF h.nobjects[z] # Cardinality(Ring(h, z)) THEN Halt(h, "clear")
  ELSE [h EXCEPT !.next[z] = z, !.prev[z] = z,
                 !.owner = [b \in Blocks |-> IF b \in Ring(h, z) THEN Null ELSE @[b]],
                 !.nobjects[z] = 0, !.nbytes[z] = 0,
                 !.nmallocs[z] = 0, !.nfrees[z] = 0]

(* malloc_zone_destroy                                                     *)
Destroy(h, z) ==
  LET c == Clear(h, z) IN IF c.halt # "no" THEN c ELSE [c EXCEPT !.up = @ \ {z}]

-----------------------------------------------------------------------------
(* The zones as a state machine.  A caller frees live objects only, and in *)
(* the zone they came from unless CrossFree.                               *)

Init ==
  mem = [next |-> [n \in Node |-> n], prev |-> [n \in Node |-> n],
         size |-> [b \in Blocks |-> 0], owner |-> [b \in Blocks |-> Null],
         up |-> Zones,
         nobjects |-> [z \in Zones |-> 0], nbytes |-> [z \in Zones |-> 0],
         nmallocs |-> [z \in Zones |-> 0], nfrees |-> [z \in Zones |-> 0],
         halt |-> "no"]

Mine(z)    == IF CrossFree THEN Live(mem) ELSE Owned(mem, z)
MayMalloc(z) == mem.nmallocs[z] < MaxMallocs

DoMalloc(z) ==
  \E b \in Blocks \ Live(mem), n \in Sizes :
    MayMalloc(z) /\ mem' = Malloc(mem, z, b, n)

DoFree(z) == \E p \in Mine(z) \cup {Null} : mem' = Free(mem, z, p)

DoRealloc(z) ==
  \E p \in Mine(z) \cup {Null}, b \in Blocks \ Live(mem), n \in Sizes :
    MayMalloc(z) /\ mem' = Realloc(mem, z, p, b, n)

DoClear(z)   == mem' = Clear(mem, z)
DoDestroy(z) == mem' = Destroy(mem, z)

Next ==
  /\ mem.halt = "no"
  /\ \E z \in mem.up :
       DoMalloc(z) \/ DoFree(z) \/ DoRealloc(z) \/ DoClear(z) \/ DoDestroy(z)

Spec == Init /\ [][Next]_mem

-----------------------------------------------------------------------------
(* Properties.                                                             *)

(* The memory has its type.                                                *)
TypeOK == mem \in Memory

(* The links of live objects and headers are inverse to each other and     *)
(* never leave the ring they started on: no interleaving of malloc, free   *)
(* and realloc in two zones mixes two rings or leaves a freed object on    *)
(* one, even when objects are freed through the wrong zone.                *)
RingsLinked == Linked(mem)

(* Walking the ring from the header meets exactly the objects that malloc  *)
(* handed out of that zone and nobody freed: clear and destroy free them   *)
(* all, and each once.                                                     *)
RingsComplete == \A z \in Zones : Ring(mem, z) = Owned(mem, z)

(* The counters describe the ring.                                         *)
CountersAgree ==
  \A z \in Zones :
    /\ mem.nobjects[z] = Cardinality(Ring(mem, z))
    /\ mem.nbytes[z] = Wrap(MapThenSumSet(LAMBDA b : mem.size[b], Ring(mem, z)))
    /\ mem.nobjects[z] = Wrap(mem.nmallocs[z] - mem.nfrees[z])

(* The rings implement sets of owned blocks.                               *)
Abstract == INSTANCE ZoneSpec WITH owned <- [z \in Zones |-> Ring(mem, z)]
ImplementsZoneSpec == Abstract!Spec
=============================================================================
