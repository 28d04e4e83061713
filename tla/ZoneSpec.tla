------------------------------ MODULE ZoneSpec ------------------------------
(***************************************************************************)
(* What a malloc_zone promises, without its ring and counters: each zone   *)
(* owns a set of blocks, no block is in two zones, a block is handed out   *)
(* only while nobody owns it, and clearing a zone frees all it owns.       *)
(***************************************************************************)
CONSTANTS Blocks, Zones

VARIABLE owned   \* owned[z]: the blocks zone z has handed out

Taken == UNION {owned[z] : z \in Zones}

Init == owned = [z \in Zones |-> {}]

Malloc(z) ==
  \E b \in Blocks \ Taken : owned' = [owned EXCEPT ![z] = @ \cup {b}]

Free(z) == \E b \in owned[z] : owned' = [owned EXCEPT ![z] = @ \ {b}]

(* Any block, of whichever zone, moves to a new block of zone z, which is  *)
(* taken before the old one is given back.                                 *)
Realloc(z) ==
  \E b \in Blocks \ Taken, old \in Taken :
    owned' = [x \in Zones |->
                IF x = z THEN (owned[x] \cup {b}) \ {old} ELSE owned[x] \ {old}]

Clear(z) == owned' = [owned EXCEPT ![z] = {}]

Next == \E z \in Zones : Malloc(z) \/ Free(z) \/ Realloc(z) \/ Clear(z)

Spec == Init /\ [][Next]_owned
=============================================================================
