--------------------------- MODULE MCMallocZone ---------------------------
(* MallocZone for TLC: blocks and zones are model values, and a history    *)
(* variable tells whether an object was freed through a wrong zone.        *)
EXTENDS MallocZone

VARIABLE crossed   \* an object was freed or reallocated through another zone

MCInit == Init /\ crossed = FALSE

(* A step that calls with no object, or with one of the zone it names.     *)
OwnStep(z) ==
  \/ DoMalloc(z) \/ DoClear(z) \/ DoDestroy(z)
  \/ \E p \in Owned(mem, z) \cup {Null} :
       \/ mem' = Free(mem, z, p)
       \/ \E b \in Blocks \ Live(mem), n \in Sizes : mem' = Realloc(mem, z, p, b, n)

MCNext ==
  /\ mem.halt = "no"
  /\ \E z \in mem.up :
       /\ DoMalloc(z) \/ DoFree(z) \/ DoRealloc(z) \/ DoClear(z) \/ DoDestroy(z)
       /\ crossed' = (crossed \/ ~ OwnStep(z))

MCSpec == MCInit /\ [][MCNext]_<<mem, crossed>>

-----------------------------------------------------------------------------
(* The counters describe the rings as long as every object is freed in the *)
(* zone it came from.                                                      *)
OwnCountersAgree == crossed \/ CountersAgree

(* Before an object is freed through the wrong zone, the only assert of     *)
(* malloc_zone.c that can fail is the one on the byte count in              *)
(* _malloc_zone_free, and only in a zone whose objects have no bytes between *)
(* them: a zone of empty objects, unless their bytes wrap the counter.       *)
OnlyEmptyObjectsAbort ==
  \/ crossed \/ mem.halt = "no"
  \/ /\ mem.halt = "nbytes"
     /\ \E z \in Zones :
          /\ Ring(mem, z) # {}
          /\ Wrap(MapThenSumSet(LAMBDA b : mem.size[b], Ring(mem, z))) = 0
=============================================================================
