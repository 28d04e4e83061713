----------------------------- MODULE MCFfiCall -----------------------------
(* A small instance of FfiCall for TLC.                                    *)
EXTENDS FfiCall

(* Like char and int; an open array, and one of odd size.                  *)
MCScalars == <<1, 4>>
MCLens == {UNSPEC, 5}

(* Bounds: layouts are explored where libffi is not set up, calls where it *)
(* is, before all types but one are made and with structs of one member;   *)
(* a second struct is made when the first has ended.                       *)
Undescribed ==
  {t \in TypeId : types[t].kind \in {"pointer", "array"} /\ ffi[t] = 0}

Small ==
  /\ Count(Composite) = 2 => ended # {} /\ Functions = {} /\ ~ ready
  /\ ready =>
       /\ Cardinality(Undescribed) <= 1
       /\ Room \/ Functions # {}
       /\ Count(Composite) = 0 \/ Count({"array"}) = 0
       /\ \A t \in TypeId : types[t].kind \in Composite => Len(types[t].elems) <= 1
  /\ Functions # {} => ready \/ Len(types) <= Len(Scalars) + 1

MCSpec == Init /\ [][Next /\ Small']_vars
=============================================================================
