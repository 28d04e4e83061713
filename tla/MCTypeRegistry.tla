--------------------------- MODULE MCTypeRegistry ---------------------------
(* Small instances of TypeRegistry for TLC.                                *)
EXTENDS TypeRegistry

(* Unspecified, zero and a positive length: the three cases of ggrt_array. *)
MCLens == {UNSPEC, 0, 2}
=============================================================================
