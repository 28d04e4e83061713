------------------------------ MODULE FfiCall ------------------------------
(***************************************************************************)
(* Calls of C functions through libffi (ffi.c) over the types of           *)
(* TypeLayout.  ggrt_ffi_prepare describes a function type to libffi once; *)
(* ggrt_ffi_call then lays the arguments out in a space of the size that   *)
(* was computed then.  A description of a type is given to scalars when    *)
(* ggrt_ctx_init_ffi is called, and to pointers and arrays when they are   *)
(* made, if that is later.                                                 *)
(*                                                                         *)
(* libffi is external: a description is the size it stands for.  The boxes *)
(* of argument values are the caller's.                                    *)
(***************************************************************************)
EXTENDS TypeLayout

VARIABLES
  ready,      \* ggrt_ctx_init_ffi has been called
  ffi,        \* _ffi_type of each type: the size described, 0 for NULL
  cif,        \* the function types prepared: what libffi was told
  halted      \* an assert has failed, or libffi was told NULL and read it

vars == <<types, ended, ready, ffi, cif, halted>>

(* What a function type keeps once prepared: the descriptions of result    *)
(* and parameters, and the size of the space for arguments.                *)
Cif == [rtn : Nat, args : Seq(Nat), space : Nat]

Functions == {t \in TypeId : types[t].kind = "function"}
Params(f) == [i \in DOMAIN types[f].elems |-> types[f].elems[i].type]

(* param_type: scalars smaller than an int are passed as an int, and       *)
(* functions as pointers, which have the size of one.                      *)
ParamSize(ts, t) ==
  CASE ts[t].kind = "scalar" /\ ts[t].size < IntSize -> IntSize
    [] ts[t].kind = "function" -> PointerSize
    [] OTHER -> ts[t].size

-----------------------------------------------------------------------------
InitFfi ==
  /\ ~ ready /\ ready' = TRUE
  /\ ffi' = [t \in TypeId |-> IF types[t].kind = "scalar" THEN types[t].size ELSE ffi[t]]
  /\ UNCHANGED <<types, ended, cif, halted>>

Described(size) ==
  /\ ffi' = Append(ffi, IF ready THEN size ELSE 0)
  /\ UNCHANGED <<ready, cif, halted>>

DoPointer == \E t \in TypeId : MakePointer(t) /\ Described(PointerSize)
DoArray == \E t \in TypeId, n \in Lens : MakeArray(t, n) /\ Described(PointerSize)
DoStruct == \E su \in Composite : MakeStruct(su) /\ Described(0)
DoFunc ==
  \E t \in TypeId, n \in 0..MaxElems : \E params \in [1..n -> TypeId] :
    MakeFunc(t, params) /\ Described(0)

Unprepared == UNCHANGED <<ready, ffi, cif, halted>>
DoStructElem == \E st, t \in TypeId : StructElem(st, t) /\ Unprepared
DoStructEnd == \E st \in TypeId : StructEnd(st) /\ Unprepared
DoSizeof == \E t \in TypeId : Sizeof(t) /\ Unprepared

-----------------------------------------------------------------------------
(* ggrt_ffi_prepare                                                        *)

(* The parameters in turn: each is measured and given its place.           *)
(* Mutant: the size of the space is taken before the last one.             *)
PlaceParamLate(f, far, i) ==
  LET u  == types[f].elems[i].type
      us == Measure(far.types, u)
  IN  [types |-> [us EXCEPT ![f].elems[i].offset = far.end],
       end |-> far.end + us[u].size, space |-> far.end]
PlaceParam(f, far, i) ==
  LET u  == types[f].elems[i].type
      us == Measure(far.types, u)
  IN  [types |-> [us EXCEPT ![f].elems[i].offset = far.end],
       end |-> far.end + us[u].size, space |-> far.end + us[u].size]

PlaceParams(f) ==
  FoldLeft(LAMBDA far, i : PlaceParam(f, far, i),
           [types |-> types, end |-> 0, space |-> 0],
           [i \in DOMAIN types[f].elems |-> i])

(* ggrt_ffi_type of a result: its description.  A type without one that is *)
(* an array or a struct is described now, but NULL is answered all the      *)
(* same; any other type without one aborts.                                 *)
Answer(t) == ffi[t]
RECURSIVE Describable(_)
Describable(t) ==
  \/ ffi[t] # 0
  \/ types[t].kind = "array" /\ types[t].len # 0
  \/ /\ types[t].kind = "struct" /\ types[t].elems # <<>>
     /\ \A e \in Range(types[t].elems) : Describable(e.type)

Prepared(f) == f \in DOMAIN cif

Prepare(f) ==
  /\ types' = PlaceParams(f).types
  /\ cif' = [g \in DOMAIN cif \cup {f} |->
               IF g = f THEN [rtn |-> Answer(types[f].rtn),
                              args |-> [i \in DOMAIN Params(f) |-> ffi[Params(f)[i]]],
                              space |-> PlaceParams(f).space]
               ELSE cif[g]]

(* The result, then the parameters, each of which must have a description. *)
(* ffi_prep_cif is given the answer for the result unseen, and reads        *)
(* through a NULL; what was described on the way to it is left out.         *)
DoPrepare ==
  \E f \in Functions :
    LET described == /\ Describable(types[f].rtn)
                     /\ \A t \in Range(Params(f)) : ffi[t] # 0
    IN  /\ ~ Prepared(f)
        /\ \/ described /\ Prepare(f) /\ halted' = (Answer(types[f].rtn) = 0)
           \/ ~ described /\ halted' = TRUE /\ UNCHANGED <<types, cif>>
        /\ UNCHANGED <<ended, ready, ffi>>

(* ggrt_ffi_call of a function already prepared measures what it returns   *)
(* and takes; the arguments themselves are the caller's.                   *)
Measured(ts, f) ==
  FoldLeft(Measure, Measure(ts, ts[f].rtn),
           [i \in DOMAIN ts[f].elems |-> ts[f].elems[i].type])

DoCall ==
  \E f \in Functions :
    /\ Prepared(f)
    /\ types' = Measured(types, f)
    /\ UNCHANGED <<ended, ready, ffi, cif, halted>>

Init ==
  /\ LayoutInit
  /\ ready = FALSE
  /\ ffi = [i \in DOMAIN Scalars |-> 0]
  /\ cif = <<>>
  /\ halted = FALSE

Next ==
  /\ ~ halted
  /\ \/ InitFfi
     \/ DoPointer \/ DoArray \/ DoStruct \/ DoFunc
     \/ DoStructElem \/ DoStructEnd \/ DoSizeof
     \/ DoPrepare \/ DoCall

Spec == Init /\ [][Next]_vars

-----------------------------------------------------------------------------
(* Properties.                                                             *)

TypeOK ==
  /\ LayoutTypeOK
  /\ ready \in BOOLEAN /\ halted \in BOOLEAN
  /\ ffi \in Seq(Nat) /\ Len(ffi) = Len(types)
  /\ DOMAIN cif \subseteq Functions
  /\ \A f \in DOMAIN cif : cif[f] \in Cif

(* The types that are passed as they are: pointers, and scalars not        *)
(* smaller than an int.                                                    *)
Plain(t) ==
  types[t].kind = "pointer" \/ (types[t].kind = "scalar" /\ types[t].size >= IntSize)

(* Where ggrt_ffi_call puts the i-th argument.                             *)
RECURSIVE ArgPlace(_, _)
ArgPlace(f, i) ==
  IF i = 1 THEN 0 ELSE ArgPlace(f, i - 1) + ParamSize(types, Params(f)[i - 1])

(* A call of a prepared function with plain parameters puts every argument *)
(* at the offset that its parameter was given, inside the space allotted   *)
(* when it was prepared, and tells libffi its size; whatever types were    *)
(* made, grown or measured in between.                                     *)
ArgumentsFit ==
  \A f \in DOMAIN cif :
    \A i \in DOMAIN types[f].elems :
      (\A j \in 1..i : Plain(Params(f)[j])) =>
        /\ types[f].elems[i].offset = ArgPlace(f, i)
        /\ ArgPlace(f, i) + ParamSize(types, Params(f)[i]) <= cif[f].space
        /\ cif[f].args[i] = CSize(Params(f)[i])
=============================================================================
