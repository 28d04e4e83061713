----------------------------- MODULE SymbolSpec -----------------------------
(***************************************************************************)
(* What a symbol table promises: it keeps every symbol added, and answers  *)
(* a question by name or by address with a symbol that has it, or with     *)
(* None when no symbol has.                                                *)
(***************************************************************************)
CONSTANTS Symbols, Questions, None

VARIABLES syms, asked, answer

Init == syms = {} /\ asked = None /\ answer = None

Having(q) == {s \in syms : s[q.field] = q.key}

Add ==
  /\ \E s \in Symbols \ syms : syms' = syms \cup {s}
  /\ asked' = None /\ answer' = None

Get ==
  \E q \in Questions :
    /\ asked' = q
    /\ answer' \in (IF Having(q) = {} THEN {None} ELSE Having(q))
    /\ UNCHANGED syms

Next == Add \/ Get

Spec == Init /\ [][Next]_<<syms, asked, answer>>
=============================================================================
