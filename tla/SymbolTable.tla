---------------------------- MODULE SymbolTable ----------------------------
(***************************************************************************)
(* The symbol tables of ggrt (st.c).  A table holds its symbols twice, in  *)
(* an array sorted by name and in one sorted by address.  Adding a symbol  *)
(* appends it to both and sorts both; looking one up is a binary search    *)
(* in one of them.  Names need not be unique (globals are added without a  *)
(* look) and many symbols have the NULL address.                           *)
(*                                                                         *)
(* qsort and bsearch are the C library's.  qsort may leave symbols that    *)
(* compare equal in any order; bsearch is the usual bisection.             *)
(***************************************************************************)
EXTENDS Integers, Sequences, SequencesExt

CONSTANTS
  Names,    \* names, as numbers in the order of strcmp
  Addrs,    \* addresses, 0 for NULL
  None,     \* the NULL symbol, the answer to a question that fails
  MaxSyms   \* bound: symbols added to the table

ASSUME SymbolAssumption ==
  /\ Names \subseteq Nat /\ Addrs \subseteq Nat
  /\ MaxSyms \in Nat
  /\ None \notin [id : 1..MaxSyms, name : Names, addr : Addrs]

VARIABLES
  st,      \* the table: the arrays by_name and by_addr
  asked,   \* history: the question last asked of this table
  answer   \* history: what it was answered

vars == <<st, asked, answer>>

-----------------------------------------------------------------------------
(* Symbols, tables and questions.  id tells apart symbols that have equal  *)
(* names and addresses.                                                    *)

Symbol == [id : 1..MaxSyms, name : Names, addr : Addrs]
Array  == Seq(Symbol)
Table  == [by_name : Array, by_addr : Array]

Question == [field : {"name"}, key : Names] \cup [field : {"addr"}, key : Addrs]

NewTable == [by_name |-> <<>>, by_addr |-> <<>>]
Nsymbs(t) == Len(t.by_name)
Held(a)   == {a[i] : i \in DOMAIN a}

Sorted(a, field) == \A i, j \in DOMAIN a : i < j => a[i][field] <= a[j][field]

(* The arrays qsort may leave.                                             *)
Qsort(a, field) == {b \in SetToSeqs(Held(a)) : Sorted(b, field)}

(* bsearch: r is the range of positions left, from r[1] up to but not      *)
(* including r[2].                                                         *)
Ranges(a) == (0..Len(a)) \X (0..Len(a))
Bsearch(a, field, key) ==
  LET probe[r \in Ranges(a)] ==
        LET i == (r[1] + r[2]) \div 2
        IN  IF r[1] >= r[2] THEN None
            ELSE IF key < a[i + 1][field] THEN probe[<<r[1], i>>]
            ELSE IF key > a[i + 1][field] THEN probe[<<i + 1, r[2]>>]
            ELSE a[i + 1]
  IN  probe[<<0, Len(a)>>]

-----------------------------------------------------------------------------
(* The operations.                                                         *)

(* The tables that ggrt_symbol_table_add may leave.                        *)
(* Mutants: the array by address is not sorted; ggrt_m_symbol stores its   *)
(* addr argument as the name.                                              *)
AddUnsorted(t, s) ==
  [by_name : Qsort(Append(t.by_name, s), "name"), by_addr : {Append(t.by_addr, s)}]
AddSwapped(t, s) ==
  LET x == [s EXCEPT !.name = s.addr]
  IN  [by_name : Qsort(Append(t.by_name, x), "name"),
       by_addr : Qsort(Append(t.by_addr, x), "addr")]
Add(t, s) ==
  [by_name : Qsort(Append(t.by_name, s), "name"),
   by_addr : Qsort(Append(t.by_addr, s), "addr")]

(* ggrt_symbol_table_get                                                   *)
(* Mutant: one array serves both kinds of question.                        *)
GetByName(t, q) == Bsearch(t.by_name, q.field, q.key)
Get(t, q) ==
  Bsearch(IF q.field = "name" THEN t.by_name ELSE t.by_addr, q.field, q.key)

Init == st = NewTable /\ asked = None /\ answer = None

DoAdd ==
  /\ Nsymbs(st) < MaxSyms
  /\ \E n \in Names, a \in Addrs :
       st' \in Add(st, [id |-> Nsymbs(st) + 1, name |-> n, addr |-> a])
  /\ asked' = None /\ answer' = None

DoGet ==
  \E q \in Question :
    /\ asked' = q /\ answer' = Get(st, q)
    /\ UNCHANGED st

Next == DoAdd \/ DoGet

Spec == Init /\ [][Next]_vars

-----------------------------------------------------------------------------
(* Properties.                                                             *)

(* The table has its type: a lookup never leaves the arrays.               *)
TypeOK ==
  /\ st \in Table
  /\ asked \in Question \cup {None}
  /\ answer \in Symbol \cup {None}

(* The two arrays of ggrt_symbol_table hold the same symbols, each once,   *)
(* and each array is in its order: the walk of ggrt_emit_types and either  *)
(* kind of lookup see one table.                                           *)
ArraysAgree ==
  /\ Held(st.by_name) = Held(st.by_addr)
  /\ IsInjective(st.by_name) /\ IsInjective(st.by_addr)
  /\ Sorted(st.by_name, "name") /\ Sorted(st.by_addr, "addr")

(* The arrays with bisection implement a set of symbols: whatever ties     *)
(* qsort broke, a symbol is found exactly when one was added, in any order *)
(* of additions and questions.  Registry's tables are such sets.           *)
Abstract == INSTANCE SymbolSpec WITH
  Symbols <- Symbol, Questions <- Question, syms <- Held(st.by_name)
ImplementsSymbolSpec == Abstract!Spec
=============================================================================
