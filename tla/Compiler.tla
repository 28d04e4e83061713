------------------------------ MODULE Compiler ------------------------------
(***************************************************************************)
(* The header compiler of gghc: the semantic actions of its C grammar      *)
(* (cy.y), the declaration and declarator stacks they work on (decl.c),    *)
(* and the forms they write (output.c), over the type registry of ggrt.    *)
(*                                                                         *)
(* Each C function is an operator on the compiler's state c.  The parser   *)
(* itself is a stack of grammar positions, parse; an action is one         *)
(* reduction with its semantic action, or a shift that has none, so the    *)
(* behaviours are the declarations of the language, token group by token   *)
(* group.  The frames of parse also carry, as history, the types that ISO  *)
(* C gives to what has been read; the compiler's own state never does.     *)
(***************************************************************************)
EXTENDS Registry, SequencesExt

CONSTANTS
  Varargs,      \* the name of the intrinsic "..."
  Literals,     \* array and bit-field lengths written as integer literals
  Exprs,        \* lengths that are other constant expressions
  Syntax,       \* the optional constructs of the grammar the input uses
  MaxDepth,     \* bound: grammar positions open at one time
  MaxList,      \* bound: declarators, members, parameters, enumerators of one list
  MaxConstants  \* bound: constant_id

ASSUME CompilerAssumption ==
  /\ Varargs \in Intrinsics /\ "int" \in Intrinsics
  /\ Literals \subseteq Nat \ {0} /\ NoName \notin Exprs \cup ElemNames
  /\ MaxDepth \in Nat /\ MaxList \in Nat /\ MaxConstants \in Nat
(* The bounds have room for the start state: the intrinsic types, and the  *)
(* three modules of gghc_m_ctx, gghc_reset and gghc_module_begin.          *)
ASSUME StartAssumption ==
  IsFiniteSet(Intrinsics) /\ Cardinality(Intrinsics) <= MaxObjs /\ MaxMods >= 3

VARIABLES
  c,        \* the compiler: a gghc_ctx and everything reachable from it
  parse,    \* the grammar positions that are open, outermost first
  meant,    \* history: what the source declared in the last step
  ended     \* "no", or how the parse ended

cvars == <<c, parse, meant, ended>>

-----------------------------------------------------------------------------
(* What a type expression says (cb_data[0]): a term, with the constants    *)
(* and the struct and enum variables that its text refers to.              *)

Term(op, name, n, args) == [op |-> op, name |-> name, n |-> n, args |-> args]

Base(name)      == Term("type", name, 0, <<>>)
PointerTo(t)    == Term("pointer", NoName, 0, <<t>>)
ArrayOf(t, len) == Term("array", len.expr, len.n, <<t>>)
BitsOf(t, len)  == Term("bitfield", len.expr, len.n, <<t>>)
FunctionOf(rtn, params)  == Term("function", NoName, 0, <<rtn>> \o params)
Tagged(kind, name, id)   == Term(kind, name, id, <<>>)
NullTerm == Term("(null)", NoName, 0, <<>>)   \* what printf makes of NULL
WildTerm == Term("wild", NoName, 0, <<>>)     \* whatever lies after a typedef object

Literal(n)  == [expr |-> NoName, n |-> n]     \* str_to_size_t succeeds
Expr(e)     == [expr |-> e, n |-> 0]
Lengths     == {Literal(n) : n \in Literals} \cup {Expr(e) : e \in Exprs}

Text(term, consts, tags) == [term |-> term, consts |-> consts, tags |-> tags]
Plain(term) == Text(term, {}, {})

(* A form written to one of the outputs: its kind, the name it declares    *)
(* and the text it holds.                                                  *)
Form(kind, name, text) == [kind |-> kind, name |-> name, text |-> text]

-----------------------------------------------------------------------------
(* The state: rt the registry; text the cb_data[0] of every type; decls    *)
(* and dtors the stacks, whose last elements are current_declaration and   *)
(* current_declarator; structs and enums the gghc_struct and gghc_enum of  *)
(* a type; current_struct the innermost gghc_struct, by its type.          *)

NewDeclaration(t)   == [type |-> t, storage |-> "none", declarators |-> <<>>]
NewDeclarator(t, d) == [type |-> t, identifier |-> NoName, parenthised |-> FALSE,
                        bits |-> Literal(0), declaration |-> d]
NewStruct == [made |-> FALSE, nelem |-> 0, prev |-> 0]

(* gghc_m_ctx, gghc_reset and gghc_module_begin.                           *)
StartRegistry ==
  ModuleBegin(CtxReset(FoldSet(LAMBDA n, r : Intrinsic(r, n),
                               CtxReset(EmptyRegistry), Intrinsics)))
StartState ==
  [rt |-> StartRegistry,
   text |-> [t \in ObjId |->
               Plain(IF t < StartRegistry.next THEN Base(StartRegistry.heap[t].name)
                     ELSE NullTerm)],
   decls |-> <<>>, dtors |-> <<>>,
   structs |-> [t \in ObjId |-> NewStruct], current_struct |-> 0,
   enums |-> [t \in ObjId |-> 0],     \* gghc_enum.emitted: 0, 1 or 2
   emit |-> 1, constant_id |-> 0, unnamed |-> [struct |-> 0, enum |-> 0],
   failed |-> FALSE,   \* errors > 0
   said |-> {},        \* the forms written in the last step
   written |-> {},     \* the constants of the constants program
   begun |-> {},       \* the struct and enum variables declared so far
   forms |-> <<>>]     \* the struct and enum forms not yet closed

CurDecl(s) == Last(s.decls)
CurDtor(s) == Last(s.dtors)
Stop(s, how) == [s EXCEPT !.rt = Halt(@, how)]

Say(s, form) == IF s.emit # 0 THEN [s EXCEPT !.said = @ \cup {form}] ELSE s

NextConstant(s, op, name, of) ==
  [id |-> s.constant_id + 1, op |-> op, name |-> name, of |-> of]
(* Mutant: two constants get one id.                                       *)
ConstantSameId(s, op, name, of) ==
  [s EXCEPT !.written = IF s.emit # 0 THEN @ \cup {NextConstant(s, op, name, of)} ELSE @]
(* gghc_constant: the id is taken even where nothing is written.           *)
Constant(s, op, name, of) ==
  [s EXCEPT !.constant_id = @ + 1,
            !.written = IF s.emit # 0 THEN @ \cup {NextConstant(s, op, name, of)} ELSE @]

-----------------------------------------------------------------------------
(* Derived types.  A typedef object is no type: ggrt_pointer and           *)
(* ggrt_array read a NULL kind from it.                                    *)

IsBogus(s, t) == t = 0 \/ s.rt.heap[t].kind = "typedef"

PointerText(s, t) ==
  Text(PointerTo(s.text[t].term), s.text[t].consts, s.text[t].tags)

MakePointer(s, t) ==
  IF IsBogus(s, t) THEN Stop(s, "segv")
  ELSE IF s.rt.heap[t].pointer_to # 0 THEN s
  ELSE [s EXCEPT !.rt = Pointer(@, t), !.text[s.rt.next] = PointerText(s, t)]

(* str_to_size_t_or_constant: the length, and the state after it.          *)
IsLiteral(len) == len.expr = NoName
LengthValue(len) == IF IsLiteral(len) THEN len.n ELSE UNSPEC
AfterLength(s, len) == IF IsLiteral(len) THEN s ELSE Constant(s, "expr", len.expr, NullTerm)
LengthUses(s, len) == IF IsLiteral(len) THEN {} ELSE {NextConstant(s, "expr", len.expr, NullTerm)}

(* gghc_array: the text is set on the type ggrt_array answers with, even   *)
(* when that is the cached open array of an earlier call.                  *)
MakeArray(s, t, len) ==
  IF IsBogus(s, t) THEN Stop(s, "segv")
  ELSE LET k == AfterLength(s, len)
           v == LengthValue(len)
           a == ArrayRef(k.rt, t, v)
           u == IF ArrayCached(k.rt, t, v) \/ k.rt.heap[t].pointer_to # 0 THEN k
                ELSE [k EXCEPT !.text[a + 1] = PointerText(k, t)]
       IN  [u EXCEPT !.rt = Array(@, t, v),
                     !.text[a] = Text(ArrayOf(k.text[t].term, len),
                                      k.text[t].consts \cup LengthUses(s, len),
                                      k.text[t].tags)]
(* Mutant: the answer is looked for after the array has been made.         *)
MadeArrayLate(s, t, len) == ArrayRef(MakeArray(s, t, len).rt, t, LengthValue(len))
MadeArray(s, t, len) == ArrayRef(s.rt, t, LengthValue(len))

MakeBitfield(s, t, len) ==
  LET k == AfterLength(s, len)
  IN  [k EXCEPT !.rt = Bitfield(@, t),
                !.text[k.rt.next] = Text(BitsOf(k.text[t].term, len),
                                         k.text[t].consts \cup LengthUses(s, len),
                                         k.text[t].tags)]

MakeFunction(s, rtn, params) ==
  LET all == <<rtn>> \o params
      terms == [i \in DOMAIN params |-> s.text[params[i]].term]
  IN  [s EXCEPT !.rt = Func(@, rtn, params),
                !.text[s.rt.next] =
                   Text(FunctionOf(s.text[rtn].term, terms),
                        UNION {s.text[all[i]].consts : i \in DOMAIN all},
                        UNION {s.text[all[i]].tags : i \in DOMAIN all})]

-----------------------------------------------------------------------------
(* Structs and unions.                                                     *)

Known(s, su, name) == StructKnown(s.rt, su, name)

(* __gghc_struct: the first call for a type makes its gghc_struct.         *)
UnnamedId(s, kind, name) == IF name = NoName THEN s.unnamed[kind] + 1 ELSE 0
StructTerm(s, su, name) == Tagged(su, name, UnnamedId(s, "struct", name))
MakeStruct(s, st) ==
  IF s.structs[st].made THEN s
  ELSE LET t == s.rt.heap[st]
           term == StructTerm(s, t.kind, t.name)
       IN  [s EXCEPT !.structs[st].made = TRUE,
                     !.text[st] = Text(term, {}, {term}),
                     !.unnamed.struct = IF t.name = NoName THEN @ + 1 ELSE @]

(* Mutant: only outermost structs and enums have a form.                   *)
OpenFormOutermost(s, t) ==
  IF s.emit = 0 \/ s.forms # <<>> THEN s
  ELSE [s EXCEPT !.forms = Append(@, t), !.begun = @ \cup {s.text[t].term}]
(* A struct or enum form is opened, or closed, where output is on.         *)
OpenForm(s, t) ==
  IF s.emit = 0 THEN s
  ELSE [s EXCEPT !.forms = Append(@, t), !.begun = @ \cup {s.text[t].term}]
CloseForm(s) ==
  IF s.emit = 0 \/ s.forms = <<>> THEN s ELSE [s EXCEPT !.forms = Front(@)]

(* Mutant: the enclosing struct is not remembered.                         *)
BeginStructNoPrev(s, su, name) ==
  LET st == StructRef(s.rt, su, name)
      k  == MakeStruct([s EXCEPT !.rt = Struct(@, su, name)], st)
  IN  OpenForm([k EXCEPT !.current_struct = st], st)
(* ggrt_struct with its callback _gghc_struct.                             *)
BeginStruct(s, su, name) ==
  LET st == StructRef(s.rt, su, name)
      k  == MakeStruct([s EXCEPT !.rt = Struct(@, su, name)], st)
  IN  OpenForm([k EXCEPT !.structs[st].prev = k.current_struct,
                         !.current_struct = st], st)

(* gghc_struct_elem: the size of a named struct is asked for with its      *)
(* first member, the offset of each member that is not a bit-field; both   *)
(* before the text of the member itself is written.                        *)
Member(s, d) ==
  LET st == s.current_struct
      t  == s.rt.heap[st]
      tag   == s.text[st].term
      named == t.name # NoName
      a == [s EXCEPT !.rt = StructElem(@, st, d.identifier, d.type)]
      size == named /\ s.structs[st].nelem = 0
      k == IF size
           THEN Say(Constant(a, "sizeof", NoName, tag),
                    Form("sizeof", NoName,
                         Text(NullTerm, {NextConstant(a, "sizeof", NoName, tag)}, {tag})))
           ELSE a
      offset == named /\ d.bits = Literal(0)
      l == IF offset THEN Constant(k, "offsetof", d.identifier, tag) ELSE k
      uses == IF offset THEN {NextConstant(k, "offsetof", d.identifier, tag)} ELSE {}
  IN  Say([l EXCEPT !.structs[st].nelem = @ + 1],
          Form("element", d.identifier,
               [s.text[d.type] EXCEPT !.consts = @ \cup uses]))

(* Mutant: after a nested struct there is no current struct.               *)
EndStructToTop(s) ==
  LET st == Cur(s.rt).current_struct
  IN  IF st # s.current_struct THEN Stop(s, "abort")
      ELSE CloseForm([s EXCEPT !.rt = StructEnd(@, st), !.current_struct = 0])
(* ggrt_struct_end(ctx, 0) with its callback _gghc_struct_end.             *)
EndStruct(s) ==
  LET st == Cur(s.rt).current_struct
  IN  IF st # s.current_struct THEN Stop(s, "abort")
      ELSE CloseForm([s EXCEPT !.rt = StructEnd(@, st),
                               !.current_struct = s.structs[st].prev])

-----------------------------------------------------------------------------
(* Enums.  The forward line declares the variable; the form itself is      *)
(* opened by the first enumerator.                                         *)

BeginEnum(s, name) ==
  LET et == EnumRef(s.rt, name)
      term == Tagged("enum", name, UnnamedId(s, "enum", name))
      r == Enum(s.rt, name)
  IN  IF r.halt # "no" THEN [s EXCEPT !.rt = r]
      ELSE [s EXCEPT !.rt = r, !.text[et] = Text(term, {}, {term}),
                     !.enums[et] = 1,
                     !.unnamed.enum = IF name = NoName THEN @ + 1 ELSE @,
                     !.begun = IF s.emit # 0 THEN @ \cup {term} ELSE @]

Enumerator(s, name) ==
  LET et == Cur(s.rt).current_enum
      k == IF s.enums[et] = 2 THEN s ELSE OpenForm([s EXCEPT !.enums[et] = 2], et)
      a == [k EXCEPT !.rt = EnumElem(@, et, name, FALSE, 0)]
      uses == {NextConstant(a, "expr", name, NullTerm)}
  IN  IF s.emit = 0 THEN a
      ELSE Say(Constant(a, "expr", name, NullTerm),
               Form("enumerator", name, Text(NullTerm, uses, {})))

(* Mutant: the form of an enum is not closed.                              *)
EndEnumUnclosed(s) == [s EXCEPT !.rt = EnumEnd(@, Cur(s.rt).current_enum)]
EndEnum(s) ==
  CloseForm([s EXCEPT !.rt = EnumEnd(@, Cur(s.rt).current_enum)])

-----------------------------------------------------------------------------
(* Declarations and declarators (decl.c).                                  *)

DeclarationBegin(s) ==
  [s EXCEPT !.decls = Append(@, NewDeclaration(TypeByName(s.rt, "int")))]
DeclarationEnd(s) == [s EXCEPT !.decls = Front(@)]

(* Mutant: a declarator starts from the outermost declaration's type.      *)
DeclaratorBeginOutermost(s) ==
  IF s.decls = <<>> THEN Stop(s, "abort")
  ELSE [s EXCEPT !.dtors = Append(@, NewDeclarator(s.decls[1].type, Len(s.decls)))]
DeclaratorBegin(s) ==
  IF s.decls = <<>> THEN Stop(s, "abort")
  ELSE [s EXCEPT !.dtors = Append(@, NewDeclarator(CurDecl(s).type, Len(s.decls)))]
DeclaratorEnd(s) == [s EXCEPT !.dtors = Front(@)]
EndedDeclarator(s) ==
  LET d == CurDtor(s)
  IN  IF d.type = 0 THEN [d EXCEPT !.type = s.decls[d.declaration].type] ELSE d

SetType(s, t) == [s EXCEPT !.dtors[Len(s.dtors)].type = t]

(* type_specifier: the type goes to the current declaration and to the     *)
(* current declarator, if there is one; NULL is reported and goes there    *)
(* all the same.                                                           *)
TypeSpecifier(s, t) ==
  LET k == [s EXCEPT !.decls[Len(s.decls)].type = t, !.failed = @ \/ t = 0]
  IN  IF s.dtors = <<>> THEN k ELSE SetType(k, t)

(* gghc_array_decl, over the reversed list of its dimensions.              *)
ArrayOfType(k, len) ==
  LET t == CurDtor(k).type
      a == MakeArray(k, t, len)
  IN  IF a.rt.halt # "no" THEN a ELSE SetType(a, MadeArray(k, t, len))
(* Mutant: over the dimensions in the order they are written.              *)
ArrayDeclForward(s, lens) ==
  FoldLeft(LAMBDA k, len : IF k.rt.halt # "no" THEN k ELSE ArrayOfType(k, len), s, lens)
ArrayDecl(s, lens) ==
  FoldRight(LAMBDA len, k : IF k.rt.halt # "no" THEN k ELSE ArrayOfType(k, len), lens, s)

PointerDecl(s) ==
  LET t == CurDtor(s).type
      k == MakePointer(s, t)
  IN  IF k.rt.halt # "no" THEN k ELSE SetType(k, PointerRef(s.rt, t))

(* gghc_function_decl; ggrt_func asserts that there is a return type.      *)
FunctionDecl(s, params) ==
  LET rtn == EndedDeclarator(s).type
      k == SetType(MakeFunction(s, rtn, params), s.rt.next)
  IN  IF rtn = 0 THEN Stop(s, "abort")
      ELSE IF CurDtor(s).parenthised THEN PointerDecl(k) ELSE k

(* gghc_parameter_decl, which asserts that the current declarator belongs  *)
(* to the current declaration: the state, and the parameter's type.        *)
ParameterDecl(s) ==
  IF CurDtor(s).declaration # Len(s.decls) THEN Stop(s, "abort") ELSE s
ParameterType(s) ==
  LET t == EndedDeclarator(s).type IN IF t = 0 THEN TypeByName(s.rt, "int") ELSE t

(* gghc_struct_elem_decl; ggrt_struct_elem asserts that a member is named. *)
StructElemDecl(s, d) ==
  LET bits == d.bits # Literal(0)
      t == IF d.type = 0 THEN TypeByName(s.rt, "int") ELSE d.type
      k == IF bits THEN MakeBitfield(s, t, d.bits) ELSE s
      e == [d EXCEPT !.type = IF bits THEN k.rt.next - 1 ELSE t]
  IN  IF d.identifier = NoName THEN Stop(k, "abort") ELSE Member(k, e)

AddDeclarator(s, d) ==
  [s EXCEPT !.decls[Len(s.decls)].declarators = Append(@, d)]

(* gghc_emit_declarator: a typedef or a global.                            *)
EmitTypedef(s, name, t) ==
  LET r == Typedef(s.rt, name, t)
      k == [s EXCEPT !.rt = r]
  IN  IF r.next = s.rt.next THEN k
      ELSE Say([k EXCEPT !.text[s.rt.next] = Plain(WildTerm)],
               Form("typedef", name, s.text[t]))

EmitDeclarator(d, storage, s) ==
  IF s.rt.halt # "no" THEN s
  ELSE IF d.type = 0 THEN [s EXCEPT !.failed = TRUE]
  ELSE IF storage = "typedef" THEN EmitTypedef(s, d.identifier, d.type)
  ELSE Say([s EXCEPT !.rt = Global(@, d.identifier, d.type)],
           Form("global", d.identifier, s.text[d.type]))

(* gghc_emit_declaration(gghc_declaration_end()): the last declarator of   *)
(* the list is the first one emitted.                                      *)
EmitDeclaration(s) ==
  LET decl == CurDecl(s)
  IN  FoldRight(LAMBDA d, k : EmitDeclarator(d, decl.storage, k),
                decl.declarators, DeclarationEnd(s))

(* Mutant: a switch, not a count.                                          *)
EmitControlSet(s, i) == [s EXCEPT !.emit = i]
EmitControl(s, i) == [s EXCEPT !.emit = @ + i]

-----------------------------------------------------------------------------
(* The grammar.  A frame is a nonterminal being read: where it is in its   *)
(* production (phase), how many elements of its list it has (n), what C    *)
(* says the type is (type, and inner pointers still to be applied inside   *)
(* parentheses), and for a list what it has collected.                     *)

Frame(at, phase, type) ==
  [at |-> at, phase |-> phase, n |-> 0, type |-> type, inner |-> 0,
   storage |-> "none", name |-> NoName, params |-> <<>>, types |-> <<>>,
   declares |-> {}]

Top == Last(parse)
At(kinds) == parse # <<>> /\ Top.at \in kinds
Under == parse[Len(parse) - 1]
UnderAt(kinds) == Len(parse) > 1 /\ Under.at \in kinds
Push(f) == Append(parse, f)
SetTop(p, f) == Append(Front(p), f)
Pop == Front(parse)
Counted(p) == IF p = <<>> THEN p ELSE SetTop(p, [Last(p) EXCEPT !.n = @ + 1])
InBody == \E i \in DOMAIN parse : parse[i].at = "body"

Deeper == Len(parse) < MaxDepth
More   == Top.n < MaxList
Space(n) == Room(c.rt, n)
Constants(n) == c.constant_id + n <= MaxConstants
Uses(construct) == construct \in Syntax

Running == c.rt.halt = "no" /\ ended = "no"
Quiet == [c EXCEPT !.said = {}]
Reduce(s, p, forms) ==
  /\ Running
  /\ c' = s /\ parse' = p /\ meant' = forms
  /\ UNCHANGED ended

(* What a finished declarator declares.                                    *)
Pointers(t, n) ==
  LET f[i \in 0..n] == IF i = 0 THEN t ELSE PointerTo(f[i - 1]) IN f[n]
Meaning(f) == Pointers(f.type, f.inner)
Declares(kind, name, term) == [kind |-> kind, name |-> name, term |-> term]

(* declaration: it starts at file scope or in a function body.             *)
DeclarationStart ==
  /\ parse = <<>> \/ (At({"body"}) /\ More)
  /\ Deeper
  /\ Reduce(DeclarationBegin(Quiet), Push(Frame("decl", "specs", NullTerm)), {})

(* Only TYPEDEF makes a difference, to gghc_emit_declarator.               *)
StorageClass ==
  /\ At({"decl"}) /\ Top.phase = "specs" /\ Top.storage = "none"
  /\ Reduce([Quiet EXCEPT !.decls[Len(c.decls)].storage = "typedef"],
            SetTop(parse, [Top EXCEPT !.storage = "typedef"]), {})

(* A type specifier has been read: p becomes ready for declarators, and    *)
(* for further specifiers (SpecAgain).                                     *)
SpecsOpen == At({"decl", "sdecl", "pdecl"}) /\ Top.phase = "specs"
Specified(p, term) ==
  LET f == [Last(p) EXCEPT !.phase = "dtors", !.type = term]
  IN  IF f.at = "pdecl" THEN Append(SetTop(p, f), Frame("dtor", "stars", term))
      ELSE SetTop(p, f)

SpecIntrinsic ==
  \E n \in Intrinsics \ {Varargs} :
    /\ SpecsOpen
    /\ Reduce(TypeSpecifier(Quiet, TypeByName(c.rt, n)), Specified(parse, Base(n)), {})

(* Further specifiers: what C makes of one basic type and the next         *)
(* (6.7.2), where cy.y has no specifier for them together, as in           *)
(* "long unsigned" "int".  Each of them is a type_specifier of its own, so *)
(* that the last one stays; but a specifier_qualifier_list, of a member,   *)
(* gives the declaration its first one again.                              *)
Combined ==
  {<<"int", "int", "int">>,
   <<"int", "short", "short">>, <<"short", "int", "short">>,
   <<"int", "long", "long">>, <<"long", "int", "long">>,
   <<"long long", "int", "long long">>,
   <<"unsigned int", "short", "unsigned short">>,
   <<"unsigned short", "int", "unsigned short">>,
   <<"unsigned int", "long", "unsigned long">>,
   <<"unsigned long", "int", "unsigned long">>,
   <<"unsigned long", "long", "unsigned long long">>,
   <<"unsigned long long", "int", "unsigned long long">>}
NextSpecifier(s, at, t) ==
  IF at = "sdecl"
  THEN [TypeSpecifier(s, t) EXCEPT !.decls[Len(s.decls)].type = CurDecl(s).type]
  ELSE TypeSpecifier(s, t)

(* p ends with the declaration, and nothing of its declarators is read.    *)
(* What the code keeps is what C says, or anything with the construct      *)
(* "specifiers".                                                           *)
SpecifiedAgain(p, first, next, whole) ==
  /\ Last(p).phase = "dtors" /\ Last(p).n = 0 /\ Last(p).type = Base(first)
  /\ Uses("specifiers") \/ whole = (IF Last(p).at = "sdecl" THEN first ELSE next)
  /\ Reduce(NextSpecifier(Quiet, Last(p).at, TypeByName(c.rt, next)),
            Specified(p, Base(whole)), {})
SpecAgain ==
  \E first, next, whole \in Intrinsics \ {Varargs} :
    /\ <<first, next, whole>> \in Combined
    /\ \/ At({"decl", "sdecl"}) /\ SpecifiedAgain(parse, first, next, whole)
       \/ /\ At({"dtor"}) /\ UnderAt({"pdecl"})
          /\ Top.phase = "stars" /\ Top.type = Under.type
          /\ SpecifiedAgain(Pop, first, next, whole)

SpecTypeName ==
  \E n \in TypeNames :
    /\ SpecsOpen /\ Uses("typename") /\ Found(Cur(c.rt).tab["type"], n)
    /\ Reduce(TypeSpecifier(Quiet, TypeByName(c.rt, n)), Specified(parse, Base(n)), {})

(* A reference to a tag: one that has been defined or is being defined,    *)
(* or any with the construct "forward".                                    *)
Visible(term) == InBody \/ term \in c.begun
SpecStruct ==
  \E su \in {"struct", "union"}, n \in Tags :
    /\ SpecsOpen /\ Space(1)
    /\ Uses("forward") \/ (Known(c, su, n) /\ Visible(Tagged(su, n, 0)))
    /\ LET s == [Quiet EXCEPT !.rt = StructForward(@, su, n)]
       IN  Reduce(TypeSpecifier(s, StructRef(c.rt, su, n)),
                  Specified(parse, Tagged(su, n, 0)), {})

SpecEnum ==
  \E n \in Tags :
    /\ SpecsOpen /\ Space(1) /\ Uses("enumref")
    /\ Uses("forward") \/ EnumKnown(c.rt, n)
    /\ LET s == [Quiet EXCEPT !.rt = EnumForward(@, n)]
       IN  Reduce(TypeSpecifier(s, EnumRef(c.rt, n)),
                  Specified(parse, Tagged("enum", n, 0)), {})

-----------------------------------------------------------------------------
(* struct_or_union_specifier, enum_specifier.  A tag is defined once.      *)

StructOpen ==
  \E su \in {"struct", "union"}, n \in Tags \cup {NoName} :
    /\ \/ SpecsOpen
       \/ At({"struct"}) /\ More /\ Uses("inline")  \* __extension__ union {...};
    /\ Deeper /\ Space(1) /\ Uses(su)
    /\ ~ c.structs[StructRef(c.rt, su, n)].made
    /\ Reduce(BeginStruct(Quiet, su, n),
              Push(Frame("struct", "members", StructTerm(c, su, n))), {})

MemberStart ==
  /\ At({"struct"}) /\ More /\ Deeper
  /\ Reduce(DeclarationBegin(Quiet), Push(Frame("sdecl", "specs", NullTerm)), {})

MemberStop ==
  /\ At({"sdecl"}) /\ Top.n > 0
  /\ Reduce(DeclarationEnd(Quiet), Counted(Pop), {})

StructClose ==
  /\ At({"struct"}) /\ Top.n > 0
  /\ LET st == Cur(c.rt).current_struct
         s  == EndStruct(Quiet)
     IN  IF UnderAt({"struct"}) \/ s.rt.halt # "no" THEN Reduce(s, Counted(Pop), {})
         ELSE Reduce(TypeSpecifier(s, st), Specified(Pop, Top.type), {})

EnumOpen ==
  \E n \in Tags \cup {NoName} :
    /\ SpecsOpen /\ Deeper /\ Space(1) /\ Uses("enum") /\ ~ EnumKnown(c.rt, n)
    /\ Reduce(BeginEnum(Quiet, n),
              Push(Frame("enum", "members", Tagged("enum", n, UnnamedId(c, "enum", n)))), {})

EnumItem ==
  \E n \in ElemNames :
    /\ At({"enum"}) /\ More /\ Constants(1)
    /\ Reduce(Enumerator(Quiet, n), Counted(parse), {})

EnumClose ==
  /\ At({"enum"}) /\ Top.n > 0
  /\ Reduce(TypeSpecifier(EndEnum(Quiet), Cur(c.rt).current_enum),
            Specified(Pop, Top.type), {})

-----------------------------------------------------------------------------
(* Declarators.                                                            *)

DeclaratorStart ==
  /\ At({"decl", "sdecl", "fdef"}) /\ Top.phase = "dtors" /\ More /\ Deeper
  /\ Top.at = "fdef" => Top.n = 0
  /\ Reduce(DeclaratorBegin(Quiet), Push(Frame("dtor", "stars", Top.type)), {})

(* pointer: one * of a declarator, outside or inside parentheses.          *)
Star ==
  /\ At({"dtor"}) /\ Top.phase \in {"stars", "paren"} /\ Space(1)
  /\ Reduce(PointerDecl(Quiet),
            SetTop(parse, IF Top.phase = "paren" THEN [Top EXCEPT !.inner = @ + 1]
                          ELSE [Top EXCEPT !.type = PointerTo(@)]), {})

ParenOpen ==
  /\ At({"dtor"}) /\ Top.phase = "stars" /\ Uses("paren")
  /\ Reduce(Quiet, SetTop(parse, [Top EXCEPT !.phase = "paren"]), {})

ParenClose ==
  /\ At({"dtor"})
  /\ \/ Top.phase = "closing"
     \/ Top.phase = "paren" /\ Top.inner > 0 /\ UnderAt({"pdecl"})
  /\ Reduce([Quiet EXCEPT !.dtors[Len(c.dtors)].parenthised = TRUE],
            SetTop(parse, [Top EXCEPT !.phase = "suffix"]), {})

(* The name declared: the lexer makes a TYPE_NAME of one that is a typedef *)
(* name already.  A parameter's name reaches no output and is left out.    *)
Names ==
  IF Under.at = "sdecl" THEN ElemNames
  ELSE IF Under.storage = "typedef"
       THEN {n \in TypeNames : /\ ~ Found(Cur(c.rt).tab["type"], n)
                               /\ \A d \in Under.declares : d.name # n}
       ELSE GlobalNames
Identifier ==
  /\ At({"dtor"}) /\ UnderAt({"decl", "sdecl", "fdef"})
  /\ Top.phase \in {"stars", "paren"}
  /\ \E n \in Names :
       Reduce([Quiet EXCEPT !.dtors[Len(c.dtors)].identifier = n],
              SetTop(parse, [Top EXCEPT !.name = n,
                       !.phase = IF @ = "paren" THEN "closing" ELSE "suffix"]), {})

SuffixOpen ==
  /\ At({"dtor"})
  /\ Top.phase = "suffix" \/ (Top.phase = "stars" /\ UnderAt({"pdecl"}))

ArraySuffix ==
  \E n \in 1..2 : \E lens \in [1..n -> Lengths] :
    /\ SuffixOpen /\ ~ UnderAt({"fdef"}) /\ Space(2 * n) /\ Constants(n)
    /\ Reduce(ArrayDecl(Quiet, lens),
              SetTop(parse, [Top EXCEPT !.phase = "done",
                       !.type = FoldRight(LAMBDA len, t : ArrayOf(t, len), lens, @)]), {})

(* [sizeof(T)]: the type name in the length is a type_specifier too.       *)
SizeofSuffix ==
  \E n \in Intrinsics \ {Varargs}, e \in Exprs :
    /\ SuffixOpen /\ ~ UnderAt({"fdef"}) /\ Space(2) /\ Constants(1) /\ Uses("sizeof")
    /\ Reduce(ArrayDecl(TypeSpecifier(Quiet, TypeByName(c.rt, n)), <<Expr(e)>>),
              SetTop(parse, [Top EXCEPT !.phase = "done", !.type = ArrayOf(@, Expr(e))]), {})

FunctionOpen ==
  /\ At({"dtor"}) /\ Top.phase = "suffix" /\ Deeper
  /\ Reduce(Quiet, Push(Frame("params", "params", NullTerm)), {})

ParamStart ==
  /\ At({"params"}) /\ More /\ Deeper
  /\ Reduce(DeclaratorBegin(DeclarationBegin(Quiet)), Push(Frame("pdecl", "specs", NullTerm)), {})

ParamStop ==
  /\ At({"dtor"}) /\ UnderAt({"pdecl"}) /\ Top.phase \in {"stars", "suffix", "done"}
  /\ Meaning(Top) = Base("void") => Uses("void")
  /\ LET list == Front(Pop)
         s == DeclarationEnd(DeclaratorEnd(ParameterDecl(Quiet)))
         p == [Last(list) EXCEPT !.params = Append(@, ParameterType(c)),
                                 !.types = Append(@, Meaning(Top)), !.n = @ + 1]
     IN  Reduce(s, SetTop(list, p), {})

(* (void) declares no parameter.                                           *)
FunctionClose ==
  \E variadic \in BOOLEAN :
    /\ At({"params"}) /\ Space(2) /\ (variadic => Top.n > 0)
    /\ LET dots   == IF variadic THEN <<TypeByName(c.rt, Varargs)>> ELSE <<>>
           params == IF Top.types = <<Base("void")>> /\ ~ variadic THEN <<>>
                     ELSE Top.types \o (IF variadic THEN <<Base(Varargs)>> ELSE <<>>)
           f == [Under EXCEPT !.phase = "done", !.type = FunctionOf(@, params)]
       IN  Reduce(FunctionDecl(Quiet, Top.params \o dots), SetTop(Pop, f), {})

(* ':' constant_expression, after a name or without one.                   *)
BitField ==
  \E len \in Lengths :
    /\ At({"dtor"}) /\ UnderAt({"sdecl"}) /\ Top.type.op = "type"
    /\ Top.phase = "suffix" \/ (Top.phase = "stars" /\ Uses("padding"))
    /\ Reduce([Quiet EXCEPT !.dtors[Len(c.dtors)].bits = len],
              SetTop(parse, [Top EXCEPT !.phase = "done", !.type = BitsOf(@, len)]), {})

DeclaratorStop ==
  /\ At({"dtor"}) /\ Top.phase \in {"suffix", "done"}
  /\ UnderAt({"sdecl"}) => Constants(3)
  /\ CurDtor(c).bits = Literal(0) \/ Space(1)
  /\ LET d == EndedDeclarator(c)
         s == DeclaratorEnd(Quiet)
         kind == IF Under.storage = "typedef" THEN "typedef" ELSE "global"
         under == Counted(Pop)
     IN  \/ /\ UnderAt({"decl"})
            /\ Reduce(AddDeclarator(s, d),
                      SetTop(under, [Last(under) EXCEPT !.declares =
                               @ \cup {Declares(kind, Top.name, Meaning(Top))}]), {})
         \/ /\ UnderAt({"sdecl"})
            /\ Reduce(StructElemDecl(s, d), under,
                      IF InBody THEN {}
                      ELSE {Declares("element", Top.name, Meaning(Top))})
         \/ /\ UnderAt({"fdef"})
            /\ Reduce(s, under, {})

DeclarationStop ==
  /\ At({"decl"}) /\ Top.phase = "dtors" /\ Space(Top.n)
  /\ Reduce(EmitDeclaration(Quiet), Counted(Pop), IF InBody THEN {} ELSE Top.declares)

-----------------------------------------------------------------------------
(* function_definition without specifiers; its declarator is not added to  *)
(* the declaration.  (With specifiers the grammar takes the function for a *)
(* declaration, and its body is a syntax error.)                           *)

DefinitionStart ==
  /\ parse = <<>> /\ Uses("body")
  /\ Reduce(DeclarationBegin(Quiet), Push(Frame("fdef", "dtors", Base("int"))), {})

BodyOpen ==
  /\ At({"fdef"}) /\ Top.n = 1 /\ Deeper
  /\ Reduce(EmitControl(Quiet, -1), Push(Frame("body", "body", NullTerm)), {})

BodyClose ==
  /\ At({"body"})
  /\ Reduce(EmitDeclaration(EmitControl(Quiet, 1)), Front(Pop), {})

(* The end of the input, and a token that the grammar does not expect.     *)
Finish ==
  /\ Running /\ parse = <<>>
  /\ ended' = "eof" /\ c' = Quiet /\ meant' = {} /\ UNCHANGED parse
SyntaxError ==
  /\ Running /\ Uses("error")
  /\ ended' = "error" /\ c' = [Quiet EXCEPT !.failed = TRUE] /\ meant' = {}
  /\ UNCHANGED parse

Init ==
  /\ c = StartState
  /\ parse = <<>>
  /\ meant = {}
  /\ ended = "no"

Next ==
  \/ DeclarationStart \/ StorageClass \/ DeclarationStop
  \/ SpecIntrinsic \/ SpecAgain \/ SpecTypeName \/ SpecStruct \/ SpecEnum
  \/ StructOpen \/ MemberStart \/ MemberStop \/ StructClose
  \/ EnumOpen \/ EnumItem \/ EnumClose
  \/ DeclaratorStart \/ Star \/ ParenOpen \/ ParenClose \/ Identifier
  \/ ArraySuffix \/ SizeofSuffix \/ BitField \/ DeclaratorStop
  \/ FunctionOpen \/ ParamStart \/ ParamStop \/ FunctionClose
  \/ DefinitionStart \/ BodyOpen \/ BodyClose
  \/ Finish \/ SyntaxError

Spec == Init /\ [][Next]_cvars

-----------------------------------------------------------------------------
(* Properties.                                                             *)

Declaring  == {i \in DOMAIN parse : parse[i].at \in {"decl", "sdecl", "pdecl", "fdef"}}
Declarator == {i \in DOMAIN parse :
                 \/ parse[i].at = "pdecl"
                 \/ parse[i].at = "dtor" /\ (i = 1 \/ parse[i - 1].at # "pdecl")}
Bodies     == {i \in DOMAIN parse : parse[i].at = "body"}

(* The compiler's state has its type, as far as the other properties need. *)
TypeOK ==
  /\ c.rt.next \in 1..MaxObjs + 1 /\ c.rt.halt \in {"no", "abort", "segv"}
  /\ c.constant_id \in 0..MaxConstants + 3
  /\ \A i \in DOMAIN c.decls : c.decls[i].type \in Ref
  /\ \A i \in DOMAIN c.dtors : c.dtors[i].type \in Ref
  /\ c.current_struct \in Ref
  /\ ended \in {"no", "eof", "error"}

(* Every global, typedef and member is written exactly when the source     *)
(* declares it, with the type that C gives it: nested declarators,         *)
(* parameters and struct bodies never leak a type into each other, and a   *)
(* type taken from a cache of the registry has the right text.             *)
DeclaredAsWritten ==
  c.rt.halt = "no" =>
    meant = {[kind |-> f.kind, name |-> f.name, term |-> f.text.term] :
               f \in {g \in c.said : g.kind \in {"global", "typedef", "element"}}}

(* The constants program defines every constant that a form mentions, and  *)
(* no id twice: quiet function bodies and dropped texts leave no hole.     *)
ConstantsDefined ==
  /\ \A f \in c.said : f.text.consts \subseteq c.written
  /\ \A a, b \in c.written : a.id = b.id => a = b

(* A form mentions a struct or enum variable only after the form that      *)
(* declares it.                                                            *)
NoDanglingReference == \A f \in c.said : f.text.tags \subseteq c.begun

(* No assert fails, nothing aborts and no NULL is followed.                *)
NoAssertFails == c.rt.halt = "no"

(* The declaration and declarator stacks are as deep as the grammar is     *)
(* nested, a parameter having its declarator from its start on; the        *)
(* declarator being read belongs to the declaration it is read in; and     *)
(* output is off exactly in function bodies.                               *)
StacksMirrorGrammar ==
  /\ Len(c.decls) = Cardinality(Declaring)
  /\ Len(c.dtors) = Cardinality(Declarator)
  /\ At({"pdecl", "dtor"}) => CurDtor(c).declaration = Len(c.decls)
  /\ c.emit = 1 - Cardinality(Bodies)

(* gghc's stack of structs and the registry's are the same stack, that of  *)
(* the struct bodies being read: the assert of _gghc_struct_end.           *)
StructStacksAgree ==
  LET open == {i \in DOMAIN parse : parse[i].at = "struct"}
  IN  /\ c.current_struct = Cur(c.rt).current_struct
      /\ (open = {}) <=> (c.current_struct = 0)
      /\ \A i \in open : (\A j \in open : j <= i) =>
           c.text[c.current_struct].term = parse[i].type
      /\ c.current_struct # 0 =>
           c.structs[c.current_struct].prev = c.rt.heap[c.current_struct].prev

(* The forms that are open in the output are the struct bodies, and the    *)
(* enum bodies with an enumerator, that are being read with output on.     *)
OutputNests ==
  LET open == IF InBody THEN {}
              ELSE {i \in DOMAIN parse :
                      \/ parse[i].at = "struct"
                      \/ parse[i].at = "enum" /\ parse[i].n > 0}
      place(i) == Cardinality({j \in open : j <= i})
  IN  /\ Len(c.forms) = Cardinality(open)
      /\ \A i \in open : c.text[c.forms[place(i)]].term = parse[i].type
=============================================================================
