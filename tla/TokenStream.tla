---------------------------- MODULE TokenStream ----------------------------
(***************************************************************************)
(* The text behind the tokens: the buffers of mm_buf.c, the lexer (cl.l)   *)
(* and the regions that the parser keeps on its value stack (token_merge,  *)
(* cy.y).                                                                  *)
(*                                                                         *)
(* There are two buffers on one input.  The lexer reads from mb, one       *)
(* character at a time and as far ahead as it needs; mb_token follows, by  *)
(* the length of each match, and says where a token begins and on which    *)
(* line of which source file.  Array lengths, bit-field sizes and tags are *)
(* the text of a region, and messages give its line.                       *)
(*                                                                         *)
(* A text is kept twice once asked for: with the region, and as the expr   *)
(* of the parser's symbol, which the default action $$ = $1 copies to the  *)
(* symbol that a production makes.                                         *)
(*                                                                         *)
(* flex and bison are external: the lexer is its longest-match rule over   *)
(* four kinds of lexeme, and the parser is any that shifts and reduces, as *)
(* far as texts are not concerned (see Kinds).                             *)
(* Comments are left out, which the preprocessor strips, and so are        *)
(* columns and file names, which move with the line.                       *)
(***************************************************************************)
EXTENDS Integers, Sequences, FiniteSets

CONSTANTS
  MaxInput,   \* bound: characters of input
  MaxStack,   \* bound: symbols on the parser's stack
  MaxArity,   \* bound: symbols on a production's right-hand side
  Line        \* the number that a line directive gives the next line

ASSUME BoundsAssumption == {MaxInput, MaxStack, MaxArity, Line} \subseteq Nat

VARIABLES
  input,      \* the characters of the preprocessed file
  mb,         \* the buffer that the lexer reads: its s.pos and s.src.lineno
  mb_token,   \* the buffer that follows the tokens
  last_token, \* the region of the last match
  token,      \* whether that match is a token the parser has yet to shift
  stack,      \* the regions on the parser's value stack
  values      \* what else its symbols hold: the text in expr, and their kind

vars == <<input, mb, mb_token, last_token, token, stack, values>>

(* A letter, an operator's sign, a blank, the end of a line, and the sign  *)
(* that starts a line directive, whose number and file name it stands for. *)
Chars == {"a", "+", " ", "nl", "#"}

(* A buffer's state: pos is the next character's, so 1 at the beginning.   *)
State == [pos : 1..MaxInput + 1, line : Nat]

(* mm_buf_region: begin and end of a piece of the input, the line of its   *)
(* first character, and its text once asked for (as an interval).  Zero    *)
(* stands for a NULL pointer, and endpos for end.pos, which                *)
(* mm_buf_region_end leaves as it was at the beginning.                    *)
Interval == {[from |-> 0, size |-> 0]} \cup [from : 1..MaxInput, size : 1..MaxInput]
Region == [pos : 0..MaxInput + 1, size : 0..MaxInput, line : Nat,
           endpos : 0..MaxInput + 1, end : 0..MaxInput + 1, cstr : Interval]

NoText == [from |-> 0, size |-> 0]

(* mm_buf_region_init                                                      *)
Empty == [pos |-> 0, size |-> 0, line |-> 0, endpos |-> 0, end |-> 0, cstr |-> NoText]

(* What the grammar says of the texts that actions ask for: they are those *)
(* of phrases, which are tokens, identifiers and expressions.  A phrase    *)
(* begins with a token or another phrase; asking is not part of making     *)
(* one.  A tag is the empty symbol of the action that runs between the     *)
(* name of a struct, union or enum and its body.                           *)
Kinds == {"phrase", "tag", "other"}
Value == [kind : Kinds, expr : Interval]

-----------------------------------------------------------------------------
(* Buffers.                                                                *)

Newlines(from, to) == {i \in from..to : input[i] = "nl"}

(* mm_buf_read of n characters, mm_buf_getc for each: at the end of the    *)
(* input no more are read.                                                 *)
Read(b, n) ==
  LET to == IF b.pos + n - 1 > Len(input) THEN Len(input) ELSE b.pos + n - 1
  IN  [pos |-> to + 1, line |-> b.line + Cardinality(Newlines(b.pos, to))]

(* mm_buf_region_begin on b, and mm_buf_region_end after reading on to e.  *)
(* Mutant: the region begins where the reading has stopped.                *)
RegionLate(b, e) ==
  [pos |-> e.pos, size |-> e.pos - b.pos, line |-> e.line,
   endpos |-> e.pos, end |-> e.pos, cstr |-> NoText]
RegionOf(b, e) ==
  [pos |-> b.pos, size |-> e.pos - b.pos, line |-> b.line,
   endpos |-> b.pos, end |-> e.pos, cstr |-> NoText]

(* mm_buf_region_union into a region that is the first operand.  When the  *)
(* operands are out of order, which an empty one is, being at NULL, the    *)
(* code's swap makes both the first one.                                   *)
(* Mutants: without the swap; the text of the operand is kept.             *)
UnionUnordered(r, src) ==
  IF r.pos # 0
  THEN [r EXCEPT !.endpos = src.endpos, !.end = src.end,
                 !.size = src.end - r.pos, !.cstr = NoText]
  ELSE src
UnionKeepsText(r, src) ==
  LET last == IF r.pos > src.endpos THEN r ELSE src
  IN  IF r.pos # 0
      THEN [r EXCEPT !.endpos = last.endpos, !.end = last.end,
                     !.size = last.end - r.pos]
      ELSE src
Union(r, src) ==
  LET last == IF r.pos > src.endpos THEN r ELSE src
  IN  IF r.pos # 0
      THEN [r EXCEPT !.endpos = last.endpos, !.end = last.end,
                     !.size = last.end - r.pos, !.cstr = NoText]
      ELSE src

-----------------------------------------------------------------------------
(* The lexer: what the rules of cl.l match at p, and how far they read.    *)

Same(p, q) == \A i \in p..q : input[i] = "a"

(* The first end of line from p on, or one beyond the end of the input.    *)
EndOfLine(p) ==
  LET ends == Newlines(p, Len(input)) \cup {Len(input) + 1}
  IN  CHOOSE i \in ends : \A j \in ends : i <= j

(* A directive is matched with its end of line; without one, its first     *)
(* sign alone is matched, as a bad character, and the lexer backs up.      *)
IsDirective(p) == input[p] = "#" /\ EndOfLine(p) <= Len(input)

LastSame(p) ==
  CHOOSE q \in p..Len(input) :
    Same(p, q) /\ (q < Len(input) => ~ Same(p, q + 1))

MatchEnd(p) ==
  CASE IsDirective(p)  -> EndOfLine(p)
    [] input[p] = "a"  -> LastSame(p)
    [] input[p] = "+" /\ p < Len(input) /\ input[p + 1] = "+" -> p + 1
    [] OTHER           -> p

(* The last character read when the match is decided: one more than the    *)
(* match where a longer one was possible, all that is left for a directive *)
(* that has no end.                                                        *)
ReadEnd(p) ==
  LET next == IF p < Len(input) THEN p + 1 ELSE p
  IN  CASE input[p] = "#" -> IF IsDirective(p) THEN EndOfLine(p) ELSE Len(input)
        [] input[p] = "a" -> IF LastSame(p) < Len(input) THEN LastSame(p) + 1 ELSE LastSame(p)
        [] input[p] = "+" -> next
        [] OTHER          -> p

(* The lexer reads until the match is decided, what it has read ahead      *)
(* before included; mb_token and last_token follow the match.  A line      *)
(* directive then sets the line in both buffers.                           *)
(* Mutant: only the buffer that the lexer reads is set.                    *)
SourceOfReader(p, s) == s
Source(p, s) == IF IsDirective(p) THEN [s EXCEPT !.line = Line] ELSE s

Lex ==
  LET p    == mb_token.pos
      read == IF ReadEnd(p) >= mb.pos THEN Read(mb, ReadEnd(p) - mb.pos + 1) ELSE mb
      next == Read(mb_token, MatchEnd(p) - p + 1)
  IN  /\ ~ token /\ p <= Len(input)
      /\ mb' = IF IsDirective(p) THEN [read EXCEPT !.line = Line] ELSE read
      /\ mb_token' = Source(p, next)
      /\ last_token' = RegionOf(mb_token, next)
      /\ token' = (input[p] \in {"a", "+"})
      /\ UNCHANGED <<input, stack, values>>

-----------------------------------------------------------------------------
(* The parser: the token is pushed, a production's symbols are replaced by *)
(* one, whose region token_merge makes; a production may be empty.         *)

(* _prepare_token clears the symbol before it sets the region.             *)
Shift ==
  /\ token /\ Len(stack) < MaxStack
  /\ stack' = Append(stack, last_token)
  /\ values' = Append(values, [kind |-> "phrase", expr |-> NoText])
  /\ token' = FALSE
  /\ UNCHANGED <<input, mb, mb_token, last_token>>

(* token_merge: each symbol is united in turn with those before it.        *)
Merge(rhs) ==
  LET united[n \in 0..Len(rhs)] ==
        IF n = 0 THEN Empty ELSE Union(united[n - 1], rhs[n])
  IN  united[Len(rhs)]

(* mm_buf_region_cstr, and _to_expr, which answers from expr if it can.    *)
Text(r) == IF r.cstr # NoText THEN r.cstr ELSE [from |-> r.pos, size |-> r.size]
ToExpr(i) == IF values[i].expr # NoText THEN values[i].expr ELSE Text(stack[i])

(* The default action copies the first symbol of the production.           *)
(* Mutant: after its text was asked for.                                   *)
CopiedAsked(i) == ToExpr(i)
Copied(i) == values[i].expr

(* An empty production's symbol copies what the stack holds above its top; *)
(* others copy that of theirs, or are given another text (struct_or_union, *)
(* cy.y:511).  The worst of these stands for all: a text of another symbol. *)
Foreign == [from |-> 1, size |-> 1]

(* A production of n symbols.  Its action may ask for their texts, but     *)
(* only once the default action has copied the first one, and they leave   *)
(* the stack with it.  The production that a tag is in has a keyword       *)
(* before the name.                                                        *)
Reduce ==
  \E n \in 0..MaxArity, kind \in {"phrase", "other"} :
    LET rest == Len(stack) - n
        made == Merge(SubSeq(stack, rest + 1, Len(stack)))
        expr == IF kind = "phrase" THEN Copied(rest + 1) ELSE Foreign
    IN  /\ rest >= 0 /\ rest < MaxStack
        /\ kind = "phrase" => n > 0 /\ values[rest + 1].kind = "phrase"
        /\ \A m \in DOMAIN values : values[m].kind = "tag" => rest + 1 \notin {m - 1, m}
        /\ stack' = Append(SubSeq(stack, 1, rest), made)
        /\ values' = Append(SubSeq(values, 1, rest), [kind |-> kind, expr |-> expr])
        /\ UNCHANGED <<input, mb, mb_token, last_token, token>>

(* The action after a tag's name asks for its text while the name stays on *)
(* the stack.                                                              *)
NameTag ==
  LET top == Len(stack)
  IN  /\ top \in 2..MaxStack - 1 /\ values[top].kind = "phrase"
      /\ stack' = Append([stack EXCEPT ![top].cstr =
                             IF values[top].expr # NoText THEN @ ELSE Text(stack[top])],
                          Empty)
      /\ values' = Append([values EXCEPT ![top].expr = ToExpr(top)],
                          [kind |-> "tag", expr |-> Foreign])
      /\ UNCHANGED <<input, mb, mb_token, last_token, token>>

(* With debugging output on, token_merge takes the text of the regions it  *)
(* unites and of their union; here, of any region at any time.             *)
TakeText ==
  \E i \in DOMAIN stack :
    /\ stack[i].pos # 0
    /\ stack' = [stack EXCEPT ![i].cstr = Text(stack[i])]
    /\ UNCHANGED <<input, mb, mb_token, last_token, token, values>>

(* gghc_yyparse: mb_token starts as a copy of mb, at the file's beginning. *)
Init ==
  /\ input \in UNION {[1..n -> Chars] : n \in 1..MaxInput}
  /\ mb = [pos |-> 1, line |-> 1] /\ mb_token = mb
  /\ last_token = Empty
  /\ token = FALSE
  /\ stack = <<>> /\ values = <<>>

Next == Lex \/ Shift \/ Reduce \/ NameTag \/ TakeText

Spec == Init /\ [][Next]_vars

-----------------------------------------------------------------------------
(* Properties.                                                             *)

TypeOK ==
  /\ mb \in State /\ mb_token \in State
  /\ last_token \in Region
  /\ token \in BOOLEAN
  /\ stack \in Seq(Region) /\ Len(stack) <= MaxStack
  /\ values \in Seq(Value) /\ Len(values) = Len(stack)

(* The line that the preprocessor says the character at p is on: counted   *)
(* from the last directive before it.                                      *)
InDirective(p) ==
  /\ EndOfLine(p) <= Len(input)
  /\ \E i \in 1..p : input[i] = "#" /\ Newlines(i, p - 1) = {}
LineAt(p) ==
  LET ends == {e \in Newlines(1, p - 1) : InDirective(e)}
  IN  IF ends = {} THEN 1 + Cardinality(Newlines(1, p - 1))
      ELSE Line + Cardinality(Newlines((CHOOSE e \in ends : \A d \in ends : d <= e) + 1,
                                       p - 1))

(* The message of an error names the line where the last match begins,     *)
(* and every symbol keeps the line of its first token, however far ahead   *)
(* the lexer has read and over whatever directives.                        *)
LinesAsDirected ==
  /\ last_token.pos # 0 => last_token.line = LineAt(last_token.pos)
  /\ \A i \in DOMAIN stack : stack[i].pos # 0 => stack[i].line = LineAt(stack[i].pos)

(* The signs of tokens among the characters from..to.                      *)
Signs(from, to) == {i \in from..to : input[i] \in {"a", "+"} /\ ~ InDirective(i)}

Symbols == {i \in DOMAIN stack : stack[i].pos # 0}

(* The parser's symbols, from first to last, are apart and in the order of *)
(* the input, and together they hold exactly the tokens that it has        *)
(* shifted; so a symbol's text is what was written from its first token to *)
(* its last, however many empty productions it is made of.                 *)
SymbolsSpanTokens ==
  LET Span(i) == stack[i].pos .. stack[i].pos + stack[i].size - 1
      shifted == Signs(1, (IF token THEN last_token.pos ELSE mb_token.pos) - 1)
  IN  /\ \A i, j \in Symbols :
           i < j => stack[i].pos + stack[i].size <= stack[j].pos
      /\ \A i \in Symbols : {stack[i].pos, stack[i].pos + stack[i].size - 1}
                              \subseteq Signs(1, Len(input))
      /\ UNION {Span(i) \cap Signs(1, Len(input)) : i \in Symbols} = shifted

(* Whatever texts were asked for before, of a symbol, of its parts or of   *)
(* what it copies, an action that asks for the text of a phrase is given   *)
(* what was written from its first token to its last; and the text kept    *)
(* with a region is that of the whole region.                              *)
TextIsOwn ==
  \A i \in DOMAIN stack :
    LET own == [from |-> stack[i].pos, size |-> stack[i].size]
    IN  /\ stack[i].cstr \in {NoText, own}
        /\ values[i].kind = "phrase" => ToExpr(i) = own
=============================================================================
