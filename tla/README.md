# GGHC in TLA+

GGHC reads C headers and writes, as s-expressions, every type, global and
constant in them. This directory models it: the registry of C types with its
symbol tables, layout and foreign calls, the allocation zones under it, the
token stream and the compiler that turns the grammar's reductions into calls of
the registry and forms in the output, and the program around them. Paths below are relative to
the repository, the implementation being under `src/src/`.

## 1. The system

| part | source | state it keeps | operations |
|---|---|---|---|
| type registry | `ggrt/ggrt.c`, `ggrt/ctx.c` | type objects with their caches (`pointer_to`, `array0_of`), modules with their symbol tables, the struct and enum being defined | reset, module begin/end, intrinsic, typedef, pointer, array, bit-field, function, global, struct/union begin/elem/end, enum begin/elem/end, forward references, placeholders |
| symbol tables | `ggrt/st.c` | two arrays of symbols, by name and by address | add, look up |
| zones | `ggrt/malloc_zone.c` | a ring of objects and four counters per zone | malloc, free, realloc, clear, destroy |
| compiler | `gghc/cy.y`, `decl.c`, `output.c`, part of `ctx.c` | stacks of declarations and declarators, the stack of structs, text of every type, output switch, ids | one action per production with a semantic action |
| lexer, token stream | `gghc/cl.l`, `ggrt/mm_buf.c`, `token_merge` in `cy.y` | two positions in the input with their lines, a region per symbol of the parser | read, match, line directive, unite regions, take text |
| pipeline | `gghc/process.c`, `ctx.c`, `gghc-bin/main.c` | options, files, counts of errors, exit code | the sequence cpp, defines, parse, constants, concatenation |
| layout | `ggrt/ggrt.c:518-597` | size and alignment fields of types, offsets of elements | sizeof, alignof |
| foreign calls | `ggrt/ffi.c` | a prepared call per function type | prepare, call |

The program is sequential; it has no locks, messages, timeouts or retries, and
it persists nothing but temporary files. What is hard in it is elsewhere:

* **Order of actions.** The grammar reduces constructs inside out and runs
  actions in the middle of productions. All of them work on one *current*
  declaration and declarator, so an inner construct can reach the state of an
  outer one.
* **Caches.** Types are shared objects; what one declaration stores in one is
  what a later declaration reads.
* **Two stacks that must agree.** The registry and the compiler each keep a
  chain of the structs being defined.
* **Two outputs that must agree.** The body mentions constants by number; a
  separate C program, written at other places, computes them.
* **Going on after an error.** Neither a failed command nor a syntax error
  stops the program.
* **Two readers of one input.** The lexer reads ahead; the buffer that says
  where a token is follows behind, and a line directive sets both.
* **Values kept once computed**: sizes, alignments, texts of regions,
  descriptions for libffi.

The parts call each other as follows. The parser calls `decl.c` and the
registry; the registry calls back into `output.c` when it makes an object;
`output.c` stores text in the object (`cb_data[0]`) and writes forms. Both use
zones, the registry one of its own and the compiler another.

For each part, correctness means:

* registry: one object per C type where the registry promises it, one type per
  tag, the same intrinsics in every module, definitions that nest;
* zones: each ring holds exactly the live objects of its zone; counters agree;
  no assert fails for a caller that keeps the rules;
* symbol tables: a symbol is found exactly when one was added;
* layout and calls: sizes are those of C whenever they are asked for, and
  arguments lie where the function was told they would;
* token stream: each symbol of the parser is the text from its first token to
  its last, on the line the preprocessor says;
* compiler: what is written is what was declared, in well-nested forms that
  refer only to what has been defined;
* program: no step reads what is not ready, no failure is lost, nothing is left
  behind, and the exit status tells of failures.

## 2. Modules

| module | models | extends |
|---|---|---|
| `Registry` | every operation of the registry, as an operator on a registry value | |
| `TypeRegistry` | the registry as a state machine: any caller, any order of calls | `Registry` |
| `TypeRegistryProofs` | theorems about its types and caches, its names and the nesting of definitions | `TypeRegistry`, `TLAPS` |
| `ZoneSpec` | what zones promise: disjoint sets of owned blocks | |
| `MallocZone` | `malloc_zone.c`: rings, counters and asserts | |
| `MallocZoneProofs` | theorems about it, the refinement and the counters included | `MCMallocZone`, `SetInduction` |
| `SymbolSpec` | what a symbol table promises: a set that answers questions | |
| `SymbolTable` | `st.c`: two sorted arrays with bisection; implements `SymbolSpec` | |
| `SymbolTableProofs` | theorems about it: bisection and the refinement | `SymbolTable`, `SetInduction` |
| `TypeLayout` | `ggrt_type_sizeof`, `ggrt_type_alignof` and their memo fields | |
| `FfiCall` | `ffi.c`: describing, preparing and calling, over `TypeLayout` | `TypeLayout` |
| `TokenStream` | the buffers, the lexer's reading and the parser's regions | |
| `TokenStreamProofs` | theorems about it | `TokenStream`, `SetInduction` |
| `Pipeline` | the program from its arguments to its exit status | |
| `PipelineProofs` | theorems about it | `Pipeline`, `TLAPS` |
| `Compiler` | grammar actions, `decl.c` and `output.c` over `Registry` | `Registry` |
| `CompilerProofs` | the theorem about its stacks; lemmas on what each operation does to the registry, the texts of types, the declarators and the open structs | `Compiler`, `SetInduction` |
| `CompilerInvariantProofs` | the inductive invariant of the compiler and the other theorems about it | `CompilerProofs` |
| `SetInduction` | induction over numbers, sums over finite sets and remainders, for the proofs | `TLAPS` |
| `MCTypeRegistry`, `MCMallocZone`, `MCFfiCall` | definitions TLC needs for its instances | |

Operators and actions have the names of the C functions or productions they
stand for, without the prefix: `Pointer` is `ggrt_pointer`, `BeginStruct` is
`_gghc_struct` as `ggrt_struct` calls it, `ParameterDecl` is
`gghc_parameter_decl`.

### Registry

A reference is a number, 0 for NULL. `heap` holds type and typedef objects,
`mods` the modules, `itab` the tables of intrinsics, which modules share. A
table is the set of its symbols; identical globals collapse, which nothing in
the registry can tell apart. `halt` records an abort or a NULL dereference,
after which nothing happens.

The caller of `TypeRegistry` keeps the asserts of the API: it passes types and
adds elements to, and ends, only what is open. Opening a struct that is open
already is legal in the code; `reopened` remembers it, since nesting then
cannot be expected. `open` is a history variable.

Not modelled here: layout (module `TypeLayout`), `te` numbers, `ggrt_replace`, parameter lists, initial
names and the name argument of `ggrt_enum_end` (no caller in the repository
uses them), and the module's lists of pragmas, macros, constants, typedefs.

### MallocZone

`next` and `prev` are the links of objects and of the headers. `owner` is a
history variable. With `CrossFree` a caller may free an object through a zone
that is not its own, as `gghc_struct_elem` does: it frees in the compiler's
zone strings that came from the registry's. Counters are `size_t`, taken modulo
`Modulus`. `realloc` is malloc, copy, free, as in the code. A size may be zero:
the registry allocates the lists of enums, structs and functions without
elements so (ggrt.c:404, 608, 655). `MCMallocZone` adds a history variable,
`crossed`, set by the first free through a wrong zone: what holds only for a
caller that keeps to its zones is stated until then. Even for such a caller one
assert can fail, `assert(zone->nbytes)` (malloc_zone.c:91), when the objects of
a zone are all empty; `OnlyEmptyObjectsAbort` says that no other fails, and
this one nowhere else.

### SymbolTable

`st` is the pair of arrays. `Add` gives every pair that `qsort` may leave, since
it may order equal symbols in any way; `Bsearch` is a bisection. `SymbolSpec`
is a set of symbols with questions; `ImplementsSymbolSpec` shows that the
arrays implement it, so `Registry` may take its tables for sets.

### TypeLayout and FfiCall

A type is a place in the sequence `types`. `Measure` is `ggrt_type_sizeof` as a
function from types to types: it returns what the call leaves in them, for the
type asked about, its element types and the offsets of its members. `Sizeof`
may happen at any time, before a struct is complete included, so the memo of
every type is tried at every stage. A member or an array is only made of a
complete type, as in C: the code does not look, and a container keeps a stale
size when a struct in it grows later. The properties compare with what C says of a
declaration (`CSize`, `CAlign`, `COffset`), defined without caches. The machine
has 8-byte pointers and scalars aligned to their size.

In `FfiCall` a description of a type is the size that it tells libffi, 0 for
NULL. `ggrt_ffi_type` answers NULL when it makes a description. For a parameter
an assert comes before (ffi.c:152). For a result nothing looks: the NULL is
stored (ffi.c:145) and given to `ffi_prep_cif` (ffi.c:160), which follows it.
In both cases the model stops (`halted`), as it does at the `abort()` for other
types made before `ggrt_ctx_init_ffi` was called. `ArgumentsFit` speaks of *plain*
parameters, pointers and scalars of at least an int; see the table below for
the others.

### TokenStream

`mb` is the position of the lexer, with all it has read ahead; `mb_token` that
of the last match. Characters are of five kinds and lexemes of four: a run of
letters, a sign that may be doubled, white space, a line directive (`#` to the
end of its line, standing for its number and file name). The parser is any that
shifts tokens and reduces up to `MaxArity` symbols, empty productions included,
and asks for texts. These are kept in two places, and only one is reset when
symbols are united: `cstr` of the region, which `mm_buf_region_union` clears,
and `expr` of the parser's symbol, which `_to_expr` (cy.y:75) fills and bison's
default action `$$ = $1` copies to the symbol a production makes. So when an
action may ask, and of which symbol, is kept from the grammar: texts are asked
of *phrases* (tokens, identifiers, expressions, which begin with a token or a
phrase), by the action of the production they are in, after the default action
has copied the first symbol and before all of them leave the stack; only the
action between the name of a struct, union or enum and its body (`NameTag`)
leaves the symbol it asked on the stack, and the production it is in begins
with a keyword. What other symbols have in `expr` may be the text of anything
(`Foreign`). `TakeText` is the debugging output of `token_merge`, which takes
texts of regions only. A region is its beginning, size, line, end and its text
once taken; `endpos` stands for `end.pos`, which `mm_buf_region_end` does not
set and `mm_buf_region_union` compares with.

### Pipeline

`pc` is the step the program is at, from `gghc_parse_argv`, an argument at a
time, through the steps of `gghc_process_files`, a command or a file at a time,
to the exit. `disk` says of each temporary file whether it is missing, left by
an earlier process of the same pid, without any input, incomplete or whole; a
command makes of its inputs what they allow, or fails, is counted, and leaves
its output untouched or torn. Every command may fail and every output stream may
not open. The model has the overrun of `filev` (ctx.c:105): the file after the
hundredth is stored over `filen`, and both what it may hold then are tried.
`Parse` is the whole of `Compiler` in three outcomes: it accepts, it gives up
with an error counted, or it aborts.

### Compiler

The state `c` is a record of the compiler's context: the registry, the text of
each type as a term with the constants and variables it mentions, the two
stacks, the structs, the ids and the output switch. `said` holds the forms
written by the last step, `written` the constants program, `forms` the struct
and enum forms that are open in the body.

`parse` is the parser's stack, with a frame per open nonterminal. An action is
a reduction with its semantic action (or a shift that has none), enabled where
the grammar allows it, so the behaviours of the module are the headers that
gghc may be given. The frames also carry the types that ISO C gives to what has
been read. They are history: the compiler's state never reads them. `meant` is
what the last step declared according to them, and `DeclaredAsWritten` compares
it with `said`.

`Syntax` chooses the optional constructs that an instance uses, so that each
construct the code does not handle can be switched on alone:

| construct | example |
|---|---|
| struct, union, enum, inline, body | `struct S { ... }`, `__extension__ union {...};`, `f() { ... }` |
| paren | `int (*f)(int)` |
| sizeof | `int a[sizeof(double)]` |
| forward | `struct S *p` before, or without, a definition |
| typename | `T x` |
| enumref | `enum S x` |
| padding | `int : 4` |
| void | a parameter of type void, as in `f(void)` |
| specifiers | `long unsigned int x`, of which the code keeps another type than C |
| error | a token the grammar does not expect |

Facts of the code that shape the module:

* A declaration may have several type specifiers. The grammar reads `long
  unsigned int` as two, `long unsigned` and `int`, each a `type_specifier` that
  sets the type of the declaration and of its declarator (cy.y:417), so the last
  one stays (`SpecAgain`); a list of specifiers of a member ends by putting its
  first one back (cy.y:537). `Combined` says what C makes of two; without
  `specifiers` in `Syntax` only those are read for which the code keeps that.

* Function definitions with specifiers do not parse: the empty rules that begin
  `declaration` and `function_definition` (cy.y:341, 823) conflict, and bison
  takes the first. `f() {...}` parses.
* A typedef name that is known is lexed as TYPE_NAME, so a declarator never
  names one again. Two equal names in one typedef would abort (ggrt.c:198-203);
  the model leaves that input out.
* A second definition of a tag is left out: it frees the slot texts twice
  (output.c:524) for a struct and follows NULL for an enum.
* Declarators are emitted last first.
* Constant ids are taken even where output is off; nothing is written there.
  An enumerator asks for its constant only where output is on, since the call
  is an argument of `eprintf`.
* A typedef object is no type. Its text is whatever memory holds: the term
  `wild`, which no declaration has. Making a pointer or an array of one reads a
  NULL kind and stops the program.

Not modelled: the C output mode (unfinished: `abort()` and `~~FIXME~~`),
expressions, initialisers and statements (no action changes state), names of
parameters, old-style parameter lists, attributes and `__asm`, blocks
(`gghc_block_decl` is empty), pragma and macro forms, the `_Bool` typedef of
`gghc_module_begin`. An empty input is a syntax error and is not told apart
from the others.

## 3. Runs

| run | module | question | result |
|---|---|---|---|
| RegistryDerived | TypeRegistry | whatever types are derived in whatever order: is there one pointer and one open array type per target, for ever? | holds |
| RegistryTags | TypeRegistry | is everything well typed, do tags name one type, definitions nest, intrinsics stay shared, over modules and resets? | holds |
| Zone | MCMallocZone | do rings survive objects freed through the wrong zone, and implement `ZoneSpec`? until then, do the counters agree, and does only a zone of empty objects fail an assert? | holds |
| SymbolTable | SymbolTable | are the two arrays one table, and is everything found? | holds |
| TypeUse | MCFfiCall | are sizes those of C whenever asked for, and do arguments lie where libffi was told? | holds |
| TokenStream | TokenStream | does every symbol have the text and the line of its tokens, whatever texts were kept before? | holds |
| Pipeline | Pipeline | whatever fails: is what is read ready, is every failure counted, does the program end and clean up? | holds |
| PipelineExit | Pipeline | does the exit status tell of every failure? | violated |
| CompileTypes | Compiler | are pointers, arrays, functions, and types of several specifiers, written as declared? | holds |
| CompileDefs | Compiler | structs, enums and bodies in each other: types, asserts, both struct stacks, order of definition, nesting of the output | holds |
| CompileAll | Compiler | every construct, cut off by an error anywhere: stacks follow the grammar, constants are defined | holds |
| CompileParen | Compiler | `int (*g)[3]` | violated |

Each violated run checks one statement that a comment, an assertion, a test or
the README of the repository makes; `findings` in PROJECT.json quotes it.

Other divergences met while modelling have no run of their own. Those of the
compiler show when the construct is added to `Syntax` of a small instance of
`Compiler`, the others when the value or the property named is added to a run:

| input | what the code does |
|---|---|
| `int g[N], h[M]` (two values of `Exprs`) | both arrays get the cached type of `T[]`, and the second length replaces the text of the first (output.c:302); README.md:131 says a length of -1 is for arrays of undetermined length |
| `enumref`: `enum S x` | the symbol of an enum tag has a NULL address (ggrt.c:298): the reference is reported as an unknown type (cy.y:416) and the declarator is not written; `t/test.c:73` has one |
| `forward`: `struct S *p` before a definition | writes `(gghc:pointer (null))`, since the callback for forward structs is commented out (output.c:596); the test `t/test.c:87-88` has one |
| `typename`: `T x` | `ggrt_type` answers with the typedef object (ggrt.c:178, 210) where ggrt.h:136 says "Type by name.", and cy.y:470 takes it for a type |
| `sizeof`: `int a[sizeof(double)]` | the specifier inside the length replaces the element type (cy.y:418); `t/test.c:32` marks it FIXME |
| `padding`: `int : 3` in a struct | fails the assert on the name (ggrt.c:447) |
| `void`, with `"void"` in `Intrinsics`: `f(void)` | keeps an argument of type void: the comparison at output.c:545 misses a leading space |
| a syntax error inside a struct | the open form is never closed, and the files are assembled all the same (process.c:173) |
| `specifiers`: `long unsigned int x`, `typedef long unsigned int size_t;` | each specifier replaces the type, so it is written as `int` (cy.y:360-367, 417, 473-487); in a member the first stays: `int short x` is an `int` (cy.y:537) |
| an object of size 0 | freeing the last object of a zone that holds only empty ones fails `assert(zone->nbytes)` (malloc_zone.c:91): explored by run Zone, and the one case that `OnlyEmptyObjectsAbort` allows |
| `CountersAgree` with `CrossFree` | after an object is freed through another zone, as output.c:496-500 does, `assert(zone->nobjects == n)` of clear fails (malloc_zone.c:33) |
| a struct with an empty struct in it | the alignment 0 is a divisor (ggrt.c:544) |
| a union such as `union { int i; char c[5]; }` | is 5 bytes, not 8 (ggrt.c:548 says so in a comment); `LayoutAsC` leaves it out by `Uneven` |
| `char` and `short` parameters | get their own size in the space for arguments but are filled and passed over as an int (ffi.c:83, 155); `T[]` parameters get no space |
| a struct as result or parameter of a call | `ggrt_ffi_type` makes its description and answers NULL (ffi.c:129), which for a result is stored (ffi.c:145) and given to libffi (ffi.c:160); a parameter fails the assert before (ffi.c:152) |
| bit-fields in a struct | are placed by code that `TypeLayout` leaves out (ggrt.c:469-488), so `LayoutAsC` says nothing of them |
| `long long`, `unsigned long long` | have each other's libffi type (type.def:22-23) |
| `gghc -h` alone | crashes: each option is looked at with the next argument (ctx.c:157) |
| `++verbose` | is taken for an input file, the code that would subtract being unreachable (ctx.c:127) |
| `--opt=value` | is compared with its equals sign and unknown (ctx.c:150) |
| `gghc gcc t/test.c`, as in README.md:25 | takes `gcc` for an input file: the compiler belongs between dashes (ctx.c:84-85) |
| an output that does not open | is not noticed; for the s-expression mode nothing is written to `decl`, and what an earlier process left there is concatenated |
| `exit(9)` in main.c:23 | is never reached: unknown options exit with 1 before |
| the result's file and sort's | stay in /tmp |

The files `t/test-*.in.exp.out` of the repository agree with the passing runs:
nested array dimensions (`test-array`), enum variables (`test-enum-var`),
nested structs (`test-struct`), variadic functions (`test-func-vararg`). None
of them uses a construct of a violated run or of the table above except
`double (*func)(void)` in `test-struct.in`, whose element
`test-struct.in.exp.out` leaves out.

### Bounds

* `MaxObjs`, `MaxMods`: objects and modules. Every property of the registry is
  about one type and what it points to, or two symbols of a table; four
  objects give two levels of derivation besides an intrinsic, two modules a
  reset or a module after the first; the compiler starts with three.
* Zones: two zones, two blocks and three allocations: an unlinked object has
  the header on one side and another object or the header on the other, in
  every combination, and a block is used again; `Modulus` exceeds what the bounded counters reach.
* Compiler: CompileTypes has seven objects, enough for two dimensions or a
  pointer to a function of a pointer, and `int` and `short`, which combine in
  either order; CompileDefs and CompileAll, which are about the stacks, have
  fewer. That a member goes back to its *first* specifier, of two unlike ones,
  needs a struct, two basic types and a member at once, which is beyond the
  five minutes of a run; the theorem of section 4 covers it. `MaxDepth` is the depth of the parser's stack. Six is a declarator
  in a struct in a struct in a declaration, five a parameter's declarator in a
  declarator or an enum in a member. `MaxList` is the length of each list; two
  lets something follow a nested construct, which is when a leak shows.
  `MaxConstants` bounds `constant_id`; guards require room for what a step may
  use, so no step is cut in half.
* Symbol tables: three symbols over three names and addresses, so that there are
  ties, NULL addresses, and a bisection that goes left, right and misses.
* Types: two scalars of unlike size, an array of odd size and an open one; two
  structs or unions of two members, the second begun when the first has ended;
  one function of up to two parameters, since prepared functions share nothing.
  `Small` keeps apart what cannot interact: layouts are explored in full where
  libffi is not set up, calls where it is, with structs of one member.
* Tokens: five characters hold a directive between two lines of tokens, or a
  token ahead of one; three symbols on the stack and productions of three.
* Pipeline: four arguments over all kinds, so that all three groups between
  dashes get one; `MaxFiles` is 2 in place of 100, which the overrun needs;
  statuses 2 (killed by a signal) and 256 (exit code 1).
* `Literals` and `Exprs` have one value where only the difference between the
  two kinds matters.

Deadlock is not checked: a bounded instance stops at its bounds, and the
program itself stops at the end of its input or when it aborts.

### Fairness

`Pipeline` assumes weak fairness of its next step: the program is a single
process that waits for nothing but its commands, and every command is taken to
return (a compiler or a constants program that hangs would hang gghc, which has
no timeout). The liveness property is `EndsClean`. The other modules state no
fairness and no liveness: whether another call is made is the caller's choice.

## 4. Proofs

TLAPS checks eight modules, from the assumptions on constants in the modules
and nothing else. The theorems hold for every value of the constants; of those
that name a property of a run, the run is the small instance.

| component | proved |
|---|---|
| registry | `TypeOK`, `OnePointerType`, `OneOpenArrayType`, `ArraysDecay`, `CachesStable`, `OneTypePerTag`, `StructsNest`, `IntrinsicsShared`: all that the runs check |
| zones | `TypeOK`, `RingsLinked`, `RingsComplete`, `ImplementsZoneSpec`, `OwnCountersAgree`, `OnlyEmptyObjectsAbort`: all that the run checks |
| symbol tables | `TypeOK`, `ArraysAgree`, `ImplementsSymbolSpec`: all that the run checks |
| token stream | `TypeOK`, `LinesAsDirected`, `SymbolsSpanTokens`, `TextIsOwn`: all that the run checks |
| pipeline | `TypeOK`, `InputsReady`, `FailuresCounted`; not the liveness property |
| compiler | `StacksMirrorGrammar`, `TypeOK`, `ConstantsDefined`, `StructStacksAgree`, `OutputNests`; under hypotheses on the constructs in the input `NoDanglingReference`, `NoAssertFails`, `DeclaredAsWritten`: all that the passing runs check |
| layout, foreign calls | nothing: model-checked only |

**Registry.** `TypeCorrect`, `PointersAreCanonical`, `OpenArraysAreCanonical`,
`AnswersAreStable` hold for all bounds and all sets of names. The argument is
one inductive invariant. Typing alone is not inductive: `ggrt_pointer` stores
its answer in the target, so one needs to know that the target is a live
object, that live objects come before `next`, that every table and every
`current_struct` refers to live objects, and that modules in use refer to
tables in use. With that, a new pointer type is made only for a target whose
cache is empty; by the invariant such a target has no pointer type yet. Arrays
need in addition that an array's `pointer_to` is never empty, which is why no
pointer type ever targets an array. There is a lemma per operation of the
registry (what it keeps, what it adds) and one case per action.

`ArraysAlwaysDecay` adds to it that an array's `pointer_to` is the pointer type
of its element, or, for an array of arrays, the one its element has. It is
broken in the middle of `ggrt_array`, between making the object and asking for
the pointer, so the lemmas about `ggrt_pointer` carry it with an exception for
one object (`DecaysBut`).

**Tags, nesting, intrinsics.** `TagsNameOneType`,
`StructsAlwaysNest` and `IntrinsicsAreShared` rest on `IInv` and a second
invariant, `TagInv`. It says that the symbols of a struct or union table have
live types of that kind and name, that no name repeats within a module and no
address in any; that `open`, the stack of definitions begun, holds types that
are tags of no other module (without that, a definition in one module could
change the chain of another) and, until a struct is reopened, is the chain of
`prev` from `current_struct`; and that every module refers to the first one's
table of intrinsics. Most operations are
*quiet*: a lemma says that they touch no tag, chain or name, and one lemma
carries `TagInv` over all of them. Making a module and the three calls of
structs have their own.

**Symbol tables.** `TableImplementsSymbolSpec` says that looking up a symbol in
the sorted arrays answers what a search of a set would: some symbol with the key
when there is one, NULL otherwise. The function of the bisection is shown to
exist, and to find the key within `l..u` whenever it lies there, by induction on
the length of the range; that the halves are shorter and within the array is
the index arithmetic of `bsearch`. `ArraysAlwaysAgree` is inductive once one
knows how many symbols there are: `Numbered` ties the length of each array to
the number of symbols, and excludes that one is entered twice. The sort is any
permutation in order, so no tie-breaking is assumed.

**Zones.** `RingsStayLinked` and `RingsStayComplete` hold for every set of
blocks and zones, and cross-zone frees do not break them: unlinking uses only
the object's own links. The invariant is that links are inverse to each other
and stay within the owner's ring, plus that every live object is reached from
its header. Reachability is stated without recursion, as membership in every
set closed under `next`; the proof shows that inserting at the head and removing
one object map closed sets to closed sets. `ZonesImplementZoneSpec` follows: with
`owned` read off the rings, every step is a step of `ZoneSpec` or a stutter.

`OwnCountersStayRight`: until an object is freed through a wrong zone,
`nobjects` is the size of the ring, `nbytes` the sum of the sizes on it modulo
the width of `size_t`, and the difference of calls, modulo the width, the
number of objects. The counters may wrap any number of times: that each is the
remainder of what it counts is what adding and subtracting keep (`Sound`, one
lemma per operation). The sum over a ring is by induction on its size
(`SetInduction`).  `OnlyEmptyObjectsEverAbort` follows, with no hypothesis on
the sizes: neither the assert on `nobjects` in `free` nor the one in `clear`
fails, and the one on `nbytes` only where the sizes on the ring add up to zero
modulo the width.

**Pipeline.** `PipelineTypes`, `InputsAlwaysReady` and `FailuresAlwaysCounted`
hold for every number and kind of arguments, every size of `filev` and every
exit status. None is inductive: that the parser finds its input complete
depends on every command before it. The invariant `IInv` says, for each step,
what the steps before it have completed if no error has been counted (`Made1`
to `Made3`), which streams are open, and that until the streams are closed
nothing is in the place of an output that did not open; without the last, a
`decl` left by an earlier process could pass for one of this run. A command
that fails leaves nothing to show, since it raises the count; one lemma says so
of `gghc_system` for every command, and there is a lemma per step. What a step
makes is proved only up to complete or not: what the files say is `Compiler`'s.

**Token stream.** `LinesAreRight`, `SymbolsKeepTokens` and `TextsAreOwn` hold
for inputs of any length, any depth of the parser's stack and productions of
any length. The hard part of the lines is that `mb` has read ahead: the
invariant `Scanned` says that at the lexer's position no directive begun before
it is still open, so that setting both lines at the end of a directive, and
counting newlines from there, gives each position the line of the last
directive before it (`LineAt`). Of the parser's stack the invariant says that
each region is empty or begins and ends with a sign of a token, that they are
in order, and that together they hold exactly the signs shifted (`Covers`). A
reduction replaces neighbours by their union; since the swap in
`mm_buf_region_union` loses a region that is out of order, one has to know that
it never meets one. `TextsAreOwn` needs a second invariant, `VInv`: a phrase on
the stack whose `expr` is filled holds the text of its whole region, and has a
tag's empty symbol above it. The production that takes the one takes the other
and begins with neither, so what the default action copies to a phrase, whose
region has more tokens than the symbol copied, is empty. The mutant of the run
copies after the asking. `MergeUnites` shows it by induction on the symbols of
the production, empty ones included.

**Compiler: the stacks.** `StacksAlwaysMirror` holds for inputs of any length and nesting,
with every construct of the grammar. That both stacks have the right depth now
is not inductive: when a position is closed, one needs what held when it was
opened. The invariant `Mirrors` counts, for every prefix of the open positions,
the declarations and declarators it stands for, and says of each declarator
still open that it was begun in the declaration on top at that time; `Nests`
says what may lie under what, so that a list is never closed at the bottom and
a body lies on its function. There is a lemma per way of opening and closing a
position (`MirrorsPush`, `MirrorsPop` and their instances), and the forty
operators on types, structs, enums and outputs need only one fact each, that
they leave the stacks alone. The fold over a list of dimensions or declarators
keeps what each of its steps keeps, by induction on the number of elements left.
That the current declarator belongs to the current declaration is what
`gghc_parameter_decl` asserts; the theorem says that this assert cannot fail.

**Compiler: what is written.** The other properties are about what the stacks
hold, and they hold together or not at all: what is written is what was
declared because the texts of the types are right; these are because the
registry is well formed and every type a stack refers to is in it; and a
declaration that is closed finds its own type only because each open position
of the grammar says which declaration, declarator, struct, enum or parameter
list it is about. So there is one invariant for all of them, `Sound`, and one
theorem, `AlwaysSound`, that it is one. Its parts, each a layer of lemmas:

| part | says |
|---|---|
| `TypesOK` | the registry is well formed (as in `TypeRegistryProofs`, but stated of a registry value); each type has a text that fits its kind and the texts of the types it is made of; constants have ids already taken, no two the same |
| `Held` | and what the two stacks and the last forms hold refers to live types whose text mentions only what is written |
| `StackInv`, `Places` | the stacks mirror the grammar, and what lies on what |
| `Linked` | an open position has counted the declarators of its declaration, and its parameters are live types |
| `Chain` | the struct definitions open in the grammar are, in order, the `prev` chains of both the compiler and the registry; the forms begun are those of the open structs and enums, and none in function bodies |
| `Told` | what each open position has read of the source is what the declaration or declarator it mirrors holds: names, storage, bits and, under `Exact`, the type |
| `TopPrim` | the type of a declarator still being read is none that mentions a constant, so that a text derived from it mentions only its own |

Two notions carry most of the weight. `Grows` says what a step may change of what
is there already: types stay, their texts change only where the caches of
`ggrt_array` and late struct texts make them; every property of an earlier
position survives a step that grows. `Kept` says which open positions are left
alone; it is what makes an inner construct harmless to an outer one. With these
there is one lemma per operation of `decl.c` and `output.c` and one per action
of the grammar (`...Sound`), and `SoundStep` has one case per action.

Four theorems hold for every input: `TypesAlwaysOK`, `ConstantsAlwaysDefined`,
`StructStacksAlwaysAgree`, `OutputAlwaysNests`. They include the states after an
abort, a syntax error and with every construct the code gets wrong. The other
three need a hypothesis on the constants, that is on the constructs in the
input. With any one of these added to a small instance of `Compiler`, TLC finds
the property violated, for the reasons in the table of divergences of section 3
(`forward` needs `body` to violate `NoDanglingReference`). The only exception is
`padding` for `DeclaredAsWritten`: the program has aborted then, and nothing
more is written.

| theorem | hypothesis | excludes |
|---|---|---|
| `NothingDangles` | `Declared` | `forward` |
| `NothingAsserts` | `Resolved` | `typename`, `enumref`, `padding` |
| `AlwaysDeclaredAsWritten` | `Exact`: both, and | `paren` (run CompileParen), `sizeof`, `void`, `specifiers`, and a second value in `Exprs` |

These are not restrictions for the proof's sake: the code writes another type
for each of them, so that without any one the theorem would be false. Types of
several specifiers are covered where the code keeps what C combines them to,
members included. The last exclusion is about the cache of open arrays: an
array whose length is an expression is stored on the cached type of `T[]`,
whose text is replaced by every later one (output.c:302). With one expression
the replaced text has the same length in it, though the constant that computes
it is another; what is proved of a text is therefore split in two, what it says
(`term`) and what it mentions (`consts`, `tags`), and only the first stays the
same.

The assumptions are those `Compiler` states of its constants: the bounds have
room for the start state (`StartAssumption`), no typedef, member or global has the
name of an intrinsic (`NamesAssumption`: they are keywords of C), lengths are not
zero, and `NoName` is no name and no length (`CompilerAssumption`).

**Induction.** The induction theorems of the library take an operator as a
parameter, which the provers cannot instantiate. `SetInduction` states induction
of the *set* of numbers for which the claim holds, from the library's theorem on
well-founded orders; bisection, merging and sums are proved with it.

**Only model-checked:** all of `TypeLayout` and `FfiCall`, whose `Measure` and
`CSize` are RECURSIVE operators, for which the prover has no SMT backend: what
a recursive layout computes is an induction over data. Liveness (`EndsClean`) is
out of the provers' reach, which have no rule for ENABLED.

## 5. Plan

The modules below are done, in this order:

1. `Registry`, `TypeRegistry`, their runs; proofs of typing and of the caches.
2. `MallocZone` with `ZoneSpec`; proofs of the rings and of the refinement.
3. `Compiler` over `Registry`.
4. `SymbolTable` with `SymbolSpec`; `Pipeline`; `TokenStream`; `TypeLayout` and
   `FfiCall`; proofs of the invariants of `Pipeline`.

5. Proofs of the refinement of `SymbolTable`, of the invariants of
   `TokenStream`, of the remaining properties of the registry, of the counters
   of the zones, and of the stacks of `Compiler`.

6. The lemmas about the registry's operators, stated of registry values apart
   from the state machine of `TypeRegistry`, and from them the invariant of
   `Compiler` and all its properties.

Left: layout and foreign calls with recursive functions in place of RECURSIVE
operators, for proofs of what does not depend on the recursion (that a memo
once filled stays, that a call uses the description it was prepared with).

## 6. Not modelled

The C output mode, the debug allocator, the obsolete runtime, pure formatting;
pragmas and macros, which pass through unread; comments in the preprocessed
text (the preprocessor strips them; with an option that keeps them the rule at
cl.l:151 consumes text that `mb_token` does not see); `mm_buf_ungetc`, which has
no caller; `ggrt_replace`; what libffi does.
