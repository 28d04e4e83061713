------------------------------ MODULE Pipeline ------------------------------
(***************************************************************************)
(* The gghc program from main to its exit status (main.c, ctx.c,           *)
(* process.c): it reads its arguments, opens its output streams, runs the  *)
(* C preprocessor, parses what that wrote, compiles and runs the program   *)
(* that computes the constants, and concatenates the parts of the result.  *)
(* Each part is a temporary file.  No failure stops it: a command that     *)
(* fails, or a syntax error, is counted and the next step runs on.         *)
(*                                                                         *)
(* The commands (cc, sort, cp, cat, the constants program) and the disk    *)
(* are the environment's.  What a file holds is abstracted to whether it   *)
(* is all that it should be.  What the parser writes is module Compiler's. *)
(***************************************************************************)
EXTENDS Integers, FiniteSets

CONSTANTS
  Options,   \* the kinds of arguments given, of those ParseArg tells apart
  MaxArgs,   \* bound: arguments given
  MaxFiles,  \* the room in filev: 100 in the code
  Statuses   \* what system() may return for a command that fails

ASSUME ArgsAssumption == MaxArgs \in Nat /\ MaxFiles \in Nat \ {0}
ASSUME StatusesAssumption == Statuses \subseteq Int \ {0}

VARIABLES
  pc,         \* the step the program is at
  argv,       \* the arguments not yet read, and what those read have set
  disk,       \* what each temporary file holds
  streams,    \* the files open for writing
  errors, error_code,
  output      \* what went to the output file or stdout

vars == <<pc, argv, disk, streams, errors, error_code, output>>
counts == <<errors, error_code>>

-----------------------------------------------------------------------------
(* Files and steps.                                                        *)

Written == {"header", "decl", "body", "footer", "defines_out"}
Parts == {"header", "constants", "decl", "body", "defines_out", "footer"}
Files == Parts \cup {"cpp_in", "cpp_out", "constants_c", "constants_x",
                     "defines_in", "result"}

(* none: there is no such file; old: left by an earlier process with the   *)
(* same pid; empty: no input file is in it; part: not all that it should   *)
(* be, whole: all of it.                                                   *)
Contents == {"none", "old", "empty", "part", "whole"}

(* The files that a step reads.                                            *)
Reads == [cpp     |-> {"cpp_in"},      defs      |-> {"cpp_in"},
          sort    |-> {"defines_in"},  save      |-> {"cpp_out"},
          parse   |-> {"cpp_out"},     defines   |-> {"defines_in"},
          resave  |-> {"cpp_out"},     constants |-> {"constants_c"},
          compute |-> {"constants_x"}, concat    |-> Parts,
          deliver |-> {"result"},
          dump    |-> Parts \cup {"cpp_in", "cpp_out", "constants_c"}]

Steps == DOMAIN Reads \cup
  {"argv", "main", "open", "list", "begin", "close", "finish", "exited", "crashed"}

Argv == [left : Nat, dashes : Nat, filen : Int, fatals : Nat,
         cc : BOOLEAN, dump : BOOLEAN, debug : BOOLEAN, cpp_output : BOOLEAN,
         mode : {"sexpr", "c"}]

(* What a command makes of its input.                                      *)
Made(reads) ==
  IF \A f \in reads : disk[f] = "whole" THEN "whole"
  ELSE IF \A f \in reads : disk[f] = "empty" THEN "empty" ELSE "part"

Goto(step) == pc' = step
Crash == Goto("crashed") /\ UNCHANGED <<argv, disk, streams, counts, output>>

(* Mutant: the temporary files stay.                                       *)
CleanupNothing == UNCHANGED disk /\ streams' = {}
(* gghc_cleanup, which exit runs once main has registered it: the result's *)
(* file is not among those it removes.                                     *)
Cleanup ==
  /\ streams' = {}
  /\ disk' = [f \in Files |->
                IF argv.debug \/ f = "result" THEN disk[f] ELSE "none"]

Exit(status) ==
  /\ Goto("exited")
  /\ error_code' = status % 256
  /\ Cleanup
  /\ UNCHANGED <<argv, errors, output>>

-----------------------------------------------------------------------------
(* Arguments: gghc_parse_argv, one iteration of its loop at a time.        *)

(* Mutant: what follows the last argument is not looked at.                *)
LooksAheadNever(arg) == FALSE
(* An argument is looked at together with the next one when it is an       *)
(* option of one dash or more, or begins with two plus signs; at the end   *)
(* of the arguments the next one is NULL.                                  *)
LooksAhead(arg) == arg \notin {"--", "word", "--opt=value"}

(* add_input_file.  The file after the last that filev has room for is     *)
(* stored over filen itself, which then holds 101 or part of a pointer;    *)
(* when that is negative, the bound is not seen to be passed.              *)
AddInputFile(a) ==
  IF a.filen < MaxFiles THEN {[a EXCEPT !.filen = @ + 1]}
  ELSE {[a EXCEPT !.filen = MaxFiles + 1, !.fatals = @ + 1],
        [a EXCEPT !.filen = -1]}

IsFile(a, arg) ==
  a.dashes = 2 \/ (a.dashes = 0 /\ arg \in {"word", "++option"})

Unknown(a) == [a EXCEPT !.fatals = @ + 1]
(* What an argument before the first "--" sets.  An option that begins     *)
(* with two plus signs is no option to the code, but a file; one with an   *)
(* equals sign is compared with its equals sign, and unknown.              *)
SetOption(a, arg) ==
  CASE arg = "--dump"       -> {[a EXCEPT !.dump = TRUE]}
    [] arg = "--debug"      -> {[a EXCEPT !.debug = TRUE]}
    [] arg = "--C"          -> {[a EXCEPT !.mode = "c"]}
    [] arg = "--cpp-output" -> {[a EXCEPT !.cpp_output = TRUE, !.left = @ - 1]}
    [] arg = "--output"     -> {[a EXCEPT !.left = @ - 1]}
    [] IsFile(a, arg)        -> AddInputFile(a)
    [] arg \in {"--opt=value", "-unknown"} -> {Unknown(a)}
    [] OTHER                -> {a}

Places(a, arg) ==
  CASE a.dashes = 0 -> SetOption(a, arg)
    [] a.dashes = 1 -> {[a EXCEPT !.cc = TRUE]}
    [] a.dashes = 2 -> AddInputFile(a)
    [] OTHER        -> {Unknown(a)}

(* One iteration.  --typedef asserts FALSE; a further file after the       *)
(* overrun is stored where a negative filen points.                        *)
ParseArg ==
  /\ pc = "argv" /\ argv.left > 0
  /\ \E arg \in Options :
       LET a == [argv EXCEPT !.left = @ - 1]
           aborts == arg = "--typedef" /\ a.dashes = 0
           overrun == argv.filen = -1 /\ IsFile(a, arg)
       IN  IF arg = "--"
           THEN /\ argv' = [a EXCEPT !.dashes = @ + 1]
                /\ UNCHANGED <<pc, disk, streams, counts, output>>
           ELSE IF (LooksAhead(arg) /\ a.left = 0) \/ aborts \/ overrun
           THEN Crash
           ELSE /\ argv' \in Places(a, arg)
                /\ UNCHANGED <<pc, disk, streams, counts, output>>

(* An unknown option ends the program before main has registered Cleanup.  *)
ParseEnd ==
  /\ pc = "argv" /\ argv.left = 0
  /\ IF argv.fatals > 0
     THEN Goto("exited") /\ error_code' = 1
     ELSE Goto("main") /\ UNCHANGED error_code
  /\ UNCHANGED <<argv, disk, streams, errors, output>>

Main ==
  /\ pc = "main"
  /\ IF argv.filen = 0 THEN Exit(1)
     ELSE Goto("open") /\ UNCHANGED <<argv, disk, streams, counts, output>>

-----------------------------------------------------------------------------
(* Processing: gghc_process_files, one step for each file or command.      *)

(* The outputs are opened; one of them may not open, and nothing looks.    *)
OpenOutputs ==
  /\ pc = "open"
  /\ streams' \in {Written} \cup {Written \ {f} : f \in Written}
  /\ disk' = [f \in Files |-> IF f \in streams' THEN "part" ELSE disk[f]]
  /\ Goto("list")
  /\ UNCHANGED <<argv, counts, output>>

(* The input files are listed for the preprocessor, none if filen is       *)
(* negative.                                                               *)
ListInputs ==
  /\ pc = "list"
  /\ \/ /\ disk' = [disk EXCEPT !["cpp_in"] =
                     IF argv.filen > 0 THEN "whole" ELSE "empty"]
        /\ Goto("cpp")
        /\ UNCHANGED <<argv, streams, counts, output>>
     \/ Crash

(* gghc_system: the command succeeds, or is counted as failed, its status  *)
(* kept; the step goes on to the next in either case.                      *)
System(reads, done, torn) ==
  \/ /\ \A f \in reads : disk[f] # "none"
     /\ disk' = done
     /\ UNCHANGED counts
  \/ /\ disk' \in torn
     /\ error_code' \in Statuses
     /\ errors' = errors + 1

Into(out, contents) == [disk EXCEPT ![out] = contents]

(* A command whose output the shell sends to a file.  When it fails it may *)
(* not have touched that file.                                             *)
Command(step, out, next) ==
  /\ pc = step
  /\ System(Reads[step], Into(out, Made(Reads[step])), {disk, Into(out, "part")})
  /\ Goto(next)
  /\ UNCHANGED <<argv, streams, output>>

Cpp     == Command("cpp", "cpp_out", "defs")
Defs    == Command("defs", "defines_in", "sort")
Compute == Command("compute", "constants", "concat")
Concat  == Command("concat", "result", "deliver")

(* The sorted file takes the place of the other only when sort succeeds.   *)
Sort ==
  /\ pc = "sort"
  /\ System(Reads["sort"], disk, {disk})
  /\ Goto("begin")
  /\ UNCHANGED <<argv, streams, output>>

(* The constants program is opened and begun, and the header written.      *)
Begin ==
  /\ pc = "begin"
  /\ \/ /\ "header" \in streams
        /\ disk' = [disk EXCEPT !["constants_c"] = "part", !["header"] = "whole"]
        /\ streams' = streams \cup {"constants_c"}
        /\ Goto("save")
        /\ UNCHANGED <<argv, counts, output>>
     \/ Crash

(* --cpp-output: the preprocessed text is copied, before and after it is   *)
(* parsed.                                                                 *)
Copy(step, next) ==
  /\ pc = step
  /\ IF argv.cpp_output THEN System(Reads[step], disk, {disk})
     ELSE UNCHANGED <<disk, counts>>
  /\ Goto(next)
  /\ UNCHANGED <<argv, streams, output>>

Save   == Copy("save", "parse")
Resave == Copy("resave", "constants")

(* Mutant: a syntax error is only printed.                                 *)
YyerrorPrints == UNCHANGED errors
Yyerror == errors' = errors + 1

(* The parser accepts its whole input, or counts an error and gives up, so *)
(* that what it has written by then is a part; or an assertion fails, and  *)
(* nothing is cleaned up.  Its result is not looked at.  A file that could *)
(* not be opened reads as an empty one, which is a syntax error.           *)
Parse ==
  /\ pc = "parse"
  /\ \/ /\ "body" \in streams /\ disk["cpp_out"] \notin {"none", "empty"}
        /\ LET made == Made(Reads["parse"])
           IN  disk' = [f \in Files |-> IF f \in {"decl", "body"} \cap streams
                                       THEN made ELSE disk[f]]
        /\ UNCHANGED counts
        /\ Goto("defines")
        /\ UNCHANGED <<argv, streams, output>>
     \/ /\ "body" \in streams
        /\ Yyerror
        /\ Goto("defines")
        /\ UNCHANGED <<argv, disk, streams, error_code, output>>
     \/ Crash

(* parse_C_defines.  Without its file it reads through NULL; a macro in C  *)
(* mode is not supported, and aborts.                                      *)
Defines ==
  /\ pc = "defines"
  /\ \/ /\ disk["defines_in"] # "none"
        /\ argv.mode = "c" => disk["defines_in"] # "whole"
        /\ LET made == Made(Reads["defines"])
           IN  disk' = [f \in Files |-> IF f \in {"defines_out"} \cap streams
                                       THEN made ELSE disk[f]]
        /\ Goto("close")
        /\ UNCHANGED <<argv, streams, counts, output>>
     \/ Crash

(* The ends of the constants program and of the footer are written, and    *)
(* gghc_close_files.                                                       *)
(* Mutant: the constants program stays open while it is compiled.          *)
CloseMost(f) == f # "constants_c"
Closes(f) == TRUE

Close ==
  /\ pc = "close"
  /\ \/ /\ "footer" \in streams
        /\ disk' = [disk EXCEPT !["footer"] = "whole", !["constants_c"] = disk["body"]]
        /\ streams' = {f \in streams : ~ Closes(f)}
        /\ Goto("resave")
        /\ UNCHANGED <<argv, counts, output>>
     \/ Crash

Constants ==
  /\ pc = "constants"
  /\ System(Reads["constants"], Into("constants_x", Made(Reads["constants"])),
            {disk, Into("constants_x", "none")})
  /\ Goto("compute")
  /\ UNCHANGED <<argv, streams, output>>

(* The result goes to the output file or to stdout.                        *)
Deliver ==
  /\ pc = "deliver"
  /\ System(Reads["deliver"], disk, {disk})
  /\ output' = IF errors' = errors THEN disk["result"] ELSE "part"
  /\ Goto("dump")
  /\ UNCHANGED <<argv, streams>>

Dump ==
  /\ pc = "dump"
  /\ IF argv.dump THEN System(Reads["dump"], disk, {disk})
     ELSE UNCHANGED <<disk, counts>>
  /\ Goto("finish")
  /\ UNCHANGED <<argv, streams, output>>

(* An error that is not a command's makes the exit code 1; main returns it.*)
Finish ==
  /\ pc = "finish"
  /\ Exit(IF error_code = 0 /\ errors > 0 THEN 1 ELSE error_code)

-----------------------------------------------------------------------------
NoArguments ==
  [left : 0..MaxArgs, dashes : {0}, filen : {0}, fatals : {0},
   cc : {FALSE}, dump : {FALSE}, debug : {FALSE}, cpp_output : {FALSE},
   mode : {"sexpr"}]

(* An earlier process that had the same pid may have left its files.       *)
Init ==
  /\ pc = "argv"
  /\ argv \in NoArguments
  /\ disk \in {[f \in Files |-> left] : left \in {"none", "old"}}
  /\ streams = {}
  /\ errors = 0 /\ error_code = 0
  /\ output = "none"

Next ==
  \/ ParseArg \/ ParseEnd \/ Main
  \/ OpenOutputs \/ ListInputs
  \/ Cpp \/ Defs \/ Sort
  \/ Begin \/ Save \/ Parse \/ Defines \/ Close \/ Resave
  \/ Constants \/ Compute
  \/ Concat \/ Deliver \/ Dump \/ Finish

(* The program is one process and waits for each command; every command    *)
(* is taken to return.                                                     *)
Spec == Init /\ [][Next]_vars /\ WF_vars(Next)

-----------------------------------------------------------------------------
(* Properties.                                                             *)

TypeOK ==
  /\ pc \in Steps
  /\ argv \in Argv
  /\ disk \in [Files -> Contents]
  /\ streams \subseteq Files
  /\ errors \in Nat /\ error_code \in Int
  /\ output \in Contents

(* Left over by an earlier process in place of an output that did not open *)
(* and that is written only for some inputs.                               *)
Unopened == {f \in {"decl", "defines_out"} : disk[f] \in {"none", "old"}}

(* What a step reads was written by this run and is complete on the disk:  *)
(* no stream on it is still open, whose last block a command would not     *)
(* see.  Only after a counted failure does a step read what is missing or  *)
(* what an earlier process left.                                           *)
InputsReady ==
  pc \in DOMAIN Reads =>
    /\ Reads[pc] \cap streams = {}
    /\ errors = 0 =>
         \A f \in Reads[pc] \ Unopened : disk[f] \notin {"none", "old"}

(* No failure is lost on the way: a run that has counted no error has      *)
(* delivered all that was asked for.  The exception is an output that did  *)
(* not open, for which nothing is counted.                                 *)
FailuresCounted ==
  pc = "finish" /\ errors = 0 => output = "whole" \/ Unopened # {}

Removed == \A f \in Files \ {"result"} : disk[f] = "none"

(* The program ends, whatever fails; unless it crashes, refuses its        *)
(* arguments or is told to keep them (--debug), its temporary files are    *)
(* gone for good, all but the result's.                                    *)
EndsClean ==
  <>[](\/ pc = "crashed"
       \/ pc = "exited" /\ (Removed \/ argv.debug \/ argv.fatals > 0))

(* The exit status tells of every failure: process.c:262 makes it nonzero  *)
(* when an error was counted and no command's status was kept.             *)
ExitStatus ==
  pc = "exited" /\ error_code = 0 => errors = 0
=============================================================================
