--------------------------- MODULE PipelineProofs ---------------------------
(***************************************************************************)
(* What module Pipeline's runs check on a few arguments, proved for every  *)
(* number of arguments, every size of filev and every exit status: the     *)
(* steps read only what earlier steps of the same run completed, and a run *)
(* that counted no failure delivered everything.                           *)
(***************************************************************************)
EXTENDS Pipeline, TLAPS

-----------------------------------------------------------------------------
(* The inductive invariant.  FromX is step X and the steps after it.       *)

Early       == {"argv", "main", "open"}
FromDump    == {"dump", "finish"}
FromDeliver == {"deliver"} \cup FromDump
FromConcat  == {"concat"} \cup FromDeliver
FromCompute == {"compute"} \cup FromConcat
FromResave  == {"resave", "constants"} \cup FromCompute
FromClose   == {"close"} \cup FromResave
FromDefines == {"defines"} \cup FromClose
FromSave    == {"save", "parse"} \cup FromDefines
FromSort    == {"sort", "begin"} \cup FromSave
FromDefs    == {"defs"} \cup FromSort
FromCpp     == {"cpp"} \cup FromDefs
FromList    == {"list"} \cup FromCpp

Fresh(f) == disk[f] \notin {"none", "old"}
IfFreshWhole(f) == Fresh(f) => disk[f] = "whole"

(* Which streams are open, and when none is.                               *)
StreamsInv ==
  /\ streams \subseteq Written \cup {"constants_c"}
  /\ pc \in Early \cup FromResave => streams = {}

(* Nothing is on the disk of this run before it opens its outputs, and     *)
(* nothing is in the place of an output that did not open until it closes  *)
(* the others.                                                             *)
DiskInv ==
  /\ pc \in Early => \A f \in Files : ~ Fresh(f)
  /\ pc \in FromList \ FromResave =>
       \A f \in {"decl", "defines_out"} \ streams : ~ Fresh(f)

(* What each step has completed by the time a later one is reached.        *)
Made1 ==
  /\ pc \in FromCpp => disk["cpp_in"] \in {"whole", "empty"}
  /\ pc \in FromDefs => disk["cpp_out"] = disk["cpp_in"]
  /\ pc \in FromSort => disk["defines_in"] = disk["cpp_in"]
  /\ pc \in FromSave => disk["header"] = "whole"

Made2 ==
  /\ pc \in FromDefines =>
       /\ disk["cpp_in"] = "whole"
       /\ disk["body"] = "whole"
       /\ IfFreshWhole("decl")
  /\ pc \in FromClose => IfFreshWhole("defines_out")
  /\ pc \in FromResave => disk["footer"] = "whole" /\ disk["constants_c"] = "whole"

Made3 ==
  /\ pc \in FromCompute => disk["constants_x"] = "whole"
  /\ pc \in FromConcat => disk["constants"] = "whole"
  /\ pc \in FromDeliver => Fresh("result") /\ (Unopened = {} => disk["result"] = "whole")
  /\ pc \in FromDump => (Unopened = {} => output = "whole")

IInv ==
  /\ TypeOK
  /\ StreamsInv
  /\ DiskInv
  /\ errors = 0 => Made1 /\ Made2 /\ Made3

-----------------------------------------------------------------------------
(* Types.                                                                  *)

LEMMA MadeType == \A reads : Made(reads) \in {"whole", "empty", "part"}
BY DEF Made

(* Each argument leaves a record of the same fields.                       *)
LEMMA AddInputFileType ==
  ASSUME NEW a \in Argv
  PROVE  AddInputFile(a) \subseteq Argv
<1>1. a.filen \in Int /\ a.fatals \in Nat BY DEF Argv
<1>2. [a EXCEPT !.filen = @ + 1] \in Argv BY <1>1 DEF Argv
<1>3. [a EXCEPT !.filen = -1] \in Argv BY DEF Argv
<1>4. MaxFiles + 1 \in Int /\ a.fatals + 1 \in Nat BY <1>1, ArgsAssumption
<1>5. [a EXCEPT !.filen = MaxFiles + 1, !.fatals = @ + 1] \in Argv
  BY <1>4 DEF Argv
<1>6. QED BY <1>2, <1>3, <1>5 DEF AddInputFile

LEMMA UnknownType ==
  ASSUME NEW a \in Argv
  PROVE  Unknown(a) \in Argv
<1>1. a.fatals + 1 \in Nat BY DEF Argv
<1>2. QED BY <1>1 DEF Argv, Unknown

LEMMA SetOptionType ==
  ASSUME NEW a \in Argv, NEW arg, LooksAhead(arg) => a.left > 0
  PROVE  SetOption(a, arg) \subseteq Argv
<1>1. \A b \in AddInputFile(a) : b \in Argv BY AddInputFileType
<1>2. LooksAhead("--cpp-output") /\ LooksAhead("--output") BY DEF LooksAhead
<1>3. [a EXCEPT !.dump = TRUE] \in Argv /\ [a EXCEPT !.debug = TRUE] \in Argv
  BY DEF Argv
<1>4. [a EXCEPT !.mode = "c"] \in Argv /\ Unknown(a) \in Argv
  BY UnknownType DEF Argv
<1>5. ASSUME arg \in {"--cpp-output", "--output"}
      PROVE  /\ [a EXCEPT !.cpp_output = TRUE, !.left = @ - 1] \in Argv
             /\ [a EXCEPT !.left = @ - 1] \in Argv
  <2>1. a.left \in Nat /\ a.left > 0 BY <1>2, <1>5 DEF Argv
  <2>2. a.left - 1 \in Nat BY <2>1
  <2>3. QED BY <2>2 DEF Argv
<1>6. QED BY <1>1, <1>3, <1>4, <1>5 DEF SetOption

LEMMA PlacesType ==
  ASSUME NEW a \in Argv, NEW arg, LooksAhead(arg) => a.left > 0
  PROVE  Places(a, arg) \subseteq Argv
<1>1. SetOption(a, arg) \subseteq Argv BY SetOptionType
<1>2. AddInputFile(a) \subseteq Argv BY AddInputFileType
<1>3. [a EXCEPT !.cc = TRUE] \in Argv /\ Unknown(a) \in Argv
  BY UnknownType DEF Argv
<1>4. QED BY <1>1, <1>2, <1>3 DEF Places

(* The steps of the argument loop and of main, and the exit.               *)
LEMMA ParseArgType ==
  ASSUME TypeOK, ParseArg
  PROVE  /\ TypeOK' /\ pc' \in {"argv", "crashed"}
         /\ UNCHANGED <<disk, streams, counts, output>>
<1>1. PICK arg \in Options :
        \/ /\ argv' = [[argv EXCEPT !.left = @ - 1] EXCEPT !.dashes = @ + 1]
           /\ UNCHANGED <<pc, disk, streams, counts, output>>
        \/ Crash
        \/ /\ ~ (LooksAhead(arg) /\ [argv EXCEPT !.left = @ - 1].left = 0)
           /\ argv' \in Places([argv EXCEPT !.left = @ - 1], arg)
           /\ UNCHANGED <<pc, disk, streams, counts, output>>
  BY DEF ParseArg
<1>2. pc = "argv" /\ argv \in Argv /\ argv.left > 0 BY DEF ParseArg, TypeOK
<1>3. [argv EXCEPT !.left = @ - 1] \in Argv BY <1>2 DEF Argv
<1>4. [[argv EXCEPT !.left = @ - 1] EXCEPT !.dashes = @ + 1] \in Argv
  <2>1. argv.dashes + 1 \in Nat BY <1>2 DEF Argv
  <2>2. QED BY <1>3, <2>1 DEF Argv
<1>5. Crash => UNCHANGED <<argv, disk, streams, counts, output>> /\ pc' = "crashed"
  BY DEF Crash, Goto
<1>6. argv' \in Argv
  <2>1. CASE argv' \in Places([argv EXCEPT !.left = @ - 1], arg)
             /\ ~ (LooksAhead(arg) /\ [argv EXCEPT !.left = @ - 1].left = 0)
    <3> DEFINE a == [argv EXCEPT !.left = @ - 1]
    <3>1. a \in Argv /\ a.left \in Nat BY <1>3 DEF Argv
    <3>2. ~ (LooksAhead(arg) /\ a.left = 0) BY <2>1
    <3> HIDE DEF a
    <3>3. LooksAhead(arg) => a.left > 0 BY <3>1, <3>2 DEF LooksAhead
    <3>4. Places(a, arg) \subseteq Argv BY <3>1, <3>3, PlacesType
    <3>5. QED BY <2>1, <3>4 DEF a
  <2>2. QED BY <1>1, <1>2, <1>4, <1>5, <2>1
<1>7. pc' \in {"argv", "crashed"} /\ UNCHANGED <<disk, streams, counts, output>>
  BY <1>1, <1>2, <1>5
<1>8. QED BY <1>6, <1>7 DEF TypeOK, counts, Steps
-----------------------------------------------------------------------------
(* What system() leaves, whether the command succeeds or fails.            *)

LEMMA CommandEffect ==
  ASSUME NEW step, NEW out \in Files, NEW next, TypeOK, Command(step, out, next)
  PROVE  /\ pc = step /\ pc' = next /\ UNCHANGED <<argv, streams, output>>
         /\ disk' \in [Files -> Contents] /\ errors' \in Nat /\ error_code' \in Int
         /\ \A f \in Files \ {out} : disk'[f] = disk[f]
         /\ errors' = 0 => /\ errors = 0
                           /\ disk'[out] = Made(Reads[step])
                           /\ \A f \in Reads[step] : disk[f] # "none"
<1>1. /\ pc = step /\ pc' = next /\ UNCHANGED <<argv, streams, output>>
      /\ System(Reads[step], Into(out, Made(Reads[step])), {disk, Into(out, "part")})
  BY DEF Command, Goto
<1>2. disk \in [Files -> Contents] /\ errors \in Nat /\ error_code \in Int
  BY DEF TypeOK
<1>3. Made(Reads[step]) \in Contents /\ "part" \in Contents
  BY MadeType DEF Contents
<1>4. \A c \in Contents : /\ Into(out, c) \in [Files -> Contents]
                          /\ Into(out, c)[out] = c
                          /\ \A f \in Files \ {out} : Into(out, c)[f] = disk[f]
  BY <1>2 DEF Into
<1>5. \/ /\ \A f \in Reads[step] : disk[f] # "none"
         /\ disk' = Into(out, Made(Reads[step]))
         /\ errors' = errors /\ error_code' = error_code
      \/ /\ disk' \in {disk, Into(out, "part")}
         /\ error_code' \in Int
         /\ errors' = errors + 1
  BY <1>1, StatusesAssumption DEF System, counts
<1>6. disk' \in [Files -> Contents] /\ errors' \in Nat /\ error_code' \in Int
  BY <1>2, <1>3, <1>4, <1>5
<1>7. \A f \in Files \ {out} : disk'[f] = disk[f] BY <1>3, <1>4, <1>5
<1>8. ASSUME errors' = 0
      PROVE  /\ errors = 0
             /\ disk'[out] = Made(Reads[step])
             /\ \A f \in Reads[step] : disk[f] # "none"
  <2>1. errors' # errors + 1 BY <1>2, <1>8
  <2>2. QED BY <1>3, <1>4, <1>5, <1>8, <2>1
<1>9. QED BY <1>1, <1>6, <1>7, <1>8

LEMMA SystemStays ==
  ASSUME NEW reads, TypeOK, System(reads, disk, {disk})
  PROVE  /\ disk' = disk /\ errors' \in Nat /\ error_code' \in Int
         /\ errors' = 0 => errors = 0
<1>1. errors \in Nat /\ error_code \in Int BY DEF TypeOK
<1>2. \/ disk' = disk /\ errors' = errors /\ error_code' = error_code
      \/ disk' \in {disk} /\ error_code' \in Statuses /\ errors' = errors + 1
  BY DEF System, counts
<1>3. disk' = disk BY <1>2
<1>4. error_code' \in Int BY <1>1, <1>2, StatusesAssumption
<1>5. errors' = errors \/ errors' = errors + 1 BY <1>2
<1>6. errors' \in Nat /\ (errors' = 0 => errors = 0) BY <1>1, <1>5
<1>7. QED BY <1>3, <1>4, <1>6

LEMMA CopyEffect ==
  ASSUME NEW step, NEW next, TypeOK, Copy(step, next)
  PROVE  /\ pc = step /\ pc' = next /\ UNCHANGED <<argv, streams, output>>
         /\ disk' = disk /\ errors' \in Nat /\ error_code' \in Int
         /\ errors' = 0 => errors = 0
<1>1. \/ System(Reads[step], disk, {disk})
      \/ UNCHANGED <<disk, counts>>
  BY DEF Copy
<1>2. disk' = disk /\ errors' \in Nat /\ error_code' \in Int /\ (errors' = 0 => errors = 0)
  BY <1>1, SystemStays DEF counts, TypeOK
<1>3. QED BY <1>2 DEF Copy, Goto

-----------------------------------------------------------------------------
(* Every action preserves the invariant: one lemma per kind of step.       *)

USE DEF Early, FromList, FromCpp, FromDefs, FromSort, FromSave, FromDefines,
        FromClose, FromResave, FromCompute, FromConcat, FromDeliver, FromDump

Chain == errors = 0 => Made1 /\ Made2 /\ Made3

(* A program that has ended or crashed has nothing left to keep.           *)
LEMMA Ended ==
  ASSUME pc' \in {"exited", "crashed"}, streams' \subseteq streams, IInv, TypeOK'
  PROVE  IInv'
<1>1. StreamsInv' BY DEF IInv, StreamsInv
<1>2. DiskInv' BY DEF DiskInv
<1>3. Chain' BY DEF Chain, Made1, Made2, Made3
<1>4. QED BY <1>1, <1>2, <1>3 DEF IInv, Chain

LEMMA CrashInv ==
  ASSUME IInv, Crash
  PROVE  IInv'
<1>1. TypeOK' BY DEF IInv, TypeOK, Crash, Goto, counts, Steps
<1>2. pc' = "crashed" /\ streams' = streams BY DEF Crash, Goto
<1>3. QED BY <1>1, <1>2, Ended

LEMMA ExitInv ==
  ASSUME NEW status \in Int, IInv, Exit(status)
  PROVE  IInv'
<1>1. status % 256 \in Int OBVIOUS
<1>2. disk' \in [Files -> Contents]
  BY DEF IInv, TypeOK, Exit, Cleanup, Contents
<1>3. pc' = "exited" /\ streams' = {} /\ error_code' \in Int
      /\ UNCHANGED <<argv, errors, output>>
  BY <1>1 DEF Exit, Cleanup, Goto
<1>4. TypeOK' BY <1>2, <1>3 DEF IInv, TypeOK, Steps
<1>5. QED BY <1>3, <1>4, Ended

LEMMA ArgumentsInv ==
  ASSUME IInv, ParseArg \/ ParseEnd \/ Main
  PROVE  IInv'
<1>1. CASE ParseArg
  <2>1. /\ TypeOK' /\ pc' \in {"argv", "crashed"}
        /\ UNCHANGED <<disk, streams, output>> /\ pc = "argv"
    BY <1>1, ParseArgType DEF IInv, counts, ParseArg
  <2>2. CASE pc' = "argv"
    <3>1. StreamsInv' /\ DiskInv' BY <2>1, <2>2 DEF IInv, StreamsInv, DiskInv, Fresh
    <3>2. Chain' BY <2>2 DEF Chain, Made1, Made2, Made3
    <3>3. QED BY <2>1, <3>1, <3>2 DEF IInv, Chain
  <2>3. QED BY <2>1, <2>2, Ended
<1>2. ASSUME pc \in {"argv", "main"}, pc' \in {"main", "open"},
             UNCHANGED <<argv, disk, streams, errors, error_code, output>>
      PROVE  IInv'
  <2>1. TypeOK' BY <1>2 DEF IInv, TypeOK, Steps
  <2>2. StreamsInv' /\ DiskInv' BY <1>2 DEF IInv, StreamsInv, DiskInv, Fresh
  <2>3. Chain' BY <1>2 DEF Chain, Made1, Made2, Made3
  <2>4. QED BY <2>1, <2>2, <2>3 DEF IInv, Chain
<1>3. CASE ParseEnd
  <2>1. CASE pc' = "exited"
    <3>1. TypeOK' BY <1>3, <2>1 DEF IInv, TypeOK, ParseEnd, Steps
    <3>2. QED BY <1>3, <2>1, <3>1, Ended DEF ParseEnd
  <2>2. QED BY <1>2, <1>3, <2>1 DEF ParseEnd, Goto
<1>4. CASE Main
  BY <1>2, <1>4, ExitInv DEF Main, Goto, counts
<1>5. QED BY <1>1, <1>3, <1>4

LEMMA OpenInv ==
  ASSUME IInv, OpenOutputs
  PROVE  IInv'
<1>1. /\ pc = "open" /\ pc' = "list" /\ UNCHANGED <<argv, errors, error_code, output>>
      /\ disk' = [f \in Files |-> IF f \in streams' THEN "part" ELSE disk[f]]
  BY DEF OpenOutputs, Goto, counts
<1>2. streams' \subseteq Written BY DEF OpenOutputs
<1>3. Written \subseteq Files BY DEF Written, Files, Parts
<1>4. disk' \in [Files -> Contents] BY <1>1 DEF IInv, TypeOK, Contents
<1>5. TypeOK' BY <1>1, <1>2, <1>3, <1>4 DEF IInv, TypeOK, Steps
<1>6. StreamsInv' BY <1>1, <1>2 DEF StreamsInv
<1>7. \A f \in Files \ streams' : disk'[f] \in {"none", "old"}
  BY <1>1 DEF IInv, DiskInv, Fresh
<1>8. DiskInv' BY <1>1, <1>7 DEF DiskInv, Fresh, Files, Parts
<1>9. Chain' BY <1>1 DEF Chain, Made1, Made2, Made3
<1>10. QED BY <1>5, <1>6, <1>8, <1>9 DEF IInv, Chain
LEMMA ListInv ==
  ASSUME IInv, ListInputs
  PROVE  IInv'
<1>1. ASSUME pc = "list", pc' = "cpp",
             UNCHANGED <<argv, streams, errors, error_code, output>>,
             disk' = [disk EXCEPT !["cpp_in"] = IF argv.filen > 0 THEN "whole" ELSE "empty"]
      PROVE  IInv'
  <2>1. disk \in [Files -> Contents] BY DEF IInv, TypeOK
  <2>2. /\ disk' \in [Files -> Contents]
        /\ disk'["cpp_in"] \in {"whole", "empty"}
        /\ \A f \in {"decl", "defines_out"} : disk'[f] = disk[f]
    BY <1>1, <2>1 DEF Files, Parts, Contents
  <2>3. TypeOK' BY <1>1, <2>2 DEF IInv, TypeOK, Steps, Reads
  <2>4. StreamsInv' BY <1>1 DEF IInv, StreamsInv
  <2>5. DiskInv' BY <1>1, <2>2 DEF IInv, DiskInv, Fresh
  <2>6. Chain' BY <1>1, <2>2 DEF Chain, Made1, Made2, Made3
  <2>7. QED BY <2>3, <2>4, <2>5, <2>6 DEF IInv, Chain
<1>2. QED BY <1>1, CrashInv DEF ListInputs, Goto, counts

(* What a step between two whose streams are the same leaves, whatever     *)
(* else it does to the disk.                                               *)
Between == FromList \ FromResave

LEMMA Frame ==
  ASSUME IInv, \/ pc \in Between /\ pc' \in Between
               \/ pc \in FromResave /\ pc' \in FromResave,
         UNCHANGED <<argv, streams>>, output' \in Contents,
         disk' \in [Files -> Contents], errors' \in Nat, error_code' \in Int,
         \A f \in {"decl", "defines_out"} \ streams : disk'[f] = disk[f]
  PROVE  TypeOK' /\ StreamsInv' /\ DiskInv'
<1>1. TypeOK' BY DEF IInv, TypeOK, Steps, Between, Reads
<1>2. StreamsInv' BY DEF IInv, StreamsInv, Between
<1>3. DiskInv' BY DEF IInv, DiskInv, Fresh, Between
<1>4. QED BY <1>1, <1>2, <1>3

LEMMA CommandFrame ==
  ASSUME IInv, NEW step, NEW out \in Files \ {"decl", "defines_out"}, NEW next,
         Command(step, out, next),
         \/ step \in Between /\ next \in Between
         \/ step \in FromResave /\ next \in FromResave
  PROVE  TypeOK' /\ StreamsInv' /\ DiskInv'
<1>1. TypeOK BY DEF IInv
<1>2. /\ pc = step /\ pc' = next /\ UNCHANGED <<argv, streams, output>>
      /\ disk' \in [Files -> Contents] /\ errors' \in Nat /\ error_code' \in Int
      /\ \A f \in Files \ {out} : disk'[f] = disk[f]
  BY <1>1, CommandEffect
<1>3. output' \in Contents BY <1>1, <1>2 DEF TypeOK
<1>4. "decl" \in Files /\ "defines_out" \in Files BY DEF Files, Parts
<1>5. QED BY <1>2, <1>3, <1>4, Frame

LEMMA CppInv ==
  ASSUME IInv, Cpp
  PROVE  IInv'
<1>1. TypeOK /\ Command("cpp", "cpp_out", "defs") BY DEF IInv, Cpp
<1>2. "cpp_out" \in Files \ {"decl", "defines_out"} BY DEF Files, Parts
<1>3. TypeOK' /\ StreamsInv' /\ DiskInv' BY <1>1, <1>2, CommandFrame DEF Between
<1>4. Chain'
  <2>1. SUFFICES ASSUME errors' = 0 PROVE Made1' /\ Made2' /\ Made3' BY DEF Chain
  <2>2. /\ pc = "cpp" /\ pc' = "defs" /\ errors = 0
        /\ disk'["cpp_out"] = Made(Reads["cpp"]) /\ disk'["cpp_in"] = disk["cpp_in"]
    BY <1>1, <1>2, <2>1, CommandEffect DEF Files
  <2>3. disk["cpp_in"] \in {"whole", "empty"} BY <2>2 DEF IInv, Made1
  <2>4. Reads["cpp"] = {"cpp_in"} BY DEF Reads
  <2>5. Made(Reads["cpp"]) = disk["cpp_in"] BY <2>3, <2>4 DEF Made
  <2>6. QED BY <2>2, <2>3, <2>5 DEF Made1, Made2, Made3
<1>5. QED BY <1>3, <1>4 DEF IInv, Chain

LEMMA DefsInv ==
  ASSUME IInv, Defs
  PROVE  IInv'
<1>1. TypeOK /\ Command("defs", "defines_in", "sort") BY DEF IInv, Defs
<1>2. "defines_in" \in Files \ {"decl", "defines_out"} BY DEF Files, Parts
<1>3. TypeOK' /\ StreamsInv' /\ DiskInv' BY <1>1, <1>2, CommandFrame DEF Between
<1>4. Chain'
  <2>1. SUFFICES ASSUME errors' = 0 PROVE Made1' /\ Made2' /\ Made3' BY DEF Chain
  <2>2. /\ pc = "defs" /\ pc' = "sort" /\ errors = 0
        /\ disk'["defines_in"] = Made(Reads["defs"])
        /\ disk'["cpp_in"] = disk["cpp_in"] /\ disk'["cpp_out"] = disk["cpp_out"]
    BY <1>1, <1>2, <2>1, CommandEffect DEF Files
  <2>3. disk["cpp_in"] \in {"whole", "empty"} /\ disk["cpp_out"] = disk["cpp_in"]
    BY <2>2 DEF IInv, Made1
  <2>4. Reads["defs"] = {"cpp_in"} BY DEF Reads
  <2>5. Made(Reads["defs"]) = disk["cpp_in"] BY <2>3, <2>4 DEF Made
  <2>6. QED BY <2>2, <2>3, <2>5 DEF Made1, Made2, Made3
<1>5. QED BY <1>3, <1>4 DEF IInv, Chain

(* Steps that leave the disk alone: sort, the two copies.                  *)
LEMMA StaysInv ==
  ASSUME IInv, Sort \/ Save \/ Resave
  PROVE  IInv'
<1>1. ASSUME UNCHANGED <<argv, streams, output, disk>>, errors' \in Nat,
             error_code' \in Int, errors' = 0 => errors = 0,
             <<pc, pc'>> \in {<<"sort", "begin">>, <<"save", "parse">>,
                              <<"resave", "constants">>}
      PROVE  IInv'
  <2>1. TypeOK' /\ StreamsInv' /\ DiskInv'
    BY <1>1, Frame DEF IInv, TypeOK, Between
  <2>2. Chain' BY <1>1 DEF IInv, Chain, Made1, Made2, Made3, IfFreshWhole, Fresh
  <2>3. QED BY <2>1, <2>2 DEF IInv, Chain
<1>2. TypeOK BY DEF IInv
<1>3. CASE Save BY <1>1, <1>2, <1>3, CopyEffect DEF Save
<1>4. CASE Resave BY <1>1, <1>2, <1>4, CopyEffect DEF Resave
<1>5. CASE Sort
  <2>1. /\ pc = "sort" /\ pc' = "begin" /\ UNCHANGED <<argv, streams, output>>
        /\ System(Reads["sort"], disk, {disk})
    BY <1>5 DEF Sort, Goto
  <2>2. /\ disk' = disk /\ errors' \in Nat /\ error_code' \in Int
        /\ errors' = 0 => errors = 0
    BY <1>2, <2>1, SystemStays
  <2>3. QED BY <1>1, <2>1, <2>2
<1>6. QED BY <1>3, <1>4, <1>5
LEMMA BeginInv ==
  ASSUME IInv, Begin
  PROVE  IInv'
<1>1. ASSUME pc = "begin", pc' = "save", UNCHANGED <<argv, errors, error_code, output>>,
             disk' = [disk EXCEPT !["constants_c"] = "part", !["header"] = "whole"],
             streams' = streams \cup {"constants_c"}
      PROVE  IInv'
  <2>1. disk \in [Files -> Contents] BY DEF IInv, TypeOK
  <2>2. /\ disk' \in [Files -> Contents]
        /\ disk'["header"] = "whole"
        /\ \A f \in {"decl", "defines_out", "cpp_in", "cpp_out", "defines_in"} :
             disk'[f] = disk[f]
    BY <1>1, <2>1 DEF Files, Parts, Contents
  <2>3. TypeOK' BY <1>1, <2>2 DEF IInv, TypeOK, Steps, Reads, Files
  <2>4. StreamsInv' BY <1>1 DEF IInv, StreamsInv
  <2>5. DiskInv' BY <1>1, <2>2 DEF IInv, DiskInv, Fresh
  <2>6. Chain' BY <1>1, <2>2 DEF IInv, Chain, Made1, Made2, Made3
  <2>7. QED BY <2>3, <2>4, <2>5, <2>6 DEF IInv, Chain
<1>2. QED BY <1>1, CrashInv DEF Begin, Goto, counts

LEMMA ParseInv ==
  ASSUME IInv, Parse
  PROVE  IInv'
<1>1. TypeOK BY DEF IInv
<1>2. CASE /\ pc = "parse" /\ pc' = "defines" /\ errors' = errors + 1
           /\ UNCHANGED <<argv, disk, streams, error_code, output>>
  <2>1. errors' \in Nat /\ errors' # 0 BY <1>1, <1>2 DEF TypeOK
  <2>2. TypeOK' /\ StreamsInv' /\ DiskInv'
    BY <1>1, <1>2, <2>1, Frame DEF TypeOK, Between
  <2>3. Chain' BY <2>1 DEF Chain
  <2>4. QED BY <2>2, <2>3 DEF IInv, Chain
<1>3. ASSUME /\ pc = "parse" /\ pc' = "defines" /\ "body" \in streams
             /\ disk["cpp_out"] \notin {"none", "empty"}
             /\ disk' = [f \in Files |-> IF f \in {"decl", "body"} \cap streams
                                         THEN Made(Reads["parse"]) ELSE disk[f]]
             /\ UNCHANGED <<argv, streams, errors, error_code, output>>
      PROVE  IInv'
  <2>1. Made(Reads["parse"]) \in Contents BY MadeType DEF Contents
  <2>2. /\ disk' \in [Files -> Contents]
        /\ \A f \in {"decl", "defines_out"} \ streams : disk'[f] = disk[f]
    BY <1>1, <1>3, <2>1 DEF TypeOK, Files, Parts
  <2>3. TypeOK' /\ StreamsInv' /\ DiskInv'
    BY <1>1, <1>3, <2>2, Frame DEF TypeOK, Between
  <2>4. Chain'
    <3>1. SUFFICES ASSUME errors' = 0 PROVE Made1' /\ Made2' /\ Made3' BY DEF Chain
    <3>2. Made1 BY <1>3, <3>1 DEF IInv
    <3>3. disk["cpp_in"] = "whole" /\ disk["cpp_out"] = "whole"
      BY <1>3, <3>2 DEF Made1
    <3>4. Reads["parse"] = {"cpp_out"} BY DEF Reads
    <3>5. Made(Reads["parse"]) = "whole" BY <3>3, <3>4 DEF Made
    <3>6. /\ disk'["body"] = "whole"
          /\ \A f \in {"cpp_in", "cpp_out", "defines_in", "header"} : disk'[f] = disk[f]
          /\ "decl" \in streams => disk'["decl"] = "whole"
      BY <1>3, <3>5 DEF Files, Parts
    <3>7. "decl" \notin streams => disk'["decl"] \in {"none", "old"}
      BY <1>3, <2>2 DEF IInv, DiskInv, Fresh
    <3>8. Made1' BY <1>3, <3>2, <3>6 DEF Made1
    <3>9. Made2' BY <1>3, <3>3, <3>6, <3>7 DEF Made2, IfFreshWhole, Fresh
    <3>10. QED BY <1>3, <3>8, <3>9 DEF Made3
  <2>5. QED BY <2>3, <2>4 DEF IInv, Chain
<1>4. QED BY <1>2, <1>3, CrashInv DEF Parse, Yyerror, Goto, counts

LEMMA DefinesInv ==
  ASSUME IInv, Defines
  PROVE  IInv'
<1>1. TypeOK BY DEF IInv
<1>2. ASSUME /\ pc = "defines" /\ pc' = "close"
             /\ disk' = [f \in Files |-> IF f \in {"defines_out"} \cap streams
                                         THEN Made(Reads["defines"]) ELSE disk[f]]
             /\ UNCHANGED <<argv, streams, errors, error_code, output>>
      PROVE  IInv'
  <2>1. Made(Reads["defines"]) \in Contents BY MadeType DEF Contents
  <2>2. /\ disk' \in [Files -> Contents]
        /\ \A f \in {"decl", "defines_out"} \ streams : disk'[f] = disk[f]
        /\ \A f \in {"cpp_in", "cpp_out", "defines_in", "header", "body", "decl"} :
             disk'[f] = disk[f]
    BY <1>1, <1>2, <2>1 DEF TypeOK, Files, Parts
  <2>3. TypeOK' /\ StreamsInv' /\ DiskInv'
    BY <1>1, <1>2, <2>2, Frame DEF TypeOK, Between
  <2>4. Chain'
    <3>1. SUFFICES ASSUME errors' = 0 PROVE Made1' /\ Made2' /\ Made3' BY DEF Chain
    <3>2. Made1 /\ Made2 BY <1>2, <3>1 DEF IInv
    <3>3. disk["defines_in"] = "whole" BY <1>2, <3>2 DEF Made1, Made2
    <3>4. Reads["defines"] = {"defines_in"} BY DEF Reads
    <3>5. Made(Reads["defines"]) = "whole" BY <3>3, <3>4 DEF Made
    <3>6. "defines_out" \in streams => disk'["defines_out"] = "whole"
      BY <1>2, <3>5 DEF Files, Parts
    <3>7. "defines_out" \notin streams => disk'["defines_out"] \in {"none", "old"}
      BY <1>2, <2>2 DEF IInv, DiskInv, Fresh
    <3>8. Made1' BY <1>2, <2>2, <3>2 DEF Made1
    <3>9. Made2' BY <1>2, <2>2, <3>2, <3>6, <3>7 DEF Made2, IfFreshWhole, Fresh
    <3>10. QED BY <1>2, <3>8, <3>9 DEF Made3
  <2>5. QED BY <2>3, <2>4 DEF IInv, Chain
<1>3. QED BY <1>2, CrashInv DEF Defines, Goto, counts

LEMMA CloseInv ==
  ASSUME IInv, Close
  PROVE  IInv'
<1>1. ASSUME /\ pc = "close" /\ pc' = "resave" /\ streams' = {}
             /\ disk' = [disk EXCEPT !["footer"] = "whole",
                                     !["constants_c"] = disk["body"]]
             /\ UNCHANGED <<argv, errors, error_code, output>>
      PROVE  IInv'
  <2>1. disk \in [Files -> Contents] BY DEF IInv, TypeOK
  <2>2. /\ disk' \in [Files -> Contents]
        /\ disk'["footer"] = "whole" /\ disk'["constants_c"] = disk["body"]
        /\ \A f \in {"cpp_in", "cpp_out", "defines_in", "header", "body", "decl",
                     "defines_out"} : disk'[f] = disk[f]
    BY <1>1, <2>1 DEF Files, Parts, Contents
  <2>3. TypeOK' BY <1>1, <2>2 DEF IInv, TypeOK, Steps, Reads
  <2>4. StreamsInv' /\ DiskInv' BY <1>1 DEF StreamsInv, DiskInv
  <2>5. Chain'
    <3>1. SUFFICES ASSUME errors' = 0 PROVE Made1' /\ Made2' /\ Made3' BY DEF Chain
    <3>2. Made1 /\ Made2 BY <1>1, <3>1 DEF IInv
    <3>3. Made1' BY <1>1, <2>2, <3>2 DEF Made1
    <3>4. Made2' BY <1>1, <2>2, <3>2 DEF Made2, IfFreshWhole, Fresh
    <3>5. QED BY <1>1, <3>3, <3>4 DEF Made3
  <2>6. QED BY <2>3, <2>4, <2>5 DEF IInv, Chain
<1>2. {f \in streams : ~ Closes(f)} = {} BY DEF Closes
<1>3. QED BY <1>1, <1>2, CrashInv DEF Close, Goto, counts
LEMMA ConstantsInv ==
  ASSUME IInv, Constants
  PROVE  IInv'
<1>1. /\ disk \in [Files -> Contents] /\ errors \in Nat
      /\ error_code \in Int /\ output \in Contents
  BY DEF IInv, TypeOK
<1>2. /\ pc = "constants" /\ pc' = "compute" /\ UNCHANGED <<argv, streams, output>>
      /\ \/ /\ disk' = Into("constants_x", Made(Reads["constants"]))
            /\ errors' = errors /\ error_code' = error_code
         \/ /\ disk' \in {disk, Into("constants_x", "none")}
            /\ error_code' \in Int /\ errors' = errors + 1
  BY StatusesAssumption DEF Constants, System, Goto, counts
<1>3. Made(Reads["constants"]) \in Contents /\ "none" \in Contents
  BY MadeType DEF Contents
<1>4. \A c \in Contents :
        /\ Into("constants_x", c) \in [Files -> Contents]
        /\ Into("constants_x", c)["constants_x"] = c
        /\ \A f \in Files \ {"constants_x"} : Into("constants_x", c)[f] = disk[f]
  BY <1>1 DEF Into, Files
<1>5. /\ disk' \in [Files -> Contents] /\ errors' \in Nat /\ error_code' \in Int
      /\ \A f \in Files \ {"constants_x"} : disk'[f] = disk[f]
  BY <1>1, <1>2, <1>3, <1>4
<1>6. TypeOK' /\ StreamsInv' /\ DiskInv'
  BY <1>1, <1>2, <1>5, Frame DEF Files, Parts
<1>7. Chain'
  <2>1. SUFFICES ASSUME errors' = 0 PROVE Made1' /\ Made2' /\ Made3' BY DEF Chain
  <2>2. errors = 0 /\ disk' = Into("constants_x", Made(Reads["constants"]))
    BY <1>1, <1>2, <2>1
  <2>3. disk["constants_c"] = "whole" BY <1>2, <2>2 DEF IInv, Made2
  <2>4. Reads["constants"] = {"constants_c"} BY DEF Reads
  <2>5. Made(Reads["constants"]) = "whole" BY <2>3, <2>4 DEF Made
  <2>6. disk'["constants_x"] = "whole" BY <1>3, <1>4, <2>2, <2>5
  <2>7. \A f \in {"cpp_in", "cpp_out", "defines_in", "constants_c"}
               \cup (Parts \ {"constants"}) : disk'[f] = disk[f]
    BY <1>5 DEF Files, Parts
  <2>8. Made1' /\ Made2'
    BY <1>2, <2>2, <2>7 DEF IInv, Made1, Made2, IfFreshWhole, Fresh, Parts
  <2>9. QED BY <1>2, <2>6, <2>8 DEF Made3
<1>8. QED BY <1>6, <1>7 DEF IInv, Chain

LEMMA ComputeInv ==
  ASSUME IInv, Compute
  PROVE  IInv'
<1>1. TypeOK /\ Command("compute", "constants", "concat") BY DEF IInv, Compute
<1>2. "constants" \in Files \ {"decl", "defines_out"} BY DEF Files, Parts
<1>3. TypeOK' /\ StreamsInv' /\ DiskInv' BY <1>1, <1>2, CommandFrame
<1>4. Chain'
  <2>1. SUFFICES ASSUME errors' = 0 PROVE Made1' /\ Made2' /\ Made3' BY DEF Chain
  <2>2. /\ pc = "compute" /\ pc' = "concat" /\ errors = 0
        /\ disk'["constants"] = Made(Reads["compute"])
        /\ \A f \in Files \ {"constants"} : disk'[f] = disk[f]
    BY <1>1, <1>2, <2>1, CommandEffect
  <2>3. Made1 /\ Made2 /\ Made3 BY <2>2 DEF IInv
  <2>4. disk["constants_x"] = "whole" BY <2>2, <2>3 DEF Made3
  <2>5. Reads["compute"] = {"constants_x"} BY DEF Reads
  <2>6. Made(Reads["compute"]) = "whole" BY <2>4, <2>5 DEF Made
  <2>7. \A f \in {"cpp_in", "cpp_out", "defines_in", "constants_c", "constants_x"}
               \cup (Parts \ {"constants"}) : disk'[f] = disk[f]
    BY <2>2 DEF Files, Parts
  <2>8. Made1' /\ Made2'
    BY <2>2, <2>3, <2>7 DEF Made1, Made2, IfFreshWhole, Fresh, Parts
  <2>9. QED BY <2>2, <2>4, <2>6, <2>7, <2>8 DEF Made3
<1>5. QED BY <1>3, <1>4 DEF IInv, Chain

(* All the parts are whole when none is unopened.                          *)
LEMMA ConcatInv ==
  ASSUME IInv, Concat
  PROVE  IInv'
<1>1. TypeOK /\ Command("concat", "result", "deliver") BY DEF IInv, Concat
<1>2. "result" \in Files \ {"decl", "defines_out"} BY DEF Files, Parts
<1>3. TypeOK' /\ StreamsInv' /\ DiskInv' BY <1>1, <1>2, CommandFrame
<1>4. Chain'
  <2>1. SUFFICES ASSUME errors' = 0 PROVE Made1' /\ Made2' /\ Made3' BY DEF Chain
  <2>2. /\ pc = "concat" /\ pc' = "deliver" /\ errors = 0
        /\ disk'["result"] = Made(Reads["concat"])
        /\ \A f \in Files \ {"result"} : disk'[f] = disk[f]
    BY <1>1, <1>2, <2>1, CommandEffect
  <2>3. Made1 /\ Made2 /\ Made3 BY <2>2 DEF IInv
  <2>4. \A f \in {"cpp_in", "cpp_out", "defines_in", "constants_c", "constants_x"}
               \cup Parts : disk'[f] = disk[f]
    BY <2>2 DEF Files, Parts
  <2>5. Made1' /\ Made2'
    BY <2>2, <2>3, <2>4 DEF Made1, Made2, IfFreshWhole, Fresh, Parts
  <2>6. disk'["constants_x"] = "whole" /\ disk'["constants"] = "whole"
    BY <2>2, <2>3, <2>4 DEF Made3, Parts
  <2>7. Fresh("result")' BY <2>2, MadeType DEF Fresh
  <2>8. ASSUME Unopened' = {} PROVE disk'["result"] = "whole"
    <3>1. \A f \in {"decl", "defines_out"} : disk'[f] \notin {"none", "old"}
      BY <2>8 DEF Unopened
    <3>2. \A f \in {"decl", "defines_out"} : disk[f] = "whole"
      BY <2>2, <2>3, <2>4, <3>1 DEF Made2, IfFreshWhole, Fresh, Parts
    <3>3. disk["header"] = "whole" BY <2>2, <2>3 DEF Made1
    <3>4. disk["body"] = "whole" /\ disk["footer"] = "whole" BY <2>2, <2>3 DEF Made2
    <3>5. disk["constants"] = "whole" BY <2>2, <2>3 DEF Made3
    <3>6. \A f \in Parts : disk[f] = "whole" BY <3>2, <3>3, <3>4, <3>5 DEF Parts
    <3>7. Reads["concat"] = Parts BY DEF Reads
    <3>8. QED BY <2>2, <3>6, <3>7 DEF Made
  <2>9. QED BY <2>2, <2>5, <2>6, <2>7, <2>8 DEF Made3
<1>5. QED BY <1>3, <1>4 DEF IInv, Chain

LEMMA DeliverInv ==
  ASSUME IInv, Deliver
  PROVE  IInv'
<1>1. TypeOK BY DEF IInv
<1>2. /\ pc = "deliver" /\ pc' = "dump" /\ UNCHANGED <<argv, streams>>
      /\ System(Reads["deliver"], disk, {disk})
      /\ output' = IF errors' = errors THEN disk["result"] ELSE "part"
  BY DEF Deliver, Goto
<1>3. disk' = disk /\ errors' \in Nat /\ error_code' \in Int /\ (errors' = 0 => errors = 0)
  BY <1>1, <1>2, SystemStays
<1>4. output' \in Contents BY <1>1, <1>2 DEF TypeOK, Files, Contents
<1>5. TypeOK' /\ StreamsInv' /\ DiskInv' BY <1>1, <1>2, <1>3, <1>4, Frame DEF TypeOK
<1>6. Chain'
  <2>1. SUFFICES ASSUME errors' = 0 PROVE Made1' /\ Made2' /\ Made3' BY DEF Chain
  <2>2. errors = 0 /\ Made1 /\ Made2 /\ Made3 BY <1>3, <2>1 DEF IInv
  <2>3. output' = disk["result"] BY <1>2, <2>1, <2>2
  <2>4. Unopened' = Unopened BY <1>3 DEF Unopened
  <2>5. Made1' /\ Made2' BY <1>2, <1>3, <2>2 DEF Made1, Made2, IfFreshWhole, Fresh
  <2>6. Made3' BY <1>2, <1>3, <2>2, <2>3, <2>4 DEF Made3, Fresh
  <2>7. QED BY <2>5, <2>6
<1>7. QED BY <1>5, <1>6 DEF IInv, Chain

LEMMA DumpInv ==
  ASSUME IInv, Dump
  PROVE  IInv'
<1>1. TypeOK BY DEF IInv
<1>2. pc = "dump" /\ pc' = "finish" /\ UNCHANGED <<argv, streams, output>>
  BY DEF Dump, Goto
<1>3. System(Reads["dump"], disk, {disk}) \/ UNCHANGED <<disk, counts>> BY DEF Dump
<1>4. disk' = disk /\ errors' \in Nat /\ error_code' \in Int /\ (errors' = 0 => errors = 0)
  BY <1>1, <1>3, SystemStays DEF counts, TypeOK
<1>5. TypeOK' /\ StreamsInv' /\ DiskInv' BY <1>1, <1>2, <1>4, Frame DEF TypeOK
<1>6. Chain'
  <2>1. SUFFICES ASSUME errors' = 0 PROVE Made1' /\ Made2' /\ Made3' BY DEF Chain
  <2>2. errors = 0 /\ Made1 /\ Made2 /\ Made3 BY <1>4, <2>1 DEF IInv
  <2>3. Unopened' = Unopened BY <1>4 DEF Unopened
  <2>4. Made1' /\ Made2' BY <1>2, <1>4, <2>2 DEF Made1, Made2, IfFreshWhole, Fresh
  <2>5. Made3' BY <1>2, <1>4, <2>2, <2>3 DEF Made3, Fresh
  <2>6. QED BY <2>4, <2>5
<1>7. QED BY <1>5, <1>6 DEF IInv, Chain

-----------------------------------------------------------------------------
(* The theorems.                                                           *)

LEMMA Start ==
  ASSUME Init
  PROVE  IInv
<1>1. argv \in Argv
  <2>1. argv \in NoArguments BY DEF Init
  <2>2. \A l \in 0..MaxArgs : l \in Nat BY ArgsAssumption
  <2>3. PICK l \in 0..MaxArgs :
          argv = [left |-> l, dashes |-> 0, filen |-> 0, fatals |-> 0,
                  cc |-> FALSE, dump |-> FALSE, debug |-> FALSE,
                  cpp_output |-> FALSE, mode |-> "sexpr"]
    BY <2>1 DEF NoArguments
  <2>4. QED BY <2>2, <2>3 DEF Argv
<1>2. /\ disk \in [Files -> Contents] /\ \A f \in Files : disk[f] \in {"none", "old"}
      /\ pc = "argv" /\ streams = {} /\ errors = 0 /\ error_code = 0 /\ output = "none"
  BY DEF Init, Contents
<1>3. TypeOK BY <1>1, <1>2 DEF TypeOK, Steps, Contents
<1>4. StreamsInv /\ DiskInv BY <1>2 DEF StreamsInv, DiskInv, Fresh
<1>5. Chain BY <1>2 DEF Chain, Made1, Made2, Made3
<1>6. QED BY <1>3, <1>4, <1>5 DEF IInv, Chain

LEMMA Step ==
  ASSUME IInv, [Next]_vars
  PROVE  IInv'
<1>1. CASE Next
  <2>1. CASE Finish
    <3>1. error_code \in Int BY DEF IInv, TypeOK
    <3>2. (IF error_code = 0 /\ errors > 0 THEN 1 ELSE error_code) \in Int BY <3>1
    <3>3. QED BY <2>1, <3>2, ExitInv DEF Finish
  <2>2. QED
    BY <1>1, <2>1, ArgumentsInv, OpenInv, ListInv, CppInv, DefsInv, StaysInv,
       BeginInv, ParseInv, DefinesInv, CloseInv, ConstantsInv, ComputeInv,
       ConcatInv, DeliverInv, DumpInv DEF Next
<1>2. CASE UNCHANGED vars
  <2>1. TypeOK' /\ StreamsInv' /\ DiskInv'
    BY <1>2 DEF IInv, TypeOK, StreamsInv, DiskInv, Fresh, vars
  <2>2. Unopened' = Unopened BY <1>2 DEF Unopened, vars
  <2>3. Chain'
    BY <1>2, <2>2 DEF IInv, Chain, Made1, Made2, Made3, IfFreshWhole, Fresh, vars
  <2>4. QED BY <2>1, <2>3 DEF IInv, Chain
<1>3. QED BY <1>1, <1>2

LEMMA Invariance == Spec => []IInv
<1>1. Init => IInv BY Start
<1>2. IInv /\ [Next]_vars => IInv' BY Step
<1>3. QED BY <1>1, <1>2, PTL DEF Spec

(* Every variable keeps its type: no argument is taken that is not there.  *)
THEOREM PipelineTypes == Spec => []TypeOK
<1>1. IInv => TypeOK BY DEF IInv
<1>2. QED BY <1>1, Invariance, PTL

(* A command, the parser or the reader of the macros finds its input       *)
(* closed, and, until a failure is counted, made by this run and not left  *)
(* by an earlier one with the same pid (process.c:173-262).                *)
THEOREM InputsAlwaysReady == Spec => []InputsReady
<1>1. ASSUME IInv, pc \in DOMAIN Reads
      PROVE  Reads[pc] \cap streams = {}
  <2>1. CASE pc \in FromResave
    BY <1>1, <2>1 DEF IInv, StreamsInv
  <2>2. CASE pc \in {"cpp", "defs", "sort", "save", "parse", "defines"}
    <3>1. Reads[pc] \subseteq {"cpp_in", "cpp_out", "defines_in"} BY <2>2 DEF Reads
    <3>2. streams \subseteq Written \cup {"constants_c"} BY <1>1 DEF IInv, StreamsInv
    <3>3. QED BY <3>1, <3>2 DEF Written
  <2>3. QED BY <1>1, <2>1, <2>2 DEF Reads
<1>2. ASSUME IInv, pc \in DOMAIN Reads, errors = 0, NEW f \in Reads[pc] \ Unopened
      PROVE  disk[f] \notin {"none", "old"}
  <2>1. Made1 /\ Made2 /\ Made3 BY <1>2 DEF IInv
  <2>2. CASE f \in {"decl", "defines_out"} BY <1>2, <2>2 DEF Unopened
  <2>3. CASE pc \in {"cpp", "defs", "sort", "save", "parse", "defines", "resave"}
    <3>1. f \in {"cpp_in", "cpp_out", "defines_in"} BY <1>2, <2>3 DEF Reads
    <3>2. QED BY <1>2, <2>1, <2>3, <3>1 DEF Made1, Reads
  <2>4. CASE pc \in {"constants", "compute", "deliver"}
    BY <1>2, <2>1, <2>4 DEF Made2, Made3, Fresh, Reads
  <2>5. CASE pc \in {"concat", "dump"} /\ f \notin {"decl", "defines_out"}
    <3>1. f \in {"header", "constants", "body", "footer", "cpp_in", "cpp_out", "constants_c"}
      BY <1>2, <2>5 DEF Reads, Parts
    <3>2. QED BY <2>1, <2>5, <3>1 DEF Made1, Made2, Made3
  <2>6. QED BY <1>2, <2>2, <2>3, <2>4, <2>5 DEF Reads
<1>3. IInv => InputsReady BY <1>1, <1>2 DEF InputsReady
<1>4. QED BY <1>3, Invariance, PTL

(* No failure is lost between the steps: with no error counted, what was   *)
(* delivered is all of the result, unless an output did not open           *)
(* (ctx.c:278, process.c:173).                                             *)
THEOREM FailuresAlwaysCounted == Spec => []FailuresCounted
<1>1. IInv => FailuresCounted BY DEF IInv, Made3, FailuresCounted
<1>2. QED BY <1>1, Invariance, PTL
=============================================================================
