---------------------------- MODULE CommandLine ----------------------------
(***************************************************************************)
(* A run of the program, from its arguments to its exit code:              *)
(* ArgsParser::Parse, one argument at a time, then Repeat::Run, which has  *)
(* Translator::Load and TranslatorImpl::Load read the input, opens the     *)
(* output and has the input translated.  What the translation writes is    *)
(* the matter of the other modules; here it is whole or not.               *)
(***************************************************************************)
EXTENDS Integers, Sequences, FiniteSets

CONSTANTS
  Unknown,    (* Arguments that begin with a dash and are no option.       *)
  Names,      (* Other arguments, the empty one among them.                *)
  Empty,
  Inputs,     (* What the file that is named as the input may be.          *)
  Unwritable, (* Names that cannot be opened for writing.                  *)
  MaxArgs     (* Bound: the number of arguments.                           *)

HelpFlags   == {"-h", "--help"}
ColumnFlags == {"-gcolumn-info", "-gno-column-info"}
Arguments   == HelpFlags \cup ColumnFlags \cup {"-o"} \cup Unknown \cup Names

Missing == [kind |-> "missing"]
Text    == [kind |-> "text"]
(* headers: the program headers can be read; whole: and all the segments.  *)
Elf     == [kind: {"elf"}, class: {32, 64}, machine: {"386", "X86_64", "AARCH64", "ARM", "MIPS"},
            little: BOOLEAN, headers: BOOLEAN, whole: BOOLEAN]
Assembly(of, whole) == [kind |-> "assembly", of |-> of, whole |-> whole]

ASSUME EmptyAssumption     == Empty \in Names
ASSUME ArgumentsAssumption ==
  /\ Names \cap (HelpFlags \cup ColumnFlags \cup {"-o"} \cup Unknown) = {}
  /\ Unknown \cap (HelpFlags \cup ColumnFlags \cup {"-o"}) = {}
ASSUME InputsAssumption    == Inputs \subseteq Elf \cup {Missing, Text}
ASSUME MaxArgsAssumption   == MaxArgs \in Nat

VARIABLES
  argv, i,    (* The arguments, and the one that is parsed next.           *)
  args,       (* ParsedArgs.                                               *)
  phase,
  disk,       (* The files, by name.                                       *)
  elft,       (* The class TranslatorImpl is instantiated for.             *)
  loaded,     (* What TranslatorImpl has read.                             *)
  replaced,   (* Someone else has written the input since the first read.  *)
  exit        (* The exit code; Running, or Killed by a signal.            *)

vars == <<argv, i, args, phase, disk, elft, loaded, replaced, exit>>

Running == 2
Killed  == 3

Init ==
  /\ argv \in UNION { [1 .. n -> Arguments] : n \in 0 .. MaxArgs }
  /\ i = 1
  /\ args = [input |-> Empty, output |-> Empty, help |-> FALSE, column |-> FALSE]
  /\ phase = "parse"
  /\ \E input \in Inputs, name \in Names \ {Empty} :
       disk = [n \in Arguments |-> IF n = name THEN input ELSE Missing]
  /\ elft = 0 /\ loaded = Missing /\ replaced = FALSE
  /\ exit = Running

-----------------------------------------------------------------------------
Arg     == argv[i]
Parsing == phase = "parse" /\ i <= Len(argv)
Parsed  == phase = "parse" /\ i > Len(argv)

Exit(code) ==
  /\ phase' = "done" /\ exit' = code
  /\ UNCHANGED <<argv, i, disk, elft, loaded, replaced>>

(* The arguments that follow are not looked at.                            *)
Help ==
  /\ Parsing /\ Arg \in HelpFlags
  /\ args' = [args EXCEPT !.help = TRUE]
  /\ Exit(0)

Take(new, count) ==
  /\ args' = new /\ i' = i + count
  /\ UNCHANGED <<argv, phase, disk, elft, loaded, replaced, exit>>

(* Faulty: the first flag is the one that counts.                          *)
ColumnFlagOnce ==
  /\ Parsing /\ Arg \in ColumnFlags
  /\ Take([args EXCEPT !.column = Arg = "-gcolumn-info"
                          \/ \E j \in 1 .. i - 1 : argv[j] = "-gcolumn-info"], 1)

ColumnFlag ==
  /\ Parsing /\ Arg \in ColumnFlags
  /\ Take([args EXCEPT !.column = Arg = "-gcolumn-info"], 1)

(* The next argument is the value, whatever it is.                         *)
Output ==
  /\ Parsing /\ Arg = "-o" /\ i < Len(argv)
  /\ Take([args EXCEPT !.output = argv[i + 1]], 2)

(* An empty argument is an input that does not count.                      *)
Input ==
  /\ Parsing /\ Arg \in Names /\ args.input = Empty
  /\ Take([args EXCEPT !.input = Arg], 1)

(* No value for -o, an unknown option, or a second input; at the end, no   *)
(* input or no output.                                                     *)
Usage ==
  /\ \/ Parsing /\ Arg = "-o" /\ i = Len(argv)
     \/ Parsing /\ Arg \in Unknown
     \/ Parsing /\ Arg \in Names /\ args.input # Empty
     \/ Parsed /\ (args.input = Empty \/ args.output = Empty)
  /\ Exit(1) /\ UNCHANGED args

EndOfArguments ==
  /\ Parsed /\ args.input # Empty /\ args.output # Empty
  /\ phase' = "class"
  /\ UNCHANGED <<argv, i, args, disk, elft, loaded, replaced, exit>>

-----------------------------------------------------------------------------
File == disk[args.input]

(* Translator::Load                                                        *)
ReadClass ==
  /\ phase = "class" /\ File.kind = "elf"
  /\ elft' = File.class /\ phase' = "load"
  /\ UNCHANGED <<argv, i, args, disk, loaded, replaced, exit>>

(* Someone else writes the input, between the two times it is read.        *)
ReplaceInput ==
  /\ phase = "load" /\ ~ replaced /\ replaced' = TRUE
  /\ \E file \in Inputs : disk' = [disk EXCEPT ![args.input] = file]
  /\ UNCHANGED <<argv, i, args, phase, elft, loaded, exit>>

(* ArchBackendFactory::Create, for a class.  LLVM has a name of its own    *)
(* for big-endian AArch64, and none for big-endian ARM.                    *)
Arch(file) == IF file.machine = "AARCH64" /\ ~ file.little THEN "AARCH64_BE" ELSE file.machine

HasBackend(class, arch) ==
  arch \in IF class = 64 THEN {"X86_64", "AARCH64"} ELSE {"386", "ARM"}

(* Faulty: the file is taken for what the backend is for.                  *)
LoadableByArch(file) == file.kind = "elf" /\ HasBackend(elft, Arch(file)) /\ file.headers

(* The file is read once more, and must be of the instance's class and     *)
(* little-endian.                                                          *)
Loadable(file) ==
  /\ file.kind = "elf"
  /\ HasBackend(elft, Arch(file))
  /\ file.class = elft /\ file.little
  /\ file.headers

(* TranslatorImpl::Load                                                    *)
Load ==
  /\ phase = "load" /\ Loadable(File)
  /\ loaded' = File /\ phase' = "open"
  /\ UNCHANGED <<argv, i, args, disk, elft, replaced, exit>>

LoadFails ==
  /\ \/ phase = "class" /\ File.kind # "elf"
     \/ phase = "load" /\ ~ Loadable(File)
  /\ Exit(1) /\ UNCHANGED args

OpenFails ==
  /\ phase = "open" /\ args.output \in Unwritable
  /\ Exit(1) /\ UNCHANGED args

(* Faulty: the output is opened before the input is loaded.                *)
OpenFirst ==
  /\ phase \in {"class", "open"} /\ args.output \notin Unwritable
  /\ disk' = [disk EXCEPT ![args.output] = Assembly(loaded, FALSE)]
  /\ phase' = IF phase = "class" THEN "class" ELSE "translate"
  /\ UNCHANGED <<argv, i, args, elft, loaded, replaced, exit>>

(* The output is empty then, even if it is the input.                      *)
Open ==
  /\ phase = "open" /\ args.output \notin Unwritable
  /\ disk' = [disk EXCEPT ![args.output] = Assembly(loaded, FALSE)]
  /\ phase' = "translate"
  /\ UNCHANGED <<argv, i, args, elft, loaded, replaced, exit>>

End(code, whole) ==
  /\ disk' = [disk EXCEPT ![args.output] = Assembly(loaded, whole)]
  /\ phase' = "done" /\ exit' = code
  /\ UNCHANGED <<argv, i, args, elft, loaded, replaced>>

(* EmitSections gives up without a word at a segment it cannot read.       *)
Translate == phase = "translate" /\ End(0, loaded.whole)

(* The stream reports what it could not write when it is destroyed.        *)
WriteFails == phase = "translate" /\ End(1, FALSE)

(* The input is mapped and not copied, unless it is small: it is gone.     *)
LoseInput == phase = "translate" /\ args.input = args.output /\ End(Killed, FALSE)

Next ==
  \/ Help \/ ColumnFlag \/ Output \/ Input \/ Usage \/ EndOfArguments
  \/ ReadClass \/ ReplaceInput \/ Load \/ LoadFails
  \/ OpenFails \/ Open \/ Translate \/ WriteFails \/ LoseInput

Spec == Init /\ [][Next]_vars

-----------------------------------------------------------------------------
(* An argument is a value if an odd number of -o comes right before it.    *)
IsValue(j) ==
  LET run == { k \in 1 .. j - 1 : \A n \in k .. j - 1 : argv[n] = "-o" }
  IN  Cardinality(run) % 2 = 1

LastOf(S, default) ==
  IF S = {} THEN default ELSE argv[CHOOSE j \in S : \A k \in S : k <= j]

(* Read as a whole, the arguments say what the parser made of them: the    *)
(* last value is the output, the last flag says whether there are columns  *)
(* ("LastFlagNoColumnInfoWins", tests/Given_Arguments.cpp), the one name   *)
(* that is no value is the input, and no other option is there.            *)
ParsedAsWritten ==
  LET at(S)  == { j \in DOMAIN argv : ~ IsValue(j) /\ argv[j] \in S }
      inputs == at(Names \ {Empty})
  IN  phase = "class" =>
        /\ args.output = LastOf({ j \in DOMAIN argv : IsValue(j) }, Empty)
        /\ args.column <=> LastOf(at(ColumnFlags), "") = "-gcolumn-info"
        /\ Cardinality(inputs) = 1 /\ args.input = LastOf(inputs, Empty)
        /\ at(HelpFlags \cup Unknown) = {}

(* The instance that translates is the one for the file it has read, even  *)
(* if that is no longer the file whose class was read: little-endian, and  *)
(* of a machine and a class that go together.                              *)
LoadedIsSupported ==
  loaded # Missing =>
    /\ loaded.little /\ loaded.class = elft
    /\ loaded.machine \in IF elft = 64 THEN {"X86_64", "AARCH64"} ELSE {"386", "ARM"}

(* The program writes the output only, and only after it has loaded the    *)
(* input: a run that fails before leaves the output of an earlier one.     *)
OnlyOutputWritten ==
  [][\A f \in Arguments : disk'[f] # disk[f] =>
       \/ f = args.output /\ loaded # Missing
       \/ f = args.input /\ replaced' # replaced]_vars
=============================================================================
