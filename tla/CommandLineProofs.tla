-------------------------- MODULE CommandLineProofs --------------------------
(***************************************************************************)
(* Proofs about CommandLine, for every set of names and of input files and *)
(* every number of arguments.                                              *)
(***************************************************************************)
EXTENDS CommandLine, FiniteSetTheorems, SequenceTheorems, TLAPS

Before == {"parse", "class", "load"}
Known  == Inputs \cup {Missing}
Files  == Known \cup { Assembly(f, whole) : f \in Known, whole \in BOOLEAN }

(* The state has the shape the code's declarations give it; before the     *)
(* input is loaded, all files are as someone else left them, and then it is*)
(* an ELF file.                                                            *)
TypeOK ==
  /\ argv \in Seq(Arguments)
  /\ i \in 1 .. Len(argv) + 1
  /\ args \in [input: Names, output: Arguments, help: BOOLEAN, column: BOOLEAN]
  /\ phase \in Before \cup {"open", "translate", "done"}
  /\ disk \in [Arguments -> Files]
  /\ phase \in Before => disk \in [Arguments -> Known]
  /\ loaded \in Known
  /\ phase \in {"open", "translate"} => loaded \in Elf
  /\ replaced \in BOOLEAN
  /\ exit \in {0, 1, Running, Killed}

(* An input is loaded between "load" and "open", for good.                 *)
LoadedInv ==
  /\ phase \in Before => loaded = Missing
  /\ phase \in {"open", "translate"} => loaded # Missing
  /\ LoadedIsSupported

(* Before Run the options are those of an empty command line.              *)
LEMMA InitTypes == Init => TypeOK
  <1> SUFFICES ASSUME Init PROVE TypeOK
    OBVIOUS
  <1>1. PICK n \in 0 .. MaxArgs : argv \in [1 .. n -> Arguments]
    BY DEF Init
  <1>2. argv \in Seq(Arguments) /\ Len(argv) \in Nat
    <2>1. n \in Nat
      BY MaxArgsAssumption
    <2>2. argv \in Seq(Arguments)
      BY <1>1, <2>1, SeqDef
    <2>3. QED
      BY <2>2, LenProperties
  <1>3. Names \subseteq Arguments
    BY DEF Arguments
  <1>4. disk \in [Arguments -> Known]
    BY DEF Init, Known
  <1>5. disk \in [Arguments -> Files]
    BY <1>4 DEF Files
  <1>6. args \in [input: Names, output: Arguments, help: BOOLEAN, column: BOOLEAN]
    BY <1>3, EmptyAssumption DEF Init
  <1>7. i \in 1 .. Len(argv) + 1 /\ phase = "parse" /\ loaded = Missing
    BY <1>2 DEF Init
  <1>8. QED
    BY <1>2, <1>4, <1>5, <1>6, <1>7 DEF Init, TypeOK, Before, Known

(* Every statement of Parse and Run, and the other process, keeps the      *)
(* types.                                                                  *)
LEMMA TypeStep == TypeOK /\ [Next]_vars => TypeOK'
  <1> SUFFICES ASSUME TypeOK, [Next]_vars PROVE TypeOK'
    OBVIOUS
  <1>0. /\ Len(argv) \in Nat /\ \A j \in 1 .. Len(argv) : argv[j] \in Arguments
        /\ Names \subseteq Arguments /\ args.input \in Arguments
        /\ args.output \in Arguments /\ Known \subseteq Files
    BY DEF TypeOK, Arguments, Files
  <1>1. CASE Help
    BY <1>1 DEF Help, Exit, TypeOK, Before
  <1>2. CASE ColumnFlag
    <2>1. i' = i + 1 /\ i <= Len(argv)
      BY <1>2 DEF ColumnFlag, Take, Parsing
    <2>2. args' \in [input: Names, output: Arguments, help: BOOLEAN, column: BOOLEAN]
      BY <1>2 DEF ColumnFlag, Take, TypeOK
    <2>3. QED
      BY <1>0, <1>2, <2>1, <2>2 DEF ColumnFlag, Take, TypeOK
  <1>3. CASE Output
    <2>1. i' = i + 2 /\ i < Len(argv) /\ i + 1 \in 1 .. Len(argv)
      BY <1>0, <1>3 DEF Output, Take, Parsing, TypeOK
    <2>2. args' \in [input: Names, output: Arguments, help: BOOLEAN, column: BOOLEAN]
      BY <1>0, <1>3, <2>1 DEF Output, Take, TypeOK
    <2>3. QED
      BY <1>0, <1>3, <2>1, <2>2 DEF Output, Take, TypeOK
  <1>4. CASE Input
    <2>1. i' = i + 1 /\ i <= Len(argv)
      BY <1>4 DEF Input, Take, Parsing
    <2>2. args' \in [input: Names, output: Arguments, help: BOOLEAN, column: BOOLEAN]
      BY <1>4 DEF Input, Take, TypeOK
    <2>3. QED
      BY <1>0, <1>4, <2>1, <2>2 DEF Input, Take, TypeOK
  <1>5. CASE Usage \/ LoadFails \/ OpenFails
    BY <1>5 DEF Usage, LoadFails, OpenFails, Exit, TypeOK, Before
  <1>6. CASE EndOfArguments \/ ReadClass
    BY <1>6 DEF EndOfArguments, ReadClass, Parsed, TypeOK, Before
  <1>7. CASE ReplaceInput
    <2>1. PICK file \in Inputs : disk' = [disk EXCEPT ![args.input] = file]
      BY <1>7 DEF ReplaceInput
    <2>2. disk \in [Arguments -> Known] /\ file \in Known
      BY <1>7 DEF ReplaceInput, TypeOK, Before, Known
    <2>3. disk' \in [Arguments -> Known]
      BY <2>1, <2>2
    <2>4. disk' \in [Arguments -> Files]
      BY <1>0, <2>3
    <2>5. QED
      BY <1>7, <2>3, <2>4 DEF ReplaceInput, TypeOK
  <1>8. CASE Load
    <2>1. File \in Known
      BY <1>0, <1>8 DEF Load, File, TypeOK, Before
    <2>2. File.kind = "elf"
      BY <1>8 DEF Load, Loadable
    <2>3. File # Missing /\ File # Text
      BY <2>2 DEF Missing, Text
    <2>4. File \in Elf
      BY <2>1, <2>3, InputsAssumption DEF Known
    <2>5. loaded' = File /\ phase' = "open"
      BY <1>8 DEF Load
    <2>6. loaded' \in Known /\ loaded' \in Elf
      BY <2>1, <2>4, <2>5
    <2>7. QED
      BY <1>8, <2>5, <2>6 DEF Load, TypeOK, Before
  <1>9. CASE Open
    <2>1. \A whole \in BOOLEAN : Assembly(loaded, whole) \in Files
      BY DEF TypeOK, Files
    <2>2. disk' \in [Arguments -> Files]
      BY <1>9, <2>1 DEF Open, TypeOK
    <2>3. QED
      BY <1>9, <2>2 DEF Open, TypeOK, Before
  <1>10. CASE Translate \/ WriteFails \/ LoseInput
    <2>1. loaded.whole \in BOOLEAN
      BY <1>10 DEF Translate, WriteFails, LoseInput, TypeOK, Elf
    <2>2. PICK whole \in BOOLEAN, code \in {0, 1, Killed} : End(code, whole)
      BY <1>10, <2>1 DEF Translate, WriteFails, LoseInput
    <2>3. Assembly(loaded, whole) \in Files
      BY DEF TypeOK, Files
    <2>4. disk' \in [Arguments -> Files]
      BY <2>2, <2>3 DEF End, TypeOK
    <2>5. QED
      BY <2>2, <2>4 DEF End, TypeOK, Before
  <1>11. CASE UNCHANGED vars
    BY <1>11 DEF vars, TypeOK
  <1>12. QED
    BY <1>1, <1>2, <1>3, <1>4, <1>5, <1>6, <1>7, <1>8, <1>9, <1>10, <1>11 DEF Next

(* The state has the shape the code's declarations give it.                *)
THEOREM TypeCorrect == Spec => []TypeOK
  BY InitTypes, TypeStep, PTL DEF Spec

(* A statement that goes on does so only with input that it accepted.      *)
LEMMA LoadedStep == TypeOK /\ LoadedInv /\ [Next]_vars => LoadedInv'
  <1> SUFFICES ASSUME TypeOK, LoadedInv, [Next]_vars PROVE LoadedInv'
    OBVIOUS
  <1>1. CASE Help \/ Usage \/ LoadFails \/ OpenFails
    BY <1>1 DEF Help, Usage, LoadFails, OpenFails, Exit, LoadedInv, LoadedIsSupported, Before
  <1>2. CASE ColumnFlag \/ Output \/ Input
    BY <1>2 DEF ColumnFlag, Output, Input, Take, LoadedInv, LoadedIsSupported
  <1>3. CASE EndOfArguments \/ ReadClass
    BY <1>3 DEF EndOfArguments, ReadClass, Parsed, LoadedInv, LoadedIsSupported, Before
  <1>4. CASE ReplaceInput \/ Open
    BY <1>4 DEF ReplaceInput, Open, LoadedInv, LoadedIsSupported, Before
  <1>5. CASE Load
    <2>1. /\ loaded' = File /\ phase' = "open" /\ elft' = elft
          /\ File.kind = "elf" /\ File.class = elft /\ File.little
          /\ HasBackend(elft, Arch(File))
      BY <1>5 DEF Load, Loadable
    <2>2. File # Missing
      BY <2>1 DEF Missing
    <2>3. Arch(File) = File.machine
      BY <2>1 DEF Arch
    <2>4. QED
      BY <2>1, <2>2, <2>3 DEF LoadedInv, LoadedIsSupported, HasBackend, Before
  <1>6. CASE Translate \/ WriteFails \/ LoseInput
    BY <1>6 DEF Translate, WriteFails, LoseInput, End, LoadedInv, LoadedIsSupported, Before
  <1>7. CASE UNCHANGED vars
    BY <1>7 DEF vars, LoadedInv, LoadedIsSupported
  <1>8. QED
    BY <1>1, <1>2, <1>3, <1>4, <1>5, <1>6, <1>7 DEF Next

(* Whatever the arguments and the files: from Load on, what is in memory   *)
(* is supported input as it was read, and an output that was opened was    *)
(* opened with it.                                                         *)
THEOREM LoadedOnce == Spec => []LoadedInv
  <1>1. Init => LoadedInv
    BY DEF Init, LoadedInv, LoadedIsSupported, Before
  <1>2. QED
    BY <1>1, LoadedStep, TypeCorrect, PTL DEF Spec

(* What TranslatorImpl translates is a file that its class and its backend *)
(* are for, whoever writes the input between the two reads.                *)
THEOREM Supported == Spec => []LoadedIsSupported
  <1>1. LoadedInv => LoadedIsSupported
    BY DEF LoadedInv
  <1>2. QED
    BY <1>1, LoadedOnce, PTL

(* Whatever the arguments name, the program changes no file but the output *)
(* and that one only once the input is loaded.                             *)
THEOREM OutputOnly == Spec => OnlyOutputWritten
  <1> DEFINE Written == \A f \in Arguments : disk'[f] # disk[f] =>
                          \/ f = args.output /\ loaded # Missing
                          \/ f = args.input /\ replaced' # replaced
  <1>1. TypeOK /\ LoadedInv /\ [Next]_vars => [Written]_vars
    <2> SUFFICES ASSUME TypeOK, LoadedInv, Next PROVE Written
      OBVIOUS
    <2>0. DOMAIN disk = Arguments
      BY DEF TypeOK
    <2>1. CASE disk' = disk
      BY <2>1
    <2>2. CASE ReplaceInput
      BY <2>0, <2>2 DEF ReplaceInput
    <2>3. CASE Open \/ Translate \/ WriteFails \/ LoseInput
      <3>1. loaded # Missing
        BY <2>3 DEF Open, Translate, WriteFails, LoseInput, LoadedInv
      <3>2. \E written : disk' = [disk EXCEPT ![args.output] = written]
        BY <2>3 DEF Open, Translate, WriteFails, LoseInput, End
      <3>3. QED
        BY <2>0, <3>1, <3>2
    <2>4. QED
      BY <2>1, <2>2, <2>3
      DEF Next, Help, ColumnFlag, Output, Input, Usage, EndOfArguments, ReadClass, Load,
          LoadFails, OpenFails, Take, Exit
  <1>2. QED
    BY <1>1, TypeCorrect, LoadedOnce, PTL DEF Spec, OnlyOutputWritten

-----------------------------------------------------------------------------
(* What the first n arguments are: the values among them, and those of S   *)
(* that are none.                                                          *)
Values(n)   == { j \in 1 .. n : IsValue(j) }
Taken(S, n) == { j \in 1 .. n : ~ IsValue(j) /\ argv[j] \in S }

Inputful == Names \ {Empty}
Refused  == HelpFlags \cup Unknown

(* The parser stands behind whole options, and has made of the arguments   *)
(* before i what they say.                                                 *)
ParsedInv ==
  phase \in {"parse", "class"} =>
    /\ ~ IsValue(i)
    /\ args.output = LastOf(Values(i - 1), Empty)
    /\ args.column <=> LastOf(Taken(ColumnFlags, i - 1), "") = "-gcolumn-info"
    /\ args.input = Empty => Taken(Inputful, i - 1) = {}
    /\ args.input # Empty =>
         \E k \in 1 .. i - 1 : Taken(Inputful, i - 1) = {k} /\ argv[k] = args.input
    /\ Taken(Refused, i - 1) = {}
    /\ phase = "class" => i = Len(argv) + 1 /\ args.input # Empty

(* The largest index is the one CHOOSE finds.                              *)
LEMMA LastMax ==
  ASSUME NEW S \in SUBSET Int, NEW m \in S, \A k \in S : k <= m, NEW default
  PROVE  LastOf(S, default) = argv[m]
  <1>1. \A j \in S : (\A k \in S : k <= j) => j = m
    OBVIOUS
  <1>2. (CHOOSE j \in S : \A k \in S : k <= j) = m
    BY <1>1
  <1>3. QED
    BY <1>2 DEF LastOf

(* A run of -o that is one longer makes a value of what was none.          *)
LEMMA Alternate ==
  ASSUME NEW j \in Nat \ {0}
  PROVE  IsValue(j + 1) <=> argv[j] = "-o" /\ ~ IsValue(j)
  <1> DEFINE Dashes(n) == { k \in 1 .. n - 1 : \A l \in k .. n - 1 : argv[l] = "-o" }
  <1>0. \A n : IsValue(n) <=> Cardinality(Dashes(n)) % 2 = 1
    BY DEF IsValue
  <1>1. IsFiniteSet(Dashes(j)) /\ Cardinality(Dashes(j)) \in Nat
    <2>1. IsFiniteSet(1 .. j - 1) /\ Dashes(j) \subseteq 1 .. j - 1
      BY FS_Interval
    <2> HIDE DEF Dashes
    <2>2. IsFiniteSet(Dashes(j))
      BY <2>1, FS_Subset
    <2>3. QED
      BY <2>2, FS_CardinalityType
  <1>2. CASE argv[j] = "-o"
    <2>1. \A k : k \in Dashes(j + 1) <=> k \in Dashes(j) \/ k = j
      <3>1. ASSUME NEW k \in 1 .. j - 1 PROVE k \in Dashes(j + 1) <=> k \in Dashes(j)
        <4>1. k .. (j + 1) - 1 = (k .. j - 1) \cup {j}
          BY <3>1
        <4>2. QED
          BY <1>2, <3>1, <4>1
      <3>2. j \in Dashes(j + 1)
        BY <1>2
      <3>3. QED
        BY <3>1, <3>2
    <2>2. Dashes(j + 1) = Dashes(j) \cup {j} /\ j \notin Dashes(j)
      BY <2>1
    <2> HIDE DEF Dashes
    <2>3. Cardinality(Dashes(j + 1)) = Cardinality(Dashes(j)) + 1
      BY <1>1, <2>2, FS_AddElement
    <2>4. QED
      BY <1>0, <1>1, <1>2, <2>3
  <1>3. CASE argv[j] # "-o"
    <2>1. Dashes(j + 1) = {}
      BY <1>3
    <2> HIDE DEF Dashes
    <2>2. Cardinality(Dashes(j + 1)) = 0
      BY <2>1, FS_EmptySet
    <2>3. QED
      BY <1>0, <1>3, <2>2
  <1>4. QED
    BY <1>2, <1>3

(* The first argument is nobody's value: no option stands before it.       *)
LEMMA NoValueFirst == ~ IsValue(1)
  <1>1. { k \in 1 .. 1 - 1 : \A n \in k .. 1 - 1 : argv[n] = "-o" } = {}
    OBVIOUS
  <1>2. QED
    BY <1>1, FS_EmptySet DEF IsValue

(* An argument that is an option or a name by itself is taken for what it  *)
(* is.                                                                     *)
LEMMA TakeOne ==
  ASSUME NEW n \in Nat \ {0}, ~ IsValue(n), argv[n] # "-o"
  PROVE  /\ ~ IsValue(n + 1)
         /\ Values(n) = Values(n - 1)
         /\ \A S : Taken(S, n) = Taken(S, n - 1) \cup IF argv[n] \in S THEN {n} ELSE {}
  <1>1. ~ IsValue(n + 1)
    BY Alternate
  <1>2. 1 .. n = (1 .. n - 1) \cup {n}
    OBVIOUS
  <1>3. QED
    BY <1>1, <1>2 DEF Values, Taken

(* A -o makes a value of the argument that follows it, and of that only.   *)
LEMMA TakeTwo ==
  ASSUME NEW n \in Nat \ {0}, ~ IsValue(n), argv[n] = "-o"
  PROVE  /\ ~ IsValue(n + 2)
         /\ Values(n + 1) = Values(n - 1) \cup {n + 1}
         /\ \A S : "-o" \notin S => Taken(S, n + 1) = Taken(S, n - 1)
  <1>1. IsValue(n + 1)
    BY Alternate
  <1>2. IsValue((n + 1) + 1) <=> argv[n + 1] = "-o" /\ ~ IsValue(n + 1)
    BY Alternate
  <1>3. (n + 1) + 1 = n + 2
    OBVIOUS
  <1>4. ~ IsValue(n + 2)
    BY <1>1, <1>2, <1>3
  <1>5. 1 .. n + 1 = (1 .. n - 1) \cup {n, n + 1}
    OBVIOUS
  <1>6. QED
    BY <1>1, <1>4, <1>5 DEF Values, Taken

(* When the last argument is a value, it is the last value.                *)
LEMMA LastTaken ==
  ASSUME NEW n \in Nat, NEW S, NEW default
  PROVE  /\ n \in Values(n) => LastOf(Values(n), default) = argv[n]
         /\ n \in Taken(S, n) => LastOf(Taken(S, n), default) = argv[n]
  <1>1. Values(n) \in SUBSET Int /\ \A k \in Values(n) : k <= n
    BY DEF Values
  <1>2. Taken(S, n) \in SUBSET Int /\ \A k \in Taken(S, n) : k <= n
    BY DEF Taken
  <1>3. QED
    BY <1>1, <1>2, LastMax

(* The options are words of their own.                                     *)
LEMMA Words ==
  /\ "-o" \notin Inputful /\ "-o" \notin Refused /\ "-o" \notin ColumnFlags
  /\ Inputful \cap ColumnFlags = {} /\ Refused \cap ColumnFlags = {}
  /\ Inputful \cap Refused = {} /\ Names \cap (ColumnFlags \cup Refused \cup {"-o"}) = {}
  <1>1. "-o" \notin HelpFlags /\ "-o" \notin ColumnFlags /\ HelpFlags \cap ColumnFlags = {}
    BY DEF HelpFlags, ColumnFlags
  <1>2. QED
    BY <1>1, ArgumentsAssumption DEF Inputful, Refused

(* One more argument read keeps what has been parsed the meaning of those  *)
(* before.                                                                 *)
LEMMA ParsedStep == TypeOK /\ ParsedInv /\ [Next]_vars => ParsedInv'
  <1> SUFFICES ASSUME TypeOK, ParsedInv, [Next]_vars, phase' \in {"parse", "class"}
               PROVE  ParsedInv'
    BY DEF ParsedInv
  <1>0. i \in Nat \ {0} /\ Len(argv) \in Nat /\ Empty \in Names
    BY EmptyAssumption DEF TypeOK
  <1>1. /\ argv' = argv
        /\ \A j : IsValue(j)' = IsValue(j)
        /\ \A n : Values(n)' = Values(n)
        /\ \A S, n : Taken(S, n)' = Taken(S, n)
        /\ \A S, default : LastOf(S, default)' = LastOf(S, default)
    <2>1. argv' = argv
      BY DEF Next, vars, Help, ColumnFlag, Output, Input, Usage, EndOfArguments, ReadClass,
             ReplaceInput, Load, LoadFails, OpenFails, Open, Translate, WriteFails, LoseInput,
             Take, Exit, End
    <2>2. QED
      BY <2>1 DEF IsValue, Values, Taken, LastOf
  <1>2. CASE ColumnFlag
    <2>1. /\ phase = "parse" /\ phase' = "parse" /\ argv[i] \in ColumnFlags /\ i' = i + 1
          /\ args' = [args EXCEPT !.column = argv[i] = "-gcolumn-info"]
      BY <1>2 DEF ColumnFlag, Take, Parsing, Arg
    <2>2. argv[i] # "-o" /\ argv[i] \notin Inputful /\ argv[i] \notin Refused
      BY <2>1, Words
    <2>3. /\ ~ IsValue(i + 1) /\ Values(i) = Values(i - 1)
          /\ Taken(Inputful, i) = Taken(Inputful, i - 1)
          /\ Taken(Refused, i) = Taken(Refused, i - 1)
          /\ i \in Taken(ColumnFlags, i)
      BY <1>0, <2>1, <2>2, TakeOne DEF ParsedInv
    <2>4. LastOf(Taken(ColumnFlags, i), "") = argv[i]
      BY <1>0, <2>3, LastTaken
    <2>5. /\ args'.column <=> argv[i] = "-gcolumn-info"
          /\ args'.input = args.input /\ args'.output = args.output
      BY <2>1 DEF TypeOK
    <2>6. i' - 1 = i /\ \A k \in 1 .. i - 1 : k \in 1 .. i
      BY <1>0, <2>1
    <2>7. QED
      BY <1>1, <2>1, <2>3, <2>4, <2>5, <2>6 DEF ParsedInv
  <1>3. CASE Output
    <2>1. /\ phase = "parse" /\ phase' = "parse" /\ argv[i] = "-o" /\ i' = i + 2
          /\ args' = [args EXCEPT !.output = argv[i + 1]]
      BY <1>3 DEF Output, Take, Parsing, Arg
    <2>2. /\ ~ IsValue(i + 2) /\ i + 1 \in Values(i + 1)
          /\ Taken(Inputful, i + 1) = Taken(Inputful, i - 1)
          /\ Taken(Refused, i + 1) = Taken(Refused, i - 1)
          /\ Taken(ColumnFlags, i + 1) = Taken(ColumnFlags, i - 1)
      BY <1>0, <2>1, Words, TakeTwo DEF ParsedInv
    <2>3. LastOf(Values(i + 1), Empty) = argv[i + 1]
      BY <1>0, <2>2, LastTaken
    <2>4. /\ args'.output = argv[i + 1]
          /\ args'.input = args.input /\ args'.column = args.column
      BY <2>1 DEF TypeOK
    <2>5. i' - 1 = i + 1 /\ \A k \in 1 .. i - 1 : k \in 1 .. i + 1
      BY <1>0, <2>1
    <2>6. QED
      BY <1>1, <2>1, <2>2, <2>3, <2>4, <2>5 DEF ParsedInv
  <1>4. CASE Input
    <2>1. /\ phase = "parse" /\ phase' = "parse" /\ argv[i] \in Names /\ i' = i + 1
          /\ args.input = Empty /\ args' = [args EXCEPT !.input = argv[i]]
      BY <1>4 DEF Input, Take, Parsing, Arg
    <2>2. argv[i] # "-o" /\ argv[i] \notin ColumnFlags /\ argv[i] \notin Refused
      BY <2>1, Words
    <2>3. /\ ~ IsValue(i + 1) /\ Values(i) = Values(i - 1)
          /\ Taken(ColumnFlags, i) = Taken(ColumnFlags, i - 1)
          /\ Taken(Refused, i) = Taken(Refused, i - 1)
          /\ Taken(Inputful, i) = IF argv[i] = Empty THEN {} ELSE {i}
      <3>1. ~ IsValue(i) /\ Taken(Inputful, i - 1) = {}
        BY <2>1 DEF ParsedInv
      <3>2. argv[i] \in Inputful <=> argv[i] # Empty
        BY <2>1 DEF Inputful
      <3>3. \A S : Taken(S, i) = Taken(S, i - 1) \cup IF argv[i] \in S THEN {i} ELSE {}
        BY <1>0, <2>2, <3>1, TakeOne
      <3>4. ~ IsValue(i + 1) /\ Values(i) = Values(i - 1)
        BY <1>0, <2>2, <3>1, TakeOne
      <3>5. QED
        BY <2>2, <3>1, <3>2, <3>3, <3>4
    <2>4. /\ args'.input = argv[i]
          /\ args'.output = args.output /\ args'.column = args.column
      BY <2>1 DEF TypeOK
    <2>5. i' - 1 = i /\ i \in 1 .. i
      BY <1>0, <2>1
    <2>6. QED
      BY <1>1, <2>1, <2>3, <2>4, <2>5 DEF ParsedInv
  <1>5. CASE EndOfArguments
    <2>1. i' = i /\ args' = args /\ args.input # Empty /\ phase = "parse" /\ i > Len(argv)
      BY <1>5 DEF EndOfArguments, Parsed
    <2>2. i = Len(argv) + 1
      BY <1>0, <2>1 DEF TypeOK
    <2>3. QED
      BY <1>1, <2>1, <2>2 DEF ParsedInv
  <1>6. CASE UNCHANGED vars
    BY <1>1, <1>6 DEF vars, ParsedInv
  <1>7. CASE Help \/ Usage \/ LoadFails \/ OpenFails \/ ReadClass
    BY <1>7 DEF Help, Usage, LoadFails, OpenFails, ReadClass, Exit
  <1>8. CASE ReplaceInput \/ Load \/ Open \/ Translate \/ WriteFails \/ LoseInput
    BY <1>8 DEF ReplaceInput, Load, Open, Translate, WriteFails, LoseInput, End
  <1>9. QED
    BY <1>2, <1>3, <1>4, <1>5, <1>6, <1>7, <1>8 DEF Next

(* What the parser hands to Repeat::Run is what the arguments say, read as *)
(* a whole, however many they are.                                         *)
THEOREM Parse == Spec => []ParsedAsWritten
  <1>1. Init => ParsedInv
    <2> SUFFICES ASSUME Init PROVE ParsedInv
      OBVIOUS
    <2>1. /\ i = 1 /\ args.input = Empty /\ args.output = Empty /\ args.column = FALSE
          /\ phase = "parse"
      BY DEF Init
    <2>2. Values(0) = {} /\ \A S : Taken(S, 0) = {}
      BY DEF Values, Taken
    <2>3. QED
      BY <2>1, <2>2, NoValueFirst DEF ParsedInv, LastOf
  <1>2. TypeOK /\ ParsedInv => ParsedAsWritten
    <2> SUFFICES ASSUME TypeOK, ParsedInv, phase = "class" PROVE ParsedAsWritten
      BY DEF ParsedAsWritten
    <2>1. i - 1 = Len(argv) /\ DOMAIN argv = 1 .. Len(argv) /\ args.input # Empty
      <3>1. Len(argv) \in Nat /\ DOMAIN argv = 1 .. Len(argv)
        BY LenProperties DEF TypeOK
      <3>2. i = Len(argv) + 1 /\ args.input # Empty
        BY DEF ParsedInv
      <3>3. QED
        BY <3>1, <3>2
    <2> DEFINE At(S) == { j \in DOMAIN argv : ~ IsValue(j) /\ argv[j] \in S }
    <2>2. /\ { j \in DOMAIN argv : IsValue(j) } = Values(i - 1)
          /\ \A S : At(S) = Taken(S, i - 1)
      BY <2>1 DEF Values, Taken
    <2>3. PICK k \in 1 .. i - 1 : Taken(Inputful, i - 1) = {k} /\ argv[k] = args.input
      BY <2>1 DEF ParsedInv
    <2>4. /\ Cardinality(Taken(Inputful, i - 1)) = 1
          /\ args.input = LastOf(Taken(Inputful, i - 1), Empty)
      <3>1. Cardinality({k}) = 1
        BY FS_Singleton
      <3>2. LastOf({k}, Empty) = argv[k]
        BY LastMax
      <3>3. QED
        BY <2>3, <3>1, <3>2
    <2>5. /\ args.output = LastOf({ j \in DOMAIN argv : IsValue(j) }, Empty)
          /\ args.column <=> LastOf(At(ColumnFlags), "") = "-gcolumn-info"
          /\ Cardinality(At(Inputful)) = 1 /\ args.input = LastOf(At(Inputful), Empty)
          /\ At(Refused) = {}
      BY <2>2, <2>4 DEF ParsedInv
    <2>6. QED
      BY <2>5 DEF ParsedAsWritten, Inputful, Refused
  <1>3. QED
    BY <1>1, <1>2, ParsedStep, TypeCorrect, PTL DEF Spec
=============================================================================
