----------------------------- MODULE LineTable -----------------------------
(***************************************************************************)
(* LineTranslator::PrepareLineInfo: the line tables of the compile units,  *)
(* each with file numbers of its own, become one table of files and one    *)
(* map from addresses to source lines, one file or row at a time.  Then    *)
(* EmitDebugFiles gives the assembler the table of files.                  *)
(***************************************************************************)
EXTENDS Integers, FiniteSets, SequencesExt

CONSTANTS
  NoPath,   (* What getFileNameByIndex gives for a file it cannot name.    *)
  Programs  (* Sequences of compile units; see UnitType.                   *)

(* A path is a sequence of components and separators.                      *)
Slash     == "/"
Backslash == "\\"

(* table: whether the unit has a line table.  Its files are numbered from  *)
(* 0 in version 5, from 1 before.                                          *)
UnitType(u) ==
  /\ u.table \in BOOLEAN /\ u.version \in 2 .. 5
  /\ u.files \in Seq(Seq(STRING) \cup {NoPath})
  /\ u.rows \in Seq([addr: Nat, file: Nat, line: Nat, end: BOOLEAN])

ProgramType(p) == p \in Seq(ToSet(p)) /\ \A i \in DOMAIN p : UnitType(p[i])

VARIABLES
  units,
  cu,                (* Index of the unit being read.                      *)
  files, rows,       (* How many of its files and rows have been read.     *)
  next_global_file_idx,
  globalFilePaths,   (* m_globalFilePaths: path to global number.          *)
  localToGlobal,     (* m_cuLocalToGlobalFile: unit to number to number.   *)
  addrToLineMap,     (* m_addrToLineMap: address to [file, line].          *)
  cv_files           (* .cv_file: number to the text between the quotes.   *)

vars == <<units, cu, files, rows, next_global_file_idx, globalFilePaths,
          localToGlobal, addrToLineMap, cv_files>>

Unit == units[cu]

Init ==
  /\ units \in Programs
  /\ cu = 1 /\ files = 0 /\ rows = 0
  /\ next_global_file_idx = 1
  /\ globalFilePaths = << >>
  /\ localToGlobal = [u \in DOMAIN units |-> << >>]
  /\ addrToLineMap = << >> /\ cv_files = << >>

-----------------------------------------------------------------------------
Put(f, a, v) == [b \in DOMAIN f \cup {a} |-> IF b = a THEN v ELSE f[b]]

(* The number of the first file.                                           *)
(* Faulty: files are numbered from 1 whatever the version.                 *)
FirstIsOne(u) == 1

FirstFile(u) == IF u.version >= 5 THEN 0 ELSE 1

(* A Windows path gets backslashes only.                                   *)
FinalPath(p) ==
  IF p # << >> /\ p[1] = Slash THEN p
  ELSE [i \in DOMAIN p |-> IF p[i] = Slash THEN Backslash ELSE p[i]]

ReadingFiles == cu <= Len(units) /\ Unit.table /\ files < Len(Unit.files)
ThisFile     == Unit.files[files + 1]

NewFile ==
  /\ ReadingFiles /\ ThisFile # NoPath /\ FinalPath(ThisFile) \notin DOMAIN globalFilePaths
  /\ globalFilePaths' = Put(globalFilePaths, FinalPath(ThisFile), next_global_file_idx)
  /\ localToGlobal' =
       [localToGlobal EXCEPT ![cu] = Put(@, files + FirstFile(Unit), next_global_file_idx)]
  /\ next_global_file_idx' = next_global_file_idx + 1
  /\ files' = files + 1
  /\ UNCHANGED <<units, cu, rows, addrToLineMap, cv_files>>

KnownFile ==
  /\ ReadingFiles /\ ThisFile # NoPath /\ FinalPath(ThisFile) \in DOMAIN globalFilePaths
  /\ localToGlobal' =
       [localToGlobal EXCEPT ![cu] = Put(@, files + FirstFile(Unit),
                                         globalFilePaths[FinalPath(ThisFile)])]
  /\ files' = files + 1
  /\ UNCHANGED <<units, cu, rows, next_global_file_idx, globalFilePaths, addrToLineMap, cv_files>>

NamelessFile ==
  /\ ReadingFiles /\ ThisFile = NoPath
  /\ files' = files + 1
  /\ UNCHANGED <<units, cu, rows, next_global_file_idx, globalFilePaths, localToGlobal,
                 addrToLineMap, cv_files>>

ReadingRows == cu <= Len(units) /\ Unit.table /\ ~ ReadingFiles /\ rows < Len(Unit.rows)
ThisRow     == Unit.rows[rows + 1]

(* The end of a sequence belongs to no line, nor does a row of a file that *)
(* has no number.                                                          *)
Counts(u, r) == ~ r.end /\ r.file \in DOMAIN localToGlobal[u]

ReadRow ==
  /\ ReadingRows
  /\ addrToLineMap' =
       IF Counts(cu, ThisRow)
         THEN Put(addrToLineMap, ThisRow.addr,
                  [file |-> localToGlobal[cu][ThisRow.file], line |-> ThisRow.line])
         ELSE addrToLineMap
  /\ rows' = rows + 1
  /\ UNCHANGED <<units, cu, files, next_global_file_idx, globalFilePaths, localToGlobal, cv_files>>

(* Faulty: each unit starts to number anew.                                *)
NextUnitNumbersAnew ==
  /\ cu <= Len(units) /\ ~ ReadingFiles /\ ~ ReadingRows
  /\ cu' = cu + 1 /\ files' = 0 /\ rows' = 0 /\ next_global_file_idx' = 1
  /\ UNCHANGED <<units, globalFilePaths, localToGlobal, addrToLineMap, cv_files>>

NextUnit ==
  /\ cu <= Len(units) /\ ~ ReadingFiles /\ ~ ReadingRows
  /\ cu' = cu + 1 /\ files' = 0 /\ rows' = 0
  /\ UNCHANGED <<units, next_global_file_idx, globalFilePaths, localToGlobal, addrToLineMap,
                 cv_files>>

AllRead == cu > Len(units)

(* Faulty: the path as it is.                                              *)
Verbatim(p) == p

(* A backslash is written twice.                                           *)
Escaped(p) == FlattenSeq([i \in DOMAIN p |-> IF p[i] = Backslash THEN <<Backslash, Backslash>>
                                                                 ELSE <<p[i]>>])

EmitDebugFiles ==
  /\ AllRead /\ cv_files = << >> /\ globalFilePaths # << >>
  /\ cv_files' = [n \in Range(globalFilePaths) |->
                    Escaped(CHOOSE p \in DOMAIN globalFilePaths : globalFilePaths[p] = n)]
  /\ UNCHANGED <<units, cu, files, rows, next_global_file_idx, globalFilePaths, localToGlobal,
                 addrToLineMap>>

Next == NewFile \/ KnownFile \/ NamelessFile \/ ReadRow \/ NextUnit \/ EmitDebugFiles

Spec == Init /\ [][Next]_vars

-----------------------------------------------------------------------------
(* The state has the shape the code's declarations give it; the numbers    *)
(* given out are below the next one.                                       *)
TypeOK ==
  /\ ProgramType(units)
  /\ cu \in 1 .. Len(units) + 1 /\ files \in Nat /\ rows \in Nat
  /\ next_global_file_idx \in Nat \ {0}
  /\ Range(globalFilePaths) \subseteq 1 .. next_global_file_idx - 1
  /\ DOMAIN localToGlobal = DOMAIN units
  /\ \A u \in DOMAIN units : Range(localToGlobal[u]) \subseteq 1 .. next_global_file_idx - 1
  /\ \A a \in DOMAIN addrToLineMap :
       addrToLineMap[a] \in [file: 1 .. next_global_file_idx - 1, line: Nat]

(* The text in an assembler string: a backslash stands for what follows it.*)
Unescaped(text) ==
  LET from[i \in 1 .. Len(text) + 2] ==
        IF i > Len(text) THEN << >>
        ELSE IF text[i] = Backslash /\ i < Len(text) THEN <<text[i + 1]>> \o from[i + 2]
        ELSE <<text[i]>> \o from[i + 1]
  IN  from[1]

(* The assembler reads the path of every file that a row has, and no file  *)
(* is given twice, however the units spell it.                             *)
FilesReadBack ==
  cv_files # << >> =>
    /\ \A a \in DOMAIN addrToLineMap : addrToLineMap[a].file \in DOMAIN cv_files
    /\ \A p \in DOMAIN globalFilePaths : Unescaped(cv_files[globalFilePaths[p]]) = p
    /\ IsInjective([n \in DOMAIN cv_files |-> Unescaped(cv_files[n])])

(* The path a unit's file number stands for, NoPath for none.              *)
PathOf(u, n) ==
  LET i == IF u.version >= 5 THEN n + 1 ELSE n IN
    IF i \in DOMAIN u.files THEN u.files[i] ELSE NoPath

(* Read back, the map says of an address what the last row there said: the *)
(* same path, through the numbers of another table, and the same line.     *)
Holds(u, r, a) == r.addr = a /\ ~ r.end /\ PathOf(u, r.file) # NoPath

Rows(u) == IF units[u].table THEN DOMAIN units[u].rows ELSE {}

Read  == UNION { { <<u, i>> : i \in Rows(u) } : u \in DOMAIN units }
Row(x) == units[x[1]].rows[x[2]]
AtAddress(a) == { x \in Read : Holds(units[x[1]], Row(x), a) }
LastRead(S) == CHOOSE x \in S : \A y \in S : y[1] < x[1] \/ (y[1] = x[1] /\ y[2] <= x[2])

RowsFaithful ==
  AllRead =>
    /\ DOMAIN addrToLineMap = { Row(x).addr : x \in { y \in Read : y \in AtAddress(Row(y).addr) } }
    /\ \A a \in DOMAIN addrToLineMap :
         LET x == LastRead(AtAddress(a)) IN
           /\ addrToLineMap[a].line = Row(x).line
           /\ addrToLineMap[a].file =
                globalFilePaths[FinalPath(PathOf(units[x[1]], Row(x).file))]
=============================================================================
