-------------------------------- MODULE Load --------------------------------
(***************************************************************************)
(* The tables TranslatorImpl::Load builds before anything is written, each *)
(* with what is written from it: the names of symbols, the files and rows  *)
(* of the line table, and the relocations.  None of the three reads the    *)
(* tables of another, so that a run has one part, and the variables of the *)
(* others stay.                                                            *)
(***************************************************************************)
EXTENDS SymbolNames

CONSTANTS
  Parts,                 (* A subset of {"names", "lines", "relocations"}. *)
  NoPath, Programs,      (* See LineTable.                                 *)
  Formats, Sections, RelocSegments, Slots, Words, RelocSymbols, Addends,
  Narrow, Wide,          (* See Relocations.                               *)
  MaxEntries             (* Bound: the number of relocation entries.       *)

VARIABLES part,
  units, cu, files, rows, next_global_file_idx, globalFilePaths, localToGlobal,
  addrToLineMap, cv_files,
  format, word, entries, relocs, emitted, phase

line_vars  == <<units, cu, files, rows, next_global_file_idx, globalFilePaths, localToGlobal,
                addrToLineMap, cv_files>>
reloc_vars == <<format, word, entries, relocs, emitted, phase>>
all_vars   == <<part, vars, line_vars, reloc_vars>>

Lines == INSTANCE LineTable
Relocs == INSTANCE Relocations WITH Segments <- RelocSegments, Symbols <- RelocSymbols

ASSUME ProgramsAssumption    == \A p \in Programs : Lines!ProgramType(p)
ASSUME RelocationsAssumption == Relocs!Linked
ASSUME MaxEntriesAssumption  == MaxEntries \in Nat

NoSymbols ==
  /\ symbols = << >> /\ globals = << >> /\ pass = "done" /\ next = 1
  /\ elfFunctions = << >> /\ funcToIdMap = << >> /\ symbolNames = << >>
  /\ defs = << >> /\ aliases = << >> /\ data = << >>

NoLines ==
  /\ units = << >> /\ cu = 1 /\ files = 0 /\ rows = 0 /\ next_global_file_idx = 1
  /\ globalFilePaths = << >> /\ localToGlobal = << >> /\ addrToLineMap = << >>
  /\ cv_files = << >>

NoRelocs ==
  /\ format = "" /\ word = << >> /\ entries = << >> /\ relocs = << >>
  /\ emitted = << >> /\ phase = ""

LoadInit ==
  /\ part \in Parts
  /\ \/ part = "names"       /\ Init /\ NoLines /\ NoRelocs
     \/ part = "lines"       /\ Lines!Init /\ NoSymbols /\ NoRelocs
     \/ part = "relocations" /\ Relocs!Init /\ NoSymbols /\ NoLines

NamesStep == part = "names" /\ Next /\ UNCHANGED <<part, line_vars, reloc_vars>>
LinesStep == part = "lines" /\ Lines!Next /\ UNCHANGED <<part, vars, reloc_vars>>
RelocStep == part = "relocations" /\ Relocs!Next /\ UNCHANGED <<part, vars, line_vars>>

LoadNext == NamesStep \/ LinesStep \/ RelocStep
LoadSpec == LoadInit /\ [][LoadNext]_all_vars

(* The states have the shape the code's declarations give them; numbers of *)
(* files are below the next one, addends and operands are 64 bits wide.    *)
TypesOK ==
  /\ TypeOK
  /\ part = "lines"       => Lines!TypeOK
  /\ part = "relocations" => Relocs!TypeOK

(* Every address with a row shows the file and line of the last row there, *)
(* whichever unit had it and however that numbers its files.               *)
RowsFaithful == part = "lines" => Lines!RowsFaithful

(* The assembler reads the path of every file that a row has, and no file  *)
(* is given twice, however the units spell it.                             *)
FilesReadBack == part = "lines" => Lines!FilesReadBack

(* A pointer the ELF loader would have set to an address of the image or   *)
(* of an import holds just that in the PE image, and a word that no loader *)
(* would touch is left as bytes.                                           *)
WordsAsLoaded == part = "relocations" => Relocs!WordsAsLoaded

(* "Triggers symbolic dynamic reloc pointing to defined symbol" says       *)
(* tests/data/relocs_elf.c of global_ptr, and Given_Relocations.cpp:       *)
(* "global_ptr points to global_var (offset 16 in seg_D)".                 *)
DataPointersRelocated == part = "relocations" => Relocs!DataPointersRelocated
=============================================================================
