------------------------------ MODULE MCLoad ------------------------------
(***************************************************************************)
(* Inputs of TranslatorImpl::Load, for each of its three tables.           *)
(*                                                                         *)
(* "names": two segments and an address past the last of them; every table *)
(* of up to MaxSymbols symbols, and a variable or two.                     *)
(*                                                                         *)
(* "lines": a first unit of a few shapes and a second of many: up to two   *)
(* files of a UNIX path and two spellings of a Windows one, in any         *)
(* version, and up to two rows, which may name a file that is not there.   *)
(*                                                                         *)
(* "relocations": two segments, the second with two words that are         *)
(* relocated; a section with debug data at address 0 covers them both,     *)
(* behind those loaded.                                                    *)
(***************************************************************************)
EXTENDS Load

CONSTANT MaxSymbols

MCSegments == << [vaddr |-> 0, memsz |-> 2], [vaddr |-> 2, memsz |-> 1] >>
Addresses  == {0, 2, 3}

(* A variable at any of the addresses, and three that have no record.      *)
MCGlobals ==
  { << [name |-> n, addr |-> a] >> : n \in Names, a \in Addresses \cup {1} }
    \cup { << [name |-> NoName, addr |-> 0], [name |-> n, addr |-> NoAddress] >> : n \in Names }

Defined(names, global) ==
  [name: names, addr: Addresses, func: BOOLEAN, global: {global}, undefined: {FALSE}]
Undefined == [name: Names, addr: {0}, func: {TRUE}, global: {TRUE}, undefined: {TRUE}]
Locals    == Defined(Names \cup {NoName}, FALSE)
External  == Defined(Names, TRUE) \cup Undefined

(* Local symbols first.                                                    *)
TablesOf[n \in 0 .. MaxSymbols] ==
  IF n = 0 THEN { << >> }
  ELSE { Append(t, s) : t \in { u \in TablesOf[n - 1] : \A i \in DOMAIN u : ~ u[i].global },
                        s \in Locals }
       \cup { Append(t, s) : t \in TablesOf[n - 1], s \in External }

MCTables == UNION { TablesOf[n] : n \in 0 .. MaxSymbols }

-----------------------------------------------------------------------------
Unix     == << "/", "a" >>
Windows  == << "c", "/", "d" >>
Windows2 == << "c", "\\", "d" >>
Paths    == {Unix, Windows, Windows2}

RowAt(a, f, l, e) == [addr |-> a, file |-> f, line |-> l, end |-> e]
LineRows(l) == { RowAt(a, f, l, FALSE) : a \in {0, 1}, f \in 0 .. 2 }
                 \cup { RowAt(a, 1, l, TRUE) : a \in {0, 1} }
Units(fs, rs) == [table: {TRUE}, version: {4, 5}, files: fs, rows: rs]

First == Units({ << >>, <<Unix>>, <<Windows, Unix>> }, { << >>, <<RowAt(0, 1, 3, FALSE)>> })
           \cup { [table |-> FALSE, version |-> 4, files |-> << >>, rows |-> << >>] }
Second ==
  Units({ << >> } \cup { <<p>> : p \in Paths } \cup { <<p, q>> : p \in Paths \cup {NoPath},
                                                          q \in Paths },
        { << >> } \cup { <<r>> : r \in LineRows(1) }
                  \cup { <<RowAt(0, 1, 1, FALSE), r>> : r \in LineRows(2) })

MCPrograms == { <<u, v>> : u \in First, v \in Second }

-----------------------------------------------------------------------------
MCFormats  == {"RELA", "REL"}
MCSections == << [addr |-> 8,  size |-> 8,  image |-> TRUE],
                 [addr |-> 32, size |-> 16, image |-> TRUE],
                 [addr |-> 0,  size |-> 64, image |-> FALSE] >>
MCRelocSegments == << [vaddr |-> 8, memsz |-> 8], [vaddr |-> 32, memsz |-> 24] >>
MCSlots    == {32, 40}
MCWords    == {0, 12, 56}
MCAddends  == {-4, 0, 8, 56}
MCRelocSymbols == { [name |-> "global_var",    defined |-> TRUE,  value |-> 40],
                    [name |-> "end",           defined |-> TRUE,  value |-> 56],
                    [name |-> "external_func", defined |-> FALSE, value |-> 0] }
=============================================================================
