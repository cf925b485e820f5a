---------------------------- MODULE SymbolNames ----------------------------
(***************************************************************************)
(* What TranslatorImpl makes of the ELF symbol table: the tables of        *)
(* functions, function ids and symbol names that Load fills and the        *)
(* CodeView tables refer to, and the symbols that EmitSymbols defines:     *)
(* three passes over the same table, one symbol at a time.  Then           *)
(* TranslateGlobalVars refers to the variables of the debug information.   *)
(*                                                                         *)
(* Unreadable symbols are left out: every pass skips them.                 *)
(***************************************************************************)
EXTENDS Integers, Sequences, FiniteSets, Functions

CONSTANTS
  Names,     (* Names of symbols.                                          *)
  NoName,    (* The empty name.                                            *)
  Segments,  (* The loadable segments: records of vaddr and memsz.         *)
  Tables,    (* Symbol tables; see TableType.                              *)
  Globals    (* Sequences of variables of the debug information.           *)

(* An ELF symbol table has its local symbols first, and its undefined      *)
(* symbols have address 0.                                                 *)
Symbol == [name: Names \cup {NoName}, addr: Nat, func: BOOLEAN, global: BOOLEAN,
           undefined: BOOLEAN]

TableType(t) ==
  /\ t \in Seq(Symbol)
  /\ \A i, j \in DOMAIN t : i < j /\ t[i].global => t[j].global
  /\ \A i \in DOMAIN t : t[i].undefined => t[i].global /\ t[i].addr = 0

ASSUME SegmentsAssumption == Segments \in Seq([vaddr: Nat, memsz: Nat])
ASSUME NamesAssumption    == NoName \notin Names
ASSUME TablesAssumption   == \A t \in Tables : TableType(t)

(* Global variables by their linkage name, NoName for none, and address,   *)
(* NoAddress for those that have none.                                     *)
NoAddress == -1
GlobalVar == [name: Names \cup {NoName}, addr: Nat \cup {NoAddress}]
ASSUME GlobalsAssumption  == Globals \subseteq Seq(GlobalVar)

VARIABLES
  symbols,        (* The ELF symbol table.                                 *)
  pass,           (* The loop that runs: see Passes.                       *)
  next,           (* Index of the symbol it is at.                         *)
  elfFunctions,   (* m_elfFunctions: address to name, size left out.       *)
  funcToIdMap,
  symbolNames,    (* m_symbolNames: address to name.                       *)
  defs,           (* .def directives: names and storage classes.           *)
  aliases,        (* Definitions: names, segments (0: absolute), offsets.  *)
  globals,        (* The variables of the debug information.               *)
  data            (* S_GDATA32 and S_LDATA32: what .secrel32 refers to.    *)

vars == <<symbols, pass, next, elfFunctions, funcToIdMap, symbolNames, defs, aliases,
          globals, data>>

Passes == <<"functions", "names", "emit", "globals", "done">>

Init ==
  /\ symbols \in Tables /\ globals = << >>
  /\ pass = "functions" /\ next = 1
  /\ elfFunctions = << >> /\ funcToIdMap = << >> /\ symbolNames = << >>
  /\ defs = << >> /\ aliases = << >> /\ data = << >>

-----------------------------------------------------------------------------
Sym == symbols[next]

Put(f, a, v) == [b \in DOMAIN f \cup {a} |-> IF b = a THEN v ELSE f[b]]

(* Faulty: local functions keep their name.                                *)
PlainName(s) == <<s.name>>

(* The name in the output: local functions get their address appended.     *)
FunctionName(s) == IF s.global THEN <<s.name>> ELSE <<s.name, s.addr>>

At(p) == pass = p /\ next <= Len(symbols)

(* The end of a loop.                                                      *)
EndPass(p, q) ==
  /\ pass = p /\ next > Len(symbols)
  /\ pass' = q /\ next' = 1

CollectFunction ==
  /\ At("functions")
  /\ elfFunctions' = IF Sym.func THEN Put(elfFunctions, Sym.addr, FunctionName(Sym))
                                 ELSE elfFunctions
  /\ next' = next + 1
  /\ UNCHANGED <<symbols, pass, funcToIdMap, symbolNames, defs, aliases, globals, data>>

(* Function ids count the functions in the order of their addresses.       *)
FunctionIds == [a \in DOMAIN elfFunctions |->
                  Cardinality({ b \in DOMAIN elfFunctions : b < a })]

NumberFunctions ==
  /\ EndPass("functions", "names")
  /\ funcToIdMap' = FunctionIds
  /\ UNCHANGED <<symbols, elfFunctions, symbolNames, defs, aliases, globals, data>>

Skipped(s) == s.undefined \/ s.name = NoName

(* Faulty: the plain name, which is not the one the function is defined by.*)
NameInTablesPlain(s) == <<s.name>>

(* A local function goes by the name of the function last seen there.      *)
NameInTables(s) ==
  IF ~ s.global /\ s.func THEN elfFunctions[s.addr] ELSE <<s.name>>

NameSymbol ==
  /\ At("names")
  /\ symbolNames' = IF Skipped(Sym) THEN symbolNames
                    ELSE Put(symbolNames, Sym.addr, NameInTables(Sym))
  /\ next' = next + 1
  /\ UNCHANGED <<symbols, pass, elfFunctions, funcToIdMap, defs, aliases, globals, data>>

EndNames ==
  /\ EndPass("names", "emit")
  /\ UNCHANGED <<symbols, elfFunctions, funcToIdMap, symbolNames, defs, aliases, globals, data>>

Covers(s, addr) == addr >= s.vaddr /\ addr < s.vaddr + s.memsz

(* The first segment that has the address, 0 for none.                     *)
FindSegment(addr) ==
  LET found == { i \in DOMAIN Segments : Covers(Segments[i], addr) } IN
    IF found = {} THEN 0 ELSE CHOOSE i \in found : \A j \in found : i <= j

Alias(name, addr) ==
  LET s == FindSegment(addr) IN
    [name |-> name, seg |-> s, off |-> IF s = 0 THEN addr ELSE addr - Segments[s].vaddr]

(* Faulty: a name that has a .def gets no other.                           *)
DefOnce(name) ==
  IF \E i \in DOMAIN defs : defs[i].name = name THEN defs
  ELSE Append(defs, [name |-> name, scl |-> "external"])

DefExternal(name) == Append(defs, [name |-> name, scl |-> "external"])

EmitGlobal ==
  /\ At("emit") /\ ~ Skipped(Sym) /\ Sym.global
  /\ defs'    = DefExternal(<<Sym.name>>)
  /\ aliases' = Append(aliases, Alias(<<Sym.name>>, Sym.addr))
  /\ next' = next + 1
  /\ UNCHANGED <<symbols, pass, elfFunctions, funcToIdMap, symbolNames, globals, data>>

(* Also when the function has no name of its own.                          *)
EmitLocalFunction ==
  /\ At("emit") /\ ~ Sym.global /\ Sym.func /\ FindSegment(Sym.addr) # 0
  /\ defs'    = Append(defs, [name |-> elfFunctions[Sym.addr], scl |-> "static"])
  /\ aliases' = Append(aliases, Alias(elfFunctions[Sym.addr], Sym.addr))
  /\ next' = next + 1
  /\ UNCHANGED <<symbols, pass, elfFunctions, funcToIdMap, symbolNames, globals, data>>

EmitLocal ==
  /\ At("emit") /\ ~ Sym.global /\ ~ Sym.func /\ ~ Skipped(Sym)
  /\ FindSegment(Sym.addr) # 0
  /\ aliases' = Append(aliases, Alias(<<Sym.name>>, Sym.addr))
  /\ next' = next + 1
  /\ UNCHANGED <<symbols, pass, elfFunctions, funcToIdMap, symbolNames, defs, globals, data>>

(* Undefined and nameless symbols, and local ones outside the segments.    *)
PassOver ==
  /\ At("emit")
  /\ \/ Skipped(Sym) /\ (Sym.global \/ ~ Sym.func)
     \/ ~ Sym.global /\ FindSegment(Sym.addr) = 0
  /\ next' = next + 1
  /\ UNCHANGED <<symbols, pass, elfFunctions, funcToIdMap, symbolNames, defs, aliases,
                 globals, data>>

Emit == EmitGlobal \/ EmitLocalFunction \/ EmitLocal \/ PassOver

(* The debug information is read now, whatever it is.                      *)
EndEmit ==
  /\ EndPass("emit", "globals")
  /\ globals' \in Globals
  /\ UNCHANGED <<symbols, elfFunctions, funcToIdMap, symbolNames, defs, aliases, data>>

Var == globals[next]

(* Faulty: a variable goes by the name it has in the debug information.    *)
DwarfName(v) == <<v.name>>

(* By the name of the symbol at its address, or by its own.                *)
UniqueName(v) == IF v.addr \in DOMAIN symbolNames THEN symbolNames[v.addr] ELSE <<v.name>>

TranslateGlobalVar ==
  /\ pass = "globals" /\ next <= Len(globals)
  /\ data' = IF Var.addr = NoAddress \/ Var.name = NoName THEN data
             ELSE Append(data, [var |-> Var, name |-> UniqueName(Var)])
  /\ next' = next + 1
  /\ UNCHANGED <<symbols, pass, elfFunctions, funcToIdMap, symbolNames, defs, aliases, globals>>

EndGlobals ==
  /\ pass = "globals" /\ next > Len(globals)
  /\ pass' = "done" /\ next' = 1
  /\ UNCHANGED <<symbols, elfFunctions, funcToIdMap, symbolNames, defs, aliases, globals, data>>

Next ==
  \/ CollectFunction \/ NumberFunctions \/ NameSymbol \/ EndNames \/ Emit \/ EndEmit
  \/ TranslateGlobalVar \/ EndGlobals

Spec == Init /\ [][Next]_vars

-----------------------------------------------------------------------------
Done == pass = "done"

OutName == { <<n>> : n \in Names \cup {NoName} } \cup
           { <<s.name, s.addr>> : s \in Range(symbols) }

(* The state has the shape the code's declarations give it; the functions  *)
(* and names in it are of symbols there are.                               *)
TypeOK ==
  /\ TableType(symbols)
  /\ pass \in Range(Passes) /\ next \in 1 .. Len(IF pass = "globals" THEN globals ELSE symbols) + 1
  /\ DOMAIN elfFunctions \subseteq { s.addr : s \in Range(symbols) }
  /\ Range(elfFunctions) \subseteq OutName
  /\ funcToIdMap = << >> \/ DOMAIN funcToIdMap = DOMAIN elfFunctions
  /\ DOMAIN symbolNames \subseteq { s.addr : s \in Range(symbols) }
  /\ Range(symbolNames) \subseteq OutName
  /\ defs \in Seq([name: OutName, scl: {"external", "static"}])
  /\ aliases \in Seq([name: OutName, seg: 0 .. Len(Segments), off: Nat])
  /\ globals \in Seq(GlobalVar) /\ data \in Seq([var: GlobalVar, name: OutName])

Resolves(name, a) == Alias(name, a) \in Range(aliases)

HasSymbol(a) == \E s \in Range(symbols) : ~ Skipped(s) /\ s.addr = a

(* The names CodeView's .secrel32 uses for addresses in the image are of   *)
(* symbols the output defines, and defines there: that of every address in *)
(* the tables, and that of a variable's record, if there is any symbol at  *)
(* the variable's address (one of another name serves, such as an alias or *)
(* the section's first local).                                             *)
ReferencesResolve ==
  Done =>
    /\ \A a \in DOMAIN symbolNames : FindSegment(a) # 0 => Resolves(symbolNames[a], a)
    /\ \A k \in DOMAIN data :
         LET a == data[k].var.addr IN
           FindSegment(a) # 0 /\ HasSymbol(a) => Resolves(data[k].name, a)

(* The linkage of symbols is kept.  Local functions of one name at         *)
(* different addresses, as those of two files are, stay apart, and a       *)
(* global symbol is external in the end, although a local function at its  *)
(* address goes by its name.                                               *)
LinkageKept ==
  Done =>
    /\ \A s, t \in Range(symbols) :
         ~ s.global /\ ~ t.global /\ s.func /\ t.func /\ s.addr # t.addr =>
           elfFunctions[s.addr] # elfFunctions[t.addr]
             \/ \E u \in Range(symbols) : u.global /\ u.func /\ u.addr \in {s.addr, t.addr}
    /\ \A s \in Range(symbols) : s.global /\ ~ Skipped(s) =>
         LET of == { i \in DOMAIN defs : defs[i].name = <<s.name>> } IN
           \E i \in of : defs[i].scl = "external" /\ \A j \in of : j <= i
=============================================================================
