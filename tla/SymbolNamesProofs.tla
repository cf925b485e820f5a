-------------------------- MODULE SymbolNamesProofs --------------------------
(***************************************************************************)
(* Proofs about SymbolNames, for every symbol table in which local symbols *)
(* come first, every segments and all variables of the debug information.  *)
(***************************************************************************)
EXTENDS SymbolNames, SequenceTheorems, WellFoundedInduction, TLAPS

(* The symbols that pass p is done with.                                   *)
Over(p) ==
  \/ p = "functions" /\ pass # "functions"
  \/ p = "names" /\ pass \notin {"functions", "names"}
  \/ p = "emit" /\ pass \in {"globals", "done"}

Passed(p) == { k \in DOMAIN symbols : Over(p) \/ (pass = p /\ k < next) }

(* The table of functions has all functions so far, each address by the    *)
(* name of one of those there.                                             *)
FunctionsInv ==
  /\ \A a \in DOMAIN elfFunctions :
       \E s \in Range(symbols) : s.func /\ s.addr = a /\ elfFunctions[a] = FunctionName(s)
  /\ \A k \in Passed("functions") : symbols[k].func => symbols[k].addr \in DOMAIN elfFunctions
  /\ pass = "functions" => funcToIdMap = << >> /\ symbolNames = << >>

(* The table of names has every named symbol so far, and no other name.    *)
NamesInv ==
  /\ \A a \in DOMAIN symbolNames :
       \E s \in Range(symbols) : ~ Skipped(s) /\ s.addr = a /\ symbolNames[a] = NameInTables(s)
  /\ \A k \in Passed("names") :
       ~ Skipped(symbols[k]) => symbols[k].addr \in DOMAIN symbolNames
  /\ pass \in {"functions", "names"} => defs = << >>

(* A symbol of the image is defined, under the name it has in the tables,  *)
(* and the last .def directive of a global one makes it external.          *)
Defined(s) == FindSegment(s.addr) # 0 => Resolves(NameInTables(s), s.addr)

EndsExternal(s) ==
  s.global =>
    \E i \in DOMAIN defs :
      /\ defs[i] = [name |-> <<s.name>>, scl |-> "external"]
      /\ \A j \in DOMAIN defs : defs[j].name = <<s.name>> => j <= i

EmitInv ==
  \A k \in Passed("emit") :
    ~ Skipped(symbols[k]) => Defined(symbols[k]) /\ EndsExternal(symbols[k])

DataInv ==
  /\ pass \in {"functions", "names"} => data = << >>
  /\ \A k \in DOMAIN data : data[k].name = UniqueName(data[k].var)

IInv == TypeOK /\ FunctionsInv /\ NamesInv /\ EmitInv /\ DataInv

-----------------------------------------------------------------------------
(* Of a set of numbers one is the least.                                   *)
LEMMA Least ==
  ASSUME NEW T \in SUBSET Nat, T # {}
  PROVE  \E x \in T : \A y \in T : x <= y
  <1> DEFINE Less == OpToRel(<, Nat)
  <1>1. IsWellFoundedOn(Less, Nat)
    BY NatLessThanWellFounded
  <1>2. \A x, y \in Nat : <<y, x>> \notin Less => x <= y
    BY DEF OpToRel
  <1> HIDE DEF Less
  <1>3. \E x \in T : \A y \in T : ~ (<<y, x>> \in Less)
    BY <1>1, WFMin, Zenon
  <1>4. QED
    BY <1>2, <1>3

(* A segment is found exactly when there is one with the address.          *)
LEMMA Found ==
  ASSUME NEW addr \in Nat
  PROVE  \/ FindSegment(addr) = 0
         \/ FindSegment(addr) \in DOMAIN Segments /\ Covers(Segments[FindSegment(addr)], addr)
  <1> DEFINE found == { i \in DOMAIN Segments : Covers(Segments[i], addr) }
  <1>1. CASE found = {}
    BY <1>1 DEF FindSegment
  <1>2. CASE found # {}
    <2>1. found \in SUBSET Nat
      BY SegmentsAssumption
    <2>2. \E i \in found : \A j \in found : i <= j
      BY <1>2, <2>1, Least
    <2>3. FindSegment(addr) \in found
      BY <1>2, <2>2 DEF FindSegment
    <2>4. QED
      BY <2>3
  <1>3. QED
    BY <1>1, <1>2

(* An alias is a name at an offset into a segment or at an address.        *)
LEMMA AliasType ==
  ASSUME NEW name, NEW addr \in Nat
  PROVE  Alias(name, addr) \in [name: {name}, seg: 0 .. Len(Segments), off: Nat]
  <1>1. Len(Segments) \in Nat /\ DOMAIN Segments = 1 .. Len(Segments)
    BY SegmentsAssumption
  <1>2. CASE FindSegment(addr) = 0
    BY <1>1, <1>2 DEF Alias
  <1>3. CASE FindSegment(addr) # 0
    <2>1. FindSegment(addr) \in DOMAIN Segments /\ Covers(Segments[FindSegment(addr)], addr)
      BY <1>3, Found
    <2>2. Segments[FindSegment(addr)] \in [vaddr: Nat, memsz: Nat]
      <3> DEFINE Header == [vaddr: Nat, memsz: Nat]
      <3> HIDE DEF Header
      <3>1. Segments \in Seq(Header)
        BY SegmentsAssumption DEF Header
      <3>2. \A i \in DOMAIN Segments : Segments[i] \in Header
        BY <3>1
      <3> USE DEF Header
      <3>3. QED
        BY <2>1, <3>2
    <2>3. addr - Segments[FindSegment(addr)].vaddr \in Nat
      BY <2>1, <2>2 DEF Covers
    <2>4. QED
      BY <1>1, <1>3, <2>1, <2>3 DEF Alias
  <1>4. QED
    BY <1>2, <1>3

(* What the passes read of a symbol.                                       *)
LEMMA SymFacts ==
  ASSUME TypeOK, NEW k \in DOMAIN symbols
  PROVE  /\ symbols[k] \in Symbol /\ symbols[k] \in Range(symbols)
         /\ FunctionName(symbols[k]) \in OutName /\ <<symbols[k].name>> \in OutName
  <1>1. symbols[k] \in Symbol /\ symbols[k] \in Range(symbols)
    BY DEF TypeOK, TableType, Range
  <1>2. QED
    BY <1>1 DEF OutName, FunctionName, Symbol

(* Assigning one entry of a map leaves the others.                         *)
LEMMA PutFacts ==
  ASSUME NEW f, NEW a, NEW v
  PROVE  /\ DOMAIN Put(f, a, v) = DOMAIN f \cup {a}
         /\ Put(f, a, v)[a] = v
         /\ \A b \in DOMAIN f \ {a} : Put(f, a, v)[b] = f[b]
         /\ Range(Put(f, a, v)) \subseteq Range(f) \cup {v}
  BY DEF Put, Range

(* The table and the conversions of its symbols stay as they are.          *)
LEMMA Kept ==
  ASSUME TypeOK, [Next]_vars
  PROVE  symbols' = symbols /\ OutName' = OutName
  BY DEF Next, vars, CollectFunction, NumberFunctions, NameSymbol, EndNames, Emit, EmitGlobal,
         EmitLocalFunction, EmitLocal, PassOver, EndEmit, TranslateGlobalVar, EndGlobals,
         EndPass, OutName

(* A pass walks its table to the end.                                      *)
LEMMA Steps ==
  ASSUME TypeOK, [Next]_vars
  PROVE  /\ pass' \in Range(Passes)
         /\ next' \in 1 .. Len(IF pass' = "globals" THEN globals' ELSE symbols') + 1
  <1>1. /\ Len(symbols) \in Nat /\ Len(globals) \in Nat /\ next \in Nat \ {0}
        /\ symbols' = symbols
    BY Kept DEF TypeOK, TableType
  <1>2. Range(Passes) = {"functions", "names", "emit", "globals", "done"}
    BY DEF Range, Passes
  <1>3. CASE CollectFunction \/ NameSymbol \/ Emit
    BY <1>1, <1>3 DEF CollectFunction, NameSymbol, Emit, EmitGlobal, EmitLocalFunction, EmitLocal,
                      PassOver, At, TypeOK
  <1>4. CASE NumberFunctions \/ EndNames \/ EndGlobals
    BY <1>1, <1>2, <1>4 DEF NumberFunctions, EndNames, EndGlobals, EndPass
  <1>5. CASE EndEmit
    <2>1. pass' = "globals" /\ next' = 1 /\ Len(globals') \in Nat
      BY <1>5, GlobalsAssumption DEF EndEmit, EndPass
    <2>2. QED
      BY <1>2, <2>1
  <1>6. CASE TranslateGlobalVar
    BY <1>1, <1>6 DEF TranslateGlobalVar, TypeOK
  <1>7. CASE UNCHANGED vars
    BY <1>7 DEF vars, TypeOK
  <1>8. QED
    BY <1>3, <1>4, <1>5, <1>6, <1>7 DEF Next

(* A name the passes take from the table of functions is there.            *)
LEMMA LocalName ==
  ASSUME TypeOK, FunctionsInv, NEW k \in DOMAIN symbols, pass \in {"names", "emit"},
         symbols[k].func
  PROVE  symbols[k].addr \in DOMAIN elfFunctions /\ elfFunctions[symbols[k].addr] \in OutName
  <1>1. k \in Passed("functions")
    BY DEF Passed, Over
  <1>2. QED
    BY <1>1 DEF FunctionsInv, TypeOK, Range

(* Every pass keeps the types.                                             *)
LEMMA TypeStep ==
  ASSUME TypeOK, FunctionsInv, [Next]_vars
  PROVE  TypeOK'
  <1>0. /\ symbols' = symbols /\ OutName' = OutName /\ pass' \in Range(Passes)
        /\ next' \in 1 .. Len(IF pass' = "globals" THEN globals' ELSE symbols') + 1
    BY Kept, Steps
  <1> DEFINE Here == At("functions") \/ At("names") \/ At("emit")
  <1>1. Here => next \in DOMAIN symbols /\ Sym \in Symbol /\ Sym \in Range(symbols)
                /\ FunctionName(Sym) \in OutName /\ <<Sym.name>> \in OutName
    <2> SUFFICES ASSUME Here PROVE next \in DOMAIN symbols
      BY SymFacts DEF Sym
    <2>1. next \in Nat \ {0} /\ next <= Len(symbols) /\ symbols \in Seq(Symbol)
      BY DEF At, TypeOK, TableType
    <2>2. QED
      BY <2>1
  <1>2. Here => Sym.addr \in { s.addr : s \in Range(symbols) } /\ Sym.addr \in Nat
    BY <1>1 DEF Symbol
  <1>3. CASE CollectFunction
    <2>1. elfFunctions' = elfFunctions \/ elfFunctions' = Put(elfFunctions, Sym.addr, FunctionName(Sym))
      BY <1>3 DEF CollectFunction
    <2>2. /\ DOMAIN elfFunctions' \subseteq DOMAIN elfFunctions \cup {Sym.addr}
          /\ Range(elfFunctions') \subseteq Range(elfFunctions) \cup {FunctionName(Sym)}
      BY <2>1 DEF Put, Range
    <2>3. funcToIdMap = << >> /\ Here
      BY <1>3 DEF CollectFunction, At, FunctionsInv
    <2>4. /\ DOMAIN elfFunctions' \subseteq { s.addr : s \in Range(symbols) }
          /\ Range(elfFunctions') \subseteq OutName
      BY <1>1, <1>2, <2>2, <2>3 DEF TypeOK
    <2>5. QED
      BY <1>0, <1>3, <2>3, <2>4 DEF CollectFunction, TypeOK
  <1>4. CASE NameSymbol
    <2>1. Here /\ (Sym.func => elfFunctions[Sym.addr] \in OutName)
      BY <1>1, <1>4, LocalName DEF NameSymbol, At, Sym
    <2>2. NameInTables(Sym) \in OutName
      BY <1>1, <2>1 DEF NameInTables
    <2>3. symbolNames' = symbolNames \/ symbolNames' = Put(symbolNames, Sym.addr, NameInTables(Sym))
      BY <1>4 DEF NameSymbol
    <2>4. /\ DOMAIN symbolNames' \subseteq DOMAIN symbolNames \cup {Sym.addr}
          /\ Range(symbolNames') \subseteq Range(symbolNames) \cup {NameInTables(Sym)}
      BY <2>3 DEF Put, Range
    <2>5. /\ DOMAIN symbolNames' \subseteq { s.addr : s \in Range(symbols) }
          /\ Range(symbolNames') \subseteq OutName
      BY <1>2, <2>1, <2>2, <2>4 DEF TypeOK
    <2>6. QED
      BY <1>0, <1>4, <2>5 DEF NameSymbol, TypeOK
  <1>5. CASE Emit
    <2>1. Here /\ (Sym.func => elfFunctions[Sym.addr] \in OutName)
      BY <1>1, <1>5, LocalName
      DEF Emit, EmitGlobal, EmitLocalFunction, EmitLocal, PassOver, At, Sym
    <2>2. \A name \in OutName :
            /\ Append(defs, [name |-> name, scl |-> "external"]) \in
                 Seq([name: OutName, scl: {"external", "static"}])
            /\ Append(defs, [name |-> name, scl |-> "static"]) \in
                 Seq([name: OutName, scl: {"external", "static"}])
      BY DEF TypeOK
    <2>3. \A name \in OutName : Append(aliases, Alias(name, Sym.addr)) \in
                                 Seq([name: OutName, seg: 0 .. Len(Segments), off: Nat])
      <3> TAKE name \in OutName
      <3>1. Alias(name, Sym.addr) \in [name: OutName, seg: 0 .. Len(Segments), off: Nat]
        BY <1>2, <2>1, AliasType
      <3>2. QED
        BY <3>1 DEF TypeOK
    <2>4. /\ defs' \in Seq([name: OutName, scl: {"external", "static"}])
          /\ aliases' \in Seq([name: OutName, seg: 0 .. Len(Segments), off: Nat])
      BY <1>1, <1>5, <2>1, <2>2, <2>3
      DEF Emit, EmitGlobal, EmitLocalFunction, EmitLocal, PassOver, DefExternal, TypeOK
    <2>5. UNCHANGED <<elfFunctions, funcToIdMap, symbolNames, globals, data>>
      BY <1>5 DEF Emit, EmitGlobal, EmitLocalFunction, EmitLocal, PassOver
    <2>6. QED
      BY <1>0, <2>4, <2>5 DEF TypeOK
  <1>6. CASE NumberFunctions
    BY <1>0, <1>6 DEF NumberFunctions, FunctionIds, TypeOK
  <1>7. CASE EndNames \/ EndGlobals
    BY <1>0, <1>7 DEF EndNames, EndGlobals, TypeOK
  <1>8. CASE EndEmit
    <2>1. globals' \in Seq(GlobalVar)
      BY <1>8, GlobalsAssumption DEF EndEmit
    <2>2. QED
      BY <1>0, <1>8, <2>1 DEF EndEmit, TypeOK
  <1>9. CASE TranslateGlobalVar
    <2>1. Var \in GlobalVar
      BY <1>9 DEF TranslateGlobalVar, Var, TypeOK
    <2>2. UniqueName(Var) \in OutName
      BY <2>1 DEF UniqueName, TypeOK, Range, OutName, GlobalVar
    <2>3. data' \in Seq([var: GlobalVar, name: OutName])
      <3>1. [var |-> Var, name |-> UniqueName(Var)] \in [var: GlobalVar, name: OutName]
        BY <2>1, <2>2
      <3>2. Append(data, [var |-> Var, name |-> UniqueName(Var)]) \in
              Seq([var: GlobalVar, name: OutName])
        BY <3>1, AppendProperties DEF TypeOK
      <3>3. QED
        BY <1>9, <3>2 DEF TranslateGlobalVar, TypeOK
    <2>4. QED
      BY <1>0, <1>9, <2>3 DEF TranslateGlobalVar, TypeOK
  <1>10. CASE UNCHANGED vars
    BY <1>0, <1>10 DEF vars, TypeOK
  <1>11. QED
    BY <1>3, <1>4, <1>5, <1>6, <1>7, <1>8, <1>9, <1>10 DEF Next

(* Every pass keeps functions and ids those of the symbols collected.      *)
LEMMA FunctionsStep ==
  ASSUME TypeOK, FunctionsInv, [Next]_vars
  PROVE  FunctionsInv'
  <1>0. symbols' = symbols /\ next \in Nat \ {0} /\ Len(symbols) \in Nat
        /\ DOMAIN symbols = 1 .. Len(symbols)
    BY Kept DEF TypeOK, TableType
  <1>1. CASE CollectFunction
    <2>1. pass = "functions" /\ pass' = "functions" /\ next \in DOMAIN symbols /\ next' = next + 1
      BY <1>0, <1>1 DEF CollectFunction, At
    <2>2. Passed("functions")' = Passed("functions") \cup {next}
      BY <1>0, <2>1 DEF Passed, Over
    <2>3. CASE Sym.func
      <3>1. elfFunctions' = Put(elfFunctions, Sym.addr, FunctionName(Sym)) /\ Sym \in Range(symbols)
        BY <1>1, <2>1, <2>3, SymFacts DEF CollectFunction, Sym
      <3>2. ASSUME NEW a \in DOMAIN elfFunctions'
            PROVE  \E s \in Range(symbols) :
                     s.func /\ s.addr = a /\ elfFunctions'[a] = FunctionName(s)
        <4>1. CASE a = Sym.addr
          BY <2>3, <3>1, <4>1 DEF Put
        <4>2. CASE a # Sym.addr
          <5>1. a \in DOMAIN elfFunctions /\ elfFunctions'[a] = elfFunctions[a]
            BY <3>1, <3>2, <4>2 DEF Put
          <5>2. QED
            BY <5>1 DEF FunctionsInv
        <4>3. QED
          BY <4>1, <4>2
      <3>3. DOMAIN elfFunctions' = DOMAIN elfFunctions \cup {Sym.addr}
        BY <3>1 DEF Put
      <3>4. QED
        BY <1>0, <1>1, <2>1, <2>2, <3>2, <3>3 DEF CollectFunction, FunctionsInv, Sym
    <2>4. CASE ~ Sym.func
      BY <1>0, <1>1, <2>1, <2>2, <2>4 DEF CollectFunction, FunctionsInv, Sym
    <2>5. QED
      BY <2>3, <2>4
  <1>2. CASE NumberFunctions
    <2>1. Passed("functions")' = Passed("functions")
      BY <1>0, <1>2 DEF NumberFunctions, EndPass, Passed, Over
    <2>2. QED
      BY <1>0, <1>2, <2>1 DEF NumberFunctions, EndPass, FunctionsInv
  <1>3. CASE UNCHANGED vars
    BY <1>3 DEF vars, FunctionsInv, Passed, Over
  <1>4. CASE NameSymbol \/ EndNames \/ Emit \/ EndEmit \/ TranslateGlobalVar \/ EndGlobals
    <2>1. elfFunctions' = elfFunctions /\ pass # "functions" /\ pass' # "functions"
      BY <1>4 DEF NameSymbol, EndNames, Emit, EmitGlobal, EmitLocalFunction, EmitLocal, PassOver,
                  EndEmit, TranslateGlobalVar, EndGlobals, At, EndPass
    <2>2. Passed("functions")' = Passed("functions")
      BY <1>0, <2>1 DEF Passed, Over
    <2>3. QED
      BY <1>0, <2>1, <2>2 DEF FunctionsInv
  <1>5. QED
    BY <1>1, <1>2, <1>3, <1>4 DEF Next

(* Every pass keeps the names those of symbols at their addresses.         *)
LEMMA NamesInvStep ==
  ASSUME TypeOK, FunctionsInv, NamesInv, [Next]_vars
  PROVE  NamesInv'
  <1>0. symbols' = symbols /\ next \in Nat \ {0} /\ Len(symbols) \in Nat
        /\ DOMAIN symbols = 1 .. Len(symbols)
    BY Kept DEF TypeOK, TableType
  <1>1. CASE CollectFunction \/ NumberFunctions
    <2>1. /\ pass = "functions" /\ pass' \in {"functions", "names"} /\ symbolNames' = << >>
          /\ symbolNames = << >> /\ defs' = << >>
          /\ pass' = "names" => next' = 1
      BY <1>1 DEF CollectFunction, NumberFunctions, At, EndPass, FunctionsInv, NamesInv
    <2>2. Passed("names")' = {}
      BY <1>0, <2>1 DEF Passed, Over
    <2>3. QED
      BY <2>1, <2>2 DEF NamesInv
  <1>2. CASE NameSymbol
    <2>1. /\ pass = "names" /\ pass' = "names" /\ next \in DOMAIN symbols /\ next' = next + 1
          /\ elfFunctions' = elfFunctions /\ defs' = defs
      BY <1>0, <1>2 DEF NameSymbol, At
    <2>2. /\ Passed("names")' = Passed("names") \cup {next}
          /\ \A s : NameInTables(s)' = NameInTables(s)
      BY <1>0, <2>1 DEF Passed, Over, NameInTables
    <2>3. CASE ~ Skipped(Sym)
      <3>1. symbolNames' = Put(symbolNames, Sym.addr, NameInTables(Sym)) /\ Sym \in Range(symbols)
        BY <1>2, <2>1, <2>3, SymFacts DEF NameSymbol, Sym
      <3>2. ASSUME NEW a \in DOMAIN symbolNames'
            PROVE  \E s \in Range(symbols) :
                     ~ Skipped(s) /\ s.addr = a /\ symbolNames'[a] = NameInTables(s)
        <4>1. CASE a = Sym.addr
          BY <2>3, <3>1, <4>1 DEF Put
        <4>2. CASE a # Sym.addr
          <5>1. a \in DOMAIN symbolNames /\ symbolNames'[a] = symbolNames[a]
            BY <3>1, <3>2, <4>2 DEF Put
          <5>2. QED
            BY <5>1 DEF NamesInv
        <4>3. QED
          BY <4>1, <4>2
      <3>3. DOMAIN symbolNames' = DOMAIN symbolNames \cup {Sym.addr}
        BY <3>1 DEF Put
      <3>4. QED
        BY <1>0, <2>1, <2>2, <3>2, <3>3 DEF NamesInv, Sym
    <2>4. CASE Skipped(Sym)
      BY <1>0, <1>2, <2>1, <2>2, <2>4 DEF NameSymbol, NamesInv, Sym
    <2>5. QED
      BY <2>3, <2>4
  <1>3. CASE EndNames \/ Emit \/ EndEmit \/ TranslateGlobalVar \/ EndGlobals
    <2>1. /\ symbolNames' = symbolNames /\ elfFunctions' = elfFunctions /\ pass # "functions"
          /\ pass' \notin {"functions", "names"} /\ (pass = "names" => next > Len(symbols))
      BY <1>3 DEF EndNames, Emit, EmitGlobal, EmitLocalFunction, EmitLocal, PassOver, EndEmit,
                  TranslateGlobalVar, EndGlobals, At, EndPass
    <2>2. /\ Passed("names")' = Passed("names")
          /\ \A s : NameInTables(s)' = NameInTables(s)
      BY <1>0, <2>1 DEF Passed, Over, NameInTables
    <2>3. QED
      BY <1>0, <2>1, <2>2 DEF NamesInv
  <1>4. CASE UNCHANGED vars
    BY <1>4 DEF vars, NamesInv, Passed, Over, NameInTables
  <1>5. QED
    BY <1>1, <1>2, <1>3, <1>4 DEF Next

(* A definition stays, and so does the last .def directive of a name as    *)
(* long as no other follows, and from the first global symbol on only      *)
(* global ones follow.                                                     *)
LEMMA EmittedStays ==
  ASSUME TypeOK, EmitInv, Emit, symbols' = symbols, NEW k \in Passed("emit"),
         ~ Skipped(symbols[k])
  PROVE  Defined(symbols[k])' /\ EndsExternal(symbols[k])'
  <1>0. /\ pass = "emit" /\ k \in DOMAIN symbols /\ k < next /\ next \in DOMAIN symbols
    <2>1. pass = "emit" /\ next <= Len(symbols)
      BY DEF Emit, EmitGlobal, EmitLocalFunction, EmitLocal, PassOver, At
    <2>2. next \in Nat \ {0} /\ Len(symbols) \in Nat /\ DOMAIN symbols = 1 .. Len(symbols)
      BY DEF TypeOK, TableType
    <2>3. QED
      BY <2>1, <2>2 DEF Passed, Over
  <1>1. /\ aliases' = aliases \/ \E name : aliases' = Append(aliases, Alias(name, Sym.addr))
        /\ elfFunctions' = elfFunctions
    BY DEF Emit, EmitGlobal, EmitLocalFunction, EmitLocal, PassOver
  <1>2. Defined(symbols[k])'
    <2>1. ASSUME NEW e \in Range(aliases) PROVE e \in Range(aliases')
      <3>1. PICK i \in DOMAIN aliases : e = aliases[i]
        BY <2>1 DEF Range
      <3>2. i \in DOMAIN aliases' /\ aliases'[i] = e
        <4>1. Len(aliases) \in Nat /\ DOMAIN aliases = 1 .. Len(aliases)
          BY LenProperties DEF TypeOK
        <4>2. ASSUME NEW x, aliases' = Append(aliases, x)
              PROVE  i \in DOMAIN aliases' /\ aliases'[i] = aliases[i]
          BY <3>1, <4>1, <4>2 DEF TypeOK
        <4>3. QED
          BY <1>1, <3>1, <4>2
      <3>3. QED
        BY <3>2 DEF Range
    <2>2. Defined(symbols[k])
      BY DEF EmitInv
    <2>3. NameInTables(symbols[k])' = NameInTables(symbols[k])
      BY <1>1 DEF NameInTables
    <2>4. QED
      BY <2>1, <2>2, <2>3 DEF Defined, Resolves
  <1>3. EndsExternal(symbols[k])'
    <2> SUFFICES ASSUME symbols[k].global PROVE EndsExternal(symbols[k])'
      BY DEF EndsExternal
    <2>1. PICK i \in DOMAIN defs :
            /\ defs[i] = [name |-> <<symbols[k].name>>, scl |-> "external"]
            /\ \A j \in DOMAIN defs : defs[j].name = <<symbols[k].name>> => j <= i
      BY DEF EmitInv, EndsExternal
    <2>2. Sym.global
      BY <1>0 DEF TypeOK, TableType, Sym
    <2>3. defs' = defs \/ defs' = Append(defs, [name |-> <<Sym.name>>, scl |-> "external"])
      BY <2>2 DEF Emit, EmitGlobal, EmitLocalFunction, EmitLocal, PassOver, DefExternal
    <2>4. CASE defs' = defs
      BY <2>1, <2>4 DEF EndsExternal
    <2>5. CASE defs' = Append(defs, [name |-> <<Sym.name>>, scl |-> "external"])
      <3>1. /\ Len(defs) \in Nat /\ DOMAIN defs = 1 .. Len(defs)
            /\ DOMAIN defs' = 1 .. Len(defs) + 1
            /\ \A j \in DOMAIN defs : defs'[j] = defs[j]
            /\ defs'[Len(defs) + 1] = [name |-> <<Sym.name>>, scl |-> "external"]
        BY <2>5 DEF TypeOK
      <3>2. CASE Sym.name = symbols[k].name
        BY <3>1, <3>2 DEF EndsExternal
      <3>3. CASE Sym.name # symbols[k].name
        <4>1. <<Sym.name>> # <<symbols[k].name>>
          BY <3>3
        <4>2. \A j \in DOMAIN defs' : defs'[j].name = <<symbols[k].name>> => j \in DOMAIN defs
          BY <3>1, <4>1
        <4>3. i \in DOMAIN defs' /\ defs'[i] = [name |-> <<symbols[k].name>>, scl |-> "external"]
          BY <2>1, <3>1
        <4>4. \A j \in DOMAIN defs' : defs'[j].name = <<symbols[k].name>> => j <= i
          BY <2>1, <3>1, <4>2
        <4>5. QED
          BY <4>3, <4>4 DEF EndsExternal
      <3>4. QED
        BY <3>2, <3>3
    <2>6. QED
      BY <2>3, <2>4, <2>5
  <1>4. QED
    BY <1>2, <1>3

(* A symbol that is emitted is defined in the output with its linkage.     *)
LEMMA EmittedNow ==
  ASSUME TypeOK, Emit, symbols' = symbols, NEW s, s = Sym, ~ Skipped(s)
  PROVE  Defined(s)' /\ EndsExternal(s)'
  <1>1. Defined(s)'
    <2> SUFFICES ASSUME FindSegment(s.addr) # 0 PROVE Defined(s)'
      BY DEF Defined
    <2>1. aliases' = Append(aliases, Alias(NameInTables(s), s.addr)) /\ elfFunctions' = elfFunctions
      BY DEF Emit, EmitGlobal, EmitLocalFunction, EmitLocal, PassOver, NameInTables
    <2>2. Alias(NameInTables(s), s.addr) \in Range(aliases')
      <3>1. /\ Len(aliases) + 1 \in DOMAIN aliases'
            /\ aliases'[Len(aliases) + 1] = Alias(NameInTables(s), s.addr)
        BY <2>1 DEF TypeOK
      <3>2. QED
        BY <3>1 DEF Range
    <2>3. NameInTables(s)' = NameInTables(s)
      BY <2>1 DEF NameInTables
    <2>4. QED
      BY <2>2, <2>3 DEF Defined, Resolves
  <1>2. EndsExternal(s)'
    <2> SUFFICES ASSUME s.global PROVE EndsExternal(s)'
      BY DEF EndsExternal
    <2>1. defs' = Append(defs, [name |-> <<s.name>>, scl |-> "external"])
      BY DEF Emit, EmitGlobal, EmitLocalFunction, EmitLocal, PassOver, DefExternal
    <2>2. /\ Len(defs) \in Nat /\ DOMAIN defs' = 1 .. Len(defs) + 1
          /\ defs'[Len(defs) + 1] = [name |-> <<s.name>>, scl |-> "external"]
      BY <2>1 DEF TypeOK
    <2>3. QED
      BY <2>2 DEF EndsExternal
  <1>3. QED
    BY <1>1, <1>2

(* Every pass keeps the emitted symbols defined.                           *)
LEMMA EmitStep ==
  ASSUME TypeOK, NamesInv, EmitInv, [Next]_vars
  PROVE  EmitInv'
  <1>0. symbols' = symbols /\ next \in Nat \ {0} /\ Len(symbols) \in Nat
        /\ DOMAIN symbols = 1 .. Len(symbols)
    BY Kept DEF TypeOK, TableType
  <1>1. CASE CollectFunction \/ NumberFunctions \/ NameSymbol \/ EndNames
    <2>1. Passed("emit")' = {}
      BY <1>0, <1>1 DEF CollectFunction, NumberFunctions, NameSymbol, EndNames, At, EndPass,
                        Passed, Over
    <2>2. QED
      BY <2>1 DEF EmitInv
  <1>2. CASE Emit
    <2>1. pass = "emit" /\ pass' = "emit" /\ next \in DOMAIN symbols /\ next' = next + 1
      BY <1>0, <1>2 DEF Emit, EmitGlobal, EmitLocalFunction, EmitLocal, PassOver, At
    <2>2. Passed("emit")' = Passed("emit") \cup {next}
      BY <1>0, <2>1 DEF Passed, Over
    <2>3. ASSUME NEW k \in Passed("emit"), ~ Skipped(symbols[k])
          PROVE  Defined(symbols[k])' /\ EndsExternal(symbols[k])'
      BY <1>0, <1>2, <2>3, EmittedStays
    <2>4. \A s : s = Sym /\ ~ Skipped(s) => Defined(s)' /\ EndsExternal(s)'
      BY <1>0, <1>2, EmittedNow
    <2>5. QED
      BY <1>0, <2>2, <2>3, <2>4 DEF EmitInv, Sym
  <1>3. CASE EndEmit \/ TranslateGlobalVar \/ EndGlobals
    <2>1. /\ UNCHANGED <<elfFunctions, aliases, defs>> /\ pass \in {"emit", "globals"}
          /\ pass' \in {"globals", "done"} /\ (pass = "emit" => next > Len(symbols))
      BY <1>3 DEF EndEmit, TranslateGlobalVar, EndGlobals, EndPass
    <2>2. Passed("emit")' = Passed("emit")
      BY <1>0, <2>1 DEF Passed, Over
    <2>3. \A s : (Defined(s)' <=> Defined(s)) /\ (EndsExternal(s)' <=> EndsExternal(s))
      BY <2>1 DEF Defined, Resolves, NameInTables, EndsExternal
    <2>4. QED
      BY <1>0, <2>2, <2>3 DEF EmitInv
  <1>4. CASE UNCHANGED vars
    BY <1>4 DEF vars, EmitInv, Passed, Over, Defined, Resolves, NameInTables, EndsExternal
  <1>5. QED
    BY <1>1, <1>2, <1>3, <1>4 DEF Next

(* A variable's record keeps the name that the tables, which are complete  *)
(* by then, gave it.                                                       *)
LEMMA DataStep ==
  ASSUME TypeOK, DataInv, FunctionsInv, [Next]_vars
  PROVE  DataInv'
  <1>1. CASE TranslateGlobalVar
    <2>1. symbolNames' = symbolNames /\ pass' = "globals"
      BY <1>1 DEF TranslateGlobalVar
    <2>2. \A v : UniqueName(v)' = UniqueName(v)
      BY <2>1 DEF UniqueName
    <2>3. CASE data' = data
      BY <2>1, <2>2, <2>3 DEF DataInv
    <2>4. CASE data' = Append(data, [var |-> Var, name |-> UniqueName(Var)])
      <3>1. /\ Len(data) \in Nat /\ DOMAIN data = 1 .. Len(data)
            /\ DOMAIN data' = 1 .. Len(data) + 1
            /\ \A k \in DOMAIN data : data'[k] = data[k]
            /\ data'[Len(data) + 1] = [var |-> Var, name |-> UniqueName(Var)]
        BY <2>4 DEF TypeOK
      <3>2. QED
        BY <2>1, <2>2, <3>1 DEF DataInv
    <2>5. QED
      BY <1>1, <2>3, <2>4 DEF TranslateGlobalVar
  <1>2. CASE CollectFunction \/ NumberFunctions \/ NameSymbol
    <2>1. data' = << >> /\ pass' \in {"functions", "names"}
      BY <1>2 DEF CollectFunction, NumberFunctions, NameSymbol, At, EndPass, DataInv
    <2>2. QED
      BY <2>1 DEF DataInv
  <1>3. CASE EndNames \/ Emit \/ EndEmit \/ EndGlobals \/ UNCHANGED vars
    <2>1. data' = data /\ symbolNames' = symbolNames
      BY <1>3 DEF EndNames, Emit, EmitGlobal, EmitLocalFunction, EmitLocal, PassOver, EndEmit,
                  EndGlobals, vars
    <2>2. pass' \in {"functions", "names"} => pass \in {"functions", "names"}
      BY <1>3 DEF EndNames, Emit, EmitGlobal, EmitLocalFunction, EmitLocal, PassOver, EndEmit,
                  EndGlobals, EndPass, At, vars
    <2>3. QED
      BY <2>1, <2>2 DEF DataInv, UniqueName
  <1>4. QED
    BY <1>1, <1>2, <1>3 DEF Next

-----------------------------------------------------------------------------
(* Before the first symbol there is no name.                               *)
LEMMA InitInv == Init => IInv
  <1> SUFFICES ASSUME Init PROVE IInv
    OBVIOUS
  <1>1. TableType(symbols) /\ Len(symbols) \in Nat
    BY TablesAssumption DEF Init, TableType
  <1>2. /\ pass = "functions" /\ next = 1 /\ elfFunctions = << >> /\ funcToIdMap = << >>
        /\ symbolNames = << >> /\ defs = << >> /\ aliases = << >> /\ globals = << >> /\ data = << >>
    BY DEF Init
  <1>3. DOMAIN << >> = {} /\ Range(<< >>) = {}
    BY DEF Range
  <1>4. "functions" \in Range(Passes)
    BY DEF Range, Passes
  <1>5. TypeOK
    BY <1>1, <1>2, <1>3, <1>4 DEF TypeOK
  <1>6. Passed("functions") = {} /\ Passed("names") = {} /\ Passed("emit") = {}
    BY <1>1, <1>2 DEF Passed, Over, TableType
  <1>7. QED
    BY <1>2, <1>3, <1>5, <1>6 DEF IInv, FunctionsInv, NamesInv, EmitInv, DataInv

(* In every reachable state of every pass the tables agree with the        *)
(* symbols that have been read.                                            *)
THEOREM Inductive == Spec => []IInv
  <1>1. IInv /\ [Next]_vars => IInv'
    BY TypeStep, FunctionsStep, NamesInvStep, EmitStep, DataStep DEF IInv
  <1>2. QED
    BY <1>1, InitInv, PTL DEF Spec

(* The tables have the shape the code's declarations give them.            *)
THEOREM TypeCorrect == Spec => []TypeOK
  <1>1. IInv => TypeOK
    BY DEF IInv
  <1>2. QED
    BY <1>1, Inductive, PTL

(* No name in CodeView refers to a symbol that the output lacks or has     *)
(* elsewhere, whatever shares an address with it.                          *)
THEOREM References == Spec => []ReferencesResolve
  <1>1. IInv => ReferencesResolve
    <2> SUFFICES ASSUME IInv, pass = "done" PROVE ReferencesResolve
      BY DEF ReferencesResolve, Done
    <2>1. \A k \in DOMAIN symbols : k \in Passed("names") /\ k \in Passed("emit")
      BY DEF Passed, Over
    <2>2. ASSUME NEW a \in DOMAIN symbolNames, FindSegment(a) # 0
          PROVE  Resolves(symbolNames[a], a)
      <3>1. PICK s \in Range(symbols) :
              ~ Skipped(s) /\ s.addr = a /\ symbolNames[a] = NameInTables(s)
        BY DEF IInv, NamesInv
      <3>2. PICK k \in DOMAIN symbols : symbols[k] = s
        BY DEF Range
      <3>3. Defined(s)
        BY <2>1, <3>1, <3>2 DEF IInv, EmitInv
      <3>4. QED
        BY <2>2, <3>1, <3>3 DEF Defined
    <2>3. ASSUME NEW k \in DOMAIN data, FindSegment(data[k].var.addr) # 0, HasSymbol(data[k].var.addr)
          PROVE  Resolves(data[k].name, data[k].var.addr)
      <3>1. PICK s \in Range(symbols) : ~ Skipped(s) /\ s.addr = data[k].var.addr
        BY <2>3 DEF HasSymbol
      <3>2. PICK j \in DOMAIN symbols : symbols[j] = s
        BY DEF Range
      <3>3. s.addr \in DOMAIN symbolNames
        BY <2>1, <3>1, <3>2 DEF IInv, NamesInv
      <3>4. data[k].name = symbolNames[s.addr]
        BY <3>1, <3>3 DEF IInv, DataInv, UniqueName
      <3>5. QED
        BY <2>2, <2>3, <3>1, <3>3, <3>4
    <2>4. QED
      BY <2>2, <2>3 DEF ReferencesResolve
  <1>2. QED
    BY <1>1, Inductive, PTL

(* Static functions stay apart and global symbols external, for every      *)
(* symbol table that has its local symbols first.                          *)
THEOREM Linkage == Spec => []LinkageKept
  <1>1. IInv => LinkageKept
    <2> SUFFICES ASSUME IInv, pass = "done" PROVE LinkageKept
      BY DEF LinkageKept, Done
    <2>1. \A k \in DOMAIN symbols : k \in Passed("functions") /\ k \in Passed("emit")
      BY DEF Passed, Over
    <2>2. ASSUME NEW s \in Range(symbols), s.func
          PROVE  \E u \in Range(symbols) :
                   u.func /\ u.addr = s.addr /\ elfFunctions[s.addr] = FunctionName(u)
      <3>1. PICK k \in DOMAIN symbols : symbols[k] = s
        BY DEF Range
      <3>2. s.addr \in DOMAIN elfFunctions
        BY <2>1, <2>2, <3>1 DEF IInv, FunctionsInv
      <3>3. QED
        BY <3>2 DEF IInv, FunctionsInv
    <2>3. ASSUME NEW s \in Range(symbols), NEW t \in Range(symbols), s.func, t.func,
                 s.addr # t.addr, elfFunctions[s.addr] = elfFunctions[t.addr]
          PROVE  \E u \in Range(symbols) : u.global /\ u.func /\ u.addr \in {s.addr, t.addr}
      <3>1. PICK u \in Range(symbols) :
              u.func /\ u.addr = s.addr /\ elfFunctions[s.addr] = FunctionName(u)
        BY <2>2, <2>3
      <3>2. PICK v \in Range(symbols) :
              v.func /\ v.addr = t.addr /\ elfFunctions[t.addr] = FunctionName(v)
        BY <2>2, <2>3
      <3>3. ~ u.global /\ ~ v.global => <<u.name, u.addr>> = <<v.name, v.addr>>
        BY <2>3, <3>1, <3>2 DEF FunctionName
      <3>4. QED
        BY <2>3, <3>1, <3>2, <3>3
    <2>4. ASSUME NEW s \in Range(symbols), s.global, ~ Skipped(s)
          PROVE  \E i \in { j \in DOMAIN defs : defs[j].name = <<s.name>> } :
                   /\ defs[i].scl = "external"
                   /\ \A j \in { h \in DOMAIN defs : defs[h].name = <<s.name>> } : j <= i
      <3>1. PICK k \in DOMAIN symbols : symbols[k] = s
        BY DEF Range
      <3>2. EndsExternal(s)
        BY <2>1, <2>4, <3>1 DEF IInv, EmitInv
      <3>3. QED
        BY <2>4, <3>2 DEF EndsExternal
    <2>5. QED
      BY <2>3, <2>4 DEF LinkageKept
  <1>2. QED
    BY <1>1, Inductive, PTL
=============================================================================
