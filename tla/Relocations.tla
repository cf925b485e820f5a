----------------------------- MODULE Relocations -----------------------------
(***************************************************************************)
(* The dynamic relocations of the ELF file and the words of the image they *)
(* become: TranslatorImpl::GetElfRelocations, the ParseRelocation(Rel) of  *)
(* the four backends, which are the same but for the entry's format, and   *)
(* the branch of EmitSections that writes a relocated word.                *)
(*                                                                         *)
(* x86_64 and aarch64 have RELA entries, i386 and arm have REL entries     *)
(* whose addend is the word in the section.  Every step reads one more     *)
(* entry, any of those a linker may have left; the walk over the image is  *)
(* SectionEmitter, here only the words that may be relocated are visited.  *)
(***************************************************************************)
EXTENDS Integers, SequencesExt

CONSTANTS
  Formats,       (* A subset of {"RELA", "REL"}.                           *)
  Sections,      (* Headers in file order: [addr, size, image], image tells*)
                 (* whether the section is loaded (debug data is not, and  *)
                 (* has address 0).                                        *)
  Segments,      (* Sequence of [vaddr, memsz].                            *)
  Slots,         (* Addresses of the words that entries relocate.          *)
  Words,         (* What such a word may hold before it is relocated.      *)
  Symbols,       (* Records [name, defined, value].                        *)
  Addends,       (* Addends of RELA entries, negative ones included.       *)
  Narrow,        (* 2^32, made small: addresses of a 32-bit target.        *)
  Wide,          (* 2^64, made small.                                      *)
  MaxEntries     (* Bound: the number of relocation entries.               *)

VARIABLES
  format,   (* Which entries this file has.                                *)
  word,     (* The word at every slot, as the linker left it.              *)
  entries,  (* History: the entries read.                                  *)
  relocs,   (* m_offset, m_addend and m_symName of those that were parsed. *)
  emitted,  (* What was written for the slots visited so far.              *)
  phase

vars == <<format, word, entries, relocs, emitted, phase>>

Types   == {"RELATIVE", "GLOB_DAT", "JUMP_SLOT", "ABS"}
NoSymbol  == "no name"
NoEntry == [offset |-> 0, addend |-> 0, sym |-> NoSymbol, valid |-> FALSE]

Init ==
  /\ format \in Formats
  /\ word \in [Slots -> Words]
  /\ entries = << >> /\ relocs = << >>
  /\ emitted = << >>
  /\ phase = "reading"

-----------------------------------------------------------------------------
(* What a linker leaves (external).  Only .rel[a].dyn and .rel[a].plt hold *)
(* entries for the loader; of others, --emit-relocs leaves those it has    *)
(* applied already.  A REL word is an address for RELATIVE, 0 for          *)
(* GLOB_DAT, the way back into the PLT for JUMP_SLOT.                      *)
Entry == [section: {"dyn", "plt", "other"}, offset: Slots, type: Types,
          sym: Symbols, addend: Addends]

Plausible(e) ==
  /\ e.type = "JUMP_SLOT" <=> e.section = "plt"
  /\ format = "RELA" /\ e.type = "RELATIVE" => e.addend > 0
  /\ format = "REL" =>
       /\ e.addend = 0
       /\ e.type = "GLOB_DAT" => word[e.offset] = 0
       /\ e.type \in {"RELATIVE", "JUMP_SLOT"} => word[e.offset] # 0

-----------------------------------------------------------------------------
Covering(addr) ==
  { i \in DOMAIN Sections : /\ addr >= Sections[i].addr
                            /\ addr < Sections[i].addr + Sections[i].size }

(* Faulty: the last section that covers the address is read.               *)
LastCovering(addr) == CHOOSE i \in Covering(addr) : \A j \in Covering(addr) : j <= i

(* GetSectionContentsForOffset                                             *)
SectionFor(addr) == CHOOSE i \in Covering(addr) : \A j \in Covering(addr) : i <= j

(* Whatever debug section stands at address 0 holds something else.        *)
WordRead(addr) ==
  IF Sections[SectionFor(addr)].image THEN word[addr] ELSE Narrow - 1

InSection(addr) ==
  /\ Covering(addr) # {}
  /\ addr - Sections[SectionFor(addr)].addr + 4 <= Sections[SectionFor(addr)].size

(* The file as linkers leave it (external): addresses, of which a word     *)
(* holds one, fit the target; the loader's entries relocate words of the   *)
(* image, whose sections come first in the file.                           *)
Linked ==
  /\ Formats \subseteq {"RELA", "REL"}
  /\ Narrow \in Nat \ {0} /\ Wide \in Nat /\ Narrow <= Wide
  /\ DOMAIN Segments \subseteq Nat
  /\ \A i \in DOMAIN Segments : Segments[i].vaddr \in Nat
  /\ \A a \in Addends : a \in Int
  /\ Words \subseteq 0 .. Narrow - 1
  /\ \A s \in Symbols :
       s.name # NoSymbol /\ s.value \in 0 .. (IF "REL" \in Formats THEN Narrow ELSE Wide) - 1
  /\ DOMAIN Sections \subseteq Nat
  /\ \A w \in Slots : \E i \in Covering(w) :
       /\ Sections[i].image /\ w - Sections[i].addr + 4 <= Sections[i].size
       /\ \A j \in Covering(w) : i <= j

Addend(e) == IF format = "RELA" THEN e.addend % Wide ELSE WordRead(e.offset)

Reloc(e, addend, sym) ==
  [offset |-> e.offset, addend |-> addend % Wide, sym |-> sym, valid |-> TRUE]

(* Faulty: the value of a defined symbol is not added.                     *)
ParsedByName(e) ==
  IF e.type = "RELATIVE" THEN Reloc(e, Addend(e), NoSymbol)
  ELSE IF e.type \in {"GLOB_DAT", "JUMP_SLOT"}
    THEN Reloc(e, Addend(e), e.sym.name)
  ELSE NoEntry

(* ParseRelocation, ParseRelocationRel                                     *)
Parsed(e) ==
  IF format = "REL" /\ ~InSection(e.offset) THEN NoEntry
  ELSE IF e.type = "RELATIVE" THEN Reloc(e, Addend(e), NoSymbol)
  ELSE IF e.type \in {"GLOB_DAT", "JUMP_SLOT"}
    THEN IF e.sym.defined THEN Reloc(e, e.sym.value + Addend(e), NoSymbol)
                          ELSE Reloc(e, Addend(e), e.sym.name)
  ELSE NoEntry

ForTheLoader(e) == e.section \in {"dyn", "plt"}

ReadEntry ==
  /\ phase = "reading" /\ Len(entries) < MaxEntries
  /\ \E e \in Entry :
       /\ Plausible(e)
       /\ entries' = Append(entries, e)
       /\ relocs' = IF ForTheLoader(e) /\ Parsed(e).valid
                      THEN Append(relocs, Parsed(e)) ELSE relocs
  /\ UNCHANGED <<format, word, emitted, phase>>

EndOfEntries ==
  /\ phase = "reading" /\ phase' = "emitting"
  /\ UNCHANGED <<format, word, entries, relocs, emitted>>

-----------------------------------------------------------------------------
SegmentsOf(addr) ==
  { i \in DOMAIN Segments : /\ addr >= Segments[i].vaddr
                            /\ addr < Segments[i].vaddr + Segments[i].memsz }

(* FindSegment: the first one.                                             *)
FindSegment(addr) == CHOOSE i \in SegmentsOf(addr) : \A j \in SegmentsOf(addr) : i <= j

OffsetInTarget(addr) == addr - Segments[FindSegment(addr)].vaddr

(* The operand of .quad or .long.                                          *)
Operand(r) ==
  IF r.sym # NoSymbol
    THEN [kind |-> "symbol", name |-> r.sym, off |-> r.addend]
  ELSE IF SegmentsOf(r.addend) # {}
    THEN [kind |-> "segment", name |-> FindSegment(r.addend), off |-> OffsetInTarget(r.addend)]
  ELSE [kind |-> "number", name |-> NoSymbol, off |-> r.addend]

Bytes == [kind |-> "bytes", name |-> NoSymbol, off |-> 0]

Matching(addr) == { i \in DOMAIN relocs : relocs[i].offset = addr }

EmitWord(addr) ==
  /\ phase = "emitting"
  /\ addr \notin DOMAIN emitted
  /\ \A s \in Slots : s < addr => s \in DOMAIN emitted
  /\ emitted' = [s \in DOMAIN emitted \cup {addr} |->
       IF s # addr THEN emitted[s]
       ELSE IF Matching(addr) = {} THEN Bytes
       ELSE Operand(relocs[CHOOSE i \in Matching(addr) : \A j \in Matching(addr) : i <= j])]
  /\ UNCHANGED <<format, word, entries, relocs, phase>>

Next ==
  \/ ReadEntry
  \/ EndOfEntries
  \/ \E addr \in Slots : EmitWord(addr)

Spec == Init /\ [][Next]_vars

-----------------------------------------------------------------------------
(* Offsets, addends and operands are in the ranges of their C++ types.     *)
TypeOK ==
  /\ format \in Formats
  /\ word \in [Slots -> Words]
  /\ entries \in Seq(Entry) /\ Len(entries) <= MaxEntries
  /\ relocs \in Seq([offset: Slots, addend: 0 .. Wide - 1,
                     sym: { s.name : s \in {t \in Symbols : ~t.defined} } \cup {NoSymbol},
                     valid: {TRUE}])
  /\ DOMAIN emitted \subseteq Slots
  /\ \A s \in DOMAIN emitted : emitted[s].off \in 0 .. Wide - 1
  /\ phase \in {"reading", "emitting"}

(* What the ELF loader stores for an entry (external): an address of the   *)
(* image, or one of an import.  The words that GLOB_DAT and JUMP_SLOT find *)
(* in place are no addends.                                                *)
Modulus == IF format = "RELA" THEN Wide ELSE Narrow

ElfAddend(e) ==
  IF format = "RELA" THEN e.addend
  ELSE IF e.type \in {"GLOB_DAT", "JUMP_SLOT"} THEN 0 ELSE word[e.offset]

Stored(e) ==
  IF e.type = "RELATIVE"  THEN [of |-> "image", at |-> ElfAddend(e) % Modulus]
  ELSE IF e.sym.defined   THEN [of |-> "image", at |-> (e.sym.value + ElfAddend(e)) % Modulus]
  ELSE [of |-> e.sym.name, at |-> ElfAddend(e) % Modulus]

(* What the word holds in the PE image, by the operand written for it.     *)
Holds(o) ==
  IF o.kind = "segment" THEN [of |-> "image", at |-> (Segments[o.name].vaddr + o.off) % Modulus]
  ELSE IF o.kind = "symbol" THEN [of |-> o.name, at |-> o.off % Modulus]
  ELSE [of |-> o.kind, at |-> o.off]

(* The entries for the loader at a word; linkers leave at most one.        *)
Of(addr) == { i \in DOMAIN entries : entries[i].offset = addr /\ ForTheLoader(entries[i]) }

Pointers == { i \in DOMAIN entries : ForTheLoader(entries[i]) /\ Of(entries[i].offset) = {i} }

Written(i) == entries[i].offset \in DOMAIN emitted

AsLoaded(i) == Holds(emitted[entries[i].offset]) = Stored(entries[i])

InImage(i) == Stored(entries[i]).of = "image" => SegmentsOf(Stored(entries[i]).at) # {}

(* The kinds of pointers that come out right: not those of the three       *)
(* properties below.                                                       *)
Handled(i) ==
  /\ entries[i].type # "ABS"
  /\ ~(format = "REL" /\ entries[i].type = "JUMP_SLOT")
  /\ InImage(i)

(* A pointer that the ELF loader would have set to an address of the image *)
(* or of an import holds just that in the PE image, negative addends and   *)
(* overlapping section headers included, and a word that no loader would   *)
(* touch is left as bytes.                                                 *)
WordsAsLoaded ==
  /\ \A i \in Pointers : Written(i) /\ Handled(i) => AsLoaded(i)
  /\ \A s \in DOMAIN emitted : Of(s) = {} => emitted[s] = Bytes

(* "Triggers symbolic dynamic reloc pointing to defined symbol" says       *)
(* tests/data/relocs_elf.c of global_ptr, and Given_Relocations.cpp:       *)
(* "global_ptr points to global_var (offset 16 in seg_D)".                 *)
DataPointersRelocated ==
  \A i \in Pointers :
    Written(i) /\ entries[i].type = "ABS" /\ entries[i].sym.defined /\ InImage(i) => AsLoaded(i)
=============================================================================
