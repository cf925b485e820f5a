----------------------------- MODULE LoadProofs -----------------------------
(***************************************************************************)
(* Proofs about the tables TranslatorImpl::Load builds.                    *)
(***************************************************************************)
EXTENDS Load, SymbolNamesProofs

(* A remainder is the only number in its range that differs from the       *)
(* dividend by a multiple.                                                 *)
LEMMA Remainder ==
  ASSUME NEW W \in Nat \ {0}, NEW q \in Int, NEW r \in 0 .. W - 1
  PROVE  (q * W + r) % W = r
  <1> DEFINE x == q * W + r
             d == x \div W
             m == x % W
  <1>1. q * W \in Int
    BY SMT
  <1>2. x \in Int
    BY <1>1
  <1>3. /\ d \in Int /\ m \in 0 .. W - 1
        /\ x = W * d + m
    BY <1>2
  <1> HIDE DEF d, m
  <1>4. W * d \in Int /\ W * d = d * W
    BY <1>3
  <1>5. d * W + m = q * W + r
    BY <1>3, <1>4, <1>1
  <1>6. CASE d < q
    <2>1. (d + 1) * W <= q * W
      BY <1>3, <1>6
    <2>2. (d + 1) * W = d * W + W
      BY <1>3
    <2>3. QED
      BY <2>1, <2>2, <1>5, <1>4, <1>3, <1>1
  <1>7. CASE q < d
    <2>1. (q + 1) * W <= d * W
      BY <1>3, <1>7
    <2>2. (q + 1) * W = q * W + W
      BY SMT
    <2>3. QED
      BY <2>1, <2>2, <1>5, <1>4, <1>3, <1>1
  <1>8. CASE d = q
    BY <1>8, <1>5, <1>1, <1>3 DEF m
  <1>9. QED
    BY <1>3, <1>6, <1>7, <1>8

(* A number below the modulus is its own remainder.                        *)
LEMMA Small ==
  ASSUME NEW W \in Nat \ {0}, NEW k \in 0 .. W - 1
  PROVE  k % W = k
  <1>1. 0 * W + k = k
    OBVIOUS
  <1>2. (0 * W + k) % W = k
    BY Remainder
  <1>3. QED
    BY <1>1, <1>2

(* To reduce the addend before it is added changes nothing, nor to reduce  *)
(* twice.                                                                  *)
Reduces(W, a, v, m) ==
  /\ m \in 0 .. W - 1 /\ m % W = m
  /\ (v + m) % W = (v + a) % W
  /\ (v + m) % W \in 0 .. W - 1
  /\ ((v + m) % W) % W = (v + a) % W

(* The remainder of any integer is the one value of the word it reduces    *)
(* to.                                                                     *)
LEMMA Modular ==
  ASSUME NEW W \in Nat \ {0}, NEW a \in Int, NEW v \in Int
  PROVE  Reduces(W, a, v, a % W)
  <1> DEFINE p == a \div W
             m == a % W
             q == (v + m) \div W
             n == (v + m) % W
  <1>1. p \in Int /\ m \in 0 .. W - 1 /\ a = W * p + m
    OBVIOUS
  <1>2. q \in Int /\ n \in 0 .. W - 1 /\ v + m = W * q + n
    BY <1>1
  <1> HIDE DEF p, m, q, n
  <1>3. v + a = (p + q) * W + n
    <2>1. W * p \in Int /\ W * q \in Int /\ (p + q) * W = W * p + W * q
      BY <1>1, <1>2
    <2>2. QED
      BY <2>1, <1>1, <1>2
  <1>4. (v + a) % W = n
    <2>1. p + q \in Int
      BY <1>1, <1>2
    <2>2. ((p + q) * W + n) % W = n
      BY <2>1, <1>2, Remainder
    <2>3. QED
      BY <2>2, <1>3
  <1>5. m % W = m /\ n % W = n
    BY <1>1, <1>2, Small
  <1>6. QED
    BY <1>1, <1>2, <1>4, <1>5 DEF m, n, Reduces

-----------------------------------------------------------------------------
(* The relocations: their shape.                                           *)
RelocRec ==
  [offset: Slots, addend: 0 .. Wide - 1,
   sym: { s.name : s \in {t \in RelocSymbols : ~t.defined} } \cup {Relocs!NoSymbol},
   valid: {TRUE}]

RelocTypes ==
  /\ format \in Formats /\ word \in [Slots -> Words]
  /\ entries \in Seq(Relocs!Entry) /\ Len(entries) <= MaxEntries
  /\ relocs \in Seq(RelocRec)
  /\ DOMAIN emitted \subseteq Slots
  /\ phase \in {"reading", "emitting"}

(* An entry the loader heeds and the code understands.                     *)
Heeded(e) == Relocs!ForTheLoader(e) /\ Relocs!Parsed(e).valid

(* The relocations are those of the heeded entries, all of them.           *)
RelocsParsed ==
  /\ \A i \in DOMAIN entries : Relocs!Plausible(entries[i])
  /\ \A k \in DOMAIN relocs :
       \E i \in DOMAIN entries : Heeded(entries[i]) /\ relocs[k] = Relocs!Parsed(entries[i])
  /\ \A i \in DOMAIN entries :
       Heeded(entries[i]) => \E k \in DOMAIN relocs : relocs[k] = Relocs!Parsed(entries[i])

FirstMatch(s) ==
  CHOOSE i \in Relocs!Matching(s) : \A j \in Relocs!Matching(s) : i <= j

(* What was written at a word is from the first relocation of it.          *)
WordsWritten ==
  /\ phase = "reading" => DOMAIN emitted = {}
  /\ \A s \in DOMAIN emitted :
       emitted[s] = IF Relocs!Matching(s) = {} THEN Relocs!Bytes
                                               ELSE Relocs!Operand(relocs[FirstMatch(s)])

RelocInv == RelocTypes /\ RelocsParsed /\ WordsWritten

-----------------------------------------------------------------------------
(* A word that the loader relocates is read where the linker left it.      *)
LEMMA SlotRead ==
  ASSUME NEW w \in Slots
  PROVE  Relocs!InSection(w) /\ Relocs!WordRead(w) = word[w]
  <1>1. PICK i \in Relocs!Covering(w) :
          /\ Sections[i].image /\ w - Sections[i].addr + 4 <= Sections[i].size
          /\ \A j \in Relocs!Covering(w) : i <= j
    BY RelocationsAssumption DEF Relocs!Linked
  <1>2. Relocs!Covering(w) \subseteq Nat
    BY RelocationsAssumption DEF Relocs!Linked, Relocs!Covering
  <1>3. Relocs!SectionFor(w) = i
    BY <1>1, <1>2 DEF Relocs!SectionFor
  <1>4. QED
    BY <1>1, <1>3 DEF Relocs!InSection, Relocs!WordRead

(* An entry that is understood keeps its place.                            *)
LEMMA ParsedFacts ==
  ASSUME NEW e \in Relocs!Entry
  PROVE  /\ Relocs!Parsed(e).valid => Relocs!Parsed(e).offset = e.offset
         /\ e.type # "ABS" => Relocs!Parsed(e).valid
  <1>1. Relocs!InSection(e.offset) /\ e.type \in {"RELATIVE", "GLOB_DAT", "JUMP_SLOT", "ABS"}
    BY SlotRead DEF Relocs!Entry, Relocs!Types
  <1>2. QED
    BY <1>1 DEF Relocs!Parsed, Relocs!Reloc, Relocs!NoEntry

(* What a backend parses of an entry is a relocation.                      *)
LEMMA ParsedType ==
  ASSUME RelocTypes, NEW e \in Relocs!Entry, Relocs!Parsed(e).valid
  PROVE  Relocs!Parsed(e) \in RelocRec
  <1>1. /\ e.offset \in Slots /\ e.sym \in RelocSymbols /\ e.addend \in Addends
        /\ Relocs!WordRead(e.offset) \in Words /\ Relocs!InSection(e.offset)
    BY SlotRead DEF Relocs!Entry, RelocTypes
  <1>2. /\ Wide \in Nat \ {0} /\ e.addend \in Int /\ Relocs!WordRead(e.offset) \in Int
        /\ e.sym.value \in Int
    <2>1. Narrow \in Nat \ {0} /\ Wide \in Nat /\ Narrow <= Wide
      BY RelocationsAssumption DEF Relocs!Linked
    <2>2. e.addend \in Int /\ Relocs!WordRead(e.offset) \in 0 .. Narrow - 1
      BY <1>1, RelocationsAssumption DEF Relocs!Linked
    <2>3. e.sym.value \in 0 .. (IF "REL" \in Formats THEN Narrow ELSE Wide) - 1
      BY <1>1, RelocationsAssumption DEF Relocs!Linked
    <2>4. QED
      BY <2>1, <2>2, <2>3
  <1>3. Relocs!Addend(e) \in Int
    BY <1>2 DEF Relocs!Addend
  <1>4. \A x \in Int : x % Wide \in 0 .. Wide - 1
    BY <1>2
  <1>5. \A x \in Int :
          /\ Relocs!Reloc(e, x, Relocs!NoSymbol) \in RelocRec
          /\ ~ e.sym.defined => Relocs!Reloc(e, x, e.sym.name) \in RelocRec
    BY <1>1, <1>4 DEF Relocs!Reloc, RelocRec
  <1>6. e.sym.value + Relocs!Addend(e) \in Int
    BY <1>2, <1>3
  <1>7. QED
    BY <1>1, <1>3, <1>5, <1>6 DEF Relocs!Parsed, Relocs!NoEntry

(* No entry is read, no word written.                                      *)
LEMMA RelocInit == Relocs!Init => RelocInv
  <1> SUFFICES ASSUME Relocs!Init PROVE RelocInv
    OBVIOUS
  <1>1. /\ entries = << >> /\ relocs = << >> /\ emitted = << >> /\ phase = "reading"
        /\ DOMAIN entries = {} /\ DOMAIN relocs = {} /\ DOMAIN emitted = {}
        /\ Len(entries) = 0 /\ Len(relocs) = 0
    BY DEF Relocs!Init
  <1>2. RelocTypes
    BY <1>1, MaxEntriesAssumption DEF Relocs!Init, RelocTypes
  <1>3. RelocsParsed /\ WordsWritten
    BY <1>1 DEF RelocsParsed, WordsWritten
  <1>4. QED
    BY <1>2, <1>3 DEF RelocInv

(* How an entry is understood depends on the file alone.                   *)
LEMMA ParsedStays ==
  ASSUME format' = format, word' = word
  PROVE  \A e : /\ Relocs!Parsed(e)' = Relocs!Parsed(e) /\ (Heeded(e)' <=> Heeded(e))
                /\ (Relocs!Plausible(e)' <=> Relocs!Plausible(e))
  <1> TAKE e
  <1>1. Relocs!Parsed(e)' = Relocs!Parsed(e)
    BY DEF Relocs!Parsed, Relocs!Addend, Relocs!WordRead
  <1>2. Heeded(e)' <=> Heeded(e)
    BY <1>1 DEF Heeded
  <1>3. Relocs!Plausible(e)' <=> Relocs!Plausible(e)
    BY DEF Relocs!Plausible
  <1>4. QED
    BY <1>1, <1>2, <1>3

(* Parsing an entry adds a relocation whose word is what the loader would  *)
(* store, or leaves the word to the file.                                  *)
LEMMA ReadEntryInv ==
  ASSUME RelocInv, Relocs!ReadEntry
  PROVE  RelocInv'
  <1>1. PICK e \in Relocs!Entry :
          /\ Relocs!Plausible(e) /\ entries' = Append(entries, e)
          /\ relocs' = IF Heeded(e) THEN Append(relocs, Relocs!Parsed(e)) ELSE relocs
    BY DEF Relocs!ReadEntry, Heeded
  <1>2. /\ format' = format /\ word' = word /\ emitted' = emitted /\ phase' = phase
        /\ phase = "reading" /\ Len(entries) < MaxEntries
    BY DEF Relocs!ReadEntry
  <1>3. /\ entries \in Seq(Relocs!Entry) /\ Len(entries) \in Nat
        /\ DOMAIN entries = 1 .. Len(entries)
        /\ relocs \in Seq(RelocRec)
        /\ DOMAIN relocs = 1 .. Len(relocs) /\ Len(relocs) \in Nat
    BY DEF RelocInv, RelocTypes
  <1>4. /\ entries' \in Seq(Relocs!Entry) /\ Len(entries') = Len(entries) + 1
        /\ DOMAIN entries' = 1 .. Len(entries) + 1
        /\ entries'[Len(entries) + 1] = e
        /\ \A i \in DOMAIN entries : i \in DOMAIN entries' /\ entries'[i] = entries[i]
    BY <1>1, <1>3
  <1> DEFINE r == Relocs!Parsed(e)
  <1>5. /\ relocs' \in Seq(RelocRec)
        /\ \A k \in DOMAIN relocs : k \in DOMAIN relocs' /\ relocs'[k] = relocs[k]
        /\ \A k \in DOMAIN relocs' : k \in DOMAIN relocs \/ (Heeded(e) /\ relocs'[k] = r)
        /\ Heeded(e) => \E k \in DOMAIN relocs' : relocs'[k] = r
    <2> HIDE DEF r
    <2>1. CASE Heeded(e)
      <3>1. relocs' = Append(relocs, r) /\ r \in RelocRec
        BY <1>1, <2>1, ParsedType DEF r, RelocInv, Heeded
      <3>2. /\ relocs' \in Seq(RelocRec)
            /\ Len(relocs') = Len(relocs) + 1 /\ DOMAIN relocs' = 1 .. Len(relocs) + 1
            /\ relocs'[Len(relocs) + 1] = r
            /\ \A k \in DOMAIN relocs : relocs'[k] = relocs[k]
        BY <3>1, <1>3
      <3>3. QED
        BY <3>2, <2>1, <1>3
    <2>2. CASE ~ Heeded(e)
      BY <2>2, <1>1, <1>3
    <2>3. QED
      BY <2>1, <2>2
  <1>6. RelocTypes'
    BY <1>2, <1>3, <1>4, <1>5, MaxEntriesAssumption DEF RelocInv, RelocTypes
  <1>7. RelocsParsed'
    <2>1. \A i \in DOMAIN entries' : Relocs!Plausible(entries'[i])
      BY <1>1, <1>3, <1>4 DEF RelocInv, RelocsParsed
    <2>2. \A k \in DOMAIN relocs' :
            \E i \in DOMAIN entries' : Heeded(entries'[i]) /\ relocs'[k] = Relocs!Parsed(entries'[i])
      <3> TAKE k \in DOMAIN relocs'
      <3>1. CASE k \in DOMAIN relocs
        <4>1. PICK i \in DOMAIN entries :
                Heeded(entries[i]) /\ relocs[k] = Relocs!Parsed(entries[i])
          BY <3>1 DEF RelocInv, RelocsParsed
        <4>2. QED
          BY <4>1, <3>1, <1>4, <1>5
      <3>2. CASE Heeded(e) /\ relocs'[k] = r
        <4>1. Len(entries) + 1 \in DOMAIN entries'
          BY <1>3, <1>4
        <4>2. QED
          BY <3>2, <4>1, <1>4
      <3>3. QED
        BY <3>1, <3>2, <1>5
    <2>3. \A i \in DOMAIN entries' :
            Heeded(entries'[i]) => \E k \in DOMAIN relocs' : relocs'[k] = Relocs!Parsed(entries'[i])
      <3> SUFFICES ASSUME NEW i \in DOMAIN entries', Heeded(entries'[i])
                   PROVE  \E k \in DOMAIN relocs' : relocs'[k] = Relocs!Parsed(entries'[i])
        OBVIOUS
      <3>1. CASE i \in DOMAIN entries
        <4>1. PICK k \in DOMAIN relocs : relocs[k] = Relocs!Parsed(entries[i])
          BY <3>1, <1>4 DEF RelocInv, RelocsParsed
        <4>2. QED
          BY <4>1, <3>1, <1>4, <1>5
      <3>2. CASE i = Len(entries) + 1
        BY <3>2, <1>4, <1>5
      <3>3. QED
        BY <3>1, <3>2, <1>3, <1>4
    <2>4. QED
      BY <2>1, <2>2, <2>3, <1>2, ParsedStays DEF RelocsParsed
  <1>8. WordsWritten'
    <2>1. DOMAIN emitted' = {}
      BY <1>2 DEF RelocInv, WordsWritten
    <2>2. QED
      BY <2>1 DEF WordsWritten
  <1>9. QED
    BY <1>6, <1>7, <1>8 DEF RelocInv

(* A word is written once, with the operand of its relocation.             *)
LEMMA EmitWordInv ==
  ASSUME RelocInv, NEW addr \in Slots, Relocs!EmitWord(addr)
  PROVE  RelocInv'
  <1>1. /\ format' = format /\ word' = word /\ entries' = entries /\ relocs' = relocs
        /\ phase' = phase /\ phase = "emitting"
    BY DEF Relocs!EmitWord
  <1>2. /\ DOMAIN emitted' = DOMAIN emitted \cup {addr}
        /\ \A s \in DOMAIN emitted : s # addr /\ emitted'[s] = emitted[s]
        /\ emitted'[addr] = IF Relocs!Matching(addr) = {} THEN Relocs!Bytes
                            ELSE Relocs!Operand(relocs[FirstMatch(addr)])
    BY DEF Relocs!EmitWord, FirstMatch
  <1>3. RelocTypes'
    BY <1>1, <1>2 DEF RelocInv, RelocTypes
  <1>4. RelocsParsed'
    BY <1>1, ParsedStays DEF RelocInv, RelocsParsed
  <1>5. \A s : /\ Relocs!Matching(s)' = Relocs!Matching(s) /\ FirstMatch(s)' = FirstMatch(s)
    BY <1>1 DEF Relocs!Matching, FirstMatch
  <1>6. \A s \in DOMAIN emitted' :
          emitted'[s] = IF Relocs!Matching(s) = {} THEN Relocs!Bytes
                        ELSE Relocs!Operand(relocs[FirstMatch(s)])
    BY <1>2 DEF RelocInv, WordsWritten
  <1>7. WordsWritten'
    <2>1. phase' # "reading"
      BY <1>1
    <2>2. \A r : Relocs!Operand(r)' = Relocs!Operand(r)
      BY DEF Relocs!Operand, Relocs!SegmentsOf, Relocs!OffsetInTarget, Relocs!FindSegment
    <2>3. \A s \in DOMAIN emitted' :
            emitted'[s] = IF Relocs!Matching(s)' = {} THEN Relocs!Bytes
                          ELSE Relocs!Operand(relocs'[FirstMatch(s)'])
      BY <1>1, <1>5, <1>6
    <2>4. QED
      BY <2>1, <2>2, <2>3 DEF WordsWritten
  <1>8. QED
    BY <1>3, <1>4, <1>7 DEF RelocInv

(* Every step of the relocations keeps their invariant.                    *)
LEMMA RelocStepInv ==
  ASSUME RelocInv, [Relocs!Next]_reloc_vars
  PROVE  RelocInv'
  <1>1. CASE Relocs!ReadEntry
    BY <1>1, ReadEntryInv
  <1>2. CASE Relocs!EndOfEntries \/ UNCHANGED reloc_vars
    <2>1. /\ format' = format /\ word' = word /\ entries' = entries /\ relocs' = relocs
          /\ emitted' = emitted /\ phase' \in {phase, "emitting"}
      BY <1>2 DEF Relocs!EndOfEntries, reloc_vars
    <2>2. RelocTypes'
      BY <2>1 DEF RelocInv, RelocTypes
    <2>3. RelocsParsed'
      BY <2>1, ParsedStays DEF RelocInv, RelocsParsed
    <2>4. \A s : /\ Relocs!Matching(s)' = Relocs!Matching(s) /\ FirstMatch(s)' = FirstMatch(s)
      BY <2>1 DEF Relocs!Matching, FirstMatch
    <2>5. WordsWritten'
      BY <2>1, <2>4 DEF RelocInv, WordsWritten
    <2>6. QED
      BY <2>2, <2>3, <2>5 DEF RelocInv
  <1>3. CASE \E addr \in Slots : Relocs!EmitWord(addr)
    BY <1>3, EmitWordInv
  <1>4. QED
    BY <1>1, <1>2, <1>3 DEF Relocs!Next

-----------------------------------------------------------------------------
(* A word with one entry that is heeded holds the operand of that entry, a *)
(* word without an entry its bytes.                                        *)
LEMMA Matched ==
  ASSUME RelocInv, NEW s \in DOMAIN emitted
  PROVE  /\ Relocs!Of(s) = {} => emitted[s] = Relocs!Bytes
         /\ \A i \in DOMAIN entries :
              Relocs!Of(s) = {i} /\ Heeded(entries[i]) =>
                emitted[s] = Relocs!Operand(Relocs!Parsed(entries[i]))
  <1>0. \A i \in DOMAIN entries : entries[i] \in Relocs!Entry
    BY DEF RelocInv, RelocTypes
  <1>1. \A k \in Relocs!Matching(s) :
          \E i \in Relocs!Of(s) : relocs[k] = Relocs!Parsed(entries[i])
    <2> TAKE k \in Relocs!Matching(s)
    <2>1. k \in DOMAIN relocs /\ relocs[k].offset = s
      BY DEF Relocs!Matching
    <2>2. PICK i \in DOMAIN entries : Heeded(entries[i]) /\ relocs[k] = Relocs!Parsed(entries[i])
      BY <2>1 DEF RelocInv, RelocsParsed
    <2>3. entries[i].offset = s
      BY <2>1, <2>2, <1>0, ParsedFacts DEF Heeded
    <2>4. QED
      BY <2>2, <2>3 DEF Relocs!Of, Heeded
  <1>2. emitted[s] = IF Relocs!Matching(s) = {} THEN Relocs!Bytes
                     ELSE Relocs!Operand(relocs[FirstMatch(s)])
    BY DEF RelocInv, WordsWritten
  <1>3. ASSUME NEW i \in DOMAIN entries, Relocs!Of(s) = {i}, Heeded(entries[i])
        PROVE  emitted[s] = Relocs!Operand(Relocs!Parsed(entries[i]))
    <2>1. entries[i].offset = s
      BY <1>3 DEF Relocs!Of
    <2>2. PICK k \in DOMAIN relocs : relocs[k] = Relocs!Parsed(entries[i])
      BY <1>3 DEF RelocInv, RelocsParsed
    <2>3. k \in Relocs!Matching(s)
      BY <2>1, <2>2, <1>0, <1>3, ParsedFacts DEF Heeded, Relocs!Matching
    <2>4. Relocs!Matching(s) \in SUBSET Nat
      BY DEF RelocInv, RelocTypes, Relocs!Matching
    <2>5. FirstMatch(s) \in Relocs!Matching(s)
      BY <2>3, <2>4, Least DEF FirstMatch
    <2>6. QED
      BY <1>1, <1>2, <1>3, <2>3, <2>5
  <1>4. QED
    BY <1>1, <1>2, <1>3

(* An operand of no symbol stands for the address it was made of.          *)
LEMMA ImageOperand ==
  ASSUME NEW r, r.sym = Relocs!NoSymbol, Relocs!SegmentsOf(r.addend) # {},
         r.addend \in 0 .. Relocs!Modulus - 1
  PROVE  Relocs!Holds(Relocs!Operand(r)) = [of |-> "image", at |-> r.addend]
  <1> DEFINE f == Relocs!FindSegment(r.addend)
             o == Relocs!Operand(r)
  <1>1. Relocs!SegmentsOf(r.addend) \in SUBSET Nat
    BY RelocationsAssumption DEF Relocs!Linked, Relocs!SegmentsOf
  <1>2. f \in Relocs!SegmentsOf(r.addend)
    BY <1>1, Least DEF Relocs!FindSegment
  <1>3. RelocSegments[f].vaddr \in Nat
    BY <1>2, RelocationsAssumption DEF Relocs!Linked, Relocs!SegmentsOf
  <1>4. o = [kind |-> "segment", name |-> f, off |-> r.addend - RelocSegments[f].vaddr]
    BY DEF Relocs!Operand, Relocs!OffsetInTarget
  <1>5. Relocs!Modulus \in Nat \ {0}
    BY RelocationsAssumption DEF Relocs!Linked, Relocs!Modulus
  <1>6. RelocSegments[f].vaddr + (r.addend - RelocSegments[f].vaddr) = r.addend
    BY <1>3, <1>5
  <1>7. r.addend % Relocs!Modulus = r.addend
    BY <1>5, Small
  <1>8. o.kind = "segment" /\ o.name = f /\ o.off = r.addend - RelocSegments[f].vaddr
    BY <1>4
  <1>9. Relocs!Holds(o) = [of |-> "image",
                           at |-> (RelocSegments[f].vaddr + o.off) % Relocs!Modulus]
    BY <1>8 DEF Relocs!Holds
  <1> HIDE DEF f, o
  <1>10. RelocSegments[f].vaddr + o.off = r.addend
    BY <1>6, <1>8
  <1>11. QED
    BY <1>7, <1>9, <1>10 DEF o

(* What an entry is understood to say is what the ELF loader stores.       *)
LEMMA AsStored ==
  ASSUME RelocTypes, NEW i \in DOMAIN entries, Relocs!Plausible(entries[i]), Relocs!Handled(i)
  PROVE  /\ Relocs!Parsed(entries[i]).valid
         /\ Relocs!Holds(Relocs!Operand(Relocs!Parsed(entries[i]))) = Relocs!Stored(entries[i])
  <1> DEFINE e == entries[i]
             p == Relocs!Parsed(e)
             a == Relocs!ElfAddend(e)
             v == IF e.type = "RELATIVE" THEN 0 ELSE e.sym.value
  <1>1. e \in Relocs!Entry
    BY DEF RelocTypes
  <1>2. /\ Wide \in Nat \ {0} /\ Narrow \in Nat \ {0} /\ Narrow <= Wide
        /\ Relocs!Modulus \in Nat \ {0} /\ Relocs!Modulus <= Wide
        /\ Relocs!Modulus = IF format = "RELA" THEN Wide ELSE Narrow
    BY RelocationsAssumption DEF Relocs!Linked, Relocs!Modulus
  <1>3. /\ e.type \in {"RELATIVE", "GLOB_DAT", "JUMP_SLOT"}
        /\ format # "REL" \/ e.type # "JUMP_SLOT"
        /\ Relocs!InImage(i)
    BY <1>1 DEF Relocs!Handled, Relocs!Entry, Relocs!Types
  <1>4. /\ e.offset \in Slots /\ Relocs!InSection(e.offset)
        /\ Relocs!WordRead(e.offset) = word[e.offset] /\ word[e.offset] \in Words
    BY <1>1, SlotRead DEF Relocs!Entry, RelocTypes
  <1>5. p.valid
    BY <1>1, <1>3, ParsedFacts
  (* What the loader adds, and what the code does.                         *)
  <1>6. /\ a \in Int /\ v \in Int
        /\ Relocs!Addend(e) \in 0 .. Wide - 1
        /\ Relocs!Addend(e) % Relocs!Modulus = a % Relocs!Modulus
        /\ ((v + Relocs!Addend(e)) % Wide) % Relocs!Modulus = (v + a) % Relocs!Modulus
        /\ (v + Relocs!Addend(e)) % Wide \in 0 .. Relocs!Modulus - 1
    <2>1. /\ e.addend \in Int /\ e.sym \in RelocSymbols /\ e.sym.value \in Nat
          /\ format = "REL" => e.sym.value \in 0 .. Narrow - 1
          /\ word[e.offset] \in 0 .. Narrow - 1
      <3>1. e.addend \in Addends /\ e.sym \in RelocSymbols
        BY <1>1 DEF Relocs!Entry
      <3>2. e.addend \in Int /\ word[e.offset] \in 0 .. Narrow - 1
        BY <3>1, <1>4, RelocationsAssumption DEF Relocs!Linked
      <3>3. e.sym.value \in 0 .. (IF "REL" \in Formats THEN Narrow ELSE Wide) - 1
        BY <3>1, RelocationsAssumption DEF Relocs!Linked
      <3>4. format \in Formats
        BY DEF RelocTypes
      <3>5. QED
        BY <1>2, <3>1, <3>2, <3>3, <3>4
    <2>2. v \in Int
      BY <2>1
    <2>3. CASE format = "RELA"
      <3>1. a = e.addend /\ Relocs!Addend(e) = e.addend % Wide /\ Relocs!Modulus = Wide
        BY <2>3, <1>2 DEF Relocs!ElfAddend, Relocs!Addend
      <3> DEFINE u == Relocs!Addend(e)
                 M == Relocs!Modulus
      <3>2. a \in Int /\ u = a % Wide /\ M = Wide
        BY <2>1, <3>1
      <3> HIDE DEF v, a, u, M
      <3>3. Reduces(Wide, a, v, u)
        BY <1>2, <2>2, <3>2, Modular
      <3>4. /\ a \in Int /\ v \in Int /\ u \in 0 .. Wide - 1 /\ u % M = a % M
            /\ ((v + u) % Wide) % M = (v + a) % M
            /\ (v + u) % Wide \in 0 .. M - 1
        BY <2>2, <3>2, <3>3 DEF Reduces
      <3>5. QED
        BY <3>4 DEF u, M
    <2>4. CASE format # "RELA"
      <3>1. format = "REL" /\ Relocs!Modulus = Narrow /\ e.type \in {"RELATIVE", "GLOB_DAT"}
        BY <2>4, <1>2, <1>3, RelocationsAssumption DEF Relocs!Linked, RelocTypes
      <3>2. e.type = "GLOB_DAT" => word[e.offset] = 0
        BY <3>1 DEF Relocs!Plausible
      <3>3. Relocs!Addend(e) = a /\ a \in 0 .. Narrow - 1 /\ v + a \in 0 .. Narrow - 1
        <4>1. Relocs!Addend(e) = word[e.offset]
          BY <2>4, <1>4 DEF Relocs!Addend
        <4>2. a = word[e.offset]
          BY <2>4, <3>1, <3>2 DEF Relocs!ElfAddend
        <4>3. CASE e.type = "RELATIVE"
          BY <4>1, <4>2, <4>3, <2>1
        <4>4. CASE e.type = "GLOB_DAT"
          BY <4>1, <4>2, <4>4, <2>1, <3>1, <3>2
        <4>5. QED
          BY <4>3, <4>4, <3>1
      <3> HIDE DEF v, a
      <3>4. /\ a \in Int /\ v + a \in Int
            /\ a \in 0 .. Wide - 1 /\ v + a \in 0 .. Wide - 1
        BY <3>3, <1>2
      <3>5. (v + a) % Wide = v + a /\ (v + a) % Narrow = v + a
        BY <3>3, <3>4, <1>2, Small
      <3>6. QED
        BY <2>2, <3>1, <3>3, <3>4, <3>5
    <2>5. QED
      BY <2>3, <2>4
  <1>7. CASE e.type = "RELATIVE" \/ e.sym.defined
    <2>1. p = Relocs!Reloc(e, v + Relocs!Addend(e), Relocs!NoSymbol)
      BY <1>3, <1>4, <1>6, <1>7 DEF Relocs!Parsed
    <2>2. Relocs!Stored(e) = [of |-> "image", at |-> (v + a) % Relocs!Modulus]
      BY <1>6, <1>7 DEF Relocs!Stored
    <2> DEFINE x == (v + Relocs!Addend(e)) % Wide
    <2>3. p.sym = Relocs!NoSymbol /\ p.addend = x
      BY <2>1 DEF Relocs!Reloc
    <2>4. x % Relocs!Modulus = x /\ x = (v + a) % Relocs!Modulus
      <3>1. x \in 0 .. Relocs!Modulus - 1 /\ x % Relocs!Modulus = (v + a) % Relocs!Modulus
        BY <1>6
      <3> HIDE DEF x
      <3>2. x % Relocs!Modulus = x
        BY <3>1, <1>2, Small
      <3>3. QED
        BY <3>1, <3>2
    <2>5. Relocs!SegmentsOf(p.addend) # {}
      BY <1>3, <2>2, <2>3, <2>4 DEF Relocs!InImage
    <2>6. Relocs!Holds(Relocs!Operand(p)) = [of |-> "image", at |-> p.addend]
      BY <2>3, <2>5, <1>6, ImageOperand
    <2>7. QED
      BY <1>5, <2>2, <2>3, <2>4, <2>6
  <1>8. CASE e.type # "RELATIVE" /\ ~ e.sym.defined
    <2>1. p = Relocs!Reloc(e, Relocs!Addend(e), e.sym.name)
      BY <1>3, <1>4, <1>8 DEF Relocs!Parsed
    <2>2. p.sym = e.sym.name /\ e.sym.name # Relocs!NoSymbol /\ p.addend = Relocs!Addend(e) % Wide
      BY <2>1, <1>1, RelocationsAssumption DEF Relocs!Reloc, Relocs!Linked, Relocs!Entry
    <2>3. Relocs!Addend(e) % Wide = Relocs!Addend(e)
      BY <1>2, <1>6, Small
    <2>4. Relocs!Operand(p) = [kind |-> "symbol", name |-> e.sym.name, off |-> Relocs!Addend(e)]
      BY <2>2, <2>3 DEF Relocs!Operand
    <2>5. Relocs!Holds(Relocs!Operand(p))
            = [of |-> e.sym.name, at |-> Relocs!Addend(e) % Relocs!Modulus]
      BY <2>4 DEF Relocs!Holds
    <2>6. Relocs!Stored(e) = [of |-> e.sym.name, at |-> a % Relocs!Modulus]
      BY <1>8 DEF Relocs!Stored
    <2>7. QED
      BY <1>5, <1>6, <2>5, <2>6
  <1>9. QED
    BY <1>7, <1>8

(* Each pointer of the file holds in the image what the ELF loader would   *)
(* have stored there, and no other word is touched.                        *)
LEMMA RelocWords == RelocInv => Relocs!WordsAsLoaded
  <1> SUFFICES ASSUME RelocInv PROVE Relocs!WordsAsLoaded
    OBVIOUS
  <1>1. ASSUME NEW i \in Relocs!Pointers, Relocs!Written(i), Relocs!Handled(i)
        PROVE  Relocs!AsLoaded(i)
    <2>1. /\ i \in DOMAIN entries /\ Relocs!ForTheLoader(entries[i])
          /\ Relocs!Of(entries[i].offset) = {i} /\ entries[i].offset \in DOMAIN emitted
      BY <1>1 DEF Relocs!Pointers, Relocs!Written
    <2>2. Relocs!Plausible(entries[i])
      BY <2>1 DEF RelocInv, RelocsParsed
    <2>3. /\ Relocs!Parsed(entries[i]).valid
          /\ Relocs!Holds(Relocs!Operand(Relocs!Parsed(entries[i]))) = Relocs!Stored(entries[i])
      BY <1>1, <2>1, <2>2, AsStored DEF RelocInv
    <2>4. Heeded(entries[i])
      BY <2>1, <2>3 DEF Heeded
    <2>5. QED
      BY <2>1, <2>3, <2>4, Matched DEF Relocs!AsLoaded
  <1>2. QED
    BY <1>1, Matched DEF Relocs!WordsAsLoaded

-----------------------------------------------------------------------------
(* The line tables: what has been read of a unit.                          *)
ReadOf(u, all, some) ==
  IF ~ units[u].table \/ u > cu THEN 0 ELSE IF u < cu THEN Len(all) ELSE some

FilesRead(u) == ReadOf(u, units[u].files, files)
RowsRead(u)  == ReadOf(u, units[u].rows, rows)

LinesTypes ==
  /\ Lines!ProgramType(units)
  /\ cu \in 1 .. Len(units) + 1 /\ files \in Nat /\ rows \in Nat
  /\ next_global_file_idx \in Nat \ {0}
  /\ cu <= Len(units) => /\ files <= Len(units[cu].files) /\ rows <= Len(units[cu].rows)
                         /\ units[cu].table \/ (files = 0 /\ rows = 0)
                         /\ files = Len(units[cu].files) \/ rows = 0

NumbersGiven ==
  \A p \in DOMAIN globalFilePaths : globalFilePaths[p] \in 1 .. next_global_file_idx - 1

(* The number of a unit's i-th file.                                       *)
FileNumber(u, i) == i - 1 + Lines!FirstFile(units[u])

(* The table of a unit has the numbers of the files that have been read    *)
(* and have a path, and gives each the number of its path.                 *)
FilesNumbered ==
  /\ DOMAIN localToGlobal = DOMAIN units
  /\ \A u \in DOMAIN units :
       /\ \A n \in DOMAIN localToGlobal[u] :
            \E i \in 1 .. FilesRead(u) : n = FileNumber(u, i) /\ units[u].files[i] # NoPath
       /\ \A i \in 1 .. FilesRead(u) :
            units[u].files[i] # NoPath =>
              /\ FileNumber(u, i) \in DOMAIN localToGlobal[u]
              /\ Lines!FinalPath(units[u].files[i]) \in DOMAIN globalFilePaths
              /\ localToGlobal[u][FileNumber(u, i)] =
                   globalFilePaths[Lines!FinalPath(units[u].files[i])]

(* Row i of unit u says something of an address.                           *)
Says(u, i, a) == Lines!Holds(units[u], units[u].rows[i], a)

(* No later row that has been read does.                                   *)
SaysLast(u, i, a) ==
  /\ Says(u, i, a)
  /\ \A v \in DOMAIN units : \A j \in 1 .. RowsRead(v) :
       Says(v, j, a) => v < u \/ (v = u /\ j <= i)

PathSaid(u, i) == Lines!FinalPath(Lines!PathOf(units[u], units[u].rows[i].file))

(* The map has the address of every row read so far that says something,   *)
(* and of each what the last such row says.                                *)
RowsMapped ==
  /\ \A u \in DOMAIN units : \A i \in 1 .. RowsRead(u) :
       Says(u, i, units[u].rows[i].addr) => units[u].rows[i].addr \in DOMAIN addrToLineMap
  /\ \A a \in DOMAIN addrToLineMap :
       \E u \in DOMAIN units : \E i \in 1 .. RowsRead(u) :
         /\ SaysLast(u, i, a) /\ PathSaid(u, i) \in DOMAIN globalFilePaths
         /\ addrToLineMap[a] = [file |-> globalFilePaths[PathSaid(u, i)],
                                line |-> units[u].rows[i].line]

LinesInv == LinesTypes /\ NumbersGiven /\ FilesNumbered /\ RowsMapped

-----------------------------------------------------------------------------
(* The types of a unit, its file list and its rows.                        *)
LEMMA UnitFacts ==
  ASSUME LinesTypes
  PROVE  /\ Len(units) \in Nat /\ DOMAIN units = 1 .. Len(units)
         /\ \A u \in DOMAIN units :
              /\ units[u].table \in BOOLEAN /\ Lines!FirstFile(units[u]) \in {0, 1}
              /\ Len(units[u].files) \in Nat
              /\ DOMAIN units[u].files = 1 .. Len(units[u].files)
              /\ Len(units[u].rows) \in Nat
              /\ DOMAIN units[u].rows = 1 .. Len(units[u].rows)
              /\ \A i \in DOMAIN units[u].rows :
                   units[u].rows[i] \in [addr: Nat, file: Nat, line: Nat, end: BOOLEAN]
  <1>1. Len(units) \in Nat /\ DOMAIN units = 1 .. Len(units)
    BY DEF LinesTypes, Lines!ProgramType
  <1>2. ASSUME NEW u \in DOMAIN units
        PROVE  /\ units[u].table \in BOOLEAN /\ Lines!FirstFile(units[u]) \in {0, 1}
               /\ Len(units[u].files) \in Nat
               /\ DOMAIN units[u].files = 1 .. Len(units[u].files)
               /\ Len(units[u].rows) \in Nat
               /\ DOMAIN units[u].rows = 1 .. Len(units[u].rows)
               /\ \A i \in DOMAIN units[u].rows :
                    units[u].rows[i] \in [addr: Nat, file: Nat, line: Nat, end: BOOLEAN]
    <2>1. Lines!UnitType(units[u])
      BY DEF LinesTypes, Lines!ProgramType
    <2> DEFINE RowSet  == [addr: Nat, file: Nat, line: Nat, end: BOOLEAN]
               FileSet == Seq(STRING) \cup {NoPath}
    <2>2. units[u].rows \in Seq(RowSet) /\ units[u].files \in Seq(FileSet)
      BY <2>1 DEF Lines!UnitType
    <2>3. units[u].table \in BOOLEAN /\ Lines!FirstFile(units[u]) \in {0, 1}
      BY <2>1 DEF Lines!UnitType, Lines!FirstFile
    <2> HIDE DEF RowSet, FileSet
    <2>4. /\ Len(units[u].files) \in Nat
          /\ DOMAIN units[u].files = 1 .. Len(units[u].files)
          /\ Len(units[u].rows) \in Nat
          /\ DOMAIN units[u].rows = 1 .. Len(units[u].rows)
          /\ \A i \in DOMAIN units[u].rows : units[u].rows[i] \in RowSet
      BY <2>2
    <2>5. QED
      BY <2>3, <2>4 DEF RowSet
  <1>3. QED
    BY <1>1, <1>2

(* Once the files of a unit have been read, its table has the numbers that *)
(* stand for a path, and gives each the number of that path.               *)
LEMMA NumberedPaths ==
  ASSUME LinesTypes, FilesNumbered, NEW u \in DOMAIN units, NEW n \in Nat,
         FilesRead(u) = Len(units[u].files)
  PROVE  /\ n \in DOMAIN localToGlobal[u] <=> Lines!PathOf(units[u], n) # NoPath
         /\ n \in DOMAIN localToGlobal[u] =>
              /\ Lines!FinalPath(Lines!PathOf(units[u], n)) \in DOMAIN globalFilePaths
              /\ localToGlobal[u][n] =
                   globalFilePaths[Lines!FinalPath(Lines!PathOf(units[u], n))]
  <1> DEFINE i == IF Lines!FirstFile(units[u]) = 0 THEN n + 1 ELSE n
  <1>1. /\ Lines!FirstFile(units[u]) \in {0, 1} /\ Len(units[u].files) \in Nat
        /\ DOMAIN units[u].files = 1 .. Len(units[u].files)
    BY UnitFacts
  <1>2. i \in Int /\ n = FileNumber(u, i)
    BY <1>1 DEF FileNumber
  <1>3. Lines!PathOf(units[u], n) =
          IF i \in 1 .. Len(units[u].files) THEN units[u].files[i] ELSE NoPath
    BY <1>1 DEF Lines!PathOf, Lines!FirstFile
  <1>4. ASSUME NEW j \in 1 .. FilesRead(u), n = FileNumber(u, j)
        PROVE  j = i
    BY <1>4, <1>1 DEF FileNumber
  <1> HIDE DEF i
  <1>5. ASSUME n \in DOMAIN localToGlobal[u]
        PROVE  Lines!PathOf(units[u], n) # NoPath
    <2>1. PICK j \in 1 .. FilesRead(u) : n = FileNumber(u, j) /\ units[u].files[j] # NoPath
      BY <1>5 DEF FilesNumbered
    <2>2. QED
      BY <2>1, <1>3, <1>4
  <1>6. ASSUME Lines!PathOf(units[u], n) # NoPath
        PROVE  /\ n \in DOMAIN localToGlobal[u]
               /\ Lines!FinalPath(Lines!PathOf(units[u], n)) \in DOMAIN globalFilePaths
               /\ localToGlobal[u][n] =
                    globalFilePaths[Lines!FinalPath(Lines!PathOf(units[u], n))]
    <2>1. i \in 1 .. FilesRead(u) /\ Lines!PathOf(units[u], n) = units[u].files[i]
      BY <1>6, <1>3
    <2>2. QED
      BY <2>1, <1>2, <1>6 DEF FilesNumbered
  <1>7. QED
    BY <1>5, <1>6

(* What stays while units stays.                                           *)
LEMMA UnitsStay ==
  ASSUME units' = units
  PROVE  /\ \A u, i : FileNumber(u, i)' = FileNumber(u, i) /\ PathSaid(u, i)' = PathSaid(u, i)
         /\ \A u, i, a : Says(u, i, a)' <=> Says(u, i, a)
  BY DEF FileNumber, PathSaid, Says

(* Files that are added leave the rows mapped.                             *)
LEMMA RowsKept ==
  ASSUME RowsMapped, units' = units, addrToLineMap' = addrToLineMap,
         \A u \in DOMAIN units : RowsRead(u)' = RowsRead(u),
         \A p \in DOMAIN globalFilePaths :
           p \in DOMAIN globalFilePaths' /\ globalFilePaths'[p] = globalFilePaths[p]
  PROVE  RowsMapped'
  <1>1. \A u \in DOMAIN units : \A i, a : SaysLast(u, i, a)' <=> SaysLast(u, i, a)
    BY UnitsStay DEF SaysLast
  <1>2. \A u \in DOMAIN units : \A i \in 1 .. RowsRead(u) :
          Says(u, i, units[u].rows[i].addr)' => units[u].rows[i].addr \in DOMAIN addrToLineMap
    BY UnitsStay DEF RowsMapped
  <1>3. ASSUME NEW a \in DOMAIN addrToLineMap
        PROVE  \E u \in DOMAIN units : \E i \in 1 .. RowsRead(u) :
                 /\ SaysLast(u, i, a)' /\ PathSaid(u, i)' \in DOMAIN globalFilePaths'
                 /\ addrToLineMap[a] = [file |-> globalFilePaths'[PathSaid(u, i)'],
                                        line |-> units[u].rows[i].line]
    <2>0. PICK u \in DOMAIN units : \E i \in 1 .. RowsRead(u) :
            /\ SaysLast(u, i, a) /\ PathSaid(u, i) \in DOMAIN globalFilePaths
            /\ addrToLineMap[a] = [file |-> globalFilePaths[PathSaid(u, i)],
                                   line |-> units[u].rows[i].line]
      BY <1>3 DEF RowsMapped
    <2>1. PICK i \in 1 .. RowsRead(u) :
            /\ SaysLast(u, i, a) /\ PathSaid(u, i) \in DOMAIN globalFilePaths
            /\ addrToLineMap[a] = [file |-> globalFilePaths[PathSaid(u, i)],
                                   line |-> units[u].rows[i].line]
      BY <2>0
    <2>2. PathSaid(u, i)' = PathSaid(u, i) /\ SaysLast(u, i, a)'
      BY <2>1, <1>1, UnitsStay
    <2>3. QED
      BY <2>1, <2>2
  <1>4. QED
    BY <1>2, <1>3 DEF RowsMapped

(* The numbers of files stay those of their paths.                         *)
LEMMA FilesKept ==
  ASSUME FilesNumbered, units' = units, localToGlobal' = localToGlobal,
         globalFilePaths' = globalFilePaths,
         \A u \in DOMAIN units : FilesRead(u)' = FilesRead(u)
  PROVE  FilesNumbered'
  BY UnitsStay DEF FilesNumbered

(* Before the first unit there is nothing to agree with.                   *)
LEMMA LinesInit == Lines!Init => LinesInv
  <1> SUFFICES ASSUME Lines!Init PROVE LinesInv
    OBVIOUS
  <1>1. /\ Lines!ProgramType(units) /\ cu = 1 /\ files = 0 /\ rows = 0
        /\ next_global_file_idx = 1 /\ DOMAIN globalFilePaths = {} /\ DOMAIN addrToLineMap = {}
        /\ DOMAIN localToGlobal = DOMAIN units
        /\ \A u \in DOMAIN units : localToGlobal[u] = << >> /\ DOMAIN localToGlobal[u] = {}
    BY ProgramsAssumption DEF Lines!Init
  <1>2. /\ Len(units) \in Nat /\ DOMAIN units = 1 .. Len(units)
        /\ \A u \in DOMAIN units : Len(units[u].files) \in Nat /\ Len(units[u].rows) \in Nat
    BY <1>1 DEF Lines!ProgramType, Lines!UnitType
  <1>3. LinesTypes
    BY <1>1, <1>2 DEF LinesTypes
  <1>4. \A u \in DOMAIN units : FilesRead(u) = 0 /\ RowsRead(u) = 0
    BY <1>1, <1>2 DEF FilesRead, RowsRead, ReadOf
  <1>5. FilesNumbered
    BY <1>1, <1>4 DEF FilesNumbered
  <1>6. RowsMapped
    BY <1>1, <1>4 DEF RowsMapped
  <1>7. NumbersGiven
    BY <1>1 DEF NumbersGiven
  <1>8. QED
    BY <1>3, <1>5, <1>6, <1>7 DEF LinesInv

(* What reading the next file changes of what has been read.               *)
LEMMA NextFileRead ==
  ASSUME LinesTypes, Lines!ReadingFiles, units' = units, cu' = cu, rows' = rows,
         files' = files + 1, next_global_file_idx' \in Nat \ {0}
  PROVE  /\ LinesTypes' /\ cu \in DOMAIN units
         /\ \A u \in DOMAIN units : RowsRead(u)' = RowsRead(u)
         /\ FilesRead(cu) = files /\ FilesRead(cu)' = files + 1
         /\ \A u \in DOMAIN units \ {cu} : FilesRead(u)' = FilesRead(u)
  <1>1. /\ cu \in DOMAIN units /\ cu \in Nat /\ cu <= Len(units) /\ units[cu].table
        /\ files < Len(units[cu].files) /\ files \in Nat /\ Len(units[cu].files) \in Nat
        /\ rows = 0
    BY UnitFacts DEF LinesTypes, Lines!ReadingFiles, Lines!Unit
  <1>2. LinesTypes'
    BY <1>1 DEF LinesTypes
  <1>3. /\ \A u \in DOMAIN units : RowsRead(u)' = RowsRead(u)
        /\ \A u \in DOMAIN units \ {cu} : FilesRead(u)' = FilesRead(u)
    BY <1>1, UnitFacts DEF FilesRead, RowsRead, ReadOf
  <1>4. FilesRead(cu) = files /\ FilesRead(cu)' = files + 1
    BY <1>1 DEF FilesRead, ReadOf
  <1>5. QED
    BY <1>1, <1>2, <1>3, <1>4

(* A file with a path is numbered, whether its path is new or known.       *)
LEMMA NumberFile ==
  ASSUME LinesTypes, FilesNumbered, Lines!ReadingFiles, Lines!ThisFile # NoPath,
         units' = units, cu' = cu, rows' = rows, files' = files + 1,
         next_global_file_idx' \in Nat \ {0},
         \A p \in DOMAIN globalFilePaths :
           p \in DOMAIN globalFilePaths' /\ globalFilePaths'[p] = globalFilePaths[p],
         NEW g, Lines!FinalPath(Lines!ThisFile) \in DOMAIN globalFilePaths',
         g = globalFilePaths'[Lines!FinalPath(Lines!ThisFile)],
         localToGlobal' = [localToGlobal EXCEPT
           ![cu] = Lines!Put(@, files + Lines!FirstFile(Lines!Unit), g)]
  PROVE  FilesNumbered'
  <1>1. /\ cu \in DOMAIN units /\ FilesRead(cu) = files /\ FilesRead(cu)' = files + 1
        /\ \A u \in DOMAIN units \ {cu} : FilesRead(u)' = FilesRead(u)
        /\ files \in Nat
    BY NextFileRead DEF LinesTypes
  <1> DEFINE n == files + Lines!FirstFile(units[cu])
  <1>2. n = FileNumber(cu, files + 1) /\ Lines!ThisFile = units[cu].files[files + 1] /\ n \in Nat
    <2>1. Lines!FirstFile(units[cu]) \in {0, 1}
      BY <1>1, UnitFacts
    <2>2. n = FileNumber(cu, files + 1) /\ n \in Nat
      BY <1>1, <2>1 DEF FileNumber
    <2>3. Lines!ThisFile = units[cu].files[files + 1]
      BY DEF Lines!ThisFile, Lines!Unit
    <2>4. QED
      BY <2>2, <2>3
  <1>3. localToGlobal' = [localToGlobal EXCEPT ![cu] = Lines!Put(@, n, g)]
    BY DEF Lines!Unit
  <1> HIDE DEF n
  <1>4. /\ DOMAIN localToGlobal' = DOMAIN units
        /\ \A u \in DOMAIN units \ {cu} : localToGlobal'[u] = localToGlobal[u]
        /\ localToGlobal'[cu] = Lines!Put(localToGlobal[cu], n, g)
    BY <1>1, <1>3 DEF FilesNumbered
  <1>5. /\ DOMAIN localToGlobal'[cu] = DOMAIN localToGlobal[cu] \cup {n}
        /\ localToGlobal'[cu][n] = g
        /\ \A b \in DOMAIN localToGlobal[cu] \ {n} : localToGlobal'[cu][b] = localToGlobal[cu][b]
    BY <1>4 DEF Lines!Put
  <1>6. \A i \in 1 .. files : FileNumber(cu, i) # n /\ i \in 1 .. files + 1
    BY <1>1, <1>2, UnitFacts DEF FileNumber
  <1>7. ASSUME NEW u \in DOMAIN units, NEW m \in DOMAIN localToGlobal'[u]
        PROVE  \E i \in 1 .. FilesRead(u)' : m = FileNumber(u, i) /\ units[u].files[i] # NoPath
    <2>1. CASE u # cu
      BY <2>1, <1>1, <1>4, <1>7 DEF FilesNumbered
    <2>2. CASE u = cu /\ m = n
      <3>1. files + 1 \in 1 .. FilesRead(u)'
        BY <2>2, <1>1
      <3>2. QED
        BY <3>1, <2>2, <1>2
    <2>3. CASE u = cu /\ m \in DOMAIN localToGlobal[cu]
      <3>1. PICK i \in 1 .. files : m = FileNumber(u, i) /\ units[u].files[i] # NoPath
        BY <2>3, <1>1 DEF FilesNumbered
      <3>2. QED
        BY <3>1, <2>3, <1>1, <1>6
    <2>4. QED
      BY <2>1, <2>2, <2>3, <1>5, <1>7
  <1>8. ASSUME NEW u \in DOMAIN units, NEW i \in 1 .. FilesRead(u)', units[u].files[i] # NoPath
        PROVE  /\ FileNumber(u, i) \in DOMAIN localToGlobal'[u]
               /\ Lines!FinalPath(units[u].files[i]) \in DOMAIN globalFilePaths'
               /\ localToGlobal'[u][FileNumber(u, i)] =
                    globalFilePaths'[Lines!FinalPath(units[u].files[i])]
    <2>1. CASE u # cu
      BY <2>1, <1>1, <1>4, <1>8 DEF FilesNumbered
    <2>2. CASE u = cu /\ i = files + 1
      BY <2>2, <1>2, <1>5
    <2>3. CASE u = cu /\ i \in 1 .. files
      BY <2>3, <1>1, <1>5, <1>6, <1>8 DEF FilesNumbered
    <2>4. QED
      BY <2>1, <2>2, <2>3, <1>1, <1>8
  <1>9. QED
    BY <1>4, <1>7, <1>8, UnitsStay DEF FilesNumbered

(* Reading a file entry, by any of its branches, gives the local number    *)
(* the global number of its path.                                          *)
LEMMA FileInv ==
  ASSUME LinesInv, Lines!NewFile \/ Lines!KnownFile \/ Lines!NamelessFile
  PROVE  LinesInv'
  <1>1. /\ Lines!ReadingFiles /\ units' = units /\ cu' = cu /\ rows' = rows /\ files' = files + 1
        /\ addrToLineMap' = addrToLineMap /\ next_global_file_idx' \in Nat \ {0}
        /\ LinesTypes
    BY DEF LinesInv, LinesTypes, Lines!NewFile, Lines!KnownFile, Lines!NamelessFile
  <1>2. /\ LinesTypes' /\ cu \in DOMAIN units
        /\ \A u \in DOMAIN units : RowsRead(u)' = RowsRead(u)
        /\ FilesRead(cu) = files /\ FilesRead(cu)' = files + 1
        /\ \A u \in DOMAIN units \ {cu} : FilesRead(u)' = FilesRead(u)
    BY <1>1, NextFileRead
  <1> DEFINE Grown == \A p \in DOMAIN globalFilePaths :
               p \in DOMAIN globalFilePaths' /\ globalFilePaths'[p] = globalFilePaths[p]
  <1>3. CASE Lines!NewFile
    <2> DEFINE q == Lines!FinalPath(Lines!ThisFile)
    <2>1. /\ q \notin DOMAIN globalFilePaths /\ next_global_file_idx' = next_global_file_idx + 1
          /\ globalFilePaths' = Lines!Put(globalFilePaths, q, next_global_file_idx)
          /\ Lines!ThisFile # NoPath
          /\ localToGlobal' = [localToGlobal EXCEPT
               ![cu] = Lines!Put(@, files + Lines!FirstFile(Lines!Unit), next_global_file_idx)]
      BY <1>3 DEF Lines!NewFile
    <2> HIDE DEF q
    <2>2. /\ DOMAIN globalFilePaths' = DOMAIN globalFilePaths \cup {q} /\ Grown
          /\ globalFilePaths'[q] = next_global_file_idx
      BY <2>1 DEF Lines!Put
    <2>3. FilesNumbered'
      BY <1>1, <2>1, <2>2, NumberFile DEF q, LinesInv
    <2>4. NumbersGiven'
      BY <2>1, <2>2 DEF NumbersGiven, LinesInv, LinesTypes
    <2>5. RowsMapped'
      BY <1>1, <1>2, <2>2, RowsKept DEF LinesInv
    <2>6. QED
      BY <1>2, <2>3, <2>4, <2>5 DEF LinesInv
  <1>4. CASE Lines!KnownFile
    <2>1. /\ Lines!FinalPath(Lines!ThisFile) \in DOMAIN globalFilePaths
          /\ globalFilePaths' = globalFilePaths /\ Lines!ThisFile # NoPath
          /\ next_global_file_idx' = next_global_file_idx
          /\ localToGlobal' = [localToGlobal EXCEPT
               ![cu] = Lines!Put(@, files + Lines!FirstFile(Lines!Unit),
                                 globalFilePaths[Lines!FinalPath(Lines!ThisFile)])]
      BY <1>4 DEF Lines!KnownFile
    <2>2. FilesNumbered'
      BY <1>1, <2>1, NumberFile DEF LinesInv
    <2>3. NumbersGiven'
      BY <2>1 DEF NumbersGiven, LinesInv
    <2>4. RowsMapped'
      BY <1>1, <1>2, <2>1, RowsKept DEF LinesInv
    <2>5. QED
      BY <1>2, <2>2, <2>3, <2>4 DEF LinesInv
  <1>5. CASE Lines!NamelessFile
    <2>1. /\ Lines!ThisFile = NoPath /\ globalFilePaths' = globalFilePaths
          /\ localToGlobal' = localToGlobal /\ next_global_file_idx' = next_global_file_idx
      BY <1>5 DEF Lines!NamelessFile
    <2>2. units[cu].files[files + 1] = NoPath /\ files \in Nat
      BY <2>1, <1>1 DEF Lines!ThisFile, Lines!Unit, LinesTypes
    <2>3. FilesNumbered'
      <3>1. ASSUME NEW u \in DOMAIN units
            PROVE  /\ \A i \in 1 .. FilesRead(u) : i \in 1 .. FilesRead(u)'
                   /\ \A i \in 1 .. FilesRead(u)' :
                        units[u].files[i] # NoPath => i \in 1 .. FilesRead(u)
        <4>1. CASE u = cu
          <5>0. FilesRead(u)' = FilesRead(cu)'
            BY <1>1, <4>1 DEF FilesRead
          <5>1. FilesRead(u) = files /\ FilesRead(u)' = files + 1
            BY <5>0, <1>2, <4>1
          <5>2. \A i \in 1 .. files + 1 : i \in 1 .. files \/ i = files + 1
            BY <2>2
          <5>3. QED
            BY <5>1, <5>2, <4>1, <2>2
        <4>2. CASE u # cu
          BY <1>2, <4>2
        <4>3. QED
          BY <4>1, <4>2
      <3>2. ASSUME NEW u \in DOMAIN units, NEW n \in DOMAIN localToGlobal[u]
            PROVE  \E i \in 1 .. FilesRead(u)' :
                     n = FileNumber(u, i) /\ units[u].files[i] # NoPath
        <4>1. PICK i \in 1 .. FilesRead(u) : n = FileNumber(u, i) /\ units[u].files[i] # NoPath
          BY <3>2 DEF LinesInv, FilesNumbered
        <4>2. QED
          BY <3>1, <4>1
      <3>3. ASSUME NEW u \in DOMAIN units, NEW i \in 1 .. FilesRead(u)',
                   units[u].files[i] # NoPath
            PROVE  /\ FileNumber(u, i) \in DOMAIN localToGlobal[u]
                   /\ Lines!FinalPath(units[u].files[i]) \in DOMAIN globalFilePaths
                   /\ localToGlobal[u][FileNumber(u, i)] =
                        globalFilePaths[Lines!FinalPath(units[u].files[i])]
        BY <3>1, <3>3 DEF LinesInv, FilesNumbered
      <3>4. QED
        BY <1>1, <2>1, <3>2, <3>3, UnitsStay DEF LinesInv, FilesNumbered
    <2>4. NumbersGiven'
      BY <2>1 DEF NumbersGiven, LinesInv
    <2>5. RowsMapped'
      BY <1>1, <1>2, <2>1, RowsKept DEF LinesInv
    <2>6. QED
      BY <1>2, <2>3, <2>4, <2>5 DEF LinesInv
  <1>6. QED
    BY <1>3, <1>4, <1>5

(* Reading a row replaces the row of its address, and no other.            *)
LEMMA RowInv ==
  ASSUME LinesInv, Lines!ReadRow
  PROVE  LinesInv'
  <1> DEFINE k == rows + 1
             r == units[cu].rows[k]
             value == [file |-> localToGlobal[cu][r.file], line |-> r.line]
  <1>1. /\ units' = units /\ cu' = cu /\ files' = files /\ rows' = k
        /\ next_global_file_idx' = next_global_file_idx
        /\ globalFilePaths' = globalFilePaths /\ localToGlobal' = localToGlobal
        /\ addrToLineMap' = IF Lines!Counts(cu, r) THEN Lines!Put(addrToLineMap, r.addr, value)
                                                   ELSE addrToLineMap
    BY DEF Lines!ReadRow, Lines!ThisRow, Lines!Unit
  <1>2. /\ cu \in DOMAIN units /\ cu \in Nat /\ rows \in Nat /\ units[cu].table
        /\ files = Len(units[cu].files) /\ rows < Len(units[cu].rows)
        /\ k \in DOMAIN units[cu].rows /\ Len(units[cu].rows) \in Nat
        /\ r \in [addr: Nat, file: Nat, line: Nat, end: BOOLEAN]
    <2>1. /\ cu <= Len(units) /\ units[cu].table /\ rows < Len(units[cu].rows)
          /\ ~ (files < Len(units[cu].files)) /\ LinesTypes
      BY DEF Lines!ReadRow, Lines!ReadingRows, Lines!ReadingFiles, Lines!Unit, LinesInv
    <2>2. cu \in DOMAIN units /\ cu \in Nat /\ rows \in Nat
      BY <2>1, UnitFacts DEF LinesTypes
    <2>3. files = Len(units[cu].files) /\ k \in DOMAIN units[cu].rows
      BY <2>1, <2>2, UnitFacts DEF LinesTypes
    <2>4. QED
      BY <2>1, <2>2, <2>3, UnitFacts
  <1>3. LinesTypes'
    BY <1>1, <1>2 DEF LinesTypes, LinesInv
  <1>4. /\ \A u \in DOMAIN units : FilesRead(u)' = FilesRead(u)
        /\ FilesRead(cu) = Len(units[cu].files)
    BY <1>1, <1>2 DEF FilesRead, ReadOf
  <1>5. FilesNumbered' /\ NumbersGiven'
    BY <1>1, <1>4, FilesKept DEF LinesInv, NumbersGiven
  <1>6. ASSUME NEW v \in DOMAIN units
        PROVE  /\ \A j \in 1 .. RowsRead(v) : j \in 1 .. RowsRead(v)'
               /\ \A j \in 1 .. RowsRead(v)' : /\ j \in 1 .. RowsRead(v) \/ (v = cu /\ j = k)
                                               /\ v < cu \/ (v = cu /\ j <= k)
               /\ v = cu => k \in 1 .. RowsRead(v)'
    <2>1. v \in Nat
      BY UnitFacts DEF LinesInv
    <2>2. CASE v = cu
      <3>1. RowsRead(v) = rows /\ RowsRead(v)' = k
        BY <1>1, <1>2, <2>2 DEF RowsRead, ReadOf
      <3>2. QED
        BY <3>1, <2>2, <1>2
    <2>3. CASE v # cu
      <3>1. RowsRead(v)' = RowsRead(v) /\ (v > cu => RowsRead(v) = 0)
        BY <1>1, <1>2, <2>1, <2>3 DEF RowsRead, ReadOf
      <3>2. QED
        BY <3>1, <2>1, <2>3, <1>2
    <2>4. QED
      BY <2>2, <2>3
  <1>7. /\ Lines!Counts(cu, r) <=> Says(cu, k, r.addr)
        /\ \A a : Says(cu, k, a) => a = r.addr
        /\ Lines!Counts(cu, r) =>
             PathSaid(cu, k) \in DOMAIN globalFilePaths /\ value.file = globalFilePaths[PathSaid(cu, k)]
    <2>1. /\ r.file \in DOMAIN localToGlobal[cu] <=> Lines!PathOf(units[cu], r.file) # NoPath
          /\ r.file \in DOMAIN localToGlobal[cu] =>
               /\ Lines!FinalPath(Lines!PathOf(units[cu], r.file)) \in DOMAIN globalFilePaths
               /\ localToGlobal[cu][r.file] =
                    globalFilePaths[Lines!FinalPath(Lines!PathOf(units[cu], r.file))]
      BY <1>2, <1>4, NumberedPaths DEF LinesInv
    <2>2. QED
      BY <2>1 DEF Lines!Counts, Says, Lines!Holds, PathSaid
  <1> HIDE DEF k, r, value
  <1>8. \A u \in DOMAIN units : \A i \in 1 .. RowsRead(u) : \A a :
          SaysLast(u, i, a) /\ ~ Says(cu, k, a) => SaysLast(u, i, a)'
    BY <1>1, <1>6, UnitsStay DEF SaysLast
  <1>9. CASE ~ Lines!Counts(cu, r)
    <2>1. addrToLineMap' = addrToLineMap /\ \A a : ~ Says(cu, k, a)
      BY <1>1, <1>7, <1>9
    <2>2. \A u \in DOMAIN units : \A i \in 1 .. RowsRead(u)' :
            Says(u, i, units[u].rows[i].addr) => units[u].rows[i].addr \in DOMAIN addrToLineMap
      BY <1>6, <2>1 DEF LinesInv, RowsMapped
    <2>3. ASSUME NEW a \in DOMAIN addrToLineMap
          PROVE  \E u \in DOMAIN units : \E i \in 1 .. RowsRead(u)' :
                   /\ SaysLast(u, i, a)' /\ PathSaid(u, i) \in DOMAIN globalFilePaths
                   /\ addrToLineMap[a] = [file |-> globalFilePaths[PathSaid(u, i)],
                                          line |-> units[u].rows[i].line]
      BY <1>6, <1>8, <2>1 DEF LinesInv, RowsMapped
    <2>4. RowsMapped'
      BY <1>1, <2>1, <2>2, <2>3, UnitsStay DEF RowsMapped
    <2>5. QED
      BY <1>3, <1>5, <2>4 DEF LinesInv
  <1>10. CASE Lines!Counts(cu, r)
    <2>1. /\ DOMAIN addrToLineMap' = DOMAIN addrToLineMap \cup {r.addr}
          /\ addrToLineMap'[r.addr] = value
          /\ \A a \in DOMAIN addrToLineMap \ {r.addr} : addrToLineMap'[a] = addrToLineMap[a]
      BY <1>1, <1>10 DEF Lines!Put
    <2>2. \A u \in DOMAIN units : \A i \in 1 .. RowsRead(u)' :
            Says(u, i, units[u].rows[i].addr) => units[u].rows[i].addr \in DOMAIN addrToLineMap'
      BY <1>6, <2>1 DEF LinesInv, RowsMapped, r
    <2>3. ASSUME NEW a \in DOMAIN addrToLineMap'
          PROVE  \E u \in DOMAIN units : \E i \in 1 .. RowsRead(u)' :
                   /\ SaysLast(u, i, a)' /\ PathSaid(u, i) \in DOMAIN globalFilePaths
                   /\ addrToLineMap'[a] = [file |-> globalFilePaths[PathSaid(u, i)],
                                           line |-> units[u].rows[i].line]
      <3>1. CASE a = r.addr
        <4>1. PICK u \in DOMAIN units : u = cu
          BY <1>2
        <4>2. PICK i \in 1 .. RowsRead(u)' : i = k
          BY <1>6, <4>1
        <4>3. Says(u, i, a)
          BY <1>7, <1>10, <3>1, <4>1, <4>2
        <4>4. SaysLast(u, i, a)'
          BY <1>1, <1>6, <4>1, <4>2, <4>3, UnitsStay DEF SaysLast
        <4>5. /\ PathSaid(u, i) \in DOMAIN globalFilePaths
              /\ value = [file |-> globalFilePaths[PathSaid(u, i)], line |-> units[u].rows[i].line]
          BY <1>7, <1>10, <4>1, <4>2 DEF value, r
        <4>6. QED
          BY <2>1, <3>1, <4>4, <4>5
      <3>2. CASE a # r.addr
        <4>1. a \in DOMAIN addrToLineMap /\ addrToLineMap'[a] = addrToLineMap[a]
          BY <2>1, <2>3, <3>2
        <4>2. ~ Says(cu, k, a)
          BY <1>7, <3>2
        <4>3. QED
          BY <4>1, <4>2, <1>6, <1>8 DEF LinesInv, RowsMapped
      <3>3. QED
        BY <3>1, <3>2
    <2>4. RowsMapped'
      BY <1>1, <2>2, <2>3, UnitsStay DEF RowsMapped
    <2>5. QED
      BY <1>3, <1>5, <2>4 DEF LinesInv
  <1>11. QED
    BY <1>9, <1>10

(* The next unit starts with an empty local numbering.                     *)
LEMMA UnitInv ==
  ASSUME LinesInv, Lines!NextUnit
  PROVE  LinesInv'
  <1>1. /\ units' = units /\ cu' = cu + 1 /\ files' = 0 /\ rows' = 0
        /\ next_global_file_idx' = next_global_file_idx
        /\ globalFilePaths' = globalFilePaths /\ localToGlobal' = localToGlobal
        /\ addrToLineMap' = addrToLineMap /\ LinesTypes
    BY DEF Lines!NextUnit, LinesInv
  <1>2. /\ cu \in DOMAIN units /\ cu \in Nat
        /\ units[cu].table => files = Len(units[cu].files) /\ rows = Len(units[cu].rows)
        /\ ~ units[cu].table => files = 0 /\ rows = 0
    <2>1. cu \in DOMAIN units /\ cu \in Nat /\ files \in Nat /\ rows \in Nat
      BY <1>1, UnitFacts DEF Lines!NextUnit, LinesTypes
    <2>2. units[cu].table => ~ (files < Len(units[cu].files)) /\ ~ (rows < Len(units[cu].rows))
      BY <2>1, UnitFacts, <1>1
        DEF Lines!NextUnit, Lines!ReadingRows, Lines!ReadingFiles, Lines!Unit
    <2>3. QED
      BY <2>1, <2>2, <1>1, UnitFacts DEF LinesTypes
  <1>3. LinesTypes'
    <2>1. /\ Len(units) \in Nat
          /\ \A u \in DOMAIN units : Len(units[u].files) \in Nat /\ Len(units[u].rows) \in Nat
          /\ DOMAIN units = 1 .. Len(units)
      BY <1>1, UnitFacts
    <2>2. QED
      BY <1>1, <1>2, <2>1 DEF LinesTypes
  <1>4. \A u \in DOMAIN units : FilesRead(u)' = FilesRead(u) /\ RowsRead(u)' = RowsRead(u)
    <2> TAKE u \in DOMAIN units
    <2>1. u \in Nat
      BY <1>1, UnitFacts
    <2>2. QED
      BY <1>1, <1>2, <2>1 DEF FilesRead, RowsRead, ReadOf
  <1>5. FilesNumbered' /\ NumbersGiven' /\ RowsMapped'
    BY <1>1, <1>4, FilesKept, RowsKept DEF LinesInv, NumbersGiven
  <1>6. QED
    BY <1>3, <1>5 DEF LinesInv

(* Every step of the line tables keeps their invariant.                    *)
LEMMA LinesStepInv ==
  ASSUME LinesInv, [Lines!Next]_line_vars
  PROVE  LinesInv'
  <1>1. CASE Lines!NewFile \/ Lines!KnownFile \/ Lines!NamelessFile
    BY <1>1, FileInv
  <1>2. CASE Lines!ReadRow
    BY <1>2, RowInv
  <1>3. CASE Lines!NextUnit
    BY <1>3, UnitInv
  <1>4. CASE Lines!EmitDebugFiles \/ UNCHANGED line_vars
    <2>1. /\ units' = units /\ cu' = cu /\ files' = files /\ rows' = rows
          /\ next_global_file_idx' = next_global_file_idx
          /\ globalFilePaths' = globalFilePaths /\ localToGlobal' = localToGlobal
          /\ addrToLineMap' = addrToLineMap
      BY <1>4 DEF Lines!EmitDebugFiles, line_vars
    <2>2. \A u : FilesRead(u)' = FilesRead(u) /\ RowsRead(u)' = RowsRead(u)
      BY <2>1 DEF FilesRead, RowsRead, ReadOf
    <2>3. QED
      BY <2>1, <2>2, FilesKept, RowsKept DEF LinesInv, LinesTypes, NumbersGiven
  <1>5. QED
    BY <1>1, <1>2, <1>3, <1>4 DEF Lines!Next

-----------------------------------------------------------------------------
(* The whole: the names are those of SymbolNamesProofs, and stay while one *)
(* of the other tables is built.                                           *)
LoadInv ==
  /\ IInv
  /\ part = "lines" => LinesInv
  /\ part = "relocations" => RelocInv

(* The names are consistent while another part is run.                     *)
LEMMA NoSymbolsInv == NoSymbols => IInv
  <1> SUFFICES ASSUME NoSymbols PROVE IInv
    OBVIOUS
  <1>1. TypeOK
    BY DEF NoSymbols, TypeOK, TableType, Range, Passes
  <1>2. FunctionsInv /\ NamesInv /\ EmitInv
    BY DEF NoSymbols, FunctionsInv, NamesInv, EmitInv, Passed, Over
  <1>3. DataInv
    BY DEF NoSymbols, DataInv
  <1>4. QED
    BY <1>1, <1>2, <1>3 DEF IInv

(* The invariants of the three tables hold in every behaviour of Load.     *)
LEMMA LoadInductive == LoadSpec => []LoadInv
  <1>1. LoadInit => LoadInv
    BY InitInv, NoSymbolsInv, LinesInit, RelocInit DEF LoadInit, LoadInv
  <1>2. LoadInv /\ [LoadNext]_all_vars => LoadInv'
    <2> SUFFICES ASSUME LoadInv, [LoadNext]_all_vars PROVE LoadInv'
      OBVIOUS
    <2>1. part' = part
      BY DEF LoadNext, NamesStep, LinesStep, RelocStep, all_vars
    <2>2. [Next]_vars /\ [Lines!Next]_line_vars /\ [Relocs!Next]_reloc_vars
      BY DEF LoadNext, NamesStep, LinesStep, RelocStep, all_vars
    <2>3. IInv'
      BY <2>2, TypeStep, FunctionsStep, NamesInvStep, EmitStep, DataStep DEF IInv, LoadInv
    <2>4. QED
      BY <2>1, <2>2, <2>3, LinesStepInv, RelocStepInv DEF LoadInv
  <1>3. QED
    BY <1>1, <1>2, PTL DEF LoadSpec

(* Once every unit has been read, the map says of an address what the last *)
(* row there says.                                                         *)
LEMMA RowsShown == LinesInv => Lines!RowsFaithful
  <1> SUFFICES ASSUME LinesInv, Lines!AllRead
               PROVE  /\ DOMAIN addrToLineMap =
                           { Lines!Row(x).addr :
                               x \in { y \in Lines!Read : y \in Lines!AtAddress(Lines!Row(y).addr) } }
                      /\ \A a \in DOMAIN addrToLineMap :
                           LET x == Lines!LastRead(Lines!AtAddress(a)) IN
                             /\ addrToLineMap[a].line = Lines!Row(x).line
                             /\ addrToLineMap[a].file =
                                  globalFilePaths[Lines!FinalPath(
                                    Lines!PathOf(units[x[1]], Lines!Row(x).file))]
    BY DEF Lines!RowsFaithful
  <1>1. /\ LinesTypes /\ Len(units) \in Nat /\ DOMAIN units = 1 .. Len(units)
        /\ \A u \in DOMAIN units : 1 .. RowsRead(u) = Lines!Rows(u)
    <2>1. LinesTypes /\ Len(units) \in Nat /\ DOMAIN units = 1 .. Len(units) /\ cu \in Nat
      BY UnitFacts DEF LinesInv, LinesTypes
    <2>2. ASSUME NEW u \in DOMAIN units
          PROVE  1 .. RowsRead(u) = Lines!Rows(u)
      <3>1. RowsRead(u) = IF units[u].table THEN Len(units[u].rows) ELSE 0
        BY <2>1 DEF RowsRead, ReadOf, Lines!AllRead
      <3>2. QED
        BY <3>1, <2>1, UnitFacts DEF Lines!Rows
    <2>3. QED
      BY <2>1, <2>2
  <1>2. \A x : x \in Lines!Read <=>
          \E u \in DOMAIN units : \E i \in 1 .. RowsRead(u) : x = <<u, i>>
    <2> DEFINE Of(u) == { <<u, i>> : i \in Lines!Rows(u) }
    <2>1. \A x : \A u \in DOMAIN units :
            x \in Of(u) <=> \E i \in 1 .. RowsRead(u) : x = <<u, i>>
      BY <1>1
    <2>2. Lines!Read = UNION { Of(u) : u \in DOMAIN units }
      BY DEF Lines!Read
    <2> HIDE DEF Of
    <2>3. \A x : x \in Lines!Read <=> \E u \in DOMAIN units : x \in Of(u)
      BY <2>2
    <2>4. QED
      BY <2>1, <2>3
  <1>3. \A u, i : Lines!Row(<<u, i>>) = units[u].rows[i]
    BY DEF Lines!Row
  <1>4. \A u \in DOMAIN units : \A i \in 1 .. RowsRead(u) : \A a :
          /\ <<u, i>> \in Lines!AtAddress(a) <=> Says(u, i, a)
          /\ Says(u, i, a) => a = units[u].rows[i].addr
    BY <1>2, <1>3 DEF Lines!AtAddress, Says, Lines!Holds
  <1>5. ASSUME NEW a \in DOMAIN addrToLineMap, NEW u \in DOMAIN units,
               NEW i \in 1 .. RowsRead(u), SaysLast(u, i, a)
        PROVE  Lines!LastRead(Lines!AtAddress(a)) = <<u, i>>
    <2> DEFINE S == Lines!AtAddress(a)
               Last(x) == \A y \in S : y[1] < x[1] \/ (y[1] = x[1] /\ y[2] <= x[2])
    <2>1. \A y \in S : \E v \in DOMAIN units : \E j \in 1 .. RowsRead(v) :
                         y = <<v, j>> /\ Says(v, j, a)
      <3> TAKE y \in S
      <3>1. y \in Lines!Read
        BY DEF Lines!AtAddress
      <3>2. QED
        BY <3>1, <1>2, <1>4
    <2>2. <<u, i>> \in S /\ Last(<<u, i>>)
      BY <1>4, <1>5, <2>1 DEF SaysLast
    <2>3. \A y \in S : Last(y) => y = <<u, i>>
      <3> SUFFICES ASSUME NEW y \in S, Last(y) PROVE y = <<u, i>>
        OBVIOUS
      <3>1. PICK v \in DOMAIN units : \E j \in 1 .. RowsRead(v) : y = <<v, j>> /\ Says(v, j, a)
        BY <2>1
      <3>2. PICK j \in 1 .. RowsRead(v) : y = <<v, j>> /\ Says(v, j, a)
        BY <3>1
      <3>3. v < u \/ (v = u /\ j <= i)
        BY <3>2, <1>5 DEF SaysLast
      <3>4. u < v \/ (u = v /\ i <= j)
        BY <2>2, <3>2
      <3>5. u \in Nat /\ v \in Nat
        BY <1>1
      <3>6. QED
        BY <3>2, <3>3, <3>4, <3>5
    <2> HIDE DEF S, Last
    <2>4. (CHOOSE x \in S : Last(x)) = <<u, i>>
      BY <2>2, <2>3
    <2>5. QED
      BY <2>4 DEF S, Last, Lines!LastRead
  <1>6. DOMAIN addrToLineMap =
          { Lines!Row(x).addr :
              x \in { y \in Lines!Read : y \in Lines!AtAddress(Lines!Row(y).addr) } }
    <2> DEFINE A == { y \in Lines!Read : y \in Lines!AtAddress(Lines!Row(y).addr) }
    <2>1. ASSUME NEW a \in DOMAIN addrToLineMap
          PROVE  \E x \in A : a = Lines!Row(x).addr
      <3>1. PICK u \in DOMAIN units : \E i \in 1 .. RowsRead(u) : SaysLast(u, i, a)
        BY <2>1 DEF LinesInv, RowsMapped
      <3>2. PICK i \in 1 .. RowsRead(u) : SaysLast(u, i, a)
        BY <3>1
      <3>3. a = Lines!Row(<<u, i>>).addr /\ <<u, i>> \in Lines!AtAddress(a)
        BY <3>2, <1>3, <1>4 DEF SaysLast
      <3>4. <<u, i>> \in A
        BY <3>3, <1>2
      <3>5. QED
        BY <3>3, <3>4
    <2>2. ASSUME NEW x \in A
          PROVE  Lines!Row(x).addr \in DOMAIN addrToLineMap
      <3>1. x \in Lines!Read /\ x \in Lines!AtAddress(Lines!Row(x).addr)
        BY <2>2
      <3>2. PICK u \in DOMAIN units : \E i \in 1 .. RowsRead(u) : x = <<u, i>>
        BY <3>1, <1>2
      <3>3. PICK i \in 1 .. RowsRead(u) : x = <<u, i>>
        BY <3>2
      <3>4. Says(u, i, units[u].rows[i].addr) /\ Lines!Row(x).addr = units[u].rows[i].addr
        BY <3>1, <3>3, <1>3, <1>4
      <3>5. QED
        BY <3>4 DEF LinesInv, RowsMapped
    <2> HIDE DEF A
    <2>3. DOMAIN addrToLineMap = { Lines!Row(x).addr : x \in A }
      BY <2>1, <2>2
    <2>4. QED
      BY <2>3 DEF A
  <1>7. ASSUME NEW a \in DOMAIN addrToLineMap, NEW x, x = Lines!LastRead(Lines!AtAddress(a))
        PROVE  /\ addrToLineMap[a].line = Lines!Row(x).line
               /\ addrToLineMap[a].file =
                    globalFilePaths[Lines!FinalPath(Lines!PathOf(units[x[1]], Lines!Row(x).file))]
    <2>1. PICK u \in DOMAIN units : \E i \in 1 .. RowsRead(u) :
            /\ SaysLast(u, i, a)
            /\ addrToLineMap[a] = [file |-> globalFilePaths[PathSaid(u, i)],
                                   line |-> units[u].rows[i].line]
      BY <1>7 DEF LinesInv, RowsMapped
    <2>2. PICK i \in 1 .. RowsRead(u) :
            /\ SaysLast(u, i, a)
            /\ addrToLineMap[a] = [file |-> globalFilePaths[PathSaid(u, i)],
                                   line |-> units[u].rows[i].line]
      BY <2>1
    <2>3. x = <<u, i>>
      BY <1>5, <1>7, <2>2
    <2>4. Lines!Row(x) = units[u].rows[i] /\ x[1] = u
      BY <2>3, <1>3
    <2>5. QED
      BY <2>2, <2>4 DEF PathSaid
  <1>8. QED
    BY <1>6, <1>7

(* The invariant of the line tables has their types.                       *)
LEMMA LinesTypeOK == LinesInv => Lines!TypeOK
  <1> SUFFICES ASSUME LinesInv PROVE Lines!TypeOK
    OBVIOUS
  <1> DEFINE N == 1 .. next_global_file_idx - 1
  <1>1. /\ Lines!ProgramType(units) /\ cu \in 1 .. Len(units) + 1 /\ files \in Nat /\ rows \in Nat
        /\ next_global_file_idx \in Nat \ {0} /\ DOMAIN localToGlobal = DOMAIN units
    BY DEF LinesInv, LinesTypes, FilesNumbered
  <1>2. \A p \in DOMAIN globalFilePaths : globalFilePaths[p] \in N
    BY DEF LinesInv, NumbersGiven
  <1> HIDE DEF N
  <1>3. Lines!Range(globalFilePaths) \subseteq N
    BY <1>2 DEF Lines!Range
  <1>4. ASSUME NEW u \in DOMAIN units
        PROVE  Lines!Range(localToGlobal[u]) \subseteq N
    <2>1. ASSUME NEW n \in DOMAIN localToGlobal[u]
          PROVE  localToGlobal[u][n] \in N
      <3>1. PICK i \in 1 .. FilesRead(u) : n = FileNumber(u, i) /\ units[u].files[i] # NoPath
        BY <1>4, <2>1 DEF LinesInv, FilesNumbered
      <3>2. QED
        BY <3>1, <1>2 DEF LinesInv, FilesNumbered
    <2>2. QED
      BY <2>1 DEF Lines!Range
  <1>5. ASSUME NEW a \in DOMAIN addrToLineMap
        PROVE  addrToLineMap[a] \in [file: N, line: Nat]
    <2>1. PICK u \in DOMAIN units : \E i \in 1 .. RowsRead(u) :
            /\ PathSaid(u, i) \in DOMAIN globalFilePaths
            /\ addrToLineMap[a] = [file |-> globalFilePaths[PathSaid(u, i)],
                                   line |-> units[u].rows[i].line]
      BY <1>5 DEF LinesInv, RowsMapped
    <2>2. PICK i \in 1 .. RowsRead(u) :
            /\ PathSaid(u, i) \in DOMAIN globalFilePaths
            /\ addrToLineMap[a] = [file |-> globalFilePaths[PathSaid(u, i)],
                                   line |-> units[u].rows[i].line]
      BY <2>1
    <2>3. i \in DOMAIN units[u].rows
      <3>1. LinesTypes /\ cu \in Nat /\ rows \in Nat /\ u \in Nat
        BY UnitFacts DEF LinesInv, LinesTypes
      <3>2. CASE u = cu
        <4>1. u <= Len(units)
          BY <3>1, UnitFacts
        <4>2. rows <= Len(units[u].rows)
          BY <3>1, <3>2, <4>1 DEF LinesTypes
        <4>3. QED
          BY <3>1, <3>2, <4>2, UnitFacts DEF RowsRead, ReadOf
      <3>3. CASE u # cu
        BY <3>1, <3>3, UnitFacts DEF RowsRead, ReadOf
      <3>4. QED
        BY <3>2, <3>3
    <2>4. units[u].rows[i].line \in Nat
      BY <2>3, UnitFacts DEF LinesInv
    <2>5. QED
      BY <1>2, <2>2, <2>4
  <1>6. QED
    BY <1>1, <1>3, <1>4, <1>5 DEF N, Lines!TypeOK

(* The invariant of the relocations has their types.                       *)
LEMMA RelocTypeOK == RelocInv => Relocs!TypeOK
  <1> SUFFICES ASSUME RelocInv PROVE Relocs!TypeOK
    OBVIOUS
  <1>1. /\ relocs \in Seq(RelocRec) /\ DOMAIN relocs = 1 .. Len(relocs) /\ Len(relocs) \in Nat
        /\ Wide \in Nat \ {0}
        /\ \A i \in DOMAIN RelocSegments : i \in Nat /\ RelocSegments[i].vaddr \in Nat
    BY RelocationsAssumption DEF RelocInv, RelocTypes, Relocs!Linked
  <1>2. ASSUME NEW r \in RelocRec
        PROVE  Relocs!Operand(r).off \in 0 .. Wide - 1
    <2>1. r.addend \in 0 .. Wide - 1
      BY DEF RelocRec
    <2>2. CASE r.sym # Relocs!NoSymbol \/ Relocs!SegmentsOf(r.addend) = {}
      BY <2>1, <2>2 DEF Relocs!Operand
    <2>3. CASE r.sym = Relocs!NoSymbol /\ Relocs!SegmentsOf(r.addend) # {}
      <3> DEFINE f == Relocs!FindSegment(r.addend)
      <3>1. Relocs!SegmentsOf(r.addend) \in SUBSET Nat
        BY <1>1 DEF Relocs!SegmentsOf
      <3>2. f \in Relocs!SegmentsOf(r.addend)
        BY <2>3, <3>1, Least DEF Relocs!FindSegment
      <3>3. RelocSegments[f].vaddr \in Nat /\ RelocSegments[f].vaddr <= r.addend
        BY <3>2, <1>1, <2>1 DEF Relocs!SegmentsOf
      <3>4. Relocs!Operand(r).off = r.addend - RelocSegments[f].vaddr
        BY <2>3 DEF Relocs!Operand, Relocs!OffsetInTarget
      <3> HIDE DEF f
      <3>5. QED
        BY <1>1, <2>1, <3>3, <3>4
    <2>4. QED
      BY <2>2, <2>3
  <1>3. ASSUME NEW s \in DOMAIN emitted
        PROVE  emitted[s].off \in 0 .. Wide - 1
    <2>1. emitted[s] = IF Relocs!Matching(s) = {} THEN Relocs!Bytes
                       ELSE Relocs!Operand(relocs[FirstMatch(s)])
      BY DEF RelocInv, WordsWritten
    <2>2. CASE Relocs!Matching(s) = {}
      BY <2>1, <2>2, <1>1 DEF Relocs!Bytes
    <2>3. CASE Relocs!Matching(s) # {}
      <3>1. Relocs!Matching(s) \in SUBSET Nat
        BY <1>1 DEF Relocs!Matching
      <3>2. FirstMatch(s) \in Relocs!Matching(s)
        BY <2>3, <3>1, Least DEF FirstMatch
      <3>3. relocs[FirstMatch(s)] \in RelocRec
        BY <3>2, <1>1 DEF Relocs!Matching
      <3>4. QED
        BY <2>1, <2>3, <3>3, <1>2
    <2>4. QED
      BY <2>2, <2>3
  <1>4. QED
    BY <1>1, <1>3 DEF RelocInv, RelocTypes, RelocRec, Relocs!TypeOK

-----------------------------------------------------------------------------
(* The tables have the shape the code's declarations give them, whichever  *)
(* is built: names and addresses are those of symbols and segments, numbers*)
(* of files are below the next one, operands are 64 bits wide.             *)
THEOREM LoadTypes == LoadSpec => []TypesOK
  <1>1. LoadInv => TypesOK
    BY LinesTypeOK, RelocTypeOK DEF LoadInv, IInv, TypesOK
  <1>2. QED
    BY <1>1, LoadInductive, PTL

(* LineTranslator::PrepareLineInfo: of every program of compile units, the *)
(* map has the addresses of the rows that say something, and shows at each *)
(* the file and line of the last row there, whichever unit it was in and   *)
(* however that numbers its files.                                         *)
THEOREM RowsReadBack == LoadSpec => []RowsFaithful
  <1>1. LoadInv => RowsFaithful
    BY RowsShown DEF LoadInv, RowsFaithful
  <1>2. QED
    BY <1>1, LoadInductive, PTL

(* ParseRelocation, ParseRelocationRel and EmitSections: for every file as *)
(* linkers leave it, a pointer of the kinds the code handles holds in the  *)
(* image what the ELF loader would have stored there, at any addresses and *)
(* widths, and a word with no entry for the loader is left as bytes.       *)
THEOREM Relocated == LoadSpec => []WordsAsLoaded
  <1>1. LoadInv => WordsAsLoaded
    BY RelocWords DEF LoadInv, WordsAsLoaded
  <1>2. QED
    BY <1>1, LoadInductive, PTL

-----------------------------------------------------------------------------
(* What Unescaped reads from each position of a text: nothing behind the   *)
(* end, and two characters at once where a backslash stands.               *)
ReadAt(f, text, i) ==
  IF i > Len(text) THEN << >>
  ELSE IF text[i] = Lines!Backslash /\ i < Len(text) THEN <<text[i + 1]>> \o f[i + 2]
  ELSE <<text[i]>> \o f[i + 1]

Reads(f, text) == f = [i \in 1 .. Len(text) + 2 |-> ReadAt(f, text, i)]

(* There is such a reading.                                                *)
LEMMA ReadingExists ==
  ASSUME NEW text, Len(text) \in Nat
  PROVE  \E f : Reads(f, text)
  <1> DEFINE D == 1 .. Len(text) + 2
             P(k) == \E f : /\ f = [i \in D |-> f[i]]
                            /\ \A i \in D : i > Len(text) + 2 - k => f[i] = ReadAt(f, text, i)
             T == { k \in 0 .. Len(text) + 2 : ~ P(k) }
  <1>1. P(0)
    <2>1. PICK f : f = [i \in D |-> << >>]
      OBVIOUS
    <2>2. f = [i \in D |-> f[i]] /\ \A i \in D : ~ (i > Len(text) + 2 - 0)
      BY <2>1
    <2>3. QED
      BY <2>2
  <1>2. ASSUME NEW k \in 1 .. Len(text) + 2, P(k - 1) PROVE P(k)
    <2>1. PICK f : /\ f = [i \in D |-> f[i]]
                   /\ \A i \in D : i > Len(text) + 2 - (k - 1) => f[i] = ReadAt(f, text, i)
      BY <1>2
    <2>2. PICK m : m = Len(text) + 2 - (k - 1)
      OBVIOUS
    <2>3. m \in D /\ m \in Nat
      BY <2>2
    <2>4. PICK g : g = [i \in D |-> IF i = m THEN ReadAt(f, text, m) ELSE f[i]]
      OBVIOUS
    <2>5. g = [i \in D |-> g[i]]
      BY <2>4
    <2>6. ASSUME NEW i \in D, i >= m PROVE ReadAt(g, text, i) = ReadAt(f, text, i)
      <3>1. CASE i > Len(text)
        BY <3>1 DEF ReadAt
      <3>2. CASE ~ (i > Len(text))
        <4>1. i + 1 \in D /\ i + 2 \in D /\ i + 1 # m /\ i + 2 # m
          BY <2>3, <2>6, <3>2
        <4>2. g[i + 1] = f[i + 1] /\ g[i + 2] = f[i + 2]
          BY <2>4, <4>1
        <4>3. QED
          BY <4>2 DEF ReadAt
      <3>3. QED
        BY <3>1, <3>2
    <2>7. ASSUME NEW i \in D, i > Len(text) + 2 - k PROVE g[i] = ReadAt(g, text, i)
      <3>1. i >= m
        BY <2>2, <2>7
      <3>2. CASE i = m
        BY <2>4, <2>6, <3>1, <3>2
      <3>3. CASE i > m
        <4>1. f[i] = ReadAt(f, text, i) /\ g[i] = f[i]
          BY <2>1, <2>2, <2>3, <2>4, <3>3
        <4>2. QED
          BY <2>6, <3>1, <4>1
      <3>4. QED
        BY <2>3, <3>1, <3>2, <3>3
    <2>8. QED
      BY <2>5, <2>7
  <1>3. T = {}
    <2> SUFFICES ASSUME T # {} PROVE FALSE
      OBVIOUS
    <2> HIDE DEF P
    <2>1. PICK k \in T : \A n \in T : k <= n
      <3>1. T \in SUBSET Nat
        OBVIOUS
      <3>2. QED
        BY <3>1, Least
    <2>2. k \in 1 .. Len(text) + 2 /\ k - 1 \in 0 .. Len(text) + 2 /\ k - 1 \notin T
      BY <1>1, <2>1
    <2>3. P(k)
      BY <1>2, <2>2
    <2>4. QED
      BY <2>1, <2>3
  <1>4. P(Len(text) + 2)
    <2> HIDE DEF P
    <2>1. Len(text) + 2 \in 0 .. Len(text) + 2
      OBVIOUS
    <2>2. QED
      BY <1>3, <2>1
  <1>5. PICK f : /\ f = [i \in D |-> f[i]]
                 /\ \A i \in D : i > Len(text) + 2 - (Len(text) + 2) => f[i] = ReadAt(f, text, i)
    BY <1>4
  <1>6. \A i \in D : f[i] = ReadAt(f, text, i)
    BY <1>5
  <1>7. f = [i \in D |-> ReadAt(f, text, i)]
    BY <1>5, <1>6
  <1>8. QED
    BY <1>7 DEF Reads

(* Unescaped is what it reads from the start.                              *)
LEMMA UnescapedIs ==
  ASSUME NEW text, Len(text) \in Nat
  PROVE  \E f : Reads(f, text) /\ Lines!Unescaped(text) = f[1]
  <1> DEFINE from == CHOOSE f : Reads(f, text)
  <1>1. Reads(from, text)
    BY ReadingExists
  <1>2. Lines!Unescaped(text) = from[1]
    BY DEF Lines!Unescaped, Reads, ReadAt
  <1>3. QED
    BY <1>1, <1>2

(* What the first sequences of a sequence of sequences are together.       *)
Joins(f, w) == f = [i \in 1 .. Len(w) |-> IF i = 1 THEN w[i] ELSE f[i - 1] \o w[i]]

(* There is such a joining.                                                *)
LEMMA JoiningExists ==
  ASSUME NEW w, Len(w) \in Nat
  PROVE  \E f : Joins(f, w)
  <1> DEFINE D == 1 .. Len(w)
             Joined(f, i) == IF i = 1 THEN w[i] ELSE f[i - 1] \o w[i]
             P(k) == \E f : f = [i \in D |-> f[i]] /\ \A i \in D : i <= k => f[i] = Joined(f, i)
             T == { k \in 0 .. Len(w) : ~ P(k) }
  <1>1. P(0)
    <2>1. PICK f : f = [i \in D |-> << >>]
      OBVIOUS
    <2>2. f = [i \in D |-> f[i]] /\ \A i \in D : ~ (i <= 0)
      BY <2>1
    <2>3. QED
      BY <2>2
  <1>2. ASSUME NEW k \in 1 .. Len(w), P(k - 1) PROVE P(k)
    <2>1. PICK f : f = [i \in D |-> f[i]] /\ \A i \in D : i <= k - 1 => f[i] = Joined(f, i)
      BY <1>2
    <2>2. PICK g : g = [i \in D |-> IF i = k THEN Joined(f, k) ELSE f[i]]
      OBVIOUS
    <2>3. g = [i \in D |-> g[i]]
      BY <2>2
    <2>4. ASSUME NEW i \in D, i <= k PROVE Joined(g, i) = Joined(f, i)
      <3>1. CASE i = 1
        BY <3>1
      <3>2. CASE i # 1
        <4>1. i - 1 \in D /\ i - 1 # k
          BY <2>4, <3>2
        <4>2. g[i - 1] = f[i - 1]
          BY <2>2, <4>1
        <4>3. QED
          BY <4>2
      <3>3. QED
        BY <3>1, <3>2
    <2>5. ASSUME NEW i \in D, i <= k PROVE g[i] = Joined(g, i)
      <3>1. Joined(g, i) = Joined(f, i)
        BY <2>4, <2>5
      <3> HIDE DEF Joined
      <3>2. CASE i = k
        BY <2>2, <3>1, <3>2
      <3>3. CASE i # k
        <4>1. i <= k - 1
          BY <2>5, <3>3
        <4>2. g[i] = f[i] /\ f[i] = Joined(f, i)
          BY <2>1, <2>2, <3>3, <4>1
        <4>3. QED
          BY <3>1, <4>2
      <3>4. QED
        BY <3>2, <3>3
    <2> HIDE DEF Joined
    <2>6. QED
      BY <2>3, <2>5
  <1>3. T = {}
    <2> SUFFICES ASSUME T # {} PROVE FALSE
      OBVIOUS
    <2> HIDE DEF P
    <2>1. PICK k \in T : \A n \in T : k <= n
      <3>1. T \in SUBSET Nat
        OBVIOUS
      <3>2. QED
        BY <3>1, Least
    <2>2. k \in 1 .. Len(w) /\ k - 1 \in 0 .. Len(w) /\ k - 1 \notin T
      BY <1>1, <2>1
    <2>3. P(k)
      BY <1>2, <2>2
    <2>4. QED
      BY <2>1, <2>3
  <1>4. P(Len(w))
    <2> HIDE DEF P
    <2>1. Len(w) \in 0 .. Len(w)
      OBVIOUS
    <2>2. QED
      BY <1>3, <2>1
  <1> HIDE DEF Joined
  <1>5. PICK f : f = [i \in D |-> f[i]] /\ \A i \in D : i <= Len(w) => f[i] = Joined(f, i)
    BY <1>4
  <1>6. f = [i \in D |-> Joined(f, i)]
    <2>1. \A i \in D : f[i] = Joined(f, i)
      BY <1>5
    <2>2. QED
      BY <1>5, <2>1
  <1>7. QED
    BY <1>6 DEF Joins, Joined

(* Flattened, they are all together.                                       *)
LEMMA FlattenedIs ==
  ASSUME NEW w, Len(w) \in Nat \ {0}
  PROVE  \E f : Joins(f, w) /\ Lines!FlattenSeq(w) = f[Len(w)]
  <1> DEFINE flatten == CHOOSE f : Joins(f, w)
  <1>1. Joins(flatten, w)
    BY JoiningExists
  <1>2. Lines!FlattenSeq(w) = flatten[Len(w)]
    BY DEF Lines!FlattenSeq, Joins
  <1>3. QED
    BY <1>1, <1>2

(* What a path's components are written as.                                *)
Spelled(p) ==
  [i \in DOMAIN p |-> IF p[i] = Lines!Backslash THEN <<Lines!Backslash, Lines!Backslash>>
                                                ELSE <<p[i]>>]

(* The assembler reads a path back from how it is written.                 *)
LEMMA EscapedReadBack ==
  ASSUME NEW S, Lines!Backslash \in S, NEW p \in Seq(S)
  PROVE  Lines!Unescaped(Lines!Escaped(p)) = p
  <1> DEFINE N == Len(p)
  <1>1. N \in Nat /\ DOMAIN p = 1 .. N /\ (\A i \in 1 .. N : p[i] \in S) /\ p = [i \in 1 .. N |-> p[i]]
    OBVIOUS
  <1>w. PICK w : w = Spelled(p)
    OBVIOUS
  <1>2. /\ w \in Seq(Seq(S)) /\ Len(w) = N /\ (N = 0 => w = << >>)
        /\ \A i \in 1 .. N : /\ w[i] = IF p[i] = Lines!Backslash
                                         THEN <<Lines!Backslash, Lines!Backslash>> ELSE <<p[i]>>
                             /\ w[i] \in Seq(S)
    <2>1. \A i \in 1 .. N : /\ w[i] = IF p[i] = Lines!Backslash
                                        THEN <<Lines!Backslash, Lines!Backslash>> ELSE <<p[i]>>
                            /\ w[i] \in Seq(S)
      BY <1>1, <1>w DEF Spelled
    <2>2. w = [i \in 1 .. N |-> w[i]]
      BY <1>1, <1>w DEF Spelled
    <2>3. w \in Seq(Seq(S)) /\ Len(w) = N
      BY <1>1, <2>1, <2>2
    <2>4. N = 0 => w = << >>
      BY <2>3, EmptySeq
    <2>5. QED
      BY <2>1, <2>3, <2>4
  <1>3. Lines!Escaped(p) = Lines!FlattenSeq(w)
    BY <1>w DEF Lines!Escaped, Spelled
  <1>4. CASE N = 0
    <2>1. p = << >> /\ w = << >> /\ Len(<< >>) = 0
      BY <1>2, <1>4, EmptySeq
    <2>2. Lines!Escaped(p) = << >>
      BY <1>3, <2>1 DEF Lines!FlattenSeq
    <2>3. PICK g : Reads(g, << >>) /\ Lines!Unescaped(<< >>) = g[1]
      BY <2>1, UnescapedIs
    <2>4. g[1] = << >>
      <3>1. PICK h : h = [i \in 1 .. 2 |-> ReadAt(g, << >>, i)]
        OBVIOUS
      <3>2. g = h
        BY <2>1, <2>3, <3>1 DEF Reads
      <3>3. ReadAt(g, << >>, 1) = << >>
        BY <2>1 DEF ReadAt
      <3>4. QED
        BY <3>1, <3>2, <3>3
    <2>5. QED
      BY <2>1, <2>2, <2>3, <2>4
  <1>5. CASE N # 0
    <2>1. PICK f : Joins(f, w) /\ Lines!FlattenSeq(w) = f[N]
      <3>1. Len(w) \in Nat \ {0}
        BY <1>1, <1>2, <1>5
      <3>2. QED
        BY <1>2, <3>1, FlattenedIs
    <2>e. PICK e : e = [n \in 0 .. N |-> IF n = 0 THEN << >> ELSE f[n]]
      OBVIOUS
    <2>2. e[0] = << >> /\ \A n \in 1 .. N : e[n] = e[n - 1] \o w[n]
      <3>1. PICK h : h = [i \in 1 .. N |-> IF i = 1 THEN w[i] ELSE f[i - 1] \o w[i]]
        OBVIOUS
      <3>2. f = h
        BY <1>2, <2>1, <3>1 DEF Joins
      <3>3. e[0] = << >> /\ \A n \in 1 .. N : e[n] = f[n]
        BY <1>1, <2>e
      <3>4. ASSUME NEW n \in 1 .. N PROVE e[n] = e[n - 1] \o w[n]
        <4>1. CASE n = 1
          <5>1. f[1] = w[1]
            BY <1>1, <3>1, <3>2, <4>1
          <5>2. << >> \o w[1] = w[1]
            BY <1>2, <4>1, ConcatEmptySeq
          <5>3. e[n - 1] = << >>
            BY <2>e, <4>1
          <5>4. QED
            BY <3>3, <4>1, <5>1, <5>2, <5>3
        <4>2. CASE n # 1
          <5>1. n - 1 \in 1 .. N
            BY <1>1, <4>2
          <5>2. f[n] = f[n - 1] \o w[n]
            BY <3>1, <3>2, <4>2
          <5>3. QED
            BY <3>3, <5>1, <5>2
        <4>3. QED
          BY <4>1, <4>2
      <3>5. QED
        BY <3>3, <3>4
    <2>3. \A n \in 0 .. N : e[n] \in Seq(S)
      <3> DEFINE T == { n \in 0 .. N : e[n] \notin Seq(S) }
      <3> SUFFICES ASSUME T # {} PROVE FALSE
        OBVIOUS
      <3>1. PICK n \in T : \A m \in T : n <= m
        <4>1. T \in SUBSET Nat
          BY <1>1
        <4>2. QED
          BY <4>1, Least
      <3>2. n \in 1 .. N /\ n - 1 \in 0 .. N /\ n - 1 \notin T
        <4>1. n \in 0 .. N /\ n # 0
          <5>1. << >> \in Seq(S)
            OBVIOUS
          <5>2. n \in 0 .. N /\ e[n] \notin Seq(S)
            BY <3>1
          <5>3. QED
            BY <2>2, <5>1, <5>2
        <4>2. QED
          BY <1>1, <3>1, <4>1
      <3>3. e[n - 1] \in Seq(S) /\ w[n] \in Seq(S) /\ e[n] = e[n - 1] \o w[n]
        BY <1>2, <2>2, <3>2
      <3>4. e[n] \in Seq(S)
        BY <3>3, ConcatProperties
      <3>5. QED
        BY <3>1, <3>4
    <2>4. \A n \in 0 .. N : Len(e[n]) \in Nat
      BY <2>3
    <2>5. ASSUME NEW n \in 1 .. N
          PROVE  /\ Len(e[n]) = Len(e[n - 1]) + Len(w[n]) /\ Len(w[n]) \in Nat
                 /\ \A j \in 1 .. Len(e[n - 1]) : e[n][j] = e[n - 1][j]
                 /\ \A j \in 1 .. Len(w[n]) : e[n][Len(e[n - 1]) + j] = w[n][j]
      <3>1. PICK s \in Seq(S), t \in Seq(S) : s = e[n - 1] /\ t = w[n]
        <4>1. n - 1 \in 0 .. N
          BY <1>1
        <4>2. QED
          BY <1>2, <2>3, <4>1
      <3>2. /\ Len(s \o t) = Len(s) + Len(t) /\ Len(t) \in Nat /\ Len(s) \in Nat
            /\ \A j \in 1 .. Len(s) + Len(t) :
                 (s \o t)[j] = IF j <= Len(s) THEN s[j] ELSE t[j - Len(s)]
        BY ConcatProperties
      <3>3. \A j \in 1 .. Len(s) : (s \o t)[j] = s[j]
        BY <3>2
      <3>4. \A j \in 1 .. Len(t) : (s \o t)[Len(s) + j] = t[j]
        BY <3>2
      <3>5. QED
        BY <2>2, <3>1, <3>2, <3>3, <3>4
    <2>6. ASSUME NEW n \in 1 .. N
          PROVE  \A m \in n .. N : /\ Len(e[n]) <= Len(e[m])
                                   /\ \A j \in 1 .. Len(e[n]) : e[m][j] = e[n][j]
      <3> DEFINE Q(m) == /\ Len(e[n]) <= Len(e[m])
                         /\ \A j \in 1 .. Len(e[n]) : e[m][j] = e[n][j]
                 T == { m \in n .. N : ~ Q(m) }
      <3> SUFFICES ASSUME T # {} PROVE FALSE
        OBVIOUS
      <3>1. PICK m \in T : \A k \in T : m <= k
        <4>1. T \in SUBSET Nat
          BY <1>1
        <4>2. QED
          BY <4>1, Least
      <3>2. Q(n)
        BY <1>1, <2>4
      <3> HIDE DEF Q
      <3>3. m # n /\ m \in 1 .. N /\ m - 1 \in n .. N /\ m - 1 \notin T /\ m - 1 \in 0 .. N
        BY <1>1, <3>1, <3>2
      <3>4. Q(m - 1)
        BY <3>3
      <3>5. /\ Len(e[m]) = Len(e[m - 1]) + Len(w[m]) /\ Len(w[m]) \in Nat
            /\ \A j \in 1 .. Len(e[m - 1]) : e[m][j] = e[m - 1][j]
        BY <2>5, <3>3
      <3>6. Len(e[n]) \in Nat /\ Len(e[m - 1]) \in Nat
        BY <1>1, <2>4, <3>3
      <3>7. Q(m)
        <4>1. Len(e[n]) <= Len(e[m - 1]) /\ \A j \in 1 .. Len(e[n]) : e[m - 1][j] = e[n][j]
          BY <3>4 DEF Q
        <4>2. Len(e[n]) <= Len(e[m])
          <5>1. PICK a \in Nat, b \in Nat, c \in Nat :
                  a = Len(e[n]) /\ b = Len(e[m - 1]) /\ c = Len(w[m])
            BY <3>5, <3>6
          <5>2. a <= b
            BY <4>1, <5>1
          <5>3. a <= b + c
            BY <5>2
          <5>4. QED
            BY <3>5, <5>1, <5>3
        <4>3. ASSUME NEW j \in 1 .. Len(e[n]) PROVE e[m][j] = e[n][j]
          <5>1. j \in 1 .. Len(e[m - 1])
            BY <3>6, <4>1
          <5>2. QED
            BY <3>5, <4>1, <5>1
        <4>4. QED
          BY <4>2, <4>3 DEF Q
      <3>8. QED
        BY <3>1, <3>7
    <2>t. PICK text : text = e[N]
      OBVIOUS
    <2>7. /\ Lines!Escaped(p) = text /\ Len(text) \in Nat
      BY <1>1, <1>3, <1>5, <2>1, <2>4, <2>e, <2>t
    <2>8. ASSUME NEW n \in 1 .. N
          PROVE  /\ Len(e[n - 1]) + Len(w[n]) <= Len(text)
                 /\ \A j \in 1 .. Len(w[n]) : text[Len(e[n - 1]) + j] = w[n][j]
      <3>1. Len(e[n]) <= Len(text) /\ \A j \in 1 .. Len(e[n]) : text[j] = e[n][j]
        BY <1>1, <2>6, <2>t
      <3>2. Len(e[n - 1]) \in Nat /\ Len(e[n]) \in Nat
        <4>1. n \in 0 .. N /\ n - 1 \in 0 .. N
          BY <1>1
        <4>2. QED
          BY <2>4, <4>1
      <3>3. \A j \in 1 .. Len(w[n]) : Len(e[n - 1]) + j \in 1 .. Len(e[n])
        <4>1. PICK a \in Nat, b \in Nat : a = Len(e[n - 1]) /\ b = Len(w[n])
          BY <2>5, <3>2
        <4>2. Len(e[n]) = a + b
          BY <2>5, <4>1
        <4>3. \A j \in 1 .. b : a + j \in 1 .. a + b
          OBVIOUS
        <4>4. QED
          BY <4>1, <4>2, <4>3
      <3>4. Len(e[n - 1]) + Len(w[n]) <= Len(text)
        BY <2>5, <3>1
      <3>5. \A j \in 1 .. Len(w[n]) : text[Len(e[n - 1]) + j] = w[n][j]
        BY <2>5, <3>1, <3>3
      <3>6. QED
        BY <3>4, <3>5
    <2>9. PICK g : Reads(g, text) /\ Lines!Unescaped(text) = g[1]
      BY <2>7, UnescapedIs
    <2>10. \A i \in 1 .. Len(text) + 2 : g[i] = ReadAt(g, text, i)
      <3>1. PICK h : h = [i \in 1 .. Len(text) + 2 |-> ReadAt(g, text, i)]
        OBVIOUS
      <3>2. g = h
        BY <2>9, <3>1 DEF Reads
      <3>3. QED
        BY <3>1, <3>2
    <2> DEFINE Rest(n) == [k \in 1 .. N - n |-> p[n + k]]
    <2>11. Rest(N) = << >>
      <3>1. N - N = 0
        BY <1>1
      <3>2. Rest(N) \in Seq(S) /\ Len(Rest(N)) = 0
        BY <1>1, <3>1
      <3>3. QED
        BY <3>2, EmptySeq
    <2>12. ASSUME NEW n \in 1 .. N PROVE Rest(n - 1) = <<p[n]>> \o Rest(n)
      <3>1. /\ Rest(n) \in Seq(S) /\ Len(Rest(n)) = N - n
            /\ \A k \in 1 .. N - n : Rest(n)[k] = p[n + k]
        BY <1>1
      <3>2. /\ Rest(n - 1) \in Seq(S) /\ Len(Rest(n - 1)) = N - n + 1
            /\ \A k \in 1 .. N - n + 1 : Rest(n - 1)[k] = p[n - 1 + k]
        BY <1>1
      <3> HIDE DEF Rest
      <3>3. <<p[n]>> \in Seq(S) /\ Len(<<p[n]>>) = 1 /\ <<p[n]>>[1] = p[n]
        BY <1>1
      <3>4. PICK q \in Seq(S) : q = <<p[n]>> \o Rest(n)
        <4>1. <<p[n]>> \o Rest(n) \in Seq(S)
          BY <3>1, <3>3, ConcatProperties
        <4>2. QED
          BY <4>1
      <3>5. /\ Len(q) = 1 + (N - n)
            /\ \A k \in 1 .. 1 + (N - n) : q[k] = IF k <= 1 THEN p[n] ELSE Rest(n)[k - 1]
        BY <1>1, <3>1, <3>3, <3>4, ConcatProperties
      <3>6. ASSUME NEW k \in 1 .. N - n + 1 PROVE q[k] = Rest(n - 1)[k]
        <4>1. CASE k = 1
          <5>1. k \in 1 .. 1 + (N - n) /\ k <= 1 /\ n - 1 + k = n
            BY <1>1, <4>1
          <5>2. QED
            BY <3>2, <3>5, <5>1
        <4>2. CASE k # 1
          <5>1. k - 1 \in 1 .. N - n /\ n + (k - 1) = n - 1 + k
            BY <1>1, <4>2
          <5>2. q[k] = Rest(n)[k - 1]
            BY <1>1, <3>5, <4>2
          <5>3. QED
            BY <3>1, <3>2, <5>1, <5>2
        <4>3. QED
          BY <4>1, <4>2
      <3>7. q = Rest(n - 1)
        BY <1>1, <3>2, <3>5, <3>6, SeqEqual
      <3>8. QED
        BY <3>4, <3>7
    <2> HIDE DEF Rest
    <2>13. ASSUME NEW n \in 1 .. N, g[Len(e[n]) + 1] = Rest(n)
           PROVE  g[Len(e[n - 1]) + 1] = Rest(n - 1)
      <3>1. PICK i \in Nat : i = Len(e[n - 1])
        <4>1. n - 1 \in 0 .. N
          BY <1>1
        <4>2. QED
          BY <2>4, <4>1
      <3>2. CASE p[n] = Lines!Backslash
        <4>1. w[n] = <<Lines!Backslash, Lines!Backslash>>
          BY <1>2, <3>2
        <4>2. Len(w[n]) = 2 /\ w[n][1] = Lines!Backslash /\ w[n][2] = Lines!Backslash
          BY <4>1
        <4>3. /\ i + 2 <= Len(text) /\ text[i + 1] = Lines!Backslash
              /\ text[i + 2] = Lines!Backslash /\ Len(e[n]) = i + 2
          <5>1. /\ i + 2 <= Len(text) /\ Len(e[n]) = i + 2
                /\ \A j \in 1 .. 2 : text[i + j] = w[n][j]
            BY <2>5, <2>8, <3>1, <4>2
          <5>2. text[i + 1] = w[n][1] /\ text[i + 2] = w[n][2]
            BY <5>1
          <5>3. QED
            BY <4>2, <5>1, <5>2
        <4>4. g[i + 1] = <<text[i + 2]>> \o g[i + 3]
          <5>1. /\ i + 1 \in 1 .. Len(text) + 2 /\ ~ (i + 1 > Len(text)) /\ i + 1 < Len(text)
                /\ (i + 1) + 1 = i + 2 /\ (i + 1) + 2 = i + 3
            BY <2>7, <4>3
          <5>2. g[i + 1] = ReadAt(g, text, i + 1)
            BY <2>10, <5>1
          <5>3. QED
            BY <4>3, <5>1, <5>2 DEF ReadAt
        <4>5. g[i + 3] = Rest(n)
          BY <2>13, <4>3
        <4>6. QED
          BY <2>12, <3>1, <3>2, <4>3, <4>4, <4>5
      <3>3. CASE p[n] # Lines!Backslash
        <4>1. w[n] = <<p[n]>>
          BY <1>2, <3>3
        <4>2. Len(w[n]) = 1 /\ w[n][1] = p[n]
          BY <4>1
        <4>3. i + 1 <= Len(text) /\ text[i + 1] = p[n] /\ Len(e[n]) = i + 1
          <5>1. /\ i + 1 <= Len(text) /\ Len(e[n]) = i + 1
                /\ \A j \in 1 .. 1 : text[i + j] = w[n][j]
            BY <2>5, <2>8, <3>1, <4>2
          <5>2. text[i + 1] = w[n][1]
            BY <5>1
          <5>3. QED
            BY <4>2, <5>1, <5>2
        <4>4. g[i + 1] = <<p[n]>> \o g[i + 2]
          <5>1. i + 1 \in 1 .. Len(text) + 2 /\ ~ (i + 1 > Len(text)) /\ (i + 1) + 1 = i + 2
            BY <2>7, <4>3
          <5>2. g[i + 1] = ReadAt(g, text, i + 1)
            BY <2>10, <5>1
          <5>3. QED
            BY <3>3, <4>3, <5>1, <5>2 DEF ReadAt
        <4>5. g[i + 2] = Rest(n)
          BY <2>13, <4>3
        <4>6. QED
          BY <2>12, <3>1, <4>4, <4>5
      <3>4. QED
        BY <3>2, <3>3
    <2>14. g[Len(e[N]) + 1] = Rest(N)
      <3>1. Len(text) + 1 \in 1 .. Len(text) + 2 /\ Len(text) + 1 > Len(text)
        BY <2>7
      <3>2. g[Len(text) + 1] = << >>
        BY <2>10, <3>1 DEF ReadAt
      <3>3. QED
        BY <2>11, <2>t, <3>2
    <2>15. g[Len(e[0]) + 1] = Rest(0)
      <3> DEFINE T == { k \in 0 .. N : g[Len(e[N - k]) + 1] # Rest(N - k) }
      <3>1. T = {}
        <4> SUFFICES ASSUME T # {} PROVE FALSE
          OBVIOUS
        <4>1. PICK k \in T : \A m \in T : k <= m
          <5>1. T \in SUBSET Nat
            BY <1>1
          <5>2. QED
            BY <5>1, Least
        <4>2. k # 0
          <5>1. N - 0 = N
            BY <1>1
          <5>2. QED
            BY <2>14, <4>1, <5>1
        <4>3. k - 1 \in 0 .. N /\ k - 1 \notin T
          BY <1>1, <4>1, <4>2
        <4>4. PICK n \in 1 .. N : n = N - (k - 1) /\ n - 1 = N - k
          BY <1>1, <4>1, <4>2
        <4>5. g[Len(e[n]) + 1] = Rest(n)
          BY <4>3, <4>4
        <4>6. g[Len(e[n - 1]) + 1] = Rest(n - 1)
          BY <2>13, <4>5
        <4>7. QED
          BY <4>1, <4>4, <4>6
      <3>2. N \in 0 .. N /\ N - N = 0
        BY <1>1
      <3>3. QED
        BY <3>1, <3>2
    <2>16. Rest(0) = p
      <3>1. N - 0 = N /\ \A k \in 1 .. N : 0 + k = k
        BY <1>1
      <3>2. QED
        BY <1>1, <3>1 DEF Rest
    <2>17. Len(e[0]) + 1 = 1
      BY <2>2
    <2>18. QED
      BY <2>7, <2>9, <2>15, <2>16, <2>17
  <1>6. QED
    BY <1>4, <1>5

-----------------------------------------------------------------------------
(* What paths consist of.                                                  *)
Components == STRING \cup {Lines!Backslash}

(* What is given to the assembler: once everything has been read, for each *)
(* number the path that has it.                                            *)
FilesInv ==
  /\ DOMAIN globalFilePaths \subseteq Seq(Components)
  /\ \A p, q \in DOMAIN globalFilePaths : globalFilePaths[p] = globalFilePaths[q] => p = q
  /\ cv_files # << >> =>
       /\ Lines!AllRead
       /\ cv_files = [n \in Lines!Range(globalFilePaths) |->
            Lines!Escaped(CHOOSE p \in DOMAIN globalFilePaths : globalFilePaths[p] = n)]

(* A path stays a path when its slashes become backslashes.                *)
LEMMA FinalPathIsPath ==
  ASSUME NEW p \in Seq(STRING)
  PROVE  Lines!FinalPath(p) \in Seq(Components)
  <1>1. /\ Len(p) \in Nat /\ DOMAIN p = 1 .. Len(p)
        /\ \A i \in 1 .. Len(p) : p[i] \in Components
    BY DEF Components
  <1>2. p \in Seq(Components)
    BY <1>1
  <1>3. PICK q : q = [i \in DOMAIN p |-> IF p[i] = Lines!Slash THEN Lines!Backslash ELSE p[i]]
    OBVIOUS
  <1>4. q \in Seq(Components)
    BY <1>1, <1>3 DEF Components
  <1>5. QED
    BY <1>2, <1>3, <1>4 DEF Lines!FinalPath

(* Every step of the line tables keeps it.                                 *)
LEMMA FilesStep ==
  ASSUME LinesInv, FilesInv, [Lines!Next]_line_vars
  PROVE  FilesInv'
  <1>1. CASE Lines!NewFile
    <2>1. PICK path : path = Lines!FinalPath(Lines!ThisFile)
      OBVIOUS
    <2>2. PICK g : g = next_global_file_idx
      OBVIOUS
    <2>3. /\ Lines!ReadingFiles /\ Lines!ThisFile # NoPath /\ path \notin DOMAIN globalFilePaths
          /\ globalFilePaths' = Lines!Put(globalFilePaths, path, g)
          /\ units' = units /\ cu' = cu /\ cv_files' = cv_files
      BY <1>1, <2>1, <2>2 DEF Lines!NewFile
    <2>4. path \in Seq(Components)
      <3>1. files + 1 \in DOMAIN units[cu].files /\ cu \in DOMAIN units
        <4>1. LinesTypes
          BY DEF LinesInv
        <4>2. /\ cu \in DOMAIN units /\ Len(units[cu].files) \in Nat
              /\ DOMAIN units[cu].files = 1 .. Len(units[cu].files)
          BY <2>3, <4>1, UnitFacts DEF LinesTypes, Lines!ReadingFiles, Lines!Unit
        <4>3. files \in Nat /\ files < Len(units[cu].files)
          BY <2>3, <4>1 DEF LinesTypes, Lines!ReadingFiles, Lines!Unit
        <4>4. QED
          BY <4>2, <4>3
      <3>2. units[cu].files \in Seq(Seq(STRING) \cup {NoPath})
        BY <3>1 DEF LinesInv, LinesTypes, Lines!ProgramType, Lines!UnitType
      <3>3. Lines!ThisFile \in Seq(STRING)
        <4> DEFINE F == Seq(STRING) \cup {NoPath}
        <4> HIDE DEF F
        <4>1. units[cu].files[files + 1] \in F
          BY <3>1, <3>2 DEF F
        <4>2. QED
          BY <2>3, <4>1 DEF Lines!ThisFile, Lines!Unit, F
      <3>4. QED
        BY <2>1, <3>3, FinalPathIsPath
    <2>5. /\ DOMAIN globalFilePaths' = DOMAIN globalFilePaths \cup {path}
          /\ globalFilePaths'[path] = g
          /\ \A p \in DOMAIN globalFilePaths : globalFilePaths'[p] = globalFilePaths[p]
      BY <2>3 DEF Lines!Put
    <2>6. \A p \in DOMAIN globalFilePaths : globalFilePaths[p] # g
      BY <2>2 DEF LinesInv, LinesTypes, NumbersGiven
    <2>7. cv_files' = << >>
      <3>1. ~ Lines!AllRead
        BY <2>3 DEF LinesInv, LinesTypes, Lines!ReadingFiles, Lines!AllRead, Lines!ProgramType
      <3>2. QED
        BY <2>3, <3>1 DEF FilesInv
    <2>8. \A p, q \in DOMAIN globalFilePaths' :
            globalFilePaths'[p] = globalFilePaths'[q] => p = q
      BY <2>5, <2>6 DEF FilesInv
    <2>9. DOMAIN globalFilePaths' \subseteq Seq(Components)
      BY <2>4, <2>5 DEF FilesInv
    <2>10. QED
      BY <2>7, <2>8, <2>9 DEF FilesInv
  <1>2. CASE Lines!KnownFile \/ Lines!NamelessFile \/ Lines!ReadRow \/ Lines!NextUnit
    <2>1. globalFilePaths' = globalFilePaths /\ cv_files' = cv_files /\ units' = units
      BY <1>2 DEF Lines!KnownFile, Lines!NamelessFile, Lines!ReadRow, Lines!NextUnit
    <2>2. ~ Lines!AllRead
      BY <1>2 DEF LinesInv, LinesTypes, Lines!ReadingFiles, Lines!ReadingRows, Lines!AllRead,
                  Lines!ProgramType, Lines!KnownFile, Lines!NamelessFile, Lines!ReadRow,
                  Lines!NextUnit
    <2>3. cv_files' = << >>
      BY <2>1, <2>2 DEF FilesInv
    <2>4. QED
      BY <2>1, <2>3 DEF FilesInv
  <1>3. CASE Lines!EmitDebugFiles
    BY <1>3 DEF Lines!EmitDebugFiles, FilesInv, Lines!AllRead
  <1>4. CASE UNCHANGED line_vars
    BY <1>4 DEF line_vars, FilesInv, Lines!AllRead
  <1>5. QED
    BY <1>1, <1>2, <1>3, <1>4 DEF Lines!Next

(* Nothing has been read or written at the start.                          *)
LEMMA FilesStart == Lines!Init => FilesInv
  BY DEF Lines!Init, FilesInv

(* Every row's file is given, each path can be read back, and no two are   *)
(* the same.                                                               *)
LEMMA FilesGiven == LinesInv /\ FilesInv => Lines!FilesReadBack
  <1> SUFFICES ASSUME LinesInv, FilesInv, cv_files # << >>
               PROVE  /\ \A a \in DOMAIN addrToLineMap : addrToLineMap[a].file \in DOMAIN cv_files
                      /\ \A p \in DOMAIN globalFilePaths :
                           Lines!Unescaped(cv_files[globalFilePaths[p]]) = p
                      /\ Lines!IsInjective([n \in DOMAIN cv_files |->
                                              Lines!Unescaped(cv_files[n])])
    BY DEF Lines!FilesReadBack
  <1> DEFINE PathOfNumber(n) == CHOOSE p \in DOMAIN globalFilePaths : globalFilePaths[p] = n
             Numbers == Lines!Range(globalFilePaths)
  <1>1. Numbers = { globalFilePaths[p] : p \in DOMAIN globalFilePaths }
    BY DEF Lines!Range
  <1>2. cv_files = [n \in Numbers |-> Lines!Escaped(PathOfNumber(n))]
    BY DEF FilesInv
  <1> HIDE DEF Numbers
  <1>3. ASSUME NEW n \in Numbers
        PROVE  PathOfNumber(n) \in DOMAIN globalFilePaths /\ globalFilePaths[PathOfNumber(n)] = n
    BY <1>1
  <1> HIDE DEF PathOfNumber
  <1>4. ASSUME NEW n \in Numbers PROVE Lines!Unescaped(cv_files[n]) = PathOfNumber(n)
    <2>1. PathOfNumber(n) \in Seq(Components) /\ Lines!Backslash \in Components
      BY <1>3 DEF FilesInv, Components
    <2>2. cv_files[n] = Lines!Escaped(PathOfNumber(n))
      BY <1>2
    <2>3. QED
      BY <2>1, <2>2, EscapedReadBack
  <1>5. ASSUME NEW a \in DOMAIN addrToLineMap PROVE addrToLineMap[a].file \in DOMAIN cv_files
    <2>1. PICK u \in DOMAIN units : \E i \in 1 .. RowsRead(u) :
            /\ PathSaid(u, i) \in DOMAIN globalFilePaths
            /\ addrToLineMap[a] = [file |-> globalFilePaths[PathSaid(u, i)],
                                   line |-> units[u].rows[i].line]
      BY DEF LinesInv, RowsMapped
    <2>2. PICK i \in 1 .. RowsRead(u) :
            /\ PathSaid(u, i) \in DOMAIN globalFilePaths
            /\ addrToLineMap[a].file = globalFilePaths[PathSaid(u, i)]
      BY <2>1
    <2>3. QED
      BY <1>1, <1>2, <2>2
  <1>6. ASSUME NEW p \in DOMAIN globalFilePaths
        PROVE  Lines!Unescaped(cv_files[globalFilePaths[p]]) = p
    <2>1. PICK n : n = globalFilePaths[p]
      OBVIOUS
    <2>2. n \in Numbers
      BY <1>1, <2>1
    <2>3. PathOfNumber(n) = p
      BY <1>3, <2>1, <2>2 DEF FilesInv
    <2>4. QED
      BY <1>4, <2>1, <2>2, <2>3
  <1>7. Lines!IsInjective([n \in DOMAIN cv_files |-> Lines!Unescaped(cv_files[n])])
    <2>1. PICK h : h = [n \in Numbers |-> Lines!Unescaped(cv_files[n])]
      OBVIOUS
    <2>2. DOMAIN cv_files = Numbers
      BY <1>2
    <2>3. ASSUME NEW m \in Numbers, NEW n \in Numbers, h[m] = h[n] PROVE m = n
      <3>1. h[m] = PathOfNumber(m) /\ h[n] = PathOfNumber(n)
        BY <1>4, <2>1
      <3>2. QED
        BY <1>3, <2>3, <3>1
    <2>4. DOMAIN h = Numbers
      BY <2>1
    <2>5. Lines!IsInjective(h)
      BY <2>3, <2>4 DEF Lines!IsInjective
    <2>6. QED
      BY <2>1, <2>2, <2>5
  <1>8. QED
    BY <1>5, <1>6, <1>7

(* The assembler reads back the path of every file that a row has, and no  *)
(* file is given twice, however many units there are and however they      *)
(* spell their files.                                                      *)
THEOREM PathsReadBack == LoadSpec => []FilesReadBack
  <1> DEFINE Inv == part = "lines" => FilesInv
  <1>1. LoadInit => Inv
    BY FilesStart DEF LoadInit
  <1>2. LoadInv /\ Inv /\ [LoadNext]_all_vars => Inv'
    <2> SUFFICES ASSUME LoadInv, Inv, [LoadNext]_all_vars, part' = "lines" PROVE FilesInv'
      OBVIOUS
    <2>1. part' = part /\ [Lines!Next]_line_vars
      BY DEF LoadNext, NamesStep, LinesStep, RelocStep, all_vars
    <2>2. LinesInv /\ FilesInv
      BY <2>1 DEF LoadInv
    <2>3. QED
      BY <2>1, <2>2, FilesStep
  <1>3. LoadInv /\ Inv => FilesReadBack
    BY FilesGiven DEF LoadInv, FilesReadBack
  <1> HIDE DEF Inv
  <1>4. QED
    BY <1>1, <1>2, <1>3, LoadInductive, PTL DEF LoadSpec
=============================================================================
