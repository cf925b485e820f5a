----------------------------- MODULE CfiAarch64 -----------------------------
(***************************************************************************)
(* Aarch64Backend::TranslateUnwindInfo.  The call-frame instructions of a  *)
(* function are read first; what they say is kept by code offset, saves    *)
(* apart from everything else.  A second pass over the offsets writes the  *)
(* directives, with saves of neighbouring slots paired into one; a step of *)
(* it is one turn of a loop, over the offsets or over the saves of one.    *)
(*                                                                         *)
(* As in CfiX8664 every step of the first pass reads one more instruction, *)
(* operands are the distances they stand for, and the _sf and _extended    *)
(* forms are the plain ones.                                               *)
(***************************************************************************)
EXTENDS Integers, SequencesExt

CONSTANTS    \* numbers all
  Deltas,      (* How far DW_CFA_advance_loc* moves, in bytes.             *)
  CfaOffsets,  (* Distances of the CFA from its register.                  *)
  Slots,       (* Distances of saved registers below the CFA, in multiples *)
               (* of the data alignment, eight.                            *)
  Registers,   (* DWARF numbers of the registers that are saved.           *)
  OffsetValues,(* How many values a uint64_t has, an offset's type: 2^64.  *)
  MaxLength    (* Bound: the number of instructions of a program.          *)

VARIABLES
  length,                (* Instructions read so far.                      *)
  current_offset,
  current_cfa_offset,
  max_cfa_offset,
  last_prologue_offset,
  has_fp,
  other_dirs,            (* other_dirs_at_offset and saves_at_offset as    *)
  saves,                 (* sequences: offsets never go back.              *)
  all_offsets,           (* Second pass: the offsets still to be written,  *)
  pending,               (* and the saves of the one that is being written.*)
  directives,            (* [off, op, regs, arg]: arg is a size or a slot. *)
  phase

VARIABLES
  slots                  (* History: the saves' distances below the CFA.   *)

vars == <<length, current_offset, current_cfa_offset, max_cfa_offset,
          last_prologue_offset, has_fp, other_dirs, saves, all_offsets,
          pending, directives, phase, slots>>

emission == <<all_offsets, pending, directives, phase>>

Fp == 29
Lr == 30
Sp == 31
FpRegs == 72 .. 79
Named  == (19 .. 30) \cup FpRegs       \* those map_dwarf_reg_to_arm64 knows

Init ==
  /\ length = 0 /\ current_offset = 0
  /\ current_cfa_offset = 0 /\ max_cfa_offset = 0
  /\ last_prologue_offset = 0 /\ has_fp = FALSE
  /\ other_dirs = << >> /\ saves = << >>
  /\ all_offsets = {} /\ pending = {} /\ directives = << >>
  /\ phase = "reading"
  /\ slots = << >>

-----------------------------------------------------------------------------
Reading == phase = "reading" /\ length < MaxLength /\ length' = length + 1

Dir(op, regs, arg) == [off |-> current_offset, op |-> op, regs |-> regs, arg |-> arg]

(* Faulty: the end of the prologue is not moved.                           *)
PushOnly(dirs) == other_dirs' = other_dirs \o dirs /\ UNCHANGED last_prologue_offset

(* The directives an instruction adds; the prologue ends behind them.      *)
Push(dirs) ==
  /\ other_dirs' = other_dirs \o dirs
  /\ last_prologue_offset' = IF dirs = << >> THEN last_prologue_offset ELSE current_offset

Deepest(n) == IF n > max_cfa_offset THEN n ELSE max_cfa_offset

Cfa(n) == current_cfa_offset' = n /\ max_cfa_offset' = Deepest(n)

Alloc(n) == IF n > 0 THEN << Dir("stackalloc", << >>, n) >> ELSE << >>

SetFrame(n) == << Dir("frame", << Fp >>, n) >>

(* Faulty: the difference is not checked before it is taken.               *)
FrameOffsetUnchecked == current_cfa_offset - 16

FrameOffset == IF current_cfa_offset >= 16 THEN current_cfa_offset - 16 ELSE 0

(* Compilers say where the CFA is at a code offset before they say which   *)
(* registers are saved there (external).                                   *)
NoSaveHere == \A i \in DOMAIN saves : saves[i].off < current_offset

AdvanceLoc ==
  /\ Reading
  /\ \E d \in Deltas : current_offset' = current_offset + d
  /\ UNCHANGED <<current_cfa_offset, max_cfa_offset, last_prologue_offset, has_fp,
                 other_dirs, saves, emission, slots>>

DefCfaOffset ==
  /\ Reading /\ NoSaveHere
  /\ \E n \in CfaOffsets : Cfa(n) /\ Push(Alloc(n))
  /\ UNCHANGED <<current_offset, has_fp, saves, emission, slots>>

(* The frame offset is current_cfa_offset - offset after the one was made  *)
(* the other.                                                              *)
DefCfa ==
  /\ Reading /\ NoSaveHere
  /\ \E r \in {Sp, Fp}, n \in CfaOffsets :
       /\ Cfa(n)
       /\ Push(Alloc(n - current_cfa_offset) \o (IF r = Fp THEN SetFrame(0) ELSE << >>))
       /\ has_fp' = (has_fp \/ r = Fp)
  /\ UNCHANGED <<current_offset, saves, emission, slots>>

DefCfaRegister ==
  /\ Reading
  /\ Push(SetFrame(FrameOffset))
  /\ has_fp' = TRUE
  /\ UNCHANGED <<current_offset, current_cfa_offset, max_cfa_offset, saves, emission, slots>>

(* A compiler saves a register once and each at a slot of its own          *)
(* (external).                                                             *)
Free(r, c) == \A i \in DOMAIN saves : saves[i].reg # r /\ slots[i] # c

(* Where a slot is above the register the CFA is told from.  One further   *)
(* from the CFA than that register, as those below a frame record the CFA  *)
(* is told from, is below it: the difference, which is unsigned and not    *)
(* checked, wraps.                                                         *)
SlotOffset(c) == (current_cfa_offset - c) % OffsetValues

Offset ==
  /\ Reading
  /\ \E r \in Registers, c \in Slots :
       /\ Free(r, c)
       /\ saves' = Append(saves, [off |-> current_offset, reg |-> r, at |-> SlotOffset(c)])
       /\ slots' = Append(slots, c)
  /\ last_prologue_offset' = current_offset
  /\ UNCHANGED <<current_offset, current_cfa_offset, max_cfa_offset, has_fp, other_dirs,
                 emission>>

-----------------------------------------------------------------------------
(* What a map has for an offset, of a sequence in the order of offsets.    *)
At(list, off) ==
  LET here == { i \in DOMAIN list : list[i].off = off }
  IN  IF here = {} THEN << >> ELSE SubSeq(list, Min(here), Max(here))

Directive(s, op, regs) == [off |-> s.off, op |-> op, regs |-> regs, arg |-> s.at]

(* The directive for two saves of neighbouring slots, or none.             *)
PairOp(s1, s2) ==
  IF s2.at # (s1.at + 8) % OffsetValues \/ {s1.reg, s2.reg} \ Named # {} THEN "none"
  ELSE IF s1.reg = Fp /\ s2.reg = Lr THEN "save_fplr"
  ELSE IF {s1.reg, s2.reg} \subseteq FpRegs THEN "save_freg_p"
  ELSE IF {s1.reg, s2.reg} \subseteq 0 .. 30 THEN "save_reg_p"
  ELSE "none"

Single(s) ==
  IF s.reg \notin Named THEN << >>
  ELSE << Directive(s, IF s.reg \in FpRegs THEN "save_freg" ELSE "save_reg", <<s.reg>>) >>

Pair(s1, s2) == << Directive(s1, PairOp(s1, s2), <<s1.reg, s2.reg>>) >>

(* Faulty: the saves of an offset are in the order of the program.         *)
FirstRead(set) ==
  LET at == Min({ i \in DOMAIN saves : saves[i] \in set }) IN saves[at]

(* The saves are sorted by slot, and the loop goes on with the first left. *)
First(set) == CHOOSE s \in set : \A t \in set : s.at <= t.at

(* Faulty: after a pair the loop goes on with the pair's second save.      *)
AfterOne(s1, s2) == pending \ {s1}

AfterPair(s1, s2) == pending \ {s1, s2}

EndOfProgram ==
  /\ phase = "reading" /\ phase' = "writing"
  /\ all_offsets' = { d.off : d \in ToSet(other_dirs) } \cup { s.off : s \in ToSet(saves) }
  /\ UNCHANGED <<length, current_offset, current_cfa_offset, max_cfa_offset,
                 last_prologue_offset, has_fp, other_dirs, saves, pending, directives, slots>>

Writing ==
  /\ phase = "writing"
  /\ UNCHANGED <<length, current_offset, current_cfa_offset, max_cfa_offset,
                 last_prologue_offset, has_fp, other_dirs, saves, phase, slots>>

WriteOffset ==
  /\ Writing /\ pending = {} /\ all_offsets # {}
  /\ LET off == Min(all_offsets)
     IN  /\ directives' = directives \o At(other_dirs, off)
         /\ pending' = { s \in ToSet(saves) : s.off = off }
         /\ all_offsets' = all_offsets \ {off}

WriteSave ==
  /\ Writing /\ pending # {}
  /\ LET s1 == First(pending)
         s2 == First(pending \ {s1})
     IN  IF pending # {s1} /\ PairOp(s1, s2) # "none"
           THEN directives' = directives \o Pair(s1, s2) /\ pending' = AfterPair(s1, s2)
           ELSE directives' = directives \o Single(s1) /\ pending' = pending \ {s1}
  /\ UNCHANGED all_offsets

Next ==
  \/ AdvanceLoc
  \/ DefCfaOffset
  \/ DefCfa
  \/ DefCfaRegister
  \/ Offset
  \/ EndOfProgram
  \/ WriteOffset
  \/ WriteSave

Spec == Init /\ [][Next]_vars

-----------------------------------------------------------------------------
Done == phase = "writing" /\ all_offsets = {} /\ pending = {}

DirectiveType ==
  [off: Nat, regs: Seq(Nat), arg: Nat,
   op: {"stackalloc", "frame", "save_fplr", "save_freg_p", "save_reg_p", "save_freg", "save_reg"}]

(* The state has the shape the code's declarations give it.  The frame     *)
(* register's offset, which is unsigned, does not wrap; the saves' may.    *)
TypeOK ==
  /\ length \in 0 .. MaxLength
  /\ current_offset \in Nat /\ current_cfa_offset \in 0 .. OffsetValues - 1
  /\ max_cfa_offset \in Nat /\ last_prologue_offset \in Nat
  /\ has_fp \in BOOLEAN
  /\ other_dirs \in Seq(DirectiveType) /\ directives \in Seq(DirectiveType)
  /\ saves \in Seq([off: Nat, reg: Registers, at: 0 .. OffsetValues - 1])
  /\ all_offsets \subseteq 0 .. current_offset /\ pending \subseteq ToSet(saves)
  /\ phase \in {"reading", "writing"}
  /\ Len(slots) = Len(saves)

(* The saves a directive stands for: a pair's second is a slot further up. *)
Saved(d) ==
  IF d.op \in {"stackalloc", "frame"} THEN {}
  ELSE { [off |-> d.off, reg |-> d.regs[k], at |-> d.arg + 8 * (k - 1)] : k \in DOMAIN d.regs }

(* Pairing loses no save, makes none up and moves none: every save of a    *)
(* register with a name is in exactly one directive, of its code offset    *)
(* and slot.                                                               *)
EachSaveOnce ==
  Done =>
    /\ UNION { Saved(d) : d \in ToSet(directives) } = { s \in ToSet(saves) : s.reg \in Named }
    /\ \A i, j \in DOMAIN directives :
         i # j => Saved(directives[i]) \cap Saved(directives[j]) = {}

(* No two saves that one directive could have stood for are apart: within  *)
(* an offset no single save has a single neighbour above it that it could  *)
(* be paired with.  The last slot below the CFA's register, whose offset   *)
(* has wrapped, and the first above it are not neighbours to the sort.     *)
NothingLeftToPair ==
  \A i, j \in DOMAIN directives :
    LET d == directives[i]  e == directives[j]
    IN  /\ d.off = e.off /\ d.op \in {"save_reg", "save_freg"} /\ e.op = d.op
        /\ d.arg < e.arg
        => PairOp([reg |-> d.regs[1], at |-> d.arg], [reg |-> e.regs[1], at |-> e.arg]) = "none"

(* EmitSehPrologue looks directives up by code offset and ends the         *)
(* prologue at the recorded offset: they are in code order, the frame is   *)
(* allocated before it is saved to, and none is behind the end.            *)
InPrologueOrder ==
  /\ \A i, j \in DOMAIN directives : i < j =>
       /\ directives[i].off <= directives[j].off
       /\ directives[i].off = directives[j].off /\ Saved(directives[i]) # {}
          => Saved(directives[j]) # {}
  /\ directives # << >> => Last(directives).off <= last_prologue_offset
=============================================================================
