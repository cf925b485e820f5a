------------------------------- MODULE CfiArm -------------------------------
(***************************************************************************)
(* ArmBackend::TranslateUnwindInfo.  As on aarch64 the call-frame          *)
(* instructions are read first and the directives written in a second pass *)
(* over the code offsets; the saves of an offset become one list of core   *)
(* registers and one of vector registers, and a push takes what it stores  *)
(* out of the allocation written just before.                              *)
(*                                                                         *)
(* As in CfiX8664 every step of the first pass reads one more instruction, *)
(* operands are the distances they stand for.  The slots of the saves do   *)
(* not reach the directives and are left out.                              *)
(***************************************************************************)
EXTENDS Integers, SequencesExt

CONSTANTS    \* numbers all
  Deltas,      (* How far DW_CFA_advance_loc* moves, in bytes.             *)
  CfaOffsets,  (* Distances of the CFA from its register.                  *)
  Registers,   (* DWARF numbers of the registers that are saved.           *)
  MaxLength    (* Bound: the number of instructions of a program.          *)

VARIABLES
  length,                (* Instructions read so far.                      *)
  current_offset,
  current_cfa_offset,
  max_cfa_offset,
  last_prologue_offset,
  has_fp,
  other_dirs,            (* other_dirs_at_offset and saves_at_offset as    *)
  saves,                 (* sequences: offsets never go back.              *)
  all_offsets,           (* Second pass: the offsets still to be written.  *)
  directives,            (* [off, op, regs, arg]: arg is a size.           *)
  phase

vars == <<length, current_offset, current_cfa_offset, max_cfa_offset,
          last_prologue_offset, has_fp, other_dirs, saves, all_offsets,
          directives, phase>>

Fp    == 11
Sp    == 13
Lr    == 14
Vector == 256 .. 287
Named  == (0 .. 12) \cup {Lr} \cup Vector    \* map_dwarf_reg_to_arm32

Init ==
  /\ length = 0 /\ current_offset = 0
  /\ current_cfa_offset = 0 /\ max_cfa_offset = 0
  /\ last_prologue_offset = 0 /\ has_fp = FALSE
  /\ other_dirs = << >> /\ saves = << >>
  /\ all_offsets = {} /\ directives = << >>
  /\ phase = "reading"

-----------------------------------------------------------------------------
Reading == phase = "reading" /\ length < MaxLength /\ length' = length + 1

Dir(op, regs, arg) == [off |-> current_offset, op |-> op, regs |-> regs, arg |-> arg]

(* The directives an instruction adds; the prologue ends behind them.      *)
Push(dirs) ==
  /\ other_dirs' = other_dirs \o dirs
  /\ last_prologue_offset' = IF dirs = << >> THEN last_prologue_offset ELSE current_offset

Cfa(n) ==
  /\ current_cfa_offset' = n
  /\ max_cfa_offset' = IF n > max_cfa_offset THEN n ELSE max_cfa_offset

Alloc(n) == IF n > 0 THEN << Dir("stackalloc", {}, n) >> ELSE << >>

SetFrame(n) == << Dir("frame", {Fp}, n) >>

FrameOffset == IF current_cfa_offset >= 8 THEN current_cfa_offset - 8 ELSE 0

AdvanceLoc ==
  /\ Reading
  /\ \E d \in Deltas : current_offset' = current_offset + d
  /\ UNCHANGED <<current_cfa_offset, max_cfa_offset, last_prologue_offset, has_fp,
                 other_dirs, saves, all_offsets, directives, phase>>

DefCfaOffset ==
  /\ Reading
  /\ \E n \in CfaOffsets : Cfa(n) /\ Push(Alloc(n))
  /\ UNCHANGED <<current_offset, has_fp, saves, all_offsets, directives, phase>>

(* Unlike on aarch64 nothing is allocated here.                            *)
DefCfa ==
  /\ Reading
  /\ \E r \in {Sp, Fp}, n \in CfaOffsets :
       /\ Cfa(n)
       /\ Push(IF r = Fp THEN SetFrame(0) ELSE << >>)
       /\ has_fp' = (has_fp \/ r = Fp)
  /\ UNCHANGED <<current_offset, saves, all_offsets, directives, phase>>

DefCfaRegister ==
  /\ Reading
  /\ Push(SetFrame(FrameOffset))
  /\ has_fp' = TRUE
  /\ UNCHANGED <<current_offset, current_cfa_offset, max_cfa_offset, saves,
                 all_offsets, directives, phase>>

Offset ==
  /\ Reading
  /\ \E r \in Registers :
       /\ \A i \in DOMAIN saves : saves[i].reg # r      \* saved once (external)
       /\ saves' = Append(saves, [off |-> current_offset, reg |-> r])
  /\ last_prologue_offset' = current_offset
  /\ UNCHANGED <<current_offset, current_cfa_offset, max_cfa_offset, has_fp, other_dirs,
                 all_offsets, directives, phase>>

-----------------------------------------------------------------------------
SavedAt(off, regs) == { s.reg : s \in { t \in ToSet(saves) : t.off = off /\ t.reg \in regs } }

(* Faulty: an allocation that is all of the push is left in place.         *)
WithoutUnlessAll(dirs, off, size) ==
  IF dirs # << >> /\ Last(dirs).off = off /\ Last(dirs).op = "stackalloc" /\ Last(dirs).arg > size
    THEN [dirs EXCEPT ![Len(dirs)].arg = @ - size]
  ELSE dirs

(* The directives with `size` taken out of an allocation that is last.     *)
Without(dirs, off, size) ==
  IF dirs # << >> /\ Last(dirs).off = off /\ Last(dirs).op = "stackalloc"
    THEN IF Last(dirs).arg = size THEN Front(dirs)
         ELSE IF Last(dirs).arg > size THEN [dirs EXCEPT ![Len(dirs)].arg = @ - size]
         ELSE dirs
  ELSE dirs

(* A list of saves; nameless registers count for the size but not for the  *)
(* list, and a list of none of the others is not written.                  *)
Listed(dirs, off, op, regs, size) ==
  IF regs \cap Named = {} THEN dirs
  ELSE Append(Without(dirs, off, size * Cardinality(regs)),
              [off |-> off, op |-> op, regs |-> regs \cap Named, arg |-> 0])

(* Faulty: vector registers are listed with the others.                    *)
WrittenTogether(dirs, off) ==
  Listed(dirs, off, "save_regs", SavedAt(off, Registers), 4)

Written(dirs, off) ==
  LET core == Listed(dirs, off, "save_regs", SavedAt(off, Registers \ Vector), 4)
  IN  Listed(core, off, "save_fregs", SavedAt(off, Vector), 8)

EndOfProgram ==
  /\ phase = "reading" /\ phase' = "writing"
  /\ all_offsets' = { d.off : d \in ToSet(other_dirs) } \cup { s.off : s \in ToSet(saves) }
  /\ UNCHANGED <<length, current_offset, current_cfa_offset, max_cfa_offset,
                 last_prologue_offset, has_fp, other_dirs, saves, directives>>

(* What the map has for an offset; other_dirs is in the order of offsets.  *)
OthersAt(off) ==
  LET here == { i \in DOMAIN other_dirs : other_dirs[i].off = off }
  IN  IF here = {} THEN << >> ELSE SubSeq(other_dirs, Min(here), Max(here))

NextOffset == Min(all_offsets)

WriteOffset ==
  /\ phase = "writing" /\ all_offsets # {}
  /\ directives' = Written(directives \o OthersAt(NextOffset), NextOffset)
  /\ all_offsets' = all_offsets \ {NextOffset}
  /\ UNCHANGED <<length, current_offset, current_cfa_offset, max_cfa_offset,
                 last_prologue_offset, has_fp, other_dirs, saves, phase>>

Next ==
  \/ AdvanceLoc
  \/ DefCfaOffset
  \/ DefCfa
  \/ DefCfaRegister
  \/ Offset
  \/ EndOfProgram
  \/ WriteOffset

Spec == Init /\ [][Next]_vars

-----------------------------------------------------------------------------
Done == phase = "writing" /\ all_offsets = {}

DirectiveType ==
  [off: Nat, regs: SUBSET (Registers \cup {Fp}), arg: Nat,
   op: {"stackalloc", "frame", "save_regs", "save_fregs"}]

(* The state has the shape the code's declarations give it; no size and no *)
(* frame offset, which are unsigned, wraps.                                *)
TypeOK ==
  /\ length \in 0 .. MaxLength
  /\ current_offset \in Nat /\ current_cfa_offset \in Nat
  /\ max_cfa_offset \in Nat /\ last_prologue_offset \in Nat
  /\ has_fp \in BOOLEAN
  /\ other_dirs \in Seq(DirectiveType) /\ directives \in Seq(DirectiveType)
  /\ saves \in Seq([off: Nat, reg: Registers])
  /\ all_offsets \subseteq 0 .. current_offset
  /\ phase \in {"reading", "writing"}

Lists(op) == { d \in ToSet(directives) : d.op = op }

(* Every save of a register with a name is in the list of its kind at its  *)
(* code offset, and nothing else is; one offset has one list of a kind.    *)
EachSaveListed ==
  Done =>
    \A off \in 0 .. current_offset :
      /\ UNION { d.regs : d \in { e \in Lists("save_regs")  : e.off = off } }
           = SavedAt(off, Named \ Vector)
      /\ UNION { d.regs : d \in { e \in Lists("save_fregs") : e.off = off } }
           = SavedAt(off, Vector)

(* EmitSehPrologue looks directives up by code offset and ends the         *)
(* prologue at the recorded offset: they are in code order, allocations    *)
(* come before saves, and none is behind the end.                          *)
InPrologueOrder ==
  /\ \A i, j \in DOMAIN directives : i < j =>
       /\ directives[i].off <= directives[j].off
       /\ directives[i].off = directives[j].off /\ directives[j].op \in {"stackalloc", "frame"}
          => directives[i].op \in {"stackalloc", "frame"}
  /\ directives # << >> => Last(directives).off <= last_prologue_offset

(* The stack a directive accounts for, and all of them together.           *)
Takes(d) ==
  IF d.op = "stackalloc" THEN d.arg
  ELSE IF d.op = "save_regs" THEN 4 * Cardinality(d.regs)
  ELSE IF d.op = "save_fregs" THEN 8 * Cardinality(d.regs)
  ELSE 0

Accounted(dirs) ==
  LET first[n \in 0 .. Len(dirs)] == IF n = 0 THEN 0 ELSE first[n - 1] + Takes(dirs[n])
  IN  first[Len(dirs)]

(* What the saves of an offset store, and what is allocated last there.    *)
Stored(off) ==
  4 * Cardinality(SavedAt(off, Registers \ Vector)) + 8 * Cardinality(SavedAt(off, Vector))

LastAlloc(off) ==
  LET others == OthersAt(off)
  IN  IF others # << >> /\ Last(others).op = "stackalloc" THEN Last(others).arg ELSE 0

OneKind(off) == SavedAt(off, Vector) = {} \/ SavedAt(off, Registers \ Vector) = {}

(* A push (of registers of one kind, all with names) whose bytes the       *)
(* allocation of its offset has room for takes them from it: the offset    *)
(* accounts for what was allocated, neither more nor less, and no empty    *)
(* allocation is left behind.                                              *)
PushTakesFromTheAllocation ==
  /\ WriteOffset
  /\ SavedAt(NextOffset, Registers \ Named) = {}
  /\ OneKind(NextOffset)
  /\ Stored(NextOffset) <= LastAlloc(NextOffset)
  => /\ Accounted(directives') = Accounted(directives) + Accounted(OthersAt(NextOffset))
     /\ \A d \in ToSet(directives') : d.op = "stackalloc" => d.arg > 0
=============================================================================
