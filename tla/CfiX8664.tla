------------------------------ MODULE CfiX8664 ------------------------------
(***************************************************************************)
(* X8664Backend::TranslateUnwindInfo: the DWARF call-frame instructions of *)
(* one function, read in order, become the SEH directives of its prologue; *)
(* and PrepareUnwindInfo's use of the result.                              *)
(*                                                                         *)
(* The program is not stored: every step reads one more instruction, any   *)
(* of those the constants allow.  An operand that the code multiplies by   *)
(* the data alignment is given here as the distance it stands for, so that *)
(* the _sf and _extended forms are the plain ones.  Where in the frame a   *)
(* register is saved is left out of the directives.                        *)
(***************************************************************************)
EXTENDS Integers, SequencesExt

CONSTANTS
  Deltas,      (* How far DW_CFA_advance_loc* moves, in bytes.             *)
  CfaOffsets,  (* Distances of the CFA from its register.                  *)
  Registers,   (* DWARF register numbers.                                  *)
  MaxLength    (* Bound: the number of instructions of a program.          *)

ASSUME DeltasAssumption     == Deltas \subseteq Nat
ASSUME CfaOffsetsAssumption == CfaOffsets \subseteq Nat
ASSUME RegistersAssumption  == Registers \subseteq Nat
ASSUME MaxLengthAssumption  == MaxLength \in Nat

VARIABLES
  length,              (* Instructions read so far.                        *)
  current_offset,      (* Code offset of the next instruction.             *)
  current_cfa_offset,
  max_cfa_offset,
  last_cfa_offset_change_offset,
  directives,          (* Sequence of records: off, op and arg (a size for *)
                       (* stackalloc, a register for the others).          *)
  last_prologue_offset,
  has_fp,
  result               (* What PrepareUnwindInfo keeps, once it has it.    *)

VARIABLES
  changes              (* History: the changes of the CFA, <<off, cfa>>.   *)

vars == <<length, current_offset, current_cfa_offset, max_cfa_offset,
          last_cfa_offset_change_offset, directives, last_prologue_offset,
          has_fp, result, changes>>

Initial   == 8      \* the return address
Word      == 8
Rbp       == 6
Callee    == {3, Rbp, 12, 13, 14, 15}   \* map_dwarf_reg_to_x86_64 knows these
Xmm       == 23 .. 32
NotYet    == [kept |-> FALSE]

(* The stack pointer is moved by whole words, unless a program says        *)
(* otherwise.  Without it an allocation may have no word to take.          *)
WholeWords == \A n \in CfaOffsets : n % Word = 0

Init ==
  /\ length = 0 /\ current_offset = 0
  /\ current_cfa_offset = Initial /\ max_cfa_offset = Initial
  /\ last_cfa_offset_change_offset = 0
  /\ directives = << >> /\ last_prologue_offset = 0
  /\ has_fp = FALSE /\ result = NotYet
  /\ changes = << >>

-----------------------------------------------------------------------------
Reading == result = NotYet /\ length < MaxLength /\ length' = length + 1

Directive(op, arg) == [off |-> current_offset, op |-> op, arg |-> arg]

(* Faulty: the end of the prologue is not moved.                           *)
PushOnly(list, op, arg) ==
  /\ directives' = Append(list, Directive(op, arg))
  /\ UNCHANGED last_prologue_offset

Push(list, op, arg) ==
  /\ directives' = Append(list, Directive(op, arg))
  /\ last_prologue_offset' = current_offset

Deepest(n) == IF n > max_cfa_offset THEN n ELSE max_cfa_offset

Cfa(n) ==
  /\ current_cfa_offset' = n
  /\ max_cfa_offset' = Deepest(n)
  /\ last_cfa_offset_change_offset' = current_offset
  /\ changes' = Append(changes, <<current_offset, n>>)

KeepCfa ==
  UNCHANGED <<current_cfa_offset, max_cfa_offset, last_cfa_offset_change_offset, changes>>

AdvanceLoc ==
  /\ Reading
  /\ \E d \in Deltas : current_offset' = current_offset + d
  /\ KeepCfa
  /\ UNCHANGED <<directives, last_prologue_offset, has_fp, result>>

DefCfaOffset ==
  /\ Reading
  /\ \E n \in CfaOffsets :
       /\ Cfa(n)
       /\ IF n > Initial
            THEN Push(directives, "stackalloc", n - Initial)
            ELSE UNCHANGED <<directives, last_prologue_offset>>
  /\ UNCHANGED <<current_offset, has_fp, result>>

DefCfa ==
  /\ Reading
  /\ \E r \in Registers, n \in CfaOffsets :
       /\ Cfa(n)
       /\ IF r = Rbp
            THEN Push(directives, "setframe", r) /\ has_fp' = TRUE
            ELSE UNCHANGED <<directives, last_prologue_offset, has_fp>>
  /\ UNCHANGED <<current_offset, result>>

DefCfaRegister ==
  /\ Reading
  /\ \E r \in Registers :
       IF r = Rbp
         THEN Push(directives, "setframe", r) /\ has_fp' = TRUE
         ELSE UNCHANGED <<directives, last_prologue_offset, has_fp>>
  /\ KeepCfa
  /\ UNCHANGED <<current_offset, result>>

(* The last stackalloc among the directives of this offset: a push moves   *)
(* the stack pointer too, so the word it takes is not allocated again.     *)
AllocsHere ==
  { i \in DOMAIN directives : /\ directives[i].off = current_offset
                              /\ directives[i].op = "stackalloc" }

LastAllocHere == CHOOSE i \in AllocsHere : \A j \in AllocsHere : j <= i

(* Faulty: the pushed word is allocated as well.                           *)
AllocationKept == directives

WithoutWord ==
  IF AllocsHere = {} THEN directives
  ELSE LET i    == LastAllocHere
           size == directives[i].arg
       IN  IF size = Word THEN RemoveAt(directives, i)
           ELSE IF size > Word THEN [directives EXCEPT ![i].arg = size - Word]
           ELSE directives

OffsetOf(r) ==
  IF r \in Xmm THEN Push(directives, "savexmm", r)
  ELSE IF r \notin Callee THEN UNCHANGED <<directives, last_prologue_offset>>
  ELSE IF last_cfa_offset_change_offset = current_offset
         THEN Push(WithoutWord, "pushreg", r)
         ELSE Push(directives, "savereg", r)

Offset ==
  /\ Reading
  /\ \E r \in Registers : OffsetOf(r)
  /\ KeepCfa
  /\ UNCHANGED <<current_offset, has_fp, result>>

(* The end of the program: PrepareUnwindInfo keeps the frame size and, if  *)
(* there are directives, the directives and the end of the prologue.       *)
Return ==
  /\ result = NotYet
  /\ result' = [kept      |-> TRUE,
                frameSize |-> max_cfa_offset - Initial,
                hasFp     |-> has_fp,
                dirs      |-> { directives[i].off : i \in DOMAIN directives },
                end       |-> last_prologue_offset]
  /\ UNCHANGED <<length, current_offset, directives, last_prologue_offset, has_fp>>
  /\ KeepCfa

Next ==
  \/ AdvanceLoc
  \/ DefCfaOffset
  \/ DefCfa
  \/ DefCfaRegister
  \/ Offset
  \/ Return

Spec == Init /\ [][Next]_vars

-----------------------------------------------------------------------------
(* The state has the shape the code's declarations give it.                *)
DirectiveType ==
  [off: Nat, op: {"stackalloc", "setframe", "savexmm", "pushreg", "savereg"},
   arg: Nat]

TypeOK ==
  /\ length \in 0 .. MaxLength
  /\ current_offset \in Nat
  /\ current_cfa_offset \in Nat
  /\ max_cfa_offset \in Nat
  /\ last_cfa_offset_change_offset \in Nat
  /\ directives \in Seq(DirectiveType)
  /\ last_prologue_offset \in Nat
  /\ has_fp \in BOOLEAN
  /\ changes \in Seq(Nat \X Nat)

(* EmitSehPrologue looks the directives up by code offset and writes       *)
(* .seh_endprologue at the recorded end: the directives are in code order  *)
(* (also after one of them was taken out again), and the end is the offset *)
(* of the last of them, so none comes behind .seh_endprologue.             *)
PrologueEndIsLast ==
  /\ \A i, j \in DOMAIN directives : i < j => directives[i].off <= directives[j].off
  /\ directives # << >> => Last(directives).off = last_prologue_offset

(* m_frameSize is the deepest the stack ever was, less the return address. *)
FrameSizeIsDeepest ==
  LET depths == {0} \cup { changes[i][2] - Initial : i \in DOMAIN changes }
  IN  result # NotYet =>
        /\ result.frameSize \in depths
        /\ \A n \in depths : n <= result.frameSize

(* The stack a directive accounts for, and all of them together.           *)
Takes(d) ==
  IF d.op = "stackalloc" THEN d.arg ELSE IF d.op = "pushreg" THEN Word ELSE 0

Accounted(dirs) ==
  LET first[n \in 0 .. Len(dirs)] == IF n = 0 THEN 0 ELSE first[n - 1] + Takes(dirs[n])
  IN  first[Len(dirs)]

(* A save that follows a change of the CFA at the same address is a push:  *)
(* while an allocation of that address is left to take its word from, it   *)
(* accounts for no more stack than was accounted for before.               *)
PushTakesFromTheAllocation ==
  Offset /\ last_cfa_offset_change_offset = current_offset /\ AllocsHere # {}
    => Accounted(directives') = Accounted(directives)

(* The call-frame instructions of a plain prologue: each instruction of    *)
(* the machine that moves the stack pointer moves it further down, and     *)
(* what is saved by a push is saved where the stack pointer moved.         *)
PlainPrologue ==
  /\ \A i, j \in DOMAIN changes :
       i < j => changes[i][1] < changes[j][1] /\ changes[i][2] < changes[j][2]
  /\ \A i \in DOMAIN changes : changes[i][1] > 0 /\ changes[i][2] > Initial
  /\ \A i \in DOMAIN directives : directives[i].op = "pushreg" =>
       \E j \in DOMAIN changes : changes[j][1] = directives[i].off

(* "Emits the recorded SEH directives that correspond to the current       *)
(* offset in the function's prologue, ensuring correct stack layout        *)
(* registration" (unwind_translator.h): the directives of a plain prologue *)
(* account for no more stack than the frame the function has.              *)
StackLayoutRegistered ==
  result # NotYet /\ PlainPrologue => Accounted(directives) <= result.frameSize
=============================================================================
