------------------------------- MODULE Unwind -------------------------------
(***************************************************************************)
(* The unwind translation of the target CreateBackend has chosen: one of   *)
(* the three backends that make SEH directives.  They share the variables  *)
(* they have in common; those of the other targets do not move.            *)
(***************************************************************************)
EXTENDS CfiX8664

CONSTANTS
  Archs,               (* The targets, of those below.                     *)
  Aarch64Registers, Aarch64CfaOffsets,
  Aarch64Slots,        (* The operands of DW_CFA_offset are factored by a  *)
                       (* data alignment of eight: slots do not overlap.   *)
  OffsetValues,        (* How many values an aarch64 offset has: 2^64.     *)
  ArmRegisters, ArmCfaOffsets

ASSUME ArchsAssumption == Archs \subseteq {"x86_64", "aarch64", "arm"}
ASSUME Aarch64Assumption ==
  /\ Aarch64Registers \subseteq Nat
  /\ OffsetValues \in Nat \ {0} /\ OffsetValues % 8 = 0
  /\ Aarch64CfaOffsets \subseteq 0 .. OffsetValues - 1
  /\ Aarch64Slots \subseteq 0 .. OffsetValues - 1
  /\ \A c \in Aarch64Slots : c % 8 = 0
ASSUME ArmAssumption == ArmRegisters \subseteq Nat /\ ArmCfaOffsets \subseteq Nat

VARIABLES arch, other_dirs, saves, all_offsets, pending, written, phase, slots

passes    == <<other_dirs, saves, all_offsets, written, phase>>
x86_only  == <<last_cfa_offset_change_offset, directives, result, changes>>
all_vars  == <<vars, arch, passes, pending, slots>>

Aarch64 == INSTANCE CfiAarch64
             WITH Registers <- Aarch64Registers, CfaOffsets <- Aarch64CfaOffsets,
                  Slots <- Aarch64Slots, directives <- written
Arm     == INSTANCE CfiArm
             WITH Registers <- ArmRegisters, CfaOffsets <- ArmCfaOffsets,
                  directives <- written

NoPasses  == other_dirs = << >> /\ saves = << >> /\ all_offsets = {} /\ written = << >>
             /\ phase = "reading"
NoX86     == last_cfa_offset_change_offset = 0 /\ directives = << >>
             /\ result = NotYet /\ changes = << >>
NoSlots   == pending = {} /\ slots = << >>

BackendInit ==
  /\ arch \in Archs
  /\ \/ arch = "x86_64"  /\ Init /\ NoPasses /\ NoSlots
     \/ arch = "aarch64" /\ Aarch64!Init /\ NoX86
     \/ arch = "arm"     /\ Arm!Init /\ NoX86 /\ NoSlots

X8664Step   == arch = "x86_64" /\ Next /\ UNCHANGED <<arch, passes, pending, slots>>
Aarch64Step == arch = "aarch64" /\ Aarch64!Next /\ UNCHANGED <<arch, x86_only>>
ArmStep     == arch = "arm" /\ Arm!Next /\ UNCHANGED <<arch, x86_only, pending, slots>>

BackendNext == X8664Step \/ Aarch64Step \/ ArmStep
BackendSpec == BackendInit /\ [][BackendNext]_all_vars

(* The states have the shape the code's declarations give them; no size    *)
(* and no frame offset, which are unsigned, wraps.  The offset of a save   *)
(* on aarch64 may.                                                         *)
TypesOK ==
  /\ arch \in Archs /\ TypeOK
  /\ arch = "aarch64" => Aarch64!TypeOK
  /\ arch = "arm"     => Arm!TypeOK

(* EmitSehPrologue looks directives up by code offset and ends the         *)
(* prologue at the recorded offset: those written by a second pass are in  *)
(* code order, the frame is allocated before it is saved to, and none is   *)
(* behind the end.                                                         *)
InPrologueOrder ==
  /\ arch = "aarch64" => Aarch64!InPrologueOrder
  /\ arch = "arm"     => Arm!InPrologueOrder

(* Pairing saves and gathering them into lists loses none and makes none   *)
(* up: every save of a register with a name is in one directive, of its    *)
(* code offset and, on aarch64, its slot.                                  *)
EachSaveOnce ==
  /\ arch = "aarch64" => Aarch64!EachSaveOnce
  /\ arch = "arm"     => Arm!EachSaveListed

(* On aarch64 no two saves that one directive could have stood for are     *)
(* written apart.                                                          *)
NothingLeftToPair == arch = "aarch64" => Aarch64!NothingLeftToPair

(* A save that follows an allocation at the same address is a push, which  *)
(* moves the stack pointer too: what it stores is taken out of the         *)
(* allocation, on x86_64 one register at a time, on arm a list at once.    *)
PushesTakeFromTheAllocation ==
  [][ /\ arch = "x86_64" => PushTakesFromTheAllocation
      /\ arch = "arm"    => Arm!PushTakesFromTheAllocation ]_all_vars
=============================================================================
