------------------------------ MODULE MCUnwind ------------------------------
(***************************************************************************)
(* Unwind over programs of up to five instructions.  The registers are     *)
(* those that differ: on x86_64 a pushed one, the frame pointer, a vector  *)
(* register and one without a name; on aarch64 the frame record, a         *)
(* callee-saved register, two vector registers and one without a name; on  *)
(* arm two core registers, the program counter, which has no name in a     *)
(* list, and two vector registers.  The distances are in words of the      *)
(* target.                                                                 *)
(***************************************************************************)
EXTENDS Unwind

MCRegisters         == {3, 6, 23, 16}
MCAarch64Registers  == {9, 19, 29, 30, 72, 73}
MCAarch64CfaOffsets == {16, 32}
MCAarch64Slots      == {8, 16, 24}
MCArmRegisters      == {4, 14, 15, 256, 257}
MCArmCfaOffsets     == {4, 8, 24}

ASSUME MCWholeWords == WholeWords
=============================================================================
