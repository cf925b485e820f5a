------------------------------ MODULE DefRange ------------------------------
(***************************************************************************)
(* The def-range loop of translate_block_variables: one location of a      *)
(* variable, valid from low_pc up to high_pc, becomes records that cover   *)
(* at most MaxDefRange bytes each.  The loop is written three times in the *)
(* code, for a register, a frame offset and a register-relative location;  *)
(* the three differ only in what a record says besides its range.          *)
(*                                                                         *)
(* Addresses are uint64_t; no sum of the loop passes high_pc, so they do   *)
(* not wrap.  The length of a record is a uint16_t, which is modelled.     *)
(***************************************************************************)
EXTENDS Integers

CONSTANTS
  Addresses,    (* Code addresses.                                         *)
  MaxDefRange,  (* 0xf000 in CodeView.                                     *)
  LengthValues  (* 2^16, how many values the length of a record has.       *)

ASSUME AddressesAssumption == Addresses \subseteq Nat
ASSUME MaxDefRangeAssumption ==
  MaxDefRange \in Nat \ {0} /\ LengthValues \in Nat /\ MaxDefRange < LengthValues

VARIABLES
  pc,
  func_start,
  low_pc, high_pc,   (* The location's range, or the whole function.       *)
  current_offset,
  remaining_len,
  ranges             (* Records written: <<offset in the function, length>>*)

vars == <<pc, func_start, low_pc, high_pc, current_offset, remaining_len, ranges>>

Init ==
  /\ pc = "location"
  /\ func_start \in Addresses
  /\ low_pc \in Addresses /\ high_pc \in Addresses /\ low_pc <= high_pc
  /\ current_offset = 0 /\ remaining_len = 0 /\ ranges = {}

(* A location that starts before the function is dropped with a warning.   *)
Ignore ==
  /\ pc = "location" /\ low_pc < func_start
  /\ pc' = "ignored"
  /\ UNCHANGED <<func_start, low_pc, high_pc, current_offset, remaining_len, ranges>>

Begin ==
  /\ pc = "location" /\ low_pc >= func_start
  /\ current_offset' = low_pc - func_start
  /\ remaining_len' = high_pc - low_pc
  /\ pc' = "split"
  /\ UNCHANGED <<func_start, low_pc, high_pc, ranges>>

(* Faulty: the length the field can hold, not the length it may have.      *)
WholeRemainder == remaining_len % LengthValues

CurrentLen ==
  LET len == IF remaining_len < MaxDefRange THEN remaining_len ELSE MaxDefRange
  IN  IF len < LengthValues THEN len ELSE len % LengthValues

(* Faulty: the next record starts where this one does.                     *)
EmitRangeInPlace ==
  /\ pc = "split" /\ remaining_len > 0
  /\ ranges' = ranges \cup {<<current_offset, CurrentLen>>}
  /\ remaining_len' = remaining_len - CurrentLen
  /\ UNCHANGED <<pc, func_start, low_pc, high_pc, current_offset>>

EmitRange ==
  /\ pc = "split" /\ remaining_len > 0
  /\ ranges' = ranges \cup {<<current_offset, CurrentLen>>}
  /\ current_offset' = current_offset + CurrentLen
  /\ remaining_len' = remaining_len - CurrentLen
  /\ UNCHANGED <<pc, func_start, low_pc, high_pc>>

Finish ==
  /\ pc = "split" /\ remaining_len = 0
  /\ pc' = "done"
  /\ UNCHANGED <<func_start, low_pc, high_pc, current_offset, remaining_len, ranges>>

Next == Ignore \/ Begin \/ EmitRange \/ Finish

Spec     == Init /\ [][Next]_vars
FairSpec == Spec /\ WF_vars(Next)

-----------------------------------------------------------------------------
TypeOK ==
  /\ pc \in {"location", "ignored", "split", "done"}
  /\ func_start \in Nat /\ low_pc \in Nat /\ high_pc \in Nat
  /\ current_offset \in Nat /\ remaining_len \in Nat
  /\ ranges \subseteq Nat \X (1 .. MaxDefRange)

(* The records of a location cover its range, and no byte twice or outside *)
(* of it: a debugger finds the variable at every address of the range.     *)
First == low_pc - func_start
Limit == high_pc - func_start

RangeTiled ==
  pc = "done" =>
    /\ \A x \in First .. Limit - 1 : \E r \in ranges : r[1] <= x /\ x < r[1] + r[2]
    /\ \A r \in ranges : First <= r[1] /\ r[1] + r[2] <= Limit
    /\ \A r, q \in ranges : r # q => r[1] + r[2] <= q[1] \/ q[1] + q[2] <= r[1]

(* The loop ends: each record takes something of what remains.             *)
Termination == <>(pc \in {"done", "ignored"})
=============================================================================
