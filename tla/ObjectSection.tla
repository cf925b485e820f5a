---------------------------- MODULE ObjectSection ----------------------------
(***************************************************************************)
(* What EmitSections promises the consumers of section .elf, the linker,   *)
(* the debugger and the unwinder: the file-backed bytes of the image       *)
(* arrive, each at its own address, and code is cut into function ranges   *)
(* one at a time, a range being closed only when all of its bytes are      *)
(* there.  Nothing is said of how the listing is walked, of relocations or *)
(* of directives.                                                          *)
(***************************************************************************)
EXTENDS Integers

VARIABLES
  file,    (* The addresses of the image's file-backed bytes.              *)
  mem,     (* The addresses at which the section holds its own byte.       *)
  open,    (* The function whose range is open: {} or {f}.                 *)
  ranges,  (* The closed ranges, <<first, one past the last>>.             *)
  status

vars == <<file, mem, open, ranges, status>>

Init ==
  /\ file \in SUBSET Nat
  /\ mem = {} /\ open = {} /\ ranges = {}
  /\ status = "emitting"

(* Some more bytes of the file appear.                                     *)
Place ==
  /\ status = "emitting"
  /\ mem \subseteq mem' /\ mem' \subseteq file
  /\ UNCHANGED <<file, open, ranges, status>>

(* A function begins, at a byte still to come, behind all closed ranges.   *)
Open(f) ==
  /\ status = "emitting"
  /\ open = {} /\ f \notin mem
  /\ \A r \in ranges : r[2] <= f
  /\ open' = {f}
  /\ UNCHANGED <<file, mem, ranges, status>>

(* The open function ends behind the byte e - 1; its bytes are all there.  *)
Close(f, e) ==
  /\ status = "emitting"
  /\ open = {f} /\ f < e /\ f .. e - 1 \subseteq mem
  /\ open' = {}
  /\ ranges' = ranges \cup {<<f, e>>}
  /\ UNCHANGED <<file, mem, status>>

(* Complete: nothing of the file is missing and no function is open.       *)
Finish ==
  /\ status = "emitting"
  /\ open = {} /\ mem = file
  /\ status' = "complete"
  /\ UNCHANGED <<file, mem, open, ranges>>

(* A segment whose contents cannot be read ends the section early.         *)
GiveUp ==
  /\ status = "emitting"
  /\ open = {}
  /\ status' = "truncated"
  /\ UNCHANGED <<file, mem, open, ranges>>

Next ==
  \/ Place
  \/ \E f \in file : Open(f)
  \/ \E f \in open : \E last \in mem : Close(f, last + 1)
  \/ Finish
  \/ GiveUp

Spec == Init /\ [][Next]_vars
=============================================================================
