----------------------------- MODULE FrameLayout -----------------------------
(***************************************************************************)
(* Where CodeView says the variables of a function's frame are.  Four      *)
(* pieces of code have to agree on it: the backends' TranslateUnwindInfo   *)
(* keeps the deepest CFA and whether there is a frame pointer,             *)
(* PrepareUnwindInfo stores both, EmitCodeviewSymbolTable names the base   *)
(* register of the frame in S_FRAMEPROC, and try_parse_stack_offset_expr   *)
(* turns an offset from the CFA into one from that register.               *)
(*                                                                         *)
(* The prologue is run: each step is an instruction of the machine with    *)
(* the call-frame instructions a compiler puts behind it (external), which *)
(* the backend reads.  Distances are counted in words of the target.       *)
(***************************************************************************)
EXTENDS Integers

CONSTANTS
  Archs,      (* A subset of {"x86_64", "x86", "aarch64", "arm"}.          *)
  Sizes,      (* How many words one instruction may allocate.              *)
  Offsets,    (* DW_OP_fbreg operands of variables, in words.              *)
  MaxDepth    (* Bound: the words of a frame.                              *)

ASSUME ArchsAssumption == Archs \subseteq {"x86_64", "x86", "aarch64", "arm"}
ASSUME SizesAssumption == Sizes \subseteq Nat \ {0}
ASSUME OffsetsAssumption == Offsets \subseteq Int
ASSUME DepthAssumption == MaxDepth \in Nat \ {0, 1}

VARIABLES
  arch,
  frame_base,          (* DW_AT_frame_base: "cfa", or the base register.   *)
  tables,              (* Those of "eh" and "debug" that are not empty.    *)
  described,           (* Those of them that have an FDE of the function.  *)
  depth,               (* CFA - stack pointer.                             *)
  fp_depth,            (* CFA - frame pointer, 0 while it is the caller's. *)
  current_cfa_offset,  (* These three as the backend reads them.           *)
  max_cfa_offset,
  has_fp,
  setframe,            (* Is there a .seh_setframe or .seh_frame directive?*)
  ctx,                 (* m_frameSizes, m_hasFramePointer, m_unwindInfo.   *)
  frame_proc,          (* S_FRAMEPROC's total size and base register.      *)
  phase

vars == <<arch, frame_base, tables, described, depth, fp_depth, current_cfa_offset,
          max_cfa_offset, has_fp, setframe, ctx, frame_proc, phase>>

machine  == <<depth, fp_depth>>
read     == <<current_cfa_offset, max_cfa_offset, has_fp, setframe>>
inputs   == <<arch, frame_base, tables, described>>

(* Words on the stack at the call: x86 pushes the return address.          *)
Initial(a) == IF a \in {"x86_64", "x86"} THEN 1 ELSE 0

NoFde  == [frameSize |-> 0, hasFp |-> FALSE, setframe |-> FALSE]
NoProc == [size |-> 0, base |-> "none"]

Init ==
  /\ arch \in Archs
  /\ frame_base \in {"cfa", "register"}
  /\ tables \in SUBSET {"eh", "debug"} /\ described \in SUBSET tables
  /\ depth = Initial(arch) /\ fp_depth = 0
  /\ current_cfa_offset = Initial(arch) /\ max_cfa_offset = Initial(arch)
  /\ has_fp = FALSE /\ setframe = FALSE
  /\ ctx = NoFde /\ frame_proc = NoProc
  /\ phase = "prologue"

-----------------------------------------------------------------------------
(* What the backends do with the call-frame instructions of the frame's    *)
(* size and register; all four alike, but i386 has no directives.          *)
(* Faulty: the frame is as deep as the last CFA offset.                    *)
DeeperIsLast(n) == n

Deeper(n) == IF n > max_cfa_offset THEN n ELSE max_cfa_offset

(* Faulty: the operand is taken for a change of the offset.                *)
DefCfaOffsetAdjusting(n) ==
  /\ current_cfa_offset' = current_cfa_offset + n
  /\ max_cfa_offset' = Deeper(current_cfa_offset + n)
  /\ UNCHANGED <<has_fp, setframe>>

DefCfaOffset(n) ==
  /\ current_cfa_offset' = n /\ max_cfa_offset' = Deeper(n)
  /\ UNCHANGED <<has_fp, setframe>>

DefCfaRegister(r) ==
  /\ has_fp' = (has_fp \/ r = "fp")
  /\ setframe' = (setframe \/ (r = "fp" /\ arch # "x86"))
  /\ UNCHANGED <<current_cfa_offset, max_cfa_offset>>

DefCfa(r, n) ==
  /\ current_cfa_offset' = n /\ max_cfa_offset' = Deeper(n)
  /\ has_fp' = (has_fp \/ r = "fp")
  /\ setframe' = (setframe \/ (r = "fp" /\ arch # "x86"))

-----------------------------------------------------------------------------
(* A push or a subtraction; while the CFA is relative to the stack pointer *)
(* the compiler says how far it has moved.                                 *)
Lower(n) ==
  /\ phase = "prologue" /\ depth + n <= MaxDepth
  /\ depth' = depth + n
  /\ IF fp_depth = 0 THEN DefCfaOffset(depth + n) ELSE UNCHANGED read
  /\ UNCHANGED <<inputs, fp_depth, ctx, frame_proc, phase>>

(* The frame pointer is set to the stack pointer.                          *)
SetFramePointer ==
  /\ phase = "prologue" /\ fp_depth = 0 /\ depth > Initial(arch)
  /\ fp_depth' = depth
  /\ DefCfaRegister("fp") \/ DefCfa("fp", depth)
  /\ UNCHANGED <<inputs, depth, ctx, frame_proc, phase>>

EndPrologue ==
  /\ phase = "prologue" /\ phase' = "body"
  /\ UNCHANGED <<inputs, machine, read, ctx, frame_proc>>

(* A return in the middle: what the unwind table says of it comes last.    *)
(* The locals are those of the body.                                       *)
Epilogue ==
  /\ phase = "body" /\ phase' = "returned"
  /\ DefCfa("sp", Initial(arch))
  /\ UNCHANGED <<inputs, machine, ctx, frame_proc>>

(* PrepareUnwindInfo reads .debug_frame only if .eh_frame is empty.        *)
InTableRead == IF "eh" \in tables THEN "eh" \in described ELSE "debug" \in described

PrepareUnwindInfo ==
  /\ phase \in {"body", "returned"} /\ phase' = "prepared"
  /\ ctx' = IF InTableRead
              THEN [frameSize |-> max_cfa_offset - Initial(arch),
                    hasFp     |-> has_fp,
                    setframe  |-> setframe]
              ELSE NoFde
  /\ UNCHANGED <<inputs, machine, read, frame_proc>>

(* Flags 0x28000 name the frame pointer, 0x14000 the stack pointer.        *)
EmitFrameProc ==
  /\ phase = "prepared" /\ phase' = "emitted"
  /\ frame_proc' = [size |-> ctx.frameSize,
                    base |-> IF ctx.setframe THEN "fp" ELSE "sp"]
  /\ UNCHANGED <<inputs, machine, read, ctx>>

Next ==
  \/ \E n \in Sizes : Lower(n)
  \/ SetFramePointer
  \/ EndPrologue
  \/ Epilogue
  \/ PrepareUnwindInfo
  \/ EmitFrameProc

Spec == Init /\ [][Next]_vars

-----------------------------------------------------------------------------
(* Faulty: the return address is left out.                                 *)
AdjustmentWithoutReturn ==
  IF frame_base # "cfa" THEN 0 ELSE IF ctx.hasFp THEN 2 ELSE ctx.frameSize

(* try_parse_stack_offset_expr                                             *)
Adjustment ==
  IF frame_base # "cfa" THEN 0
  ELSE IF ctx.hasFp THEN 2
  ELSE ctx.frameSize + Initial(arch)

(* What a variable at fbreg offset v is given in its def-range record.     *)
StackOffset(v) == v + Adjustment

-----------------------------------------------------------------------------
(* The state has its type, and the CFA offset the backend is at never      *)
(* exceeds the deepest, nor that the stack.                                *)
TypeOK ==
  /\ arch \in Archs
  /\ frame_base \in {"cfa", "register"}
  /\ described \subseteq tables /\ tables \subseteq {"eh", "debug"}
  /\ depth \in Initial(arch) .. MaxDepth
  /\ fp_depth \in 0 .. depth
  /\ current_cfa_offset \in 0 .. max_cfa_offset
  /\ max_cfa_offset \in Initial(arch) .. depth
  /\ has_fp \in BOOLEAN /\ setframe \in BOOLEAN
  /\ ctx \in [frameSize: 0 .. MaxDepth, hasFp: BOOLEAN, setframe: BOOLEAN]
  /\ frame_proc \in [size: 0 .. MaxDepth, base: {"none", "fp", "sp"}]
  /\ phase \in {"prologue", "body", "returned", "prepared", "emitted"}

(* Where a debugger finds a variable (external): the register that         *)
(* S_FRAMEPROC names, in the body, plus the offset; as distance from the   *)
(* CFA.  DWARF says that distance is v, or v from the base register.       *)
Base == IF frame_proc.base = "fp" THEN 0 - fp_depth ELSE 0 - depth

Register == IF fp_depth # 0 THEN 0 - fp_depth ELSE 0 - depth

Place(v) == IF frame_base = "cfa" THEN v ELSE Register + v

(* Compilers for which the frame pointer is two words below the CFA, at    *)
(* the caller's frame pointer that was pushed first; the constants in the  *)
(* code know no other frames.                                              *)
StandardFrame == fp_depth \in {0, 2}

(* For every frame the variables' records, S_FRAMEPROC and the machine     *)
(* agree: base register plus offset is where the variable is, be the frame *)
(* left in the middle or not.  i386 with a frame pointer is apart, below.  *)
VariablesAtTheirSlots ==
  phase = "emitted" /\ InTableRead /\ StandardFrame /\ ~(arch = "x86" /\ ctx.hasFp)
    => \A v \in Offsets : Base + StackOffset(v) = Place(v)

(* S_FRAMEPROC's total is all that the function keeps on the stack below   *)
(* the return address, if it has no frame pointer: then only the deepest   *)
(* CFA tells, not the last.                                                *)
TotalFrameBytes ==
  phase = "emitted" /\ InTableRead /\ fp_depth = 0
    => frame_proc.size = depth - Initial(arch)
=============================================================================
