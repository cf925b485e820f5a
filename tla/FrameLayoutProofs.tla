-------------------------- MODULE FrameLayoutProofs --------------------------
(***************************************************************************)
(* Proofs about FrameLayout, for frames and instructions of any size.      *)
(*                                                                         *)
(* What the tables of the context say follows from two facts about the     *)
(* backend at every point of a function: it knows of a frame pointer just  *)
(* when the function has one, and until then the deepest CFA it has seen   *)
(* is the depth of the stack.                                              *)
(***************************************************************************)
EXTENDS FrameLayout, TLAPS

(* The frame pointer the backend has seen is the one there is, and it has  *)
(* a directive unless the target has none.                                 *)
FramePointerSeen ==
  /\ has_fp <=> fp_depth # 0
  /\ setframe <=> (has_fp /\ arch # "x86")

(* Without a frame pointer every change of the stack was described.        *)
DepthSeen == fp_depth = 0 => max_cfa_offset = depth

(* The context holds what was read; S_FRAMEPROC what the context holds.    *)
ContextOfRead ==
  phase \in {"prepared", "emitted"} /\ InTableRead =>
    /\ ctx.frameSize = max_cfa_offset - Initial(arch)
    /\ ctx.hasFp = has_fp
    /\ ctx.setframe = setframe

FrameProcOfContext ==
  phase = "emitted" =>
    /\ frame_proc.size = ctx.frameSize
    /\ frame_proc.base = IF ctx.setframe THEN "fp" ELSE "sp"

IInv ==
  /\ TypeOK
  /\ FramePointerSeen
  /\ DepthSeen
  /\ ContextOfRead
  /\ FrameProcOfContext

(* The inductive invariant holds when a function begins.                   *)
LEMMA InitIInv == Init => IInv
<1> SUFFICES ASSUME Init PROVE IInv
  OBVIOUS
<1>1. Initial(arch) \in 0 .. 1
  BY DEF Init, Initial
<1>2. TypeOK
  <2>1. /\ ctx \in [frameSize: 0 .. MaxDepth, hasFp: BOOLEAN, setframe: BOOLEAN]
        /\ frame_proc \in [size: 0 .. MaxDepth, base: {"none", "fp", "sp"}]
    BY DepthAssumption DEF Init, NoFde, NoProc
  <2>2. described \subseteq tables /\ tables \subseteq {"eh", "debug"}
    BY DEF Init
  <2>3. /\ depth \in Initial(arch) .. MaxDepth /\ fp_depth \in 0 .. depth
        /\ current_cfa_offset \in 0 .. max_cfa_offset
        /\ max_cfa_offset \in Initial(arch) .. depth
    <3>1. /\ depth = Initial(arch) /\ fp_depth = 0
          /\ current_cfa_offset = Initial(arch) /\ max_cfa_offset = Initial(arch)
      BY DEF Init
    <3> QED
      BY <1>1, <3>1, DepthAssumption, SMT
  <2>4. /\ arch \in Archs /\ frame_base \in {"cfa", "register"}
        /\ has_fp \in BOOLEAN /\ setframe \in BOOLEAN
        /\ phase \in {"prologue", "body", "returned", "prepared", "emitted"}
    BY DEF Init
  <2> QED
    BY <2>1, <2>2, <2>3, <2>4 DEF TypeOK
<1>3. FramePointerSeen /\ DepthSeen
  BY <1>1 DEF Init, FramePointerSeen, DepthSeen
<1>4. ContextOfRead /\ FrameProcOfContext
  BY DEF Init, ContextOfRead, FrameProcOfContext
<1> QED
  BY <1>2, <1>3, <1>4 DEF IInv

(* Every instruction, and everything the program does, keeps it.           *)
LEMMA NextIInv == IInv /\ [Next]_vars => IInv'
<1> SUFFICES ASSUME IInv, [Next]_vars PROVE IInv'
  OBVIOUS
<1> USE DEF inputs, machine, read
<1>0. Initial(arch) \in 0 .. 1
  BY DEF Initial
<1>1. ASSUME NEW n \in Sizes, Lower(n) PROVE IInv'
  <2>1. n \in Nat \ {0} /\ arch' = arch /\ Initial(arch)' = Initial(arch)
    BY <1>1, SizesAssumption DEF Lower, Initial
  <2>2. CASE fp_depth = 0
    <3>1. max_cfa_offset' = depth + n /\ current_cfa_offset' = depth + n
      BY <1>1, <2>1, <2>2, <1>0, DepthAssumption DEF Lower, DefCfaOffset, Deeper, IInv, TypeOK, DepthSeen
    <3>2. TypeOK'
      BY <1>1, <2>1, <2>2, <3>1, <1>0, DepthAssumption DEF Lower, DefCfaOffset, IInv, TypeOK
    <3>3. FramePointerSeen' /\ DepthSeen'
      BY <1>1, <2>1, <2>2, <3>1 DEF Lower, DefCfaOffset, IInv, FramePointerSeen, DepthSeen
    <3>4. ContextOfRead' /\ FrameProcOfContext'
      BY <1>1 DEF Lower, ContextOfRead, FrameProcOfContext
    <3> QED
      BY <3>2, <3>3, <3>4 DEF IInv
  <2>3. CASE fp_depth # 0
    <3>1. TypeOK'
      BY <1>1, <2>1, <2>3, <1>0, DepthAssumption DEF Lower, IInv, TypeOK
    <3>2. FramePointerSeen' /\ DepthSeen'
      BY <1>1, <2>1, <2>3 DEF Lower, IInv, FramePointerSeen, DepthSeen
    <3>3. ContextOfRead' /\ FrameProcOfContext'
      BY <1>1 DEF Lower, ContextOfRead, FrameProcOfContext
    <3> QED
      BY <3>1, <3>2, <3>3 DEF IInv
  <2> QED
    BY <2>2, <2>3
<1>2. CASE SetFramePointer
  <2>1. /\ arch' = arch /\ Initial(arch)' = Initial(arch)
        /\ fp_depth' = depth /\ depth \in 1 .. MaxDepth
    BY <1>2, <1>0, DepthAssumption DEF SetFramePointer, Initial, IInv, TypeOK
  <2>2. max_cfa_offset = depth
    BY <1>2 DEF SetFramePointer, IInv, DepthSeen
  <2>3. /\ max_cfa_offset' = depth
        /\ current_cfa_offset' \in {current_cfa_offset, depth}
        /\ has_fp' = TRUE /\ setframe' = (setframe \/ arch # "x86")
    BY <1>2, <2>1, <2>2 DEF SetFramePointer, DefCfaRegister, DefCfa, Deeper, IInv, TypeOK
  <2>4. TypeOK'
    BY <1>2, <2>1, <2>2, <2>3, <1>0, DepthAssumption DEF SetFramePointer, IInv, TypeOK
  <2>5. FramePointerSeen' /\ DepthSeen'
    <3>1. fp_depth = 0 /\ fp_depth' # 0
      BY <1>2, <2>1 DEF SetFramePointer
    <3>2. ~ setframe
      BY <3>1 DEF IInv, FramePointerSeen
    <3> QED
      BY <2>1, <2>3, <3>1, <3>2 DEF FramePointerSeen, DepthSeen
  <2>6. ContextOfRead' /\ FrameProcOfContext'
    BY <1>2 DEF SetFramePointer, ContextOfRead, FrameProcOfContext
  <2> QED
    BY <2>4, <2>5, <2>6 DEF IInv
<1>3. CASE EndPrologue
  BY <1>3, <1>0 DEF EndPrologue, IInv, TypeOK, FramePointerSeen, DepthSeen, ContextOfRead,
                    FrameProcOfContext, Initial
<1>4. CASE Epilogue
  <2>1. /\ arch' = arch /\ Initial(arch)' = Initial(arch)
        /\ max_cfa_offset' = max_cfa_offset /\ current_cfa_offset' = Initial(arch)
        /\ has_fp' = has_fp /\ setframe' = setframe
    BY <1>4, <1>0, DepthAssumption DEF Epilogue, DefCfa, Deeper, Initial, IInv, TypeOK
  <2>2. TypeOK'
    BY <1>4, <2>1, <1>0, DepthAssumption DEF Epilogue, IInv, TypeOK
  <2>3. FramePointerSeen' /\ DepthSeen'
    BY <1>4, <2>1 DEF Epilogue, IInv, FramePointerSeen, DepthSeen
  <2>4. ContextOfRead' /\ FrameProcOfContext'
    BY <1>4 DEF Epilogue, ContextOfRead, FrameProcOfContext
  <2> QED
    BY <2>2, <2>3, <2>4 DEF IInv
<1>5. CASE PrepareUnwindInfo
  <2>1. /\ arch' = arch /\ Initial(arch)' = Initial(arch) /\ InTableRead' = InTableRead
        /\ UNCHANGED <<depth, fp_depth, max_cfa_offset, has_fp, setframe, frame_proc>>
    BY <1>5 DEF PrepareUnwindInfo, Initial, InTableRead
  <2>2. TypeOK'
    <3>1. ctx' \in [frameSize: 0 .. MaxDepth, hasFp: BOOLEAN, setframe: BOOLEAN]
      BY <1>5, <1>0, DepthAssumption DEF PrepareUnwindInfo, NoFde, IInv, TypeOK
    <3> QED
      BY <1>5, <2>1, <3>1 DEF PrepareUnwindInfo, IInv, TypeOK
  <2>3. FramePointerSeen' /\ DepthSeen'
    BY <2>1 DEF IInv, FramePointerSeen, DepthSeen
  <2>4. ContextOfRead' /\ FrameProcOfContext'
    BY <1>5, <2>1 DEF PrepareUnwindInfo, ContextOfRead, FrameProcOfContext
  <2> QED
    BY <2>2, <2>3, <2>4 DEF IInv
<1>6. CASE EmitFrameProc
  <2>1. /\ arch' = arch /\ Initial(arch)' = Initial(arch) /\ InTableRead' = InTableRead
        /\ UNCHANGED <<depth, fp_depth, max_cfa_offset, has_fp, setframe, ctx>>
    BY <1>6 DEF EmitFrameProc, Initial, InTableRead
  <2>2. TypeOK'
    BY <1>6, <2>1 DEF EmitFrameProc, IInv, TypeOK
  <2>3. FramePointerSeen' /\ DepthSeen' /\ ContextOfRead'
    BY <1>6, <2>1 DEF EmitFrameProc, IInv, FramePointerSeen, DepthSeen, ContextOfRead
  <2>4. FrameProcOfContext'
    BY <1>6, <2>1 DEF EmitFrameProc, FrameProcOfContext
  <2> QED
    BY <2>2, <2>3, <2>4 DEF IInv
<1>7. CASE UNCHANGED vars
  BY <1>7 DEF vars, IInv, TypeOK, FramePointerSeen, DepthSeen, ContextOfRead,
              FrameProcOfContext, InTableRead, Initial
<1> QED
  BY <1>1, <1>2, <1>3, <1>4, <1>5, <1>6, <1>7 DEF Next

(* It holds throughout, for every set of targets, of sizes and any bound.  *)
THEOREM Inductive == Spec => []IInv
BY InitIInv, NextIInv, PTL DEF Spec

(* The state of the frame and of its description has its type.             *)
THEOREM TypeCorrect == Spec => []TypeOK
BY Inductive, PTL DEF IInv

(* The total size of a frame without a frame pointer is the depth of its   *)
(* stack, whatever the sizes of its parts.                                 *)
THEOREM Total == Spec => []TotalFrameBytes
<1>1. IInv => TotalFrameBytes
  BY DEF IInv, TotalFrameBytes, DepthSeen, ContextOfRead, FrameProcOfContext
<1> QED
  BY <1>1, Inductive, PTL

(* The four pieces of code agree on where variables are, for variables at  *)
(* any offset and frames of any depth.                                     *)
THEOREM Slots == Spec => []VariablesAtTheirSlots
<1>1. ASSUME IInv, phase = "emitted", InTableRead, StandardFrame,
             ~ (arch = "x86" /\ ctx.hasFp), NEW v \in Offsets
      PROVE  Base + StackOffset(v) = Place(v)
  <2>1. /\ v \in Int /\ depth \in Int /\ fp_depth \in Int /\ Initial(arch) \in Int
        /\ ctx.frameSize = max_cfa_offset - Initial(arch) /\ max_cfa_offset \in Int
    BY <1>1, OffsetsAssumption, DepthAssumption DEF IInv, TypeOK, ContextOfRead, Initial
  <2>2. /\ ctx.hasFp <=> fp_depth # 0
        /\ ctx.hasFp => frame_proc.base = "fp"
        /\ ~ ctx.hasFp => frame_proc.base = "sp"
    BY <1>1 DEF IInv, TypeOK, FramePointerSeen, ContextOfRead, FrameProcOfContext
  <2>3. CASE ctx.hasFp
    <3>1. fp_depth = 2 /\ frame_proc.base = "fp"
      BY <1>1, <2>2, <2>3 DEF StandardFrame
    <3> QED
      BY <2>1, <2>3, <3>1 DEF Base, StackOffset, Adjustment, Place, Register
  <2>4. CASE ~ ctx.hasFp
    <3>1. fp_depth = 0 /\ frame_proc.base = "sp" /\ max_cfa_offset = depth
      BY <1>1, <2>2, <2>4 DEF IInv, DepthSeen
    <3> QED
      BY <2>1, <2>4, <3>1 DEF Base, StackOffset, Adjustment, Place, Register
  <2> QED
    BY <2>3, <2>4
<1>2. IInv => VariablesAtTheirSlots
  BY <1>1 DEF VariablesAtTheirSlots
<1> QED
  BY <1>2, Inductive, PTL
=============================================================================
