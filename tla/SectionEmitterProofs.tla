------------------------ MODULE SectionEmitterProofs ------------------------
(***************************************************************************)
(* Proofs about SectionEmitter, for every set of well-formed images and    *)
(* every pointer width.  IInv is what keeps the assembler from complaining;*)
(* FullInv, which is preserved where IInv holds, says what the walk has    *)
(* done so far: the bytes placed, the functions begun, the prologues and   *)
(* lines replayed.  The refinement of ObjectSection comes last.            *)
(***************************************************************************)
EXTENDS SectionEmitter, TLAPS

(* The cursor: while a segment is walked, the location counter is at the   *)
(* virtual address the walk has reached; between segments, it is not past  *)
(* any segment still to come.                                              *)
Walking == pc \in {"scan", "annotate", "emit", "leave"}

Cursor ==
  /\ image \in Images
  /\ Walking => lc = Here /\ pos <= Seg.filesz
  /\ pc \in {"annotate", "emit"} => pos < Seg.filesz
  /\ pc = "segment" => \A j \in seg .. Len(image.segs) : lc <= image.segs[j].vaddr
  /\ ~ Walking => ~ in_func
  /\ pc = "scan" /\ in_func => pos < Seg.filesz

(* The labels: starts are where the functions are, ends are behind their   *)
(* starts, nothing is labelled beyond the location counter, and the only   *)
(* function without an end label is the open one, which starts last.       *)
LabelsInv ==
  /\ \A l \in labels : Started(l[2])
  /\ \A l \in labels : l[1] = "start" => l[3] = l[2]
  /\ \A l \in labels : l[1] = "end" => l[2] < l[3]
  /\ \A l \in labels : l[3] <= lc /\ l[2] <= lc
  /\ \A l \in labels : l[2] = lc => pc \in {"annotate", "emit"} /\ in_func /\ l[2] = func_start
  /\ \A l, m \in labels : l[1] = "end" /\ m[1] = "start" => m[3] <= l[2] \/ l[3] <= m[3]
  /\ \A l \in labels : Ended(l[2]) \/ (in_func /\ l[2] = func_start)
  /\ in_func => /\ Started(func_start) /\ ~ Ended(func_start)
                /\ \A l \in labels : l[2] <= func_start

(* The SEH scopes: exactly the open function has its .seh_proc open, and   *)
(* a function whose prologue was ended has no directive left to replay.    *)
ScopesInv ==
  /\ procs = IF in_func /\ HasUnwind THEN {func_start} ELSE {}
  /\ \A f \in prologued : Started(f)
  /\ in_func /\ func_start \in prologued =>
       IF pc = "emit" THEN func_start + Unwind.end <= Here
                      ELSE func_start + Unwind.end < Here
  /\ errors = {}

(* The items: at their own address, below the location counter, disjoint.  *)
ItemsInv ==
  /\ \A p \in placed : p[1] = p[2] /\ p[1] + p[3] <= lc
  /\ \A p, q \in placed : p # q => p[1] + p[3] <= q[1] \/ q[1] + q[3] <= p[1]

IInv == TypeOK /\ Cursor /\ LabelsInv /\ ScopesInv /\ ItemsInv

-----------------------------------------------------------------------------
(* The fields of an image, one fact each.                                  *)
LEMMA ImageFacts ==
  ASSUME ImageType(image)
  PROVE  /\ image.segs \in Seq(Segment)
         /\ Len(image.segs) \in Nat
         /\ \A i \in 1 .. Len(image.segs) : image.segs[i] \in Segment
         /\ DOMAIN image.funcs \subseteq Nat
         /\ DOMAIN image.unwind \subseteq Nat
         /\ \A f \in DOMAIN image.unwind :
              image.unwind[f].dirs \subseteq Nat /\ image.unwind[f].end \in Nat
         /\ \A a \in DOMAIN image.lines :
              image.lines[a] \in LineInfo /\ image.lines[a].pos \in Nat
  BY LineInfoAssumption DEF ImageType

(* Closing a function keeps the types of what the assembler has seen.      *)
LEMMA EndFunctionTypes ==
  ASSUME TypeOK, in_func, EndFunction
  PROVE  /\ labels' \subseteq {"start", "end"} \X (DOMAIN image.funcs) \X Nat
         /\ procs' \subseteq DOMAIN image.unwind
         /\ errors' \subseteq {"org", "label", "endproc", "nested", "prologue"}
  <1>1. errors' \subseteq errors \cup {"label", "endproc"}
    BY DEF EndFunction
  <1>2. Label("end") \in {"start", "end"} \X (DOMAIN image.funcs) \X Nat
    BY DEF TypeOK, Label
  <1>3. QED
    BY <1>1, <1>2 DEF EndFunction, TypeOK

(* In the body of the loop the segment is one of the image.                *)
LEMMA SegFacts ==
  ASSUME TypeOK, pc \in {"scan", "annotate", "emit", "leave"}
  PROVE  /\ Seg \in Segment
         /\ Seg.vaddr \in Nat /\ Seg.filesz \in Nat /\ Seg.memsz \in Nat
         /\ Here \in Nat
         /\ seg \in 1 .. Len(image.segs)
  <1>1. seg \in 1 .. Len(image.segs)
    BY ImageFacts DEF TypeOK
  <1>2. Seg \in Segment
    BY <1>1, ImageFacts DEF TypeOK, Seg
  <1>3. QED
    BY <1>1, <1>2 DEF TypeOK, Segment, Here

(* Before the first segment nothing is written.                            *)
LEMMA InitTypes == Init => TypeOK
  <1> SUFFICES ASSUME Init PROVE TypeOK
    OBVIOUS
  <1>1. ImageType(image)
    BY ImagesAssumption DEF Init
  <1>2. Len(image.segs) \in Nat
    BY <1>1, ImageFacts
  <1>3. last_line \in [DOMAIN image.funcs -> Nat]
    BY DEF Init, NoPosition
  <1>4. seg \in 1 .. Len(image.segs) + 1
    BY <1>2 DEF Init
  <1>5. QED
    BY <1>1, <1>3, <1>4 DEF Init, TypeOK

(* Every reachable state has the declared types (uint64_t addresses and    *)
(* offsets, the maps of the debug context keyed by function starts).       *)
THEOREM TypeCorrect == Spec => []TypeOK
  <1>1. Init => TypeOK
    BY InitTypes
  <1>2. TypeOK /\ [Next]_vars => TypeOK'
    <2> SUFFICES ASSUME TypeOK, [Next]_vars PROVE TypeOK'
      OBVIOUS
    <2> USE PtrSizeAssumption
    <2>1. CASE BeginSegment
      <3>1. seg \in 1 .. Len(image.segs)
        BY <2>1, ImageFacts DEF BeginSegment, TypeOK
      <3>2. Seg.vaddr \in Nat
        BY <3>1, ImageFacts DEF TypeOK, Seg, Segment
      <3>3. lc' \in Nat /\ errors' \subseteq errors \cup {"org"}
        BY <2>1, <3>2 DEF BeginSegment, Org, TypeOK
      <3>4. QED
        BY <2>1, <3>1, <3>3 DEF BeginSegment, TypeOK, OutsideStart
    <2>2. CASE CloseOpenFunction
      BY <2>2, EndFunctionTypes DEF CloseOpenFunction, TypeOK
    <2>3. CASE BeginFunction
      <3>1. Here \in Nat
        BY <2>3, SegFacts DEF BeginFunction
      <3>2. QED
        BY <2>3, <3>1 DEF BeginFunction, OpensProc, FunctionAt, TypeOK
    <2>4. CASE NoFunctionHere
      BY <2>4 DEF NoFunctionHere, TypeOK, assembler
    <2>5. CASE Annotate
      <3>1. replayed' \subseteq (DOMAIN image.unwind) \X Nat
        BY <2>5, ImageFacts DEF Annotate, EmitSehPrologue, TypeOK, HasUnwind, Unwind
      <3>2. prologued' \subseteq DOMAIN image.unwind
        BY <2>5 DEF Annotate, EmitSehPrologue, TypeOK, HasUnwind
      <3>3. errors' \subseteq errors \cup {"prologue"}
        BY <2>5 DEF Annotate, EmitSehPrologue
      <3>4. locs' \subseteq (DOMAIN image.funcs) \X Nat \X LineInfo
        BY <2>5, ImageFacts DEF Annotate, EmitLineLoc, TypeOK
      <3>5. last_line' \in [DOMAIN image.funcs -> Nat]
        BY <2>5, ImageFacts DEF Annotate, EmitLineLoc, Remember, TypeOK
      <3>6. QED
        BY <2>5, <3>1, <3>2, <3>3, <3>4, <3>5 DEF Annotate, TypeOK
    <2>6. CASE EmitReloc
      <3>1. Here \in Nat
        BY <2>6, SegFacts DEF EmitReloc
      <3>2. QED
        BY <2>6, <3>1 DEF EmitReloc, Step, TypeOK
    <2>7. CASE EmitByte
      <3>1. Here \in Nat
        BY <2>7, SegFacts DEF EmitByte
      <3>2. QED
        BY <2>7, <3>1 DEF EmitByte, Step, TypeOK
    <2>8. CASE LeaveFunction
      BY <2>8, EndFunctionTypes DEF LeaveFunction, TypeOK, OutsideStart
    <2>9. CASE StayInFunction
      BY <2>9 DEF StayInFunction, TypeOK, assembler
    <2>10. CASE EndSegment
      <3>1. /\ Seg.vaddr \in Nat /\ Seg.memsz \in Nat
            /\ seg \in 1 .. Len(image.segs)
        BY <2>10, SegFacts DEF EndSegment
      <3>2. lc' \in Nat /\ errors' \subseteq errors \cup {"org"}
        <4>1. CASE Seg.memsz > Seg.filesz
          BY <2>10, <3>1, <4>1 DEF EndSegment, Org, TypeOK
        <4>2. CASE ~ (Seg.memsz > Seg.filesz)
          BY <2>10, <4>2 DEF EndSegment, TypeOK
        <4>3. QED
          BY <4>1, <4>2
      <3>3. seg' \in 1 .. Len(image.segs) + 1
        BY <2>10, <3>1, ImageFacts DEF EndSegment, TypeOK
      <3>4. QED
        BY <2>10, <3>1, <3>2, <3>3 DEF EndSegment, TypeOK
    <2>11. CASE Finish
      BY <2>11 DEF Finish, TypeOK, assembler
    <2>12. CASE UNCHANGED vars
      BY <2>12 DEF vars, translator, assembler, TypeOK
    <2>13. QED
      BY <2>1, <2>2, <2>3, <2>4, <2>5, <2>6, <2>7, <2>8, <2>9, <2>10, <2>11, <2>12
         DEF Next
  <1>3. QED
    BY <1>1, <1>2, PTL DEF Spec

-----------------------------------------------------------------------------
(* What a well-formed image gives the walk.                                *)
LEMMA SegmentOrder ==
  ASSUME TypeOK, image \in Images, seg \in 1 .. Len(image.segs)
  PROVE  /\ Seg.vaddr \in Nat /\ Seg.filesz \in Nat /\ Seg.memsz \in Nat
         /\ Seg.filesz <= Seg.memsz
         /\ \A j \in seg + 1 .. Len(image.segs) :
              Seg.vaddr + Seg.memsz <= image.segs[j].vaddr
  <1>1. WellFormed(image) /\ DOMAIN image.segs = 1 .. Len(image.segs)
    BY ImagesAssumption, ImageFacts DEF TypeOK
  <1>2. Len(image.segs) \in Nat /\ Seg \in Segment
    BY ImageFacts DEF TypeOK, Seg
  <1>3. Seg.filesz <= Seg.memsz
    BY <1>1 DEF WellFormed, Seg
  <1>4. ASSUME NEW j \in seg + 1 .. Len(image.segs)
        PROVE  Seg.vaddr + Seg.memsz <= image.segs[j].vaddr
    <2>1. j \in DOMAIN image.segs /\ seg \in DOMAIN image.segs /\ seg < j
      BY <1>1, <1>2
    <2>2. QED
      BY <1>1, <2>1 DEF WellFormed, Seg
  <1>5. QED
    BY <1>2, <1>3, <1>4 DEF Segment

(* A relocated word lies inside the file part of its segment.              *)
LEMMA RelocFits ==
  ASSUME TypeOK, Cursor, pc = "emit", RelocHere
  PROVE  pos + PtrSize <= Seg.filesz
  <1>1. WellFormed(image) /\ seg \in DOMAIN image.segs
    <2>1. ImageType(image) /\ WellFormed(image)
      BY ImagesAssumption DEF Cursor
    <2>2. DOMAIN image.segs = 1 .. Len(image.segs)
      BY <2>1, ImageFacts
    <2>3. QED
      BY <2>1, <2>2, SegFacts
  <1>2. Seg.vaddr \in Nat /\ Seg.filesz \in Nat /\ pos \in Nat /\ pos < Seg.filesz
    BY SegFacts DEF TypeOK, Cursor
  <1>3. Here \in Seg.vaddr .. Seg.vaddr + Seg.filesz - 1
    BY <1>2 DEF Here
  <1>4. Here + PtrSize <= Seg.vaddr + Seg.filesz
    BY <1>1, <1>3 DEF WellFormed, RelocHere, Seg
  <1>5. QED
    BY <1>2, <1>4, PtrSizeAssumption DEF Here

(* The directives that move the location counter, under the cursor         *)
(* invariant, move it where they say and provoke no diagnostic.            *)
LEMMA BeginSegmentMoves ==
  ASSUME TypeOK, Cursor, BeginSegment
  PROVE  /\ lc' = Seg.vaddr /\ lc <= lc' /\ errors' = errors
         /\ seg \in 1 .. Len(image.segs) /\ Seg.vaddr \in Nat /\ Seg.filesz \in Nat
  <1>1. seg \in 1 .. Len(image.segs)
    BY ImageFacts DEF BeginSegment, TypeOK
  <1>2. Seg.vaddr \in Nat /\ Seg.filesz \in Nat
    BY <1>1, SegmentOrder DEF Cursor
  <1>3. lc <= Seg.vaddr
    BY <1>1, ImageFacts DEF Cursor, BeginSegment, Seg, TypeOK
  <1>4. QED
    BY <1>1, <1>2, <1>3 DEF BeginSegment, Org, TypeOK

(* Ending a segment moves the location counter up to the segment's end.    *)
LEMMA EndSegmentMoves ==
  ASSUME TypeOK, Cursor, EndSegment
  PROVE  /\ lc' = Seg.vaddr + Seg.memsz /\ lc <= lc' /\ errors' = errors
         /\ seg \in 1 .. Len(image.segs)
  <1>1. /\ seg \in 1 .. Len(image.segs)
        /\ Seg.vaddr \in Nat /\ Seg.filesz \in Nat /\ Seg.memsz \in Nat
        /\ Seg.filesz <= Seg.memsz /\ pos \in Nat /\ lc \in Nat
    BY SegFacts, SegmentOrder DEF EndSegment, Cursor, TypeOK
  <1>2. lc = Seg.vaddr + Seg.filesz
    BY <1>1, SegFacts DEF EndSegment, Cursor, Walking, Here
  <1>3. CASE Seg.memsz > Seg.filesz
    <2>1. Org(Seg.vaddr + Seg.memsz, "org")
      BY <1>3 DEF EndSegment
    <2>2. ~ (Seg.vaddr + Seg.memsz < lc)
      BY <1>1, <1>2, <1>3
    <2>3. QED
      BY <1>1, <1>2, <2>1, <2>2 DEF Org
  <1>4. CASE ~ (Seg.memsz > Seg.filesz)
    BY <1>1, <1>2, <1>4 DEF EndSegment
  <1>5. QED
    BY <1>3, <1>4

(* No function is open behind a segment.                                   *)
LEMMA EndSegmentCloses ==
  ASSUME TypeOK, Cursor, EndSegment
  PROVE  ~ in_func
  <1>1. pc = "scan" /\ pos >= Seg.filesz
    BY DEF EndSegment
  <1>2. Seg.filesz \in Nat /\ pos \in Nat
    BY <1>1, SegFacts DEF TypeOK
  <1>3. QED
    BY <1>1, <1>2 DEF Cursor

(* A word or a byte is placed at the address the walk has reached.         *)
LEMMA EmitMoves ==
  ASSUME TypeOK, Cursor, EmitReloc \/ EmitByte
  PROVE  /\ Step \in {1, PtrSize} /\ lc' = lc + Step /\ pos' = pos + Step
         /\ pos + Step <= Seg.filesz /\ errors' = errors
         /\ placed' = placed \cup {<<lc, lc, Step>>} /\ lc = Here /\ Here \in Nat
  <1>1. /\ lc = Here /\ Here \in Nat /\ pos < Seg.filesz
        /\ pos \in Nat /\ Seg.filesz \in Nat
    BY SegFacts DEF EmitReloc, EmitByte, Cursor, Walking, TypeOK
  <1>2. CASE EmitReloc
    <2>1. /\ Step = PtrSize /\ pos' = pos + Step /\ ~ (Here < lc)
          /\ pos + PtrSize <= Seg.filesz
      BY <1>1, <1>2, RelocFits DEF EmitReloc, Step
    <2>2. QED
      BY <1>1, <1>2, <2>1 DEF EmitReloc
  <1>3. CASE EmitByte
    BY <1>1, <1>3 DEF EmitByte, Step
  <1>4. QED
    BY <1>2, <1>3

(* Every step keeps the location counter where the walk is.                *)
LEMMA CursorStep ==
  ASSUME TypeOK, TypeOK', Cursor, [Next]_vars
  PROVE  Cursor'
  <1> USE DEF Walking
  <1>1. CASE BeginSegment
    <2>1. Seg' = Seg /\ image' = image /\ pos' = 0 /\ ~ in_func'
          /\ pc' \in {"scan", "aborted"}
      BY <1>1 DEF BeginSegment, Seg
    <2>2. Here' = Seg.vaddr
      BY <2>1, <1>1, BeginSegmentMoves DEF Here
    <2>3. QED
      BY <2>1, <2>2, <1>1, BeginSegmentMoves DEF Cursor
  <1>2. CASE CloseOpenFunction
    BY <1>2 DEF CloseOpenFunction, Cursor, Seg, Here
  <1>3. CASE BeginFunction
    BY <1>3 DEF BeginFunction, Cursor, Seg, Here
  <1>4. CASE NoFunctionHere
    BY <1>4 DEF NoFunctionHere, Cursor, Seg, Here, assembler
  <1>5. CASE Annotate
    BY <1>5 DEF Annotate, Cursor, Seg, Here
  <1>6. CASE EmitReloc \/ EmitByte
    <2>1. Seg' = Seg /\ image' = image /\ pc' = "leave"
      BY <1>6 DEF EmitReloc, EmitByte, Seg
    <2>2. Here' = Here + Step
      <3>1. Here' = Seg.vaddr + (pos + Step)
        BY <2>1, <1>6, EmitMoves DEF Here
      <3>2. Seg.vaddr \in Nat /\ pos \in Nat /\ Step \in Nat
        <4>1. pc = "emit" /\ pos \in Nat
          BY <1>6 DEF EmitReloc, EmitByte, TypeOK
        <4>2. QED
          BY <1>6, <4>1, EmitMoves, SegFacts, PtrSizeAssumption
      <3>3. QED
        BY <3>1, <3>2 DEF Here
    <2>3. QED
      BY <1>6, <2>1, <2>2, EmitMoves DEF Cursor
  <1>7. CASE LeaveFunction
    BY <1>7 DEF LeaveFunction, Cursor, Seg, Here
  <1>8. CASE StayInFunction
    <2>1. in_func => pos < Seg.filesz
      <3>1. pc = "leave" /\ (in_func => ~ (pos >= Seg.filesz))
        BY <1>8 DEF StayInFunction, ExitedFunction
      <3>2. Seg.filesz \in Nat /\ pos \in Nat
        BY <3>1, SegFacts DEF TypeOK
      <3>3. QED
        BY <3>1, <3>2
    <2>2. QED
      BY <1>8, <2>1 DEF StayInFunction, Cursor, Seg, Here, assembler
  <1>9. CASE EndSegment
    <2>1. image' = image /\ seg' = seg + 1 /\ pc' = "segment" /\ image \in Images
      BY <1>9 DEF EndSegment, Cursor
    <2>2. \A j \in seg + 1 .. Len(image.segs) : lc' <= image.segs[j].vaddr
      BY <1>9, <2>1, EndSegmentMoves, SegmentOrder
    <2>3. ~ in_func'
      BY <1>9, EndSegmentCloses DEF EndSegment
    <2>4. QED
      BY <2>1, <2>2, <2>3 DEF Cursor
  <1>10. CASE Finish
    BY <1>10 DEF Finish, Cursor, assembler
  <1>11. CASE UNCHANGED vars
    BY <1>11 DEF vars, translator, assembler, Cursor, Seg, Here
  <1>12. QED
    BY <1>1, <1>2, <1>3, <1>4, <1>5, <1>6, <1>7, <1>8, <1>9, <1>10, <1>11 DEF Next

-----------------------------------------------------------------------------
(* A label is the start or the end of a function, at an address.           *)
LEMMA LabelTypes ==
  ASSUME TypeOK, NEW l \in labels
  PROVE  l[1] \in {"start", "end"} /\ l[2] \in Nat /\ l[3] \in Nat
  BY ImageFacts DEF TypeOK

(* A step that defines no label and only moves the location counter        *)
(* forward keeps the label invariant.                                      *)
LEMMA LabelsKept ==
  ASSUME TypeOK, LabelsInv, labels' = labels,
         in_func' = in_func, in_func => func_start' = func_start,
         lc' \in Nat,
         \/ lc < lc'
         \/ lc' = lc /\ (pc \in {"annotate", "emit"} => pc' \in {"annotate", "emit"})
         \/ lc' = lc /\ \A l \in labels : l[2] # lc
  PROVE  LabelsInv'
  <1>0. /\ lc \in Nat /\ lc <= lc'
        /\ \A l \in labels : l[2] \in Nat /\ l[3] \in Nat /\ l[3] <= lc /\ l[2] <= lc
    BY LabelTypes DEF LabelsInv, TypeOK
  <1>1. \A l \in labels : l[3] <= lc' /\ l[2] <= lc'
    BY <1>0
  <1>2. \A l \in labels : l[2] = lc' =>
          pc' \in {"annotate", "emit"} /\ in_func /\ l[2] = func_start
    BY <1>0 DEF LabelsInv
  <1>3. QED
    BY <1>1, <1>2 DEF LabelsInv, Started, Ended

(* The end label of the open function.                                     *)
LEMMA LabelsEnd ==
  ASSUME TypeOK, LabelsInv, EndFunction, in_func, pc \notin {"annotate", "emit"},
         lc' = lc, ~ in_func'
  PROVE  /\ LabelsInv'
         /\ func_start < lc
         /\ ~ Redefined("end", func_start)
  <1>1. PICK s \in labels : s[1] = "start" /\ s[2] = func_start
    BY DEF LabelsInv, Started
  <1>2. func_start < lc
    BY <1>1, LabelTypes DEF LabelsInv, TypeOK
  <1> DEFINE e == <<"end", func_start, lc>>
  <1>3. labels' = labels \cup {e}
    BY DEF EndFunction, Label
  <1>4. e[1] = "end" /\ e[2] = func_start /\ e[3] = lc
    OBVIOUS
  <1> HIDE DEF e
  <1>5. \A f : Started(f) => Started(f)'
    BY <1>3 DEF Started
  <1>6. \A l \in labels' : Started(l[2])'
    BY <1>3, <1>4, <1>5 DEF LabelsInv
  <1>7. /\ \A l \in labels' : l[1] = "start" => l[3] = l[2]
        /\ \A l \in labels' : l[1] = "end" => l[2] < l[3]
        /\ \A l \in labels' : l[3] <= lc /\ l[2] <= lc
    <2>1. lc \in Nat /\ func_start \in Nat
      BY DEF TypeOK
    <2>2. \A l \in labels :
            /\ l[1] = "start" => l[3] = l[2]
            /\ l[1] = "end" => l[2] < l[3]
            /\ l[3] <= lc /\ l[2] <= lc
      BY DEF LabelsInv
    <2>3. /\ e[1] # "start" /\ e[2] < e[3]
          /\ e[3] <= lc /\ e[2] <= lc
      BY <1>2, <1>4, <2>1
    <2>4. QED
      BY <1>3, <2>2, <2>3
  <1>8. \A l \in labels' : l[2] # lc
    BY <1>2, <1>3, <1>4, LabelTypes DEF LabelsInv, TypeOK
  <1>9. ASSUME NEW l \in labels', NEW m \in labels', l[1] = "end", m[1] = "start"
        PROVE  m[3] <= l[2] \/ l[3] <= m[3]
    <2>1. m \in labels
      BY <1>3, <1>4, <1>9
    <2>2. CASE l \in labels
      BY <1>9, <2>1, <2>2 DEF LabelsInv
    <2>3. CASE l = e
      BY <1>4, <1>9, <2>1, <2>3 DEF LabelsInv
    <2>4. QED
      BY <1>3, <2>2, <2>3
  <1>10. \A l \in labels' : Ended(l[2])'
    BY <1>3, <1>4 DEF LabelsInv, Ended
  <1>11. ~ Redefined("end", func_start)
    BY DEF LabelsInv, Ended, Redefined
  <1>12. QED
    BY <1>2, <1>6, <1>7, <1>8, <1>9, <1>10, <1>11 DEF LabelsInv

(* The start label of the function at the cursor.                          *)
LEMMA LabelsBegin ==
  ASSUME TypeOK, Cursor, LabelsInv, BeginFunction
  PROVE  /\ LabelsInv'
         /\ ~ Redefined("start", Here)
         /\ Here = lc /\ ~ Started(Here)
  <1>1. Here = lc /\ Here \in Nat
    BY SegFacts DEF BeginFunction, Cursor, Walking
  <1> DEFINE s == <<"start", Here, lc>>
  <1>2. labels' = labels \cup {s}
    BY DEF BeginFunction
  <1>3. s[1] = "start" /\ s[2] = lc /\ s[3] = lc
    BY <1>1
  <1> HIDE DEF s
  <1>4. \A l \in labels : l[2] # lc /\ l[2] <= lc /\ l[3] <= lc
    BY DEF LabelsInv, BeginFunction
  <1>5. lc' = lc /\ pc' = "annotate" /\ in_func' /\ func_start' = lc
    BY <1>1 DEF BeginFunction
  <1>6. \A l \in labels' : Started(l[2])'
    BY <1>2, <1>3 DEF LabelsInv, Started
  <1>7. /\ \A l \in labels' : l[1] = "start" => l[3] = l[2]
        /\ \A l \in labels' : l[1] = "end" => l[2] < l[3]
        /\ \A l \in labels' : l[3] <= lc /\ l[2] <= lc
    BY <1>1, <1>2, <1>3, LabelTypes DEF LabelsInv
  <1>8. ASSUME NEW l \in labels', NEW m \in labels', l[1] = "end", m[1] = "start"
        PROVE  m[3] <= l[2] \/ l[3] <= m[3]
    BY <1>2, <1>3, <1>4, <1>8 DEF LabelsInv
  <1>9. \A l \in labels : Ended(l[2])
    BY DEF LabelsInv, BeginFunction
  <1>10. \A l \in labels' : Ended(l[2])' \/ l[2] = lc
    BY <1>2, <1>3, <1>9 DEF Ended
  <1>11. Started(lc)' /\ ~ Ended(lc)'
    BY <1>2, <1>3, <1>4, <1>5 DEF Started, Ended
  <1>12. ~ Redefined("start", Here) /\ ~ Started(Here)
    BY <1>1, <1>4 DEF Redefined, Started
  <1>13. QED
    BY <1>1, <1>5, <1>6, <1>7, <1>8, <1>10, <1>11, <1>12 DEF LabelsInv

(* Every step keeps labels unique and below the location counter.          *)
LEMMA LabelsStep ==
  ASSUME TypeOK, TypeOK', Cursor, LabelsInv, [Next]_vars
  PROVE  LabelsInv'
  <1> lc \in Nat /\ lc' \in Nat
    BY DEF TypeOK
  <1>1. CASE BeginSegment
    <2>1. ~ in_func /\ ~ in_func' /\ lc <= lc' /\ labels' = labels
      BY <1>1, BeginSegmentMoves DEF BeginSegment, Cursor, Walking
    <2>2. \A l \in labels : l[2] # lc
      BY <1>1 DEF BeginSegment, LabelsInv
    <2>3. QED
      BY <2>1, <2>2, LabelsKept DEF TypeOK
  <1>2. CASE CloseOpenFunction
    BY <1>2, LabelsEnd DEF CloseOpenFunction
  <1>3. CASE BeginFunction
    BY <1>3, LabelsBegin
  <1>4. CASE NoFunctionHere
    BY <1>4, LabelsKept DEF NoFunctionHere, assembler, TypeOK
  <1>5. CASE Annotate
    BY <1>5, LabelsKept DEF Annotate, TypeOK
  <1>6. CASE EmitReloc \/ EmitByte
    <2>1. lc < lc'
      BY <1>6, EmitMoves, PtrSizeAssumption
    <2>2. labels' = labels /\ in_func' = in_func /\ func_start' = func_start
      BY <1>6 DEF EmitReloc, EmitByte
    <2>3. QED
      BY <2>1, <2>2, LabelsKept
  <1>7. CASE LeaveFunction
    BY <1>7, LabelsEnd DEF LeaveFunction
  <1>8. CASE StayInFunction
    BY <1>8, LabelsKept DEF StayInFunction, assembler, TypeOK
  <1>9. CASE EndSegment
    <2>1. lc <= lc' /\ labels' = labels /\ in_func' = in_func /\ func_start' = func_start
      BY <1>9, EndSegmentMoves DEF EndSegment
    <2>2. \A l \in labels : l[2] # lc
      BY <1>9 DEF EndSegment, LabelsInv
    <2>3. QED
      BY <2>1, <2>2, LabelsKept
  <1>10. CASE Finish
    BY <1>10, LabelsKept DEF Finish, assembler, TypeOK
  <1>11. CASE UNCHANGED vars
    BY <1>11, LabelsKept DEF vars, translator, assembler, TypeOK
  <1>12. QED
    BY <1>1, <1>2, <1>3, <1>4, <1>5, <1>6, <1>7, <1>8, <1>9, <1>10, <1>11 DEF Next

-----------------------------------------------------------------------------
(* Ending the open function closes its SEH scope without a diagnostic.     *)
LEMMA ScopesEnd ==
  ASSUME TypeOK, LabelsInv, ScopesInv, EndFunction, in_func, ~ in_func',
         pc \notin {"annotate", "emit"}, lc' = lc, image' = image, prologued' = prologued
  PROVE  ScopesInv'
  <1>1. procs' = {} /\ errors' = {}
    BY LabelsEnd DEF EndFunction, ScopesInv
  <1>2. \A f \in prologued : Started(f)'
    BY DEF EndFunction, ScopesInv, Started
  <1>3. QED
    BY <1>1, <1>2 DEF ScopesInv

(* Replaying the directives of one offset: the prologue cannot have been   *)
(* ended before it, for its end is the last of the offsets.                *)
LEMMA ScopesAnnotate ==
  ASSUME TypeOK, Cursor, LabelsInv, ScopesInv, Annotate
  PROVE  ScopesInv'
  <1> DEFINE offset == Here - func_start
  <1>1. Here \in Nat /\ func_start \in Nat /\ pc = "annotate" /\ pc' = "emit"
    BY SegFacts DEF Annotate, TypeOK
  <1>2. in_func' = in_func /\ func_start' = func_start /\ Here' = Here
        /\ image' = image /\ procs' = procs /\ labels' = labels
    BY DEF Annotate, Here, Seg
  <1>3. CASE in_func /\ HasUnwind
    <2>1. Unwind.end \in Nat /\ Unwind.dirs \subseteq Nat
          /\ \A d \in Unwind.dirs : d <= Unwind.end
      BY <1>3, ImagesAssumption, ImageFacts DEF Cursor, TypeOK, HasUnwind, Unwind, WellFormed
    <2>2. func_start \in prologued => offset \notin Unwind.dirs
      BY <1>1, <1>3, <2>1 DEF ScopesInv
    <2>3. errors' = errors
      BY <1>3, <2>2 DEF Annotate, EmitSehPrologue, ScopesInv
    <2>4. Started(func_start)
      BY <1>3 DEF LabelsInv
    <2>5. \A f \in prologued' : Started(f)'
      BY <1>2, <2>4 DEF Annotate, EmitSehPrologue, ScopesInv, Started
    <2>6. func_start \in prologued' => func_start + Unwind.end <= Here
      BY <1>1, <1>3, <2>1 DEF Annotate, EmitSehPrologue, ScopesInv
    <2>7. HasUnwind' = HasUnwind /\ Unwind' = Unwind
      BY <1>2 DEF HasUnwind, Unwind
    <2>8. QED
      BY <1>1, <1>2, <2>3, <2>5, <2>6, <2>7 DEF ScopesInv
  <1>4. CASE ~ (in_func /\ HasUnwind)
    <2>1. errors' = errors /\ prologued' = prologued
      BY <1>4 DEF Annotate, EmitSehPrologue
    <2>2. in_func => func_start \notin prologued
      BY <1>4 DEF TypeOK, HasUnwind
    <2>3. HasUnwind' = HasUnwind
      BY <1>2 DEF HasUnwind
    <2>4. \A f \in prologued' : Started(f)'
      BY <1>2, <2>1 DEF ScopesInv, Started
    <2>5. QED
      BY <1>1, <1>2, <2>1, <2>2, <2>3, <2>4 DEF ScopesInv
  <1>5. QED
    BY <1>3, <1>4

(* Steps that touch neither scopes nor labels keep the scope invariant     *)
(* when the cursor does not move back.                                     *)
LEMMA ScopesKept ==
  ASSUME TypeOK, ScopesInv, labels' = labels, procs' = procs, prologued' = prologued,
         errors' = errors, image' = image, func_start' = func_start \/ ~ in_func,
         in_func' = in_func,
         in_func /\ func_start \in prologued =>
           /\ pc' # "emit"
           /\ func_start + Unwind.end < Here'
  PROVE  ScopesInv'
  <1>1. \A f \in prologued' : Started(f)'
    BY DEF ScopesInv, Started
  <1>2. QED
    BY <1>1 DEF ScopesInv, HasUnwind, Unwind

(* Every step keeps the open .seh_proc that of the open function.          *)
LEMMA ScopesStep ==
  ASSUME TypeOK, TypeOK', Cursor, LabelsInv, ScopesInv, [Next]_vars
  PROVE  ScopesInv'
  <1>1. CASE BeginSegment
    <2>1. ~ in_func /\ ~ in_func' /\ in_func' = in_func
      BY <1>1 DEF BeginSegment, Cursor, Walking, TypeOK
    <2>2. /\ labels' = labels /\ procs' = procs /\ prologued' = prologued
          /\ image' = image
      BY <1>1 DEF BeginSegment
    <2>3. errors' = errors
      BY <1>1, BeginSegmentMoves
    <2>4. QED
      BY <2>1, <2>2, <2>3, ScopesKept
  <1>2. CASE CloseOpenFunction
    BY <1>2, ScopesEnd DEF CloseOpenFunction
  <1>3. CASE BeginFunction
    <2>1. procs = {} /\ ~ in_func
      BY <1>3 DEF BeginFunction, ScopesInv
    <2>2. errors' = {}
      BY <1>3, <2>1, LabelsBegin DEF BeginFunction, ScopesInv, OpensProc
    <2>3. Here \notin prologued /\ func_start' = Here /\ prologued' = prologued /\ in_func'
          /\ image' = image
      BY <1>3, LabelsBegin DEF BeginFunction, ScopesInv
    <2>4. \A f \in prologued : Started(f)'
      BY <1>3 DEF BeginFunction, ScopesInv, Started
    <2>5. procs' = IF Here \in DOMAIN image.unwind THEN {Here} ELSE {}
      BY <1>3, <2>1 DEF BeginFunction, OpensProc
    <2>6. QED
      BY <2>2, <2>3, <2>4, <2>5 DEF ScopesInv, HasUnwind
  <1>4. CASE NoFunctionHere
    BY <1>4, ScopesKept DEF NoFunctionHere, ScopesInv, assembler, Here, Seg
  <1>5. CASE Annotate
    BY <1>5, ScopesAnnotate
  <1>6. CASE EmitReloc \/ EmitByte
    <2>1. pc = "emit" /\ pc' = "leave" /\ image' = image /\ seg' = seg
          /\ in_func' = in_func /\ func_start' = func_start
          /\ labels' = labels /\ procs' = procs /\ prologued' = prologued
      BY <1>6 DEF EmitReloc, EmitByte
    <2>2. errors' = errors /\ Here < Here'
      <3>1. Seg.vaddr \in Nat /\ pos \in Nat
        BY <2>1, SegFacts DEF TypeOK
      <3>2. Here' = Seg.vaddr + (pos + Step)
        BY <1>6, <2>1, EmitMoves DEF Here, Seg
      <3>3. QED
        BY <1>6, <3>1, <3>2, EmitMoves, PtrSizeAssumption DEF Here
    <2>3. ASSUME in_func, func_start \in prologued
          PROVE  func_start + Unwind.end < Here'
      <3>1. Unwind.end \in Nat
        BY <2>3, ImageFacts DEF TypeOK, Unwind
      <3>2. Here \in Nat /\ Here' \in Nat /\ func_start \in Nat
        <4>1. Here \in Nat /\ func_start \in Nat
          BY <2>1, SegFacts DEF TypeOK
        <4>2. Here' \in Nat
          <5>1. Seg.vaddr \in Nat /\ pos' \in Nat
            BY <2>1, SegFacts DEF TypeOK
          <5>2. Here' = Seg.vaddr + pos'
            BY <2>1 DEF Here, Seg
          <5>3. QED
            BY <5>1, <5>2
        <4>3. QED
          BY <4>1, <4>2
      <3>3. func_start + Unwind.end <= Here
        BY <2>1, <2>3 DEF ScopesInv
      <3>4. QED
        BY <2>2, <3>1, <3>2, <3>3
    <2>4. QED
      BY <2>1, <2>2, <2>3, ScopesKept
  <1>7. CASE LeaveFunction
    BY <1>7, ScopesEnd DEF LeaveFunction
  <1>8. CASE StayInFunction
    BY <1>8, ScopesKept DEF StayInFunction, ScopesInv, assembler, Here, Seg
  <1>9. CASE EndSegment
    <2>1. ~ in_func
      BY <1>9, EndSegmentCloses
    <2>2. QED
      BY <1>9, <2>1, EndSegmentMoves, ScopesKept DEF EndSegment
  <1>10. CASE Finish
    BY <1>10, ScopesKept DEF Finish, assembler, Cursor, Walking
  <1>11. CASE UNCHANGED vars
    BY <1>11 DEF vars, translator, assembler, ScopesInv, Started, HasUnwind, Unwind, Here, Seg
  <1>12. QED
    BY <1>1, <1>2, <1>3, <1>4, <1>5, <1>6, <1>7, <1>8, <1>9, <1>10, <1>11 DEF Next

-----------------------------------------------------------------------------
(* Every step keeps items below the location counter.                      *)
LEMMA ItemsStep ==
  ASSUME TypeOK, Cursor, ItemsInv, [Next]_vars
  PROVE  ItemsInv'
  <1> lc \in Nat
    BY DEF TypeOK
  <1> /\ 1 \in Nat /\ PtrSize \in Nat
      /\ \A p \in placed : p[1] \in Nat /\ p[2] \in Nat /\ p[3] \in Nat
    BY PtrSizeAssumption DEF TypeOK
  <1>1. CASE EmitReloc \/ EmitByte
    <2> DEFINE item == <<lc, lc, Step>>
    <2>1. item[1] = lc /\ item[2] = lc /\ item[3] = Step
      OBVIOUS
    <2>2. placed' = placed \cup {item} /\ lc' = lc + item[3] /\ Step \in Nat
      BY <1>1, EmitMoves, PtrSizeAssumption
    <2> HIDE DEF item
    <2>3. \A p \in placed' : p[1] = p[2] /\ p[1] + p[3] <= lc'
      BY <2>1, <2>2 DEF ItemsInv
    <2>4. ASSUME NEW p \in placed', NEW q \in placed', p # q
          PROVE  p[1] + p[3] <= q[1] \/ q[1] + q[3] <= p[1]
      BY <2>1, <2>2, <2>4 DEF ItemsInv
    <2>5. QED
      BY <2>3, <2>4 DEF ItemsInv
  <1>2. CASE BeginSegment \/ EndSegment
    <2>1. placed' = placed
      BY <1>2 DEF BeginSegment, EndSegment
    <2>2. lc <= lc' /\ lc' \in Nat
      <3>1. CASE BeginSegment
        BY <3>1, BeginSegmentMoves
      <3>2. CASE EndSegment
        BY <3>2, EndSegmentMoves, SegmentOrder DEF Cursor
      <3>3. QED
        BY <1>2, <3>1, <3>2
    <2>3. QED
      BY <2>1, <2>2 DEF ItemsInv
  <1>3. CASE UNCHANGED <<placed, lc>>
    BY <1>3 DEF ItemsInv
  <1>4. QED
    <2>1. ASSUME ~ (EmitReloc \/ EmitByte), ~ (BeginSegment \/ EndSegment)
          PROVE  UNCHANGED <<placed, lc>>
      BY <2>1 DEF Next, vars, translator, assembler, CloseOpenFunction, BeginFunction,
                  NoFunctionHere, Annotate, LeaveFunction, StayInFunction, Finish
    <2>2. QED
      BY <1>1, <1>2, <1>3, <2>1

-----------------------------------------------------------------------------
(* Before the first segment nothing can be wrong.                          *)
LEMMA InitInv == Init => IInv
  <1> SUFFICES ASSUME Init PROVE IInv
    OBVIOUS
  <1>1. ImageType(image) /\ image \in Images
    BY ImagesAssumption DEF Init
  <1>2. TypeOK
    BY InitTypes
  <1>3. Cursor
    <2>1. \A j \in 1 .. Len(image.segs) : 0 <= image.segs[j].vaddr
      BY <1>1, ImageFacts DEF Segment
    <2>2. QED
      BY <1>1, <2>1 DEF Init, Cursor, Walking
  <1>4. LabelsInv /\ ScopesInv /\ ItemsInv
    BY DEF Init, LabelsInv, ScopesInv, ItemsInv
  <1>5. QED
    BY <1>2, <1>3, <1>4 DEF IInv

(* The inductive invariant holds of every reachable state.                 *)
THEOREM Inductive == Spec => []IInv
  <1>1. Init => IInv
    BY InitInv
  <1>2. TypeOK /\ TypeOK' /\ IInv /\ [Next]_vars => IInv'
    BY CursorStep, LabelsStep, ScopesStep, ItemsStep DEF IInv
  <1>3. QED
    BY <1>1, <1>2, TypeCorrect, PTL DEF Spec

(* No diagnostic of the assembler is reachable: .org never moves backwards,*)
(* code labels are unique, .seh_proc scopes are not nested and closed once,*)
(* and no SEH directive follows .seh_endprologue.                          *)
THEOREM Accepted == Spec => []AssemblerAccepts
  <1>1. IInv => AssemblerAccepts
    BY DEF IInv, ScopesInv, AssemblerAccepts
  <1>2. QED
    BY <1>1, Inductive, PTL

(* Every item of the section is at its own virtual address, and items are  *)
(* disjoint.                                                               *)
THEOREM Layout == Spec => []LayoutFaithful
  <1>1. IInv => LayoutFaithful
    BY DEF IInv, ItemsInv, LayoutFaithful
  <1>2. QED
    BY <1>1, Inductive, PTL

(* The label pairs given to .cv_linetable are non-empty, disjoint ranges   *)
(* that start at their functions and are closed between segments.          *)
THEOREM CodeRanges == Spec => []CodeRangesDisjoint
  <1>1. ASSUME IInv PROVE CodeRangesDisjoint
    <2>1. pc \in {"segment", "done", "aborted"} => ~ in_func
      BY <1>1 DEF IInv, Cursor, Walking
    <2>2. pc \in {"segment", "done", "aborted"} =>
            procs = {} /\ \A l \in labels : Ended(l[2])
      BY <1>1, <2>1 DEF IInv, LabelsInv, ScopesInv
    <2>3. QED
      BY <1>1, <2>2 DEF IInv, LabelsInv, CodeRangesDisjoint
  <1>2. QED
    BY <1>1, Inductive, PTL

-----------------------------------------------------------------------------
(* How far the walk has come: the segments before the current one are      *)
(* behind the location counter, it stops nowhere inside a relocated word,  *)
(* the open function began in the current segment, and func_start_addr is  *)
(* the null value outside of functions (but while a function that starts   *)
(* here has just closed the one before it).                                *)
WalkInv ==
  /\ \A j \in 1 .. seg - 1 : image.segs[j].vaddr + image.segs[j].memsz <= lc
  /\ pc = "done" => seg = Len(image.segs) + 1
  /\ Walking => ~ Inside(Here)
  /\ in_func => Seg.vaddr <= func_start
  /\ Walking /\ ~ in_func => func_start = OutsideStart \/ (pc = "scan" /\ FunctionAt)

(* The section holds its own byte at exactly the file's addresses that are *)
(* behind the location counter.                                            *)
BytesInv == OwnBytes = { a \in FileAddresses : a < lc }

(* The functions started are those the walk has stopped at: behind the     *)
(* location counter, or at it once the loop has looked at this address.    *)
Visited(a) == a < lc \/ (a = lc /\ pc \in {"annotate", "emit"})

StartedInv ==
  \A f \in DOMAIN image.funcs :
    Started(f) <=> f \in FileAddresses /\ ~ Inside(f) /\ Visited(f)

-----------------------------------------------------------------------------
(* No byte of the file is where .org moves over: between two segments, and *)
(* in the zero-filled rest of one.                                         *)
LEMMA FilePartFacts ==
  ASSUME TypeOK, image \in Images, NEW a, NEW j, InSegment(a, j)
  PROVE  /\ j \in 1 .. Len(image.segs) /\ a \in Nat
         /\ image.segs[j].vaddr \in Nat /\ image.segs[j].filesz \in Nat
         /\ image.segs[j].memsz \in Nat
         /\ image.segs[j].vaddr <= a
         /\ a < image.segs[j].vaddr + image.segs[j].filesz
         /\ image.segs[j].filesz <= image.segs[j].memsz
  <1>1. WellFormed(image) /\ DOMAIN image.segs = 1 .. Len(image.segs)
    BY ImagesAssumption, ImageFacts DEF TypeOK
  <1>2. j \in 1 .. Len(image.segs) /\ image.segs[j] \in Segment
    BY <1>1, ImageFacts DEF TypeOK, InSegment
  <1>3. image.segs[j].filesz <= image.segs[j].memsz
    BY <1>1, <1>2 DEF WellFormed
  <1>4. a \in image.segs[j].vaddr .. image.segs[j].vaddr + image.segs[j].filesz - 1
    BY DEF InSegment, FilePart
  <1>5. QED
    BY <1>2, <1>3, <1>4 DEF Segment

(* Segments are in the order of their addresses and disjoint.              *)
LEMMA SegmentsAscend ==
  ASSUME TypeOK, image \in Images, NEW i \in 1 .. Len(image.segs),
         NEW j \in 1 .. Len(image.segs), i < j
  PROVE  image.segs[i].vaddr + image.segs[i].memsz <= image.segs[j].vaddr
  <1>1. WellFormed(image) /\ DOMAIN image.segs = 1 .. Len(image.segs)
    BY ImagesAssumption, ImageFacts DEF TypeOK
  <1>2. QED
    BY <1>1 DEF WellFormed

(* The addresses of the file are those of its segments' file parts.        *)
LEMMA FileAddress ==
  ASSUME TypeOK, NEW a
  PROVE  a \in FileAddresses <=> \E j \in DOMAIN image.segs : InSegment(a, j)
  BY DEF FileAddresses, InSegment

(* An address of the file is behind the current segment's start, if it is  *)
(* behind one that is done, and not before its end, if it is in a later.   *)
LEMMA NoFileBetween ==
  ASSUME TypeOK, Cursor, WalkInv, BeginSegment \/ EndSegment,
         NEW a \in FileAddresses, lc <= a
  PROVE  lc' <= a
  <1>1. PICK j \in DOMAIN image.segs : InSegment(a, j)
    BY FileAddress
  <1>2. image \in Images /\ lc \in Nat /\ seg \in Nat
    BY ImageFacts DEF Cursor, TypeOK
  <1>3. /\ j \in 1 .. Len(image.segs) /\ a \in Nat
        /\ image.segs[j].vaddr \in Nat /\ image.segs[j].memsz \in Nat
        /\ image.segs[j].vaddr <= a
        /\ image.segs[j].filesz \in Nat
        /\ a < image.segs[j].vaddr + image.segs[j].filesz
        /\ image.segs[j].filesz <= image.segs[j].memsz
    BY <1>1, <1>2, FilePartFacts
  <1>4. ~ (j < seg)
    <2> SUFFICES ASSUME j < seg PROVE FALSE
      OBVIOUS
    <2>1. j \in 1 .. seg - 1
      BY <1>2, <1>3
    <2>2. image.segs[j].vaddr + image.segs[j].memsz <= lc
      BY <2>1 DEF WalkInv
    <2>3. QED
      BY <1>2, <1>3, <2>2
  <1>5. Len(image.segs) \in Nat
    BY ImageFacts DEF TypeOK
  <1>6. CASE BeginSegment
    <2>1. lc' = Seg.vaddr /\ seg \in 1 .. Len(image.segs) /\ Seg.vaddr \in Nat
      BY <1>6, BeginSegmentMoves
    <2>2. CASE j = seg
      BY <1>3, <2>1, <2>2 DEF Seg
    <2>3. CASE seg < j
      <3>1. Seg.vaddr + Seg.memsz <= image.segs[j].vaddr /\ Seg.memsz \in Nat
        BY <1>2, <1>3, <1>5, <2>1, <2>3, SegmentOrder
      <3>2. QED
        BY <1>3, <2>1, <3>1
    <2>4. QED
      BY <1>2, <1>3, <1>4, <2>2, <2>3
  <1>7. CASE EndSegment
    <2>1. lc' = Seg.vaddr + Seg.memsz /\ seg \in 1 .. Len(image.segs)
      BY <1>7, EndSegmentMoves
    <2>2. /\ lc = Seg.vaddr + pos /\ ~ (pos < Seg.filesz)
          /\ pos \in Nat /\ Seg.filesz \in Nat /\ Seg.vaddr \in Nat
      BY SMTT(60), <1>7, SegFacts DEF EndSegment, Cursor, Walking, TypeOK, Here
    <2>3. j # seg
      BY <1>3, <2>2 DEF Seg
    <2>4. Seg.vaddr + Seg.memsz <= image.segs[j].vaddr /\ Seg.memsz \in Nat
      BY <1>2, <1>3, <1>4, <1>5, <2>1, <2>3, SegmentOrder
    <2>5. QED
      BY SMTT(60), <1>3, <2>1, <2>2, <2>4
  <1>8. QED
    BY <1>6, <1>7

(* While a segment is walked, the cursor is at a byte of its file part     *)
(* until it is behind the last one.                                        *)
LEMMA HereInFile ==
  ASSUME TypeOK, Walking, pos < Seg.filesz
  PROVE  Here \in FileAddresses /\ InSegment(Here, seg)
  <1>1. /\ Seg.vaddr \in Nat /\ Seg.filesz \in Nat /\ pos \in Nat
        /\ seg \in 1 .. Len(image.segs)
    BY SegFacts DEF TypeOK, Walking
  <1>2. seg \in DOMAIN image.segs
    BY <1>1, ImageFacts DEF TypeOK
  <1>3. Here \in FilePart(Seg)
    BY <1>1 DEF Here, FilePart
  <1>4. QED
    BY <1>2, <1>3 DEF FileAddresses, InSegment, Seg

(* The addresses a step of the walk passes over, if it passes any, are     *)
(* inside the relocated word it has just emitted.                          *)
LEMMA SteppedOver ==
  ASSUME TypeOK, Cursor, EmitReloc \/ EmitByte, NEW a \in Nat, lc < a, a < lc'
  PROVE  Inside(a)
  <1>1. /\ pc = "emit" /\ Step \in {1, PtrSize} /\ lc' = lc + Step
        /\ lc = Here /\ lc \in Nat /\ pos < Seg.filesz
    BY EmitMoves DEF EmitReloc, EmitByte, Cursor, TypeOK
  <1>2. Step = PtrSize /\ RelocHere
    BY <1>1 DEF Step
  <1>3. Here \in FileAddresses
    BY <1>1, HereInFile DEF Walking
  <1>4. QED
    BY <1>1, <1>2, <1>3, PtrSizeAssumption DEF Inside, RelocHere

(* The bytes an item of the listing adds are those of the file.            *)
LEMMA EmittedBytes ==
  ASSUME TypeOK, Cursor, EmitReloc \/ EmitByte, NEW a \in lc .. lc + Step - 1
  PROVE  a \in FileAddresses
  <1>1. /\ Step \in Nat /\ pos + Step <= Seg.filesz
        /\ lc = Here /\ lc \in Nat
    BY SMTT(60), EmitMoves, PtrSizeAssumption DEF TypeOK
  <1>2. /\ Seg.vaddr \in Nat /\ Seg.filesz \in Nat /\ pos \in Nat
        /\ seg \in 1 .. Len(image.segs)
    BY SegFacts DEF TypeOK, EmitReloc, EmitByte
  <1>3. seg \in DOMAIN image.segs
    <2>1. ImageType(image)
      BY DEF TypeOK
    <2>2. DOMAIN image.segs = 1 .. Len(image.segs)
      BY <2>1, ImageFacts
    <2>3. QED
      BY <1>2, <2>2
  <1>4. lc = Seg.vaddr + pos
    BY <1>1 DEF Here
  <1>5. a \in Int /\ lc <= a /\ a < lc + Step
    BY <1>1
  <1>6. Seg.vaddr <= a /\ a < Seg.vaddr + Seg.filesz
    <2>1. Seg.vaddr <= a
      BY <1>2, <1>4, <1>5
    <2>2. lc + Step = Seg.vaddr + (pos + Step)
      BY SMTT(60), <1>1, <1>2, <1>4
    <2>3. lc + Step <= Seg.vaddr + Seg.filesz
      BY <1>1, <1>2, <2>2
    <2>4. QED
      BY <1>1, <1>2, <1>5, <2>1, <2>3
  <1>7. a \in FilePart(Seg)
    BY <1>2, <1>5, <1>6 DEF FilePart
  <1>8. QED
    BY <1>3, <1>7 DEF FileAddresses, Seg

(* The walk stops nowhere inside a relocated word.                         *)
LEMMA SegmentStartOutside ==
  ASSUME TypeOK, image \in Images, seg \in 1 .. Len(image.segs)
  PROVE  ~ Inside(Seg.vaddr)
  <1> SUFFICES ASSUME NEW r \in image.relocs, r \in FileAddresses,
                      r < Seg.vaddr, Seg.vaddr < r + PtrSize
               PROVE  FALSE
    BY DEF Inside
  <1>1. PICK j \in DOMAIN image.segs : InSegment(r, j)
    BY FileAddress
  <1>2. /\ j \in 1 .. Len(image.segs) /\ r \in Nat
        /\ image.segs[j].vaddr \in Nat /\ image.segs[j].filesz \in Nat
        /\ image.segs[j].memsz \in Nat
        /\ image.segs[j].vaddr <= r /\ r < image.segs[j].vaddr + image.segs[j].filesz
        /\ image.segs[j].filesz <= image.segs[j].memsz
    BY <1>1, FilePartFacts
  <1>3. r + PtrSize <= image.segs[j].vaddr + image.segs[j].filesz
    <2>1. WellFormed(image) /\ r \in FilePart(image.segs[j])
      BY <1>1, ImagesAssumption DEF InSegment
    <2>2. QED
      BY <1>1, <2>1 DEF WellFormed, FilePart
  <1>4. Seg.vaddr \in Nat /\ Seg.memsz \in Nat /\ Len(image.segs) \in Nat
    BY SegmentOrder, ImageFacts DEF TypeOK
  <1>5. CASE j < seg
    <2>1. image.segs[j].vaddr + image.segs[j].memsz <= Seg.vaddr
      BY <1>2, <1>5, SegmentsAscend DEF Seg
    <2>2. QED
      BY SMTT(60), <1>2, <1>3, <1>4, <2>1, PtrSizeAssumption
  <1>6. CASE j = seg
    BY <1>2, <1>4, <1>6 DEF Seg
  <1>7. CASE seg < j
    <2>1. Seg.vaddr + Seg.memsz <= image.segs[j].vaddr
      BY <1>2, <1>7, SegmentsAscend DEF Seg
    <2>2. QED
      BY <1>2, <1>4, <2>1
  <1>8. QED
    BY <1>2, <1>4, <1>5, <1>6, <1>7

(* From an address the walk stops at, it steps to one it stops at.         *)
LEMMA NextStopOutside ==
  ASSUME TypeOK, Cursor, ~ Inside(Here), EmitReloc \/ EmitByte
  PROVE  ~ Inside(lc + Step)
  <1>1. /\ pc = "emit" /\ Step \in {1, PtrSize} /\ lc = Here /\ lc \in Nat
    BY EmitMoves DEF EmitReloc, EmitByte, TypeOK
  <1> SUFFICES ASSUME NEW r \in image.relocs, r \in FileAddresses,
                      r < lc + Step, lc + Step < r + PtrSize
               PROVE  FALSE
    BY DEF Inside
  <1>2. r \in Nat /\ WellFormed(image)
    BY ImagesAssumption DEF TypeOK, ImageType, Cursor
  <1>3. ~ (r < lc /\ lc < r + PtrSize)
    BY <1>1 DEF Inside
  <1>4. lc <= r
    BY <1>1, <1>2, <1>3, PtrSizeAssumption
  <1>5. CASE RelocHere
    <2>1. Step = PtrSize /\ lc \in image.relocs /\ lc # r
      BY <1>1, <1>2, <1>5, PtrSizeAssumption DEF Step, RelocHere
    <2>2. lc + PtrSize <= r
      BY <1>1, <1>2, <1>4, <2>1 DEF WellFormed
    <2>3. QED
      BY <1>1, <1>2, <2>1, <2>2, PtrSizeAssumption
  <1>6. CASE ~ RelocHere
    <2>1. Step = 1 /\ r # lc
      BY <1>1, <1>6 DEF Step, RelocHere
    <2>2. QED
      BY <1>1, <1>2, <1>4, <2>1
  <1>7. QED
    BY <1>5, <1>6

-----------------------------------------------------------------------------
(* The image is the same in every state.                                   *)
LEMMA ImageKept ==
  ASSUME [Next]_vars
  PROVE  /\ image' = image /\ FileAddresses' = FileAddresses
         /\ \A a : Inside(a)' <=> Inside(a)
         /\ \A a, j : InSegment(a, j)' <=> InSegment(a, j)
  <1>1. image' = image
    BY DEF Next, vars, translator, BeginSegment, CloseOpenFunction, BeginFunction,
           NoFunctionHere, Annotate, EmitReloc, EmitByte, LeaveFunction, StayInFunction,
           EndSegment, Finish
  <1>2. FileAddresses' = FileAddresses
    BY <1>1 DEF FileAddresses
  <1>3. QED
    BY <1>1, <1>2 DEF Inside, InSegment

(* Steps within a segment that leave the cursor where it is.               *)
LEMMA WalkKept ==
  ASSUME TypeOK, WalkInv, image' = image, seg' = seg, pos' = pos, lc' = lc,
         Walking, Walking',
         in_func' => Seg.vaddr <= func_start',
         ~ in_func' => func_start' = OutsideStart \/ (pc' = "scan" /\ FunctionAt)
  PROVE  WalkInv'
  <1>1. Here' = Here /\ Seg' = Seg /\ pc' # "done" /\ FunctionAt' = FunctionAt
    BY DEF Here, Seg, Walking, FunctionAt
  <1>2. ~ Inside(Here)'
    BY <1>1 DEF WalkInv, Inside, FileAddresses
  <1>3. QED
    BY <1>1, <1>2 DEF WalkInv, OutsideStart

(* Every step keeps the walk outside of relocated words.                   *)
LEMMA WalkStep ==
  ASSUME TypeOK, TypeOK', Cursor, WalkInv, LabelsInv, [Next]_vars
  PROVE  WalkInv'
  <1> lc \in Nat /\ lc' \in Nat /\ image' = image
    BY ImageKept DEF TypeOK
  <1>1. CASE BeginSegment
    <2>1. /\ seg' = seg /\ pos' = 0 /\ ~ in_func' /\ func_start' = OutsideStart
          /\ pc' \in {"scan", "aborted"} /\ Seg' = Seg
      BY <1>1 DEF BeginSegment, Seg
    <2>2. /\ lc <= lc' /\ seg \in 1 .. Len(image.segs) /\ Seg.vaddr \in Nat
      BY <1>1, BeginSegmentMoves
    <2>3. \A j \in 1 .. seg - 1 : image.segs[j].vaddr + image.segs[j].memsz <= lc'
      <3> SUFFICES ASSUME NEW j \in 1 .. seg - 1
                   PROVE  image.segs[j].vaddr + image.segs[j].memsz <= lc'
        OBVIOUS
      <3>1. image.segs[j].vaddr + image.segs[j].memsz <= lc
        BY DEF WalkInv
      <3>2. image.segs[j] \in Segment
        BY <2>2, ImageFacts DEF TypeOK
      <3>3. QED
        BY <2>2, <3>1, <3>2 DEF Segment
    <2>4. ~ Inside(Seg.vaddr)
      BY <2>2, SegmentStartOutside DEF Cursor
    <2>5. Here' = Seg.vaddr
      BY <2>1, <2>2 DEF Here
    <2>6. ~ Inside(Here)'
      BY <1>1, <2>4, <2>5, ImageKept DEF Next
    <2>7. QED
      BY <2>1, <2>3, <2>6 DEF WalkInv, OutsideStart
  <1>2. CASE CloseOpenFunction
    BY <1>2, WalkKept DEF CloseOpenFunction, Walking
  <1>3. CASE BeginFunction
    <2>1. Seg.vaddr <= Here
      BY SMTT(60), <1>3, SegFacts DEF BeginFunction, Here, TypeOK
    <2>2. QED
      BY <1>3, <2>1, WalkKept DEF BeginFunction, Walking
  <1>4. CASE NoFunctionHere
    BY <1>4, WalkKept DEF NoFunctionHere, assembler, Walking, WalkInv, FunctionAt
  <1>5. CASE Annotate
    BY <1>5, WalkKept DEF Annotate, Walking, WalkInv
  <1>6. CASE EmitReloc \/ EmitByte
    <2>1. /\ seg' = seg /\ pc' = "leave" /\ Seg' = Seg /\ pc = "emit"
          /\ in_func' = in_func /\ func_start' = func_start
      BY <1>6 DEF EmitReloc, EmitByte, Seg
    <2>2. /\ lc' = lc + Step /\ lc = Here /\ lc <= lc'
      BY <1>6, EmitMoves, PtrSizeAssumption
    <2>3. \A j \in 1 .. seg - 1 : image.segs[j].vaddr + image.segs[j].memsz <= lc'
      <3> SUFFICES ASSUME NEW j \in 1 .. seg - 1
                   PROVE  image.segs[j].vaddr + image.segs[j].memsz <= lc'
        OBVIOUS
      <3>1. image.segs[j].vaddr + image.segs[j].memsz <= lc
        BY DEF WalkInv
      <3>2. image.segs[j] \in Segment
        BY <2>1, SegFacts, ImageFacts DEF TypeOK
      <3>3. QED
        BY <2>2, <3>1, <3>2 DEF Segment
    <2>4. ~ Inside(lc + Step)
      BY <1>6, <2>1, NextStopOutside DEF WalkInv, Walking
    <2>5. Walking' /\ Cursor'
      BY <2>1, CursorStep DEF Walking
    <2>6. Here' = lc + Step
      BY <2>2, <2>5 DEF Cursor
    <2>7. ~ Inside(Here)'
      BY <1>6, <2>4, <2>6, ImageKept DEF Next
    <2>8. QED
      BY <2>1, <2>3, <2>7 DEF WalkInv, Walking
  <1>7. CASE LeaveFunction
    BY <1>7, WalkKept DEF LeaveFunction, Walking
  <1>8. CASE StayInFunction
    BY <1>8, WalkKept DEF StayInFunction, assembler, Walking, WalkInv
  <1>9. CASE EndSegment
    <2>1. /\ seg' = seg + 1 /\ pc' = "segment" /\ ~ in_func'
      BY <1>9, EndSegmentCloses DEF EndSegment
    <2>2. /\ lc' = Seg.vaddr + Seg.memsz /\ lc <= lc' /\ seg \in 1 .. Len(image.segs)
      BY <1>9, EndSegmentMoves
    <2>3. \A j \in 1 .. seg : image.segs[j].vaddr + image.segs[j].memsz <= lc'
      <3> SUFFICES ASSUME NEW j \in 1 .. seg
                   PROVE  image.segs[j].vaddr + image.segs[j].memsz <= lc'
        OBVIOUS
      <3>1. image.segs[j] \in Segment
        BY <2>2, ImageFacts DEF TypeOK
      <3>2. CASE j = seg
        BY <2>2, <3>1, <3>2 DEF Seg, Segment
      <3>3. CASE j # seg
        <4>1. j \in 1 .. seg - 1
          BY <2>2, <3>3
        <4>2. image.segs[j].vaddr + image.segs[j].memsz <= lc
          BY <4>1 DEF WalkInv
        <4>3. QED
          BY <2>2, <3>1, <4>2 DEF Segment
      <3>4. QED
        BY <3>2, <3>3
    <2>4. seg' - 1 = seg
      BY <2>1, <2>2
    <2>5. QED
      BY <2>1, <2>3, <2>4 DEF WalkInv, Walking
  <1>10. CASE Finish
    <2>1. seg = Len(image.segs) + 1
      BY <1>10, ImageFacts DEF Finish, TypeOK
    <2>2. QED
      BY <1>10, <2>1 DEF Finish, assembler, WalkInv, Walking, Cursor
  <1>11. CASE UNCHANGED vars
    BY <1>11 DEF vars, translator, assembler, WalkInv, Walking, Here, Seg, FunctionAt,
                 Inside, FileAddresses, OutsideStart
  <1>12. QED
    BY <1>1, <1>2, <1>3, <1>4, <1>5, <1>6, <1>7, <1>8, <1>9, <1>10, <1>11 DEF Next

-----------------------------------------------------------------------------
(* The bytes placed have addresses.                                        *)
LEMMA ItemAddressTypes ==
  ASSUME TypeOK, NEW a \in OwnBytes
  PROVE  a \in Int
  <1>1. PICK p \in placed : a \in ItemAddresses(p)
    BY DEF OwnBytes
  <1>2. p[1] \in Nat /\ p[3] \in Nat
    BY PtrSizeAssumption DEF TypeOK
  <1>3. QED
    BY <1>1, <1>2 DEF ItemAddresses

(* Every step keeps the bytes placed those below the location counter.     *)
LEMMA BytesStep ==
  ASSUME TypeOK, TypeOK', Cursor, WalkInv, BytesInv, [Next]_vars
  PROVE  BytesInv'
  <1> lc \in Nat /\ lc' \in Nat /\ FileAddresses' = FileAddresses
    BY ImageKept DEF TypeOK
  <1>0. \A a \in FileAddresses : a \in Nat
    BY FileAddress, FilePartFacts DEF Cursor
  <1>1. CASE EmitReloc \/ EmitByte
    <2> DEFINE item == <<lc, lc, Step>>
    <2>1. /\ Step \in Nat /\ lc' = lc + Step /\ placed' = placed \cup {item}
      BY <1>1, EmitMoves, PtrSizeAssumption
    <2>2. ItemAddresses(item) = lc .. lc + Step - 1
      BY DEF ItemAddresses
    <2> HIDE DEF item
    <2>3. OwnBytes' = OwnBytes \cup (lc .. lc + Step - 1)
      <3>1. \A p : ItemAddresses(p)' = ItemAddresses(p)
        BY DEF ItemAddresses
      <3>2. OwnBytes' = UNION { ItemAddresses(p) : p \in placed \cup {item} }
        BY <2>1, <3>1 DEF OwnBytes
      <3>3. QED
        BY <2>2, <3>2 DEF OwnBytes
    <2>4. \A a \in lc .. lc + Step - 1 : a \in FileAddresses
      BY <1>1, EmittedBytes
    <2>5. ASSUME NEW a \in FileAddresses
          PROVE  a < lc' <=> a < lc \/ a \in lc .. lc + Step - 1
      BY <1>0, <2>1
    <2>6. OwnBytes' = { a \in FileAddresses : a < lc' }
      BY <2>3, <2>4, <2>5 DEF BytesInv
    <2>7. QED
      BY <2>6 DEF BytesInv
  <1>2. CASE BeginSegment \/ EndSegment
    <2>1. OwnBytes' = OwnBytes
      BY <1>2 DEF BeginSegment, EndSegment, OwnBytes
    <2>2. lc <= lc'
      BY <1>2, BeginSegmentMoves, EndSegmentMoves
    <2>3. \A a \in FileAddresses : a < lc' <=> a < lc
      BY <1>0, <1>2, <2>2, NoFileBetween
    <2>4. QED
      BY <2>1, <2>3 DEF BytesInv
  <1>3. CASE UNCHANGED <<placed, lc>>
    BY <1>3 DEF BytesInv, OwnBytes
  <1>4. QED
    <2>1. ASSUME ~ (EmitReloc \/ EmitByte), ~ (BeginSegment \/ EndSegment)
          PROVE  UNCHANGED <<placed, lc>>
      BY <2>1 DEF Next, vars, translator, assembler, CloseOpenFunction, BeginFunction,
                  NoFunctionHere, Annotate, LeaveFunction, StayInFunction, Finish
    <2>2. QED
      BY <1>1, <1>2, <1>3, <2>1

(* Steps that start no function and pass over no address where one starts. *)
LEMMA StartedKept ==
  ASSUME TypeOK, StartedInv, image' = image,
         \A f : Started(f)' <=> Started(f),
         \A f \in DOMAIN image.funcs :
           f \in FileAddresses /\ ~ Inside(f) => (Visited(f)' <=> Visited(f))
  PROVE  StartedInv'
  <1>1. FileAddresses' = FileAddresses /\ \A a : Inside(a)' <=> Inside(a)
    BY DEF Inside, FileAddresses
  <1>2. QED
    BY <1>1 DEF StartedInv

(* Every step keeps every function begun that the walk has passed.         *)
LEMMA StartedStep ==
  ASSUME TypeOK, TypeOK', Cursor, LabelsInv, WalkInv, StartedInv, [Next]_vars
  PROVE  StartedInv'
  <1> /\ lc \in Nat /\ lc' \in Nat /\ image' = image
      /\ DOMAIN image.funcs \subseteq Nat
    BY ImageKept, ImageFacts DEF TypeOK
  <1>1. CASE BeginSegment \/ EndSegment
    <2>1. labels' = labels /\ pc \in {"segment", "scan"} /\ pc' \notin {"annotate", "emit"}
      BY <1>1 DEF BeginSegment, EndSegment
    <2>2. lc <= lc'
      BY <1>1, BeginSegmentMoves, EndSegmentMoves
    <2>3. \A f \in FileAddresses : lc <= f => lc' <= f
      BY <1>1, NoFileBetween
    <2>4. \A f \in DOMAIN image.funcs : f \in FileAddresses => (Visited(f)' <=> Visited(f))
      BY <2>1, <2>2, <2>3 DEF Visited
    <2>5. QED
      BY <2>1, <2>4, StartedKept DEF Started
  <1>2. CASE CloseOpenFunction \/ LeaveFunction
    <2>1. labels' = labels \cup {Label("end")} /\ lc' = lc /\ pc \in {"scan", "leave"}
          /\ pc' = "scan"
      BY <1>2 DEF CloseOpenFunction, LeaveFunction, EndFunction
    <2>2. Label("end")[1] # "start"
      BY DEF Label
    <2>3. \A f : Started(f)' <=> Started(f)
      BY <2>1, <2>2 DEF Started
    <2>4. QED
      BY <2>1, <2>3, StartedKept DEF Visited
  <1>3. CASE BeginFunction
    <2>1. /\ lc' = lc /\ Here = lc /\ pc = "scan" /\ pc' = "annotate"
          /\ pos < Seg.filesz /\ FunctionAt /\ Walking
          /\ labels' = labels \cup {<<"start", Here, lc>>}
      BY <1>3, LabelsBegin DEF BeginFunction, Walking
    <2>2. \A f : Started(f)' <=> (Started(f) \/ f = lc)
      <3> DEFINE s == <<"start", Here, lc>>
      <3>1. labels' = labels \cup {s} /\ s[1] = "start" /\ s[2] = lc
        BY <2>1
      <3> HIDE DEF s
      <3>2. QED
        BY <3>1 DEF Started
    <2>3. lc \in FileAddresses /\ ~ Inside(lc)
      BY <2>1, HereInFile DEF WalkInv
    <2>4. FileAddresses' = FileAddresses /\ \A a : Inside(a)' <=> Inside(a)
      BY ImageKept
    <2>5. ASSUME NEW f \in DOMAIN image.funcs
          PROVE  Started(f)' <=> f \in FileAddresses /\ ~ Inside(f) /\ (f < lc \/ f = lc)
      <3>1. Started(f) <=> f \in FileAddresses /\ ~ Inside(f) /\ f < lc
        BY <2>1 DEF StartedInv, Visited
      <3>2. QED
        BY <2>2, <2>3, <3>1
    <2>6. QED
      BY <2>1, <2>4, <2>5 DEF StartedInv, Visited
  <1>4. CASE NoFunctionHere
    <2>1. /\ lc' = lc /\ labels' = labels /\ pc = "scan" /\ lc \notin DOMAIN image.funcs
      BY <1>4 DEF NoFunctionHere, assembler, FunctionAt, Cursor, Walking
    <2>2. \A f \in DOMAIN image.funcs : Visited(f)' <=> Visited(f)
      BY <1>4, <2>1 DEF NoFunctionHere, Visited
    <2>3. QED
      BY <2>1, <2>2, StartedKept DEF Started
  <1>5. CASE Annotate
    <2>1. labels' = labels /\ \A f : Visited(f)' <=> Visited(f)
      BY <1>5 DEF Annotate, Visited
    <2>2. QED
      BY <2>1, StartedKept DEF Started
  <1>6. CASE EmitReloc \/ EmitByte
    <2>1. /\ labels' = labels /\ pc = "emit" /\ pc' = "leave"
      BY <1>6 DEF EmitReloc, EmitByte
    <2>2. lc < lc'
      BY <1>6, EmitMoves, PtrSizeAssumption
    <2>3. \A f \in Nat : lc < f /\ f < lc' => Inside(f)
      BY <1>6, SteppedOver
    <2>4. DOMAIN image.funcs \subseteq Nat
      BY ImageFacts DEF TypeOK
    <2>5. \A f \in DOMAIN image.funcs : ~ Inside(f) => (Visited(f)' <=> Visited(f))
      BY <2>1, <2>2, <2>3, <2>4 DEF Visited
    <2>6. QED
      BY <2>1, <2>5, StartedKept DEF Started
  <1>7. CASE StayInFunction \/ Finish \/ UNCHANGED vars
    <2>1. labels' = labels /\ \A f : Visited(f)' <=> Visited(f)
      BY <1>7 DEF StayInFunction, Finish, vars, translator, assembler, Visited
    <2>2. QED
      BY <2>1, StartedKept DEF Started
  <1>8. QED
    BY <1>1, <1>2, <1>3, <1>4, <1>5, <1>6, <1>7 DEF Next

-----------------------------------------------------------------------------
(* The offsets recorded for the prologue of a function.                    *)
Marks(f) == image.unwind[f].dirs \cup {image.unwind[f].end}

(* The hooks of the loop have run at an address.                           *)
Annotated(a) == a < lc \/ (a = lc /\ pc = "emit")

Replayed(f, d) ==
  /\ d \in image.unwind[f].dirs => <<f, d>> \in replayed
  /\ d = image.unwind[f].end => f \in prologued

(* What a function that has begun has had of its prologue; it does not end *)
(* before it has had all of it.                                            *)
PrologueInv ==
  \A f \in DOMAIN image.unwind \cap DOMAIN image.funcs :
    Started(f) /\ Replayable(f) =>
      \A d \in Marks(f) :
        /\ Ended(f) => f + d < lc
        /\ Annotated(f + d) => Replayed(f, d)

(* The addresses a prologue is replayed at.                                *)
LEMMA MarkFacts ==
  ASSUME TypeOK, image \in Images, NEW f \in DOMAIN image.unwind \cap DOMAIN image.funcs,
         NEW d \in Marks(f)
  PROVE  /\ f \in Nat /\ d \in Nat /\ f + d \in Nat /\ image.funcs[f] \in Nat
         /\ Replayable(f) => f + d \in FileAddresses /\ ~ Inside(f + d)
  <1>1. f \in Nat /\ d \in Nat
    BY ImageFacts DEF TypeOK, Marks
  <1>2. image.funcs[f] \in Nat
    BY DEF TypeOK, ImageType
  <1>3. ASSUME Replayable(f) PROVE f + d \in FileAddresses /\ ~ Inside(f + d)
    <2>1. ~ Inside(f + d) /\ \E i \in DOMAIN image.segs : InSegment(f + d, i)
      BY <1>3 DEF Replayable, Marks
    <2>2. QED
      BY <2>1, FileAddress
  <1>4. QED
    BY <1>1, <1>2, <1>3

(* What can be replayed is a matter of the image.                          *)
LEMMA SameFunctions ==
  ASSUME image' = image
  PROVE  \A f : /\ Replayable(f)' <=> Replayable(f)
                /\ Marks(f)' = Marks(f)
  BY DEF Replayable, Marks, Inside, InSegment, FileAddresses

(* Steps that neither begin nor end a function nor run the hooks.          *)
LEMMA PrologueKept ==
  ASSUME TypeOK, image \in Images, PrologueInv, image' = image,
         lc' \in Nat, lc <= lc',
         labels' = labels, replayed' = replayed, prologued' = prologued,
         \A a \in FileAddresses : ~ Inside(a) /\ Annotated(a)' => Annotated(a)
  PROVE  PrologueInv'
  <1> SUFFICES ASSUME NEW f \in DOMAIN image.unwind \cap DOMAIN image.funcs,
                      Started(f), Replayable(f), NEW d \in Marks(f)
               PROVE  /\ Ended(f) => f + d < lc'
                      /\ Annotated(f + d)' => Replayed(f, d)
    BY SameFunctions DEF PrologueInv, Started, Ended, Replayed
  <1>1. /\ Ended(f) => f + d < lc
        /\ Annotated(f + d) => Replayed(f, d)
    BY DEF PrologueInv
  <1>2. f + d \in Nat /\ f + d \in FileAddresses /\ ~ Inside(f + d) /\ lc \in Nat
    BY MarkFacts DEF TypeOK
  <1>3. QED
    BY <1>1, <1>2

(* Ending a function: all of its recorded offsets have been passed.        *)
LEMMA PrologueEnds ==
  ASSUME TypeOK, Cursor, LabelsInv, WalkInv, PrologueInv, image' = image,
         EndFunction, in_func, pc \in {"scan", "leave"}, pc' # "emit", lc' = lc,
         replayed' = replayed, prologued' = prologued,
         ASSUME NEW d \in Marks(func_start), func_start \in DOMAIN image.unwind,
                Replayable(func_start)
         PROVE  func_start + d < lc
  PROVE  PrologueInv'
  <1> SUFFICES ASSUME NEW f \in DOMAIN image.unwind \cap DOMAIN image.funcs,
                      Started(f)', Replayable(f), NEW d \in Marks(f)
               PROVE  /\ Ended(f)' => f + d < lc
                      /\ Annotated(f + d)' => Replayed(f, d)
    BY SameFunctions DEF PrologueInv, Replayed
  <1> DEFINE e == <<"end", func_start, lc>>
  <1>1. labels' = labels \cup {e} /\ e[1] = "end" /\ e[2] = func_start
    BY DEF EndFunction, Label
  <1> HIDE DEF e
  <1>2. Started(f) /\ (Ended(f)' => Ended(f) \/ f = func_start)
    BY <1>1 DEF Started, Ended
  <1>3. /\ Ended(f) => f + d < lc
        /\ Annotated(f + d) => Replayed(f, d)
    BY <1>2 DEF PrologueInv
  <1>4. f = func_start => f + d < lc
    OBVIOUS
  <1>5. Annotated(f + d)' => Annotated(f + d)
    BY DEF Annotated
  <1>6. QED
    BY <1>2, <1>3, <1>4, <1>5

(* A function that begins behind the open one ends it behind the prologue. *)
LEMMA ClosedBehindPrologue ==
  ASSUME TypeOK, Cursor, LabelsInv, WalkInv, CloseOpenFunction,
         func_start \in DOMAIN image.unwind,
         Replayable(func_start), NEW d \in Marks(func_start)
  PROVE  func_start + d < lc
  <1>1. /\ lc = Here /\ lc \in DOMAIN image.funcs /\ ~ Inside(lc) /\ lc \in Nat
    BY DEF CloseOpenFunction, Cursor, Walking, WalkInv, FunctionAt, TypeOK
  <1>2. func_start < lc
    BY LabelsEnd DEF CloseOpenFunction
  <1>3. func_start + d \in Nat
    BY MarkFacts DEF Cursor, TypeOK, CloseOpenFunction
  <1>4. ~ (func_start < lc /\ lc <= func_start + d /\ ~ Inside(lc))
    BY <1>1 DEF Replayable, Marks
  <1>5. QED
    BY <1>1, <1>2, <1>3, <1>4

(* A function left behind its last byte, or at the end of its segment, is  *)
(* left behind its prologue.                                               *)
LEMMA LeftBehindPrologue ==
  ASSUME TypeOK, Cursor, LabelsInv, WalkInv, LeaveFunction,
         func_start \in DOMAIN image.unwind,
         Replayable(func_start), NEW d \in Marks(func_start)
  PROVE  func_start + d < lc
  <1>1. /\ lc = Here /\ lc \in Nat /\ func_start \in Nat /\ in_func /\ pc = "leave"
        /\ func_start \in DOMAIN image.funcs
    BY DEF LeaveFunction, Cursor, Walking, TypeOK
  <1>2. func_start < lc
    BY LabelsEnd DEF LeaveFunction
  <1>3. d \in Nat /\ func_start + d \in Nat /\ image.funcs[func_start] \in Nat
    BY <1>1, MarkFacts DEF Cursor
  <1>4. d = 0 \/ d < image.funcs[func_start]
    BY DEF Replayable, Marks
  <1>5. CASE Here - func_start >= image.funcs[func_start]
    BY <1>1, <1>2, <1>3, <1>4, <1>5
  <1>6. CASE pos >= Seg.filesz
    <2>1. /\ seg \in 1 .. Len(image.segs) /\ Seg.vaddr \in Nat /\ Seg.filesz \in Nat
          /\ pos \in Nat /\ pos <= Seg.filesz /\ Seg.memsz \in Nat
          /\ Seg.filesz <= Seg.memsz
      BY <1>1, SegFacts, SegmentOrder DEF TypeOK, Cursor, Walking
    <2>2. lc = Seg.vaddr + Seg.filesz /\ Seg.vaddr <= func_start
      BY <1>1, <1>6, <2>1 DEF Here, WalkInv
    <2>3. PICK i \in DOMAIN image.segs : InSegment(func_start, i) /\ InSegment(func_start + d, i)
      BY DEF Replayable, Marks
    <2>4. /\ i \in 1 .. Len(image.segs)
          /\ image.segs[i].vaddr \in Nat /\ image.segs[i].filesz \in Nat
          /\ image.segs[i].memsz \in Nat
          /\ image.segs[i].vaddr <= func_start
          /\ func_start < image.segs[i].vaddr + image.segs[i].filesz
          /\ image.segs[i].filesz <= image.segs[i].memsz
          /\ func_start + d < image.segs[i].vaddr + image.segs[i].filesz
      BY <2>3, FilePartFacts DEF Cursor
    <2>5. CASE i = seg
      BY <2>1, <2>2, <2>4, <2>5 DEF Seg
    <2>6. CASE i < seg
      <3>1. image.segs[i].vaddr + image.segs[i].memsz <= Seg.vaddr
        BY <2>1, <2>4, <2>6, SegmentsAscend DEF Cursor, Seg
      <3>2. image.segs[i].vaddr + image.segs[i].filesz <= Seg.vaddr
        BY SMTT(60), <2>1, <2>4, <3>1
      <3>3. func_start < Seg.vaddr
        BY <1>1, <2>1, <2>4, <3>2
      <3>4. QED
        BY <1>1, <2>1, <2>2, <3>3
    <2>7. CASE seg < i
      <3>1. Seg.vaddr + Seg.memsz <= image.segs[i].vaddr
        BY <2>1, <2>4, <2>7, SegmentsAscend DEF Cursor, Seg
      <3>2. lc <= Seg.vaddr + Seg.memsz
        BY <1>1, <2>1, <2>2
      <3>3. lc <= func_start
        BY SMTT(60), <1>1, <2>1, <2>4, <3>1, <3>2
      <3>4. QED
        BY <1>1, <1>2, <3>3
    <2>8. Len(image.segs) \in Nat
      BY ImageFacts DEF TypeOK
    <2>9. QED
      BY <2>1, <2>4, <2>5, <2>6, <2>7, <2>8
  <1>7. QED
    BY <1>5, <1>6 DEF LeaveFunction, ExitedFunction

(* The hooks at the cursor replay what is recorded for this offset of the  *)
(* open function.                                                          *)
LEMMA PrologueAnnotated ==
  ASSUME TypeOK, Cursor, LabelsInv, PrologueInv, Annotate
  PROVE  PrologueInv'
  <1>1. /\ image' = image /\ labels' = labels /\ lc' = lc /\ lc \in Nat
        /\ pc = "annotate" /\ pc' = "emit" /\ lc = Here
        /\ replayed \subseteq replayed' /\ prologued \subseteq prologued'
    BY DEF Annotate, EmitSehPrologue, TypeOK, Cursor, Walking
  <1> SUFFICES ASSUME NEW f \in DOMAIN image.unwind \cap DOMAIN image.funcs,
                      Started(f), Replayable(f), NEW d \in Marks(f)
               PROVE  /\ Ended(f) => f + d < lc
                      /\ Annotated(f + d)' => Replayed(f, d)'
    BY <1>1, SameFunctions DEF PrologueInv, Started, Ended
  <1>2. /\ Ended(f) => f + d < lc
        /\ Annotated(f + d) => Replayed(f, d)
    BY DEF PrologueInv
  <1>3. f \in Nat /\ d \in Nat
    BY MarkFacts DEF Cursor
  <1>4. Replayed(f, d) => Replayed(f, d)'
    BY <1>1 DEF Replayed
  <1>5. ASSUME f + d = lc PROVE Replayed(f, d)'
    <2>1. ~ Ended(f)
      BY <1>1, <1>2, <1>5
    <2>2. in_func /\ f = func_start
      BY <2>1 DEF LabelsInv, Started
    <2>3. HasUnwind /\ Here - func_start = d
      BY <1>1, <1>3, <1>5, <2>2 DEF HasUnwind
    <2>4. QED
      BY <1>1, <2>2, <2>3 DEF Annotate, EmitSehPrologue, Replayed, Unwind
  <1>6. QED
    BY <1>1, <1>2, <1>4, <1>5 DEF Annotated

(* Every step keeps the directives of a function replayed as far as it has *)
(* been walked.                                                            *)
LEMMA PrologueStep ==
  ASSUME TypeOK, TypeOK', Cursor, LabelsInv, WalkInv, PrologueInv, [Next]_vars
  PROVE  PrologueInv'
  <1> lc \in Nat /\ lc' \in Nat /\ image' = image /\ image \in Images
    BY ImageKept DEF TypeOK, Cursor
  <1>1. CASE BeginSegment \/ EndSegment
    <2>1. /\ labels' = labels /\ replayed' = replayed /\ prologued' = prologued
          /\ pc' # "emit" /\ lc <= lc'
      BY <1>1, BeginSegmentMoves, EndSegmentMoves DEF BeginSegment, EndSegment
    <2>2. \A a \in FileAddresses : lc <= a => lc' <= a
      BY <1>1, NoFileBetween
    <2>3. \A a \in FileAddresses : a \in Nat
      BY FileAddress, FilePartFacts
    <2>4. \A a \in FileAddresses : Annotated(a)' => Annotated(a)
      BY <2>1, <2>2, <2>3 DEF Annotated
    <2>5. QED
      BY <2>1, <2>4, PrologueKept
  <1>2. CASE CloseOpenFunction
    BY <1>2, ClosedBehindPrologue, PrologueEnds DEF CloseOpenFunction
  <1>3. CASE LeaveFunction
    BY <1>3, LeftBehindPrologue, PrologueEnds DEF LeaveFunction
  <1>4. CASE BeginFunction
    <2>1. /\ lc' = lc /\ Here = lc /\ ~ Started(lc) /\ pc = "scan" /\ pc' = "annotate"
          /\ replayed' = replayed /\ prologued' = prologued
      BY <1>4, LabelsBegin DEF BeginFunction
    <2> DEFINE s == <<"start", Here, lc>>
    <2>2. labels' = labels \cup {s} /\ s[1] = "start" /\ s[2] = lc
      BY <1>4, <2>1 DEF BeginFunction
    <2> HIDE DEF s
    <2>3. \A f : /\ Started(f)' <=> (Started(f) \/ f = lc)
                 /\ Ended(f)' <=> Ended(f)
                 /\ Ended(f) => Started(f)
      <3>1. \A f : Started(f)' <=> (Started(f) \/ f = lc)
        BY <2>2 DEF Started
      <3>2. \A f : Ended(f)' <=> Ended(f)
        BY <2>2 DEF Ended
      <3>3. \A f : Ended(f) => Started(f)
        BY DEF Ended, LabelsInv
      <3>4. QED
        BY <3>1, <3>2, <3>3
    <2> SUFFICES ASSUME NEW f \in DOMAIN image.unwind \cap DOMAIN image.funcs,
                        Started(f)', Replayable(f), NEW d \in Marks(f)
                 PROVE  /\ Ended(f)' => f + d < lc
                        /\ Annotated(f + d)' => Replayed(f, d)
      BY <2>1, SameFunctions DEF PrologueInv, Replayed
    <2>4. f \in Nat /\ d \in Nat
      BY MarkFacts
    <2>5. CASE Started(f)
      BY <2>1, <2>3, <2>5 DEF PrologueInv, Annotated
    <2>6. CASE f = lc
      BY <2>1, <2>3, <2>4, <2>6 DEF Annotated
    <2>7. QED
      BY <2>3, <2>5, <2>6
  <1>5. CASE Annotate
    BY <1>5, PrologueAnnotated
  <1>6. CASE EmitReloc \/ EmitByte
    <2>1. /\ labels' = labels /\ replayed' = replayed /\ prologued' = prologued
          /\ pc = "emit" /\ pc' # "emit"
      BY <1>6 DEF EmitReloc, EmitByte
    <2>2. lc < lc'
      BY <1>6, EmitMoves, PtrSizeAssumption
    <2>3. \A a \in FileAddresses : a \in Nat
      BY FileAddress, FilePartFacts
    <2>4. \A a \in FileAddresses : lc < a /\ a < lc' => Inside(a)
      BY <1>6, <2>3, SteppedOver
    <2>5. \A a \in FileAddresses : ~ Inside(a) /\ Annotated(a)' => Annotated(a)
      BY <2>1, <2>3, <2>4 DEF Annotated
    <2>6. QED
      BY <2>1, <2>2, <2>5, PrologueKept
  <1>7. CASE NoFunctionHere \/ StayInFunction \/ Finish \/ UNCHANGED vars
    <2>1. /\ labels' = labels /\ replayed' = replayed /\ prologued' = prologued
          /\ lc' = lc /\ \A a : Annotated(a)' => Annotated(a)
      BY <1>7 DEF NoFunctionHere, StayInFunction, Finish, vars, translator, assembler,
                  Annotated
    <2>2. QED
      BY <2>1, PrologueKept
  <1>8. QED
    BY <1>1, <1>2, <1>3, <1>4, <1>5, <1>6, <1>7 DEF Next

-----------------------------------------------------------------------------
(* l is the last .cv_loc of its function at or before an address.          *)
LastUpTo(l, a) == l[2] <= a /\ \A m \in locs : m[1] = l[1] /\ m[2] <= a => m[2] <= l[2]

(* A debugger is shown the position of the row at an address.              *)
Shown(f, a) ==
  \E l \in locs : /\ l[1] = f /\ LastUpTo(l, a)
                  /\ l[3].pos = image.lines[a].pos
                  /\ image.columnInfo => l[3] = image.lines[a]

(* The .cv_loc directives: of rows of the line table, in the code of their *)
(* function.  The position that the translator remembers for a function is *)
(* that of its last one, and each row the walk has passed is shown.        *)
LocsInv ==
  /\ \A l \in locs : /\ Annotated(l[2]) /\ l[2] \in DOMAIN image.lines
                     /\ l[3] = image.lines[l[2]]
                     /\ l[1] # 0 => WithinFunction(l[1], l[2])
  /\ ~ image.columnInfo =>
       \A f \in DOMAIN image.funcs : last_line[f] # NoPosition =>
         \E l \in locs : /\ l[1] = f /\ l[3].pos = last_line[f]
                         /\ \A m \in locs : m[1] = f => m[2] <= l[2]
  /\ \A p \in placed, f \in DOMAIN image.funcs :
       p[2] \in DOMAIN image.lines /\ WithinFunction(f, p[2]) => Shown(f, p[2])
  /\ pc = "emit" /\ in_func /\ Here \in DOMAIN image.lines => Shown(func_start, Here)

(* A line record is of an address in a function.                           *)
LEMMA LocTypes ==
  ASSUME TypeOK, NEW l \in locs
  PROVE  l[1] \in DOMAIN image.funcs /\ l[2] \in Nat
  BY DEF TypeOK

(* The code of a function only grows at the location counter.              *)
LEMMA WithinOpen ==
  ASSUME TypeOK, LabelsInv, NEW f, WithinFunction(f, lc)
  PROVE  in_func /\ f = func_start
  <1>1. Started(f) /\ lc \in Nat
    BY DEF WithinFunction, TypeOK
  <1>2. \A l \in labels : l[3] <= lc /\ l[3] \in Nat
    BY LabelTypes DEF LabelsInv
  <1>3. ~ Ended(f)
    BY <1>1, <1>2 DEF WithinFunction, Ended
  <1>4. QED
    BY <1>1, <1>3 DEF LabelsInv, Started

(* An open function is walked within its labels.                           *)
LEMMA OpenWithin ==
  ASSUME TypeOK, LabelsInv, in_func
  PROVE  WithinFunction(func_start, lc)
  BY DEF LabelsInv, WithinFunction, Started, Ended

(* Steps that run no hook.                                                 *)
LEMMA LocsKept ==
  ASSUME TypeOK, LocsInv, image' = image, locs' = locs, last_line' = last_line,
         pc' # "emit",
         \A l \in locs : Annotated(l[2]) => Annotated(l[2])',
         \A l \in locs : WithinFunction(l[1], l[2]) => WithinFunction(l[1], l[2])',
         \A p \in placed', f \in DOMAIN image.funcs :
           p[2] \in DOMAIN image.lines /\ WithinFunction(f, p[2])' => Shown(f, p[2])
  PROVE  LocsInv'
  <1>1. \A f, a : Shown(f, a)' <=> Shown(f, a)
    BY DEF Shown, LastUpTo
  <1>2. \A l \in locs' : /\ Annotated(l[2])' /\ l[2] \in DOMAIN image.lines
                         /\ l[3] = image.lines[l[2]]
                         /\ l[1] # 0 => WithinFunction(l[1], l[2])'
    BY DEF LocsInv
  <1>3. ~ image.columnInfo =>
          \A f \in DOMAIN image.funcs : last_line[f] # NoPosition =>
            \E l \in locs : /\ l[1] = f /\ l[3].pos = last_line[f]
                            /\ \A m \in locs : m[1] = f => m[2] <= l[2]
    BY DEF LocsInv
  <1>4. QED
    BY <1>1, <1>2, <1>3 DEF LocsInv, NoPosition

(* What is shown behind the location counter does not change when the      *)
(* hooks add a directive at it.                                            *)
LEMMA ShownKept ==
  ASSUME TypeOK, image' = image, NEW n, locs' = locs \cup {n}, n[2] = lc,
         NEW f, NEW a \in Nat, a < lc, Shown(f, a)
  PROVE  Shown(f, a)'
  <1>1. PICK l \in locs : /\ l[1] = f /\ LastUpTo(l, a)
                          /\ l[3].pos = image.lines[a].pos
                          /\ image.columnInfo => l[3] = image.lines[a]
    BY DEF Shown
  <1>2. ~ (n[2] <= a)
    BY DEF TypeOK
  <1>3. LastUpTo(l, a)'
    BY <1>1, <1>2 DEF LastUpTo
  <1>4. QED
    BY <1>1, <1>3 DEF Shown

(* Annotating an address emits its line, or the line holds already.        *)
LEMMA LocsAnnotated ==
  ASSUME TypeOK, Cursor, LabelsInv, WalkInv, ItemsInv, LocsInv, Annotate
  PROVE  LocsInv'
  <1> DEFINE n == <<func_start, lc, image.lines[lc]>>
  <1> DEFINE emit == /\ lc \in DOMAIN image.lines
                     /\ func_start \in DOMAIN image.funcs
                     /\ image.columnInfo \/ last_line[func_start] # image.lines[lc].pos
  <1>1. /\ image' = image /\ lc' = lc /\ lc \in Nat /\ labels' = labels /\ placed' = placed
        /\ pc = "annotate" /\ pc' = "emit" /\ lc = Here /\ Here' = Here
        /\ in_func' = in_func /\ func_start' = func_start /\ func_start \in Nat
    BY DEF Annotate, TypeOK, Cursor, Walking, Here, Seg
  <1>2. /\ locs' = IF emit THEN locs \cup {n} ELSE locs
        /\ last_line' = IF emit /\ ~ image.columnInfo
                          THEN [last_line EXCEPT ![func_start] = image.lines[lc].pos]
                          ELSE last_line
    BY <1>1 DEF Annotate, EmitLineLoc, Remember
  <1>3. n[1] = func_start /\ n[2] = lc /\ n[3] = image.lines[lc]
    OBVIOUS
  <1> HIDE DEF n
  <1>4. \A l \in locs : l[2] \in Nat /\ l[2] < lc
    BY <1>1, LocTypes DEF LocsInv, Annotated
  <1>5. ASSUME emit, func_start # 0 PROVE WithinFunction(func_start, lc)
    BY <1>1, <1>5, OpenWithin DEF WalkInv, Walking, OutsideStart
  <1>6. \A l \in locs' : /\ Annotated(l[2])' /\ l[2] \in DOMAIN image.lines
                         /\ l[3] = image.lines[l[2]]
                         /\ l[1] # 0 => WithinFunction(l[1], l[2])'
    <2>1. \A f, a : WithinFunction(f, a)' <=> WithinFunction(f, a)
      BY <1>1 DEF WithinFunction, Started
    <2>2. \A a : Annotated(a)' <=> a < lc \/ a = lc
      BY <1>1 DEF Annotated
    <2>3. QED
      BY <1>2, <1>3, <1>4, <1>5, <2>1, <2>2 DEF LocsInv
  <1>7. ASSUME ~ image.columnInfo, NEW f \in DOMAIN image.funcs, last_line'[f] # NoPosition
        PROVE  \E l \in locs' : /\ l[1] = f /\ l[3].pos = last_line'[f]
                                /\ \A m \in locs' : m[1] = f => m[2] <= l[2]
    <2>1. CASE emit /\ f = func_start
      <3>1. last_line'[f] = n[3].pos /\ locs' = locs \cup {n}
        BY <1>2, <1>3, <1>7, <2>1 DEF TypeOK
      <3>2. \A m \in locs' : m[2] <= n[2]
        BY <1>1, <1>3, <1>4, <3>1
      <3>3. QED
        BY <1>3, <2>1, <3>1, <3>2
    <2>2. CASE ~ (emit /\ f = func_start)
      <3>1. last_line'[f] = last_line[f] /\ locs \subseteq locs'
        BY <1>2, <1>7, <2>2 DEF TypeOK
      <3>2. PICK l \in locs : /\ l[1] = f /\ l[3].pos = last_line[f]
                              /\ \A m \in locs : m[1] = f => m[2] <= l[2]
        BY <1>7, <3>1 DEF LocsInv
      <3>3. \A m \in locs' : m[1] = f => m \in locs
        BY <1>2, <1>3, <2>2
      <3>4. QED
        BY <3>1, <3>2, <3>3
    <2>3. QED
      BY <2>1, <2>2
  <1>8. ASSUME NEW p \in placed, NEW f \in DOMAIN image.funcs,
               p[2] \in DOMAIN image.lines, WithinFunction(f, p[2])
        PROVE  Shown(f, p[2])'
    <2>1. Shown(f, p[2])
      BY <1>8 DEF LocsInv
    <2>2. p[2] \in Nat /\ p[2] < lc
      <3>1. p[1] = p[2] /\ p[1] + p[3] <= lc
        BY DEF ItemsInv
      <3>2. p[2] \in Nat /\ p[3] \in Nat \ {0}
        BY PtrSizeAssumption DEF TypeOK
      <3>3. QED
        BY <1>1, <3>1, <3>2
    <2>3. CASE emit
      BY <1>1, <1>2, <1>3, <2>1, <2>2, <2>3, ShownKept
    <2>4. CASE ~ emit
      BY <1>1, <1>2, <2>1, <2>4 DEF Shown, LastUpTo
    <2>5. QED
      BY <2>3, <2>4
  <1>9. ASSUME in_func, lc \in DOMAIN image.lines
        PROVE  Shown(func_start, lc)'
    <2>1. func_start \in DOMAIN image.funcs
      BY <1>9 DEF TypeOK
    <2>2. CASE emit
      <3>1. PICK l \in locs' : l[1] = func_start /\ l[2] = lc /\ l[3] = image.lines[lc]
        BY <1>2, <1>3, <2>2
      <3>2. \A m \in locs' : m[2] <= lc
        BY <1>1, <1>2, <1>3, <1>4, <2>2
      <3>3. LastUpTo(l, lc)'
        BY <1>1, <3>1, <3>2 DEF LastUpTo
      <3>4. QED
        BY <1>1, <3>1, <3>3 DEF Shown
    <2>3. CASE ~ emit
      <3>1. ~ image.columnInfo /\ last_line[func_start] = image.lines[lc].pos /\ locs' = locs
        BY <1>2, <1>9, <2>1, <2>3
      <3>2. image.lines[lc].pos # NoPosition
        BY <1>9, LineInfoAssumption DEF TypeOK, ImageType, NoPosition
      <3>3. PICK l \in locs : /\ l[1] = func_start /\ l[3].pos = image.lines[lc].pos
                              /\ \A m \in locs : m[1] = func_start => m[2] <= l[2]
        BY <2>1, <3>1, <3>2 DEF LocsInv
      <3>4. LastUpTo(l, lc)'
        BY <1>4, <1>1, <3>1, <3>3 DEF LastUpTo
      <3>5. QED
        BY <1>1, <3>1, <3>3, <3>4 DEF Shown
    <2>4. QED
      BY <2>2, <2>3
  <1>10. \A f, a : WithinFunction(f, a)' <=> WithinFunction(f, a)
    BY <1>1 DEF WithinFunction, Started
  <1> HIDE DEF emit
  <1>11. QED
    BY <1>1, <1>6, <1>7, <1>8, <1>9, <1>10 DEF LocsInv, NoPosition

(* Every step keeps the line of every address in a function that the walk  *)
(* has passed.                                                             *)
LEMMA LocsStep ==
  ASSUME TypeOK, TypeOK', Cursor, LabelsInv, WalkInv, ItemsInv, LocsInv, [Next]_vars
  PROVE  LocsInv'
  <1> lc \in Nat /\ lc' \in Nat /\ image' = image /\ image \in Images
    BY ImageKept DEF TypeOK, Cursor
  <1>0. \A p \in placed : p[2] \in Nat /\ p[2] < lc
    <2> TAKE p \in placed
    <2>1. p[1] = p[2] /\ p[1] + p[3] <= lc
      BY DEF ItemsInv
    <2>2. p[2] \in Nat /\ p[3] \in Nat \ {0}
      BY PtrSizeAssumption DEF TypeOK
    <2>3. QED
      BY <2>1, <2>2
  <1>1. CASE EmitReloc \/ EmitByte
    <2> DEFINE item == <<lc, lc, Step>>
    <2>1. /\ labels' = labels /\ locs' = locs /\ last_line' = last_line
          /\ pc = "emit" /\ pc' # "emit"
      BY <1>1 DEF EmitReloc, EmitByte
    <2>2. lc < lc' /\ placed' = placed \cup {item} /\ item[2] = lc /\ lc = Here
      BY <1>1, EmitMoves, PtrSizeAssumption
    <2> HIDE DEF item
    <2>3. \A f, a : WithinFunction(f, a)' <=> WithinFunction(f, a)
      BY <2>1 DEF WithinFunction, Started
    <2>4. \A l \in locs : Annotated(l[2]) => Annotated(l[2])'
      BY <2>1, <2>2, LocTypes DEF Annotated
    <2>5. ASSUME NEW f, lc \in DOMAIN image.lines, WithinFunction(f, lc)
          PROVE  Shown(f, lc)
      BY <2>1, <2>2, <2>5, WithinOpen DEF LocsInv
    <2>6. \A p \in placed', f \in DOMAIN image.funcs :
            p[2] \in DOMAIN image.lines /\ WithinFunction(f, p[2]) => Shown(f, p[2])
      BY <2>2, <2>5 DEF LocsInv
    <2>7. QED
      BY <2>1, <2>3, <2>4, <2>6, LocsKept
  <1>2. CASE BeginSegment \/ EndSegment
    <2>1. /\ labels' = labels /\ locs' = locs /\ last_line' = last_line /\ placed' = placed
          /\ pc # "emit" /\ pc' # "emit" /\ lc <= lc'
      BY <1>2, BeginSegmentMoves, EndSegmentMoves DEF BeginSegment, EndSegment
    <2>2. \A f, a : WithinFunction(f, a)' <=> WithinFunction(f, a)
      BY <2>1 DEF WithinFunction, Started
    <2>3. \A l \in locs : Annotated(l[2]) => Annotated(l[2])'
      BY <2>1, LocTypes DEF Annotated
    <2>4. \A p \in placed', f \in DOMAIN image.funcs :
            p[2] \in DOMAIN image.lines /\ WithinFunction(f, p[2]) => Shown(f, p[2])
      BY <2>1 DEF LocsInv
    <2>5. QED
      BY <2>1, <2>2, <2>3, <2>4, LocsKept
  <1>3. CASE CloseOpenFunction \/ LeaveFunction
    <2>1. /\ locs' = locs /\ last_line' = last_line /\ placed' = placed /\ lc' = lc
          /\ pc \in {"scan", "leave"} /\ pc' # "emit"
          /\ labels' = labels \cup {Label("end")}
      BY <1>3 DEF CloseOpenFunction, LeaveFunction, EndFunction
    <2> DEFINE e == Label("end")
    <2>2. e[1] = "end" /\ e[2] = func_start /\ e[3] = lc
      BY DEF Label
    <2> HIDE DEF e
    <2>3. labels' = labels \cup {e}
      BY <2>1 DEF e
    <2>4. \A f : Started(f)' <=> Started(f)
      BY <2>2, <2>3 DEF Started
    <2>5. \A f, a : WithinFunction(f, a)' => WithinFunction(f, a)
      BY <2>3, <2>4 DEF WithinFunction
    <2>6. \A f, a : WithinFunction(f, a) /\ a < lc => WithinFunction(f, a)'
      BY <2>2, <2>3, <2>4 DEF WithinFunction
    <2>7. \A l \in locs : l[2] < lc /\ (Annotated(l[2]) => Annotated(l[2])')
      BY <2>1 DEF Annotated, LocsInv
    <2>8. \A p \in placed', f \in DOMAIN image.funcs :
            p[2] \in DOMAIN image.lines /\ WithinFunction(f, p[2])' => Shown(f, p[2])
      BY <2>1, <2>5 DEF LocsInv
    <2>9. QED
      BY <2>1, <2>6, <2>7, <2>8, LocsKept
  <1>4. CASE BeginFunction
    <2> DEFINE s == <<"start", Here, lc>>
    <2>1. /\ locs' = locs /\ last_line' = last_line /\ placed' = placed /\ lc' = lc
          /\ pc = "scan" /\ pc' = "annotate" /\ Here = lc /\ ~ Started(lc)
          /\ labels' = labels \cup {s}
      BY <1>4, LabelsBegin DEF BeginFunction
    <2>2. s[1] = "start" /\ s[2] = lc
      BY <2>1
    <2> HIDE DEF s
    <2>3. \A f : Started(f)' <=> (Started(f) \/ f = lc)
      BY <2>1, <2>2 DEF Started
    <2>4. \A f, a : WithinFunction(f, a)' <=>
            (f <= a /\ (Started(f) \/ f = lc)
               /\ \A l \in labels : l[1] = "end" /\ l[2] = f => a < l[3])
      BY <2>1, <2>2, <2>3 DEF WithinFunction
    <2>5. \A f, a : WithinFunction(f, a) => WithinFunction(f, a)'
      BY <2>4 DEF WithinFunction
    <2>6. \A f \in DOMAIN image.funcs, a \in Nat :
            a < lc /\ WithinFunction(f, a)' => WithinFunction(f, a)
      BY <2>4 DEF WithinFunction
    <2>7. \A l \in locs : Annotated(l[2]) => Annotated(l[2])'
      BY <2>1 DEF Annotated
    <2>8. \A p \in placed', f \in DOMAIN image.funcs :
            p[2] \in DOMAIN image.lines /\ WithinFunction(f, p[2])' => Shown(f, p[2])
      BY <1>0, <2>1, <2>6 DEF LocsInv
    <2>9. QED
      BY <2>1, <2>5, <2>7, <2>8, LocsKept
  <1>5. CASE Annotate
    BY <1>5, LocsAnnotated
  <1>6. CASE NoFunctionHere \/ StayInFunction \/ Finish
    <2>1. /\ labels' = labels /\ locs' = locs /\ last_line' = last_line /\ placed' = placed
          /\ lc' = lc /\ pc # "emit" /\ pc' # "emit"
      BY <1>6 DEF NoFunctionHere, StayInFunction, Finish, assembler
    <2>2. \A f, a : WithinFunction(f, a)' <=> WithinFunction(f, a)
      BY <2>1 DEF WithinFunction, Started
    <2>3. \A l \in locs : Annotated(l[2]) => Annotated(l[2])'
      BY <2>1 DEF Annotated
    <2>4. \A p \in placed', f \in DOMAIN image.funcs :
            p[2] \in DOMAIN image.lines /\ WithinFunction(f, p[2]) => Shown(f, p[2])
      BY <2>1 DEF LocsInv
    <2>5. QED
      BY <2>1, <2>2, <2>3, <2>4, LocsKept
  <1>7. CASE UNCHANGED vars
    BY <1>7 DEF vars, translator, assembler, LocsInv, Shown, LastUpTo, WithinFunction,
                Started, Annotated, Here, Seg
  <1>8. QED
    BY <1>1, <1>2, <1>3, <1>4, <1>5, <1>6, <1>7 DEF Next

-----------------------------------------------------------------------------
(* The whole invariant.                                                    *)
FullInv == WalkInv /\ BytesInv /\ StartedInv /\ PrologueInv /\ LocsInv

(* Before the first segment nothing has been passed.                       *)
LEMMA InitFull == Init => FullInv
  <1> SUFFICES ASSUME Init PROVE FullInv
    OBVIOUS
  <1>1. TypeOK /\ image \in Images
    BY InitTypes DEF Init
  <1>2. \A a \in FileAddresses : a \in Nat
    BY <1>1, FileAddress, FilePartFacts
  <1>3. WalkInv
    BY DEF Init, WalkInv, Walking
  <1>4. BytesInv
    <2>1. OwnBytes = {}
      BY DEF Init, OwnBytes
    <2>2. \A a \in FileAddresses : ~ (a < lc)
      BY <1>2 DEF Init
    <2>3. QED
      BY <2>1, <2>2 DEF BytesInv
  <1>5. StartedInv
    <2>1. DOMAIN image.funcs \subseteq Nat
      BY <1>1, ImageFacts DEF TypeOK
    <2>2. QED
      BY <2>1 DEF Init, StartedInv, Started, Visited
  <1>6. PrologueInv
    BY DEF Init, PrologueInv, Started
  <1>7. LocsInv
    BY DEF Init, LocsInv, NoPosition
  <1>8. QED
    BY <1>3, <1>4, <1>5, <1>6, <1>7 DEF FullInv

(* Every reachable state of every walk is one in which what has been       *)
(* passed is placed, begun, replayed and annotated.                        *)
THEOREM InductiveFull == Spec => []FullInv
  <1>1. Init => FullInv
    BY InitFull
  <1>2. IInv /\ IInv' /\ FullInv /\ [Next]_vars => FullInv'
    BY WalkStep, BytesStep, StartedStep, PrologueStep, LocsStep DEF IInv, FullInv
  <1>3. QED
    BY <1>1, <1>2, Inductive, PTL DEF Spec

(* When the walk is complete, all of the file's addresses are behind it.   *)
LEMMA AllPassed ==
  ASSUME TypeOK, Cursor, WalkInv, pc = "done" \/ (pc = "segment" /\ seg > Len(image.segs)),
         NEW a \in FileAddresses
  PROVE  a \in Nat /\ a < lc
  <1>1. PICK j \in DOMAIN image.segs : InSegment(a, j)
    BY FileAddress
  <1>2. /\ j \in 1 .. Len(image.segs) /\ a \in Nat
        /\ image.segs[j].vaddr \in Nat /\ image.segs[j].filesz \in Nat
        /\ image.segs[j].memsz \in Nat
        /\ a < image.segs[j].vaddr + image.segs[j].filesz
        /\ image.segs[j].filesz <= image.segs[j].memsz
    BY <1>1, FilePartFacts DEF Cursor
  <1>3. seg = Len(image.segs) + 1 /\ lc \in Nat /\ Len(image.segs) \in Nat
    BY ImageFacts DEF WalkInv, TypeOK
  <1>4. j \in 1 .. seg - 1
    BY <1>2, <1>3
  <1>5. image.segs[j].vaddr + image.segs[j].memsz <= lc
    BY <1>4 DEF WalkInv
  <1>6. a < image.segs[j].vaddr + image.segs[j].memsz
    BY <1>2
  <1>7. QED
    BY <1>2, <1>3, <1>5, <1>6

(* After a complete walk, the functions that have both labels are those    *)
(* that start in a file part and not inside a relocated word: the others   *)
(* are the ones whose labels EmitCodeviewSymbolTable would name in vain.   *)
THEOREM ReachableLabelled == Spec => []LabelsOfReachableFunctions
  <1>1. ASSUME IInv, FullInv PROVE LabelsOfReachableFunctions
    <2> SUFFICES ASSUME pc = "done", NEW f \in DOMAIN image.funcs
                 PROVE  (Started(f) /\ Ended(f))
                          <=> (\E i \in DOMAIN image.segs : InSegment(f, i)) /\ ~ Inside(f)
      BY DEF LabelsOfReachableFunctions
    <2> USE <1>1 DEF IInv, FullInv
    <2>1. ~ in_func
      BY DEF Cursor, Walking
    <2>2. Started(f) => Ended(f)
      BY <2>1 DEF LabelsInv, Started
    <2>3. Started(f) <=> f \in FileAddresses /\ ~ Inside(f) /\ Visited(f)
      BY DEF StartedInv
    <2>4. f \in FileAddresses => Visited(f)
      BY AllPassed DEF Visited
    <2>5. QED
      BY <2>2, <2>3, <2>4, FileAddress
  <1>2. QED
    BY <1>1, Inductive, InductiveFull, PTL

(* No function is left with a part of its prologue: UnwindTranslator's     *)
(* hooks are called at each of the offsets it has recorded.                *)
THEOREM PrologueComplete == Spec => []PrologueReplayed
  <1>1. ASSUME IInv, FullInv PROVE PrologueReplayed
    <2> SUFFICES ASSUME NEW f \in DOMAIN image.unwind, f \in DOMAIN image.funcs,
                        Ended(f), Replayable(f)
                 PROVE  /\ f \in prologued
                        /\ \A d \in image.unwind[f].dirs : <<f, d>> \in replayed
      BY DEF PrologueReplayed
    <2>1. Started(f)
      BY <1>1 DEF IInv, LabelsInv, Ended
    <2>2. \A d \in Marks(f) : Replayed(f, d)
      BY <1>1, <2>1 DEF FullInv, PrologueInv, Annotated
    <2>3. QED
      BY <2>2 DEF Marks, Replayed
  <1>2. QED
    BY <1>1, Inductive, InductiveFull, PTL

(* The position shown by the last .cv_loc is the one there is.             *)
LEMMA LastLocShown ==
  ASSUME TypeOK, LocsInv, NEW f, NEW a, Shown(f, a)
  PROVE  /\ \E l \in locs : l[1] = f /\ l[2] <= a
         /\ LastLoc(f, a)[3].pos = image.lines[a].pos
         /\ image.columnInfo => LastLoc(f, a)[3] = image.lines[a]
  <1>1. PICK l \in locs : /\ l[1] = f /\ LastUpTo(l, a)
                          /\ l[3].pos = image.lines[a].pos
                          /\ image.columnInfo => l[3] = image.lines[a]
    BY DEF Shown
  <1> DEFINE k == LastLoc(f, a)
  <1>2. /\ k \in locs /\ k[1] = f /\ k[2] <= a
        /\ \A m \in locs : m[1] = f /\ m[2] <= a => m[2] <= k[2]
    BY <1>1 DEF LastLoc, LastUpTo
  <1> HIDE DEF k
  <1>3. k[2] = l[2]
    <2>1. k[2] <= l[2] /\ l[2] <= k[2]
      BY <1>1, <1>2 DEF LastUpTo
    <2>2. k[2] \in Nat /\ l[2] \in Nat
      BY <1>2, LocTypes
    <2>3. QED
      BY <2>1, <2>2
  <1>4. k[3] = l[3]
    BY <1>2, <1>3 DEF LocsInv
  <1>5. QED
    BY <1>1, <1>2, <1>4 DEF k, LastUpTo

(* Leaving out repeated positions loses no line (EmitLineLoc).             *)
THEOREM LinesShown == Spec => []LinesPreserved
  <1>1. ASSUME IInv, FullInv PROVE LinesPreserved
    <2>1. \A l \in locs : l[1] # 0 => WithinFunction(l[1], l[2])
      BY <1>1 DEF FullInv, LocsInv
    <2>2. ASSUME NEW p \in placed, NEW f \in DOMAIN image.funcs,
                 p[2] \in DOMAIN image.lines, WithinFunction(f, p[2])
          PROVE  /\ \E l \in locs : l[1] = f /\ l[2] <= p[2]
                 /\ LastLoc(f, p[2])[3].pos = image.lines[p[2]].pos
                 /\ image.columnInfo => LastLoc(f, p[2])[3] = image.lines[p[2]]
      BY <1>1, <2>2, LastLocShown DEF IInv, FullInv, LocsInv
    <2>3. QED
      BY <2>1, <2>2 DEF LinesPreserved
  <1>2. QED
    BY <1>1, Inductive, InductiveFull, PTL

-----------------------------------------------------------------------------
(* The steps of the walk as steps of ObjectSection.                        *)
LEMMA PromiseStutters ==
  ASSUME image' = image, placed' = placed, in_func' = in_func,
         in_func => func_start' = func_start, labels' = labels, Progress' = Progress
  PROVE  UNCHANGED Promise!vars
  <1>1. FileAddresses' = FileAddresses
    BY DEF FileAddresses
  <1>2. OwnBytes' = OwnBytes
    BY DEF OwnBytes, ItemAddresses
  <1>3. OpenRange' = OpenRange /\ ClosedRanges' = ClosedRanges
    BY DEF OpenRange, ClosedRanges
  <1>4. QED
    BY <1>1, <1>2, <1>3 DEF Promise!vars

(* Where a function begins, ObjectSection may open one.                    *)
LEMMA PromiseBegins ==
  ASSUME IInv, FullInv, BeginFunction
  PROVE  Promise!Open(Here) /\ Here \in FileAddresses
  <1>1. /\ Here = lc /\ lc \in Nat /\ Walking /\ pos < Seg.filesz /\ ~ in_func
        /\ image' = image /\ placed' = placed
        /\ in_func' /\ func_start' = Here /\ pc = "scan" /\ pc' = "annotate"
    BY LabelsBegin DEF IInv, TypeOK, BeginFunction, Walking
  <1>2. Here \in FileAddresses
    BY <1>1, HereInFile DEF IInv
  <1>3. FileAddresses' = FileAddresses /\ OwnBytes' = OwnBytes
    BY <1>1 DEF FileAddresses, OwnBytes, ItemAddresses
  <1>4. OpenRange = {} /\ OpenRange' = {Here}
    BY <1>1 DEF OpenRange
  <1>5. Here \notin OwnBytes
    BY <1>1 DEF FullInv, BytesInv
  <1>6. ClosedRanges' = ClosedRanges
    <2> DEFINE s == <<"start", Here, lc>>
    <2>1. labels' = labels \cup {s} /\ s[1] # "end"
      BY DEF BeginFunction
    <2> HIDE DEF s
    <2>2. QED
      BY <2>1 DEF ClosedRanges
  <1>7. \A r \in ClosedRanges : r[2] <= Here
    BY <1>1 DEF ClosedRanges, IInv, LabelsInv
  <1>8. Progress = "emitting" /\ Progress' = "emitting"
    BY <1>1 DEF Progress
  <1>9. QED
    BY <1>2, <1>3, <1>4, <1>5, <1>6, <1>7, <1>8 DEF Promise!Open

(* All of the bytes of the open function are there when it ends.           *)
LEMMA PromiseEnds ==
  ASSUME IInv, FullInv, in_func, EndFunction, pc \in {"scan", "leave"}, pc' = "scan",
         ~ in_func', image' = image, placed' = placed, lc' = lc
  PROVE  /\ func_start \in OpenRange /\ lc - 1 \in OwnBytes
         /\ Promise!Close(func_start, (lc - 1) + 1)
  <1>1. /\ lc \in Nat /\ func_start \in Nat /\ Walking /\ lc = Here /\ pos <= Seg.filesz
        /\ Seg.vaddr <= func_start
    BY DEF IInv, FullInv, TypeOK, Cursor, WalkInv, Walking
  <1>2. func_start < lc
    BY LabelsEnd DEF IInv
  <1>3. /\ Seg.vaddr \in Nat /\ Seg.filesz \in Nat /\ pos \in Nat
        /\ seg \in DOMAIN image.segs
    <2>1. TypeOK /\ ImageType(image)
      BY DEF IInv, TypeOK
    <2>2. QED
      BY SMTT(60), <2>1, SegFacts, ImageFacts DEF TypeOK
  <1>4. \A a \in func_start .. lc - 1 : a \in OwnBytes
    <2> TAKE a \in func_start .. lc - 1
    <2>1. a \in Int /\ func_start <= a /\ a < lc
      BY <1>1
    <2>2. lc = Seg.vaddr + pos
      BY <1>1 DEF Here
    <2>3. Seg.vaddr <= a
      BY <1>1, <1>3, <2>1
    <2>4. a < Seg.vaddr + Seg.filesz
      BY <1>1, <1>3, <2>1, <2>2
    <2>5. a \in FilePart(Seg)
      BY <1>3, <2>1, <2>3, <2>4 DEF FilePart
    <2>6. a \in FileAddresses
      BY <1>3, <2>5 DEF FileAddresses, Seg
    <2>7. QED
      BY <2>1, <2>6 DEF FullInv, BytesInv
  <1>5. lc - 1 \in OwnBytes
    BY <1>1, <1>2, <1>4
  <1>6. OpenRange = {func_start} /\ OpenRange' = {}
    BY DEF OpenRange
  <1>7. ClosedRanges' = ClosedRanges \cup {<<func_start, lc>>}
    <2> DEFINE e == Label("end")
    <2>1. labels' = labels \cup {e}
      BY DEF EndFunction
    <2>2. e[1] = "end" /\ e[2] = func_start /\ e[3] = lc
      BY DEF Label
    <2> HIDE DEF e
    <2>3. QED
      BY <2>1, <2>2 DEF ClosedRanges
  <1>8. FileAddresses' = FileAddresses /\ OwnBytes' = OwnBytes
    BY DEF FileAddresses, OwnBytes, ItemAddresses
  <1>9. Progress = "emitting" /\ Progress' = "emitting"
    BY DEF Progress
  <1>10. (lc - 1) + 1 = lc
    BY <1>1
  <1>11. QED
    BY <1>2, <1>4, <1>5, <1>6, <1>7, <1>8, <1>9, <1>10 DEF Promise!Close

(* A word or a byte that is emitted is one ObjectSection may place.        *)
LEMMA PromisePlaces ==
  ASSUME IInv, FullInv, FullInv', EmitReloc \/ EmitByte
  PROVE  Promise!Place
  <1>1. /\ image' = image /\ labels' = labels /\ in_func' = in_func
        /\ func_start' = func_start /\ pc = "emit" /\ pc' = "leave"
    BY DEF EmitReloc, EmitByte
  <1>2. FileAddresses' = FileAddresses
    BY <1>1 DEF FileAddresses
  <1>3. OwnBytes \subseteq OwnBytes'
    <2>1. placed \subseteq placed'
      BY DEF EmitReloc, EmitByte
    <2>2. \A p : ItemAddresses(p)' = ItemAddresses(p)
      BY DEF ItemAddresses
    <2>3. QED
      BY <2>1, <2>2 DEF OwnBytes
  <1>4. OwnBytes' \subseteq FileAddresses
    BY <1>2 DEF FullInv, BytesInv
  <1>5. OpenRange' = OpenRange /\ ClosedRanges' = ClosedRanges
    BY <1>1 DEF OpenRange, ClosedRanges
  <1>6. Progress = "emitting" /\ Progress' = "emitting"
    BY <1>1 DEF Progress
  <1>7. QED
    BY <1>2, <1>3, <1>4, <1>5, <1>6 DEF Promise!Place

(* Every step of the walk is a step of ObjectSection or none.              *)
LEMMA PromiseStep ==
  ASSUME IInv, FullInv, FullInv', [Next]_vars
  PROVE  [Promise!Next]_(Promise!vars)
  <1>1. CASE BeginSegment
    <2>1. /\ image' = image /\ placed' = placed /\ ~ in_func /\ ~ in_func'
          /\ labels' = labels /\ pc = "segment" /\ pc' \in {"scan", "aborted"}
      BY <1>1 DEF BeginSegment, IInv, Cursor, Walking
    <2>2. CASE pc' = "scan"
      <3>1. Progress' = Progress
        BY <2>1, <2>2 DEF Progress
      <3>2. in_func' = in_func
        BY <1>1, <2>1 DEF BeginSegment, IInv, TypeOK
      <3>3. QED
        BY <2>1, <3>1, <3>2, PromiseStutters
    <2>3. CASE pc' = "aborted"
      <3>1. FileAddresses' = FileAddresses /\ OwnBytes' = OwnBytes
        BY <2>1 DEF FileAddresses, OwnBytes, ItemAddresses
      <3>2. OpenRange = {} /\ OpenRange' = {} /\ ClosedRanges' = ClosedRanges
        BY <2>1 DEF OpenRange, ClosedRanges
      <3>3. Progress = "emitting" /\ Progress' = "truncated"
        BY <2>1, <2>3 DEF Progress
      <3>4. QED
        BY <3>1, <3>2, <3>3 DEF Promise!Next, Promise!GiveUp
    <2>4. QED
      BY <2>1, <2>2, <2>3
  <1>2. CASE CloseOpenFunction
    <2>1. /\ in_func /\ EndFunction /\ pc = "scan" /\ pc' = "scan" /\ ~ in_func'
          /\ image' = image /\ placed' = placed /\ lc' = lc
      BY <1>2 DEF CloseOpenFunction
    <2>2. QED
      BY <2>1, PromiseEnds DEF Promise!Next
  <1>3. CASE LeaveFunction
    <2>1. /\ in_func /\ EndFunction /\ pc = "leave" /\ pc' = "scan" /\ ~ in_func'
          /\ image' = image /\ placed' = placed /\ lc' = lc
      BY <1>3 DEF LeaveFunction
    <2>2. QED
      BY <2>1, PromiseEnds DEF Promise!Next
  <1>4. CASE BeginFunction
    BY <1>4, PromiseBegins DEF Promise!Next
  <1>5. CASE EmitReloc \/ EmitByte
    BY <1>5, PromisePlaces DEF Promise!Next
  <1>6. CASE NoFunctionHere \/ Annotate \/ StayInFunction \/ EndSegment \/ UNCHANGED vars
    <2>1. /\ image' = image /\ placed' = placed /\ in_func' = in_func
          /\ func_start' = func_start /\ labels' = labels
      BY <1>6 DEF NoFunctionHere, Annotate, StayInFunction, EndSegment, vars, translator,
                  assembler
    <2>2. Progress' = Progress
      BY <1>6 DEF NoFunctionHere, Annotate, StayInFunction, EndSegment, vars, translator,
                  Progress
    <2>3. QED
      BY <2>1, <2>2, PromiseStutters
  <1>7. CASE Finish
    <2>1. /\ image' = image /\ placed' = placed /\ in_func' = in_func /\ ~ in_func
          /\ func_start' = func_start /\ labels' = labels
          /\ pc = "segment" /\ pc' = "done" /\ seg > Len(image.segs)
      BY <1>7 DEF Finish, assembler, IInv, Cursor, Walking
    <2>2. OwnBytes = FileAddresses
      <3>1. \A a \in FileAddresses : a < lc
        BY <2>1, AllPassed DEF IInv, FullInv
      <3>2. QED
        BY <3>1 DEF FullInv, BytesInv
    <2>3. FileAddresses' = FileAddresses /\ OwnBytes' = OwnBytes
      BY <2>1 DEF FileAddresses, OwnBytes, ItemAddresses
    <2>4. OpenRange = {} /\ OpenRange' = OpenRange /\ ClosedRanges' = ClosedRanges
      BY <2>1 DEF OpenRange, ClosedRanges
    <2>5. Progress = "emitting" /\ Progress' = "complete"
      BY <2>1 DEF Progress
    <2>6. QED
      BY <2>2, <2>3, <2>4, <2>5 DEF Promise!Next, Promise!Finish
  <1>8. QED
    BY <1>1, <1>2, <1>3, <1>4, <1>5, <1>6, <1>7 DEF Next

(* EmitSections implements what ObjectSection promises: each step of the   *)
(* walk is a step of the abstract section, or none of its state changes.   *)
THEOREM Refines == Spec => KeepsPromise
  <1>1. Init => Promise!Init
    <2> SUFFICES ASSUME Init PROVE Promise!Init
      OBVIOUS
    <2>1. FileAddresses \in SUBSET Nat
      <3>1. TypeOK /\ image \in Images
        BY InitTypes DEF Init
      <3>2. QED
        BY <3>1, FileAddress, FilePartFacts
    <2>2. OwnBytes = {} /\ OpenRange = {} /\ ClosedRanges = {} /\ Progress = "emitting"
      BY DEF Init, OwnBytes, OpenRange, ClosedRanges, Progress
    <2>3. QED
      BY <2>1, <2>2 DEF Promise!Init
  <1>2. IInv /\ FullInv /\ FullInv' /\ [Next]_vars => [Promise!Next]_(Promise!vars)
    BY PromiseStep
  <1>3. QED
    BY <1>1, <1>2, Inductive, InductiveFull, PTL DEF Spec, KeepsPromise, Promise!Spec
=============================================================================
