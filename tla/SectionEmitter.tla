--------------------------- MODULE SectionEmitter ---------------------------
(***************************************************************************)
(* TranslatorImpl::EmitSections: the walk that turns the PT_LOAD segments  *)
(* of an ELF image into one COFF section of assembly, byte by byte, and    *)
(* the hooks it calls at every address (UnwindTranslator::EmitSeh*,        *)
(* LineTranslator::EmitLineLoc).                                           *)
(*                                                                         *)
(* The first group of variables is the state of the translator.  The       *)
(* second is the state of the assembler that reads the output: a directive *)
(* is modelled by what it makes the assembler do, so that "the output is   *)
(* right" can be said of the object file and not of the text.              *)
(*                                                                         *)
(* An image is what Load has read; see ImageType for its fields.           *)
(***************************************************************************)
EXTENDS Integers, Sequences

CONSTANTS
  Images,     (* The set of images to translate.                           *)
  PtrSize,    (* sizeof(ELFT::uint), the width of a relocated pointer.     *)
  LineInfo    (* Source positions: records of a pos (file and line) and a  *)
              (* col (column).                                             *)

(***************************************************************************)
(* segs:       the PT_LOAD headers in table order; ok says whether         *)
(*             getSegmentContents succeeds.                                *)
(* funcs:      m_elfFunctions, start address -> st_size.                   *)
(* relocs:     the offsets GetElfRelocations returns.                      *)
(* unwind:     m_unwindInfo (dirs, the offsets of the SEH directives) and  *)
(*             m_prologueEnds (end, where the prologue ends), by           *)
(*             function start.                                             *)
(* lines:      m_addrToLineMap, address -> source position.                *)
(* columnInfo: m_columnInfo.                                               *)
(***************************************************************************)
Segment == [vaddr: Nat, filesz: Nat, memsz: Nat, ok: BOOLEAN]

ImageType(img) ==
  /\ img.segs \in Seq(Segment)
  /\ img.funcs \in [DOMAIN img.funcs -> Nat] /\ DOMAIN img.funcs \subseteq Nat
  /\ img.relocs \subseteq Nat
  /\ DOMAIN img.unwind \subseteq Nat
  /\ img.unwind \in [DOMAIN img.unwind -> [dirs: SUBSET Nat, end: Nat]]
  /\ img.lines \in [DOMAIN img.lines -> LineInfo] /\ DOMAIN img.lines \subseteq Nat
  /\ img.columnInfo \in BOOLEAN

(***************************************************************************)
(* What a loadable ELF file guarantees: PT_LOAD segments ascend and do not *)
(* overlap (so that .org never moves backwards), and the words that        *)
(* dynamic relocations patch lie inside the file part of one segment and   *)
(* do not overlap.  The last conjunct is what every backend's              *)
(* TranslateUnwindInfo returns (CfiX8664 proves it of one); the ARM        *)
(* backends also move the end at a save that yields no directive.          *)
(***************************************************************************)
WellFormed(img) ==
  /\ \A i \in DOMAIN img.segs : img.segs[i].filesz <= img.segs[i].memsz
  /\ \A i, j \in DOMAIN img.segs :
       i < j => img.segs[i].vaddr + img.segs[i].memsz <= img.segs[j].vaddr
  /\ \A i \in DOMAIN img.segs, r \in img.relocs :
       LET s == img.segs[i]
       IN  r \in s.vaddr .. s.vaddr + s.filesz - 1 => r + PtrSize <= s.vaddr + s.filesz
  /\ \A r, q \in img.relocs : r < q => r + PtrSize <= q
  /\ \A f \in DOMAIN img.unwind :
       LET u == img.unwind[f] IN u.dirs # {} /\ \A d \in u.dirs : d <= u.end

ASSUME PtrSizeAssumption == PtrSize \in Nat \ {0}
ASSUME LineInfoAssumption == LineInfo \subseteq [pos: Nat \ {0}, col: Nat]
ASSUME ImagesAssumption == \A img \in Images : ImageType(img) /\ WellFormed(img)

VARIABLES
  image,       (* What Load has read; never changes.                        *)
  pc,          (* Where in EmitSections the translator is.                  *)
  seg,         (* Index of the current program header.                      *)
  pos,         (* Offset in the current segment.                            *)
  in_func,     (* current_func # nullptr.                                   *)
  func_start,  (* func_start_addr: 0 outside of every function.             *)
  last_line    (* m_lastEmittedLine: function start -> position.            *)

VARIABLES
  lc,          (* The location counter of section .elf.                     *)
  labels,      (* Code labels defined so far: <<kind, function, location>>. *)
  placed,      (* Items emitted: <<location, source address, width>>.       *)
  procs,       (* Functions whose .seh_proc is open.                        *)
  replayed,    (* SEH directives accepted: <<function, offset>>.            *)
  prologued,   (* Functions whose .seh_endprologue has been seen.           *)
  locs,        (* .cv_loc directives: <<function, location, LineInfo>>.     *)
  errors       (* Diagnostics of the assembler.                             *)

translator == <<image, pc, seg, pos, in_func, func_start, last_line>>
assembler  == <<lc, labels, placed, procs, replayed, prologued, locs, errors>>
vars       == <<translator, assembler>>

-----------------------------------------------------------------------------
Seg         == image.segs[seg]
Here        == Seg.vaddr + pos                  \* current_vaddr
FunctionAt  == Here \in DOMAIN image.funcs      \* func_it != end()
RelocHere   == Here \in image.relocs            \* matched_reloc != nullptr
HasUnwind   == func_start \in DOMAIN image.unwind
NoPosition  == 0     \* a value-initialised LineInfo: file indexes start at 1
Unwind      == image.unwind[func_start]

(* Faulty: func_start_addr keeps the last function.                        *)
StaleStart == func_start

OutsideStart == 0    \* func_start_addr where current_func is null

(* Faulty: the loop looks again at the bytes of a relocated word.          *)
StepOneByte == 1

Step == IF RelocHere THEN PtrSize ELSE 1

Init ==
  /\ image \in Images
  /\ pc = "segment" /\ seg = 1 /\ pos = 0
  /\ in_func = FALSE /\ func_start = 0
  /\ last_line = [f \in DOMAIN image.funcs |-> NoPosition]
  /\ lc = 0 /\ labels = {} /\ placed = {} /\ locs = {}
  /\ procs = {} /\ replayed = {} /\ prologued = {} /\ errors = {}

-----------------------------------------------------------------------------
(* Directives of the assembler.                                            *)

Org(target, diagnostic) ==
  /\ lc' = IF target < lc THEN lc ELSE target
  /\ errors' = errors \cup (IF target < lc THEN {diagnostic} ELSE {})

Label(kind) == <<kind, func_start, lc>>

Redefined(kind, f) == \E l \in labels : l[1] = kind /\ l[2] = f

-----------------------------------------------------------------------------
(* .org __elf_base + p_vaddr and the segment's label; unreadable contents  *)
(* make EmitSections return.                                               *)
BeginSegment ==
  /\ pc = "segment" /\ seg <= Len(image.segs)
  /\ Org(Seg.vaddr, "org")
  /\ pc' = IF Seg.ok THEN "scan" ELSE "aborted"
  /\ pos' = 0
  /\ in_func' = FALSE
  /\ func_start' = OutsideStart
  /\ UNCHANGED <<image, seg, last_line,
                 labels, placed, procs, replayed, prologued, locs>>

(* Faulty: the label without EmitSehProcEnd.                               *)
EndFunctionLabelOnly ==
  /\ labels' = labels \cup {Label("end")}
  /\ UNCHANGED <<procs, errors>>

(* EmitSehProcEnd and func_code_end_<name>, at both places of the loop.    *)
EndFunction ==
  /\ labels' = labels \cup {Label("end")}
  /\ procs' = procs \ {func_start}
  /\ errors' = errors \cup
       (IF Redefined("end", func_start) THEN {"label"} ELSE {}) \cup
       (IF HasUnwind /\ func_start \notin procs THEN {"endproc"} ELSE {})

(* A function starts at this address while another one is still open.      *)
CloseOpenFunction ==
  /\ pc = "scan" /\ pos < Seg.filesz /\ FunctionAt
  /\ in_func
  /\ EndFunction
  /\ in_func' = FALSE
  /\ UNCHANGED <<image, pc, seg, pos, func_start, last_line,
                 lc, placed, replayed, prologued, locs>>

(* Faulty: a scope for every function, whatever is known of its stack.     *)
OpensProcAlways(f) == TRUE

OpensProc(f) == f \in DOMAIN image.unwind    \* EmitSehProcBegin

(* func_code_start_<name>, .cv_func_id and EmitSehProcBegin.               *)
BeginFunction ==
  /\ pc = "scan" /\ pos < Seg.filesz /\ FunctionAt
  /\ ~ in_func
  /\ in_func' = TRUE
  /\ func_start' = Here
  /\ labels' = labels \cup {<<"start", Here, lc>>}
  /\ procs' = IF OpensProc(Here) THEN procs \cup {Here} ELSE procs
  /\ errors' = errors \cup
       (IF Redefined("start", Here) THEN {"label"} ELSE {}) \cup
       (IF OpensProc(Here) /\ procs # {} THEN {"nested"} ELSE {})
  /\ pc' = "annotate"
  /\ UNCHANGED <<image, seg, pos, last_line, lc, placed, replayed, prologued, locs>>

(* Faulty: outside of functions the loop continues without moving on.      *)
NoFunctionHereContinue ==
  /\ pc = "scan" /\ pos < Seg.filesz /\ ~ FunctionAt
  /\ pc' = IF in_func THEN "annotate" ELSE "scan"
  /\ UNCHANGED <<image, seg, pos, in_func, func_start, last_line, assembler>>

NoFunctionHere ==
  /\ pc = "scan" /\ pos < Seg.filesz /\ ~ FunctionAt
  /\ pc' = "annotate"
  /\ UNCHANGED <<image, seg, pos, in_func, func_start, last_line, assembler>>

(* EmitSehPrologue: the directives recorded for this offset of the open    *)
(* function, then .seh_endprologue at the recorded end of the prologue.    *)
EmitSehPrologue ==
  LET offset == Here - func_start
      active == in_func /\ HasUnwind
      again  == func_start \in prologued
  IN  /\ replayed' = IF active /\ offset \in Unwind.dirs
                       THEN replayed \cup {<<func_start, offset>>} ELSE replayed
      /\ prologued' = IF active /\ offset = Unwind.end
                        THEN prologued \cup {func_start} ELSE prologued
      /\ errors' = IF active /\ offset \in Unwind.dirs
                         /\ (func_start \notin procs \/ again)
                     THEN errors \cup {"prologue"} ELSE errors

(* Faulty: one last position for all functions.                            *)
RememberForAll(p) == [f \in DOMAIN last_line |-> p]

Remember(p) == [last_line EXCEPT ![func_start] = p]

(* EmitLineLoc: a row of the line table becomes a .cv_loc of the function  *)
(* whose start is func_start_addr (0 outside of every function), unless    *)
(* columns are off and the function's last position is the same one.       *)
EmitLineLoc ==
  LET here == image.lines[Here]
      emit == /\ Here \in DOMAIN image.lines
              /\ func_start \in DOMAIN image.funcs
              /\ image.columnInfo \/ last_line[func_start] # here.pos
  IN  /\ locs' = IF emit THEN locs \cup {<<func_start, lc, here>>} ELSE locs
      /\ last_line' = IF emit /\ ~ image.columnInfo
                        THEN Remember(here.pos) ELSE last_line

Annotate ==
  /\ pc = "annotate"
  /\ EmitSehPrologue
  /\ EmitLineLoc
  /\ pc' = "emit"
  /\ UNCHANGED <<image, seg, pos, in_func, func_start, lc, labels, placed, procs>>

(* A relocated word: .org to the position, one pointer, and the loop goes  *)
(* on behind it, whatever starts at the addresses in between.              *)
EmitReloc ==
  /\ pc = "emit" /\ RelocHere
  /\ LET target == IF Here < lc THEN lc ELSE Here
     IN  /\ placed' = placed \cup {<<target, Here, PtrSize>>}
         /\ lc' = target + PtrSize
         /\ errors' = errors \cup (IF Here < lc THEN {"org"} ELSE {})
  /\ pos' = pos + Step
  /\ pc' = "leave"
  /\ UNCHANGED <<image, seg, in_func, func_start, last_line,
                 labels, procs, replayed, prologued, locs>>

EmitByte ==
  /\ pc = "emit" /\ ~ RelocHere
  /\ placed' = placed \cup {<<lc, Here, 1>>}
  /\ lc' = lc + 1
  /\ pos' = pos + Step
  /\ pc' = "leave"
  /\ UNCHANGED <<image, seg, in_func, func_start, last_line,
                 labels, procs, replayed, prologued, locs, errors>>

(* Faulty: an off-by-one, and the end of the segment forgotten.            *)
ExitedFunctionEarly ==
  Here + 1 - func_start >= image.funcs[func_start] \/ pos >= Seg.filesz

ExitedFunctionBySizeOnly ==
  Here - func_start >= image.funcs[func_start]

ExitedFunction ==
  Here - func_start >= image.funcs[func_start] \/ pos >= Seg.filesz

LeaveFunction ==
  /\ pc = "leave" /\ in_func /\ ExitedFunction
  /\ EndFunction
  /\ in_func' = FALSE
  /\ func_start' = OutsideStart
  /\ pc' = "scan"
  /\ UNCHANGED <<image, seg, pos, last_line, lc, placed, replayed, prologued, locs>>

StayInFunction ==
  /\ pc = "leave" /\ ~ (in_func /\ ExitedFunction)
  /\ pc' = "scan"
  /\ UNCHANGED <<image, seg, pos, in_func, func_start, last_line, assembler>>

(* Behind the last byte of the file part: .org over the zero-filled rest.  *)
EndSegment ==
  /\ pc = "scan" /\ pos >= Seg.filesz
  /\ IF Seg.memsz > Seg.filesz
       THEN Org(Seg.vaddr + Seg.memsz, "org")
       ELSE UNCHANGED <<lc, errors>>
  /\ seg' = seg + 1
  /\ pc' = "segment"
  /\ UNCHANGED <<image, pos, in_func, func_start, last_line,
                 labels, placed, procs, replayed, prologued, locs>>

Finish ==
  /\ pc = "segment" /\ seg > Len(image.segs)
  /\ pc' = "done"
  /\ UNCHANGED <<image, seg, pos, in_func, func_start, last_line, assembler>>

Next ==
  \/ BeginSegment
  \/ CloseOpenFunction
  \/ BeginFunction
  \/ NoFunctionHere
  \/ Annotate
  \/ EmitReloc
  \/ EmitByte
  \/ LeaveFunction
  \/ StayInFunction
  \/ EndSegment
  \/ Finish

Spec == Init /\ [][Next]_vars

(* The translator is one sequential thread that nothing blocks.            *)
FairSpec == Spec /\ WF_vars(Next)

-----------------------------------------------------------------------------
FilePart(s) == s.vaddr .. s.vaddr + s.filesz - 1

(* The index of the segment whose file part the address a is in.           *)
InSegment(a, i) == i \in DOMAIN image.segs /\ a \in FilePart(image.segs[i])

FileAddresses == UNION { FilePart(image.segs[i]) : i \in DOMAIN image.segs }

(* Addresses the walk stops at: every address of the file part but those   *)
(* inside a relocated word.  A word outside of the file part is not one:   *)
(* the walk never comes to it.                                             *)
Inside(a) == \E r \in image.relocs \cap FileAddresses : r < a /\ a < r + PtrSize

(* The section holds its own byte at an address when the item placed there *)
(* came from there.                                                        *)
ItemAddresses(p) == IF p[1] = p[2] THEN p[1] .. p[1] + p[3] - 1 ELSE {}

OwnBytes     == UNION { ItemAddresses(p) : p \in placed }
OpenRange    == IF in_func THEN {func_start} ELSE {}
ClosedRanges == { <<l[2], l[3]>> : l \in { m \in labels : m[1] = "end" } }
Progress     == CASE pc = "done"    -> "complete"
                  [] pc = "aborted" -> "truncated"
                  [] OTHER          -> "emitting"

Promise == INSTANCE ObjectSection WITH
  file <- FileAddresses, mem <- OwnBytes, open <- OpenRange, ranges <- ClosedRanges,
  status <- Progress

(* EmitSections keeps the promise of ObjectSection: all file bytes, and    *)
(* function ranges that are opened and closed one at a time.               *)
KeepsPromise == Promise!Spec

Started(f) == \E l \in labels : l[1] = "start" /\ l[2] = f
Ended(f)   == \E l \in labels : l[1] = "end" /\ l[2] = f

(* The state has the shape the code's declarations give it.                *)
TypeOK ==
  /\ ImageType(image)
  /\ pc \in {"segment", "scan", "annotate", "emit", "leave", "done", "aborted"}
  /\ seg \in 1 .. Len(image.segs) + 1
  /\ pc \in {"scan", "annotate", "emit", "leave", "aborted"} => seg <= Len(image.segs)
  /\ pos \in Nat
  /\ in_func \in BOOLEAN
  /\ func_start \in Nat
  /\ in_func => func_start \in DOMAIN image.funcs
  /\ last_line \in [DOMAIN image.funcs -> Nat]
  /\ lc \in Nat
  /\ labels \subseteq {"start", "end"} \X (DOMAIN image.funcs) \X Nat
  /\ placed \subseteq Nat \X Nat \X {1, PtrSize}
  /\ procs \subseteq DOMAIN image.unwind
  /\ replayed \subseteq (DOMAIN image.unwind) \X Nat
  /\ prologued \subseteq DOMAIN image.unwind
  /\ locs \subseteq (DOMAIN image.funcs) \X Nat \X LineInfo
  /\ errors \subseteq {"org", "label", "endproc", "nested", "prologue"}

(* The assembler takes everything: no .org moves the location counter      *)
(* backwards, no code label is defined twice, every .seh_proc is closed    *)
(* before the next opens, and no SEH directive falls outside of a prologue.*)
AssemblerAccepts == errors = {}

(* Every byte and every relocated word of the file lands at the section    *)
(* offset that is its virtual address, whatever the walk skipped before    *)
(* it; and no two items share an address.                                  *)
LayoutFaithful ==
  /\ \A p \in placed : p[1] = p[2]
  /\ \A p, q \in placed : p # q => p[1] + p[3] <= q[1] \/ q[1] + q[3] <= p[1]

(* The code ranges .cv_linetable is given (func_code_start_F up to         *)
(* func_code_end_F) begin at the function, are not empty, do not overlap,  *)
(* and are all closed, with no .seh_proc left open, once a segment ends.   *)
CodeRangesDisjoint ==
  /\ \A l \in labels : l[1] = "start" => l[3] = l[2]
  /\ \A l \in labels : l[1] = "end" => l[2] < l[3] /\ Started(l[2])
  /\ \A l, m \in labels :
       l[1] = "end" /\ m[1] = "start" => m[3] <= l[2] \/ l[3] <= m[3]
  /\ pc \in {"segment", "done", "aborted"} =>
       procs = {} /\ \A l \in labels : Ended(l[2])

(* What EmitCodeviewSymbolTable relies on when it names the two labels of  *)
(* every function: after a complete walk a function has them exactly when  *)
(* it starts in the file part of a segment and not inside a relocated word.*)
LabelsOfReachableFunctions ==
  pc = "done" => \A f \in DOMAIN image.funcs :
     (Started(f) /\ Ended(f))
       <=> (\E i \in DOMAIN image.segs : InSegment(f, i)) /\ ~ Inside(f)

(* A function with unwind information that is walked to its end has had    *)
(* all its directives and .seh_endprologue, provided each recorded offset  *)
(* is an address of the function at which the walk stops.                  *)
Replayable(f) ==
  \A d \in image.unwind[f].dirs \cup {image.unwind[f].end} :
    /\ d = 0 \/ d < image.funcs[f]
    /\ ~ Inside(f + d)
    /\ \E i \in DOMAIN image.segs : InSegment(f, i) /\ InSegment(f + d, i)
    /\ \A g \in DOMAIN image.funcs : ~ (f < g /\ g <= f + d /\ ~ Inside(g))

PrologueReplayed ==
  \A f \in DOMAIN image.unwind :
    (f \in DOMAIN image.funcs /\ Ended(f) /\ Replayable(f)) =>
      /\ f \in prologued
      /\ \A d \in image.unwind[f].dirs : <<f, d>> \in replayed

LastLoc(f, a) ==
  CHOOSE l \in locs : l[1] = f /\ l[2] <= a
                      /\ \A m \in locs : m[1] = f /\ m[2] <= a => m[2] <= l[2]

WithinFunction(f, a) ==
  /\ Started(f) /\ f <= a
  /\ \A e \in labels : e[1] = "end" /\ e[2] = f => a < e[3]

(* Every .cv_loc is in the code of its function (but for function 0: that  *)
(* is func_start_addr outside of every function, and the address of an     *)
(* undefined one), and dropping repeated positions loses no line: at each  *)
(* address the walk stopped at inside a function, the last .cv_loc of that *)
(* function at or before the address gives the file and line of the        *)
(* address's row (and its column when columns are on).                     *)
LinesPreserved ==
  /\ \A l \in locs : l[1] # 0 => WithinFunction(l[1], l[2])
  /\ \A p \in placed, f \in DOMAIN image.funcs :
       p[2] \in DOMAIN image.lines /\ WithinFunction(f, p[2])
       => /\ \E l \in locs : l[1] = f /\ l[2] <= p[2]
          /\ LET shown == LastLoc(f, p[2])[3]
             IN  /\ shown.pos = image.lines[p[2]].pos
                 /\ image.columnInfo => shown = image.lines[p[2]]

(* EmitSections returns: its only loop moves forward at each turn.         *)
Termination == <>(pc \in {"done", "aborted"})
=============================================================================
