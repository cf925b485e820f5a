-------------------------- MODULE InlineAnnotations --------------------------
(***************************************************************************)
(* The binary annotations of an inline site, in translate_block_variables: *)
(* the rows of the line table between the first and the last address of    *)
(* the inlined call, as bytes that say how file, line and address change   *)
(* from row to row, beginning with the call's.                             *)
(*                                                                         *)
(* Numbers and bytes are those of the format, so that its boundaries are   *)
(* where they are: operands of one, two and four bytes, and an opcode that *)
(* holds both a small line delta and a small code delta.                   *)
(***************************************************************************)
EXTENDS Integers, SequencesExt

CONSTANTS
  RangeSets,   (* Sets of ranges <<LowPC, HighPC>> an inlined call may have.*)
  Addresses,   (* Addresses that may have a row, also outside the ranges.  *)
  Files,       (* File indexes, counted from 1.                            *)
  Lines,
  Calls,       (* Pairs <<call_file_global_idx, call_line>>.               *)
  MaxRows      (* Bound: the rows of the line table.                       *)

(* Finitely many ranges, none of them at 0, which stands for no address.   *)
SitesType ==
  /\ \A rs \in RangeSets :
       rs # {} /\ IsFiniteSet(rs) /\ \A r \in rs : r \in Nat \X Nat /\ 0 < r[1] /\ r[1] <= r[2]
  /\ Addresses \subseteq Nat /\ Files \subseteq Nat \ {0} /\ Lines \subseteq Nat
  /\ \A c \in Calls : c[1] \in Nat \ {0} /\ c[2] \in Nat
  /\ MaxRows \in Nat

VARIABLES
  ranges,
  call,
  rows,         (* m_addrToLineMap: address -> [file, line].               *)
  it,           (* Addresses of the rows that are still to be read.        *)
  annotations,
  last,         (* last_addr, last_file and last_line.                     *)
  open_range,
  done

vars == <<ranges, call, rows, it, annotations, last, open_range, done>>

Position(addr, file, line) == [addr |-> addr, file |-> file, line |-> line]

Low(rs)  == CHOOSE a \in { r[1] : r \in rs } : \A r \in rs : a <= r[1]
High(rs) == CHOOSE a \in { r[2] : r \in rs } : \A r \in rs : a >= r[2]

InRange(a) == a >= Low(ranges) /\ a < High(ranges)

Init ==
  /\ ranges \in RangeSets
  /\ call \in Calls
  /\ \E S \in { T \in SUBSET Addresses : Cardinality(T) <= MaxRows } :
       rows \in [S -> [file: Files, line: Lines]]
  /\ it = { a \in DOMAIN rows : InRange(a) }
  /\ annotations = << >>
  /\ last = Position(Low(ranges), call[1], call[2])
  /\ open_range = FALSE /\ done = FALSE

-----------------------------------------------------------------------------
ChangeCodeOffset == 3
ChangeCodeLength == 4
ChangeFile == 5
ChangeLineOffset == 6
ChangeCodeOffsetAndLineOffset == 11

(* write_compressed_u32                                                    *)
U32(val) ==
  IF val < 128 THEN <<val>>
  ELSE IF val < 16384 THEN <<128 + val \div 256, val % 256>>
  ELSE <<192 + ((val \div 16777216) % 64), (val \div 65536) % 256, (val \div 256) % 256, val % 256>>

(* write_compressed_s32 writes this; its sign is the lowest bit.           *)
Signed(val) == IF val < 0 THEN 2 * (0 - val) + 1 ELSE 2 * val

(* Faulty: one more than four bits hold counts as small.                   *)
SmallByOne(line_delta, code_delta) == Signed(line_delta) < 8 /\ code_delta <= 16

Small(line_delta, code_delta) == Signed(line_delta) < 8 /\ code_delta <= 15

(* Operands fit the four bytes that the format has at most for them: files,*)
(* line deltas and lengths of sites are below 2^30 as they are written.    *)
FourByteLimit == 1073741824

Encodable ==
  /\ \A f \in Files : (f - 1) * 8 < FourByteLimit
  /\ \A l \in Lines : \A m \in Lines \cup { c[2] : c \in Calls } : Signed(l - m) < FourByteLimit
  /\ \A rs \in RangeSets : High(rs) - Low(rs) < FourByteLimit

FileChange(file) ==
  IF file = last.file THEN << >> ELSE U32(ChangeFile) \o U32((file - 1) * 8)

(* Nothing for no change at all, as for a first row that is the call's.    *)
Move(line_delta, code_delta) ==
  IF line_delta = 0 /\ code_delta = 0 THEN << >>
  ELSE IF Small(line_delta, code_delta)
    THEN U32(ChangeCodeOffsetAndLineOffset) \o U32(Signed(line_delta) * 16 + code_delta)
  ELSE (IF line_delta = 0 THEN << >> ELSE U32(ChangeLineOffset) \o U32(Signed(line_delta)))
       \o (IF code_delta = 0 THEN << >> ELSE U32(ChangeCodeOffset) \o U32(code_delta))

NextAddr == CHOOSE a \in it : \A b \in it : a <= b

RepeatedRow ==
  /\ open_range /\ rows[NextAddr].file = last.file /\ rows[NextAddr].line = last.line

SkipRow ==
  /\ it # {} /\ RepeatedRow
  /\ it' = it \ {NextAddr}
  /\ UNCHANGED <<ranges, call, rows, annotations, last, open_range, done>>

EncodeRow ==
  /\ it # {} /\ ~RepeatedRow
  /\ LET row == rows[NextAddr]
     IN  /\ annotations' = annotations \o FileChange(row.file)
                             \o Move(row.line - last.line, NextAddr - last.addr)
         /\ last' = Position(NextAddr, row.file, row.line)
  /\ it' = it \ {NextAddr}
  /\ open_range' = TRUE
  /\ UNCHANGED <<ranges, call, rows, done>>

CloseRange ==
  /\ it = {} /\ ~done /\ done' = TRUE
  /\ annotations' = IF open_range
                      THEN annotations \o U32(ChangeCodeLength) \o U32(High(ranges) - last.addr)
                      ELSE annotations
  /\ UNCHANGED <<ranges, call, rows, it, last, open_range>>

Next == SkipRow \/ EncodeRow \/ CloseRange

Spec == Init /\ [][Next]_vars

-----------------------------------------------------------------------------
(* The annotations are bytes, and the last row is in the site.             *)
TypeOK ==
  /\ ranges \in RangeSets /\ call \in Calls
  /\ DOMAIN rows \subseteq Addresses /\ it \subseteq DOMAIN rows
  /\ annotations \in Seq(0 .. 255)
  /\ last.addr \in Low(ranges) .. High(ranges)
  /\ open_range \in BOOLEAN /\ done \in BOOLEAN

(* A reader of annotations (external).  An operand's first byte tells how  *)
(* many it has, up to four; an annotation is an opcode and an operand.     *)
Operand(bytes, p) ==
  IF bytes[p] < 128 THEN [val |-> bytes[p], next |-> p + 1]
  ELSE IF bytes[p] < 192
    THEN [val |-> (bytes[p] - 128) * 256 + bytes[p + 1], next |-> p + 2]
  ELSE [val  |-> (bytes[p] - 192) * 16777216 + bytes[p + 1] * 65536
                   + bytes[p + 2] * 256 + bytes[p + 3],
        next |-> p + 4]

Annotations(bytes) ==
  LET from[p \in 1 .. Len(bytes) + 8] ==
        IF p > Len(bytes) THEN << >>
        ELSE LET op  == Operand(bytes, p)
                 arg == Operand(bytes, op.next)
             IN  << [op |-> op.val, arg |-> arg.val] >> \o from[arg.next]
  IN  from[1]

Line(n) == IF n % 2 = 1 THEN 0 - n \div 2 ELSE n \div 2

(* File and line changes are kept until the address changes, if only by 0: *)
(* that begins a row.                                                      *)
MoveBy(state, code, line) ==
  LET p == Position(state.at.addr + code, state.at.file, state.at.line + line)
  IN  [at |-> p, rows |-> Append(state.rows, p)]

Read(state, a) ==
  CASE a.op = ChangeFile       -> [state EXCEPT !.at.file = a.arg \div 8 + 1]
    [] a.op = ChangeLineOffset -> [state EXCEPT !.at.line = @ + Line(a.arg)]
    [] a.op = ChangeCodeOffset -> MoveBy(state, a.arg, 0)
    [] a.op = ChangeCodeOffsetAndLineOffset -> MoveBy(state, a.arg % 16, Line(a.arg \div 16))
    [] OTHER -> state

Decoded ==
  LET read == Annotations(annotations)
      after[n \in 0 .. Len(read)] ==
        IF n = 0 THEN [at |-> Position(Low(ranges), call[1], call[2]), rows |-> << >>]
                 ELSE Read(after[n - 1], read[n])
  IN  after[Len(read)]

(* The row of an address, in the line table and among those read.          *)
RowBefore(addr) ==
  LET before == { a \in DOMAIN rows : InRange(a) /\ a <= addr }
  IN  CHOOSE a \in before : \A b \in before : b <= a

RowRead(addr) ==
  LET before == { i \in DOMAIN Decoded.rows : Decoded.rows[i].addr <= addr }
  IN  Decoded.rows[CHOOSE i \in before : \A j \in before : j <= i]

(* A row at the first address changes no address.  It begins a row for a   *)
(* reader only if its line is up to three lines from the call's, and not   *)
(* the same; else neither it nor the rows that repeat it do.               *)
Begins(addr) ==
  LET started == { a \in DOMAIN rows : /\ InRange(a) /\ a <= addr
                                       /\ \A b \in DOMAIN rows :
                                            b \in a .. addr => rows[b] = rows[addr] }
      first   == CHOOSE a \in started : \A b \in started : a <= b
  IN  first > Low(ranges) \/ (rows[first].line # call[2] /\ Small(rows[first].line - call[2], 0))

(* Read from the call's position and the site's first address on, the      *)
(* annotations give every address the file and the line of the row it      *)
(* belongs to, also those in gaps of the site, and end where the site ends.*)
RowsReadBack ==
  done /\ open_range =>
    /\ \A a \in { b \in Addresses : InRange(b) } :
         (\E b \in DOMAIN rows : InRange(b) /\ b <= a) /\ Begins(RowBefore(a)) =>
           [file |-> RowRead(a).file, line |-> RowRead(a).line] = rows[RowBefore(a)]
    /\ LET end == Last(Annotations(annotations))
       IN  end.op = ChangeCodeLength /\ Decoded.at.addr + end.arg = High(ranges)
=============================================================================
