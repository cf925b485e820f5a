-------------------------- MODULE MCSectionEmitter --------------------------
(***************************************************************************)
(* The images on which TLC checks SectionEmitter: two segments, the second *)
(* with a zero-filled tail, words of two bytes (one of them begins in the  *)
(* hole between the segments, where no word is), at most two functions at  *)
(* or between the interesting addresses (the start of a segment, a byte    *)
(* inside it, the inside of a relocated word, a hole, the zero-filled      *)
(* tail), with sizes from 0 to past the end of the segment.                *)
(***************************************************************************)
EXTENDS SectionEmitter, FiniteSets

MCLineInfo == [pos: {1, 2}, col: {0, 1}]

Layouts ==
  { << [vaddr |-> 0, filesz |-> 4, memsz |-> 4, ok |-> TRUE],
       [vaddr |-> 6, filesz |-> 3, memsz |-> 4, ok |-> okB] >> : okB \in BOOLEAN }

Starts == { 0, 1, 3, 6, 8, 9 }

Functions == UNION { [S -> {0, 2, 3}] : S \in { T \in SUBSET Starts : Cardinality(T) <= 2 } }

(* No function, every function, or only one in the first two bytes has     *)
(* unwind information.                                                     *)
Prologue(D, last) == [dirs |-> D, end |-> last]

Unwinds(funcs) ==
  { << >> } \cup { [f \in DOMAIN funcs |-> p]
                   : p \in { Prologue({1}, 1), Prologue({0, 2}, 2), Prologue({0}, 1) } }
    \cup { [f \in DOMAIN funcs \cap {0, 1} |-> Prologue({0}, 0)] }

Rows(pattern) == [a \in DOMAIN pattern |-> [pos |-> pattern[a], col |-> a % 2]]

LineTables == { Rows([a \in {0, 1, 2, 3, 7} |-> IF a < 2 THEN 1 ELSE 2]),
                Rows([a \in {1, 2, 3, 6, 8} |-> IF a = 2 THEN 2 ELSE 1]) }

MCImages ==
  UNION { { [segs |-> s, funcs |-> f, relocs |-> r, unwind |-> u, lines |-> l,
             columnInfo |-> c]
            : u \in Unwinds(f), l \in LineTables, c \in BOOLEAN, s \in Layouts,
              r \in { {}, {1, 7}, {2, 5} } } : f \in Functions }
=============================================================================
