---------------------------- MODULE UnwindProofs ----------------------------
(***************************************************************************)
(* Proofs about Unwind and its three backends, for call-frame programs of  *)
(* any length over any offsets, slots and registers: x86_64, whose         *)
(* directives are written at once, then the second passes of aarch64 and   *)
(* arm, then the choice between them.                                      *)
(***************************************************************************)
EXTENDS Unwind, FiniteSetTheorems, SequenceTheorems, WellFoundedInduction, TLAPS

(* Directives in code order, none of them beyond the offset o.             *)
Ordered(dirs, o) ==
  /\ \A i, j \in DOMAIN dirs : i < j => dirs[i].off <= dirs[j].off
  /\ \A i \in DOMAIN dirs : dirs[i].off <= o

OrderInv ==
  /\ Ordered(directives, current_offset)
  /\ directives # << >> => directives[Len(directives)].off = last_prologue_offset

(* The maximum is one of the CFA offsets so far, and none is larger.       *)
FrameInv ==
  LET depths == {Initial} \cup { changes[i][2] : i \in DOMAIN changes }
  IN  /\ max_cfa_offset \in depths
      /\ \A n \in depths : n <= max_cfa_offset
      /\ result # NotYet => result.frameSize = max_cfa_offset - Initial

-----------------------------------------------------------------------------
(* RemoveAt keeps the elements, in their order.                            *)
LEMMA RemoveAtElements ==
  ASSUME NEW S, NEW s \in Seq(S), NEW i \in 1 .. Len(s)
  PROVE  /\ RemoveAt(s, i) \in Seq(S)
         /\ Len(RemoveAt(s, i)) = Len(s) - 1
         /\ \A k \in 1 .. Len(s) - 1 :
              RemoveAt(s, i)[k] = IF k < i THEN s[k] ELSE s[k + 1]
  <1> DEFINE a == SubSeq(s, 1, i - 1)
             b == SubSeq(s, i + 1, Len(s))
  <1> Len(s) \in Nat /\ \A k \in 1 .. Len(s) : s[k] \in S
    OBVIOUS
  <1>1. a \in Seq(S) /\ Len(a) = i - 1 /\ \A k \in 1 .. i - 1 : a[k] = s[k]
    BY SubSeqProperties
  <1>2. b \in Seq(S) /\ Len(b) = Len(s) - i /\ \A k \in 1 .. Len(s) - i : b[k] = s[k + i]
    OBVIOUS
  <1>3. RemoveAt(s, i) = a \o b
    BY DEF RemoveAt
  <1> HIDE DEF a, b
  <1>4. /\ a \o b \in Seq(S) /\ Len(a \o b) = Len(a) + Len(b)
        /\ \A k \in 1 .. Len(a) + Len(b) :
             (a \o b)[k] = IF k <= Len(a) THEN a[k] ELSE b[k - Len(a)]
    BY <1>1, <1>2, ConcatProperties
  <1>5. ASSUME NEW k \in 1 .. Len(s) - 1
        PROVE  (a \o b)[k] = IF k < i THEN s[k] ELSE s[k + 1]
    <2>1. CASE k < i
      BY <1>1, <1>2, <1>4, <2>1
    <2>2. CASE ~ (k < i)
      <3>1. (a \o b)[k] = b[k - (i - 1)]
        BY <1>1, <1>2, <1>4, <2>2
      <3>2. k - (i - 1) \in 1 .. Len(s) - i /\ (k - (i - 1)) + i = k + 1
        BY <2>2
      <3>3. b[k - (i - 1)] = s[k + 1]
        BY <1>2, <3>2
      <3>4. QED
        BY <2>2, <3>1, <3>3
    <2>3. QED
      BY <2>1, <2>2
  <1>6. QED
    BY <1>1, <1>2, <1>3, <1>4, <1>5

(* A new directive at the current offset.                                  *)
LEMMA PushFacts ==
  ASSUME TypeOK, NEW list \in Seq(DirectiveType), NEW op, NEW arg \in Nat,
         op \in {"stackalloc", "setframe", "savexmm", "pushreg", "savereg"},
         Push(list, op, arg)
  PROVE  /\ directives' \in Seq(DirectiveType) /\ last_prologue_offset' \in Nat
         /\ Ordered(list, current_offset) => Ordered(directives', current_offset)
         /\ directives'[Len(directives')].off = last_prologue_offset'
  <1> DEFINE d == Directive(op, arg)
  <1>1. d \in DirectiveType /\ d.off = current_offset /\ current_offset \in Nat
    BY DEF Directive, DirectiveType, TypeOK
  <1>2. directives' = Append(list, d) /\ last_prologue_offset' = current_offset
    BY DEF Push
  <1> HIDE DEF d
  <1>3. /\ directives' \in Seq(DirectiveType) /\ Len(directives') = Len(list) + 1
        /\ \A i \in 1 .. Len(list) : directives'[i] = list[i]
        /\ directives'[Len(list) + 1] = d
    BY <1>1, <1>2, AppendProperties
  <1>4. ASSUME Ordered(list, current_offset) PROVE Ordered(directives', current_offset)
    <2>1. DOMAIN list = 1 .. Len(list) /\ DOMAIN directives' = 1 .. Len(list) + 1
          /\ Len(list) \in Nat
      BY <1>3
    <2>2. \A i \in 1 .. Len(list) + 1 : directives'[i].off <= current_offset
      BY <1>1, <1>3, <1>4, <2>1 DEF Ordered
    <2>3. \A i, j \in 1 .. Len(list) + 1 :
            i < j => directives'[i].off <= directives'[j].off
      BY <1>1, <1>3, <1>4, <2>1, <2>2 DEF Ordered
    <2>4. QED
      BY <2>1, <2>2, <2>3 DEF Ordered
  <1>5. QED
    BY <1>1, <1>2, <1>3, <1>4

(* Every non-empty set of naturals has a least element, and a bounded one  *)
(* has a greatest.                                                         *)
LEMMA Least ==
  ASSUME NEW T, T \subseteq Nat, T # {}
  PROVE  \E x \in T : \A y \in T : x <= y
  <1> DEFINE R == OpToRel(<, Nat)
  <1>1. IsWellFoundedOn(R, Nat)
    BY NatLessThanWellFounded
  <1>2. \A x, y \in Nat : y < x => <<y, x>> \in R
    BY DEF OpToRel
  <1> HIDE DEF R
  <1>3. PICK x \in T : \A y \in T : ~ (<<y, x>> \in R)
    BY <1>1, WFMin, Zenon
  <1>4. ASSUME NEW y \in T PROVE x <= y
    <2>1. x \in Nat /\ y \in Nat
      OBVIOUS
    <2>2. ~ (y < x)
      BY <1>2, <1>3, <2>1
    <2>3. QED
      BY <2>1, <2>2
  <1>5. QED
    BY <1>4

(* Of the numbers up to n one is the greatest.                             *)
LEMMA Greatest ==
  ASSUME NEW n \in Nat, NEW T, T \subseteq 1 .. n, T # {}
  PROVE  \E x \in T : \A y \in T : y <= x
  <1> DEFINE U == { n - t : t \in T }
  <1>1. U \subseteq Nat /\ U # {}
    <2>1. PICK t \in T : TRUE
      OBVIOUS
    <2>2. n - t \in U
      BY <2>1
    <2>3. \A x \in T : n - x \in Nat
      OBVIOUS
    <2>4. QED
      BY <2>2, <2>3
  <1>2. PICK u \in U : \A v \in U : u <= v
    BY <1>1, Least
  <1>3. PICK x \in T : u = n - x
    OBVIOUS
  <1>4. ASSUME NEW y \in T PROVE y <= x
    <2>1. n - x <= n - y
      BY <1>2, <1>3
    <2>2. QED
      BY <2>1
  <1>5. QED
    BY <1>4

(* Taking a word out of an allocation, or the whole allocation.            *)
LEMMA WithoutWordFacts ==
  ASSUME TypeOK
  PROVE  /\ WithoutWord \in Seq(DirectiveType)
         /\ Ordered(directives, current_offset) => Ordered(WithoutWord, current_offset)
  <1> DEFINE i == LastAllocHere
             size == directives[i].arg
  <1>1. /\ directives \in Seq(DirectiveType) /\ Len(directives) \in Nat
        /\ DOMAIN directives = 1 .. Len(directives) /\ current_offset \in Nat
        /\ \A k \in 1 .. Len(directives) : directives[k] \in DirectiveType
    BY DEF TypeOK
  <1>2. CASE AllocsHere = {}
    BY <1>1, <1>2 DEF WithoutWord
  <1>3. CASE AllocsHere # {}
    <2>1. i \in 1 .. Len(directives)
      <3>1. AllocsHere \subseteq 1 .. Len(directives)
        BY <1>1 DEF AllocsHere
      <3>2. \E m \in AllocsHere : \A j \in AllocsHere : j <= m
        BY <1>1, <1>3, <3>1, Greatest
      <3>3. QED
        BY <3>1, <3>2 DEF LastAllocHere
    <2>2. size \in Nat
      BY <1>1, <2>1 DEF DirectiveType
    <2> HIDE DEF i
    <2>3. CASE size = Word
      <3>1. WithoutWord = RemoveAt(directives, i)
        BY <1>3, <2>3 DEF WithoutWord, i
      <3> DEFINE r == RemoveAt(directives, i)
      <3>2. /\ r \in Seq(DirectiveType)
            /\ Len(r) = Len(directives) - 1
            /\ \A k \in 1 .. Len(directives) - 1 :
                 r[k] = IF k < i THEN directives[k] ELSE directives[k + 1]
        BY <1>1, <2>1, RemoveAtElements
      <3> HIDE DEF r
      <3>3. ASSUME Ordered(directives, current_offset) PROVE Ordered(r, current_offset)
        <4>1. DOMAIN r = 1 .. Len(directives) - 1
          BY <1>1, <3>2
        <4>2. ASSUME NEW k \in 1 .. Len(directives) - 1 PROVE r[k].off <= current_offset
          BY SMTT(60), <1>1, <2>1, <3>2, <3>3 DEF Ordered
        <4>3. ASSUME NEW k \in 1 .. Len(directives) - 1, NEW l \in 1 .. Len(directives) - 1,
                     k < l
              PROVE  r[k].off <= r[l].off
          <5> DEFINE at(x) == IF x < i THEN x ELSE x + 1
          <5>1. at(k) \in 1 .. Len(directives) /\ at(l) \in 1 .. Len(directives)
                /\ at(k) < at(l)
            BY <1>1, <2>1, <4>3
          <5>2. r[k] = directives[at(k)] /\ r[l] = directives[at(l)]
            BY <3>2
          <5> HIDE DEF at
          <5>3. directives[at(k)].off <= directives[at(l)].off
            BY <1>1, <3>3, <5>1 DEF Ordered
          <5>4. QED
            BY <5>2, <5>3
        <4>4. QED
          BY <4>1, <4>2, <4>3 DEF Ordered
      <3>4. r \in Seq(DirectiveType) /\ WithoutWord = r
        BY <3>1, <3>2 DEF r
      <3>5. QED
        BY <3>3, <3>4
    <2>4. CASE size > Word
      <3>1. WithoutWord = [directives EXCEPT ![i].arg = size - Word]
        BY <1>3, <2>2, <2>4 DEF WithoutWord, i, Word
      <3>2. size - Word \in Nat
        BY <2>2, <2>4 DEF Word
      <3> DEFINE new == [directives[i] EXCEPT !.arg = size - Word]
      <3>3. new \in DirectiveType /\ new.off = directives[i].off
        BY <1>1, <2>1, <3>2 DEF DirectiveType
      <3>4. WithoutWord = [directives EXCEPT ![i] = new]
        BY <3>1
      <3> HIDE DEF new
      <3>5. /\ WithoutWord \in Seq(DirectiveType)
            /\ DOMAIN WithoutWord = 1 .. Len(directives)
            /\ \A k \in 1 .. Len(directives) : WithoutWord[k].off = directives[k].off
        BY <1>1, <2>1, <3>3, <3>4
      <3>6. QED
        BY <1>1, <3>5 DEF Ordered
    <2>5. CASE ~ (size = Word) /\ ~ (size > Word)
      BY <1>1, <1>3, <2>5 DEF WithoutWord, i
    <2>6. QED
      BY <2>3, <2>4, <2>5
  <1>4. QED
    BY <1>2, <1>3

-----------------------------------------------------------------------------
IInv == TypeOK /\ OrderInv /\ FrameInv

(* Before the first instruction there is no directive.                     *)
LEMMA InitInv == Init => IInv
  <1> SUFFICES ASSUME Init PROVE IInv
    OBVIOUS
  <1>1. directives = << >> /\ changes = << >>
    BY DEF Init
  <1>2. TypeOK
    <2>1. directives \in Seq(DirectiveType) /\ changes \in Seq(Nat \X Nat)
      BY <1>1
    <2>2. length \in 0 .. MaxLength
      BY MaxLengthAssumption DEF Init
    <2>3. has_fp \in BOOLEAN
      BY DEF Init
    <2>4. QED
      BY <2>1, <2>2, <2>3 DEF Init, TypeOK, Initial
  <1>3. OrderInv
    BY <1>1 DEF Init, OrderInv, Ordered
  <1>4. FrameInv
    BY <1>1 DEF Init, FrameInv, Initial
  <1>5. QED
    BY <1>2, <1>3, <1>4 DEF IInv

(* What an instruction does to the list of directives: nothing, or one new *)
(* directive behind the list as it was or less a word of allocation.       *)
Pushes ==
  \/ UNCHANGED <<directives, last_prologue_offset>>
  \/ \E op \in {"stackalloc", "setframe", "savexmm", "pushreg", "savereg"}, arg \in Nat :
       Push(directives, op, arg) \/ Push(WithoutWord, op, arg)

(* Every instruction but the start of an entry edits the directives the    *)
(* same way: it may erase one of the current offset, then appends.         *)
LEMMA StepPushes ==
  ASSUME TypeOK, AdvanceLoc \/ DefCfaOffset \/ DefCfa \/ DefCfaRegister \/ Offset \/ Return
  PROVE  Pushes
  <1> DEFINE ops == {"stackalloc", "setframe", "savexmm", "pushreg", "savereg"}
  <1>1. CASE AdvanceLoc
    BY <1>1 DEF AdvanceLoc, Pushes
  <1>2. CASE DefCfaOffset
    <2>1. PICK n \in CfaOffsets :
            IF n > Initial THEN Push(directives, "stackalloc", n - Initial)
                           ELSE UNCHANGED <<directives, last_prologue_offset>>
      BY <1>2 DEF DefCfaOffset
    <2>2. CASE n > Initial
      <3>1. n - Initial \in Nat
        BY <2>2, CfaOffsetsAssumption DEF Initial
      <3>2. QED
        BY <2>1, <2>2, <3>1 DEF Pushes
    <2>3. CASE ~ (n > Initial)
      BY <2>1, <2>3 DEF Pushes
    <2>4. QED
      BY <2>2, <2>3
  <1>3. CASE DefCfa \/ DefCfaRegister
    <2>1. \E r \in Registers :
            Push(directives, "setframe", r) \/ UNCHANGED <<directives, last_prologue_offset>>
      BY <1>3 DEF DefCfa, DefCfaRegister
    <2>2. QED
      BY <2>1, RegistersAssumption DEF Pushes
  <1>4. CASE Offset
    <2>1. PICK r \in Registers : OffsetOf(r)
      BY <1>4 DEF Offset
    <2>2. r \in Nat
      BY RegistersAssumption
    <2>3. \/ Push(directives, "savexmm", r)
          \/ UNCHANGED <<directives, last_prologue_offset>>
          \/ Push(WithoutWord, "pushreg", r)
          \/ Push(directives, "savereg", r)
      BY <2>1 DEF OffsetOf
    <2>4. QED
      BY <2>2, <2>3 DEF Pushes
  <1>5. CASE Return
    BY <1>5 DEF Return, Pushes
  <1>6. QED
    BY <1>1, <1>2, <1>3, <1>4, <1>5

(* ... so the list keeps its order, and its end is known.                  *)
LEMMA PushesKeepOrder ==
  ASSUME TypeOK, OrderInv, Pushes, current_offset' \in Nat, current_offset <= current_offset'
  PROVE  /\ directives' \in Seq(DirectiveType) /\ last_prologue_offset' \in Nat
         /\ OrderInv'
  <1>1. ASSUME Ordered(directives', current_offset), directives' \in Seq(DirectiveType)
        PROVE  Ordered(directives', current_offset')
    <2>1. ASSUME NEW i \in DOMAIN directives' PROVE directives'[i].off \in Nat
      <3>1. directives'[i] \in DirectiveType
        BY <1>1
      <3>2. QED
        BY <3>1 DEF DirectiveType
    <2>2. current_offset \in Nat
      BY DEF TypeOK
    <2>3. QED
      BY <1>1, <2>1, <2>2 DEF Ordered
  <1>2. CASE UNCHANGED <<directives, last_prologue_offset>>
    BY <1>1, <1>2 DEF TypeOK, OrderInv
  <1>3. CASE \E op \in {"stackalloc", "setframe", "savexmm", "pushreg", "savereg"}, arg \in Nat :
               Push(directives, op, arg) \/ Push(WithoutWord, op, arg)
    <2>1. directives \in Seq(DirectiveType) /\ Ordered(directives, current_offset)
      BY DEF TypeOK, OrderInv
    <2>2. WithoutWord \in Seq(DirectiveType) /\ Ordered(WithoutWord, current_offset)
      BY <2>1, WithoutWordFacts
    <2>3. /\ directives' \in Seq(DirectiveType) /\ last_prologue_offset' \in Nat
          /\ Ordered(directives', current_offset)
          /\ directives'[Len(directives')].off = last_prologue_offset'
      BY <1>3, <2>1, <2>2, PushFacts
    <2>4. QED
      BY <1>1, <2>3 DEF OrderInv
  <1>4. QED
    BY <1>2, <1>3 DEF Pushes

(* A change of the CFA keeps the maximum the maximum.                      *)
LEMMA CfaKeepsFrame ==
  ASSUME TypeOK, FrameInv, NEW n \in Nat, Cfa(n), result = NotYet, result' = result
  PROVE  /\ FrameInv'
         /\ current_cfa_offset' \in Nat /\ max_cfa_offset' \in Nat
         /\ last_cfa_offset_change_offset' \in Nat /\ changes' \in Seq(Nat \X Nat)
  <1> DEFINE c == <<current_offset, n>>
  <1>1. changes \in Seq(Nat \X Nat) /\ c \in Nat \X Nat /\ c[2] = n /\ Len(changes) \in Nat
        /\ DOMAIN changes = 1 .. Len(changes)
    BY DEF TypeOK
  <1>2. changes' = Append(changes, c)
    BY DEF Cfa
  <1> HIDE DEF c
  <1>3. /\ changes' \in Seq(Nat \X Nat) /\ Len(changes') = Len(changes) + 1
        /\ DOMAIN changes' = 1 .. Len(changes) + 1
        /\ \A i \in 1 .. Len(changes) : changes'[i] = changes[i]
        /\ changes'[Len(changes) + 1] = c
    BY <1>1, <1>2, AppendProperties
  <1> DEFINE depths == {Initial} \cup { changes[i][2] : i \in DOMAIN changes }
             depthsNext == {Initial} \cup { changes'[i][2] : i \in DOMAIN changes' }
  <1>4. depthsNext = depths \cup {n}
    <2>1. n \in depthsNext
      <3>1. Len(changes) + 1 \in DOMAIN changes' /\ changes'[Len(changes) + 1][2] = n
        BY <1>1, <1>3
      <3>2. QED
        BY <3>1
    <2>2. depths \subseteq depthsNext
      BY <1>1, <1>3
    <2>3. ASSUME NEW i \in DOMAIN changes' PROVE changes'[i][2] \in depths \cup {n}
      <3>1. CASE i \in 1 .. Len(changes)
        BY <1>1, <1>3, <3>1
      <3>2. CASE i = Len(changes) + 1
        BY <1>1, <1>3, <3>2
      <3>3. QED
        BY <1>1, <1>3, <3>1, <3>2
    <2>4. QED
      BY <2>1, <2>2, <2>3
  <1>5. depths \subseteq Nat
    BY <1>1 DEF Initial
  <1>6. max_cfa_offset \in depths /\ \A m \in depths : m <= max_cfa_offset
    BY DEF FrameInv
  <1> HIDE DEF depths, depthsNext
  <1>7. max_cfa_offset' \in depthsNext /\ \A m \in depthsNext : m <= max_cfa_offset'
    BY <1>4, <1>5, <1>6 DEF Cfa, Deepest
  <1>8. FrameInv'
    BY <1>7 DEF FrameInv, depthsNext
  <1>9. QED
    BY <1>3, <1>8 DEF Cfa, Deepest, TypeOK

(* What a step does besides: code offsets grow, a new CFA offset or none,  *)
(* and only Return stores a result.                                        *)
LEMMA StepShape ==
  ASSUME TypeOK, AdvanceLoc \/ DefCfaOffset \/ DefCfa \/ DefCfaRegister \/ Offset \/ Return
  PROVE  /\ length' \in 0 .. MaxLength /\ has_fp' \in BOOLEAN
         /\ current_offset' \in Nat /\ current_offset <= current_offset'
         /\ result = NotYet
         /\ \/ KeepCfa /\ result' = result
            \/ KeepCfa /\ result' # NotYet /\ result'.frameSize = max_cfa_offset - Initial
            \/ result' = result /\ \E n \in Nat : Cfa(n)
  <1> USE DeltasAssumption, CfaOffsetsAssumption, MaxLengthAssumption
  <1> length \in 0 .. MaxLength /\ current_offset \in Nat /\ has_fp \in BOOLEAN
    BY DEF TypeOK
  <1>1. CASE AdvanceLoc
    BY <1>1 DEF AdvanceLoc, Reading
  <1>2. CASE DefCfaOffset
    BY <1>2 DEF DefCfaOffset, Reading
  <1>3. CASE DefCfa
    <2>1. has_fp' = has_fp \/ has_fp' = TRUE
      BY <1>3 DEF DefCfa
    <2>2. has_fp' \in BOOLEAN
      BY <2>1
    <2>3. QED
      BY <1>3, <2>2 DEF DefCfa, Reading
  <1>4. CASE DefCfaRegister
    <2>1. has_fp' = has_fp \/ has_fp' = TRUE
      BY <1>4 DEF DefCfaRegister
    <2>2. has_fp' \in BOOLEAN
      BY <2>1
    <2>3. QED
      BY <1>4, <2>2 DEF DefCfaRegister, Reading
  <1>5. CASE Offset
    BY <1>5 DEF Offset, Reading
  <1>6. CASE Return
    <2>1. result'.kept = TRUE /\ result'.frameSize = max_cfa_offset - Initial
      BY <1>6 DEF Return
    <2>2. result' # NotYet
      BY <2>1 DEF NotYet
    <2>3. QED
      BY <1>6, <2>1, <2>2 DEF Return
  <1>7. QED
    BY <1>1, <1>2, <1>3, <1>4, <1>5, <1>6

(* Every instruction on x86_64 keeps the order and the depth.              *)
LEMMA StepInv == IInv /\ [Next]_vars => IInv'
  <1> SUFFICES ASSUME IInv, [Next]_vars PROVE IInv'
    OBVIOUS
  <1> TypeOK /\ OrderInv /\ FrameInv
    BY DEF IInv
  <1>1. CASE UNCHANGED vars
    BY <1>1 DEF vars, IInv, TypeOK, OrderInv, FrameInv
  <1>2. CASE Next
    <2>1. AdvanceLoc \/ DefCfaOffset \/ DefCfa \/ DefCfaRegister \/ Offset \/ Return
      BY <1>2 DEF Next
    <2>2. /\ directives' \in Seq(DirectiveType) /\ last_prologue_offset' \in Nat
          /\ OrderInv'
      BY <2>1, StepPushes, StepShape, PushesKeepOrder
    <2>3. FrameInv' /\ current_cfa_offset' \in Nat /\ max_cfa_offset' \in Nat
          /\ last_cfa_offset_change_offset' \in Nat /\ changes' \in Seq(Nat \X Nat)
      <3>1. CASE KeepCfa /\ result' = result
        BY <3>1 DEF KeepCfa, FrameInv, TypeOK
      <3>2. CASE KeepCfa /\ result' # NotYet
                 /\ result'.frameSize = max_cfa_offset - Initial
        BY <3>2 DEF KeepCfa, FrameInv, TypeOK
      <3>3. CASE result' = result /\ \E n \in Nat : Cfa(n)
        BY <2>1, <3>3, StepShape, CfaKeepsFrame
      <3>4. QED
        <4>1. \/ KeepCfa /\ result' = result
              \/ KeepCfa /\ result' # NotYet /\ result'.frameSize = max_cfa_offset - Initial
              \/ result' = result /\ \E n \in Nat : Cfa(n)
          BY <2>1, StepShape
        <4>2. QED
          BY <3>1, <3>2, <3>3, <4>1, Zenon
    <2>4. TypeOK'
      BY <2>1, <2>2, <2>3, StepShape DEF TypeOK
    <2>5. QED
      BY <2>2, <2>3, <2>4 DEF IInv
  <1>3. QED
    BY <1>1, <1>2

(* In every program on x86_64 directives are in code order and the depth   *)
(* is the deepest CFA so far.                                              *)
THEOREM Inductive == Spec => []IInv
  BY InitInv, StepInv, PTL DEF Spec

(* Every reachable state has the declared types.                           *)
THEOREM TypeCorrect == Spec => []TypeOK
  <1>1. IInv => TypeOK
    BY DEF IInv
  <1>2. QED
    BY <1>1, Inductive, PTL

(* What the invariant says of the end of the prologue.                     *)
LEMMA LastIsEnd == IInv => PrologueEndIsLast
  BY DEF IInv, OrderInv, Ordered, PrologueEndIsLast, Last

(* Of every call-frame program the directives come out in code order, and  *)
(* the recorded end of the prologue is the offset of the last one: what    *)
(* SectionEmitter assumes of the unwind information it replays.            *)
THEOREM PrologueEnd == Spec => []PrologueEndIsLast
  BY LastIsEnd, Inductive, PTL

(* ... and of the frame size.                                              *)
LEMMA SizeIsDeepest == IInv => FrameSizeIsDeepest
  <1>1. ASSUME IInv, result # NotYet PROVE FrameSizeIsDeepest
    <2> DEFINE cfas   == {Initial} \cup { changes[i][2] : i \in DOMAIN changes }
               depths == {0} \cup { changes[i][2] - Initial : i \in DOMAIN changes }
    <2>1. max_cfa_offset \in cfas /\ (\A n \in cfas : n <= max_cfa_offset)
          /\ result.frameSize = max_cfa_offset - Initial
      BY <1>1 DEF IInv, FrameInv
    <2>2. \A i \in DOMAIN changes : changes[i][2] \in Nat
      BY <1>1 DEF IInv, TypeOK
    <2>3. result.frameSize \in depths
      BY <2>1, <2>2 DEF Initial
    <2>4. ASSUME NEW n \in depths PROVE n <= result.frameSize
      <3>1. CASE n = 0
        BY <2>1, <2>2, <3>1 DEF Initial
      <3>2. CASE n # 0
        <4>1. PICK i \in DOMAIN changes : n = changes[i][2] - Initial
          BY <3>2
        <4>2. changes[i][2] <= max_cfa_offset
          BY <2>1
        <4>3. QED
          BY <2>1, <2>2, <4>1, <4>2 DEF Initial
      <3>3. QED
        BY <3>1, <3>2
    <2>5. QED
      BY <2>3, <2>4 DEF FrameSizeIsDeepest
  <1>2. QED
    BY <1>1 DEF FrameSizeIsDeepest

(* The frame size that S_FRAMEPROC and the variables' locations are built  *)
(* on is the deepest the call-frame program ever goes.                     *)
THEOREM FrameSize == Spec => []FrameSizeIsDeepest
  BY SizeIsDeepest, Inductive, PTL


-----------------------------------------------------------------------------
(* The second passes of aarch64 and arm.  First what they share: sequences *)
(* in the order of code offsets.                                           *)
Sorted(s) == \A i, j \in 1 .. Len(s) : i < j => s[i].off <= s[j].off
Plain(d)  == d.op \in {"stackalloc", "frame"}

(* A non-empty set of naturals has a least element, and one in 1 .. n a    *)
(* greatest one, which Min and Max are.                                    *)
LEMMA MinFacts ==
  ASSUME NEW T, T \subseteq Nat, T # {}
  PROVE  /\ Aarch64!Min(T) \in T /\ \A y \in T : Aarch64!Min(T) <= y
         /\ Arm!Min(T) = Aarch64!Min(T)
  <1>1. \E x \in T : \A y \in T : x <= y
    BY Least
  <1>2. Aarch64!Min(T) = CHOOSE x \in T : \A y \in T : x <= y
    BY DEF Aarch64!Min
  <1>3. Arm!Min(T) = CHOOSE x \in T : \A y \in T : x <= y
    BY DEF Arm!Min
  <1>4. QED
    BY <1>1, <1>2, <1>3

(* Max is the greatest, in both modules that define it.                    *)
LEMMA MaxFacts ==
  ASSUME NEW n \in Nat, NEW T, T \subseteq 1 .. n, T # {}
  PROVE  /\ Aarch64!Max(T) \in T /\ \A y \in T : y <= Aarch64!Max(T)
         /\ Arm!Max(T) = Aarch64!Max(T)
  <1>1. \E x \in T : \A y \in T : y <= x
    BY Greatest
  <1>2. Aarch64!Max(T) = CHOOSE x \in T : \A y \in T : x >= y
    BY DEF Aarch64!Max
  <1>3. Arm!Max(T) = CHOOSE x \in T : \A y \in T : x >= y
    BY DEF Arm!Max
  <1>4. \E x \in T : \A y \in T : x >= y
    <2>1. PICK x \in T : \A y \in T : y <= x
      BY <1>1
    <2>2. \A y \in T : x >= y
      BY <2>1
    <2>3. QED
      BY <2>2
  <1>5. Aarch64!Max(T) \in T /\ \A y \in T : Aarch64!Max(T) >= y
    BY <1>2, <1>4
  <1>6. \A y \in T : y <= Aarch64!Max(T)
    BY <1>5
  <1>7. QED
    BY <1>2, <1>3, <1>5, <1>6

(* The elements of one sequence after another.                             *)
LEMMA Joined ==
  ASSUME NEW S, NEW s \in Seq(S), NEW t \in Seq(S)
  PROVE  /\ s \o t \in Seq(S) /\ Len(s \o t) = Len(s) + Len(t)
         /\ Len(s) \in Nat /\ Len(t) \in Nat
         /\ \A k \in 1 .. Len(s) : (s \o t)[k] = s[k]
         /\ \A k \in 1 .. Len(s \o t) : k \notin 1 .. Len(s) =>
              k - Len(s) \in 1 .. Len(t) /\ (s \o t)[k] = t[k - Len(s)]
  <1>1. Len(s) \in Nat /\ Len(t) \in Nat
    OBVIOUS
  <1>2. /\ s \o t \in Seq(S) /\ Len(s \o t) = Len(s) + Len(t)
        /\ \A k \in 1 .. Len(s) + Len(t) :
             (s \o t)[k] = IF k <= Len(s) THEN s[k] ELSE t[k - Len(s)]
    BY ConcatProperties
  <1>3. QED
    BY <1>1, <1>2

(* The part of a sorted sequence that is of one offset.                    *)
LEMMA PartFacts ==
  ASSUME NEW D, NEW list \in Seq(D), NEW off \in Nat, Sorted(list),
         \A k \in 1 .. Len(list) : list[k].off \in Nat
  PROVE  /\ Aarch64!At(list, off) \in Seq(D)
         /\ \A k \in 1 .. Len(Aarch64!At(list, off)) : \E m \in 1 .. Len(list) :
              Aarch64!At(list, off)[k] = list[m] /\ list[m].off = off
  <1> PICK here : here = { k \in DOMAIN list : list[k].off = off }
    OBVIOUS
  <1> PICK part : part = IF here = {} THEN << >>
                         ELSE SubSeq(list, Aarch64!Min(here), Aarch64!Max(here))
    OBVIOUS
  <1> part = Aarch64!At(list, off)
    BY DEF Aarch64!At
  <1> SUFFICES /\ part \in Seq(D)
               /\ \A k \in 1 .. Len(part) : \E m \in 1 .. Len(list) :
                    part[k] = list[m] /\ list[m].off = off
    OBVIOUS
  <1>1. Len(list) \in Nat /\ DOMAIN list = 1 .. Len(list) /\ \A k \in 1 .. Len(list) : list[k] \in D
    OBVIOUS
  <1>2. CASE here = {}
    <2>1. part = << >>
      BY <1>2
    <2>2. QED
      BY <2>1, <1>2
  <1>3. CASE here # {}
    <2>1. here \subseteq 1 .. Len(list) /\ here \subseteq Nat
      BY <1>1
    <2>2. PICK a, b : a = Aarch64!Min(here) /\ b = Aarch64!Max(here)
      OBVIOUS
    <2>3. a \in here /\ b \in here /\ a <= b
      BY <1>1, <1>3, <2>1, <2>2, MinFacts, MaxFacts
    <2>5. a \in 1 .. Len(list) /\ b \in 1 .. Len(list) /\ list[a].off = off /\ list[b].off = off
      BY <2>3, <1>1
    <2>6. /\ part \in Seq(D) /\ Len(part) = b - a + 1
          /\ \A k \in 1 .. b - a + 1 : part[k] = list[a + k - 1]
      <3>1. part = SubSeq(list, a, b)
        BY <1>3, <2>2
      <3>2. a \in Int /\ b \in Int /\ \A k \in a .. b : list[k] \in D
        BY <1>1, <2>5
      <3>3. /\ SubSeq(list, a, b) \in Seq(D)
            /\ Len(SubSeq(list, a, b)) = IF a <= b THEN b - a + 1 ELSE 0
            /\ \A k \in 1 .. b - a + 1 : SubSeq(list, a, b)[k] = list[a + k - 1]
        BY <3>2, SubSeqProperties
      <3>4. QED
        BY <2>3, <3>1, <3>3
    <2>7. ASSUME NEW k \in 1 .. Len(part)
          PROVE  \E m \in 1 .. Len(list) : part[k] = list[m] /\ list[m].off = off
      <3>1. a + k - 1 \in a .. b /\ a + k - 1 \in 1 .. Len(list)
        BY SMTT(60), <2>5, <2>6
      <3>2. PICK m \in 1 .. Len(list) : m = a + k - 1
        BY <3>1
      <3>3. (a < m \/ a = m) /\ (m < b \/ m = b)
        BY <3>1, <3>2, <2>5
      <3>4. list[a].off <= list[m].off /\ list[m].off <= list[b].off
        BY SMTT(60), <2>5, <3>2, <3>3 DEF Sorted
      <3>5. list[m].off = off
        BY <2>5, <3>2, <3>4
      <3>6. part[k] = list[m]
        BY <2>6, <3>2
      <3>7. QED
        BY <3>5, <3>6
    <2>8. QED
      BY <2>6, <2>7
  <1>4. QED
    BY <1>2, <1>3

(* What follows a sorted sequence, of one offset not below it, keeps the   *)
(* order.                                                                  *)
LEMMA SortedJoin ==
  ASSUME NEW D, NEW s \in Seq(D), NEW t \in Seq(D), NEW o \in Nat,
         \A d \in D : d.off \in Nat,
         Sorted(s), \A k \in 1 .. Len(s) : s[k].off <= o, \A k \in 1 .. Len(t) : t[k].off = o
  PROVE  Sorted(s \o t)
  <1> DEFINE r == s \o t
  <1>1. /\ r \in Seq(D) /\ Len(s) \in Nat
        /\ \A k \in 1 .. Len(s) : r[k] = s[k]
        /\ \A k \in 1 .. Len(r) : k \notin 1 .. Len(s) => r[k].off = o
    BY Joined
  <1> HIDE DEF r
  <1>2. ASSUME NEW i \in 1 .. Len(r), NEW j \in 1 .. Len(r), i < j
        PROVE  r[i].off <= r[j].off
    <2>1. CASE j \in 1 .. Len(s)
      <3>1. i \in 1 .. Len(s)
        BY <1>1, <1>2, <2>1
      <3>2. QED
        BY <1>1, <1>2, <2>1, <3>1 DEF Sorted
    <2>2. CASE j \notin 1 .. Len(s)
      <3>1. r[j].off = o
        BY <1>1, <2>2
      <3>2. r[i].off <= o
        BY <1>1
      <3>3. QED
        BY <3>1, <3>2
    <2>3. QED
      BY <2>1, <2>2
  <1>3. QED
    BY <1>2 DEF Sorted, r

(* What the first pass knows of the directives that are not saves, and of  *)
(* the saves: none is beyond the code read nor the end of the prologue.    *)
OthersInv ==
  /\ Sorted(other_dirs)
  /\ \A i \in 1 .. Len(other_dirs) :
       /\ Plain(other_dirs[i]) /\ other_dirs[i].off <= current_offset
       /\ other_dirs[i].off <= last_prologue_offset

SavesInv ==
  \A i \in 1 .. Len(saves) :
    saves[i].off <= current_offset /\ saves[i].off <= last_prologue_offset

(* Push, of both: the end of the prologue moves with what is added.        *)
LEMMA OthersPushed ==
  ASSUME NEW D, \A d \in D : d.off \in Nat, other_dirs \in Seq(D), NEW dirs \in Seq(D),
         \A k \in 1 .. Len(dirs) : Plain(dirs[k]) /\ dirs[k].off = current_offset,
         other_dirs' = other_dirs \o dirs,
         last_prologue_offset' = IF dirs = << >> THEN last_prologue_offset ELSE current_offset,
         UNCHANGED <<current_offset, saves>>, current_offset \in Nat, last_prologue_offset \in Nat,
         OthersInv, SavesInv
  PROVE  OthersInv' /\ SavesInv' /\ other_dirs' \in Seq(D) /\ last_prologue_offset' \in Nat
  <1>1. /\ other_dirs' \in Seq(D) /\ Len(other_dirs) \in Nat /\ Len(dirs) \in Nat
        /\ \A k \in 1 .. Len(other_dirs) : other_dirs'[k] = other_dirs[k]
        /\ \A k \in 1 .. Len(other_dirs') : k \notin 1 .. Len(other_dirs) =>
             k - Len(other_dirs) \in 1 .. Len(dirs) /\ other_dirs'[k] = dirs[k - Len(other_dirs)]
    BY Joined
  <1>2. Sorted(other_dirs')
    BY SortedJoin DEF OthersInv
  <1>3. ASSUME NEW k \in 1 .. Len(other_dirs')
        PROVE  /\ Plain(other_dirs'[k]) /\ other_dirs'[k].off <= current_offset'
               /\ other_dirs'[k].off <= last_prologue_offset'
    <2>1. CASE k \in 1 .. Len(other_dirs)
      <3>1. other_dirs'[k] = other_dirs[k]
        BY <1>1, <2>1
      <3>2. QED
        BY <2>1, <3>1 DEF OthersInv
    <2>2. CASE k \notin 1 .. Len(other_dirs)
      <3>1. PICK m \in 1 .. Len(dirs) : other_dirs'[k] = dirs[m]
        BY <1>1, <2>2
      <3>2. dirs # << >>
        BY <3>1
      <3>3. QED
        BY <3>1, <3>2
    <2>3. QED
      BY <2>1, <2>2
  <1>4. SavesInv'
    BY DEF SavesInv
  <1>5. QED
    BY <1>1, <1>2, <1>3, <1>4 DEF OthersInv


-----------------------------------------------------------------------------
(* aarch64.                                                                *)
Singles == {"save_reg", "save_freg"}
Key(d)  == [reg |-> d.regs[1], at |-> d.arg]

(* Two differences that wrapping makes one.                                *)
Apart(m, n) == m \in {n, n + OffsetValues, n - OffsetValues}

(* Saves are of registers and slots of their own; of one code offset they  *)
(* are as far apart as their slots, or wrapped apart.                      *)
Aarch64Saves ==
  /\ slots \in Seq(Aarch64Slots)
  /\ \A i, j \in 1 .. Len(saves) : i # j => saves[i].reg # saves[j].reg /\ slots[i] # slots[j]
  /\ \A i \in 1 .. Len(saves) :
       saves[i].off = current_offset =>
         saves[i].at = (current_cfa_offset - slots[i]) % OffsetValues
  /\ \A i, j \in 1 .. Len(saves) :
       saves[i].off = saves[j].off =>
         Apart(saves[i].at - saves[j].at, slots[j] - slots[i])

(* What is written is of the offsets before those to be written.           *)
WrittenOrder ==
  /\ phase = "reading" => written = << >> /\ pending = {} /\ all_offsets = {}
  /\ Sorted(written)
  /\ \A i \in 1 .. Len(written) :
       /\ written[i].off <= last_prologue_offset
       /\ \A o \in all_offsets : written[i].off < o
       /\ \A s \in pending : written[i].off <= s.off
  /\ \A s, t \in pending : s.off = t.off
  /\ \A s \in pending : \A o \in all_offsets : s.off < o
  /\ \A i, j \in 1 .. Len(written) :
       i < j /\ written[i].off = written[j].off /\ Aarch64!Saved(written[i]) # {}
         => Aarch64!Saved(written[j]) # {}

(* Every save is still to be written or has been written, once.            *)
WrittenOnce ==
  /\ \A i \in 1 .. Len(written) : \A s \in Aarch64!Saved(written[i]) :
       s \in ToSet(saves) /\ s.reg \in Aarch64!Named /\ s \notin pending /\ s.off = written[i].off
  /\ \A i, j \in 1 .. Len(written) :
       i # j => Aarch64!Saved(written[i]) \cap Aarch64!Saved(written[j]) = {}
  /\ phase = "writing" =>
       \A s \in ToSet(saves) : s.reg \in Aarch64!Named =>
         \/ s \in pending \/ s.off \in all_offsets
         \/ \E i \in 1 .. Len(written) : s \in Aarch64!Saved(written[i])

(* Slots are written upward, and what is written alone is no pair with     *)
(* what follows.                                                           *)
WrittenPaired ==
  /\ \A i \in 1 .. Len(written) : \A s \in Aarch64!Saved(written[i]), t \in pending :
       s.off = t.off => s.at < t.at
  /\ \A i \in 1 .. Len(written) : written[i].op \in Singles =>
       /\ 1 \in DOMAIN written[i].regs
       /\ \A t \in pending : t.off = written[i].off => Aarch64!PairOp(Key(written[i]), t) = "none"
  /\ Aarch64!NothingLeftToPair

Aarch64Inv ==
  /\ Aarch64!TypeOK /\ OthersInv /\ SavesInv /\ Aarch64Saves
  /\ WrittenOrder /\ WrittenOnce /\ WrittenPaired

(* The type invariant in the terms the proofs use.                         *)
LEMMA Aarch64Types ==
  ASSUME Aarch64!TypeOK
  PROVE  /\ Len(saves) \in Nat /\ DOMAIN saves = 1 .. Len(saves) /\ Len(slots) = Len(saves)
         /\ \A i \in 1 .. Len(saves) :
              /\ saves[i] \in [off: Nat, reg: Aarch64Registers, at: 0 .. OffsetValues - 1]
              /\ saves[i].off \in Nat /\ saves[i].reg \in Nat /\ saves[i].at \in Nat
              /\ saves[i].at < OffsetValues
         /\ ToSet(saves) = { saves[i] : i \in 1 .. Len(saves) }
         /\ Aarch64!ToSet(saves) = ToSet(saves)
         /\ Len(other_dirs) \in Nat
         /\ \A i \in 1 .. Len(other_dirs) :
              other_dirs[i] \in Aarch64!DirectiveType /\ other_dirs[i].off \in Nat
         /\ Len(written) \in Nat /\ DOMAIN written = 1 .. Len(written)
         /\ \A i \in 1 .. Len(written) :
              written[i] \in Aarch64!DirectiveType /\ written[i].off \in Nat
         /\ current_offset \in Nat /\ current_cfa_offset \in Nat /\ last_prologue_offset \in Nat
         /\ \A o \in all_offsets : o \in Nat
  <1>1. saves \in Seq([off: Nat, reg: Aarch64Registers, at: 0 .. OffsetValues - 1])
    BY DEF Aarch64!TypeOK
  <1>2. Len(saves) \in Nat /\ DOMAIN saves = 1 .. Len(saves)
        /\ \A i \in 1 .. Len(saves) : saves[i] \in [off: Nat, reg: Aarch64Registers, at: 0 .. OffsetValues - 1]
    BY <1>1, LenProperties, ElementOfSeq
  <1>3. ASSUME NEW i \in 1 .. Len(saves)
        PROVE  /\ saves[i].off \in Nat /\ saves[i].reg \in Nat /\ saves[i].at \in Nat
               /\ saves[i].at < OffsetValues
    <2>1. saves[i] \in [off: Nat, reg: Aarch64Registers, at: 0 .. OffsetValues - 1]
      BY <1>2
    <2>2. /\ saves[i].off \in Nat /\ saves[i].reg \in Aarch64Registers
          /\ saves[i].at \in 0 .. OffsetValues - 1
      BY <2>1
    <2>3. OffsetValues \in Nat /\ Aarch64Registers \subseteq Nat
      BY Aarch64Assumption
    <2>4. \A n \in 0 .. OffsetValues - 1 : n \in Nat /\ n < OffsetValues
      BY <2>3
    <2>5. saves[i].reg \in Nat
      BY <2>2, <2>3, Zenon
    <2>6. QED
      BY <2>2, <2>4, <2>5, Zenon
  <1>4. ToSet(saves) = { saves[i] : i \in 1 .. Len(saves) } /\ Aarch64!ToSet(saves) = ToSet(saves)
    BY <1>2 DEF ToSet, Aarch64!ToSet
  <1>5. other_dirs \in Seq(Aarch64!DirectiveType) /\ written \in Seq(Aarch64!DirectiveType)
    BY DEF Aarch64!TypeOK
  <1>6. \A d \in Aarch64!DirectiveType : d.off \in Nat
    BY DEF Aarch64!DirectiveType
  <1>7. /\ Len(other_dirs) \in Nat
        /\ \A i \in 1 .. Len(other_dirs) : other_dirs[i] \in Aarch64!DirectiveType
        /\ Len(written) \in Nat /\ DOMAIN written = 1 .. Len(written)
        /\ \A i \in 1 .. Len(written) : written[i] \in Aarch64!DirectiveType
    BY <1>5
  <1>8. current_offset \in Nat /\ current_cfa_offset \in Nat /\ last_prologue_offset \in Nat
        /\ (\A o \in all_offsets : o \in Nat) /\ Len(slots) = Len(saves)
    BY DEF Aarch64!TypeOK
  <1>9. QED
    BY <1>2, <1>3, <1>4, <1>6, <1>7, <1>8

(* Offsets as far apart as two slots are eight bytes apart or more.        *)
LEMMA SlotsApart ==
  ASSUME NEW a \in Nat, NEW b \in Nat, NEW c \in Aarch64Slots, NEW d \in Aarch64Slots,
         c # d, Apart(a - b, d - c)
  PROVE  a + 8 <= b \/ b + 8 <= a
  <1>1. /\ c \in 0 .. OffsetValues - 1 /\ d \in 0 .. OffsetValues - 1 /\ OffsetValues \in Nat
        /\ c % 8 = 0 /\ d % 8 = 0 /\ OffsetValues % 8 = 0
    BY Aarch64Assumption
  <1>2. PICK x \in Int, y \in Int, z \in Int : c = 8 * x /\ d = 8 * y /\ OffsetValues = 8 * z
    BY SMT, <1>1
  <1>3. 0 <= x /\ x < z /\ 0 <= y /\ y < z /\ x # y
    BY <1>1, <1>2
  <1>4. a - b = 8 * (y - x) \/ a - b = 8 * (y - x + z) \/ a - b = 8 * (y - x - z)
    BY <1>2 DEF Apart
  <1>5. QED
    BY <1>3, <1>4

(* The difference of two offsets, wrapped.                                 *)
LEMMA Wrapped ==
  ASSUME NEW n \in 0 .. OffsetValues - 1, NEW c \in Aarch64Slots
  PROVE  /\ (n - c) % OffsetValues \in 0 .. OffsetValues - 1
         /\ (n - c) % OffsetValues = IF c <= n THEN n - c ELSE n - c + OffsetValues
  <1>1. OffsetValues \in Nat \ {0} /\ c \in 0 .. OffsetValues - 1
    BY Aarch64Assumption
  <1>2. (n - c) % OffsetValues = IF c <= n THEN n - c ELSE n - c + OffsetValues
    BY SMT, <1>1
  <1>3. QED
    BY <1>1, <1>2

(* An offset that needs no wrapping.                                       *)
LEMMA Small ==
  ASSUME NEW n \in Nat, NEW m \in Nat, n + 8 <= m, m < OffsetValues
  PROVE  (n + 8) % OffsetValues = n + 8
  <1>1. OffsetValues \in Nat \ {0}
    BY Aarch64Assumption
  <1>2. QED
    BY SMT, <1>1

(* Two saves of one code offset are eight bytes apart or more.             *)
LEMMA SavesApart ==
  ASSUME Aarch64!TypeOK, Aarch64Saves, NEW s \in ToSet(saves), NEW t \in ToSet(saves),
         s.off = t.off, s # t
  PROVE  /\ s.reg # t.reg /\ s.at \in Nat /\ t.at \in Nat
         /\ s.at + 8 <= t.at \/ t.at + 8 <= s.at
  <1>1. PICK i \in 1 .. Len(saves), j \in 1 .. Len(saves) : s = saves[i] /\ t = saves[j] /\ i # j
    BY Aarch64Types
  <1>2. /\ slots[i] \in Aarch64Slots /\ slots[j] \in Aarch64Slots /\ slots[i] # slots[j]
        /\ saves[i].reg # saves[j].reg
        /\ Apart(saves[i].at - saves[j].at, slots[j] - slots[i])
    BY SMTT(60), <1>1, Aarch64Types DEF Aarch64Saves
  <1>3. s.at \in Nat /\ t.at \in Nat /\ s.reg # t.reg
    BY <1>1, <1>2, Aarch64Types
  <1>4. PICK a \in Nat, b \in Nat, c \in Aarch64Slots, d \in Aarch64Slots :
          a = s.at /\ b = t.at /\ c = slots[i] /\ d = slots[j] /\ c # d /\ Apart(a - b, d - c)
    BY <1>1, <1>2, <1>3
  <1>5. a + 8 <= b \/ b + 8 <= a
    BY <1>4, SlotsApart
  <1>6. QED
    BY <1>3, <1>4, <1>5

(* The first pass has written nothing.                                     *)
LEMMA NothingWritten ==
  ASSUME written' = << >>, pending' = {}, all_offsets' = {}, phase' = "reading"
  PROVE  WrittenOrder' /\ WrittenOnce' /\ WrittenPaired'
  <1>1. Len(written') = 0 /\ DOMAIN written' = {} /\ 1 .. 0 = {}
    OBVIOUS
  <1>2. WrittenOrder'
    <2>1. Sorted(written')
      BY <1>1 DEF Sorted
    <2>2. QED
      BY <1>1, <2>1 DEF WrittenOrder
  <1>3. WrittenOnce'
    BY <1>1 DEF WrittenOnce
  <1>4. Aarch64!NothingLeftToPair'
    BY <1>1 DEF Aarch64!NothingLeftToPair
  <1>5. WrittenPaired'
    BY <1>1, <1>4 DEF WrittenPaired
  <1>6. QED
    BY <1>2, <1>3, <1>5


(* Before the first instruction nothing is collected or written.           *)
LEMMA Aarch64Initially ==
  ASSUME Aarch64!Init
  PROVE  Aarch64Inv
  <1>1. /\ other_dirs = << >> /\ saves = << >> /\ written = << >> /\ slots = << >>
        /\ pending = {} /\ all_offsets = {} /\ phase = "reading"
        /\ length = 0 /\ current_offset = 0 /\ current_cfa_offset = 0 /\ max_cfa_offset = 0
        /\ last_prologue_offset = 0 /\ has_fp = FALSE
    BY DEF Aarch64!Init
  <1>2. Len(<< >>) = 0 /\ DOMAIN << >> = {} /\ 1 .. 0 = {} /\ \A S : << >> \in Seq(S)
    OBVIOUS
  <1>3. Aarch64!TypeOK
    <2>1. /\ length \in 0 .. MaxLength /\ Len(slots) = Len(saves)
          /\ all_offsets \subseteq 0 .. current_offset /\ pending \subseteq Aarch64!ToSet(saves)
      BY <1>1, MaxLengthAssumption
    <2>2. /\ other_dirs \in Seq(Aarch64!DirectiveType) /\ written \in Seq(Aarch64!DirectiveType)
          /\ saves \in Seq([off: Nat, reg: Aarch64Registers, at: 0 .. OffsetValues - 1])
      BY <1>1, <1>2
    <2>3. current_cfa_offset \in 0 .. OffsetValues - 1
      <3>1. OffsetValues \in Nat \ {0}
        BY Aarch64Assumption
      <3>2. QED
        BY <1>1, <3>1
    <2>4. QED
      BY <1>1, <2>1, <2>2, <2>3 DEF Aarch64!TypeOK
  <1>4. Sorted(<< >>)
    BY <1>2 DEF Sorted
  <1>5. OthersInv /\ SavesInv /\ Aarch64Saves /\ WrittenOrder
    BY <1>1, <1>2, <1>4 DEF OthersInv, SavesInv, Aarch64Saves, WrittenOrder
  <1>6. WrittenOnce
    BY <1>1, <1>2 DEF WrittenOnce
  <1>7. Aarch64!NothingLeftToPair
    BY <1>1, <1>2 DEF Aarch64!NothingLeftToPair
  <1>8. WrittenPaired
    BY <1>1, <1>2, <1>7 DEF WrittenPaired
  <1>9. QED
    BY <1>3, <1>5, <1>6, <1>8 DEF Aarch64Inv

(* A step of the first pass writes nothing.                                *)
LEMMA ReadingWritesNothing ==
  ASSUME Aarch64Inv, phase = "reading", UNCHANGED <<all_offsets, pending, written, phase>>
  PROVE  /\ WrittenOrder' /\ WrittenOnce' /\ WrittenPaired'
         /\ all_offsets' = {} /\ pending' = {} /\ written' = << >> /\ phase' = "reading"
  <1>1. written' = << >> /\ pending' = {} /\ all_offsets' = {} /\ phase' = "reading"
    BY DEF Aarch64Inv, WrittenOrder
  <1>2. QED
    BY <1>1, NothingWritten

(* The offset only grows.                                                  *)
LEMMA Aarch64Advances ==
  ASSUME Aarch64Inv, Aarch64!AdvanceLoc
  PROVE  Aarch64Inv'
  <1>1. PICK d \in Deltas : current_offset' = current_offset + d
    BY DEF Aarch64!AdvanceLoc
  <1>2. /\ length' = length + 1 /\ length < MaxLength /\ phase = "reading"
        /\ UNCHANGED <<current_cfa_offset, max_cfa_offset, last_prologue_offset, has_fp,
                       other_dirs, saves, all_offsets, pending, written, phase, slots>>
    BY DEF Aarch64!AdvanceLoc, Aarch64!Reading, Aarch64!emission
  <1>3. WrittenOrder' /\ WrittenOnce' /\ WrittenPaired' /\ all_offsets' = {} /\ pending' = {}
    BY <1>2, ReadingWritesNothing
  <1>4. d \in Nat /\ Aarch64!TypeOK
    BY DeltasAssumption DEF Aarch64Inv
  <1>5. Aarch64!TypeOK'
    BY <1>1, <1>2, <1>3, <1>4, MaxLengthAssumption DEF Aarch64!TypeOK, Aarch64!DirectiveType
  <1>6. current_offset \in Nat /\ current_offset <= current_offset'
    BY <1>1, <1>4, Aarch64Types
  <1>7. OthersInv'
    BY <1>1, <1>2, <1>4, <1>6, Aarch64Types DEF Aarch64Inv, OthersInv
  <1>8. SavesInv'
    BY <1>1, <1>2, <1>4, <1>6, Aarch64Types DEF Aarch64Inv, SavesInv
  <1>9. Aarch64Saves'
    <2>1. ASSUME NEW i \in 1 .. Len(saves'), saves'[i].off = current_offset'
          PROVE  saves'[i].at = (current_cfa_offset' - slots'[i]) % OffsetValues
      <3>1. i \in 1 .. Len(saves) /\ saves[i].off = current_offset + d /\ saves[i].off <= current_offset
        BY <1>1, <1>2, <2>1 DEF Aarch64Inv, SavesInv
      <3>2. saves[i].off = current_offset
        BY <3>1, <1>4, <1>6, Aarch64Types
      <3>3. QED
        BY <3>1, <3>2, <1>2 DEF Aarch64Inv, Aarch64Saves
    <2>2. QED
      BY <1>2, <2>1 DEF Aarch64Inv, Aarch64Saves
  <1>10. QED
    BY <1>3, <1>5, <1>7, <1>8, <1>9 DEF Aarch64Inv

(* The steps of the first pass that add directives which are not saves: the*)
(* CFA moves only where nothing is saved yet.                              *)
LEMMA Aarch64Pushes ==
  ASSUME Aarch64Inv, Aarch64!Reading, NEW dirs \in Seq(Aarch64!DirectiveType),
         \A k \in 1 .. Len(dirs) : Plain(dirs[k]) /\ dirs[k].off = current_offset,
         Aarch64!Push(dirs), current_cfa_offset' \in 0 .. OffsetValues - 1, max_cfa_offset' \in Nat, has_fp' \in BOOLEAN,
         Aarch64!NoSaveHere \/ UNCHANGED current_cfa_offset,
         UNCHANGED <<current_offset, saves, all_offsets, pending, written, phase, slots>>
  PROVE  Aarch64Inv'
  <1>1. length' = length + 1 /\ length < MaxLength /\ phase = "reading"
    BY DEF Aarch64!Reading
  <1>2. WrittenOrder' /\ WrittenOnce' /\ WrittenPaired' /\ all_offsets' = {} /\ pending' = {}
    BY <1>1, ReadingWritesNothing
  <1>3. Aarch64!TypeOK /\ other_dirs \in Seq(Aarch64!DirectiveType)
        /\ \A d \in Aarch64!DirectiveType : d.off \in Nat
    BY DEF Aarch64Inv, Aarch64!TypeOK, Aarch64!DirectiveType
  <1>4. /\ other_dirs' = other_dirs \o dirs
        /\ last_prologue_offset' = IF dirs = << >> THEN last_prologue_offset ELSE current_offset
    BY DEF Aarch64!Push
  <1>5. /\ OthersInv' /\ SavesInv' /\ other_dirs' \in Seq(Aarch64!DirectiveType)
        /\ last_prologue_offset' \in Nat
    BY <1>3, <1>4, Aarch64Types, OthersPushed DEF Aarch64Inv
  <1>6. Aarch64!TypeOK'
    BY <1>1, <1>2, <1>3, <1>5, MaxLengthAssumption DEF Aarch64!TypeOK, Aarch64!DirectiveType
  <1>7. Aarch64Saves'
    <2>1. ASSUME NEW i \in 1 .. Len(saves'), saves'[i].off = current_offset'
          PROVE  saves'[i].at = (current_cfa_offset' - slots'[i]) % OffsetValues
      <3>1. i \in DOMAIN saves /\ saves[i].off = current_offset /\ saves[i].off \in Nat
        BY <1>3, <2>1, Aarch64Types
      <3>2. ~ Aarch64!NoSaveHere
        BY <3>1 DEF Aarch64!NoSaveHere
      <3>3. QED
        BY <3>1, <3>2, <2>1 DEF Aarch64Inv, Aarch64Saves
    <2>2. QED
      BY <2>1 DEF Aarch64Inv, Aarch64Saves
  <1>8. QED
    BY <1>2, <1>5, <1>6, <1>7 DEF Aarch64Inv

(* Each of them.                                                           *)
LEMMA Aarch64Others ==
  ASSUME Aarch64Inv, Aarch64!DefCfaOffset \/ Aarch64!DefCfa \/ Aarch64!DefCfaRegister
  PROVE  Aarch64Inv'
  <1>1. /\ Aarch64!TypeOK /\ current_offset \in Nat
        /\ current_cfa_offset \in Nat /\ current_cfa_offset \in 0 .. OffsetValues - 1
        /\ max_cfa_offset \in Nat /\ has_fp \in BOOLEAN
        /\ \A n \in Aarch64CfaOffsets : n \in Nat /\ n \in 0 .. OffsetValues - 1
    BY Aarch64Assumption DEF Aarch64Inv, Aarch64!TypeOK
  <1>2. ASSUME NEW n \in Int
        PROVE  /\ Aarch64!Alloc(n) \in Seq(Aarch64!DirectiveType)
               /\ \A k \in 1 .. Len(Aarch64!Alloc(n)) :
                    Plain(Aarch64!Alloc(n)[k]) /\ Aarch64!Alloc(n)[k].off = current_offset
    <2>1. CASE n > 0
      <3>1. PICK d : d = Aarch64!Dir("stackalloc", << >>, n)
        OBVIOUS
      <3>2. << >> \in Seq(Nat) /\ n \in Nat
        BY <2>1
      <3>3. d \in Aarch64!DirectiveType /\ Plain(d) /\ d.off = current_offset
        BY <3>1, <3>2, <1>1 DEF Aarch64!Dir, Aarch64!DirectiveType, Plain
      <3>4. Aarch64!Alloc(n) = <<d>>
        BY <2>1, <3>1 DEF Aarch64!Alloc
      <3>5. QED
        BY <3>3, <3>4
    <2>2. CASE ~ (n > 0)
      <3>1. Aarch64!Alloc(n) = << >>
        BY <2>2 DEF Aarch64!Alloc
      <3>2. QED
        BY <3>1
    <2>3. QED
      BY <2>1, <2>2
  <1>3. ASSUME NEW n \in Nat
        PROVE  /\ Aarch64!SetFrame(n) \in Seq(Aarch64!DirectiveType)
               /\ \A k \in 1 .. Len(Aarch64!SetFrame(n)) :
                    Plain(Aarch64!SetFrame(n)[k]) /\ Aarch64!SetFrame(n)[k].off = current_offset
    <2>1. PICK d : d = Aarch64!Dir("frame", << Aarch64!Fp >>, n)
      OBVIOUS
    <2>2. << Aarch64!Fp >> \in Seq(Nat)
      BY DEF Aarch64!Fp
    <2>3. d \in Aarch64!DirectiveType /\ Plain(d) /\ d.off = current_offset
      BY <2>1, <2>2, <1>1 DEF Aarch64!Dir, Aarch64!DirectiveType, Plain
    <2>4. Aarch64!SetFrame(n) = <<d>>
      BY <2>1 DEF Aarch64!SetFrame
    <2>5. QED
      BY <2>3, <2>4
  <1>4. CASE Aarch64!DefCfaOffset
    <2>1. PICK n \in Aarch64CfaOffsets : Aarch64!Cfa(n) /\ Aarch64!Push(Aarch64!Alloc(n))
      BY <1>4 DEF Aarch64!DefCfaOffset
    <2>2. /\ Aarch64!Reading /\ Aarch64!NoSaveHere /\ has_fp' = has_fp
          /\ UNCHANGED <<current_offset, saves, all_offsets, pending, written, phase, slots>>
      BY <1>4 DEF Aarch64!DefCfaOffset, Aarch64!emission
    <2>3. current_cfa_offset' \in 0 .. OffsetValues - 1 /\ max_cfa_offset' \in Nat
      BY <1>1, <2>1 DEF Aarch64!Cfa, Aarch64!Deepest
    <2>4. PICK dirs : dirs = Aarch64!Alloc(n)
      OBVIOUS
    <2>5. /\ dirs \in Seq(Aarch64!DirectiveType)
          /\ \A k \in 1 .. Len(dirs) : Plain(dirs[k]) /\ dirs[k].off = current_offset
      <3>1. n \in Int
        BY <1>1
      <3>2. QED
        BY <3>1, <1>2, <2>4
    <2>6. Aarch64!Push(dirs) /\ has_fp' \in BOOLEAN
      BY <1>1, <2>1, <2>2, <2>4
    <2>7. QED
      BY <2>2, <2>3, <2>5, <2>6, Aarch64Pushes
  <1>5. CASE Aarch64!DefCfa
    <2>1. PICK r \in {Aarch64!Sp, Aarch64!Fp}, n \in Aarch64CfaOffsets :
            /\ Aarch64!Cfa(n)
            /\ Aarch64!Push(Aarch64!Alloc(n - current_cfa_offset)
                              \o (IF r = Aarch64!Fp THEN Aarch64!SetFrame(0) ELSE << >>))
            /\ has_fp' = (has_fp \/ r = Aarch64!Fp)
      BY <1>5 DEF Aarch64!DefCfa
    <2>2. /\ Aarch64!Reading /\ Aarch64!NoSaveHere
          /\ UNCHANGED <<current_offset, saves, all_offsets, pending, written, phase, slots>>
      BY <1>5 DEF Aarch64!DefCfa, Aarch64!emission
    <2>3. current_cfa_offset' \in 0 .. OffsetValues - 1 /\ max_cfa_offset' \in Nat /\ has_fp' \in BOOLEAN
      BY <1>1, <2>1 DEF Aarch64!Cfa, Aarch64!Deepest
    <2>4. PICK a, b : /\ a = Aarch64!Alloc(n - current_cfa_offset)
                      /\ b = IF r = Aarch64!Fp THEN Aarch64!SetFrame(0) ELSE << >>
      OBVIOUS
    <2>5. /\ a \in Seq(Aarch64!DirectiveType) /\ b \in Seq(Aarch64!DirectiveType)
          /\ \A k \in 1 .. Len(a) : Plain(a[k]) /\ a[k].off = current_offset
      <3>1. n - current_cfa_offset \in Int
        BY <1>1
      <3>2. /\ a \in Seq(Aarch64!DirectiveType)
            /\ \A k \in 1 .. Len(a) : Plain(a[k]) /\ a[k].off = current_offset
        BY <3>1, <1>2, <2>4
      <3>3. << >> \in Seq(Aarch64!DirectiveType) /\ Aarch64!SetFrame(0) \in Seq(Aarch64!DirectiveType)
        BY <1>3
      <3>4. b \in Seq(Aarch64!DirectiveType)
        BY <3>3, <2>4
      <3>5. QED
        BY <3>2, <3>4
    <2>6. \A k \in 1 .. Len(b) : Plain(b[k]) /\ b[k].off = current_offset
      <3>1. CASE r = Aarch64!Fp
        BY <1>3, <2>4, <3>1
      <3>2. CASE r # Aarch64!Fp
        BY <2>4, <3>2
      <3>3. QED
        BY <3>1, <3>2
    <2>7. /\ a \o b \in Seq(Aarch64!DirectiveType)
          /\ \A k \in 1 .. Len(a \o b) : Plain((a \o b)[k]) /\ (a \o b)[k].off = current_offset
      BY <2>5, <2>6, Joined
    <2>8. Aarch64!Push(a \o b)
      BY <2>1, <2>4
    <2>9. QED
      BY <2>2, <2>3, <2>7, <2>8, Aarch64Pushes
  <1>6. CASE Aarch64!DefCfaRegister
    <2>1. /\ Aarch64!Reading /\ Aarch64!Push(Aarch64!SetFrame(Aarch64!FrameOffset)) /\ has_fp' = TRUE
          /\ UNCHANGED <<current_offset, current_cfa_offset, max_cfa_offset, saves,
                         all_offsets, pending, written, phase, slots>>
      BY <1>6 DEF Aarch64!DefCfaRegister, Aarch64!emission
    <2>2. Aarch64!FrameOffset \in Nat
      BY <1>1 DEF Aarch64!FrameOffset
    <2>3. PICK dirs : dirs = Aarch64!SetFrame(Aarch64!FrameOffset)
      OBVIOUS
    <2>4. QED
      BY <1>1, <1>3, <2>1, <2>2, <2>3, Aarch64Pushes
  <1>7. QED
    BY <1>4, <1>5, <1>6


(* A save that is read.                                                    *)
LEMMA Aarch64Saved ==
  ASSUME Aarch64Inv, Aarch64!Offset
  PROVE  Aarch64Inv'
  <1>1. PICK r \in Aarch64Registers, c \in Aarch64Slots :
          /\ Aarch64!Free(r, c)
          /\ saves' = Append(saves, [off |-> current_offset, reg |-> r,
                                     at |-> (current_cfa_offset - c) % OffsetValues])
          /\ slots' = Append(slots, c)
    BY DEF Aarch64!Offset, Aarch64!SlotOffset
  <1>2. /\ length' = length + 1 /\ length < MaxLength /\ phase = "reading"
        /\ last_prologue_offset' = current_offset
        /\ UNCHANGED <<current_offset, current_cfa_offset, max_cfa_offset, has_fp, other_dirs,
                       all_offsets, pending, written, phase>>
    BY DEF Aarch64!Offset, Aarch64!Reading, Aarch64!emission
  <1>3. /\ WrittenOrder' /\ WrittenOnce' /\ WrittenPaired'
        /\ all_offsets' = {} /\ pending' = {} /\ written' = << >> /\ phase' = "reading"
    BY <1>2, ReadingWritesNothing
  <1>4. /\ Aarch64!TypeOK /\ Aarch64Saves /\ OthersInv /\ SavesInv
        /\ saves \in Seq([off: Nat, reg: Aarch64Registers, at: 0 .. OffsetValues - 1]) /\ slots \in Seq(Aarch64Slots)
    BY DEF Aarch64Inv, Aarch64Saves, Aarch64!TypeOK
  <1>5. PICK s : s = [off |-> current_offset, reg |-> r,
                      at |-> (current_cfa_offset - c) % OffsetValues]
    OBVIOUS
  <1>6. \A i \in 1 .. Len(saves) : saves[i].reg # r /\ slots[i] # c
    BY <1>1, <1>4, Aarch64Types DEF Aarch64!Free
  <1>7. /\ s \in [off: Nat, reg: Aarch64Registers, at: 0 .. OffsetValues - 1]
        /\ s.off = current_offset /\ s.reg = r
        /\ s.at = (current_cfa_offset - c) % OffsetValues
    <2>1. current_cfa_offset \in 0 .. OffsetValues - 1 /\ current_offset \in Nat
      BY <1>4 DEF Aarch64!TypeOK
    <2>2. PICK n : n = (current_cfa_offset - c) % OffsetValues
      OBVIOUS
    <2>3. n \in 0 .. OffsetValues - 1
      BY <2>1, <2>2, Wrapped
    <2>4. QED
      BY <1>5, <2>1, <2>2, <2>3
  <1>8. /\ saves' = Append(saves, s) /\ slots' = Append(slots, c)
        /\ Len(slots) = Len(saves) /\ Len(saves) \in Nat
    BY <1>1, <1>4, <1>5, Aarch64Types
  <1>9. /\ saves' \in Seq([off: Nat, reg: Aarch64Registers, at: 0 .. OffsetValues - 1]) /\ slots' \in Seq(Aarch64Slots)
        /\ Len(saves') = Len(saves) + 1 /\ Len(slots') = Len(saves) + 1
        /\ \A i \in 1 .. Len(saves) : saves'[i] = saves[i] /\ slots'[i] = slots[i]
        /\ saves'[Len(saves) + 1] = s /\ slots'[Len(saves) + 1] = c
    <2>1. /\ saves' \in Seq([off: Nat, reg: Aarch64Registers, at: 0 .. OffsetValues - 1])
          /\ Len(saves') = Len(saves) + 1
          /\ \A i \in 1 .. Len(saves) : saves'[i] = saves[i]
          /\ saves'[Len(saves) + 1] = s
      BY <1>4, <1>7, <1>8, AppendProperties
    <2>2. /\ slots' \in Seq(Aarch64Slots) /\ Len(slots') = Len(slots) + 1
          /\ \A i \in 1 .. Len(slots) : slots'[i] = slots[i]
          /\ slots'[Len(slots) + 1] = c
      BY <1>4, <1>8, AppendProperties
    <2>3. QED
      BY <2>1, <2>2, <1>8
  <1>10. \A i \in 1 .. Len(saves') : i \in 1 .. Len(saves) \/ i = Len(saves) + 1
    BY <1>8, <1>9
  <1>11. Aarch64!TypeOK'
    BY <1>2, <1>3, <1>4, <1>9, MaxLengthAssumption DEF Aarch64!TypeOK, Aarch64!DirectiveType
  <1>12. OthersInv'
    BY <1>2, <1>4, Aarch64Types DEF OthersInv
  <1>13. SavesInv'
    <2>1. ASSUME NEW i \in 1 .. Len(saves')
          PROVE  saves'[i].off <= current_offset' /\ saves'[i].off <= last_prologue_offset'
      <3>1. CASE i \in 1 .. Len(saves)
        BY <3>1, <1>2, <1>4, <1>9 DEF SavesInv
      <3>2. CASE i = Len(saves) + 1
        BY <3>2, <1>2, <1>4, <1>7, <1>9, Aarch64Types
      <3>3. QED
        BY <3>1, <3>2, <1>10
    <2>2. QED
      BY <2>1 DEF SavesInv
  <1>14. Aarch64Saves'
    <2>1. ASSUME NEW i \in 1 .. Len(saves'), NEW j \in 1 .. Len(saves'), i # j
          PROVE  saves'[i].reg # saves'[j].reg /\ slots'[i] # slots'[j]
      <3>1. CASE i \in 1 .. Len(saves) /\ j \in 1 .. Len(saves)
        BY Zenon, <2>1, <3>1, <1>4, <1>9 DEF Aarch64Saves
      <3>2. CASE i = Len(saves) + 1 /\ j \in 1 .. Len(saves)
        BY <3>2, <1>6, <1>7, <1>9
      <3>3. CASE j = Len(saves) + 1 /\ i \in 1 .. Len(saves)
        BY <3>3, <1>6, <1>7, <1>9
      <3>4. QED
        BY <2>1, <3>1, <3>2, <3>3, <1>10
    <2>2. ASSUME NEW i \in 1 .. Len(saves'), saves'[i].off = current_offset'
          PROVE  saves'[i].at = (current_cfa_offset' - slots'[i]) % OffsetValues
      <3>1. CASE i \in 1 .. Len(saves)
        BY <2>2, <3>1, <1>2, <1>4, <1>9 DEF Aarch64Saves
      <3>2. CASE i = Len(saves) + 1
        BY <3>2, <1>2, <1>7, <1>9
      <3>3. QED
        BY <3>1, <3>2, <1>10
    <2>3. ASSUME NEW i \in 1 .. Len(saves'), NEW j \in 1 .. Len(saves'),
                 saves'[i].off = saves'[j].off
          PROVE  Apart(saves'[i].at - saves'[j].at, slots'[j] - slots'[i])
      <3>1. CASE i \in 1 .. Len(saves) /\ j \in 1 .. Len(saves)
        <4>1. /\ saves'[i] = saves[i] /\ saves'[j] = saves[j]
              /\ slots'[i] = slots[i] /\ slots'[j] = slots[j]
          BY <3>1, <1>9
        <4>2. saves[i].off = saves[j].off
          BY <2>3, <4>1
        <4>3. Apart(saves[i].at - saves[j].at, slots[j] - slots[i])
          BY <3>1, <4>2, <1>4 DEF Aarch64Saves
        <4>4. QED
          BY <4>1, <4>3
      <3>2. CASE i = Len(saves) + 1 \/ j = Len(saves) + 1
        <4>1. saves'[i].off = current_offset' /\ saves'[j].off = current_offset'
          BY <2>3, <3>2, <1>2, <1>7, <1>9
        <4>2. /\ saves'[i].at = (current_cfa_offset' - slots'[i]) % OffsetValues
              /\ saves'[j].at = (current_cfa_offset' - slots'[j]) % OffsetValues
          BY <4>1, <2>2
        <4>3. /\ slots'[i] \in Aarch64Slots /\ slots'[j] \in Aarch64Slots
              /\ current_cfa_offset' \in 0 .. OffsetValues - 1
          <5>1. slots'[i] \in Aarch64Slots /\ slots'[j] \in Aarch64Slots
            BY <1>9, ElementOfSeq
          <5>2. QED
            BY <5>1, <1>2, <1>4 DEF Aarch64!TypeOK
        <4>4. PICK x \in Aarch64Slots, y \in Aarch64Slots, z \in 0 .. OffsetValues - 1 :
                x = slots'[i] /\ y = slots'[j] /\ z = current_cfa_offset'
          BY <4>3
        <4>5. PICK a, b : a = (z - x) % OffsetValues /\ b = (z - y) % OffsetValues
          OBVIOUS
        <4>6. /\ a = (IF x <= z THEN z - x ELSE z - x + OffsetValues)
              /\ b = (IF y <= z THEN z - y ELSE z - y + OffsetValues)
          BY <4>5, Wrapped
        <4>7. x \in Nat /\ y \in Nat /\ OffsetValues \in Nat
          BY Aarch64Assumption
        <4>8. Apart(a - b, y - x)
          BY <4>6, <4>7 DEF Apart
        <4>9. QED
          BY <4>2, <4>4, <4>5, <4>8
      <3>3. QED
        BY <3>1, <3>2, <1>10
    <2>4. QED
      BY <2>1, <2>2, <2>3, <1>9 DEF Aarch64Saves
  <1>15. QED
    BY <1>3, <1>11, <1>12, <1>13, <1>14 DEF Aarch64Inv

(* The first pass is over.                                                 *)
LEMMA Aarch64Ends ==
  ASSUME Aarch64Inv, Aarch64!EndOfProgram
  PROVE  Aarch64Inv'
  <1>1. /\ phase = "reading" /\ phase' = "writing"
        /\ all_offsets' = { d.off : d \in Aarch64!ToSet(other_dirs) } \cup { s.off : s \in ToSet(saves) }
        /\ UNCHANGED <<length, current_offset, current_cfa_offset, max_cfa_offset,
                       last_prologue_offset, has_fp, other_dirs, saves, pending, written, slots>>
    BY Aarch64Types DEF Aarch64!EndOfProgram, Aarch64Inv
  <1>2. written = << >> /\ pending = {} /\ Aarch64!TypeOK
    BY <1>1 DEF Aarch64Inv, WrittenOrder
  <1>3. Len(<< >>) = 0 /\ DOMAIN << >> = {} /\ 1 .. 0 = {}
    OBVIOUS
  <1>4. all_offsets' \subseteq 0 .. current_offset
    <2>1. Aarch64!ToSet(other_dirs) = { other_dirs[i] : i \in DOMAIN other_dirs }
          /\ DOMAIN other_dirs = 1 .. Len(other_dirs)
      <3>1. other_dirs \in Seq(Aarch64!DirectiveType)
        BY <1>2 DEF Aarch64!TypeOK
      <3>2. QED
        BY <3>1 DEF Aarch64!ToSet
    <2>2. \A d \in Aarch64!ToSet(other_dirs) : d.off \in 0 .. current_offset
      BY <1>2, <2>1, Aarch64Types DEF Aarch64Inv, OthersInv
    <2>3. \A s \in ToSet(saves) : s.off \in 0 .. current_offset
      BY <1>2, Aarch64Types DEF Aarch64Inv, SavesInv
    <2>4. QED
      BY <1>1, <2>2, <2>3
  <1>5. Aarch64!TypeOK'
    BY <1>1, <1>2, <1>4 DEF Aarch64!TypeOK, Aarch64!DirectiveType
  <1>6. OthersInv' /\ SavesInv' /\ Aarch64Saves'
    BY <1>1 DEF Aarch64Inv, OthersInv, SavesInv, Aarch64Saves
  <1>7. WrittenOrder'
    <2>1. Sorted(written')
      BY <1>1, <1>2, <1>3 DEF Sorted
    <2>2. QED
      BY <1>1, <1>2, <1>3, <2>1 DEF WrittenOrder
  <1>8. WrittenOnce'
    <2>1. ToSet(saves') = ToSet(saves)
      BY <1>1
    <2>2. \A s \in ToSet(saves) : s.off \in all_offsets'
      BY <1>1
    <2>3. QED
      BY <1>1, <1>2, <1>3, <2>1, <2>2 DEF WrittenOnce
  <1>9. Aarch64!NothingLeftToPair'
    BY <1>1, <1>2, <1>3 DEF Aarch64!NothingLeftToPair
  <1>10. WrittenPaired'
    BY <1>1, <1>2, <1>3, <1>9 DEF WrittenPaired
  <1>11. QED
    BY <1>5, <1>6, <1>7, <1>8, <1>10 DEF Aarch64Inv

(* Directives that are not saves stand for none.                           *)
LEMMA PlainSavesNothing ==
  ASSUME NEW d, Plain(d)
  PROVE  Aarch64!Saved(d) = {} /\ d.op \notin Singles
BY DEF Plain, Aarch64!Saved, Singles

(* The next offset: what is not a save is written, its saves are to be.    *)
LEMMA Aarch64BeginsOffset ==
  ASSUME Aarch64Inv, Aarch64!WriteOffset
  PROVE  Aarch64Inv'
  <1>1. /\ phase = "writing" /\ pending = {} /\ all_offsets # {}
        /\ UNCHANGED <<length, current_offset, current_cfa_offset, max_cfa_offset,
                       last_prologue_offset, has_fp, other_dirs, saves, phase, slots>>
    BY DEF Aarch64!WriteOffset, Aarch64!Writing
  <1>2. Aarch64!TypeOK /\ OthersInv /\ SavesInv /\ WrittenOrder /\ WrittenOnce /\ WrittenPaired
    BY DEF Aarch64Inv
  <1>3. PICK off : off = Aarch64!Min(all_offsets)
    OBVIOUS
  <1>5. PICK part : part = Aarch64!At(other_dirs, off)
    OBVIOUS
  <1>6. /\ written' = written \o part
        /\ pending' = { s \in ToSet(saves) : s.off = off }
        /\ all_offsets' = all_offsets \ {off}
    BY <1>2, <1>3, <1>5, Aarch64Types DEF Aarch64!WriteOffset
  <1>7. off \in all_offsets /\ off \in Nat /\ \A o \in all_offsets : off <= o /\ o \in Nat
    <2>1. all_offsets \subseteq Nat /\ all_offsets # {}
      BY <1>1, <1>2, Aarch64Types
    <2>2. /\ Aarch64!Min(all_offsets) \in all_offsets
          /\ \A o \in all_offsets : Aarch64!Min(all_offsets) <= o
      BY <2>1, MinFacts
    <2>3. QED
      BY <1>3, <2>1, <2>2
  <1>8. other_dirs \in Seq(Aarch64!DirectiveType) /\ written \in Seq(Aarch64!DirectiveType)
        /\ \A d \in Aarch64!DirectiveType : d.off \in Nat
    BY <1>2 DEF Aarch64!TypeOK, Aarch64!DirectiveType
  <1>9. /\ part \in Seq(Aarch64!DirectiveType)
        /\ \A k \in 1 .. Len(part) : \E m \in 1 .. Len(other_dirs) :
             part[k] = other_dirs[m] /\ other_dirs[m].off = off
    <2>1. Sorted(other_dirs) /\ \A k \in 1 .. Len(other_dirs) : other_dirs[k].off \in Nat
      BY <1>2, Aarch64Types DEF OthersInv
    <2>2. QED
      BY <1>5, <1>7, <1>8, <2>1, PartFacts
  <1>10. \A k \in 1 .. Len(part) :
           /\ Plain(part[k]) /\ part[k].off = off /\ off <= last_prologue_offset
           /\ Aarch64!Saved(part[k]) = {} /\ part[k].op \notin Singles
    BY <1>2, <1>9, PlainSavesNothing DEF OthersInv
  <1>11. /\ written' \in Seq(Aarch64!DirectiveType) /\ Len(written) \in Nat
         /\ \A k \in 1 .. Len(written) : k \in 1 .. Len(written') /\ written'[k] = written[k]
         /\ \A k \in 1 .. Len(written') : k \notin 1 .. Len(written) =>
              \E m \in 1 .. Len(part) : written'[k] = part[m]
    BY <1>6, <1>8, <1>9, Joined
  <1>12. \A k \in 1 .. Len(written) : written[k].off < off /\ written[k].off \in Nat
    BY <1>2, <1>7, Aarch64Types DEF WrittenOrder
  <1>13. \A k \in 1 .. Len(written') : k \notin 1 .. Len(written) =>
           /\ written'[k].off = off /\ off <= last_prologue_offset
           /\ Aarch64!Saved(written'[k]) = {} /\ written'[k].op \notin Singles
    BY <1>10, <1>11
  <1>14. Aarch64!TypeOK'
    <2>1. all_offsets' \subseteq 0 .. current_offset' /\ pending' \subseteq Aarch64!ToSet(saves)'
      BY <1>1, <1>2, <1>6, Aarch64Types DEF Aarch64!TypeOK, Aarch64!ToSet
    <2>2. QED
      BY <1>1, <1>2, <1>8, <1>11, <2>1 DEF Aarch64!TypeOK, Aarch64!DirectiveType
  <1>15. OthersInv' /\ SavesInv' /\ Aarch64Saves'
    BY <1>1 DEF Aarch64Inv, OthersInv, SavesInv, Aarch64Saves
  <1>16. WrittenOrder'
    <2>1. Sorted(written')
      <3>1. \A k \in 1 .. Len(written) : written[k].off <= off
        BY <1>7, <1>12
      <3>2. \A k \in 1 .. Len(part) : part[k].off = off
        BY <1>10
      <3>3. QED
        BY <1>2, <1>6, <1>7, <1>8, <1>9, <3>1, <3>2, SortedJoin DEF WrittenOrder
    <2>2. ASSUME NEW k \in 1 .. Len(written')
          PROVE  /\ written'[k].off <= last_prologue_offset'
                 /\ \A o \in all_offsets' : written'[k].off < o
                 /\ \A s \in pending' : written'[k].off <= s.off
      <3>1. CASE k \in 1 .. Len(written)
        <4>1. written'[k] = written[k] /\ written[k].off < off /\ written[k].off \in Nat
          BY <3>1, <1>11, <1>12
        <4>2. written[k].off <= last_prologue_offset /\ \A o \in all_offsets : written[k].off < o
          BY <3>1, <1>2 DEF WrittenOrder
        <4>3. \A s \in pending' : s.off = off
          BY <1>6
        <4>4. written'[k].off <= last_prologue_offset' /\ \A o \in all_offsets' : written'[k].off < o
          BY <4>1, <4>2, <1>1, <1>6
        <4>5. written'[k].off <= off
          BY <4>1, <1>7
        <4>6. QED
          BY <4>3, <4>4, <4>5
      <3>2. CASE k \notin 1 .. Len(written)
        BY <3>2, <1>1, <1>6, <1>7, <1>13
      <3>3. QED
        BY <3>1, <3>2
    <2>3. ASSUME NEW i \in 1 .. Len(written'), NEW j \in 1 .. Len(written'), i < j,
                 written'[i].off = written'[j].off, Aarch64!Saved(written'[i]) # {}
          PROVE  Aarch64!Saved(written'[j]) # {}
      <3>1. i \in 1 .. Len(written)
        BY <2>3, <1>13
      <3>2. written'[i].off = written[i].off /\ written[i].off < off /\ written[i].off \in Nat
        BY <3>1, <1>11, <1>12
      <3>3. j \in 1 .. Len(written)
        <4>1. written'[j].off # off
          BY <2>3, <3>2, <1>7
        <4>2. QED
          BY <4>1, <1>13
      <3>4. QED
        BY <2>3, <3>1, <3>3, <1>2, <1>11 DEF WrittenOrder
    <2>4. \A s \in pending' : s.off = off
      BY <1>6
    <2>5. \A o \in all_offsets' : off < o
      BY <1>6, <1>7
    <2>6. QED
      BY <1>1, <2>1, <2>2, <2>3, <2>4, <2>5 DEF WrittenOrder
  <1>17. WrittenOnce'
    <2>1. ASSUME NEW i \in 1 .. Len(written'), NEW s \in Aarch64!Saved(written'[i])
          PROVE  /\ s \in ToSet(saves)' /\ s.reg \in Aarch64!Named /\ s \notin pending'
                 /\ s.off = written'[i].off
      <3>1. i \in 1 .. Len(written) /\ written'[i] = written[i]
        BY <2>1, <1>11, <1>13
      <3>2. /\ s \in ToSet(saves) /\ s.reg \in Aarch64!Named /\ s.off = written[i].off
            /\ written[i].off < off /\ written[i].off \in Nat
        BY <2>1, <3>1, <1>2, <1>12 DEF WrittenOnce
      <3>3. QED
        BY <3>1, <3>2, <1>1, <1>6, <1>7
    <2>2. ASSUME NEW i \in 1 .. Len(written'), NEW j \in 1 .. Len(written'), i # j
          PROVE  Aarch64!Saved(written'[i]) \cap Aarch64!Saved(written'[j]) = {}
      <3>1. CASE i \in 1 .. Len(written) /\ j \in 1 .. Len(written)
        BY <2>2, <3>1, <1>2, <1>11 DEF WrittenOnce
      <3>2. CASE ~ (i \in 1 .. Len(written) /\ j \in 1 .. Len(written))
        BY <3>2, <1>13
      <3>3. QED
        BY <3>1, <3>2
    <2>3. ASSUME NEW s \in ToSet(saves)', s.reg \in Aarch64!Named
          PROVE  \/ s \in pending' \/ s.off \in all_offsets'
                 \/ \E i \in 1 .. Len(written') : s \in Aarch64!Saved(written'[i])
      <3>1. s \in ToSet(saves)
        BY <2>3, <1>1
      <3>2. CASE s.off \in all_offsets
        BY <3>1, <3>2, <1>6
      <3>3. CASE s.off \notin all_offsets
        <4>1. PICK i \in 1 .. Len(written) : s \in Aarch64!Saved(written[i])
          BY <3>1, <3>3, <2>3, <1>1, <1>2 DEF WrittenOnce
        <4>2. QED
          BY <4>1, <1>11
      <3>4. QED
        BY <3>2, <3>3
    <2>4. QED
      BY <2>1, <2>2, <2>3 DEF WrittenOnce
  <1>18. WrittenPaired'
    <2>1. ASSUME NEW i \in 1 .. Len(written'), NEW t \in pending', t.off = written'[i].off
          PROVE  i \notin 1 .. Len(written)
      <3>1. t.off = off
        BY <1>6
      <3>2. QED
        BY <3>1, <2>1, <1>7, <1>11, <1>12
    <2>2. ASSUME NEW i \in 1 .. Len(written'), NEW s \in Aarch64!Saved(written'[i]),
                 NEW t \in pending', s.off = t.off
          PROVE  s.at < t.at
      <3>1. i \in 1 .. Len(written) /\ written'[i] = written[i]
        BY <2>2, <1>11, <1>13
      <3>2. s.off = written[i].off
        BY <2>2, <3>1, <1>2 DEF WrittenOnce
      <3>3. QED
        BY <3>1, <3>2, <2>1, <2>2
    <2>3. ASSUME NEW i \in 1 .. Len(written'), written'[i].op \in Singles
          PROVE  /\ 1 \in DOMAIN written'[i].regs
                 /\ \A t \in pending' : t.off = written'[i].off =>
                      Aarch64!PairOp(Key(written'[i]), t) = "none"
      <3>1. i \in 1 .. Len(written) /\ written'[i] = written[i]
        BY <2>3, <1>11, <1>13
      <3>2. 1 \in DOMAIN written'[i].regs
        BY <2>3, <3>1, <1>2 DEF WrittenPaired
      <3>3. \A t \in pending' : t.off # written'[i].off
        BY <3>1, <2>1
      <3>4. QED
        BY <3>2, <3>3
    <2>4. Aarch64!NothingLeftToPair'
      <3>1. \A i \in DOMAIN written' : i \in 1 .. Len(written')
        BY <1>11
      <3>2. ASSUME NEW i \in DOMAIN written', NEW j \in DOMAIN written',
                   written'[i].off = written'[j].off, written'[i].op \in Singles,
                   written'[j].op = written'[i].op, written'[i].arg < written'[j].arg
            PROVE  Aarch64!PairOp(Key(written'[i]), Key(written'[j])) = "none"
        <4>1. /\ i \in 1 .. Len(written) /\ j \in 1 .. Len(written)
              /\ written'[i] = written[i] /\ written'[j] = written[j]
          BY <3>1, <3>2, <1>11, <1>13
        <4>2. i \in DOMAIN written /\ j \in DOMAIN written
          BY <4>1, <1>2, Aarch64Types
        <4>3. QED
          BY <4>1, <4>2, <3>2, <1>2 DEF WrittenPaired, Aarch64!NothingLeftToPair, Singles, Key
      <3>3. QED
        BY <3>2 DEF Aarch64!NothingLeftToPair, Singles, Key
    <2>5. QED
      BY <2>2, <2>3, <2>4 DEF WrittenPaired
  <1>19. QED
    BY <1>14, <1>15, <1>16, <1>17, <1>18 DEF Aarch64Inv


(* The first of some saves by slot.                                        *)
LEMMA FirstFacts ==
  ASSUME Aarch64!TypeOK, NEW T, T \subseteq ToSet(saves), T # {}
  PROVE  Aarch64!First(T) \in T /\ \A t \in T : Aarch64!First(T).at <= t.at
  <1>1. \A s \in T : s.at \in Nat
    BY Aarch64Types
  <1> DEFINE ats == { s.at : s \in T }
  <1>2. ats \subseteq Nat /\ ats # {}
    BY <1>1
  <1>3. PICK a \in ats : \A b \in ats : a <= b
    BY <1>2, Least
  <1>4. PICK s \in T : a = s.at
    OBVIOUS
  <1>5. \A t \in T : s.at <= t.at
    BY <1>3, <1>4
  <1>6. QED
    BY <1>4, <1>5 DEF Aarch64!First

(* The saves that are written leave the rest to be written.                *)
LEMMA Aarch64Drops ==
  ASSUME Aarch64Inv, NEW W, pending' \subseteq pending, W = pending \ pending',
         \A s \in W : s.reg \notin Aarch64!Named,
         UNCHANGED <<length, current_offset, current_cfa_offset, max_cfa_offset, all_offsets,
                     written, last_prologue_offset, has_fp, other_dirs, saves, phase, slots>>
  PROVE  Aarch64Inv'
  <1>1. Aarch64!TypeOK'
    <2>1. pending' \subseteq Aarch64!ToSet(saves)'
      BY DEF Aarch64Inv, Aarch64!TypeOK, Aarch64!ToSet
    <2>2. QED
      BY <2>1 DEF Aarch64Inv, Aarch64!TypeOK, Aarch64!DirectiveType
  <1>2. OthersInv' /\ SavesInv' /\ Aarch64Saves'
    BY DEF Aarch64Inv, OthersInv, SavesInv, Aarch64Saves
  <1>3. WrittenOrder'
    <2>1. WrittenOrder
      BY DEF Aarch64Inv
    <2>2. Sorted(written') /\ (phase' = "reading" => written' = << >> /\ pending' = {} /\ all_offsets' = {})
      BY <2>1 DEF WrittenOrder
    <2>3. /\ \A k \in 1 .. Len(written') :
               /\ written'[k].off <= last_prologue_offset'
               /\ \A o \in all_offsets' : written'[k].off < o
               /\ \A s \in pending' : written'[k].off <= s.off
          /\ \A s, u \in pending' : s.off = u.off
          /\ \A s \in pending' : \A o \in all_offsets' : s.off < o
      BY <2>1 DEF WrittenOrder
    <2>4. ASSUME NEW k \in 1 .. Len(written'), NEW j \in 1 .. Len(written'), k < j,
                 written'[k].off = written'[j].off, Aarch64!Saved(written'[k]) # {}
          PROVE  Aarch64!Saved(written'[j]) # {}
      BY <2>1, <2>4 DEF WrittenOrder
    <2>5. QED
      BY <2>2, <2>3, <2>4 DEF WrittenOrder
  <1>4. WrittenOnce'
    <2>1. ToSet(saves') = ToSet(saves)
      OBVIOUS
    <2>2. \A s \in pending : s.reg \in Aarch64!Named => s \in pending'
      OBVIOUS
    <2>3. QED
      BY <2>1, <2>2 DEF Aarch64Inv, WrittenOnce
  <1>5. WrittenPaired'
    <2>1. Aarch64!NothingLeftToPair'
      BY DEF Aarch64Inv, WrittenPaired, Aarch64!NothingLeftToPair
    <2>2. QED
      BY <2>1 DEF Aarch64Inv, WrittenPaired
  <1>6. QED
    BY <1>1, <1>2, <1>3, <1>4, <1>5 DEF Aarch64Inv

(* A directive d that stands for the saves W, the lowest there are.        *)
LEMMA Aarch64Writes ==
  ASSUME Aarch64Inv, phase = "writing", NEW d \in Aarch64!DirectiveType,
         NEW W, W \subseteq pending, W # {}, Aarch64!Saved(d) = W,
         written' = written \o <<d>>, pending' = pending \ W,
         \A s \in W : s.off = d.off /\ s.reg \in Aarch64!Named,
         \A s \in W : \A t \in pending \ W : s.at < t.at,
         d.op \in Singles =>
           /\ 1 \in DOMAIN d.regs /\ [off |-> d.off, reg |-> d.regs[1], at |-> d.arg] \in W
           /\ \A t \in pending \ W : Aarch64!PairOp(Key(d), t) = "none",
         UNCHANGED <<length, current_offset, current_cfa_offset, max_cfa_offset, all_offsets,
                     last_prologue_offset, has_fp, other_dirs, saves, phase, slots>>
  PROVE  Aarch64Inv'
  <1>1. Aarch64!TypeOK /\ SavesInv /\ WrittenOrder /\ WrittenOnce /\ WrittenPaired
        /\ written \in Seq(Aarch64!DirectiveType) /\ pending \subseteq ToSet(saves)
    BY Aarch64Types DEF Aarch64Inv, Aarch64!TypeOK
  <1>2. PICK s0 \in W : s0 \in pending /\ s0.off = d.off
    OBVIOUS
  <1>3. /\ d.off \in Nat /\ d.off <= last_prologue_offset
        /\ \A o \in all_offsets : d.off < o
        /\ \A t \in pending : t.off = d.off
        /\ \A i \in 1 .. Len(written) : written[i].off <= d.off
    BY SMTT(60), <1>1, <1>2, Aarch64Types DEF WrittenOrder, SavesInv
  <1>4. <<d>> \in Seq(Aarch64!DirectiveType) /\ Len(<<d>>) = 1 /\ <<d>>[1] = d
    OBVIOUS
  <1>5. /\ written' \in Seq(Aarch64!DirectiveType) /\ Len(written) \in Nat
        /\ Len(written') = Len(written) + 1
        /\ \A k \in 1 .. Len(written) : k \in 1 .. Len(written') /\ written'[k] = written[k]
        /\ \A k \in 1 .. Len(written') : k \notin 1 .. Len(written) =>
             k = Len(written) + 1 /\ written'[k] = d
    <2>1. /\ written \o <<d>> \in Seq(Aarch64!DirectiveType) /\ Len(written) \in Nat
          /\ Len(written \o <<d>>) = Len(written) + 1
          /\ \A k \in 1 .. Len(written) : (written \o <<d>>)[k] = written[k]
          /\ \A k \in 1 .. Len(written \o <<d>>) : k \notin 1 .. Len(written) =>
               k - Len(written) \in 1 .. 1 /\ (written \o <<d>>)[k] = <<d>>[k - Len(written)]
      BY <1>1, <1>4, Joined
    <2>2. \A k \in 1 .. Len(written) + 1 : k \notin 1 .. Len(written) => k = Len(written) + 1
      BY <2>1
    <2>3. QED
      BY <2>1, <2>2, <1>4
  <1>6. Aarch64!TypeOK'
    <2>1. pending' \subseteq Aarch64!ToSet(saves)'
      BY DEF Aarch64Inv, Aarch64!TypeOK, Aarch64!ToSet
    <2>2. QED
      BY <1>1, <1>5, <2>1 DEF Aarch64!TypeOK, Aarch64!DirectiveType
  <1>7. OthersInv' /\ SavesInv' /\ Aarch64Saves'
    BY DEF Aarch64Inv, OthersInv, SavesInv, Aarch64Saves
  <1>8. WrittenOrder'
    <2>1. Sorted(written')
      <3>1. \A k \in 1 .. Len(<<d>>) : <<d>>[k].off = d.off
        BY <1>4
      <3>2. \A e \in Aarch64!DirectiveType : e.off \in Nat
        BY DEF Aarch64!DirectiveType
      <3>3. QED
        BY <1>1, <1>3, <1>4, <3>1, <3>2, SortedJoin DEF WrittenOrder
    <2>2. ASSUME NEW k \in 1 .. Len(written')
          PROVE  /\ written'[k].off <= last_prologue_offset'
                 /\ \A o \in all_offsets' : written'[k].off < o
                 /\ \A s \in pending' : written'[k].off <= s.off
      <3>1. CASE k \in 1 .. Len(written)
        BY <3>1, <1>1, <1>5 DEF WrittenOrder
      <3>2. CASE k \notin 1 .. Len(written)
        BY <3>2, <1>3, <1>5
      <3>3. QED
        BY <3>1, <3>2
    <2>3. ASSUME NEW i \in 1 .. Len(written'), NEW j \in 1 .. Len(written'), i < j,
                 written'[i].off = written'[j].off, Aarch64!Saved(written'[i]) # {}
          PROVE  Aarch64!Saved(written'[j]) # {}
      <3>1. CASE j \in 1 .. Len(written)
        <4>1. i \in 1 .. Len(written)
          BY <2>3, <3>1, <1>5
        <4>2. written'[i] = written[i] /\ written'[j] = written[j]
          BY <3>1, <4>1, <1>5
        <4>3. Aarch64!Saved(written[j]) # {}
          BY <2>3, <3>1, <4>1, <4>2, <1>1 DEF WrittenOrder
        <4>4. QED
          BY <4>2, <4>3
      <3>2. CASE j \notin 1 .. Len(written)
        BY <3>2, <1>5
      <3>3. QED
        BY <3>1, <3>2
    <2>4. QED
      BY Zenon, <1>1, <2>1, <2>2, <2>3 DEF WrittenOrder
  <1>9. WrittenOnce'
    <2>1. ASSUME NEW i \in 1 .. Len(written'), NEW s \in Aarch64!Saved(written'[i])
          PROVE  /\ s \in ToSet(saves)' /\ s.reg \in Aarch64!Named /\ s \notin pending'
                 /\ s.off = written'[i].off
      <3>1. CASE i \in 1 .. Len(written)
        BY <2>1, <3>1, <1>1, <1>5 DEF WrittenOnce
      <3>2. CASE i \notin 1 .. Len(written)
        BY <2>1, <3>2, <1>1, <1>5
      <3>3. QED
        BY <3>1, <3>2
    <2>2. ASSUME NEW i \in 1 .. Len(written), NEW s \in Aarch64!Saved(written[i])
          PROVE  s \notin W
      BY <2>2, <1>1 DEF WrittenOnce
    <2>3. ASSUME NEW i \in 1 .. Len(written'), NEW j \in 1 .. Len(written'), i # j
          PROVE  Aarch64!Saved(written'[i]) \cap Aarch64!Saved(written'[j]) = {}
      <3>1. CASE i \in 1 .. Len(written) /\ j \in 1 .. Len(written)
        BY <2>3, <3>1, <1>1, <1>5 DEF WrittenOnce
      <3>2. CASE i \in 1 .. Len(written) /\ j \notin 1 .. Len(written)
        BY <3>2, <2>2, <1>5
      <3>3. CASE i \notin 1 .. Len(written) /\ j \in 1 .. Len(written)
        BY <3>3, <2>2, <1>5
      <3>4. CASE i \notin 1 .. Len(written) /\ j \notin 1 .. Len(written)
        BY <2>3, <3>4, <1>5
      <3>5. QED
        BY <3>1, <3>2, <3>3, <3>4
    <2>4. ASSUME NEW s \in ToSet(saves)', s.reg \in Aarch64!Named
          PROVE  \/ s \in pending' \/ s.off \in all_offsets'
                 \/ \E i \in 1 .. Len(written') : s \in Aarch64!Saved(written'[i])
      <3>1. s \in ToSet(saves)
        BY <2>4
      <3>2. CASE s \in W
        <4>1. Len(written) + 1 \in 1 .. Len(written') /\ Len(written) + 1 \notin 1 .. Len(written)
          BY <1>5
        <4>2. s \in Aarch64!Saved(written'[Len(written) + 1])
          BY <3>2, <4>1, <1>5
        <4>3. QED
          BY <4>1, <4>2
      <3>3. CASE s \notin W /\ (s \in pending \/ s.off \in all_offsets)
        BY <3>3
      <3>4. CASE s \notin pending /\ s.off \notin all_offsets
        <4>1. PICK i \in 1 .. Len(written) : s \in Aarch64!Saved(written[i])
          BY <2>4, <3>1, <3>4, <1>1 DEF WrittenOnce
        <4>2. QED
          BY <4>1, <1>5
      <3>5. QED
        BY <3>2, <3>3, <3>4
    <2>5. QED
      BY <1>1, <2>1, <2>3, <2>4 DEF WrittenOnce
  <1>10. WrittenPaired'
    <2>1. ASSUME NEW i \in 1 .. Len(written'), NEW s \in Aarch64!Saved(written'[i]),
                 NEW t \in pending', s.off = t.off
          PROVE  s.at < t.at
      <3>1. CASE i \in 1 .. Len(written)
        BY <2>1, <3>1, <1>1, <1>5 DEF WrittenPaired
      <3>2. CASE i \notin 1 .. Len(written)
        BY <2>1, <3>2, <1>5
      <3>3. QED
        BY <3>1, <3>2
    <2>2. ASSUME NEW i \in 1 .. Len(written'), written'[i].op \in Singles
          PROVE  /\ 1 \in DOMAIN written'[i].regs
                 /\ \A t \in pending' : t.off = written'[i].off =>
                      Aarch64!PairOp(Key(written'[i]), t) = "none"
      <3>1. CASE i \in 1 .. Len(written)
        BY <2>2, <3>1, <1>1, <1>5 DEF WrittenPaired
      <3>2. CASE i \notin 1 .. Len(written)
        BY <2>2, <3>2, <1>5
      <3>3. QED
        BY <3>1, <3>2
    <2>3. ASSUME NEW i \in 1 .. Len(written), written[i].op \in Singles, d.op \in Singles,
                 written[i].off = d.off
          PROVE  Aarch64!PairOp(Key(written[i]), Key(d)) = "none" /\ ~ (d.arg < written[i].arg)
      <3>1. PICK t : t = [off |-> d.off, reg |-> d.regs[1], at |-> d.arg]
        OBVIOUS
      <3>2. t \in W /\ t \in pending /\ t.off = d.off /\ t.reg = Key(d).reg /\ t.at = Key(d).at
        BY <2>3, <3>1 DEF Key
      <3>3. Aarch64!PairOp(Key(written[i]), t) = "none" /\ 1 \in DOMAIN written[i].regs
        BY <2>3, <3>2, <1>1 DEF WrittenPaired
      <3>4. Aarch64!PairOp(Key(written[i]), Key(d)) = "none"
        BY <3>2, <3>3 DEF Aarch64!PairOp
      <3>5. PICK s : s = [off |-> written[i].off, reg |-> written[i].regs[1], at |-> written[i].arg]
        OBVIOUS
      <3>6. s \in Aarch64!Saved(written[i])
        <4>1. written[i].arg + 8 * (1 - 1) = written[i].arg
          BY <1>1, Aarch64Types DEF Aarch64!DirectiveType
        <4>2. written[i].op \notin {"stackalloc", "frame"}
          BY <2>3 DEF Singles
        <4>3. QED
          BY <3>3, <3>5, <4>1, <4>2 DEF Aarch64!Saved
      <3>7. s.at < t.at /\ s.at \in Nat /\ t.at \in Nat
        <4>1. s.off = t.off /\ s \in ToSet(saves)
          BY <2>3, <3>2, <3>5, <3>6, <1>1 DEF WrittenOnce
        <4>2. s.at < t.at
          BY <3>2, <3>6, <4>1, <1>1 DEF WrittenPaired
        <4>3. t \in ToSet(saves)
          BY <3>2, <1>1
        <4>4. \A u \in ToSet(saves) : u.at \in Nat
          BY <1>1, Aarch64Types
        <4>5. QED
          BY <4>1, <4>2, <4>3, <4>4
      <3>8. s.at = written[i].arg /\ t.at = d.arg
        BY <3>1, <3>5
      <3>9. QED
        BY <3>4, <3>7, <3>8
    <2>4. ~ (d.arg < d.arg)
      BY DEF Aarch64!DirectiveType
    <2>5. Aarch64!NothingLeftToPair'
      <3>1. DOMAIN written' = 1 .. Len(written') /\ DOMAIN written = 1 .. Len(written)
        BY <1>1, <1>5, LenProperties
      <3>2. ASSUME NEW i \in 1 .. Len(written'), NEW j \in 1 .. Len(written'),
                   written'[i].off = written'[j].off, written'[i].op \in Singles,
                   written'[j].op = written'[i].op, written'[i].arg < written'[j].arg
            PROVE  Aarch64!PairOp(Key(written'[i]), Key(written'[j])) = "none"
        <4>1. CASE i \in 1 .. Len(written) /\ j \in 1 .. Len(written)
          <5>1. written'[i] = written[i] /\ written'[j] = written[j]
            BY <4>1, <1>5
          <5>2. i \in DOMAIN written /\ j \in DOMAIN written
            BY <3>1, <4>1
          <5>3. Aarch64!PairOp(Key(written[i]), Key(written[j])) = "none"
            <6>1. Aarch64!NothingLeftToPair
              BY <1>1 DEF WrittenPaired
            <6>2. written[i].off = written[j].off /\ written[i].op \in Singles
                  /\ written[j].op = written[i].op /\ written[i].arg < written[j].arg
              BY <5>1, <3>2
            <6>3. QED
              BY <5>2, <6>1, <6>2 DEF Aarch64!NothingLeftToPair, Singles, Key
          <5>4. QED
            BY <5>1, <5>3
        <4>2. CASE i \in 1 .. Len(written) /\ j \notin 1 .. Len(written)
          BY <4>2, <3>2, <2>3, <1>5
        <4>3. CASE i \notin 1 .. Len(written) /\ j \in 1 .. Len(written)
          BY <4>3, <3>2, <2>3, <1>5
        <4>4. CASE i \notin 1 .. Len(written) /\ j \notin 1 .. Len(written)
          BY <4>4, <3>2, <2>4, <1>5
        <4>5. QED
          BY <4>1, <4>2, <4>3, <4>4
      <3>3. \A i, j \in DOMAIN written' :
              written'[i].off = written'[j].off /\ written'[i].op \in Singles
                /\ written'[j].op = written'[i].op /\ written'[i].arg < written'[j].arg
              => Aarch64!PairOp(Key(written'[i]), Key(written'[j])) = "none"
        BY <3>1, <3>2
      <3>4. QED
        BY <3>3 DEF Aarch64!NothingLeftToPair, Singles, Key
    <2>6. QED
      BY <2>1, <2>2, <2>5 DEF WrittenPaired
  <1>11. QED
    BY <1>6, <1>7, <1>8, <1>9, <1>10 DEF Aarch64Inv


(* The first of some saves of one code offset is eight bytes below the     *)
(* others or more.                                                         *)
LEMMA FirstBelow ==
  ASSUME Aarch64Inv, NEW T, T \subseteq pending, NEW s \in T, s = Aarch64!First(T),
         NEW t \in T, t # s
  PROVE  s.at \in Nat /\ t.at \in Nat /\ s.at + 8 <= t.at
  <1>1. Aarch64!TypeOK /\ Aarch64Saves /\ pending \subseteq ToSet(saves)
    BY Aarch64Types DEF Aarch64Inv, Aarch64!TypeOK
  <1>2. s.off = t.off /\ s \in ToSet(saves) /\ t \in ToSet(saves)
    BY <1>1 DEF Aarch64Inv, WrittenOrder
  <1>3. s.at <= t.at
    BY <1>1, FirstFacts
  <1>4. s.at \in Nat /\ t.at \in Nat /\ (s.at + 8 <= t.at \/ t.at + 8 <= s.at)
    BY <1>1, <1>2, SavesApart
  <1>5. PICK a \in Nat, b \in Nat : a = s.at /\ b = t.at
    BY <1>4
  <1>6. QED
    BY <1>3, <1>4, <1>5

(* A save is the record of its parts.                                      *)
LEMMA SaveParts ==
  ASSUME Aarch64!TypeOK, NEW s \in ToSet(saves)
  PROVE  /\ s = [off |-> s.off, reg |-> s.reg, at |-> s.at]
         /\ s.off \in Nat /\ s.reg \in Nat /\ s.at \in Nat
  <1>1. s \in [off: Nat, reg: Aarch64Registers, at: 0 .. OffsetValues - 1]
    BY Aarch64Types
  <1>2. QED
    BY <1>1, Aarch64Types

(* A turn of the loop over the saves.                                      *)
LEMMA Aarch64WritesSave ==
  ASSUME Aarch64Inv, Aarch64!WriteSave
  PROVE  Aarch64Inv'
  <1>1. /\ phase = "writing" /\ pending # {}
        /\ UNCHANGED <<length, current_offset, current_cfa_offset, max_cfa_offset, all_offsets,
                       last_prologue_offset, has_fp, other_dirs, saves, phase, slots>>
    BY DEF Aarch64!WriteSave, Aarch64!Writing
  <1>2. Aarch64!TypeOK /\ pending \subseteq ToSet(saves) /\ written \in Seq(Aarch64!DirectiveType)
    BY Aarch64Types DEF Aarch64Inv, Aarch64!TypeOK
  <1>3. PICK s1, s2 : s1 = Aarch64!First(pending) /\ s2 = Aarch64!First(pending \ {s1})
    OBVIOUS
  <1>4. IF pending # {s1} /\ Aarch64!PairOp(s1, s2) # "none"
          THEN written' = written \o Aarch64!Pair(s1, s2) /\ pending' = Aarch64!AfterPair(s1, s2)
          ELSE written' = written \o Aarch64!Single(s1) /\ pending' = pending \ {s1}
    BY <1>3 DEF Aarch64!WriteSave
  <1>5. s1 \in pending /\ s1 \in ToSet(saves)
    BY <1>1, <1>2, <1>3, FirstFacts
  <1>6. /\ s1 = [off |-> s1.off, reg |-> s1.reg, at |-> s1.at]
        /\ s1.off \in Nat /\ s1.reg \in Nat /\ s1.at \in Nat
    BY <1>2, <1>5, SaveParts
  <1>7. \A t \in pending : t # s1 => t.at \in Nat /\ s1.at + 8 <= t.at
    BY <1>3, <1>5, FirstBelow
  <1>8. ASSUME pending # {s1}
        PROVE  /\ s2 \in pending /\ s2 # s1 /\ s2.off = s1.off
               /\ s2 = [off |-> s2.off, reg |-> s2.reg, at |-> s2.at]
               /\ s2.off \in Nat /\ s2.reg \in Nat /\ s2.at \in Nat /\ s1.at + 8 <= s2.at
               /\ \A t \in pending : t # s1 /\ t # s2 => t.at \in Nat /\ s2.at + 8 <= t.at
    <2>1. PICK T : T = pending \ {s1}
      OBVIOUS
    <2>2. T \subseteq pending /\ T \subseteq ToSet(saves) /\ T # {}
      BY <1>2, <1>5, <1>8, <2>1
    <2>3. s2 = Aarch64!First(T) /\ s2 \in T
      BY <1>2, <1>3, <2>1, <2>2, FirstFacts
    <2>4. \A t \in T : t # s2 => t.at \in Nat /\ s2.at + 8 <= t.at
      BY <2>2, <2>3, FirstBelow
    <2>5. s2 \in pending /\ s2 # s1 /\ s2 \in ToSet(saves)
      BY <2>1, <2>2, <2>3
    <2>6. s2.off = s1.off
      BY <1>5, <2>5 DEF Aarch64Inv, WrittenOrder
    <2>7. /\ s2 = [off |-> s2.off, reg |-> s2.reg, at |-> s2.at]
          /\ s2.off \in Nat /\ s2.reg \in Nat /\ s2.at \in Nat
      BY <1>2, <2>5, SaveParts
    <2>8. QED
      BY <1>7, <2>1, <2>4, <2>5, <2>6, <2>7
  <1>9. CASE pending # {s1} /\ Aarch64!PairOp(s1, s2) # "none"
    <2>1. PICK op : op = Aarch64!PairOp(s1, s2)
      OBVIOUS
    <2>2. /\ s2.at = s1.at + 8 /\ s1.reg \in Aarch64!Named /\ s2.reg \in Aarch64!Named
          /\ op \in {"save_fplr", "save_freg_p", "save_reg_p"}
      <3>1. /\ s2.at = (s1.at + 8) % OffsetValues
            /\ s1.reg \in Aarch64!Named /\ s2.reg \in Aarch64!Named
            /\ op \in {"save_fplr", "save_freg_p", "save_reg_p"}
        BY <1>9, <2>1 DEF Aarch64!PairOp
      <3>2. s1.at + 8 <= s2.at /\ s2.at \in Nat /\ s2.at < OffsetValues
        BY <1>2, <1>8, <1>9, Aarch64Types
      <3>3. (s1.at + 8) % OffsetValues = s1.at + 8
        BY <1>6, <3>2, Small
      <3>4. QED
        BY <3>1, <3>3
    <2>3. PICK d : d = Aarch64!Directive(s1, op, <<s1.reg, s2.reg>>)
      OBVIOUS
    <2>4. /\ d.off = s1.off /\ d.op = op /\ d.arg = s1.at /\ d.regs = <<s1.reg, s2.reg>>
          /\ d \in Aarch64!DirectiveType
      <3>1. <<s1.reg, s2.reg>> \in Seq(Nat)
        BY <1>6, <1>8, <1>9
      <3>2. QED
        BY <2>2, <2>3, <3>1, <1>6 DEF Aarch64!Directive, Aarch64!DirectiveType
    <2>5. Aarch64!Saved(d) = {s1, s2}
      <3>1. /\ DOMAIN <<s1.reg, s2.reg>> = {1, 2}
            /\ <<s1.reg, s2.reg>>[1] = s1.reg /\ <<s1.reg, s2.reg>>[2] = s2.reg
        OBVIOUS
      <3>2. s1.at + 8 * (1 - 1) = s1.at /\ s1.at + 8 * (2 - 1) = s2.at
        BY <1>6, <2>2
      <3>3. Aarch64!Saved(d) =
              { [off |-> s1.off, reg |-> <<s1.reg, s2.reg>>[k], at |-> s1.at + 8 * (k - 1)] : k \in {1, 2} }
        BY <2>2, <2>4, <3>1 DEF Aarch64!Saved
      <3>4. /\ [off |-> s1.off, reg |-> <<s1.reg, s2.reg>>[1], at |-> s1.at + 8 * (1 - 1)] = s1
            /\ [off |-> s1.off, reg |-> <<s1.reg, s2.reg>>[2], at |-> s1.at + 8 * (2 - 1)] = s2
        BY <1>6, <1>8, <1>9, <3>1, <3>2
      <3>5. QED
        BY <3>3, <3>4
    <2>6. PICK W : W = {s1, s2}
      OBVIOUS
    <2>7. written' = written \o <<d>> /\ pending' = pending \ W
      BY <1>4, <1>9, <2>1, <2>3, <2>6 DEF Aarch64!Pair, Aarch64!AfterPair
    <2>8. W \subseteq pending /\ W # {} /\ Aarch64!Saved(d) = W
          /\ \A s \in W : s.off = d.off /\ s.reg \in Aarch64!Named
      BY <1>5, <1>8, <1>9, <2>2, <2>4, <2>5, <2>6
    <2>9. ASSUME NEW s \in W, NEW t \in pending \ W PROVE s.at < t.at
      <3>1. t \in pending /\ t # s1 /\ t # s2
        BY <2>6
      <3>2. t.at \in Nat /\ s1.at + 8 <= t.at /\ s2.at + 8 <= t.at
        BY <1>7, <1>8, <1>9, <3>1
      <3>3. QED
        BY <2>6, <3>2, <1>6, <1>8, <1>9
    <2>10. d.op \notin Singles
      BY <2>2, <2>4 DEF Singles
    <2>11. QED
      BY <1>1, <2>4, <2>7, <2>8, <2>9, <2>10, Aarch64Writes
  <1>10. CASE ~ (pending # {s1} /\ Aarch64!PairOp(s1, s2) # "none") /\ s1.reg \notin Aarch64!Named
    <2>1. written' = written /\ pending' = pending \ {s1}
      BY <1>2, <1>4, <1>10 DEF Aarch64!Single
    <2>2. PICK W : W = pending \ pending'
      OBVIOUS
    <2>3. \A s \in W : s.reg \notin Aarch64!Named
      BY <1>10, <2>1, <2>2
    <2>4. QED
      BY <1>1, <2>1, <2>2, <2>3, Aarch64Drops
  <1>11. CASE ~ (pending # {s1} /\ Aarch64!PairOp(s1, s2) # "none") /\ s1.reg \in Aarch64!Named
    <2>1. PICK op : op = IF s1.reg \in Aarch64!FpRegs THEN "save_freg" ELSE "save_reg"
      OBVIOUS
    <2>2. PICK d : d = Aarch64!Directive(s1, op, <<s1.reg>>)
      OBVIOUS
    <2>3. /\ d.off = s1.off /\ d.op = op /\ d.arg = s1.at /\ d.regs = <<s1.reg>>
          /\ d \in Aarch64!DirectiveType /\ op \in Singles
      <3>1. <<s1.reg>> \in Seq(Nat)
        BY <1>6
      <3>2. QED
        BY <2>1, <2>2, <3>1, <1>6 DEF Aarch64!Directive, Aarch64!DirectiveType, Singles
    <2>4. DOMAIN <<s1.reg>> = {1} /\ <<s1.reg>>[1] = s1.reg
      OBVIOUS
    <2>5. Aarch64!Saved(d) = {s1}
      <3>1. s1.at + 8 * (1 - 1) = s1.at
        BY <1>6
      <3>2. Aarch64!Saved(d) =
              { [off |-> s1.off, reg |-> <<s1.reg>>[k], at |-> s1.at + 8 * (k - 1)] : k \in {1} }
        BY <2>3, <2>4 DEF Aarch64!Saved, Singles
      <3>3. [off |-> s1.off, reg |-> <<s1.reg>>[1], at |-> s1.at + 8 * (1 - 1)] = s1
        BY <1>6, <2>4, <3>1
      <3>4. QED
        BY <3>2, <3>3
    <2>6. PICK W : W = {s1}
      OBVIOUS
    <2>7. written' = written \o <<d>> /\ pending' = pending \ W
      BY <1>4, <1>11, <2>1, <2>2, <2>6 DEF Aarch64!Single
    <2>8. W \subseteq pending /\ W # {} /\ Aarch64!Saved(d) = W
          /\ \A s \in W : s.off = d.off /\ s.reg \in Aarch64!Named
      BY <1>5, <1>11, <2>3, <2>5, <2>6
    <2>9. ASSUME NEW s \in W, NEW t \in pending \ W PROVE s.at < t.at
      <3>1. t.at \in Nat /\ s1.at + 8 <= t.at
        BY <1>7, <2>6
      <3>2. QED
        BY <2>6, <3>1, <1>6
    <2>10. ASSUME NEW t \in pending \ W PROVE Aarch64!PairOp(Key(d), t) = "none"
      <3>1. t \in pending /\ t # s1 /\ pending # {s1}
        BY <2>6
      <3>2. Key(d).reg = s1.reg /\ Key(d).at = s1.at
        BY <2>3, <2>4 DEF Key
      <3>3. CASE t = s2
        <4>1. Aarch64!PairOp(s1, t) = "none"
          BY <1>11, <3>1, <3>3
        <4>2. QED
          BY <3>2, <4>1 DEF Aarch64!PairOp
      <3>4. CASE t # s2
        <4>1. t.at # (s1.at + 8) % OffsetValues
          <5>1. /\ t.at \in Nat /\ s2.at \in Nat /\ s2.at + 8 <= t.at /\ s1.at + 8 <= s2.at
                /\ s2.at < OffsetValues
            BY <1>2, <1>8, <3>1, <3>4, Aarch64Types
          <5>2. PICK a \in Nat, b \in Nat, c \in Nat : a = s1.at /\ b = s2.at /\ c = t.at
            BY <1>6, <5>1
          <5>3. (s1.at + 8) % OffsetValues = s1.at + 8
            BY <1>6, <5>1, Small
          <5>4. QED
            BY <5>1, <5>2, <5>3
        <4>2. QED
          BY <3>2, <4>1 DEF Aarch64!PairOp
      <3>5. QED
        BY <3>3, <3>4
    <2>11. 1 \in DOMAIN d.regs /\ [off |-> d.off, reg |-> d.regs[1], at |-> d.arg] \in W
      BY <1>6, <2>3, <2>4, <2>6
    <2>12. QED
      BY <1>1, <2>3, <2>7, <2>8, <2>9, <2>10, <2>11, Aarch64Writes
  <1>12. QED
    BY <1>9, <1>10, <1>11

(* Every step of the aarch64 backend keeps it.                             *)
LEMMA Aarch64Steps ==
  ASSUME Aarch64Inv, Aarch64!Next
  PROVE  Aarch64Inv'
  BY Aarch64Advances, Aarch64Others, Aarch64Saved, Aarch64Ends, Aarch64BeginsOffset,
     Aarch64WritesSave DEF Aarch64!Next

(* What it promises: every save in one directive, none left to pair, and   *)
(* the directives in the order of the prologue.                            *)
LEMMA Aarch64Promises ==
  ASSUME Aarch64Inv
  PROVE  Aarch64!EachSaveOnce /\ Aarch64!NothingLeftToPair /\ Aarch64!InPrologueOrder
  <1>1. /\ Aarch64!TypeOK /\ WrittenOrder /\ WrittenOnce /\ Aarch64!NothingLeftToPair
        /\ written \in Seq(Aarch64!DirectiveType) /\ DOMAIN written = 1 .. Len(written)
        /\ Len(written) \in Nat
    BY Aarch64Types DEF Aarch64Inv, WrittenPaired, Aarch64!TypeOK
  <1>2. /\ Aarch64!ToSet(saves) = ToSet(saves)
        /\ Aarch64!ToSet(written) = { written[i] : i \in 1 .. Len(written) }
    BY <1>1, Aarch64Types DEF Aarch64!ToSet
  <1>3. ASSUME Aarch64!Done
        PROVE  UNION { Aarch64!Saved(d) : d \in Aarch64!ToSet(written) }
                 = { s \in Aarch64!ToSet(saves) : s.reg \in Aarch64!Named }
    <2>1. phase = "writing" /\ all_offsets = {} /\ pending = {}
      BY <1>3 DEF Aarch64!Done
    <2>2. ASSUME NEW s
          PROVE  (\E i \in 1 .. Len(written) : s \in Aarch64!Saved(written[i]))
                   <=> s \in ToSet(saves) /\ s.reg \in Aarch64!Named
      BY <1>1, <2>1 DEF WrittenOnce
    <2>3. QED
      BY <1>2, <2>2
  <1>4. Aarch64!EachSaveOnce
    BY <1>1, <1>3 DEF Aarch64!EachSaveOnce, WrittenOnce
  <1>5. Aarch64!InPrologueOrder
    <2>1. ASSUME NEW i \in DOMAIN written, NEW j \in DOMAIN written, i < j
          PROVE  /\ written[i].off <= written[j].off
                 /\ written[i].off = written[j].off /\ Aarch64!Saved(written[i]) # {}
                    => Aarch64!Saved(written[j]) # {}
      BY <1>1, <2>1 DEF WrittenOrder, Sorted
    <2>2. ASSUME written # << >> PROVE Aarch64!Last(written).off <= last_prologue_offset
      <3>1. Len(written) \in 1 .. Len(written)
        BY <1>1, <2>2, EmptySeq
      <3>2. QED
        BY <1>1, <3>1 DEF WrittenOrder, Aarch64!Last
    <2>3. QED
      BY <2>1, <2>2 DEF Aarch64!InPrologueOrder
  <1>6. QED
    BY <1>1, <1>4, <1>5

-----------------------------------------------------------------------------
(* arm.  What is written is of the offsets before those to be written, and *)
(* of an offset the allocations and the frame come before its lists.       *)
ArmOrder ==
  /\ phase = "reading" => written = << >> /\ all_offsets = {}
  /\ \A o \in all_offsets : o <= last_prologue_offset
  /\ Sorted(written)
  /\ \A i \in 1 .. Len(written) :
       /\ written[i].off <= last_prologue_offset
       /\ \A o \in all_offsets : written[i].off < o
  /\ \A i, j \in 1 .. Len(written) :
       i < j /\ written[i].off = written[j].off /\ Plain(written[j]) => Plain(written[i])

(* The registers the lists of a kind name at an offset.                    *)
Kinds == {"save_regs", "save_fregs"}
Regs  == ArmRegisters \cup {Arm!Fp}

Names(dirs, op, off) ==
  { r \in Regs : \E i \in 1 .. Len(dirs) :
      dirs[i].op = op /\ dirs[i].off = off /\ r \in dirs[i].regs }

(* The lists of the offsets that are behind name what is saved there.      *)
ArmLists ==
  phase = "writing" =>
    \A off \in Nat : off \notin all_offsets =>
      /\ Names(written, "save_regs", off) = Arm!SavedAt(off, Arm!Named \ Arm!Vector)
      /\ Names(written, "save_fregs", off) = Arm!SavedAt(off, Arm!Vector)

ArmInv == Arm!TypeOK /\ OthersInv /\ SavesInv /\ ArmOrder /\ ArmLists

(* The type invariant in the terms the proofs use.                         *)
LEMMA ArmTypes ==
  ASSUME Arm!TypeOK
  PROVE  /\ Len(saves) \in Nat /\ DOMAIN saves = 1 .. Len(saves)
         /\ \A i \in 1 .. Len(saves) : saves[i].off \in Nat /\ saves[i].reg \in ArmRegisters
         /\ Arm!ToSet(saves) = { saves[i] : i \in 1 .. Len(saves) }
         /\ Len(other_dirs) \in Nat
         /\ Arm!ToSet(other_dirs) = { other_dirs[i] : i \in 1 .. Len(other_dirs) }
         /\ \A i \in 1 .. Len(other_dirs) :
              other_dirs[i] \in Arm!DirectiveType /\ other_dirs[i].off \in Nat
         /\ Len(written) \in Nat /\ DOMAIN written = 1 .. Len(written)
         /\ Arm!ToSet(written) = { written[i] : i \in 1 .. Len(written) }
         /\ \A i \in 1 .. Len(written) :
              written[i] \in Arm!DirectiveType /\ written[i].off \in Nat
         /\ current_offset \in Nat /\ last_prologue_offset \in Nat
         /\ \A o \in all_offsets : o \in Nat
  <1>1. saves \in Seq([off: Nat, reg: ArmRegisters])
    BY DEF Arm!TypeOK
  <1>2. /\ Len(saves) \in Nat /\ DOMAIN saves = 1 .. Len(saves)
        /\ \A i \in 1 .. Len(saves) : saves[i].off \in Nat /\ saves[i].reg \in ArmRegisters
    <2>1. Len(saves) \in Nat /\ DOMAIN saves = 1 .. Len(saves)
          /\ \A i \in 1 .. Len(saves) : saves[i] \in [off: Nat, reg: ArmRegisters]
      BY <1>1, LenProperties, ElementOfSeq
    <2>2. QED
      BY <2>1
  <1>3. Arm!ToSet(saves) = { saves[i] : i \in 1 .. Len(saves) }
    BY <1>2 DEF Arm!ToSet
  <1>4. other_dirs \in Seq(Arm!DirectiveType) /\ written \in Seq(Arm!DirectiveType)
    BY DEF Arm!TypeOK
  <1>5. \A d \in Arm!DirectiveType : d.off \in Nat
    BY DEF Arm!DirectiveType
  <1>6. /\ Len(other_dirs) \in Nat /\ DOMAIN other_dirs = 1 .. Len(other_dirs)
        /\ \A i \in 1 .. Len(other_dirs) : other_dirs[i] \in Arm!DirectiveType
        /\ Len(written) \in Nat /\ DOMAIN written = 1 .. Len(written)
        /\ \A i \in 1 .. Len(written) : written[i] \in Arm!DirectiveType
    BY <1>4
  <1>7. /\ Arm!ToSet(other_dirs) = { other_dirs[i] : i \in 1 .. Len(other_dirs) }
        /\ Arm!ToSet(written) = { written[i] : i \in 1 .. Len(written) }
    BY <1>6 DEF Arm!ToSet
  <1>8. current_offset \in Nat /\ last_prologue_offset \in Nat /\ \A o \in all_offsets : o \in Nat
    BY DEF Arm!TypeOK
  <1>9. QED
    BY <1>2, <1>3, <1>5, <1>6, <1>7, <1>8

(* Nothing is written while the first pass reads.                          *)
LEMMA ArmNothingWritten ==
  ASSUME written' = << >>, all_offsets' = {}, phase' = "reading"
  PROVE  ArmOrder' /\ ArmLists'
  <1>1. Len(written') = 0 /\ 1 .. 0 = {}
    OBVIOUS
  <1>2. Sorted(written')
    BY <1>1 DEF Sorted
  <1>3. QED
    BY <1>1, <1>2 DEF ArmOrder, ArmLists

(* Before the first instruction.                                           *)
LEMMA ArmInitially ==
  ASSUME Arm!Init
  PROVE  ArmInv
  <1>1. /\ other_dirs = << >> /\ saves = << >> /\ written = << >>
        /\ all_offsets = {} /\ phase = "reading"
        /\ length = 0 /\ current_offset = 0 /\ current_cfa_offset = 0 /\ max_cfa_offset = 0
        /\ last_prologue_offset = 0 /\ has_fp = FALSE
    BY DEF Arm!Init
  <1>2. Len(<< >>) = 0 /\ 1 .. 0 = {} /\ \A S : << >> \in Seq(S)
    OBVIOUS
  <1>3. Arm!TypeOK
    <2>1. length \in 0 .. MaxLength /\ all_offsets \subseteq 0 .. current_offset
      BY <1>1, MaxLengthAssumption
    <2>2. /\ other_dirs \in Seq(Arm!DirectiveType) /\ written \in Seq(Arm!DirectiveType)
          /\ saves \in Seq([off: Nat, reg: ArmRegisters])
      BY <1>1, <1>2
    <2>3. QED
      BY <1>1, <2>1, <2>2 DEF Arm!TypeOK
  <1>4. Sorted(<< >>)
    BY <1>2 DEF Sorted
  <1>5. OthersInv /\ SavesInv /\ ArmOrder /\ ArmLists
    BY <1>1, <1>2, <1>4 DEF OthersInv, SavesInv, ArmOrder, ArmLists
  <1>6. QED
    BY <1>3, <1>5 DEF ArmInv

(* DW_CFA_advance_loc*.                                                    *)
LEMMA ArmAdvances ==
  ASSUME ArmInv, Arm!AdvanceLoc
  PROVE  ArmInv'
  <1>1. PICK d \in Deltas : current_offset' = current_offset + d
    BY DEF Arm!AdvanceLoc
  <1>2. /\ length' = length + 1 /\ length < MaxLength /\ phase = "reading"
        /\ UNCHANGED <<current_cfa_offset, max_cfa_offset, last_prologue_offset, has_fp,
                       other_dirs, saves, all_offsets, written, phase>>
    BY DEF Arm!AdvanceLoc, Arm!Reading
  <1>3. ArmOrder' /\ ArmLists' /\ all_offsets' = {}
    BY <1>2, ArmNothingWritten DEF ArmInv, ArmOrder
  <1>4. d \in Nat /\ Arm!TypeOK
    BY DeltasAssumption DEF ArmInv
  <1>5. Arm!TypeOK'
    BY <1>1, <1>2, <1>3, <1>4, MaxLengthAssumption DEF Arm!TypeOK, Arm!DirectiveType
  <1>6. current_offset \in Nat /\ current_offset <= current_offset'
    BY <1>1, <1>4, ArmTypes
  <1>7. OthersInv'
    BY <1>1, <1>2, <1>4, <1>6, ArmTypes DEF ArmInv, OthersInv
  <1>8. SavesInv'
    BY <1>1, <1>2, <1>4, <1>6, ArmTypes DEF ArmInv, SavesInv
  <1>9. QED
    BY <1>3, <1>5, <1>7, <1>8 DEF ArmInv

(* The steps of the first pass that add directives which are not saves.    *)
LEMMA ArmPushes ==
  ASSUME ArmInv, Arm!Reading, NEW dirs \in Seq(Arm!DirectiveType),
         \A k \in 1 .. Len(dirs) : Plain(dirs[k]) /\ dirs[k].off = current_offset,
         Arm!Push(dirs), current_cfa_offset' \in Nat, max_cfa_offset' \in Nat, has_fp' \in BOOLEAN,
         UNCHANGED <<current_offset, saves, all_offsets, written, phase>>
  PROVE  ArmInv'
  <1>1. length' = length + 1 /\ length < MaxLength /\ phase = "reading"
    BY DEF Arm!Reading
  <1>2. ArmOrder' /\ ArmLists' /\ all_offsets' = {}
    BY <1>1, ArmNothingWritten DEF ArmInv, ArmOrder
  <1>3. Arm!TypeOK /\ other_dirs \in Seq(Arm!DirectiveType)
        /\ \A d \in Arm!DirectiveType : d.off \in Nat
    BY DEF ArmInv, Arm!TypeOK, Arm!DirectiveType
  <1>4. /\ other_dirs' = other_dirs \o dirs
        /\ last_prologue_offset' = IF dirs = << >> THEN last_prologue_offset ELSE current_offset
    BY DEF Arm!Push
  <1>5. /\ OthersInv' /\ SavesInv' /\ other_dirs' \in Seq(Arm!DirectiveType)
        /\ last_prologue_offset' \in Nat
    BY <1>3, <1>4, ArmTypes, OthersPushed DEF ArmInv
  <1>6. Arm!TypeOK'
    BY <1>1, <1>2, <1>3, <1>5, MaxLengthAssumption DEF Arm!TypeOK, Arm!DirectiveType
  <1>7. QED
    BY <1>2, <1>5, <1>6 DEF ArmInv

(* Each of them.                                                           *)
LEMMA ArmOthers ==
  ASSUME ArmInv, Arm!DefCfaOffset \/ Arm!DefCfa \/ Arm!DefCfaRegister
  PROVE  ArmInv'
  <1>1. /\ current_offset \in Nat /\ current_cfa_offset \in Nat /\ max_cfa_offset \in Nat
        /\ has_fp \in BOOLEAN /\ \A n \in ArmCfaOffsets : n \in Nat
    BY ArmAssumption DEF ArmInv, Arm!TypeOK
  <1>2. ASSUME NEW n \in Nat
        PROVE  /\ Arm!Alloc(n) \in Seq(Arm!DirectiveType)
               /\ \A k \in 1 .. Len(Arm!Alloc(n)) :
                    Plain(Arm!Alloc(n)[k]) /\ Arm!Alloc(n)[k].off = current_offset
    <2>1. PICK d : d = Arm!Dir("stackalloc", {}, n)
      OBVIOUS
    <2>2. d \in Arm!DirectiveType /\ Plain(d) /\ d.off = current_offset
      BY <2>1, <1>1 DEF Arm!Dir, Arm!DirectiveType, Plain
    <2>3. CASE Arm!Alloc(n) = <<d>>
      BY <2>2, <2>3
    <2>4. CASE Arm!Alloc(n) = << >>
      BY <2>4
    <2>5. QED
      BY <2>1, <2>3, <2>4 DEF Arm!Alloc
  <1>3. ASSUME NEW n \in Nat
        PROVE  /\ Arm!SetFrame(n) \in Seq(Arm!DirectiveType)
               /\ \A k \in 1 .. Len(Arm!SetFrame(n)) :
                    Plain(Arm!SetFrame(n)[k]) /\ Arm!SetFrame(n)[k].off = current_offset
    <2>1. PICK d : d = Arm!Dir("frame", {Arm!Fp}, n)
      OBVIOUS
    <2>2. d \in Arm!DirectiveType /\ Plain(d) /\ d.off = current_offset
      BY <2>1, <1>1 DEF Arm!Dir, Arm!DirectiveType, Plain
    <2>3. Arm!SetFrame(n) = <<d>>
      BY <2>1 DEF Arm!SetFrame
    <2>4. QED
      BY <2>2, <2>3
  <1>4. CASE Arm!DefCfaOffset
    <2>1. PICK n \in ArmCfaOffsets : Arm!Cfa(n) /\ Arm!Push(Arm!Alloc(n))
      BY <1>4 DEF Arm!DefCfaOffset
    <2>2. /\ Arm!Reading /\ has_fp' = has_fp
          /\ UNCHANGED <<current_offset, saves, all_offsets, written, phase>>
      BY <1>4 DEF Arm!DefCfaOffset
    <2>3. current_cfa_offset' \in Nat /\ max_cfa_offset' \in Nat
      BY <1>1, <2>1 DEF Arm!Cfa
    <2>4. PICK dirs : dirs = Arm!Alloc(n)
      OBVIOUS
    <2>5. QED
      BY <1>1, <1>2, <2>1, <2>2, <2>3, <2>4, ArmPushes
  <1>5. CASE Arm!DefCfa
    <2>1. PICK r \in {Arm!Sp, Arm!Fp}, n \in ArmCfaOffsets :
            /\ Arm!Cfa(n)
            /\ Arm!Push(IF r = Arm!Fp THEN Arm!SetFrame(0) ELSE << >>)
            /\ has_fp' = (has_fp \/ r = Arm!Fp)
      BY <1>5 DEF Arm!DefCfa
    <2>2. /\ Arm!Reading
          /\ UNCHANGED <<current_offset, saves, all_offsets, written, phase>>
      BY <1>5 DEF Arm!DefCfa
    <2>3. current_cfa_offset' \in Nat /\ max_cfa_offset' \in Nat /\ has_fp' \in BOOLEAN
      BY <1>1, <2>1 DEF Arm!Cfa
    <2>4. PICK dirs : dirs = IF r = Arm!Fp THEN Arm!SetFrame(0) ELSE << >>
      OBVIOUS
    <2>5. /\ dirs \in Seq(Arm!DirectiveType)
          /\ \A k \in 1 .. Len(dirs) : Plain(dirs[k]) /\ dirs[k].off = current_offset
      <3>1. CASE r = Arm!Fp
        BY <1>3, <2>4, <3>1
      <3>2. CASE r # Arm!Fp
        BY <2>4, <3>2
      <3>3. QED
        BY <3>1, <3>2
    <2>6. Arm!Push(dirs)
      BY <2>1, <2>4
    <2>7. QED
      BY <2>2, <2>3, <2>5, <2>6, ArmPushes
  <1>6. CASE Arm!DefCfaRegister
    <2>1. /\ Arm!Reading /\ Arm!Push(Arm!SetFrame(Arm!FrameOffset)) /\ has_fp' = TRUE
          /\ UNCHANGED <<current_offset, current_cfa_offset, max_cfa_offset, saves,
                         all_offsets, written, phase>>
      BY <1>6 DEF Arm!DefCfaRegister
    <2>2. Arm!FrameOffset \in Nat
      BY <1>1 DEF Arm!FrameOffset
    <2>3. PICK dirs : dirs = Arm!SetFrame(Arm!FrameOffset)
      OBVIOUS
    <2>4. QED
      BY <1>1, <1>3, <2>1, <2>2, <2>3, ArmPushes
  <1>7. QED
    BY <1>4, <1>5, <1>6

(* A save that is read.                                                    *)
LEMMA ArmSaved ==
  ASSUME ArmInv, Arm!Offset
  PROVE  ArmInv'
  <1>1. PICK r \in ArmRegisters : saves' = Append(saves, [off |-> current_offset, reg |-> r])
    BY DEF Arm!Offset
  <1>2. /\ length' = length + 1 /\ length < MaxLength /\ phase = "reading"
        /\ last_prologue_offset' = current_offset
        /\ UNCHANGED <<current_offset, current_cfa_offset, max_cfa_offset, has_fp, other_dirs,
                       all_offsets, written, phase>>
    BY DEF Arm!Offset, Arm!Reading
  <1>3. ArmOrder' /\ ArmLists' /\ all_offsets' = {}
    BY <1>2, ArmNothingWritten DEF ArmInv, ArmOrder
  <1>4. /\ Arm!TypeOK /\ OthersInv /\ SavesInv
        /\ saves \in Seq([off: Nat, reg: ArmRegisters]) /\ current_offset \in Nat
    BY DEF ArmInv, Arm!TypeOK
  <1>5. PICK s : s = [off |-> current_offset, reg |-> r]
    OBVIOUS
  <1>6. s \in [off: Nat, reg: ArmRegisters] /\ s.off = current_offset
    BY <1>4, <1>5
  <1>7. /\ saves' \in Seq([off: Nat, reg: ArmRegisters])
        /\ Len(saves') = Len(saves) + 1
        /\ \A i \in 1 .. Len(saves) : saves'[i] = saves[i]
        /\ saves'[Len(saves) + 1] = s
    BY <1>1, <1>4, <1>5, <1>6, AppendProperties
  <1>8. Arm!TypeOK'
    BY <1>2, <1>3, <1>4, <1>7, MaxLengthAssumption DEF Arm!TypeOK, Arm!DirectiveType
  <1>9. OthersInv'
    BY <1>2, <1>4, ArmTypes DEF OthersInv
  <1>10. SavesInv'
    <2>1. ASSUME NEW i \in 1 .. Len(saves')
          PROVE  saves'[i].off <= current_offset' /\ saves'[i].off <= last_prologue_offset'
      <3>1. CASE i \in 1 .. Len(saves)
        BY <3>1, <1>2, <1>4, <1>7 DEF SavesInv
      <3>2. CASE i \notin 1 .. Len(saves)
        <4>1. i = Len(saves) + 1
          BY <3>2, <1>4, <1>7, ArmTypes
        <4>2. QED
          BY <4>1, <1>2, <1>4, <1>6, <1>7
      <3>3. QED
        BY <3>1, <3>2
    <2>2. QED
      BY <2>1 DEF SavesInv
  <1>11. QED
    BY <1>3, <1>8, <1>9, <1>10 DEF ArmInv

(* The first pass is over: every offset that saves is to be written.       *)
LEMMA ArmEnds ==
  ASSUME ArmInv, Arm!EndOfProgram
  PROVE  ArmInv'
  <1>1. /\ phase = "reading" /\ phase' = "writing"
        /\ all_offsets' = { d.off : d \in Arm!ToSet(other_dirs) } \cup { s.off : s \in Arm!ToSet(saves) }
        /\ UNCHANGED <<length, current_offset, current_cfa_offset, max_cfa_offset,
                       last_prologue_offset, has_fp, other_dirs, saves, written>>
    BY DEF Arm!EndOfProgram
  <1>2. written = << >> /\ Arm!TypeOK
    BY <1>1 DEF ArmInv, ArmOrder
  <1>3. Len(<< >>) = 0 /\ 1 .. 0 = {}
    OBVIOUS
  <1>4. \A o \in all_offsets' : o \in 0 .. current_offset /\ o <= last_prologue_offset
    <2>1. \A d \in Arm!ToSet(other_dirs) : d.off \in 0 .. current_offset /\ d.off <= last_prologue_offset
      BY <1>2, ArmTypes DEF ArmInv, OthersInv
    <2>2. \A s \in Arm!ToSet(saves) : s.off \in 0 .. current_offset /\ s.off <= last_prologue_offset
      BY <1>2, ArmTypes DEF ArmInv, SavesInv
    <2>3. QED
      BY <1>1, <2>1, <2>2
  <1>5. Arm!TypeOK'
    BY <1>1, <1>2, <1>4 DEF Arm!TypeOK, Arm!DirectiveType
  <1>6. OthersInv' /\ SavesInv'
    BY <1>1 DEF ArmInv, OthersInv, SavesInv
  <1>7. ArmOrder'
    <2>1. Sorted(written')
      BY <1>1, <1>2, <1>3 DEF Sorted
    <2>2. QED
      BY <1>1, <1>2, <1>3, <1>4, <2>1 DEF ArmOrder
  <1>8. ArmLists'
    <2>1. ASSUME NEW off \in Nat, off \notin all_offsets', NEW R
          PROVE  Arm!SavedAt(off, R)' = {}
      BY <1>1, <2>1 DEF Arm!SavedAt
    <2>2. \A op, off : Names(written, op, off)' = {}
      BY <1>1, <1>2, <1>3 DEF Names
    <2>3. QED
      BY <2>1, <2>2 DEF ArmLists
  <1>9. QED
    BY <1>5, <1>6, <1>7, <1>8 DEF ArmInv

(* The registers of saves are finitely many.                               *)
LEMMA SavedFinite ==
  ASSUME Arm!TypeOK, NEW off, NEW R
  PROVE  /\ Arm!SavedAt(off, R) \subseteq ArmRegisters
         /\ Arm!Cardinality(Arm!SavedAt(off, R)) \in Nat
         /\ Arm!SavedAt(off, R) # {} => Arm!Cardinality(Arm!SavedAt(off, R)) > 0
  <1>1. PICK T : T = Arm!SavedAt(off, R)
    OBVIOUS
  <1>2. PICK K : K = { i \in 1 .. Len(saves) : saves[i].off = off /\ saves[i].reg \in R }
    OBVIOUS
  <1>3. T = { saves[i].reg : i \in K }
    BY <1>1, <1>2, ArmTypes DEF Arm!SavedAt
  <1>4. PICK f : f = [i \in K |-> saves[i].reg]
    OBVIOUS
  <1>5. f \in Surjection(K, T)
    BY <1>3, <1>4 DEF Surjection
  <1>6. IsFiniteSet(K)
    <2>1. Len(saves) \in Int /\ 1 \in Int
      BY ArmTypes
    <2>2. IsFiniteSet(1 .. Len(saves))
      BY <2>1, FS_Interval
    <2>3. K \in SUBSET (1 .. Len(saves))
      BY <1>2
    <2>4. QED
      BY <2>2, <2>3, FS_Subset
  <1>7. Cardinality(T) \in Nat /\ (T # {} => Cardinality(T) > 0)
    <2>1. IsFiniteSet(T)
      BY <1>5, <1>6, FS_Surjection
    <2>2. Cardinality(T) \in Nat
      BY <2>1, FS_CardinalityType
    <2>3. Cardinality(T) = 0 <=> T = {}
      BY <2>1, FS_EmptySet
    <2>4. QED
      BY <2>2, <2>3
  <1>8. Arm!Cardinality(T) = Cardinality(T)
    BY DEF Arm!Cardinality, Cardinality
  <1>9. T \subseteq ArmRegisters
    BY <1>2, <1>3, ArmTypes
  <1>10. QED
    BY <1>1, <1>7, <1>8, <1>9

(* Taking bytes out of an allocation, or all of it, disturbs nothing else. *)
LEMMA WithoutKeeps ==
  ASSUME NEW dirs \in Seq(Arm!DirectiveType), NEW off, NEW n \in Nat
  PROVE  LET rest == Arm!Without(dirs, off, n)
         IN  /\ rest \in Seq(Arm!DirectiveType)
             /\ \A k \in 1 .. Len(rest) :
                  /\ k \in 1 .. Len(dirs)
                  /\ rest[k].off = dirs[k].off /\ rest[k].op = dirs[k].op
                  /\ rest[k].regs = dirs[k].regs
             /\ \A k \in 1 .. Len(dirs) : k \notin 1 .. Len(rest) => dirs[k].op = "stackalloc"
  <1>1. PICK rest : rest = Arm!Without(dirs, off, n)
    OBVIOUS
  <1>2. /\ Len(dirs) \in Nat /\ DOMAIN dirs = 1 .. Len(dirs)
        /\ \A k \in 1 .. Len(dirs) : dirs[k] \in Arm!DirectiveType
    OBVIOUS
  <1>3. CASE rest = dirs
    BY <1>1, <1>2, <1>3
  <1>4. CASE rest # dirs
    <2>1. PICK m : m = Len(dirs)
      OBVIOUS
    <2>2. dirs # << >> /\ dirs[m].op = "stackalloc"
          /\ \/ rest = Arm!Front(dirs)
             \/ dirs[m].arg > n /\ rest = [dirs EXCEPT ![m].arg = @ - n]
      <3>1. Arm!Last(dirs) = dirs[m]
        BY <2>1 DEF Arm!Last
      <3>2. dirs # << >> /\ Arm!Last(dirs).op = "stackalloc"
        BY <1>1, <1>4, Zenon DEF Arm!Without
      <3>3. \/ rest = Arm!Front(dirs)
            \/ Arm!Last(dirs).arg > n /\ rest = [dirs EXCEPT ![Len(dirs)].arg = @ - n]
        BY <1>1, <1>4, Zenon DEF Arm!Without
      <3>4. QED
        BY <2>1, <3>1, <3>2, <3>3, Zenon
    <2>3. m \in 1 .. Len(dirs) /\ dirs[m] \in Arm!DirectiveType
      BY <1>2, <2>1, <2>2, EmptySeq
    <2>4. CASE rest = Arm!Front(dirs)
      <3>1. rest = SubSeq(dirs, 1, m - 1)
        BY <2>1, <2>4 DEF Arm!Front
      <3>2. /\ 1 \in Int /\ m - 1 \in Int /\ \A k \in 1 .. m - 1 : dirs[k] \in Arm!DirectiveType
        BY <1>2, <2>1, <2>3
      <3>3. /\ rest \in Seq(Arm!DirectiveType) /\ Len(rest) = m - 1
            /\ \A k \in 1 .. m - 1 : rest[k] = dirs[k]
        <4>1. /\ SubSeq(dirs, 1, m - 1) \in Seq(Arm!DirectiveType)
              /\ Len(SubSeq(dirs, 1, m - 1)) = IF 1 <= m - 1 THEN (m - 1) - 1 + 1 ELSE 0
              /\ \A k \in 1 .. (m - 1) - 1 + 1 : SubSeq(dirs, 1, m - 1)[k] = dirs[1 + k - 1]
          BY <3>2, SubSeqProperties
        <4>2. m \in Nat /\ 1 <= m
          BY <1>2, <2>1, <2>3
        <4>3. (IF 1 <= m - 1 THEN (m - 1) - 1 + 1 ELSE 0) = m - 1
          BY <4>2
        <4>4. ASSUME NEW k \in 1 .. m - 1
              PROVE  k \in 1 .. (m - 1) - 1 + 1 /\ 1 + k - 1 = k
          BY <4>2
        <4>5. QED
          BY <3>1, <4>1, <4>3, <4>4
      <3>4. \A k \in 1 .. Len(dirs) : k \notin 1 .. Len(rest) => k = m
        <4>1. m \in Nat /\ Len(rest) = m - 1
          BY <1>2, <2>1, <3>3
        <4>2. \A k \in 1 .. m : k \notin 1 .. m - 1 => k = m
          BY <4>1
        <4>3. QED
          BY <2>1, <4>1, <4>2
      <3>5. QED
        BY <1>1, <1>2, <2>1, <2>2, <2>3, <3>3, <3>4
    <2>5. CASE dirs[m].arg > n /\ rest = [dirs EXCEPT ![m].arg = @ - n]
      <3>1. PICK d : d = [dirs[m] EXCEPT !.arg = @ - n]
        OBVIOUS
      <3>2. d \in Arm!DirectiveType /\ d.off = dirs[m].off /\ d.op = dirs[m].op /\ d.regs = dirs[m].regs
        <4>1. PICK a \in Nat : a = dirs[m].arg
          BY <2>3 DEF Arm!DirectiveType
        <4>2. a - n \in Nat
          BY <2>5, <4>1
        <4>3. d = [dirs[m] EXCEPT !.arg = a - n]
          BY <3>1, <4>1
        <4>4. QED
          BY <2>3, <4>2, <4>3 DEF Arm!DirectiveType
      <3>3. rest = [dirs EXCEPT ![m] = d]
        BY <2>5, <3>1
      <3>4. rest \in Seq(Arm!DirectiveType) /\ Len(rest) = Len(dirs)
            /\ \A k \in 1 .. Len(dirs) : rest[k] = IF k = m THEN d ELSE dirs[k]
        BY <1>2, <2>3, <3>2, <3>3
      <3>5. QED
        BY <1>1, <1>2, <3>2, <3>4
    <2>6. QED
      BY <2>2, <2>4, <2>5
  <1>5. QED
    BY <1>3, <1>4

(* What is written of an offset, allocations and the frame first.          *)
PlainFirst(dirs) ==
  \A i, j \in 1 .. Len(dirs) :
    i < j /\ dirs[i].off = dirs[j].off /\ Plain(dirs[j]) => Plain(dirs[i])

(* A list of saves behind directives up to its offset keeps their order,   *)
(* and names what it is of.                                                *)
ListedOnto(out, dirs, off, op, regs) ==
  /\ out \in Seq(Arm!DirectiveType) /\ Sorted(out) /\ PlainFirst(out)
  /\ \A k \in 1 .. Len(out) :
       /\ out[k].off <= off
       /\ out[k].off = off \/ \E m \in 1 .. Len(dirs) : out[k].off = dirs[m].off
  /\ \A kind \in Kinds, o \in Nat :
       Names(out, kind, o) = IF kind = op /\ o = off
                             THEN Names(dirs, kind, o) \cup (regs \cap Arm!Named)
                             ELSE Names(dirs, kind, o)

(* Listed does that.                                                       *)
LEMMA ListAdded ==
  ASSUME NEW dirs \in Seq(Arm!DirectiveType), NEW off \in Nat, NEW op \in Kinds,
         NEW regs \in SUBSET ArmRegisters, NEW size \in Nat, Arm!Cardinality(regs) \in Nat,
         Sorted(dirs), PlainFirst(dirs), \A k \in 1 .. Len(dirs) : dirs[k].off <= off
  PROVE  ListedOnto(Arm!Listed(dirs, off, op, regs, size), dirs, off, op, regs)
  <1>1. PICK out : out = Arm!Listed(dirs, off, op, regs, size)
    OBVIOUS
  <1>2. CASE regs \cap Arm!Named = {}
    <2>1. out = dirs
      BY <1>1, <1>2 DEF Arm!Listed
    <2>2. ListedOnto(dirs, dirs, off, op, regs)
      BY <1>2 DEF ListedOnto
    <2>3. QED
      BY <1>1, <2>1, <2>2
  <1>3. CASE regs \cap Arm!Named # {}
    <2>1. PICK n \in Nat : n = size * Arm!Cardinality(regs)
      OBVIOUS
    <2>2. PICK rest : rest = Arm!Without(dirs, off, n)
      OBVIOUS
    <2>3. PICK named : named = regs \cap Arm!Named
      OBVIOUS
    <2>4. PICK d : d = [off |-> off, op |-> op, regs |-> named, arg |-> 0]
      OBVIOUS
    <2>5. out = Append(rest, d)
      BY <1>1, <1>3, <2>1, <2>2, <2>3, <2>4 DEF Arm!Listed
    <2>6. /\ d \in Arm!DirectiveType /\ d.off = off /\ d.op = op /\ d.regs = named
          /\ named \subseteq Regs
      BY <2>3, <2>4 DEF Arm!DirectiveType, Kinds, Regs
    <2>7. /\ rest \in Seq(Arm!DirectiveType) /\ Len(rest) \in Nat /\ Len(dirs) \in Nat
          /\ \A k \in 1 .. Len(rest) :
               /\ k \in 1 .. Len(dirs)
               /\ rest[k].off = dirs[k].off /\ rest[k].op = dirs[k].op
               /\ rest[k].regs = dirs[k].regs
          /\ \A k \in 1 .. Len(dirs) : k \notin 1 .. Len(rest) => dirs[k].op = "stackalloc"
      BY SMTT(60), <2>2, WithoutKeeps
    <2>8. /\ out \in Seq(Arm!DirectiveType) /\ Len(out) = Len(rest) + 1
          /\ \A k \in 1 .. Len(rest) : out[k] = rest[k]
          /\ out[Len(rest) + 1] = d
      BY <2>5, <2>6, <2>7, AppendProperties
    <2>9. \A k \in 1 .. Len(out) : k \in 1 .. Len(rest) \/ k = Len(rest) + 1
      BY <2>7, <2>8
    <2>10. \A k \in 1 .. Len(rest) : k \in 1 .. Len(out) /\ k \in 1 .. Len(dirs)
             /\ out[k].off = dirs[k].off /\ out[k].op = dirs[k].op /\ out[k].regs = dirs[k].regs
      BY <2>7, <2>8
    <2>11. out[Len(rest) + 1].off = off /\ out[Len(rest) + 1].op = op
           /\ out[Len(rest) + 1].regs = named /\ Len(rest) + 1 \in 1 .. Len(out)
      BY <2>6, <2>7, <2>8
    <2>12. Sorted(out)
      <3>1. ASSUME NEW i \in 1 .. Len(out), NEW j \in 1 .. Len(out), i < j
            PROVE  out[i].off <= out[j].off
        <4>1. i \in 1 .. Len(rest)
          BY <2>7, <2>8, <3>1
        <4>2. CASE j \in 1 .. Len(rest)
          BY <2>10, <3>1, <4>1, <4>2 DEF Sorted
        <4>3. CASE j = Len(rest) + 1
          BY <2>10, <2>11, <4>1, <4>3
        <4>4. QED
          BY <2>9, <4>2, <4>3
      <3>2. QED
        BY <3>1 DEF Sorted
    <2>13. PlainFirst(out)
      <3>1. ASSUME NEW i \in 1 .. Len(out), NEW j \in 1 .. Len(out), i < j,
                   out[i].off = out[j].off, Plain(out[j])
            PROVE  Plain(out[i])
        <4>1. i \in 1 .. Len(rest)
          BY <2>7, <2>8, <3>1
        <4>2. CASE j \in 1 .. Len(rest)
          BY <2>10, <3>1, <4>1, <4>2 DEF PlainFirst, Plain
        <4>3. CASE j = Len(rest) + 1
          BY <2>11, <3>1, <4>3 DEF Plain, Kinds
        <4>4. QED
          BY <2>9, <4>2, <4>3
      <3>2. QED
        BY <3>1 DEF PlainFirst
    <2>14. ASSUME NEW k \in 1 .. Len(out)
           PROVE  /\ out[k].off <= off
                  /\ out[k].off = off \/ \E m \in 1 .. Len(dirs) : out[k].off = dirs[m].off
      BY <2>9, <2>10, <2>11
    <2>15. ASSUME NEW kind \in Kinds, NEW o \in Nat
           PROVE  Names(out, kind, o) = IF kind = op /\ o = off
                                        THEN Names(dirs, kind, o) \cup named
                                        ELSE Names(dirs, kind, o)
      <3>1. ASSUME NEW r \in Names(dirs, kind, o) PROVE r \in Names(out, kind, o)
        <4>1. PICK i \in 1 .. Len(dirs) :
                dirs[i].op = kind /\ dirs[i].off = o /\ r \in dirs[i].regs
          BY <3>1 DEF Names
        <4>2. i \in 1 .. Len(rest)
          BY <2>7, <4>1 DEF Kinds
        <4>3. QED
          BY <2>10, <3>1, <4>1, <4>2 DEF Names
      <3>2. ASSUME NEW r \in Names(out, kind, o)
            PROVE  r \in Names(dirs, kind, o) \/ (kind = op /\ o = off /\ r \in named)
        <4>1. PICK i \in 1 .. Len(out) :
                out[i].op = kind /\ out[i].off = o /\ r \in out[i].regs
          BY <3>2 DEF Names
        <4>2. CASE i \in 1 .. Len(rest)
          <5>1. r \in Regs
            BY <3>2 DEF Names
          <5>2. i \in 1 .. Len(dirs) /\ dirs[i].op = kind /\ dirs[i].off = o /\ r \in dirs[i].regs
            BY <2>10, <4>1, <4>2
          <5>3. \E k \in 1 .. Len(dirs) :
                  dirs[k].op = kind /\ dirs[k].off = o /\ r \in dirs[k].regs
            BY <5>2
          <5>4. r \in Names(dirs, kind, o)
            BY <5>1, <5>3, Zenon DEF Names
          <5>5. QED
            BY <5>4
        <4>3. CASE i = Len(rest) + 1
          BY <2>11, <4>1, <4>3
        <4>4. QED
          BY <2>9, <4>2, <4>3
      <3>3. ASSUME kind = op, o = off, NEW r \in named PROVE r \in Names(out, kind, o)
        BY <2>6, <2>11, <3>3 DEF Names
      <3>4. QED
        BY <3>1, <3>2, <3>3
    <2>16. ListedOnto(out, dirs, off, op, regs)
      BY <2>3, <2>8, <2>12, <2>13, <2>14, <2>15 DEF ListedOnto
    <2>17. QED
      BY <1>1, <2>16
  <1>4. QED
    BY <1>2, <1>3

(* arm reads the same part.                                                *)
LEMMA ArmAt ==
  ASSUME NEW D, other_dirs \in Seq(D), NEW off
  PROVE  Arm!OthersAt(off) = Aarch64!At(other_dirs, off)
  <1>1. PICK here : here = { k \in DOMAIN other_dirs : other_dirs[k].off = off }
    OBVIOUS
  <1>2. /\ Arm!OthersAt(off) = IF here = {} THEN << >>
                                ELSE SubSeq(other_dirs, Arm!Min(here), Arm!Max(here))
        /\ Aarch64!At(other_dirs, off) = IF here = {} THEN << >>
                                ELSE SubSeq(other_dirs, Aarch64!Min(here), Aarch64!Max(here))
    BY <1>1 DEF Arm!OthersAt, Aarch64!At
  <1>3. here \subseteq Nat /\ here \subseteq 1 .. Len(other_dirs) /\ Len(other_dirs) \in Nat
    BY <1>1
  <1>4. here # {} => Arm!Min(here) = Aarch64!Min(here) /\ Arm!Max(here) = Aarch64!Max(here)
    BY <1>3, MinFacts, MaxFacts
  <1>5. QED
    BY <1>2, <1>4

(* The next offset: what is not a save is written, then its lists.         *)
LEMMA ArmWrites ==
  ASSUME ArmInv, Arm!WriteOffset
  PROVE  ArmInv'
  <1>1. /\ phase = "writing" /\ all_offsets # {}
        /\ UNCHANGED <<length, current_offset, current_cfa_offset, max_cfa_offset,
                       last_prologue_offset, has_fp, other_dirs, saves, phase>>
    BY DEF Arm!WriteOffset
  <1>2. /\ Arm!TypeOK /\ OthersInv /\ SavesInv /\ ArmOrder
        /\ other_dirs \in Seq(Arm!DirectiveType) /\ written \in Seq(Arm!DirectiveType)
        /\ \A d \in Arm!DirectiveType : d.off \in Nat
    BY DEF ArmInv, Arm!TypeOK, Arm!DirectiveType
  <1>3. PICK off : off = Arm!NextOffset
    OBVIOUS
  <1>4. off \in all_offsets /\ off \in Nat /\ \A o \in all_offsets : off <= o /\ o \in Nat
    <2>1. all_offsets \subseteq Nat /\ all_offsets # {}
      BY <1>1, <1>2, ArmTypes
    <2>2. Arm!Min(all_offsets) \in all_offsets /\ \A o \in all_offsets : Arm!Min(all_offsets) <= o
      BY <2>1, MinFacts
    <2>3. QED
      BY <1>3, <2>1, <2>2 DEF Arm!NextOffset
  <1>5. PICK part : part = Arm!OthersAt(off)
    OBVIOUS
  <1>6. /\ part \in Seq(Arm!DirectiveType)
        /\ \A k \in 1 .. Len(part) : \E m \in 1 .. Len(other_dirs) :
             part[k] = other_dirs[m] /\ other_dirs[m].off = off
    <2>1. Sorted(other_dirs) /\ \A k \in 1 .. Len(other_dirs) : other_dirs[k].off \in Nat
      BY <1>2, ArmTypes DEF OthersInv
    <2>2. part = Aarch64!At(other_dirs, off)
      BY <1>2, <1>5, ArmAt
    <2>3. QED
      BY <1>2, <1>4, <2>1, <2>2, PartFacts
  <1>7. \A k \in 1 .. Len(part) : Plain(part[k]) /\ part[k].off = off
    BY <1>2, <1>6 DEF OthersInv
  <1>8. PICK s1 : s1 = written \o part
    OBVIOUS
  <1>9. PICK core, vector : /\ core = Arm!SavedAt(off, ArmRegisters \ Arm!Vector)
                            /\ vector = Arm!SavedAt(off, Arm!Vector)
    OBVIOUS
  <1>10. PICK s2 : s2 = Arm!Listed(s1, off, "save_regs", core, 4)
    OBVIOUS
  <1>11. /\ written' = Arm!Listed(s2, off, "save_fregs", vector, 8)
         /\ all_offsets' = all_offsets \ {off}
    BY <1>3, <1>5, <1>8, <1>9, <1>10 DEF Arm!WriteOffset, Arm!Written
  <1>12. /\ s1 \in Seq(Arm!DirectiveType) /\ Len(written) \in Nat
         /\ \A k \in 1 .. Len(written) : k \in 1 .. Len(s1) /\ s1[k] = written[k]
         /\ \A k \in 1 .. Len(s1) : k \notin 1 .. Len(written) =>
              \E m \in 1 .. Len(part) : s1[k] = part[m]
    BY <1>2, <1>6, <1>8, Joined
  <1>13. \A k \in 1 .. Len(written) : written[k].off < off /\ written[k].off \in Nat
    BY <1>2, <1>4, ArmTypes DEF ArmOrder
  <1>14. \A k \in 1 .. Len(s1) : k \notin 1 .. Len(written) => Plain(s1[k]) /\ s1[k].off = off
    BY <1>7, <1>12
  <1>15. Sorted(s1)
    <2>1. \A k \in 1 .. Len(written) : written[k].off <= off
      BY <1>4, <1>13
    <2>2. QED
      BY <1>2, <1>4, <1>6, <1>7, <1>8, <2>1, SortedJoin DEF ArmOrder
  <1>16. PlainFirst(s1)
    <2>1. ASSUME NEW i \in 1 .. Len(s1), NEW j \in 1 .. Len(s1), i < j,
                 s1[i].off = s1[j].off, Plain(s1[j])
          PROVE  Plain(s1[i])
      <3>1. CASE i \in 1 .. Len(written)
        <4>1. s1[i] = written[i] /\ written[i].off < off /\ written[i].off \in Nat
          BY <3>1, <1>12, <1>13
        <4>2. j \in 1 .. Len(written)
          <5>1. s1[j].off # off
            BY <2>1, <4>1, <1>4
          <5>2. QED
            BY <5>1, <1>14
        <4>3. s1[j] = written[j]
          BY <4>2, <1>12
        <4>4. QED
          BY <2>1, <3>1, <4>1, <4>2, <4>3, <1>2 DEF ArmOrder
      <3>2. CASE i \notin 1 .. Len(written)
        BY <3>2, <1>14
      <3>3. QED
        BY <3>1, <3>2
    <2>2. QED
      BY <2>1 DEF PlainFirst
  <1>17. \A k \in 1 .. Len(s1) :
           /\ s1[k].off <= off
           /\ s1[k].off = off \/ \E m \in 1 .. Len(written) : s1[k].off = written[m].off
    <2>1. ASSUME NEW k \in 1 .. Len(s1)
          PROVE  /\ s1[k].off <= off
                 /\ s1[k].off = off \/ \E m \in 1 .. Len(written) : s1[k].off = written[m].off
      <3>1. CASE k \in 1 .. Len(written)
        <4>1. s1[k].off = written[k].off /\ written[k].off < off /\ written[k].off \in Nat
          BY <3>1, <1>12, <1>13
        <4>2. QED
          BY <3>1, <4>1, <1>4
      <3>2. CASE k \notin 1 .. Len(written)
        BY <3>2, <1>4, <1>14
      <3>3. QED
        BY <3>1, <3>2
    <2>2. QED
      BY <2>1
  <1>18. /\ core \in SUBSET ArmRegisters /\ Arm!Cardinality(core) \in Nat
         /\ vector \in SUBSET ArmRegisters /\ Arm!Cardinality(vector) \in Nat
    BY <1>2, <1>9, SavedFinite
  <1>19. "save_regs" \in Kinds /\ "save_fregs" \in Kinds /\ "save_regs" # "save_fregs"
         /\ 4 \in Nat /\ 8 \in Nat
    BY DEF Kinds
  <1>20. ListedOnto(s2, s1, off, "save_regs", core)
    <2>1. \A k \in 1 .. Len(s1) : s1[k].off <= off
      BY <1>17
    <2>2. ListedOnto(Arm!Listed(s1, off, "save_regs", core, 4), s1, off, "save_regs", core)
      BY <1>4, <1>12, <1>15, <1>16, <1>18, <1>19, <2>1, ListAdded
    <2>3. QED
      BY <1>10, <2>2
  <1>21. ListedOnto(written', s2, off, "save_fregs", vector)
    <2>1. /\ s2 \in Seq(Arm!DirectiveType) /\ Sorted(s2) /\ PlainFirst(s2)
          /\ \A k \in 1 .. Len(s2) : s2[k].off <= off
      BY <1>20 DEF ListedOnto
    <2>2. ListedOnto(Arm!Listed(s2, off, "save_fregs", vector, 8), s2, off, "save_fregs", vector)
      BY <1>4, <1>18, <1>19, <2>1, ListAdded
    <2>3. QED
      BY <1>11, <2>2
  <1>22. Arm!TypeOK'
    <2>1. all_offsets' \subseteq 0 .. current_offset'
      BY <1>1, <1>2, <1>11 DEF Arm!TypeOK
    <2>2. QED
      BY <1>1, <1>2, <1>21, <2>1 DEF Arm!TypeOK, Arm!DirectiveType, ListedOnto
  <1>23. OthersInv' /\ SavesInv'
    BY <1>1, <1>2 DEF OthersInv, SavesInv
  <1>24. ArmOrder'
    <2>1. ASSUME NEW k \in 1 .. Len(written')
          PROVE  /\ written'[k].off <= last_prologue_offset'
                 /\ \A o \in all_offsets' : written'[k].off < o
      <3>1. written'[k].off = off \/ \E m \in 1 .. Len(written) : written'[k].off = written[m].off
        <4>1. written'[k].off = off \/ \E m \in 1 .. Len(s2) : written'[k].off = s2[m].off
          BY <1>21 DEF ListedOnto
        <4>2. \A m \in 1 .. Len(s2) :
                s2[m].off = off \/ \E l \in 1 .. Len(s1) : s2[m].off = s1[l].off
          BY <1>20 DEF ListedOnto
        <4>3. \A m \in 1 .. Len(s1) :
                s1[m].off = off \/ \E l \in 1 .. Len(written) : s1[m].off = written[l].off
          BY <1>17
        <4>4. QED
          BY <4>1, <4>2, <4>3
      <3>2. CASE written'[k].off = off
        <4>1. off <= last_prologue_offset
          BY <1>2, <1>4 DEF ArmOrder
        <4>2. \A o \in all_offsets' : off < o
          BY <1>4, <1>11
        <4>3. QED
          BY <1>1, <3>2, <4>1, <4>2
      <3>3. CASE \E m \in 1 .. Len(written) : written'[k].off = written[m].off
        BY <1>1, <1>2, <1>11, <3>3 DEF ArmOrder
      <3>4. QED
        BY <3>1, <3>2, <3>3
    <2>2. \A o \in all_offsets' : o <= last_prologue_offset'
      BY <1>1, <1>2, <1>11 DEF ArmOrder
    <2>3. QED
      BY <1>1, <1>21, <2>1, <2>2 DEF ArmOrder, PlainFirst, ListedOnto
  <1>25. ArmLists'
    <2>1. ASSUME NEW o, NEW R PROVE Arm!SavedAt(o, R)' = Arm!SavedAt(o, R)
      BY <1>1 DEF Arm!SavedAt
    <2>2. ASSUME NEW kind \in Kinds, NEW o \in Nat PROVE Names(s1, kind, o) = Names(written, kind, o)
      <3>1. ASSUME NEW r \in Regs, NEW i \in 1 .. Len(s1),
                   s1[i].op = kind /\ s1[i].off = o /\ r \in s1[i].regs
            PROVE  \E m \in 1 .. Len(written) :
                     written[m].op = kind /\ written[m].off = o /\ r \in written[m].regs
        <4>1. i \in 1 .. Len(written)
          BY <3>1, <1>14 DEF Plain, Kinds
        <4>2. QED
          BY <3>1, <4>1, <1>12
      <3>2. ASSUME NEW r \in Regs, NEW i \in 1 .. Len(written),
                   written[i].op = kind /\ written[i].off = o /\ r \in written[i].regs
            PROVE  \E m \in 1 .. Len(s1) : s1[m].op = kind /\ s1[m].off = o /\ r \in s1[m].regs
        BY <3>2, <1>12
      <3>3. QED
        BY <3>1, <3>2 DEF Names
    <2>3. \A kind \in Kinds : Names(written, kind, off) = {}
      BY <1>4, <1>13 DEF Names
    <2>4. core \cap Arm!Named = Arm!SavedAt(off, Arm!Named \ Arm!Vector)
      <3>1. ASSUME NEW R
            PROVE  Arm!SavedAt(off, R) = { r \in ArmRegisters \cap R :
                     \E i \in 1 .. Len(saves) : saves[i].off = off /\ saves[i].reg = r }
        BY <1>2, ArmTypes DEF Arm!SavedAt
      <3>2. QED
        BY <1>9, <3>1
    <2>5. vector \cap Arm!Named = vector
      BY <1>9 DEF Arm!SavedAt, Arm!Named
    <2>6. ASSUME NEW o \in Nat, o \notin all_offsets'
          PROVE  /\ Names(written', "save_regs", o) = Arm!SavedAt(o, Arm!Named \ Arm!Vector)
                 /\ Names(written', "save_fregs", o) = Arm!SavedAt(o, Arm!Vector)
      <3>1. CASE o = off
        <4>1. Names(s1, "save_regs", off) = {} /\ Names(s1, "save_fregs", off) = {}
          BY <1>4, <1>19, <2>2, <2>3
        <4>2. /\ Names(s2, "save_regs", off) = core \cap Arm!Named
              /\ Names(s2, "save_fregs", off) = {}
          BY <1>4, <1>19, <1>20, <4>1 DEF ListedOnto
        <4>3. /\ Names(written', "save_regs", off) = core \cap Arm!Named
              /\ Names(written', "save_fregs", off) = vector \cap Arm!Named
          BY <1>4, <1>19, <1>21, <4>2 DEF ListedOnto
        <4>4. QED
          BY <3>1, <1>9, <2>4, <2>5, <4>3
      <3>2. CASE o # off
        <4>1. o \notin all_offsets
          BY <1>11, <2>6, <3>2
        <4>2. /\ Names(written, "save_regs", o) = Arm!SavedAt(o, Arm!Named \ Arm!Vector)
              /\ Names(written, "save_fregs", o) = Arm!SavedAt(o, Arm!Vector)
          BY <1>1, <4>1 DEF ArmInv, ArmLists
        <4>3. QED
          BY <3>2, <4>2, <1>19, <1>20, <1>21, <2>2 DEF ListedOnto
      <3>3. QED
        BY <3>1, <3>2
    <2>7. ASSUME NEW o \in Nat, o \notin all_offsets'
          PROVE  /\ Names(written, "save_regs", o)' = Arm!SavedAt(o, Arm!Named \ Arm!Vector)'
                 /\ Names(written, "save_fregs", o)' = Arm!SavedAt(o, Arm!Vector)'
      <3>1. \A kind : Names(written, kind, o)' = Names(written', kind, o)
        BY DEF Names
      <3>2. /\ Arm!SavedAt(o, Arm!Named \ Arm!Vector)' = Arm!SavedAt(o, Arm!Named \ Arm!Vector)
            /\ Arm!SavedAt(o, Arm!Vector)' = Arm!SavedAt(o, Arm!Vector)
        BY <2>1
      <3>3. QED
        BY <2>6, <2>7, <3>1, <3>2
    <2>8. QED
      BY <2>7 DEF ArmLists
  <1>26. QED
    BY <1>22, <1>23, <1>24, <1>25 DEF ArmInv

(* Every step of the arm backend keeps it.                                 *)
LEMMA ArmSteps ==
  ASSUME ArmInv, Arm!Next
  PROVE  ArmInv'
  BY ArmAdvances, ArmOthers, ArmSaved, ArmEnds, ArmWrites DEF Arm!Next

(* What it promises: every save in the list of its kind and offset, and    *)
(* the directives in the order of the prologue.                            *)
LEMMA ArmPromises ==
  ASSUME ArmInv
  PROVE  Arm!EachSaveListed /\ Arm!InPrologueOrder
  <1>1. /\ Arm!TypeOK /\ ArmOrder /\ written \in Seq(Arm!DirectiveType)
        /\ DOMAIN written = 1 .. Len(written) /\ Len(written) \in Nat
        /\ \A i \in 1 .. Len(written) : written[i].regs \subseteq Regs
    BY ArmTypes DEF ArmInv, Arm!TypeOK, Arm!DirectiveType, Regs
  <1>2. ASSUME NEW op, NEW off
        PROVE  UNION { d.regs : d \in { e \in Arm!Lists(op) : e.off = off } } = Names(written, op, off)
    <2>1. Arm!Lists(op) = { d \in { written[i] : i \in 1 .. Len(written) } : d.op = op }
      BY <1>1, ArmTypes DEF Arm!Lists
    <2>2. QED
      BY <1>1, <2>1 DEF Names
  <1>3. Arm!EachSaveListed
    <2>1. ASSUME Arm!Done, NEW off \in 0 .. current_offset
          PROVE  /\ Names(written, "save_regs", off) = Arm!SavedAt(off, Arm!Named \ Arm!Vector)
                 /\ Names(written, "save_fregs", off) = Arm!SavedAt(off, Arm!Vector)
      BY <2>1 DEF ArmInv, ArmLists, Arm!Done
    <2>2. QED
      BY <1>2, <2>1 DEF Arm!EachSaveListed
  <1>4. Arm!InPrologueOrder
    <2>1. ASSUME NEW i \in DOMAIN written, NEW j \in DOMAIN written, i < j
          PROVE  /\ written[i].off <= written[j].off
                 /\ written[i].off = written[j].off /\ written[j].op \in {"stackalloc", "frame"}
                    => written[i].op \in {"stackalloc", "frame"}
      BY <1>1, <2>1 DEF ArmOrder, Sorted, Plain
    <2>2. ASSUME written # << >> PROVE Arm!Last(written).off <= last_prologue_offset
      <3>1. Len(written) \in 1 .. Len(written)
        BY <1>1, <2>2, EmptySeq
      <3>2. QED
        BY <1>1, <3>1 DEF ArmOrder, Arm!Last
    <2>3. QED
      BY <2>1, <2>2 DEF Arm!InPrologueOrder
  <1>5. QED
    BY <1>3, <1>4

-----------------------------------------------------------------------------
(* The target CreateBackend has chosen keeps its invariant; what belongs   *)
(* to another target stays as it was.                                      *)
BackendInv ==
  /\ arch \in Archs
  /\ \/ arch = "x86_64"  /\ IInv
     \/ arch = "aarch64" /\ Aarch64Inv /\ NoX86
     \/ arch = "arm"     /\ ArmInv /\ NoX86

(* A step of no target changes nothing an invariant is about.              *)
LEMMA Aarch64Stays ==
  ASSUME Aarch64Inv, UNCHANGED all_vars
  PROVE  Aarch64Inv'
  <1>1. /\ UNCHANGED <<length, current_offset, current_cfa_offset, max_cfa_offset>>
        /\ UNCHANGED <<last_prologue_offset, has_fp, other_dirs, saves, all_offsets>>
        /\ UNCHANGED <<pending, written, phase, slots>>
    BY DEF all_vars, vars, passes
  <1>2. Aarch64!TypeOK'
    BY <1>1 DEF Aarch64Inv, Aarch64!TypeOK, Aarch64!DirectiveType, Aarch64!ToSet
  <1>3. OthersInv' /\ SavesInv' /\ Aarch64Saves'
    BY <1>1 DEF Aarch64Inv, OthersInv, SavesInv, Aarch64Saves, Sorted
  <1>4. WrittenOrder'
    <2>1. Sorted(written')
      BY <1>1 DEF Aarch64Inv, WrittenOrder
    <2>2. WrittenOrder
      BY DEF Aarch64Inv
    <2>3. \A i \in 1 .. Len(written') :
            /\ written'[i].off <= last_prologue_offset'
            /\ \A o \in all_offsets' : written'[i].off < o
            /\ \A s \in pending' : written'[i].off <= s.off
      BY <1>1, <2>2 DEF WrittenOrder
    <2>4. /\ phase' = "reading" => written' = << >> /\ pending' = {} /\ all_offsets' = {}
          /\ \A s, t \in pending' : s.off = t.off
          /\ \A s \in pending' : \A o \in all_offsets' : s.off < o
      BY <1>1, <2>2 DEF WrittenOrder
    <2>5. \A i, j \in 1 .. Len(written') :
            i < j /\ written'[i].off = written'[j].off /\ Aarch64!Saved(written'[i]) # {}
              => Aarch64!Saved(written'[j]) # {}
      BY <1>1, <2>2 DEF WrittenOrder
    <2>6. QED
      BY <2>1, <2>3, <2>4, <2>5 DEF WrittenOrder
  <1>5. WrittenOnce'
    BY <1>1 DEF Aarch64Inv, WrittenOnce
  <1>6. Aarch64!NothingLeftToPair'
    BY <1>1 DEF Aarch64Inv, WrittenPaired, Aarch64!NothingLeftToPair
  <1>7. WrittenPaired'
    BY <1>1, <1>6 DEF Aarch64Inv, WrittenPaired
  <1>8. QED
    BY <1>2, <1>3, <1>4, <1>5, <1>7 DEF Aarch64Inv

(* The invariant is about these variables only.                            *)
LEMMA ArmStays ==
  ASSUME ArmInv, UNCHANGED all_vars
  PROVE  ArmInv'
  <1>1. /\ UNCHANGED <<length, current_offset, current_cfa_offset, max_cfa_offset>>
        /\ UNCHANGED <<last_prologue_offset, has_fp, other_dirs, saves, all_offsets>>
        /\ UNCHANGED <<written, phase>>
    BY DEF all_vars, vars, passes
  <1>2. Arm!TypeOK'
    BY <1>1 DEF ArmInv, Arm!TypeOK, Arm!DirectiveType
  <1>3. OthersInv' /\ SavesInv'
    BY <1>1 DEF ArmInv, OthersInv, SavesInv, Sorted
  <1>4. ArmOrder'
    BY <1>1 DEF ArmInv, ArmOrder, Sorted
  <1>5. ArmLists'
    BY <1>1 DEF ArmInv, ArmLists, Names, Arm!SavedAt
  <1>6. QED
    BY <1>2, <1>3, <1>4, <1>5 DEF ArmInv

(* The chosen target starts in its invariant.                              *)
LEMMA BackendStarts == BackendInit => BackendInv
  <1> SUFFICES ASSUME BackendInit PROVE BackendInv
    OBVIOUS
  <1>1. arch \in Archs
    BY DEF BackendInit
  <1>2. CASE arch = "x86_64" /\ Init
    BY <1>1, <1>2, InitInv DEF BackendInv
  <1>3. CASE arch = "aarch64" /\ Aarch64!Init /\ NoX86
    BY <1>1, <1>3, Aarch64Initially DEF BackendInv
  <1>4. CASE arch = "arm" /\ Arm!Init /\ NoX86
    BY <1>1, <1>4, ArmInitially DEF BackendInv
  <1>5. QED
    BY <1>2, <1>3, <1>4 DEF BackendInit

(* Every step of it keeps it.                                              *)
LEMMA BackendStep == BackendInv /\ [BackendNext]_all_vars => BackendInv'
  <1> SUFFICES ASSUME BackendInv, [BackendNext]_all_vars PROVE BackendInv'
    OBVIOUS
  <1>1. CASE X8664Step
    <2>1. arch = "x86_64" /\ arch' = arch /\ Next /\ IInv /\ arch \in Archs
      BY <1>1 DEF X8664Step, BackendInv
    <2>2. IInv'
      BY <2>1, StepInv
    <2>3. QED
      BY <2>1, <2>2 DEF BackendInv
  <1>2. CASE Aarch64Step
    <2>1. /\ arch = "aarch64" /\ arch' = arch /\ Aarch64!Next /\ Aarch64Inv /\ NoX86
          /\ arch \in Archs /\ UNCHANGED x86_only
      BY <1>2 DEF Aarch64Step, BackendInv
    <2>2. Aarch64Inv'
      BY <2>1, Aarch64Steps
    <2>3. NoX86'
      BY <2>1 DEF NoX86, x86_only, NotYet
    <2>4. QED
      BY <2>1, <2>2, <2>3 DEF BackendInv
  <1>3. CASE ArmStep
    <2>1. /\ arch = "arm" /\ arch' = arch /\ Arm!Next /\ ArmInv /\ NoX86
          /\ arch \in Archs /\ UNCHANGED x86_only
      BY <1>3 DEF ArmStep, BackendInv
    <2>2. ArmInv'
      BY <2>1, ArmSteps
    <2>3. NoX86'
      BY <2>1 DEF NoX86, x86_only, NotYet
    <2>4. QED
      BY <2>1, <2>2, <2>3 DEF BackendInv
  <1>4. CASE UNCHANGED all_vars
    <2>1. UNCHANGED vars /\ arch' = arch /\ arch \in Archs
      BY <1>4 DEF all_vars, BackendInv
    <2>2. NoX86 => NoX86'
      BY <2>1 DEF NoX86, vars, NotYet
    <2>3. IInv => IInv'
      BY <2>1, StepInv
    <2>4. /\ Aarch64Inv => Aarch64Inv'
          /\ ArmInv => ArmInv'
      BY <1>4, Aarch64Stays, ArmStays
    <2>5. QED
      BY <2>1, <2>2, <2>3, <2>4 DEF BackendInv
  <1>5. QED
    BY <1>1, <1>2, <1>3, <1>4 DEF BackendNext

(* Whatever the target, its invariant holds of every call-frame program.   *)
THEOREM BackendInductive == BackendSpec => []BackendInv
  BY BackendStarts, BackendStep, PTL DEF BackendSpec

(* On every target the states have the declared shape; in particular no    *)
(* frame offset and no slot, which the code keeps unsigned, wraps.         *)
THEOREM BackendTypes == BackendSpec => []TypesOK
  <1>1. BackendInv => TypesOK
    <2> SUFFICES ASSUME BackendInv PROVE TypesOK
      OBVIOUS
    <2>1. CASE arch = "x86_64" /\ IInv
      BY <2>1 DEF BackendInv, TypesOK, IInv
    <2>2. ASSUME NoX86
          PROVE  directives \in Seq(DirectiveType) /\ changes \in Seq(Nat \X Nat)
                 /\ last_cfa_offset_change_offset \in Nat
      <3>1. directives = << >> /\ changes = << >> /\ last_cfa_offset_change_offset = 0
        BY <2>2 DEF NoX86
      <3>2. QED
        BY <3>1
    <2>3. CASE arch = "aarch64" /\ Aarch64Inv /\ NoX86
      <3>1. Aarch64!TypeOK
        BY <2>3 DEF Aarch64Inv
      <3>2. TypeOK
        BY <2>2, <2>3, <3>1 DEF TypeOK, Aarch64!TypeOK
      <3>3. QED
        BY <2>3, <3>1, <3>2 DEF BackendInv, TypesOK
    <2>4. CASE arch = "arm" /\ ArmInv /\ NoX86
      <3>1. Arm!TypeOK
        BY <2>4 DEF ArmInv
      <3>2. TypeOK
        BY <2>2, <2>4, <3>1 DEF TypeOK, Arm!TypeOK
      <3>3. QED
        BY <2>4, <3>1, <3>2 DEF BackendInv, TypesOK
    <2>5. QED
      BY <2>1, <2>3, <2>4 DEF BackendInv
  <1>2. QED
    BY <1>1, BackendInductive, PTL

(* What a second pass writes is in the order EmitSehPrologue replays it    *)
(* in, and none of it is behind .seh_endprologue.                          *)
THEOREM BackendOrder == BackendSpec => []InPrologueOrder
  <1>1. BackendInv => InPrologueOrder
    BY Aarch64Promises, ArmPromises DEF BackendInv, InPrologueOrder
  <1>2. QED
    BY <1>1, BackendInductive, PTL

(* Every save of a register with a name comes out in one directive of its  *)
(* offset, whatever the pairing or the lists made of it.                   *)
THEOREM BackendSaves == BackendSpec => []EachSaveOnce
  <1>1. BackendInv => EachSaveOnce
    BY Aarch64Promises, ArmPromises DEF BackendInv, EachSaveOnce
  <1>2. QED
    BY <1>1, BackendInductive, PTL

(* On aarch64 the one pass over the sorted saves pairs all that can be.    *)
THEOREM BackendPairs == BackendSpec => []NothingLeftToPair
  <1>1. BackendInv => NothingLeftToPair
    BY Aarch64Promises DEF BackendInv, NothingLeftToPair
  <1>2. QED
    BY <1>1, BackendInductive, PTL

(* The end of the prologue and the frame size of x86_64, when the target   *)
(* is one of several.                                                      *)
THEOREM BackendX8664 == BackendSpec => [](PrologueEndIsLast /\ FrameSizeIsDeepest)
  <1>1. BackendInv => PrologueEndIsLast /\ FrameSizeIsDeepest
    <2>1. NoX86 => PrologueEndIsLast /\ FrameSizeIsDeepest
      BY DEF NoX86, PrologueEndIsLast, FrameSizeIsDeepest
    <2>2. QED
      BY <2>1, LastIsEnd, SizeIsDeepest DEF BackendInv
  <1>2. QED
    BY <1>1, BackendInductive, PTL

-----------------------------------------------------------------------------
(* Sums of numbers: f holds the sum of the first n, for every n.           *)
Sums(f, t) ==
  /\ f = [n \in 0 .. Len(t) |-> f[n]] /\ f[0] = 0
  /\ \A n \in 1 .. Len(t) : f[n] = f[n - 1] + t[n]

Total(t) ==
  LET first[n \in 0 .. Len(t)] == IF n = 0 THEN 0 ELSE first[n - 1] + t[n]
  IN  first[Len(t)]

(* There are such sums.                                                    *)
LEMMA SumsExist ==
  ASSUME NEW t \in Seq(Nat)
  PROVE  \E f : Sums(f, t) /\ \A n \in 0 .. Len(t) : f[n] \in Nat
  <1> DEFINE P(m) == \E f \in [0 .. m -> Nat] :
                       f[0] = 0 /\ \A n \in 1 .. m : f[n] = f[n - 1] + t[n]
             T == { m \in 0 .. Len(t) : ~ P(m) }
  <1>1. Len(t) \in Nat /\ \A n \in 1 .. Len(t) : t[n] \in Nat
    OBVIOUS
  <1>2. P(0)
    <2>1. PICK f : f = [n \in 0 .. 0 |-> 0]
      OBVIOUS
    <2>2. f \in [0 .. 0 -> Nat] /\ f[0] = 0
      BY <2>1
    <2>3. QED
      BY <2>2
  <1>3. ASSUME NEW m \in 1 .. Len(t), P(m - 1) PROVE P(m)
    <2>1. PICK f \in [0 .. m - 1 -> Nat] :
            f[0] = 0 /\ \A n \in 1 .. m - 1 : f[n] = f[n - 1] + t[n]
      BY <1>3
    <2>2. PICK g : g = [n \in 0 .. m |-> IF n = m THEN f[m - 1] + t[m] ELSE f[n]]
      OBVIOUS
    <2>3. f[m - 1] \in Nat /\ t[m] \in Nat
      BY <1>1, <2>1
    <2>4. g \in [0 .. m -> Nat]
      <3>1. \A n \in 0 .. m : n # m => n \in 0 .. m - 1
        OBVIOUS
      <3>2. QED
        BY <2>2, <2>3, <3>1
    <2>5. g[0] = 0
      BY <2>1, <2>2
    <2>6. ASSUME NEW n \in 1 .. m PROVE g[n] = g[n - 1] + t[n]
      <3>1. CASE n = m
        <4>1. g[n] = f[m - 1] + t[m] /\ g[n - 1] = f[m - 1]
          BY <2>2, <3>1
        <4>2. QED
          BY <3>1, <4>1
      <3>2. CASE n \in 1 .. m - 1
        <4>1. g[n] = f[n] /\ g[n - 1] = f[n - 1]
          BY <2>2, <3>2
        <4>2. QED
          BY <2>1, <3>2, <4>1
      <3>3. QED
        BY <3>1, <3>2
    <2>7. QED
      BY <2>4, <2>5, <2>6
  <1>4. T = {}
    <2> SUFFICES ASSUME T # {} PROVE FALSE
      OBVIOUS
    <2> HIDE DEF P
    <2>1. PICK m \in T : \A n \in T : m <= n
      <3>1. T \subseteq Nat
        OBVIOUS
      <3>2. QED
        BY <3>1, Least
    <2>2. m \in 1 .. Len(t) /\ m - 1 \in 0 .. Len(t) /\ m - 1 \notin T
      BY <1>1, <1>2, <2>1
    <2>3. P(m)
      BY <1>3, <2>2
    <2>4. QED
      BY <2>1, <2>3
  <1>5. P(Len(t))
    <2> HIDE DEF P
    <2>1. Len(t) \in 0 .. Len(t)
      BY <1>1
    <2>2. QED
      BY <1>4, <2>1
  <1>6. PICK f \in [0 .. Len(t) -> Nat] :
          f[0] = 0 /\ \A n \in 1 .. Len(t) : f[n] = f[n - 1] + t[n]
    BY <1>5
  <1>7. QED
    BY <1>6 DEF Sums

(* They are determined.                                                    *)
LEMMA SumsUnique ==
  ASSUME NEW t, Len(t) \in Nat, NEW f, Sums(f, t), NEW g, Sums(g, t)
  PROVE  f = g
  <1> DEFINE T == { n \in 0 .. Len(t) : f[n] # g[n] }
  <1>1. /\ f[0] = 0 /\ g[0] = 0
        /\ \A n \in 1 .. Len(t) : f[n] = f[n - 1] + t[n]
        /\ \A n \in 1 .. Len(t) : g[n] = g[n - 1] + t[n]
    BY DEF Sums
  <1>2. T = {}
    <2> SUFFICES ASSUME T # {} PROVE FALSE
      OBVIOUS
    <2>1. PICK n \in T : \A m \in T : n <= m
      <3>1. T \in SUBSET Nat
        OBVIOUS
      <3>2. QED
        BY <3>1, Least
    <2>2. n # 0 /\ n \in 1 .. Len(t) /\ n - 1 \in 0 .. Len(t) /\ n - 1 \notin T
      BY <1>1, <2>1
    <2>3. f[n - 1] = g[n - 1]
      BY <2>2
    <2>4. f[n] = g[n]
      BY <1>1, <2>2, <2>3
    <2>5. QED
      BY <2>1, <2>4
  <1>3. \A n \in 0 .. Len(t) : f[n] = g[n]
    BY <1>2
  <1>4. f = [n \in 0 .. Len(t) |-> f[n]] /\ g = [n \in 0 .. Len(t) |-> g[n]]
    BY DEF Sums
  <1>5. QED
    BY <1>3, <1>4

(* The total is the last of the sums.                                      *)
LEMMA TotalIs ==
  ASSUME NEW t \in Seq(Nat), NEW f, Sums(f, t)
  PROVE  Total(t) = f[Len(t)] /\ Total(t) \in Nat
  <1> DEFINE S(h) == h = [n \in 0 .. Len(t) |-> IF n = 0 THEN 0 ELSE h[n - 1] + t[n]]
             first == CHOOSE h : S(h)
  <1>1. Len(t) \in Nat
    OBVIOUS
  <1>2. ASSUME NEW h PROVE S(h) <=> Sums(h, t)
    <2>1. ASSUME S(h) PROVE Sums(h, t)
      <3>1. PICK k : k = [n \in 0 .. Len(t) |-> IF n = 0 THEN 0 ELSE h[n - 1] + t[n]]
        OBVIOUS
      <3>2. h = k
        BY <2>1, <3>1
      <3>3. /\ k = [n \in 0 .. Len(t) |-> k[n]] /\ k[0] = 0
            /\ \A n \in 1 .. Len(t) : k[n] = h[n - 1] + t[n]
        BY <1>1, <3>1
      <3>4. QED
        BY <3>2, <3>3 DEF Sums
    <2>2. ASSUME Sums(h, t) PROVE S(h)
      <3>1. /\ h = [n \in 0 .. Len(t) |-> h[n]] /\ h[0] = 0
            /\ \A n \in 1 .. Len(t) : h[n] = h[n - 1] + t[n]
        BY <2>2 DEF Sums
      <3>2. ASSUME NEW n \in 0 .. Len(t)
            PROVE  h[n] = IF n = 0 THEN 0 ELSE h[n - 1] + t[n]
        <4>1. n = 0 \/ n \in 1 .. Len(t)
          BY <1>1
        <4>2. n \in 1 .. Len(t) => n # 0
          BY <1>1
        <4>3. QED
          BY <3>1, <4>1, <4>2
      <3>3. QED
        BY <3>1, <3>2
    <2>3. QED
      BY <2>1, <2>2
  <1> HIDE DEF S
  <1>3. Sums(first, t)
    BY <1>2
  <1>4. first = f
    BY <1>1, <1>3, SumsUnique
  <1>5. Total(t) = first[Len(t)]
    BY DEF Total, S
  <1>6. PICK g : Sums(g, t) /\ \A n \in 0 .. Len(t) : g[n] \in Nat
    BY SumsExist
  <1>7. f = g /\ Len(t) \in 0 .. Len(t)
    BY <1>1, <1>6, SumsUnique
  <1>8. QED
    BY <1>4, <1>5, <1>6, <1>7

(* Of no numbers the total is zero; one number more counts as much more.   *)
LEMMA TotalMore ==
  ASSUME NEW t \in Seq(Nat), NEW x \in Nat
  PROVE  /\ Total(<< >>) = 0
         /\ Total(Append(t, x)) = Total(t) + x
  <1>f. PICK f : Sums(f, t) /\ \A n \in 0 .. Len(t) : f[n] \in Nat
    BY SumsExist
  <1>u. PICK u : u = Append(t, x)
    OBVIOUS
  <1>g. PICK g : g = [n \in 0 .. Len(t) + 1 |-> IF n = Len(t) + 1 THEN f[Len(t)] + x ELSE f[n]]
    OBVIOUS
  <1>1. /\ u \in Seq(Nat) /\ Len(t) \in Nat /\ Len(u) = Len(t) + 1 /\ u[Len(t) + 1] = x
        /\ \A n \in 1 .. Len(t) : u[n] = t[n]
    BY <1>u
  <1>2. f[0] = 0 /\ \A n \in 1 .. Len(t) : f[n] = f[n - 1] + t[n]
    BY <1>f DEF Sums
  <1>3. /\ g[Len(t) + 1] = f[Len(t)] + x
        /\ \A n \in 0 .. Len(t) : g[n] = f[n]
    BY <1>1, <1>g
  <1>4. g = [n \in 0 .. Len(u) |-> g[n]]
    BY <1>1, <1>g
  <1>5. ASSUME NEW n \in 1 .. Len(u) PROVE g[n] = g[n - 1] + u[n]
    <2>1. CASE n = Len(t) + 1
      <3>1. n - 1 = Len(t) /\ Len(t) \in 0 .. Len(t)
        BY <1>1, <2>1
      <3>2. QED
        BY <1>1, <1>3, <2>1, <3>1
    <2>2. CASE n \in 1 .. Len(t)
      <3>1. n - 1 \in 0 .. Len(t) /\ n \in 0 .. Len(t)
        BY <1>1, <2>2
      <3>2. QED
        BY <1>1, <1>2, <1>3, <2>2, <3>1
    <2>3. QED
      BY <1>1, <2>1, <2>2
  <1>6. Sums(g, u)
    <2>1. g[0] = 0
      BY <1>1, <1>2, <1>3
    <2>2. QED
      BY <1>4, <1>5, <2>1 DEF Sums
  <1>7. Total(u) = f[Len(t)] + x
    BY <1>1, <1>3, <1>6, TotalIs
  <1>8. Total(<< >>) = 0
    <2>1. << >> \in Seq(Nat) /\ Len(<< >>) = 0
      OBVIOUS
    <2>2. PICK h : Sums(h, << >>)
      BY <2>1, SumsExist
    <2>3. h[0] = 0
      BY <2>2 DEF Sums
    <2>4. QED
      BY <2>1, <2>2, <2>3, TotalIs
  <1>9. QED
    BY <1>f, <1>u, <1>7, <1>8, TotalIs

(* The numbers of two sequences count together.                            *)
LEMMA TotalJoined ==
  ASSUME NEW s \in Seq(Nat), NEW t \in Seq(Nat)
  PROVE  Total(s \o t) = Total(s) + Total(t)
  <1>e. PICK e : Sums(e, s) /\ \A n \in 0 .. Len(s) : e[n] \in Nat
    BY SumsExist
  <1>f. PICK f : Sums(f, t) /\ \A n \in 0 .. Len(t) : f[n] \in Nat
    BY SumsExist
  <1>k. PICK k, m, u : k = Len(s) /\ m = Len(t) /\ u = s \o t
    OBVIOUS
  <1>g. PICK g : g = [n \in 0 .. k + m |-> IF n <= k THEN e[n] ELSE e[k] + f[n - k]]
    OBVIOUS
  <1>1. /\ k \in Nat /\ m \in Nat /\ u \in Seq(Nat) /\ Len(u) = k + m
        /\ \A n \in 1 .. k : u[n] = s[n]
        /\ \A n \in 1 .. m : u[k + n] = t[n]
        /\ \A n \in 1 .. k : s[n] \in Nat
        /\ \A n \in 1 .. m : t[n] \in Nat
    <2>1. /\ s \o t \in Seq(Nat) /\ Len(s \o t) = Len(s) + Len(t)
          /\ \A n \in 1 .. Len(s) + Len(t) :
               (s \o t)[n] = IF n <= Len(s) THEN s[n] ELSE t[n - Len(s)]
      BY ConcatProperties
    <2>2. /\ k \in Nat /\ m \in Nat
          /\ \A n \in 1 .. k : s[n] \in Nat
          /\ \A n \in 1 .. m : t[n] \in Nat
      BY <1>k
    <2>3. ASSUME NEW n \in 1 .. m PROVE u[k + n] = t[n]
      <3>1. k + n \in 1 .. k + m /\ ~ (k + n <= k) /\ (k + n) - k = n
        BY <2>2
      <3>2. QED
        BY <1>k, <2>1, <3>1
    <2>4. \A n \in 1 .. k : u[n] = s[n]
      BY <1>k, <2>1, <2>2
    <2>5. QED
      BY <1>k, <2>1, <2>2, <2>3, <2>4
  <1>2. /\ e[0] = 0 /\ \A n \in 1 .. k : e[n] = e[n - 1] + s[n]
        /\ f[0] = 0 /\ \A n \in 1 .. m : f[n] = f[n - 1] + t[n]
        /\ \A n \in 0 .. k : e[n] \in Nat
        /\ \A n \in 0 .. m : f[n] \in Nat
    BY <1>e, <1>f, <1>k DEF Sums
  <1>3. /\ \A n \in 0 .. k : g[n] = e[n]
        /\ \A n \in 0 .. m : g[k + n] = e[k] + f[n]
    <2>1. \A n \in 0 .. k : g[n] = e[n]
      BY <1>1, <1>g
    <2>2. ASSUME NEW n \in 0 .. m PROVE g[k + n] = e[k] + f[n]
      <3>1. CASE n = 0
        <4>1. k + n = k /\ k \in 0 .. k /\ e[k] \in Nat
          BY <1>1, <1>2, <3>1
        <4>2. QED
          BY <1>2, <2>1, <3>1, <4>1
      <3>2. CASE n # 0
        <4>1. k + n \in 0 .. k + m /\ ~ (k + n <= k) /\ (k + n) - k = n
          BY <1>1, <3>2
        <4>2. QED
          BY <1>g, <4>1
      <3>3. QED
        BY <3>1, <3>2
    <2>3. QED
      BY <2>1, <2>2
  <1>4. g = [n \in 0 .. Len(u) |-> g[n]]
    BY <1>1, <1>g
  <1>5. ASSUME NEW n \in 1 .. Len(u) PROVE g[n] = g[n - 1] + u[n]
    <2>1. CASE n \in 1 .. k
      <3>1. n - 1 \in 0 .. k /\ n \in 0 .. k
        BY <1>1, <2>1
      <3>2. QED
        BY <1>1, <1>2, <1>3, <2>1, <3>1
    <2>2. CASE n \notin 1 .. k
      <3>1. PICK d \in 1 .. m : d = n - k
        BY <1>1, <2>2
      <3>2. d \in 0 .. m /\ d - 1 \in 0 .. m /\ k + d = n /\ k + (d - 1) = n - 1 /\ k \in 0 .. k
        BY <1>1, <3>1
      <3>3. g[n] = e[k] + f[d] /\ g[n - 1] = e[k] + f[d - 1] /\ u[n] = t[d]
        BY <1>1, <1>3, <3>2
      <3>4. f[d] = f[d - 1] + t[d] /\ e[k] \in Nat /\ f[d - 1] \in Nat /\ t[d] \in Nat
        BY <1>1, <1>2, <3>2
      <3>5. QED
        BY <3>3, <3>4
    <2>3. QED
      BY <2>1, <2>2
  <1>6. Sums(g, u)
    <2>1. g[0] = 0
      BY <1>1, <1>2, <1>3
    <2>2. QED
      BY <1>4, <1>5, <2>1 DEF Sums
  <1>7. Total(u) = g[k + m] /\ Total(s) = e[k] /\ Total(t) = f[m]
    <2>1. Total(u) = g[Len(u)]
      BY <1>1, <1>6, TotalIs
    <2>2. Total(s) = e[Len(s)] /\ Total(t) = f[Len(t)]
      BY <1>e, <1>f, TotalIs
    <2>3. QED
      BY <1>1, <1>k, <2>1, <2>2
  <1>8. QED
    BY <1>1, <1>3, <1>7, <1>k

(* A number that is changed, or left out, changes the total by as much.    *)
LEMMA TotalChanged ==
  ASSUME NEW t \in Seq(Nat), NEW i \in 1 .. Len(t), NEW u \in Seq(Nat), Len(u) = Len(t),
         \A n \in 1 .. Len(t) : n # i => u[n] = t[n]
  PROVE  Total(u) + t[i] = Total(t) + u[i]
  <1>f. PICK f : Sums(f, t) /\ \A n \in 0 .. Len(t) : f[n] \in Nat
    BY SumsExist
  <1>g. PICK g : g = [n \in 0 .. Len(t) |-> IF n < i THEN f[n] ELSE (f[n] + u[i]) - t[i]]
    OBVIOUS
  <1>1. Len(t) \in Nat /\ \A n \in 1 .. Len(t) : t[n] \in Nat /\ u[n] \in Nat
    <2>1. \A n \in 1 .. Len(u) : u[n] \in Nat
      OBVIOUS
    <2>2. QED
      BY <2>1
  <1>2. /\ f[0] = 0 /\ \A n \in 1 .. Len(t) : f[n] = f[n - 1] + t[n]
        /\ \A n \in 0 .. Len(t) : f[n] \in Nat
    BY <1>f DEF Sums
  <1>3. ASSUME NEW n \in 1 .. Len(u) PROVE g[n] = g[n - 1] + u[n]
    <2>1. /\ n \in 0 .. Len(t) /\ n - 1 \in 0 .. Len(t) /\ n \in 1 .. Len(t)
          /\ f[n] = f[n - 1] + t[n] /\ f[n] \in Nat /\ f[n - 1] \in Nat
          /\ t[n] \in Nat /\ u[n] \in Nat /\ t[i] \in Nat /\ u[i] \in Nat
      <3>1. n \in 0 .. Len(t) /\ n - 1 \in 0 .. Len(t) /\ n \in 1 .. Len(t)
        BY <1>1
      <3>2. QED
        BY <1>1, <1>2, <3>1
    <2>2. CASE n < i
      <3>1. g[n] = f[n] /\ g[n - 1] = f[n - 1] /\ u[n] = t[n]
        BY <1>g, <2>1, <2>2
      <3>2. QED
        BY <2>1, <3>1
    <2>3. CASE n = i
      <3>1. g[n] = (f[n] + u[i]) - t[i] /\ g[n - 1] = f[n - 1]
        BY <1>g, <2>1, <2>3
      <3>2. \A a, b, c \in Nat : ((a + b) + c) - b = a + c
        OBVIOUS
      <3>3. PICK a \in Nat, b \in Nat, c \in Nat : a = f[n - 1] /\ b = t[i] /\ c = u[i]
        BY <2>1
      <3>4. g[n] = ((a + b) + c) - b /\ g[n - 1] = a /\ u[n] = c
        BY <2>1, <2>3, <3>1, <3>3
      <3>5. QED
        BY <3>2, <3>4
    <2>4. CASE n > i
      <3>1. g[n] = (f[n] + u[i]) - t[i] /\ g[n - 1] = (f[n - 1] + u[i]) - t[i] /\ u[n] = t[n]
        <4>1. n \in Nat /\ i \in Nat /\ ~ (n < i) /\ ~ (n - 1 < i) /\ n # i
          BY <2>4, <1>1
        <4>2. QED
          BY <1>g, <2>1, <4>1
      <3>2. \A a, b, c, d \in Nat : ((a + b) + c) - d = ((a + c) - d) + b
        OBVIOUS
      <3>3. PICK a \in Nat, b \in Nat, c \in Nat, d \in Nat :
              a = f[n - 1] /\ b = t[n] /\ c = u[i] /\ d = t[i]
        BY <2>1
      <3>4. g[n] = ((a + b) + c) - d /\ g[n - 1] = (a + c) - d /\ u[n] = b
        BY <2>1, <3>1, <3>3
      <3>5. QED
        BY <3>2, <3>4
    <2>5. QED
      BY <2>1, <2>2, <2>3, <2>4
  <1>4. Sums(g, u)
    <2>1. g = [n \in 0 .. Len(u) |-> g[n]]
      BY <1>g
    <2>2. g[0] = 0
      BY <1>1, <1>2, <1>g
    <2>3. QED
      BY <1>3, <2>1, <2>2 DEF Sums
  <1>5. Total(u) = g[Len(t)] /\ Total(t) = f[Len(t)]
    BY <1>f, <1>4, TotalIs
  <1>6. g[Len(t)] = (f[Len(t)] + u[i]) - t[i] /\ f[Len(t)] \in Nat
    BY <1>1, <1>2, <1>g
  <1>7. QED
    BY <1>1, <1>5, <1>6

(* Without one of the numbers the sum is that much smaller.                *)
LEMMA TotalLess ==
  ASSUME NEW t \in Seq(Nat), NEW i \in 1 .. Len(t), NEW u \in Seq(Nat), Len(u) = Len(t) - 1,
         \A n \in 1 .. Len(u) : u[n] = IF n < i THEN t[n] ELSE t[n + 1]
  PROVE  Total(u) + t[i] = Total(t)
  <1>f. PICK f : Sums(f, t) /\ \A n \in 0 .. Len(t) : f[n] \in Nat
    BY SumsExist
  <1>g. PICK g : g = [n \in 0 .. Len(u) |-> IF n < i THEN f[n] ELSE f[n + 1] - t[i]]
    OBVIOUS
  <1>1. /\ Len(t) \in Nat /\ Len(u) \in Nat /\ Len(t) = Len(u) + 1
        /\ \A n \in 1 .. Len(t) : t[n] \in Nat
    OBVIOUS
  <1>2. /\ f[0] = 0 /\ \A n \in 1 .. Len(t) : f[n] = f[n - 1] + t[n]
        /\ \A n \in 0 .. Len(t) : f[n] \in Nat
    BY <1>f DEF Sums
  <1>3. ASSUME NEW n \in 1 .. Len(u) PROVE g[n] = g[n - 1] + u[n]
    <2>1. /\ n \in 0 .. Len(u) /\ n - 1 \in 0 .. Len(u) /\ n \in 1 .. Len(t) /\ n + 1 \in 1 .. Len(t)
          /\ (n + 1) - 1 = n /\ (n - 1) + 1 = n
      BY <1>1
    <2>2. /\ f[n] = f[n - 1] + t[n] /\ f[n + 1] = f[n] + t[n + 1] /\ f[n] \in Nat /\ f[n - 1] \in Nat
          /\ t[n] \in Nat /\ t[n + 1] \in Nat /\ t[i] \in Nat
      <3>1. n \in 0 .. Len(t) /\ n - 1 \in 0 .. Len(t)
        BY <1>1
      <3>2. f[n] = f[n - 1] + t[n] /\ f[n] \in Nat /\ f[n - 1] \in Nat
        BY <1>2, <2>1, <3>1
      <3>3. f[n + 1] = f[(n + 1) - 1] + t[n + 1]
        BY <1>2, <2>1
      <3>4. t[n] \in Nat /\ t[n + 1] \in Nat /\ t[i] \in Nat
        BY <1>1, <2>1
      <3>5. QED
        BY <2>1, <3>2, <3>3, <3>4
    <2>3. CASE n < i
      <3>1. g[n] = f[n] /\ g[n - 1] = f[n - 1] /\ u[n] = t[n]
        BY <1>g, <2>1, <2>3
      <3>2. QED
        BY <2>2, <3>1
    <2>4. CASE n = i
      <3>1. g[n] = f[n + 1] - t[i] /\ g[n - 1] = f[n - 1] /\ u[n] = t[n + 1]
        BY <1>g, <2>1, <2>4
      <3>2. \A a, b, c \in Nat : ((a + b) + c) - b = a + c
        OBVIOUS
      <3>3. PICK a \in Nat, b \in Nat, c \in Nat : a = f[n - 1] /\ b = t[i] /\ c = t[n + 1]
        BY <2>2
      <3>4. g[n] = ((a + b) + c) - b /\ g[n - 1] = a /\ u[n] = c
        BY <2>2, <2>4, <3>1, <3>3
      <3>5. QED
        BY <3>2, <3>4
    <2>5. CASE n > i
      <3>1. g[n] = f[n + 1] - t[i] /\ g[n - 1] = f[n] - t[i] /\ u[n] = t[n + 1]
        <4>1. n \in Nat /\ i \in Nat /\ ~ (n < i) /\ ~ (n - 1 < i)
          BY <2>5, <1>1
        <4>2. QED
          BY <1>g, <2>1, <4>1
      <3>2. \A a, b, c \in Nat : (a + b) - c = (a - c) + b
        OBVIOUS
      <3>3. PICK a \in Nat, b \in Nat, c \in Nat : a = f[n] /\ b = t[n + 1] /\ c = t[i]
        BY <2>2
      <3>4. g[n] = (a + b) - c /\ g[n - 1] = a - c /\ u[n] = b
        BY <2>2, <3>1, <3>3
      <3>5. QED
        BY <3>2, <3>4
    <2>6. QED
      BY <2>1, <2>3, <2>4, <2>5
  <1>4. Sums(g, u)
    <2>1. g = [n \in 0 .. Len(u) |-> g[n]]
      BY <1>g
    <2>2. g[0] = 0
      BY <1>1, <1>2, <1>g
    <2>3. QED
      BY <1>3, <2>1, <2>2 DEF Sums
  <1>5. Total(u) = g[Len(u)] /\ Total(t) = f[Len(t)]
    BY <1>f, <1>4, TotalIs
  <1>6. g[Len(u)] = f[Len(t)] - t[i]
    <2>1. CASE Len(u) < i
      <3>1. i = Len(t) /\ i - 1 = Len(u) /\ i \in 1 .. Len(t) /\ Len(u) \in 0 .. Len(t)
        BY <1>1, <2>1
      <3>2. f[i] = f[i - 1] + t[i] /\ f[i - 1] \in Nat /\ t[i] \in Nat
        BY <1>1, <1>2, <3>1
      <3>3. QED
        BY <1>1, <1>g, <2>1, <3>1, <3>2
    <2>2. CASE ~ (Len(u) < i)
      BY <1>1, <1>g, <2>2
    <2>3. QED
      BY <2>1, <2>2
  <1>7. f[Len(t)] \in Nat /\ t[i] \in Nat
    BY <1>1, <1>2
  <1>8. QED
    BY <1>5, <1>6, <1>7

-----------------------------------------------------------------------------
(* What each of the directives takes, as numbers to sum up.                *)
Taken(dirs) == [k \in 1 .. Len(dirs) |-> Takes(dirs[k])]

(* They are numbers, and their sum is what the model accounts for.         *)
LEMMA AccountedIs ==
  ASSUME NEW dirs \in Seq(DirectiveType)
  PROVE  /\ Taken(dirs) \in Seq(Nat) /\ Len(Taken(dirs)) = Len(dirs)
         /\ \A k \in 1 .. Len(dirs) : Taken(dirs)[k] = Takes(dirs[k]) /\ Takes(dirs[k]) \in Nat
         /\ Accounted(dirs) = Total(Taken(dirs))
  <1> PICK t : t = Taken(dirs)
    OBVIOUS
  <1>1. Len(dirs) \in Nat /\ \A k \in 1 .. Len(dirs) : dirs[k] \in DirectiveType
    OBVIOUS
  <1>2. \A k \in 1 .. Len(dirs) : Takes(dirs[k]) \in Nat
    BY <1>1 DEF Takes, DirectiveType, Word
  <1>3. /\ t \in Seq(Nat) /\ Len(t) = Len(dirs)
        /\ \A k \in 1 .. Len(dirs) : t[k] = Takes(dirs[k])
    BY <1>1, <1>2 DEF Taken
  <1> DEFINE S(h) == h = [n \in 0 .. Len(dirs) |-> IF n = 0 THEN 0 ELSE h[n - 1] + Takes(dirs[n])]
             first == CHOOSE h : S(h)
  <1>4. ASSUME NEW h PROVE S(h) <=> Sums(h, t)
    <2>1. ASSUME S(h) PROVE Sums(h, t)
      <3>1. PICK k : k = [n \in 0 .. Len(dirs) |-> IF n = 0 THEN 0 ELSE h[n - 1] + Takes(dirs[n])]
        OBVIOUS
      <3>2. h = k
        BY <2>1, <3>1
      <3>3. /\ k = [n \in 0 .. Len(dirs) |-> k[n]] /\ k[0] = 0
            /\ \A n \in 1 .. Len(dirs) : k[n] = h[n - 1] + Takes(dirs[n])
        BY <1>1, <3>1
      <3>4. QED
        BY <1>3, <3>2, <3>3 DEF Sums
    <2>2. ASSUME Sums(h, t) PROVE S(h)
      <3>1. /\ h = [n \in 0 .. Len(dirs) |-> h[n]] /\ h[0] = 0
            /\ \A n \in 1 .. Len(dirs) : h[n] = h[n - 1] + Takes(dirs[n])
        BY <1>3, <2>2 DEF Sums
      <3>2. ASSUME NEW n \in 0 .. Len(dirs)
            PROVE  h[n] = IF n = 0 THEN 0 ELSE h[n - 1] + Takes(dirs[n])
        <4>1. n = 0 \/ n \in 1 .. Len(dirs)
          BY <1>1
        <4>2. n \in 1 .. Len(dirs) => n # 0
          BY <1>1
        <4>3. QED
          BY <3>1, <4>1, <4>2
      <3>3. QED
        BY <3>1, <3>2
    <2>3. QED
      BY <2>1, <2>2
  <1> HIDE DEF S
  <1>5. \E f : Sums(f, t)
    BY <1>3, SumsExist
  <1>6. Sums(first, t)
    BY <1>4, <1>5
  <1>7. Accounted(dirs) = first[Len(dirs)]
    BY DEF Accounted, S
  <1>8. QED
    BY <1>2, <1>3, <1>6, <1>7, TotalIs

(* One directive more accounts for what it takes.                          *)
LEMMA AccountedMore ==
  ASSUME NEW dirs \in Seq(DirectiveType), NEW d \in DirectiveType
  PROVE  Accounted(Append(dirs, d)) = Accounted(dirs) + Takes(d) /\ Accounted(dirs) \in Nat
  <1> PICK out : out = Append(dirs, d)
    OBVIOUS
  <1>1. /\ out \in Seq(DirectiveType) /\ Len(dirs) \in Nat /\ Len(out) = Len(dirs) + 1
        /\ out[Len(dirs) + 1] = d /\ \A k \in 1 .. Len(dirs) : out[k] = dirs[k]
    OBVIOUS
  <1>2. /\ Taken(dirs) \in Seq(Nat) /\ Accounted(dirs) = Total(Taken(dirs))
        /\ Accounted(out) = Total(Taken(out))
    BY <1>1, AccountedIs
  <1>3. Takes(d) \in Nat
    BY DEF Takes, DirectiveType, Word
  <1>4. Taken(out) = Append(Taken(dirs), Takes(d))
    BY <1>1 DEF Taken
  <1>5. PICK f : Sums(f, Taken(dirs))
    BY <1>2, SumsExist
  <1>6. QED
    BY <1>2, <1>3, <1>4, <1>5, TotalMore, TotalIs

-----------------------------------------------------------------------------
(* With the CFA moved by words, each allocation has room for a whole       *)
(* number of them, or is erased.                                           *)
WordsOf(d)    == d.op = "stackalloc" => d.arg > 0 /\ d.arg % Word = 0
WordAllocs(dirs) == \A k \in 1 .. Len(dirs) : WordsOf(dirs[k])

(* A word is taken out of the last allocation of the offset.               *)
LEMMA WordTaken ==
  ASSUME TypeOK, WordAllocs(directives)
  PROVE  /\ WithoutWord \in Seq(DirectiveType) /\ WordAllocs(WithoutWord)
         /\ AllocsHere # {} => Accounted(WithoutWord) + Word = Accounted(directives)
  <1> DEFINE i == LastAllocHere
             size == directives[i].arg
  <1>1. /\ directives \in Seq(DirectiveType) /\ Len(directives) \in Nat
        /\ DOMAIN directives = 1 .. Len(directives)
        /\ \A k \in 1 .. Len(directives) : directives[k] \in DirectiveType
    BY DEF TypeOK
  <1>2. CASE AllocsHere = {}
    BY <1>1, <1>2 DEF WithoutWord
  <1>3. CASE AllocsHere # {}
    <2>1. i \in 1 .. Len(directives) /\ directives[i].op = "stackalloc"
      <3>1. AllocsHere \subseteq 1 .. Len(directives)
        BY <1>1 DEF AllocsHere
      <3>2. \E m \in AllocsHere : \A j \in AllocsHere : j <= m
        BY <1>1, <1>3, <3>1, Greatest
      <3>3. i \in AllocsHere
        BY <3>2 DEF LastAllocHere
      <3>4. QED
        BY <3>1, <3>3 DEF AllocsHere
    <2> HIDE DEF i
    <2>2. size \in Nat /\ size > 0 /\ size % Word = 0
      BY <1>1, <2>1 DEF WordAllocs, WordsOf, DirectiveType
    <2>3. size = Word \/ size > Word
      BY <2>2 DEF Word
    <2>4. Takes(directives[i]) = size
      BY <2>1 DEF Takes
    <2>5. /\ Taken(directives) \in Seq(Nat) /\ Len(Taken(directives)) = Len(directives)
          /\ \A k \in 1 .. Len(directives) : Taken(directives)[k] = Takes(directives[k])
          /\ Accounted(directives) = Total(Taken(directives))
      BY <1>1, AccountedIs
    <2>6. CASE size = Word
      <3>1. PICK r : r = RemoveAt(directives, i)
        OBVIOUS
      <3>2. r = WithoutWord
        BY <1>3, <2>6, <3>1 DEF WithoutWord, i
      <3>3. /\ r \in Seq(DirectiveType) /\ Len(r) = Len(directives) - 1
            /\ \A k \in 1 .. Len(directives) - 1 :
                 r[k] = IF k < i THEN directives[k] ELSE directives[k + 1]
        BY <1>1, <2>1, <3>1, RemoveAtElements
      <3>4. WordAllocs(r)
        <4>1. ASSUME NEW k \in 1 .. Len(r) PROVE WordsOf(r[k])
          <5>1. /\ k \in 1 .. Len(directives) /\ k + 1 \in 1 .. Len(directives)
                /\ r[k] = directives[k] \/ r[k] = directives[k + 1]
            BY <1>1, <3>3
          <5>2. QED
            BY <5>1 DEF WordAllocs
        <4>2. QED
          BY <4>1 DEF WordAllocs
      <3>5. /\ Taken(r) \in Seq(Nat) /\ Len(Taken(r)) = Len(r)
            /\ \A k \in 1 .. Len(r) : Taken(r)[k] = Takes(r[k])
            /\ Accounted(r) = Total(Taken(r))
        BY <3>3, AccountedIs
      <3>6. \A k \in 1 .. Len(Taken(r)) :
              Taken(r)[k] = IF k < i THEN Taken(directives)[k] ELSE Taken(directives)[k + 1]
        <4>1. ASSUME NEW k \in 1 .. Len(r)
              PROVE  Takes(r[k]) = IF k < i THEN Taken(directives)[k] ELSE Taken(directives)[k + 1]
          <5>1. k \in 1 .. Len(directives) /\ k + 1 \in 1 .. Len(directives)
                /\ k \in 1 .. Len(directives) - 1
            BY <1>1, <3>3
          <5>2. CASE k < i
            BY <2>5, <3>3, <5>1, <5>2
          <5>3. CASE ~ (k < i)
            BY <2>5, <3>3, <5>1, <5>3
          <5>4. QED
            BY <5>2, <5>3
        <4>2. QED
          BY <3>5, <4>1
      <3>7. Total(Taken(r)) + Taken(directives)[i] = Total(Taken(directives))
        <4>1. i \in 1 .. Len(Taken(directives)) /\ Len(Taken(r)) = Len(Taken(directives)) - 1
          BY <2>1, <2>5, <3>3, <3>5
        <4>2. QED
          BY <2>5, <3>5, <3>6, <4>1, TotalLess
      <3>8. Taken(directives)[i] = Word
        BY <2>1, <2>4, <2>5, <2>6
      <3>9. QED
        BY <2>5, <3>2, <3>3, <3>4, <3>5, <3>7, <3>8
    <2>7. CASE size > Word
      <3>1. PICK r : r = WithoutWord
        OBVIOUS
      <3>2. PICK rest \in Nat : rest = size - Word /\ rest > 0 /\ rest % Word = 0
        BY <2>2, <2>7 DEF Word
      <3>3. PICK new : new = [directives[i] EXCEPT !.arg = rest]
        OBVIOUS
      <3>4. r = [directives EXCEPT ![i] = new]
        <4>1. size # Word
          BY <2>2, <2>7 DEF Word
        <4>2. WithoutWord = [directives EXCEPT ![i].arg = size - Word]
          BY <1>3, <2>7, <4>1 DEF WithoutWord, i
        <4>3. QED
          BY <3>1, <3>2, <3>3, <4>2
      <3>5. new \in DirectiveType /\ new.op = "stackalloc" /\ new.arg = rest
        BY <1>1, <2>1, <3>2, <3>3 DEF DirectiveType
      <3>6. /\ r \in Seq(DirectiveType) /\ Len(r) = Len(directives)
            /\ \A k \in 1 .. Len(directives) : r[k] = IF k = i THEN new ELSE directives[k]
        BY <1>1, <2>1, <3>4, <3>5
      <3>7. WordAllocs(r)
        BY <3>2, <3>5, <3>6 DEF WordAllocs, WordsOf
      <3>8. /\ Taken(r) \in Seq(Nat) /\ Len(Taken(r)) = Len(r)
            /\ \A k \in 1 .. Len(r) : Taken(r)[k] = Takes(r[k])
            /\ Accounted(r) = Total(Taken(r)) 
        BY <3>6, AccountedIs
      <3>9. Total(Taken(r)) + Taken(directives)[i] = Total(Taken(directives)) + Taken(r)[i]
        <4>1. i \in 1 .. Len(Taken(directives)) /\ Len(Taken(r)) = Len(Taken(directives))
          BY <2>1, <2>5, <3>6, <3>8
        <4>2. \A k \in 1 .. Len(Taken(directives)) : k # i => Taken(r)[k] = Taken(directives)[k]
          BY <2>5, <3>6, <3>8
        <4>3. QED
          BY <2>5, <3>8, <4>1, <4>2, TotalChanged
      <3>10. Taken(directives)[i] = size /\ Taken(r)[i] = rest
        <4>1. Takes(new) = rest
          BY <3>5 DEF Takes
        <4>2. QED
          BY <2>1, <2>4, <2>5, <3>6, <3>8, <4>1
      <3>11. Total(Taken(r)) \in Nat /\ Total(Taken(directives)) \in Nat
        BY <2>5, <3>8, SumsExist, TotalIs
      <3>12. Total(Taken(r)) + Word = Total(Taken(directives))
        BY <2>2, <3>2, <3>9, <3>10, <3>11 DEF Word
      <3>13. QED
        BY <2>5, <3>1, <3>6, <3>7, <3>8, <3>12
    <2>8. QED
      BY <2>3, <2>6, <2>7
  <1>4. QED
    BY <1>2, <1>3

(* A directive that is added keeps allocations whole words.                *)
LEMMA WordsPushed ==
  ASSUME NEW list \in Seq(DirectiveType), WordAllocs(list), NEW op, NEW arg,
         op = "stackalloc" => arg > 0 /\ arg % Word = 0, Push(list, op, arg)
  PROVE  WordAllocs(directives')
  <1>1. PICK d : d = Directive(op, arg)
    OBVIOUS
  <1>2. directives' = Append(list, d) /\ WordsOf(d)
    BY <1>1 DEF Push, WordsOf, Directive
  <1>3. /\ Len(list) \in Nat /\ Len(directives') = Len(list) + 1
        /\ directives'[Len(list) + 1] = d
        /\ \A k \in 1 .. Len(list) : directives'[k] = list[k]
    BY <1>2
  <1>4. QED
    BY <1>2, <1>3 DEF WordAllocs

(* Every instruction keeps them so.                                        *)
LEMMA WordsStep ==
  ASSUME WholeWords, TypeOK, WordAllocs(directives), [Next]_vars
  PROVE  WordAllocs(directives')
  <1>1. directives \in Seq(DirectiveType)
    BY DEF TypeOK
  <1>2. CASE UNCHANGED directives
    BY <1>2
  <1>3. CASE DefCfaOffset
    <2>1. PICK n \in CfaOffsets :
            IF n > Initial THEN Push(directives, "stackalloc", n - Initial)
                           ELSE UNCHANGED <<directives, last_prologue_offset>>
      BY <1>3 DEF DefCfaOffset
    <2>2. CASE n > Initial
      <3>1. n \in Nat /\ n % 8 = 0
        BY CfaOffsetsAssumption DEF WholeWords, Word
      <3>2. n - Initial > 0 /\ (n - Initial) % Word = 0
        BY <2>2, <3>1 DEF Initial, Word
      <3>3. QED
        BY <1>1, <2>1, <2>2, <3>2, WordsPushed
    <2>3. CASE ~ (n > Initial)
      BY <1>2, <2>1, <2>3
    <2>4. QED
      BY <2>2, <2>3
  <1>4. CASE DefCfa \/ DefCfaRegister
    <2>1. \E r \in Registers : Push(directives, "setframe", r) \/ UNCHANGED directives
      BY <1>4 DEF DefCfa, DefCfaRegister
    <2>2. QED
      BY <1>1, <1>2, <2>1, WordsPushed
  <1>5. CASE Offset
    <2>1. PICK r \in Registers : OffsetOf(r)
      BY <1>5 DEF Offset
    <2>2. \/ Push(directives, "savexmm", r)
          \/ UNCHANGED directives
          \/ Push(WithoutWord, "pushreg", r)
          \/ Push(directives, "savereg", r)
      BY <2>1 DEF OffsetOf
    <2>3. WithoutWord \in Seq(DirectiveType) /\ WordAllocs(WithoutWord)
      BY WordTaken
    <2>4. QED
      BY <1>1, <1>2, <2>2, <2>3, WordsPushed
  <1>6. QED
    <2>1. UNCHANGED directives \/ DefCfaOffset \/ DefCfa \/ DefCfaRegister \/ Offset
      BY DEF Next, vars, AdvanceLoc, Return
    <2>2. QED
      BY <1>2, <1>3, <1>4, <1>5, <2>1

(* A push takes its word from the allocation.                              *)
LEMMA WordPushed ==
  ASSUME TypeOK, WordAllocs(directives)
  PROVE  PushTakesFromTheAllocation
  <1> SUFFICES ASSUME Offset, last_cfa_offset_change_offset = current_offset, AllocsHere # {}
               PROVE  Accounted(directives') = Accounted(directives)
    BY DEF PushTakesFromTheAllocation
  <1>1. directives \in Seq(DirectiveType) /\ current_offset \in Nat
    BY DEF TypeOK
  <1>2. PICK r \in Registers : OffsetOf(r)
    BY DEF Offset
  <1>3. \/ Push(directives, "savexmm", r)
        \/ UNCHANGED directives
        \/ Push(WithoutWord, "pushreg", r)
    BY <1>2 DEF OffsetOf
  <1>4. CASE UNCHANGED directives
    BY <1>4
  <1>5. CASE Push(directives, "savexmm", r)
    <2>1. PICK d : d = Directive("savexmm", r)
      OBVIOUS
    <2>2. d \in DirectiveType /\ Takes(d) = 0
      BY <1>1, <2>1, RegistersAssumption DEF Directive, DirectiveType, Takes
    <2>3. directives' = Append(directives, d)
      BY <1>5, <2>1 DEF Push
    <2>4. QED
      BY <1>1, <2>2, <2>3, AccountedMore
  <1>6. CASE Push(WithoutWord, "pushreg", r)
    <2>1. PICK d : d = Directive("pushreg", r)
      OBVIOUS
    <2>2. d \in DirectiveType /\ Takes(d) = Word
      BY <1>1, <2>1, RegistersAssumption DEF Directive, DirectiveType, Takes
    <2>3. directives' = Append(WithoutWord, d)
      BY <1>6, <2>1 DEF Push
    <2>4. WithoutWord \in Seq(DirectiveType)
          /\ Accounted(WithoutWord) + Word = Accounted(directives)
      BY WordTaken
    <2>5. QED
      BY <2>2, <2>3, <2>4, AccountedMore
  <1>7. QED
    BY <1>3, <1>4, <1>5, <1>6

-----------------------------------------------------------------------------
(* arm: no allocation is empty, and the lists are finite.                  *)
AllocsOf(dirs) ==
  \A k \in 1 .. Len(dirs) :
    /\ dirs[k].op = "stackalloc" => dirs[k].arg > 0
    /\ dirs[k].op \in Kinds => Arm!Cardinality(dirs[k].regs) \in Nat

(* What each of arm's directives takes.                                    *)
ArmTaken(dirs) == [k \in 1 .. Len(dirs) |-> Arm!Takes(dirs[k])]

(* They are numbers, and their sum is what the model accounts for.         *)
LEMMA ArmAccountedIs ==
  ASSUME NEW dirs \in Seq(Arm!DirectiveType), AllocsOf(dirs)
  PROVE  /\ ArmTaken(dirs) \in Seq(Nat) /\ Len(ArmTaken(dirs)) = Len(dirs)
         /\ \A k \in 1 .. Len(dirs) :
              ArmTaken(dirs)[k] = Arm!Takes(dirs[k]) /\ Arm!Takes(dirs[k]) \in Nat
         /\ Arm!Accounted(dirs) = Total(ArmTaken(dirs))
  <1> PICK t : t = ArmTaken(dirs)
    OBVIOUS
  <1>1. Len(dirs) \in Nat /\ \A k \in 1 .. Len(dirs) : dirs[k] \in Arm!DirectiveType
    OBVIOUS
  <1>2. ASSUME NEW k \in 1 .. Len(dirs) PROVE Arm!Takes(dirs[k]) \in Nat
    <2>1. dirs[k].arg \in Nat
      BY <1>1 DEF Arm!DirectiveType
    <2>2. ASSUME dirs[k].op \in Kinds
          PROVE  /\ 4 * Arm!Cardinality(dirs[k].regs) \in Nat
                 /\ 8 * Arm!Cardinality(dirs[k].regs) \in Nat
      <3>1. PICK c \in Nat : c = Arm!Cardinality(dirs[k].regs)
        BY <2>2 DEF AllocsOf
      <3>2. 4 * c \in Nat /\ 8 * c \in Nat
        OBVIOUS
      <3>3. QED
        BY <3>1, <3>2
    <2>3. QED
      BY <2>1, <2>2 DEF Arm!Takes, Kinds
  <1>3. /\ t \in Seq(Nat) /\ Len(t) = Len(dirs)
        /\ \A k \in 1 .. Len(dirs) : t[k] = Arm!Takes(dirs[k])
    BY <1>1, <1>2 DEF ArmTaken
  <1> DEFINE S(h) == h = [n \in 0 .. Len(dirs) |->
                            IF n = 0 THEN 0 ELSE h[n - 1] + Arm!Takes(dirs[n])]
             first == CHOOSE h : S(h)
  <1>4. ASSUME NEW h PROVE S(h) <=> Sums(h, t)
    <2>1. ASSUME S(h) PROVE Sums(h, t)
      <3>1. PICK k : k = [n \in 0 .. Len(dirs) |->
                            IF n = 0 THEN 0 ELSE h[n - 1] + Arm!Takes(dirs[n])]
        OBVIOUS
      <3>2. h = k
        BY <2>1, <3>1
      <3>3. /\ k = [n \in 0 .. Len(dirs) |-> k[n]] /\ k[0] = 0
            /\ \A n \in 1 .. Len(dirs) : k[n] = h[n - 1] + Arm!Takes(dirs[n])
        BY <1>1, <3>1
      <3>4. QED
        BY <1>3, <3>2, <3>3 DEF Sums
    <2>2. ASSUME Sums(h, t) PROVE S(h)
      <3>1. /\ h = [n \in 0 .. Len(dirs) |-> h[n]] /\ h[0] = 0
            /\ \A n \in 1 .. Len(dirs) : h[n] = h[n - 1] + Arm!Takes(dirs[n])
        BY <1>3, <2>2 DEF Sums
      <3>2. ASSUME NEW n \in 0 .. Len(dirs)
            PROVE  h[n] = IF n = 0 THEN 0 ELSE h[n - 1] + Arm!Takes(dirs[n])
        <4>1. n = 0 \/ n \in 1 .. Len(dirs)
          BY <1>1
        <4>2. n \in 1 .. Len(dirs) => n # 0
          BY <1>1
        <4>3. QED
          BY <3>1, <4>1, <4>2
      <3>3. QED
        BY <3>1, <3>2
    <2>3. QED
      BY <2>1, <2>2
  <1> HIDE DEF S
  <1>5. \E f : Sums(f, t)
    BY <1>3, SumsExist
  <1>6. Sums(first, t)
    BY <1>4, <1>5
  <1>7. Arm!Accounted(dirs) = first[Len(dirs)]
    BY DEF Arm!Accounted, S
  <1>8. QED
    BY <1>2, <1>3, <1>6, <1>7, TotalIs

(* One more directive, and the directives of one more offset.              *)
LEMMA ArmAccountedMore ==
  ASSUME NEW dirs \in Seq(Arm!DirectiveType), AllocsOf(dirs),
         NEW d \in Arm!DirectiveType, d.op = "stackalloc" => d.arg > 0,
         d.op \in Kinds => Arm!Cardinality(d.regs) \in Nat
  PROVE  /\ AllocsOf(Append(dirs, d))
         /\ Arm!Accounted(Append(dirs, d)) = Arm!Accounted(dirs) + Arm!Takes(d)
         /\ Arm!Accounted(dirs) \in Nat /\ Arm!Takes(d) \in Nat
  <1> PICK out : out = Append(dirs, d)
    OBVIOUS
  <1>1. /\ out \in Seq(Arm!DirectiveType) /\ Len(dirs) \in Nat /\ Len(out) = Len(dirs) + 1
        /\ out[Len(dirs) + 1] = d /\ \A k \in 1 .. Len(dirs) : out[k] = dirs[k]
        /\ \A k \in 1 .. Len(out) : k \in 1 .. Len(dirs) \/ k = Len(dirs) + 1
    OBVIOUS
  <1>2. AllocsOf(out)
    BY <1>1 DEF AllocsOf
  <1>3. /\ ArmTaken(dirs) \in Seq(Nat) /\ Len(ArmTaken(dirs)) = Len(dirs)
        /\ Arm!Accounted(dirs) = Total(ArmTaken(dirs))
    BY ArmAccountedIs
  <1>4. /\ Arm!Accounted(out) = Total(ArmTaken(out))
        /\ \A k \in 1 .. Len(out) : Arm!Takes(out[k]) \in Nat
    BY <1>1, <1>2, ArmAccountedIs
  <1>5. Arm!Takes(d) \in Nat
    <2>1. Len(dirs) + 1 \in 1 .. Len(out)
      BY <1>1
    <2>2. QED
      BY <1>1, <1>4, <2>1
  <1>6. ArmTaken(out) = Append(ArmTaken(dirs), Arm!Takes(d))
    BY <1>1 DEF ArmTaken
  <1>7. PICK f : Sums(f, ArmTaken(dirs))
    BY <1>3, SumsExist
  <1>8. QED
    BY <1>2, <1>3, <1>4, <1>5, <1>6, <1>7, TotalMore, TotalIs

(* Two sequences of directives, one after the other.                       *)
LEMMA ArmAccountedJoined ==
  ASSUME NEW s \in Seq(Arm!DirectiveType), AllocsOf(s),
         NEW t \in Seq(Arm!DirectiveType), AllocsOf(t)
  PROVE  /\ AllocsOf(s \o t)
         /\ Arm!Accounted(s \o t) = Arm!Accounted(s) + Arm!Accounted(t)
         /\ Arm!Accounted(s) \in Nat /\ Arm!Accounted(t) \in Nat
  <1> PICK out : out = s \o t
    OBVIOUS
  <1>1. /\ out \in Seq(Arm!DirectiveType) /\ Len(out) = Len(s) + Len(t)
        /\ Len(s) \in Nat /\ Len(t) \in Nat
        /\ \A k \in 1 .. Len(s) : out[k] = s[k]
        /\ \A k \in 1 .. Len(out) : k \notin 1 .. Len(s) =>
             k - Len(s) \in 1 .. Len(t) /\ out[k] = t[k - Len(s)]
    BY Joined
  <1>2. AllocsOf(out)
    BY <1>1 DEF AllocsOf
  <1>3. PICK a, b, c : a = ArmTaken(s) /\ b = ArmTaken(t) /\ c = ArmTaken(out)
    OBVIOUS
  <1>4. /\ a \in Seq(Nat) /\ Len(a) = Len(s) /\ Arm!Accounted(s) = Total(a)
        /\ \A k \in 1 .. Len(s) : a[k] = Arm!Takes(s[k])
        /\ b \in Seq(Nat) /\ Len(b) = Len(t) /\ Arm!Accounted(t) = Total(b)
        /\ \A k \in 1 .. Len(t) : b[k] = Arm!Takes(t[k])
        /\ c \in Seq(Nat) /\ Len(c) = Len(out) /\ Arm!Accounted(out) = Total(c)
        /\ \A k \in 1 .. Len(out) : c[k] = Arm!Takes(out[k])
    BY <1>1, <1>2, <1>3, ArmAccountedIs
  <1>5. c = a \o b
    <2>1. /\ a \o b \in Seq(Nat) /\ Len(a \o b) = Len(a) + Len(b)
          /\ \A k \in 1 .. Len(a) : (a \o b)[k] = a[k]
          /\ \A k \in 1 .. Len(a \o b) : k \notin 1 .. Len(a) =>
               k - Len(a) \in 1 .. Len(b) /\ (a \o b)[k] = b[k - Len(a)]
      <3>1. a \in Seq(Nat) /\ b \in Seq(Nat)
        BY <1>4
      <3>2. QED
        BY <3>1, Joined
    <2>2. Len(a \o b) = Len(c)
      BY <1>1, <1>4, <2>1
    <2>3. ASSUME NEW k \in 1 .. Len(c) PROVE c[k] = (a \o b)[k]
      <3>1. c[k] = Arm!Takes(out[k])
        BY <1>4
      <3>2. CASE k \in 1 .. Len(s)
        BY <1>1, <1>4, <2>1, <3>1, <3>2
      <3>3. CASE k \notin 1 .. Len(s)
        <4>1. PICK m : m = k - Len(s)
          OBVIOUS
        <4>2. k \in 1 .. Len(out) /\ m \in 1 .. Len(t) /\ out[k] = t[m]
          BY <1>1, <1>4, <3>3, <4>1
        <4>3. (a \o b)[k] = b[m]
          BY <1>4, <2>1, <2>2, <3>3, <4>1
        <4>4. QED
          BY <1>4, <3>1, <4>2, <4>3
      <3>4. QED
        BY <3>2, <3>3
    <2>4. QED
      BY <1>4, <2>1, <2>2, <2>3, SeqEqual
  <1>6. Total(a \o b) = Total(a) + Total(b)
    BY <1>4, TotalJoined
  <1>7. Total(a) \in Nat /\ Total(b) \in Nat
    BY <1>4, SumsExist, TotalIs
  <1>8. QED
    BY <1>2, <1>4, <1>5, <1>6, <1>7

-----------------------------------------------------------------------------
(* The bytes a list stores are taken out of an allocation that is last and *)
(* has room for them; whatever is taken, no allocation is left empty.      *)
LEMMA BytesTaken ==
  ASSUME NEW dirs \in Seq(Arm!DirectiveType), AllocsOf(dirs), NEW off, NEW n \in Nat
  PROVE  /\ AllocsOf(Arm!Without(dirs, off, n))
         /\ (/\ dirs # << >> /\ dirs[Len(dirs)].off = off
             /\ dirs[Len(dirs)].op = "stackalloc" /\ n <= dirs[Len(dirs)].arg)
              => Arm!Accounted(Arm!Without(dirs, off, n)) + n = Arm!Accounted(dirs)
  <1> PICK rest : rest = Arm!Without(dirs, off, n)
    OBVIOUS
  <1> PICK m : m = Len(dirs)
    OBVIOUS
  <1> PICK last : last = dirs[m]
    OBVIOUS
  <1>1. m \in Nat /\ \A k \in 1 .. m : dirs[k] \in Arm!DirectiveType
    OBVIOUS
  <1>2. Arm!Last(dirs) = last
    BY DEF Arm!Last
  <1>3. CASE ~ (dirs # << >> /\ last.off = off /\ last.op = "stackalloc")
    BY <1>2, <1>3 DEF Arm!Without
  <1>4. CASE dirs # << >> /\ last.off = off /\ last.op = "stackalloc"
    <2>1. m \in 1 .. m /\ last \in Arm!DirectiveType
      BY <1>1, <1>4, EmptySeq
    <2>2. last.arg \in Nat /\ last.arg > 0 /\ Arm!Takes(last) = last.arg
      BY <1>4, <2>1 DEF Arm!DirectiveType, AllocsOf, Arm!Takes
    <2>3. rest = IF last.arg = n THEN Arm!Front(dirs)
                 ELSE IF last.arg > n THEN [dirs EXCEPT ![Len(dirs)].arg = @ - n]
                 ELSE dirs
      BY <1>2, <1>4 DEF Arm!Without
    <2>4. CASE last.arg = n
      <3>1. rest = SubSeq(dirs, 1, m - 1)
        BY <2>3, <2>4 DEF Arm!Front
      <3>2. /\ rest \in Seq(Arm!DirectiveType) /\ Len(rest) = m - 1
            /\ \A k \in 1 .. m - 1 : rest[k] = dirs[k]
        <4>1. /\ 1 \in Int /\ m - 1 \in Int /\ \A k \in 1 .. m - 1 : dirs[k] \in Arm!DirectiveType
          BY <1>1, <2>1
        <4>2. /\ SubSeq(dirs, 1, m - 1) \in Seq(Arm!DirectiveType)
              /\ Len(SubSeq(dirs, 1, m - 1)) = IF 1 <= m - 1 THEN (m - 1) - 1 + 1 ELSE 0
              /\ \A k \in 1 .. (m - 1) - 1 + 1 : SubSeq(dirs, 1, m - 1)[k] = dirs[1 + k - 1]
          BY <4>1, SubSeqProperties
        <4>3. (IF 1 <= m - 1 THEN (m - 1) - 1 + 1 ELSE 0) = m - 1
          BY <1>1, <2>1
        <4>4. ASSUME NEW k \in 1 .. m - 1 PROVE k \in 1 .. (m - 1) - 1 + 1 /\ 1 + k - 1 = k
          BY <1>1, <2>1
        <4>5. QED
          BY <3>1, <4>2, <4>3, <4>4
      <3>3. AllocsOf(rest)
        <4>1. \A k \in 1 .. Len(rest) : k \in 1 .. Len(dirs) /\ rest[k] = dirs[k]
          BY <1>1, <3>2
        <4>2. QED
          BY <4>1 DEF AllocsOf
      <3>4. dirs = Append(rest, last)
        <4>1. /\ Append(rest, last) \in Seq(Arm!DirectiveType)
              /\ Len(Append(rest, last)) = m
              /\ \A k \in 1 .. m : Append(rest, last)[k] = dirs[k]
          BY <1>1, <2>1, <3>2
        <4>2. QED
          BY <4>1, SeqEqual
      <3>5. last.op \notin Kinds
        BY <1>4 DEF Kinds
      <3>6. Arm!Accounted(dirs) = Arm!Accounted(rest) + n
        BY <2>1, <2>2, <2>4, <3>2, <3>3, <3>4, <3>5, ArmAccountedMore
      <3>7. QED
        BY <3>3, <3>6
    <2>5. CASE last.arg > n
      <3>1. PICK left \in Nat : left = last.arg - n /\ left > 0
        BY <2>2, <2>5
      <3>2. PICK new : new = [last EXCEPT !.arg = left]
        OBVIOUS
      <3>3. rest = [dirs EXCEPT ![m] = new]
        <4>1. last.arg # n
          BY <2>2, <2>5
        <4>2. rest = [dirs EXCEPT ![m].arg = @ - n]
          BY <2>3, <2>5, <4>1
        <4>3. QED
          BY <3>1, <3>2, <4>2
      <3>4. /\ new \in Arm!DirectiveType /\ new.op = "stackalloc" /\ new.arg = left
            /\ new.op \notin Kinds
        BY <1>4, <2>1, <3>1, <3>2 DEF Arm!DirectiveType, Kinds
      <3>5. /\ rest \in Seq(Arm!DirectiveType) /\ Len(rest) = m
            /\ \A k \in 1 .. m : rest[k] = IF k = m THEN new ELSE dirs[k]
        BY <1>1, <2>1, <3>3, <3>4
      <3>6. AllocsOf(rest)
        BY <3>1, <3>4, <3>5 DEF AllocsOf
      <3>7. PICK t, u : t = ArmTaken(dirs) /\ u = ArmTaken(rest)
        OBVIOUS
      <3>8. /\ t \in Seq(Nat) /\ Len(t) = m /\ Arm!Accounted(dirs) = Total(t)
            /\ \A k \in 1 .. m : t[k] = Arm!Takes(dirs[k])
            /\ u \in Seq(Nat) /\ Len(u) = m /\ Arm!Accounted(rest) = Total(u)
            /\ \A k \in 1 .. m : u[k] = Arm!Takes(rest[k])
        BY <3>5, <3>6, <3>7, ArmAccountedIs
      <3>9. Total(u) + t[m] = Total(t) + u[m]
        <4>1. m \in 1 .. Len(t) /\ Len(u) = Len(t)
          BY <2>1, <3>8
        <4>2. \A k \in 1 .. Len(t) : k # m => u[k] = t[k]
          BY <3>5, <3>8
        <4>3. QED
          BY <3>8, <4>1, <4>2, TotalChanged
      <3>10. t[m] = last.arg /\ u[m] = left
        <4>1. Arm!Takes(new) = left
          BY <3>4 DEF Arm!Takes
        <4>2. QED
          BY <2>1, <2>2, <3>5, <3>8, <4>1
      <3>11. Total(t) \in Nat /\ Total(u) \in Nat
        BY <3>8, SumsExist, TotalIs
      <3>12. Total(u) + n = Total(t)
        <4>1. PICK x \in Nat, y \in Nat, z \in Nat :
                x = Total(u) /\ y = Total(t) /\ z = last.arg
          BY <2>2, <3>11
        <4>2. x + z = y + left /\ left = z - n
          BY <3>1, <3>9, <3>10, <4>1
        <4>3. x + n = y
          BY <4>2
        <4>4. QED
          BY <4>1, <4>3
      <3>13. QED
        BY <3>6, <3>8, <3>12
    <2>6. CASE ~ (n <= last.arg)
      <3>1. ~ (last.arg = n) /\ ~ (last.arg > n)
        BY <2>2, <2>6
      <3>2. rest = dirs
        BY <2>3, <3>1
      <3>3. QED
        BY <2>6, <3>2
    <2>7. QED
      BY <2>2, <2>4, <2>5, <2>6
  <1>5. QED
    BY <1>3, <1>4

(* What a list that is added does to the bytes accounted for: one whose     *)
(* registers all have a name comes out of the allocation before it.        *)
ListedOutOf(out, dirs, off, regs, bytes) ==
  /\ out \in Seq(Arm!DirectiveType)
  /\ AllocsOf(out)
  /\ regs = {} => out = dirs
  /\ (/\ regs # {} /\ regs \subseteq Arm!Named
      /\ dirs # << >> /\ dirs[Len(dirs)].off = off
      /\ dirs[Len(dirs)].op = "stackalloc"
      /\ bytes <= dirs[Len(dirs)].arg)
       => Arm!Accounted(out) = Arm!Accounted(dirs)

(* Listed does that.                                                       *)
LEMMA ListedTakes ==
  ASSUME NEW dirs \in Seq(Arm!DirectiveType), AllocsOf(dirs), NEW off \in Nat, NEW op \in Kinds,
         NEW regs \in SUBSET ArmRegisters, Arm!Cardinality(regs) \in Nat,
         Arm!Cardinality(regs \cap Arm!Named) \in Nat,
         NEW size \in Nat, size = IF op = "save_regs" THEN 4 ELSE 8
  PROVE  ListedOutOf(Arm!Listed(dirs, off, op, regs, size), dirs, off, regs,
                     size * Arm!Cardinality(regs))
  <1>1. PICK out : out = Arm!Listed(dirs, off, op, regs, size)
    OBVIOUS
  <1>2. CASE regs \cap Arm!Named = {}
    <2>1. out = dirs
      BY <1>1, <1>2 DEF Arm!Listed
    <2>2. ~ (regs # {} /\ regs \subseteq Arm!Named)
      BY <1>2
    <2>3. QED
      BY <1>1, <2>1, <2>2 DEF ListedOutOf
  <1>3. CASE regs \cap Arm!Named # {}
    <2>1. PICK n \in Nat : n = size * Arm!Cardinality(regs)
      OBVIOUS
    <2>2. PICK rest : rest = Arm!Without(dirs, off, n)
      OBVIOUS
    <2>3. PICK named : named = regs \cap Arm!Named
      OBVIOUS
    <2>4. PICK d : d = [off |-> off, op |-> op, regs |-> named, arg |-> 0]
      OBVIOUS
    <2>5. out = Append(rest, d)
      BY <1>1, <1>3, <2>1, <2>2, <2>3, <2>4 DEF Arm!Listed
    <2>6. /\ d \in Arm!DirectiveType /\ d.op = op /\ d.regs = named
          /\ d.op # "stackalloc"
      BY <2>3, <2>4 DEF Arm!DirectiveType, Kinds
    <2>7. rest \in Seq(Arm!DirectiveType)
      BY <2>2, WithoutKeeps
    <2>8. /\ AllocsOf(rest)
          /\ (/\ dirs # << >> /\ dirs[Len(dirs)].off = off
              /\ dirs[Len(dirs)].op = "stackalloc" /\ n <= dirs[Len(dirs)].arg)
               => Arm!Accounted(rest) + n = Arm!Accounted(dirs)
      BY <2>2, BytesTaken
    <2>9. /\ AllocsOf(out) /\ Arm!Accounted(out) = Arm!Accounted(rest) + Arm!Takes(d)
          /\ Arm!Accounted(rest) \in Nat /\ Arm!Takes(d) \in Nat
      <3>1. Arm!Cardinality(d.regs) \in Nat
        BY <2>3, <2>6
      <3>2. QED
        BY <2>5, <2>6, <2>7, <2>8, <3>1, ArmAccountedMore
    <2>10. out \in Seq(Arm!DirectiveType)
      BY <2>5, <2>6, <2>7
    <2>11. ASSUME regs \subseteq Arm!Named PROVE Arm!Takes(d) = n
      <3>1. d.regs = regs
        BY <2>3, <2>6, <2>11
      <3>2. QED
        BY <2>1, <2>6, <3>1 DEF Arm!Takes, Kinds
    <2>12. QED
      BY <1>1, <1>3, <2>1, <2>8, <2>9, <2>10, <2>11 DEF ListedOutOf
  <1>4. QED
    BY <1>2, <1>3

(* What a step of the second pass writes.                                  *)
LEMMA ArmTakes ==
  ASSUME ArmInv, AllocsOf(other_dirs), AllocsOf(written), Arm!WriteOffset
  PROVE  AllocsOf(written') /\ Arm!PushTakesFromTheAllocation
  <1>1. phase = "writing" /\ all_offsets # {}
    BY DEF Arm!WriteOffset
  <1>2. /\ Arm!TypeOK /\ OthersInv
        /\ other_dirs \in Seq(Arm!DirectiveType) /\ written \in Seq(Arm!DirectiveType)
        /\ \A d \in Arm!DirectiveType : d.off \in Nat
    BY DEF ArmInv, Arm!TypeOK, Arm!DirectiveType
  <1>3. PICK off : off = Arm!NextOffset
    OBVIOUS
  <1>4. off \in Nat
    <2>1. all_offsets \subseteq Nat /\ all_offsets # {}
      BY <1>1, <1>2, ArmTypes
    <2>2. Arm!Min(all_offsets) \in all_offsets
      BY <2>1, MinFacts
    <2>3. QED
      BY <1>3, <2>1, <2>2 DEF Arm!NextOffset
  <1>5. PICK part : part = Arm!OthersAt(off)
    OBVIOUS
  <1>6. /\ part \in Seq(Arm!DirectiveType)
        /\ \A k \in 1 .. Len(part) : \E m \in 1 .. Len(other_dirs) :
             part[k] = other_dirs[m] /\ other_dirs[m].off = off
    <2>1. Sorted(other_dirs) /\ \A k \in 1 .. Len(other_dirs) : other_dirs[k].off \in Nat
      BY <1>2, ArmTypes DEF OthersInv
    <2>2. part = Aarch64!At(other_dirs, off)
      BY <1>2, <1>5, ArmAt
    <2>3. QED
      BY <1>2, <1>4, <2>1, <2>2, PartFacts
  <1>7. AllocsOf(part) /\ \A k \in 1 .. Len(part) : part[k].off = off
    BY <1>6 DEF AllocsOf
  <1>8. PICK s1 : s1 = written \o part
    OBVIOUS
  <1>9. /\ s1 \in Seq(Arm!DirectiveType) /\ AllocsOf(s1)
        /\ Arm!Accounted(s1) = Arm!Accounted(written) + Arm!Accounted(part)
    BY <1>2, <1>6, <1>7, <1>8, Joined, ArmAccountedJoined
  <1>10. PICK core, vector : /\ core = Arm!SavedAt(off, ArmRegisters \ Arm!Vector)
                             /\ vector = Arm!SavedAt(off, Arm!Vector)
    OBVIOUS
  <1>11. PICK s2 : s2 = Arm!Listed(s1, off, "save_regs", core, 4)
    OBVIOUS
  <1>12. PICK s3 : s3 = Arm!Listed(s2, off, "save_fregs", vector, 8)
    OBVIOUS
  <1>13. written' = s3
    BY <1>3, <1>5, <1>8, <1>10, <1>11, <1>12 DEF Arm!WriteOffset, Arm!Written
  <1>14. ASSUME NEW R
         PROVE  Arm!SavedAt(off, R) = { r \in ArmRegisters \cap R :
                  \E i \in 1 .. Len(saves) : saves[i].off = off /\ saves[i].reg = r }
    BY <1>2, ArmTypes DEF Arm!SavedAt
  <1>15. /\ core \in SUBSET ArmRegisters /\ Arm!Cardinality(core) \in Nat
         /\ core # {} => Arm!Cardinality(core) > 0
         /\ vector \in SUBSET ArmRegisters /\ Arm!Cardinality(vector) \in Nat
         /\ vector # {} => Arm!Cardinality(vector) > 0
    BY <1>2, <1>10, SavedFinite
  <1>16. /\ Arm!Cardinality(core \cap Arm!Named) \in Nat
         /\ Arm!Cardinality(vector \cap Arm!Named) \in Nat
    <2>1. /\ core \cap Arm!Named = Arm!SavedAt(off, (ArmRegisters \ Arm!Vector) \cap Arm!Named)
          /\ vector \cap Arm!Named = Arm!SavedAt(off, Arm!Vector \cap Arm!Named)
      BY <1>10, <1>14
    <2>2. QED
      BY <1>2, <2>1, SavedFinite
  <1>17. "save_regs" \in Kinds /\ "save_fregs" \in Kinds /\ 4 \in Nat /\ 8 \in Nat
    BY DEF Kinds
  <1>18. /\ s2 \in Seq(Arm!DirectiveType) /\ AllocsOf(s2)
         /\ core = {} => s2 = s1
         /\ (/\ core # {} /\ core \subseteq Arm!Named
             /\ s1 # << >> /\ s1[Len(s1)].off = off /\ s1[Len(s1)].op = "stackalloc"
             /\ 4 * Arm!Cardinality(core) <= s1[Len(s1)].arg)
              => Arm!Accounted(s2) = Arm!Accounted(s1)
    <2>1. 4 = IF "save_regs" = "save_regs" THEN 4 ELSE 8
      OBVIOUS
    <2>2. ListedOutOf(Arm!Listed(s1, off, "save_regs", core, 4), s1, off, core,
                      4 * Arm!Cardinality(core))
      BY <1>4, <1>9, <1>15, <1>16, <1>17, <2>1, ListedTakes
    <2>3. QED
      BY <1>11, <2>2 DEF ListedOutOf
  <1>19. /\ s3 \in Seq(Arm!DirectiveType) /\ AllocsOf(s3)
         /\ vector = {} => s3 = s2
         /\ (/\ vector # {} /\ vector \subseteq Arm!Named
             /\ s2 # << >> /\ s2[Len(s2)].off = off /\ s2[Len(s2)].op = "stackalloc"
             /\ 8 * Arm!Cardinality(vector) <= s2[Len(s2)].arg)
              => Arm!Accounted(s3) = Arm!Accounted(s2)
    <2>1. 8 = IF "save_fregs" = "save_regs" THEN 4 ELSE 8
      OBVIOUS
    <2>2. ListedOutOf(Arm!Listed(s2, off, "save_fregs", vector, 8), s2, off, vector,
                      8 * Arm!Cardinality(vector))
      BY <1>4, <1>15, <1>16, <1>17, <1>18, <2>1, ListedTakes
    <2>3. QED
      BY <1>12, <2>2 DEF ListedOutOf
  <1>20. ASSUME Arm!SavedAt(off, ArmRegisters \ Arm!Named) = {}, Arm!OneKind(off),
                Arm!Stored(off) <= Arm!LastAlloc(off)
         PROVE  Arm!Accounted(s3) = Arm!Accounted(s1)
    <2>1. core \subseteq Arm!Named
      BY <1>10, <1>14, <1>20
    <2>2. vector \subseteq Arm!Named
      BY <1>10, <1>14 DEF Arm!Named
    <2>3. vector = {} \/ core = {}
      BY <1>10, <1>20 DEF Arm!OneKind
    <2>4. PICK c \in Nat, v \in Nat : c = Arm!Cardinality(core) /\ v = Arm!Cardinality(vector)
      BY <1>15
    <2>5. 4 * c + 8 * v <= Arm!LastAlloc(off)
      BY <1>10, <1>20, <2>4 DEF Arm!Stored
    <2>6. CASE core = {} /\ vector = {}
      BY <1>18, <1>19, <2>6
    <2>7. CASE core # {} \/ vector # {}
      <3>1. 4 * c + 8 * v > 0
        <4>1. c > 0 \/ v > 0
          BY <1>15, <2>4, <2>7
        <4>2. c \in Nat /\ v \in Nat
          BY <2>4
        <4>3. QED
          BY <4>1, <4>2, SMT
      <3>2. /\ part # << >> /\ Arm!Last(part).op = "stackalloc"
            /\ Arm!LastAlloc(off) = Arm!Last(part).arg
        <4>1. Arm!LastAlloc(off) # 0
          BY <2>4, <2>5, <3>1
        <4>2. QED
          BY <1>5, <4>1 DEF Arm!LastAlloc
      <3>3. Len(part) \in 1 .. Len(part)
        BY <1>6, <3>2, EmptySeq
      <3>4. s1 # << >> /\ s1[Len(s1)] = part[Len(part)]
        <4>1. /\ Len(s1) = Len(written) + Len(part) /\ Len(written) \in Nat /\ Len(part) \in Nat
              /\ \A k \in 1 .. Len(s1) : k \notin 1 .. Len(written) =>
                   k - Len(written) \in 1 .. Len(part) /\ s1[k] = part[k - Len(written)]
          BY <1>2, <1>6, <1>8, Joined
        <4>2. /\ Len(s1) \in 1 .. Len(s1) /\ Len(s1) \notin 1 .. Len(written)
              /\ Len(s1) - Len(written) = Len(part)
          BY <3>3, <4>1
        <4>3. QED
          BY <1>9, <4>1, <4>2
      <3>5. /\ s1[Len(s1)].off = off /\ s1[Len(s1)].op = "stackalloc"
            /\ Arm!LastAlloc(off) = s1[Len(s1)].arg
        BY <1>7, <3>2, <3>3, <3>4 DEF Arm!Last
      <3>6. 4 * c <= Arm!LastAlloc(off) /\ 8 * v <= Arm!LastAlloc(off)
        <4>1. PICK a \in Nat : a = Arm!LastAlloc(off)
          <5>1. part[Len(part)] \in Arm!DirectiveType
            BY <1>6, <3>3
          <5>2. QED
            BY <3>4, <3>5, <5>1 DEF Arm!DirectiveType
        <4>2. 4 * c <= a /\ 8 * v <= a
          BY <2>5, <4>1
        <4>3. QED
          BY <4>1, <4>2
      <3>7. CASE vector = {}
        <4>1. Arm!Accounted(s2) = Arm!Accounted(s1)
          BY <1>18, <2>1, <2>4, <2>7, <3>4, <3>5, <3>6, <3>7
        <4>2. QED
          BY <1>19, <3>7, <4>1
      <3>8. CASE core = {}
        <4>1. s2 = s1
          BY <1>18, <3>8
        <4>2. QED
          BY <1>19, <2>2, <2>4, <2>7, <3>4, <3>5, <3>6, <3>8, <4>1
      <3>9. QED
        BY <2>3, <3>7, <3>8
    <2>8. QED
      BY <2>6, <2>7
  <1>21. ASSUME NEW d \in Arm!ToSet(written'), d.op = "stackalloc" PROVE d.arg > 0
    <2>1. PICK k \in DOMAIN s3 : d = s3[k]
      BY <1>13, <1>21 DEF Arm!ToSet
    <2>2. k \in 1 .. Len(s3)
      BY <1>19, <2>1
    <2>3. QED
      BY <1>19, <1>21, <2>1, <2>2 DEF AllocsOf
  <1>22. Arm!PushTakesFromTheAllocation
    BY <1>3, <1>5, <1>9, <1>13, <1>20, <1>21 DEF Arm!PushTakesFromTheAllocation
  <1>23. QED
    BY <1>13, <1>19, <1>22

(* Allocations are not empty when they are read, nor afterwards.           *)
LEMMA ArmAllocs ==
  ASSUME ArmInv, AllocsOf(other_dirs), AllocsOf(written), Arm!Next
  PROVE  AllocsOf(other_dirs') /\ AllocsOf(written')
  <1>1. /\ Arm!TypeOK /\ current_offset \in Nat /\ current_cfa_offset \in Nat
        /\ other_dirs \in Seq(Arm!DirectiveType)
        /\ \A n \in ArmCfaOffsets : n \in Nat
    BY ArmAssumption DEF ArmInv, Arm!TypeOK
  <1>2. CASE UNCHANGED <<other_dirs, written>>
    BY <1>2
  <1>3. CASE Arm!WriteOffset
    BY <1>3, ArmTakes DEF Arm!WriteOffset
  <1>4. ASSUME NEW n \in Nat
        PROVE  /\ Arm!Alloc(n) \in Seq(Arm!DirectiveType) /\ AllocsOf(Arm!Alloc(n))
               /\ Arm!SetFrame(n) \in Seq(Arm!DirectiveType) /\ AllocsOf(Arm!SetFrame(n))
    <2>1. PICK d : d = Arm!Dir("stackalloc", {}, n)
      OBVIOUS
    <2>2. d \in Arm!DirectiveType /\ d.op = "stackalloc" /\ d.arg = n
      BY <2>1, <1>1 DEF Arm!Dir, Arm!DirectiveType
    <2>3. PICK e : e = Arm!Dir("frame", {Arm!Fp}, n)
      OBVIOUS
    <2>4. e \in Arm!DirectiveType /\ e.op = "frame"
      BY <2>3, <1>1 DEF Arm!Dir, Arm!DirectiveType
    <2>5. <<d>> \in Seq(Arm!DirectiveType) /\ <<e>> \in Seq(Arm!DirectiveType)
          /\ Len(<<d>>) = 1 /\ <<d>>[1] = d /\ Len(<<e>>) = 1 /\ <<e>>[1] = e
          /\ << >> \in Seq(Arm!DirectiveType) /\ Len(<< >>) = 0
      BY <2>2, <2>4
    <2>6. n > 0 => AllocsOf(<<d>>)
      BY <2>2, <2>5 DEF AllocsOf, Kinds
    <2>7. AllocsOf(<<e>>) /\ AllocsOf(<< >>)
      BY <2>4, <2>5 DEF AllocsOf, Kinds
    <2>8. /\ Arm!Alloc(n) = IF n > 0 THEN <<d>> ELSE << >>
          /\ Arm!SetFrame(n) = <<e>>
      BY <2>1, <2>3 DEF Arm!Alloc, Arm!SetFrame
    <2>9. QED
      BY <2>5, <2>6, <2>7, <2>8
  <1>5. ASSUME NEW dirs \in Seq(Arm!DirectiveType), AllocsOf(dirs), Arm!Push(dirs), written' = written
        PROVE  AllocsOf(other_dirs') /\ AllocsOf(written')
    BY <1>1, <1>5, ArmAccountedJoined DEF Arm!Push
  <1>6. CASE Arm!DefCfaOffset
    <2>1. PICK n \in ArmCfaOffsets : Arm!Push(Arm!Alloc(n))
      BY <1>6 DEF Arm!DefCfaOffset
    <2>2. written' = written
      BY <1>6 DEF Arm!DefCfaOffset
    <2>3. QED
      BY <1>1, <1>4, <1>5, <2>1, <2>2
  <1>7. CASE Arm!DefCfa
    <2>1. PICK r : Arm!Push(IF r = Arm!Fp THEN Arm!SetFrame(0) ELSE << >>)
      BY <1>7 DEF Arm!DefCfa
    <2>2. written' = written
      BY <1>7 DEF Arm!DefCfa
    <2>3. AllocsOf(<< >>) /\ << >> \in Seq(Arm!DirectiveType)
      BY DEF AllocsOf
    <2>4. CASE r = Arm!Fp
      BY <1>4, <1>5, <2>1, <2>2, <2>4
    <2>5. CASE r # Arm!Fp
      BY <1>5, <2>1, <2>2, <2>3, <2>5
    <2>6. QED
      BY <2>4, <2>5
  <1>8. CASE Arm!DefCfaRegister
    <2>1. Arm!Push(Arm!SetFrame(Arm!FrameOffset)) /\ written' = written
      BY <1>8 DEF Arm!DefCfaRegister
    <2>2. Arm!FrameOffset \in Nat
      BY <1>1 DEF Arm!FrameOffset
    <2>3. QED
      BY <1>4, <1>5, <2>1, <2>2
  <1>9. QED
    <2>1. Arm!AdvanceLoc \/ Arm!Offset \/ Arm!EndOfProgram => UNCHANGED <<other_dirs, written>>
      BY DEF Arm!AdvanceLoc, Arm!Offset, Arm!EndOfProgram
    <2>2. QED
      BY <1>2, <1>3, <1>6, <1>7, <1>8, <2>1 DEF Arm!Next

-----------------------------------------------------------------------------
(* What a push may take from, on either target.                            *)
AllocInv ==
  /\ arch \in Archs
  /\ arch = "x86_64" => WordAllocs(directives)
  /\ arch = "arm"    => AllocsOf(other_dirs) /\ AllocsOf(written)

(* Nothing is allocated yet.                                               *)
LEMMA AllocStarts == BackendInit => AllocInv
  <1> SUFFICES ASSUME BackendInit PROVE AllocInv
    OBVIOUS
  <1>1. WordAllocs(<< >>) /\ AllocsOf(<< >>)
    BY DEF WordAllocs, AllocsOf
  <1>2. QED
    BY <1>1 DEF BackendInit, Init, NoX86, NoPasses, Arm!Init, AllocInv

(* Every step keeps it.                                                    *)
LEMMA AllocStep ==
  ASSUME "x86_64" \in Archs => WholeWords, BackendInv, AllocInv, [BackendNext]_all_vars
  PROVE  AllocInv'
  <1>1. CASE X8664Step
    <2>1. arch = "x86_64" /\ arch' = arch /\ Next /\ IInv /\ WholeWords
      BY <1>1 DEF X8664Step, BackendInv, AllocInv
    <2>2. WordAllocs(directives')
      BY <2>1, WordsStep DEF AllocInv, IInv
    <2>3. QED
      BY <2>1, <2>2 DEF AllocInv, WordAllocs
  <1>2. CASE Aarch64Step
    <2>1. arch = "aarch64" /\ arch' = arch
      BY <1>2 DEF Aarch64Step
    <2>2. QED
      BY <2>1 DEF AllocInv
  <1>3. CASE ArmStep
    <2>1. arch = "arm" /\ arch' = arch /\ Arm!Next /\ ArmInv
      BY <1>3 DEF ArmStep, BackendInv
    <2>2. AllocsOf(other_dirs') /\ AllocsOf(written')
      BY <2>1, ArmAllocs DEF AllocInv
    <2>3. QED
      BY <2>1, <2>2 DEF AllocInv, AllocsOf
  <1>4. CASE UNCHANGED all_vars
    BY <1>4 DEF all_vars, vars, passes, AllocInv, WordAllocs, AllocsOf
  <1>5. QED
    BY <1>1, <1>2, <1>3, <1>4 DEF BackendNext

(* A save that follows an allocation takes what it stores out of it: on    *)
(* x86_64 as long as the CFA moves by whole words, on arm always when the  *)
(* allocation has room for the list.                                       *)
THEOREM BackendPushes ==
  ASSUME "x86_64" \in Archs => WholeWords
  PROVE  BackendSpec => PushesTakeFromTheAllocation
  <1>1. BackendInv /\ AllocInv /\ [BackendNext]_all_vars => AllocInv'
    BY AllocStep
  <1>2. BackendInv /\ AllocInv /\ [BackendNext]_all_vars
          => [ /\ arch = "x86_64" => PushTakesFromTheAllocation
               /\ arch = "arm"    => Arm!PushTakesFromTheAllocation ]_all_vars
    <2> SUFFICES ASSUME BackendInv, AllocInv, BackendNext
                 PROVE  /\ arch = "x86_64" => PushTakesFromTheAllocation
                        /\ arch = "arm"    => Arm!PushTakesFromTheAllocation
      OBVIOUS
    <2>1. ASSUME arch = "x86_64" PROVE PushTakesFromTheAllocation
      <3>1. TypeOK /\ WordAllocs(directives)
        BY <2>1 DEF BackendInv, AllocInv, IInv
      <3>2. QED
        BY <3>1, WordPushed
    <2>2. ASSUME arch = "arm" PROVE Arm!PushTakesFromTheAllocation
      <3>1. ArmInv /\ AllocsOf(other_dirs) /\ AllocsOf(written)
        BY <2>2 DEF BackendInv, AllocInv
      <3>2. CASE Arm!WriteOffset
        BY <3>1, <3>2, ArmTakes
      <3>3. CASE ~ Arm!WriteOffset
        BY <3>3 DEF Arm!PushTakesFromTheAllocation
      <3>4. QED
        BY <3>2, <3>3
    <2>3. QED
      BY <2>1, <2>2
  <1>3. QED
    BY <1>1, <1>2, AllocStarts, BackendInductive, PTL DEF BackendSpec, PushesTakeFromTheAllocation
=============================================================================
