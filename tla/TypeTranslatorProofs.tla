----------------------- MODULE TypeTranslatorProofs ------------------------
(***************************************************************************)
(* Of TypeTranslator, for every type graph: the indexes held are those of  *)
(* records there are, records refer only to records before them, and the   *)
(* recursion never meets an entry it is already in.  The second part is    *)
(* what the records say: a finished one refers to what the references of   *)
(* its entry were translated to.                                           *)
(***************************************************************************)
EXTENDS TypeTranslator, SequenceTheorems, WellFoundedInduction, TLAPS

Leaves == Tags \cup {"forward", "fieldlist", "enumerators", "arglist", "procedure",
                     "mfunction", "funcid"}
Names  == STRING \cup {""}

Rec == [leaf: Leaves, name: Names, args: Seq(Int)]
Act == [die: Dies, fwd: Int, got: Seq(Int)]

Refs(d)     == program.refs[d]
Backward(t) == \A i \in 1 .. Len(t) : \A k \in 1 .. Len(t[i].args) : t[i].args[k] < i
Upto(n)     == -2 .. n

(* The cache: every entry in translation is in it, unless it is a method.  *)
CacheInv ==
  /\ DOMAIN typeMap \subseteq Dies
  /\ typeMap \in [DOMAIN typeMap -> Upto(Len(table))]

ActivationInv(a) ==
  /\ a.fwd \in Upto(Len(table))
  /\ \A k \in 1 .. Len(a.got) : a.got[k] \in Upto(Len(table))
  /\ Len(a.got) <= Len(Refs(a.die))
  /\ ~ IsMethod(a.die) => a.die \in DOMAIN typeMap

StackInv ==
  /\ stack \in Seq(Act)
  /\ \A i \in 1 .. Len(stack) : ActivationInv(stack[i])
  /\ \A i \in 1 .. Len(stack) - 1 : Len(stack[i].got) < Len(Refs(stack[i].die))
  /\ \A i, j \in 1 .. Len(stack) :
       stack[i].die = stack[j].die /\ ~ IsMethod(stack[i].die) => i = j

(* The inductive invariant.  That an entry in translation is in the cache  *)
(* is what bounds the recursion; that an activation below the top still    *)
(* has a reference to go is what keeps its count right on a return.        *)
IInv ==
  /\ program \in Programs
  /\ table \in Seq(Rec) /\ Backward(table)
  /\ CacheInv
  /\ StackInv

(* What the assumption on the constant says of the graph.                  *)
LEMMA Typed ==
  ASSUME program \in Programs
  PROVE  /\ \A d \in Dies : /\ Refs(d) \in Seq(Dies \cup {0})
                            /\ program.name[d] \in Names /\ Tag(d) \in Tags
                            /\ Len(Refs(d)) \in Nat
         /\ \A d \in Dies : Tag(d) = "typedef" \/ Tag(d) \in Wrappers \/ Tag(d) = "enum"
              => Len(Refs(d)) = 1
         /\ \A d \in Dies : Tag(d) \in {"static", "routine", "subprogram"} => Len(Refs(d)) >= 1
         /\ \A d \in Dies : Tag(d) = "method" => Len(Refs(d)) >= 2
         /\ 0 \notin Dies
<1>1. ProgramType(program)
  BY ProgramsAssumption
<1>2. program.tag \in Seq(Tags) /\ Dies = 1 .. Len(program.tag)
  BY <1>1 DEF ProgramType, Dies
<1>4. \A d \in Dies : Tag(d) \in Tags
  BY <1>2, ElementOfSeq DEF Tag
<1>5. \A d \in Dies : Refs(d) \in Seq(Dies \cup {0}) /\ program.name[d] \in Names
  BY <1>1 DEF ProgramType, Dies, Refs, Names
<1>6. \A d \in Dies : Len(Refs(d)) \in Nat
  BY <1>5, LenProperties
<1>7. \A d \in Dies : /\ Tag(d) \in Wrappers \cup {"typedef", "enum"} => Len(Refs(d)) = 1
                      /\ Tag(d) \in {"static", "routine", "subprogram"} => Len(Refs(d)) >= 1
                      /\ Tag(d) = "method" => Len(Refs(d)) >= 2
  BY <1>1 DEF ProgramType, Dies, Refs, Tag
<1>8. 0 \notin Dies
  BY <1>2
<1> QED
  BY <1>4, <1>5, <1>6, <1>7, <1>8

(* Writing a record leaves those there are alone and gives it an index.    *)
LEMMA WriteGives ==
  ASSUME NEW t \in Seq(Rec), NEW r \in Rec
  PROVE  /\ Write(t, r) \in Seq(Rec)
         /\ IndexIn(Write(t, r), r) \in 1 .. Len(Write(t, r))
         /\ Len(t) \in Nat /\ Len(Write(t, r)) \in Nat /\ Len(t) <= Len(Write(t, r))
<1>0. Len(t) \in Nat /\ DOMAIN t = 1 .. Len(t)
  BY LenProperties
<1>1. CASE \E i \in DOMAIN t : t[i] = r
  <2>1. Write(t, r) = t
    BY <1>1 DEF Write
  <2>2. IndexIn(t, r) \in DOMAIN t
    BY <1>1 DEF IndexIn
  <2> QED
    BY <2>1, <2>2, <1>0
<1>2. CASE ~ \E i \in DOMAIN t : t[i] = r
  <2>1. Write(t, r) = Append(t, r)
    BY <1>2 DEF Write
  <2>2. /\ Append(t, r) \in Seq(Rec) /\ Len(Append(t, r)) = Len(t) + 1
        /\ Append(t, r)[Len(t) + 1] = r
    BY AppendProperties
  <2>3. DOMAIN Append(t, r) = 1 .. Len(t) + 1
    BY <2>2, LenProperties
  <2>4. IndexIn(Append(t, r), r) \in DOMAIN Append(t, r)
    BY <2>2, <2>3, <1>0 DEF IndexIn
  <2> QED
    BY <2>1, <2>2, <2>3, <2>4, <1>0
<1> QED
  BY <1>1, <1>2

(* A record that refers to what is in the table may follow it.             *)
LEMMA WriteBackward ==
  ASSUME NEW t \in Seq(Rec), NEW r \in Rec, Backward(t),
         \A k \in 1 .. Len(r.args) : r.args[k] <= Len(t)
  PROVE  Backward(Write(t, r))
<1>0. Len(t) \in Nat /\ DOMAIN t = 1 .. Len(t)
  BY LenProperties
<1>1. CASE \E i \in DOMAIN t : t[i] = r
  BY <1>1 DEF Write
<1>2. CASE ~ \E i \in DOMAIN t : t[i] = r
  <2> DEFINE u == Append(t, r)
  <2>1. Write(t, r) = u
    BY <1>2 DEF Write
  <2>2. /\ Len(u) = Len(t) + 1 /\ u[Len(t) + 1] = r
        /\ \A i \in 1 .. Len(t) : u[i] = t[i]
    BY AppendProperties
  <2>3. r.args \in Seq(Int)
    BY DEF Rec
  <2> HIDE DEF u
  <2> SUFFICES ASSUME NEW i \in 1 .. Len(u), NEW k \in 1 .. Len(u[i].args)
               PROVE  u[i].args[k] < i
    BY <2>1 DEF Backward
  <2>4. CASE i \in 1 .. Len(t)
    BY <2>2, <2>4 DEF Backward
  <2>5. CASE i = Len(t) + 1
    <3>1. r.args[k] \in Int /\ r.args[k] <= Len(t)
      BY <2>2, <2>3, <2>5, ElementOfSeq
    <3> QED
      BY <3>1, <2>2, <2>5, <1>0
  <2> QED
    BY <2>2, <2>4, <2>5, <1>0
<1> QED
  BY <1>1, <1>2

(* A longer table keeps what is known of an activation.                    *)
LEMMA Longer ==
  ASSUME NEW m \in Nat, NEW n \in Nat, m <= n
  PROVE  Upto(m) \subseteq Upto(n)
BY DEF Upto

(* A step that begins the translation of an entry.                         *)
LEMMA Entered ==
  ASSUME IInv, NEW d \in Dies, ~ Known(d), Enter(d), UNCHANGED program,
         stack = << >> \/ Referring, IsMethod(d) => stack # << >>
  PROVE  IInv'
<1>0. /\ Len(stack) \in Nat /\ DOMAIN stack = 1 .. Len(stack) /\ Len(table) \in Nat
      /\ 0 \in Upto(Len(table)) /\ None \in Upto(Len(table))
  BY LenProperties DEF IInv, StackInv, Upto, None
<1>t. program.name[d] \in Names /\ Refs(d) \in Seq(Dies \cup {0}) /\ Len(Refs(d)) \in Nat
  BY Typed DEF IInv
<1>1. PICK a \in Act :
        /\ stack' = Append(stack, a) /\ a.die = d /\ a.got = << >>
        /\ table' \in Seq(Rec) /\ Backward(table') /\ Len(table') \in Nat
        /\ Len(table) <= Len(table')
        /\ a.fwd \in Upto(Len(table'))
        /\ DOMAIN typeMap' \subseteq Dies
        /\ typeMap' \in [DOMAIN typeMap' -> Upto(Len(table'))]
        /\ DOMAIN typeMap \subseteq DOMAIN typeMap'
        /\ ~ IsMethod(d) => d \in DOMAIN typeMap'
  <2>1. CASE IsMethod(d)
    <3>1. EnterMethod(d)
      BY <2>1 DEF Enter
    <3>2. Len(stack) \in 1 .. Len(stack)
      BY <2>1, <1>0, EmptySeq DEF IInv, StackInv
    <3>3. Top.fwd \in Upto(Len(table))
      BY <3>2 DEF Top, IInv, StackInv, ActivationInv
    <3>4. [die |-> d, fwd |-> Top.fwd, got |-> << >>] \in Act
      BY <3>3 DEF Act, Upto
    <3> QED
      BY <3>1, <3>3, <3>4, <2>1, <1>0 DEF EnterMethod, IInv, CacheInv
  <2>2. CASE ~ IsMethod(d) /\ Tag(d) \in Aggregates
    <3> DEFINE idx == IndexIn(table', Forward(d))
    <3>1. EnterAggregate(d)
      BY <2>2 DEF Enter
    <3>2. Forward(d) \in Rec /\ Forward(d).args = << >>
      BY <1>t DEF Forward, Record, Rec, Leaves
    <3>3. table' = Write(table, Forward(d))
      BY <3>1 DEF EnterAggregate
    <3>4. /\ table' \in Seq(Rec) /\ idx \in 1 .. Len(table')
          /\ Len(table') \in Nat /\ Len(table) <= Len(table')
      BY <3>2, <3>3, WriteGives DEF IInv
    <3>5. Backward(table')
      BY <3>2, <3>3, WriteBackward DEF IInv
    <3>6. idx \in Upto(Len(table'))
      BY <3>4 DEF Upto
    <3> HIDE DEF idx
    <3>7. typeMap' = [e \in DOMAIN typeMap \cup {d} |-> IF e = d THEN idx ELSE typeMap[e]]
      BY <3>1 DEF EnterAggregate, idx
    <3>8. \A e \in DOMAIN typeMap : typeMap[e] \in Upto(Len(table'))
      BY <3>4, <1>0, Longer DEF IInv, CacheInv
    <3>9. typeMap' \in [DOMAIN typeMap \cup {d} -> Upto(Len(table'))] /\ typeMap'[d] = idx
      BY <3>6, <3>7, <3>8
    <3>10. [die |-> d, fwd |-> idx, got |-> << >>] \in Act
      BY <3>4 DEF Act
    <3>11. stack' = Append(stack, [die |-> d, fwd |-> idx, got |-> << >>])
      BY <3>1, <3>9 DEF EnterAggregate
    <3>12. DOMAIN typeMap' = DOMAIN typeMap \cup {d}
      BY <3>7
    <3>13. DOMAIN typeMap' \subseteq Dies
      BY <3>12 DEF IInv, CacheInv
    <3>14. typeMap' \in [DOMAIN typeMap' -> Upto(Len(table'))]
      BY <3>9, <3>12
    <3> QED
      BY <3>4, <3>5, <3>6, <3>10, <3>11, <3>12, <3>13, <3>14
  <2>3. CASE ~ IsMethod(d) /\ Tag(d) \notin Aggregates
    <3>1. EnterPlain(d)
      BY <2>3 DEF Enter
    <3>2. typeMap' = [e \in DOMAIN typeMap \cup {d} |-> IF e = d THEN Void ELSE typeMap[e]]
      BY <3>1 DEF EnterPlain
    <3>3. typeMap' \in [DOMAIN typeMap \cup {d} -> Upto(Len(table))]
      BY <3>2, <1>0 DEF IInv, CacheInv, Void
    <3>4. DOMAIN typeMap' = DOMAIN typeMap \cup {d} /\ DOMAIN typeMap' \subseteq Dies
      BY <3>2 DEF IInv, CacheInv
    <3>5. [die |-> d, fwd |-> None, got |-> << >>] \in Act
      BY DEF Act, None
    <3> QED
      BY <3>1, <3>3, <3>4, <3>5, <1>0 DEF EnterPlain, IInv
  <2> QED
    BY <2>1, <2>2, <2>3
<1>2. /\ stack' \in Seq(Act) /\ Len(stack') = Len(stack) + 1
      /\ stack'[Len(stack) + 1] = a
      /\ \A i \in 1 .. Len(stack) : stack'[i] = stack[i]
  BY <1>1, AppendProperties DEF IInv, StackInv
<1>3. Act' = Act /\ (\A e : IsMethod(e)' = IsMethod(e) /\ Refs(e)' = Refs(e)) /\ Dies' = Dies
  BY DEF Act, Dies, IsMethod, Tag, Refs
<1>4. Upto(Len(table)) \subseteq Upto(Len(table'))
  BY <1>0, <1>1, Longer
<1>5. ASSUME NEW i \in 1 .. Len(stack) PROVE ActivationInv(stack[i])'
  BY <1>1, <1>2, <1>3, <1>4 DEF IInv, StackInv, ActivationInv
<1>6. ActivationInv(a)'
  <2>1. Len(a.got) = 0
    BY <1>1
  <2> QED
    BY <2>1, <1>1, <1>3, <1>t DEF ActivationInv
<1>7. ASSUME NEW i \in 1 .. Len(stack') PROVE ActivationInv(stack[i])'
  <2>2. CASE i \in 1 .. Len(stack)
    BY <2>2, <1>5
  <2>3. CASE i = Len(stack) + 1
    <3>1. stack'[i] = a
      BY <2>3, <1>2
    <3> QED
      BY <3>1, <1>6 DEF ActivationInv
  <2> QED
    BY <2>2, <2>3, <1>2, <1>0
<1>8. \A i \in 1 .. Len(stack') - 1 : Len(stack'[i].got) < Len(Refs(stack[i].die)')
  <2> SUFFICES ASSUME NEW i \in 1 .. Len(stack)
               PROVE  Len(stack[i].got) < Len(Refs(stack[i].die))
    BY <1>2, <1>3, <1>0
  <2>1. CASE i = Len(stack)
    <3>1. Referring
      BY <2>1, <1>0
    <3> QED
      BY <3>1, <2>1 DEF Referring, Top, Refs
  <2>2. CASE i < Len(stack)
    BY <2>2, <1>0 DEF IInv, StackInv
  <2>0. Len(stack) \in Nat /\ i \in 1 .. Len(stack)
    BY <1>0
  <2>3. i = Len(stack) \/ i < Len(stack)
    BY <2>0
  <2> QED
    BY <2>1, <2>2, <2>3
<1>9. ASSUME NEW i \in 1 .. Len(stack'), NEW j \in 1 .. Len(stack'),
             stack'[i].die = stack'[j].die, ~ IsMethod(stack'[i].die)
      PROVE  i = j
  <2>1. \A k \in 1 .. Len(stack) : ~ IsMethod(stack[k].die) => stack[k].die # d
    <3> SUFFICES ASSUME NEW k \in 1 .. Len(stack), ~ IsMethod(stack[k].die)
                 PROVE  stack[k].die # d
      OBVIOUS
    <3>1. stack[k].die \in DOMAIN typeMap
      BY DEF IInv, StackInv, ActivationInv
    <3> QED
      BY <3>1 DEF Known
  <2>2. CASE i \in 1 .. Len(stack) /\ j \in 1 .. Len(stack)
    BY <2>2, <1>2, <1>9 DEF IInv, StackInv
  <2> QED
    BY <2>1, <2>2, <1>0, <1>1, <1>2, <1>9
<1>10. StackInv'
  BY <1>2, <1>3, <1>7, <1>8, <1>9 DEF StackInv
<1>11. CacheInv'
  BY <1>1, <1>3 DEF CacheInv, Upto
<1> QED
  BY <1>1, <1>10, <1>11 DEF IInv, Backward, Rec

(* The positions of a sequence with one element more.                      *)
LEMMA Positions ==
  ASSUME NEW n \in Nat, NEW k \in 1 .. n + 1
  PROVE  k \in 1 .. n \/ k = n + 1
  OBVIOUS

(* A sequence that is not empty has a last position.                       *)
LEMMA LastPosition ==
  ASSUME NEW S, NEW s \in Seq(S), s # << >>
  PROVE  Len(s) \in 1 .. Len(s) /\ Len(s) \in Nat
  <1>1. Len(s) \in Nat \ {0}
    BY EmptySeq
  <1> QED
    BY <1>1

(* A call returns idx to what it leaves on the stack, s.                   *)
LEMMA Resumed ==
  ASSUME IInv, NEW s \in Seq(Act), NEW idx \in Upto(Len(table')),
         Len(table') \in Nat, Len(table) <= Len(table'), Len(s) <= Len(stack),
         \A i \in 1 .. Len(s) : s[i] = stack[i] /\ Len(s[i].got) < Len(Refs(s[i].die)),
         UNCHANGED program, stack' = Resume(s, idx),
         DOMAIN typeMap \subseteq DOMAIN typeMap'
  PROVE  StackInv'
<1>0. /\ Len(stack) \in Nat /\ Len(table) \in Nat /\ Len(s) \in Nat
      /\ DOMAIN s = 1 .. Len(s) /\ s \in [1 .. Len(s) -> Act]
  BY LenProperties, ElementOfSeq DEF IInv, StackInv
<1>1. Act' = Act /\ (\A e : IsMethod(e)' = IsMethod(e) /\ Refs(e)' = Refs(e)) /\ Dies' = Dies
  BY DEF Act, Dies, IsMethod, Tag, Refs
<1>2. Upto(Len(table)) \subseteq Upto(Len(table'))
  BY <1>0, Longer
<1>3. CASE s = << >>
  <2>1. stack' = << >> /\ Len(stack') = 0
    BY <1>3 DEF Resume
  <2>2. stack' \in Seq(Act)
    BY <2>1
  <2> QED
    BY <2>1, <2>2, <1>1 DEF StackInv
<1>4. CASE s # << >>
  <2> DEFINE n == Len(s)
             b == [s[n] EXCEPT !.got = Append(@, idx)]
  <2>1. n \in 1 .. Len(s) /\ n \in Nat
    BY <1>4, LastPosition
  <2>2. s[n] \in Act /\ s[n].got \in Seq(Int) /\ idx \in Int
    <3>1. s[n] \in Act
      BY <2>1, ElementOfSeq
    <3>2. idx \in Int
      BY <1>0 DEF Upto
    <3> QED
      BY <3>1, <3>2 DEF Act
  <2>3. /\ Append(s[n].got, idx) \in Seq(Int)
        /\ Len(Append(s[n].got, idx)) = Len(s[n].got) + 1
        /\ Append(s[n].got, idx)[Len(s[n].got) + 1] = idx
        /\ \A k \in 1 .. Len(s[n].got) : Append(s[n].got, idx)[k] = s[n].got[k]
        /\ Len(s[n].got) \in Nat
    BY <2>2, AppendProperties, LenProperties
  <2>4. /\ b \in Act /\ b.die = s[n].die /\ b.fwd = s[n].fwd
        /\ b.got = Append(s[n].got, idx)
    BY <2>2, <2>3 DEF Act
  <2> HIDE DEF b
  <2>5. stack' = [s EXCEPT ![n] = b]
    BY <1>4, <2>4 DEF Resume, b
  <2>6. /\ stack' \in Seq(Act) /\ Len(stack') = n /\ stack'[n] = b
        /\ \A i \in 1 .. n : i # n => stack'[i] = s[i]
    BY <2>1, <2>4, <2>5, <1>0, ExceptSeq
  <2> HIDE DEF n
  <2>d. \A i \in 1 .. n : stack'[i].die = stack[i].die /\ stack'[i].fwd = stack[i].fwd
    BY <2>1, <2>4, <2>6 DEF n
  <2>7. \A i \in 1 .. n : i # n => stack'[i] = stack[i] /\ ActivationInv(stack[i])
    BY <2>6, <1>0 DEF IInv, StackInv, n
  <2>8. ASSUME NEW i \in 1 .. n PROVE ActivationInv(stack[i])'
    <3>1. CASE i # n
      BY <3>1, <2>7, <1>1, <1>2 DEF ActivationInv
    <3>2. CASE i = n
      <4>1. ActivationInv(stack[n]) /\ stack[n] = s[n]
        BY <2>1, <1>0 DEF IInv, StackInv, n
      <4>2. Len(s[n].got) < Len(Refs(s[n].die)) /\ Len(Refs(s[n].die)) \in Nat
        BY <2>1, <2>2, Typed DEF n, Act, IInv
      <4>3. ASSUME NEW k \in 1 .. Len(b.got) PROVE b.got[k] \in Upto(Len(table'))
        <5>0. Len(b.got) = Len(s[n].got) + 1
          BY <2>3, <2>4
        <5>1. k \in 1 .. Len(s[n].got) \/ k = Len(s[n].got) + 1
          BY <5>0, <2>3, Positions
        <5>2. CASE k \in 1 .. Len(s[n].got)
          <6>1. s[n].got[k] \in Upto(Len(table))
            BY <4>1, <5>2 DEF ActivationInv
          <6> QED
            BY <6>1, <5>2, <2>3, <2>4, <1>2
        <5>3. CASE k = Len(s[n].got) + 1
          BY <5>3, <2>3, <2>4
        <5> QED
          BY <5>1, <5>2, <5>3
      <4>4. Len(b.got) <= Len(Refs(b.die))
        BY <4>2, <2>3, <2>4
      <4>5. b.fwd \in Upto(Len(table')) /\ (~ IsMethod(b.die) => b.die \in DOMAIN typeMap')
        BY <4>1, <2>4, <1>2 DEF ActivationInv
      <4>6. stack'[i] = b
        BY <3>2, <2>6
      <4> QED
        BY <4>3, <4>4, <4>5, <4>6, <1>1 DEF ActivationInv
    <3> QED
      BY <3>1, <3>2
  <2>9. \A i \in 1 .. n - 1 : Len(stack'[i].got) < Len(Refs(stack[i].die)')
    <3> SUFFICES ASSUME NEW i \in 1 .. n - 1
                 PROVE  Len(stack'[i].got) < Len(Refs(stack[i].die)')
      OBVIOUS
    <3>1. i \in 1 .. Len(s) /\ i # n /\ i \in 1 .. n
      BY <2>1 DEF n
    <3>2. stack'[i] = s[i]
      BY <3>1, <2>6
    <3> QED
      BY <3>1, <3>2, <1>1
  <2>10. \A i, j \in 1 .. n :
           stack'[i].die = stack'[j].die /\ ~ IsMethod(stack'[i].die) => i = j
    BY <2>d, <1>0 DEF IInv, StackInv, n
  <2> QED
    BY <2>6, <2>8, <2>9, <2>10, <1>1 DEF StackInv
<1> QED
  BY <1>3, <1>4

(* The end of a translation: t is the table, idx the result.               *)
LEMMA Returned ==
  ASSUME IInv, stack # << >>, NEW t \in Seq(Rec), Backward(t), Len(table) <= Len(t),
         NEW idx \in Upto(Len(t)), Return(t, idx)
  PROVE  IInv'
<1>0. /\ Len(stack) \in Nat /\ Len(table) \in Nat /\ Len(t) \in Nat
      /\ stack \in Seq(Act) /\ stack \in [1 .. Len(stack) -> Act]
  BY LenProperties, ElementOfSeq DEF IInv, StackInv
<1>1. Len(stack) \in 1 .. Len(stack)
  BY <1>0, EmptySeq
<1> DEFINE n == Len(stack) - 1
<1>2. n \in Nat /\ n <= Len(stack)
  BY <1>0, <1>1
<1>3. /\ Popped \in Seq(Act) /\ Len(Popped) = n
      /\ \A i \in 1 .. n : Popped[i] = stack[i]
  BY <1>0, <1>1, <1>2, SubSeqProperties DEF Popped
<1>4. /\ table' = t /\ stack' = Resume(Popped, idx) /\ UNCHANGED program
      /\ typeMap' = IF IsMethod(Top.die) THEN typeMap ELSE [typeMap EXCEPT ![Top.die] = idx]
  BY DEF Return
<1>5. DOMAIN typeMap' = DOMAIN typeMap
  BY <1>4
<1>6. Upto(Len(table)) \subseteq Upto(Len(t))
  BY <1>0, Longer
<1>7. typeMap \in [DOMAIN typeMap -> Upto(Len(t))]
  BY <1>6 DEF IInv, CacheInv
<1>8. typeMap' \in [DOMAIN typeMap -> Upto(Len(t))]
  BY <1>4, <1>7
<1>9. Dies' = Dies
  BY <1>4 DEF Dies
<1>10. CacheInv'
  <2>1. DOMAIN typeMap \subseteq Dies
    BY DEF IInv, CacheInv
  <2>2. Upto(Len(table))' = Upto(Len(t))
    BY <1>4 DEF Upto
  <2> QED
    BY <2>1, <2>2, <1>5, <1>8, <1>9 DEF CacheInv
<1>11. \A i \in 1 .. n : Len(stack[i].got) < Len(Refs(stack[i].die))
  BY DEF IInv, StackInv
<1> HIDE DEF n
<1>12. \A i \in 1 .. Len(Popped) :
         Popped[i] = stack[i] /\ Len(Popped[i].got) < Len(Refs(Popped[i].die))
  BY <1>3, <1>11
<1>13. Len(Popped) <= Len(stack) /\ Len(table') \in Nat /\ Len(table) <= Len(table')
  BY <1>0, <1>2, <1>3, <1>4
<1>14. idx \in Upto(Len(table')) /\ DOMAIN typeMap \subseteq DOMAIN typeMap'
  BY <1>4, <1>5
<1>15. StackInv'
  BY <1>3, <1>4, <1>12, <1>13, <1>14, Resumed
<1>16. table' \in Seq(Rec) /\ Backward(table')
  BY <1>4
<1>17. Rec' = Rec /\ Backward(table)' = Backward(table')
  BY DEF Rec, Backward
<1> QED
  BY <1>4, <1>10, <1>15, <1>16, <1>17 DEF IInv

(* The same for a record written last.                                     *)
LEMMA ReturnedRecord ==
  ASSUME IInv, stack # << >>, NEW t \in Seq(Rec), Backward(t), Len(table) <= Len(t),
         NEW r \in Rec, \A k \in 1 .. Len(r.args) : r.args[k] <= Len(t),
         ReturnRecord(t, r)
  PROVE  IInv'
<1> DEFINE u   == Write(t, r)
           idx == IndexIn(u, r)
<1>1. u \in Seq(Rec) /\ idx \in 1 .. Len(u) /\ Len(u) \in Nat /\ Len(t) <= Len(u) /\ Len(t) \in Nat
  BY WriteGives
<1>2. Backward(u)
  BY WriteBackward
<1>3. Return(u, idx)
  BY DEF ReturnRecord
<1>4. idx \in Upto(Len(u)) /\ Len(table) \in Nat
  BY <1>1, LenProperties DEF Upto, IInv
<1> HIDE DEF u, idx
<1>5. Len(table) <= Len(u)
  BY <1>1, <1>4
<1> QED
  BY <1>1, <1>2, <1>3, <1>4, <1>5, Returned

(* What the entry on top was given is in reach of the table.               *)
LEMMA TopGiven ==
  ASSUME IInv, stack # << >>, ~ Referring
  PROVE  /\ Top \in Act /\ Top.die \in Dies /\ Top.got \in Seq(Int) /\ Top.fwd \in Int
         /\ Top.fwd <= Len(table) /\ Top.fwd \in Upto(Len(table))
         /\ \A k \in 1 .. Len(Top.got) : Top.got[k] \in Upto(Len(table)) /\ Top.got[k] <= Len(table)
         /\ Len(Top.got) = Len(Refs(Top.die)) /\ Len(Top.got) \in Nat /\ Len(table) \in Nat
         /\ table \in Seq(Rec) /\ Backward(table)
         /\ program.name[Top.die] \in Names /\ Tag(Top.die) \in Tags
<1>1. Len(stack) \in 1 .. Len(stack) /\ stack \in [1 .. Len(stack) -> Act]
  BY LenProperties, ElementOfSeq, EmptySeq DEF IInv, StackInv
<1>2. Top \in Act /\ ActivationInv(Top)
  BY <1>1 DEF Top, IInv, StackInv
<1>3. Top.die \in Dies /\ Top.got \in Seq(Int) /\ Top.fwd \in Int
  BY <1>2 DEF Act
<1>4. Len(Top.got) \in Nat /\ Len(Refs(Top.die)) \in Nat /\ Len(table) \in Nat
  BY <1>3, Typed, LenProperties DEF IInv
<1>5. Len(Top.got) = Len(Refs(Top.die))
  BY <1>2, <1>4 DEF Referring, Refs, ActivationInv
<1>6. \A k \in 1 .. Len(Top.got) : Top.got[k] \in Upto(Len(table)) /\ Top.got[k] <= Len(table)
  BY <1>2, <1>4 DEF ActivationInv, Upto
<1>7. Top.fwd <= Len(table) /\ Top.fwd \in Upto(Len(table))
  BY <1>2, <1>4 DEF ActivationInv, Upto
<1>8. program.name[Top.die] \in Names /\ Tag(Top.die) \in Tags
  BY <1>3, Typed DEF IInv
<1> QED
  BY <1>2, <1>3, <1>4, <1>5, <1>6, <1>7, <1>8 DEF IInv

(* A record written before the last one.                                   *)
LEMMA Written ==
  ASSUME NEW t \in Seq(Rec), Backward(t), NEW r \in Rec,
         \A k \in 1 .. Len(r.args) : r.args[k] <= Len(t)
  PROVE  /\ Write(t, r) \in Seq(Rec) /\ Backward(Write(t, r))
         /\ IndexIn(Write(t, r), r) \in Int /\ IndexIn(Write(t, r), r) <= Len(Write(t, r))
         /\ Len(t) <= Len(Write(t, r)) /\ Len(t) \in Nat /\ Len(Write(t, r)) \in Nat
<1>1. /\ Write(t, r) \in Seq(Rec) /\ IndexIn(Write(t, r), r) \in 1 .. Len(Write(t, r))
      /\ Len(t) \in Nat /\ Len(Write(t, r)) \in Nat /\ Len(t) <= Len(Write(t, r))
  BY WriteGives
<1>2. Backward(Write(t, r))
  BY WriteBackward
<1> QED
  BY <1>1, <1>2

(* Each end of the switch.                                                 *)
LEMMA Finished ==
  ASSUME IInv, Finish
  PROVE  IInv'
<1> USE TopGiven
<1>1. CASE Base
  BY <1>1, Returned DEF Base, Ready, Basic, Upto
<1>2. CASE Unknown
  BY <1>2, Returned DEF Unknown, Ready, Void, Upto
<1>3. CASE Typedef
  <2>1. stack # << >> /\ ~ Referring /\ Tag(Top.die) = "typedef" /\ Return(table, Top.got[1])
    BY <1>3 DEF Typedef, Ready
  <2>2. Len(Top.got) = 1
    BY <2>1, Typed DEF IInv
  <2>3. Top.got[1] \in Upto(Len(table))
    BY <2>1, <2>2
  <2> QED
    BY <2>1, <2>3, Returned
<1>4. CASE Wrapper
  <2> DEFINE r == Record(Tag(Top.die), "", Top.got)
  <2>1. stack # << >> /\ ~ Referring /\ ReturnRecord(table, r)
    BY <1>4 DEF Wrapper, Ready
  <2>2. r \in Rec /\ r.args = Top.got
    BY <2>1 DEF Record, Rec, Leaves, Names
  <2> HIDE DEF r
  <2>3. \A k \in 1 .. Len(r.args) : r.args[k] <= Len(table)
    BY <2>1, <2>2, TopGiven
  <2>4. table \in Seq(Rec) /\ Backward(table) /\ Len(table) <= Len(table)
    BY <2>1, TopGiven
  <2> QED
    BY <2>1, <2>2, <2>3, <2>4, ReturnedRecord
<1>5. CASE Declared
  <2> DEFINE r == Forward(Top.die)
  <2>1. stack # << >> /\ ~ Referring /\ ReturnRecord(table, r)
    BY <1>5 DEF Declared, Ready
  <2>2. r \in Rec /\ r.args = << >> /\ Len(r.args) = 0
    BY <2>1 DEF Forward, Record, Rec, Leaves
  <2> HIDE DEF r
  <2> QED
    BY <2>1, <2>2, ReturnedRecord
<1>6. CASE Aggregate
  <2> DEFINE f == Record("fieldlist", "", Top.got)
             t == Write(table, f)
             j == IndexIn(t, f)
             r == Record(Tag(Top.die), program.name[Top.die], <<j>>)
  <2>1. stack # << >> /\ ~ Referring /\ ReturnRecord(t, r)
    BY <1>6 DEF Aggregate, Ready
  <2>2. f \in Rec /\ f.args = Top.got
    BY <2>1 DEF Record, Rec, Leaves, Names
  <2> HIDE DEF f
  <2>3. t \in Seq(Rec) /\ Backward(t) /\ j \in Int /\ j <= Len(t) /\ Len(table) <= Len(t)
    BY <2>1, <2>2, Written
  <2> HIDE DEF t, j
  <2>4. r \in Rec /\ r.args = <<j>> /\ Len(r.args) = 1 /\ r.args[1] = j
    BY <2>1, <2>3 DEF Record, Rec, Leaves
  <2> HIDE DEF r
  <2>5. \A k \in 1 .. Len(r.args) : r.args[k] <= Len(t)
    BY <2>3, <2>4
  <2> QED
    BY <2>1, <2>3, <2>4, <2>5, ReturnedRecord
<1>7. CASE Enum
  <2> DEFINE f == Record("enumerators", program.name[Top.die], << >>)
             t == Write(table, f)
             j == IndexIn(t, f)
             q == IF program.refs[Top.die][1] = 0 THEN Basic ELSE Top.got[1]
             r == Record("enum", program.name[Top.die], <<j, q>>)
  <2>1. /\ stack # << >> /\ ~ Referring /\ ReturnRecord(t, r)
        /\ Tag(Top.die) = "enum"
    BY <1>7 DEF Enum, Ready
  <2>2. f \in Rec /\ f.args = << >> /\ Len(f.args) = 0
    BY <2>1 DEF Record, Rec, Leaves
  <2> HIDE DEF f
  <2>3. t \in Seq(Rec) /\ Backward(t) /\ j \in Int /\ j <= Len(t) /\ Len(table) <= Len(t)
        /\ Len(t) \in Nat
    BY <2>1, <2>2, Written
  <2> HIDE DEF t, j
  <2>4. Len(Top.got) = 1
    BY <2>1, Typed DEF IInv
  <2>5. q \in Int /\ q <= Len(t)
    BY <2>1, <2>3, <2>4 DEF Basic
  <2> HIDE DEF q
  <2>6. r \in Rec /\ r.args = <<j, q>>
    BY <2>1, <2>3, <2>5 DEF Record, Rec, Leaves
  <2> HIDE DEF r
  <2>7. \A k \in 1 .. Len(r.args) : r.args[k] <= Len(t)
    BY <2>3, <2>5, <2>6
  <2> QED
    BY <2>1, <2>3, <2>6, <2>7, ReturnedRecord
<1>8. ASSUME stack # << >>, ~ Referring, Len(Top.got) >= 1
      PROVE  LET t == Write(table, ArgList) IN
               /\ t \in Seq(Rec) /\ Backward(t) /\ Len(table) <= Len(t) /\ Len(t) \in Nat
               /\ Procedure(t) \in Rec
               /\ \A k \in 1 .. Len(Procedure(t).args) : Procedure(t).args[k] <= Len(t)
  <2> DEFINE t == Write(table, ArgList)
             j == IndexIn(t, ArgList)
  <2>1. /\ Tail(Top.got) \in Seq(Int) /\ Len(Tail(Top.got)) = Len(Top.got) - 1
        /\ \A k \in 1 .. Len(Tail(Top.got)) : Tail(Top.got)[k] = Top.got[k + 1]
    BY <1>8, HeadTailProperties, EmptySeq
  <2>2. ArgList \in Rec /\ ArgList.args = Tail(Top.got)
    BY <2>1 DEF ArgList, Parameters, Record, Rec, Leaves, Names
  <2>3. ASSUME NEW k \in 1 .. Len(ArgList.args) PROVE ArgList.args[k] <= Len(table)
    <3>1. k + 1 \in 1 .. Len(Top.got) /\ ArgList.args[k] = Top.got[k + 1]
      BY <1>8, <2>1, <2>2
    <3> QED
      BY <1>8, <3>1
  <2>4. /\ t \in Seq(Rec) /\ Backward(t) /\ j \in Int /\ j <= Len(t) /\ Len(table) <= Len(t)
        /\ Len(t) \in Nat
    BY <1>8, <2>2, <2>3, Written
  <2>5. Procedure(t) = Record("procedure", "", <<Top.got[1], j>>)
    BY DEF Procedure
  <2> HIDE DEF t, j
  <2>a. Top.got \in Seq(Int) /\ 1 \in 1 .. Len(Top.got) /\ Len(table) \in Nat
    BY <1>8, TopGiven
  <2>6. Top.got[1] \in Int /\ Top.got[1] <= Len(table)
    BY <1>8, <2>a, ElementOfSeq, TopGiven
  <2>b. <<Top.got[1], j>> \in Seq(Int)
    BY <2>4, <2>6
  <2>c. Record("procedure", "", <<Top.got[1], j>>) \in Rec
    BY <2>b DEF Record, Rec, Leaves, Names
  <2>d. Procedure(t) \in Rec
    BY <2>5, <2>c
  <2>e. Record("procedure", "", <<Top.got[1], j>>).args = <<Top.got[1], j>>
    BY DEF Record
  <2>7. Procedure(t) \in Rec /\ Procedure(t).args = <<Top.got[1], j>>
    BY <2>5, <2>d, <2>e
  <2>8. Top.got[1] <= Len(t)
    BY <1>8, <2>4, <2>6
  <2>9. \A k \in 1 .. Len(Procedure(t).args) : Procedure(t).args[k] <= Len(t)
    BY <2>4, <2>7, <2>8
  <2> QED
    BY <2>4, <2>7, <2>9 DEF t
<1>9. CASE Routine
  <2> DEFINE t == Write(table, ArgList)
  <2>1. /\ stack # << >> /\ ~ Referring /\ ReturnRecord(t, Procedure(t))
        /\ Tag(Top.die) \in {"static", "routine", "subprogram"}
    BY <1>9 DEF Routine, Ready
  <2>2. Len(Top.got) >= 1
    BY <2>1, Typed DEF IInv
  <2> QED
    BY <2>1, <2>2, <1>8, ReturnedRecord
<1>10. CASE Subprogram
  <2> DEFINE t == Write(table, ArgList)
             p == Procedure(t)
             u == Write(t, p)
             j == IndexIn(u, p)
             r == Record("funcid", program.name[Top.die], <<j>>)
  <2>1. /\ stack # << >> /\ ~ Referring /\ ReturnRecord(u, r)
        /\ Tag(Top.die) \in {"static", "routine", "subprogram"}
    BY <1>10 DEF Subprogram, Ready
  <2>2. Len(Top.got) >= 1
    BY <2>1, Typed DEF IInv
  <2>3. /\ t \in Seq(Rec) /\ Backward(t) /\ Len(table) <= Len(t) /\ Len(t) \in Nat
        /\ p \in Rec /\ \A k \in 1 .. Len(p.args) : p.args[k] <= Len(t)
    BY <2>1, <2>2, <1>8
  <2> HIDE DEF t, p
  <2>4. /\ u \in Seq(Rec) /\ Backward(u) /\ j \in Int /\ j <= Len(u) /\ Len(t) <= Len(u)
        /\ Len(u) \in Nat
    BY <2>3, Written
  <2> HIDE DEF u, j
  <2>5. Len(table) <= Len(u)
    BY <2>1, <2>3, <2>4
  <2>6. r \in Rec /\ r.args = <<j>> /\ Len(r.args) = 1 /\ r.args[1] = j
    BY <2>1, <2>4 DEF Record, Rec, Leaves
  <2> HIDE DEF r
  <2>7. \A k \in 1 .. Len(r.args) : r.args[k] <= Len(u)
    BY <2>4, <2>6
  <2> QED
    BY <2>1, <2>4, <2>5, <2>6, <2>7, ReturnedRecord
<1>11. CASE Method
  <2> DEFINE g == SubSeq(Top.got, 3, Len(Top.got))
             f == Record("arglist", "", g)
             t == Write(table, f)
             j == IndexIn(t, f)
             r == Record("mfunction", "", <<Top.got[1], j, Top.got[2], Top.fwd>>)
  <2>1. /\ stack # << >> /\ ~ Referring /\ ReturnRecord(t, r)
        /\ Tag(Top.die) = "method"
    BY <1>11 DEF Method, Ready
  <2>a. /\ Top.got \in Seq(Int) /\ Top.fwd \in Int /\ Top.fwd <= Len(table)
        /\ \A k \in 1 .. Len(Top.got) : Top.got[k] <= Len(table)
        /\ Len(table) \in Nat
    BY <2>1, TopGiven
  <2>2. Len(Top.got) >= 2 /\ Len(Top.got) \in Nat
    BY <2>1, Typed DEF IInv
  <2>3. /\ g \in Seq(Int) /\ Len(g) = Len(Top.got) - 2
        /\ \A k \in 1 .. Len(g) : g[k] = Top.got[k + 2]
    BY <2>a, <2>2, SubSeqProperties
  <2> HIDE DEF g
  <2>4. f \in Rec /\ f.args = g
    BY <2>1, <2>3 DEF Record, Rec, Leaves, Names
  <2>5. ASSUME NEW k \in 1 .. Len(g) PROVE g[k] <= Len(table)
    <3>1. k + 2 \in 1 .. Len(Top.got) /\ g[k] = Top.got[k + 2]
      BY <2>2, <2>3
    <3> QED
      BY <2>1, <3>1
  <2> HIDE DEF f
  <2>6. /\ t \in Seq(Rec) /\ Backward(t) /\ j \in Int /\ j <= Len(t) /\ Len(table) <= Len(t)
        /\ Len(t) \in Nat
    BY <2>1, <2>4, <2>5, Written
  <2> HIDE DEF t, j
  <2>b. 1 \in 1 .. Len(Top.got) /\ 2 \in 1 .. Len(Top.got)
    BY <2>2
  <2>7. Top.got[1] \in Int /\ Top.got[1] <= Len(table) /\ Top.got[2] \in Int /\ Top.got[2] <= Len(table)
    BY <2>a, <2>b, ElementOfSeq
  <2>c. <<Top.got[1], j, Top.got[2], Top.fwd>> \in Seq(Int)
    BY <2>a, <2>6, <2>7
  <2>8. r \in Rec /\ r.args = <<Top.got[1], j, Top.got[2], Top.fwd>>
    BY <2>c DEF Record, Rec, Leaves, Names
  <2>9. Top.got[1] <= Len(t) /\ Top.got[2] <= Len(t) /\ Top.fwd <= Len(t)
    BY <2>a, <2>6, <2>7
  <2> HIDE DEF r
  <2>10. \A k \in 1 .. Len(r.args) : r.args[k] <= Len(t)
    BY <2>6, <2>8, <2>9
  <2> QED
    BY <2>1, <2>6, <2>8, <2>10, ReturnedRecord
<1> QED
  BY <1>1, <1>2, <1>3, <1>4, <1>5, <1>6, <1>7, <1>9, <1>10, <1>11 DEF Finish

(* A call that returns at once: AnswerNull and AnswerKnown.                *)
LEMMA Answered ==
  ASSUME IInv, AnswerNull \/ AnswerKnown
  PROVE  IInv'
<1>1. PICK idx \in Upto(Len(table)) : stack' = Resume(stack, idx)
  <2>1. CASE AnswerNull
    <3>1. 0 \in Upto(Len(table))
      BY LenProperties DEF IInv, Upto
    <3> QED
      BY <2>1, <3>1 DEF AnswerNull, Void
  <2>2. CASE AnswerKnown
    BY <2>2 DEF AnswerKnown, Known, IInv, CacheInv
  <2> QED
    BY <2>1, <2>2
<1>2. Referring /\ UNCHANGED <<program, typeMap, table>>
  BY DEF AnswerNull, AnswerKnown
<1>3. Len(stack) \in 1 .. Len(stack) /\ stack \in Seq(Act) /\ Len(stack) \in Nat
  BY <1>2, EmptySeq, LenProperties DEF Referring, IInv, StackInv
<1>4. Len(table) \in Nat
  BY LenProperties DEF IInv
<1>5. ASSUME NEW i \in 1 .. Len(stack) PROVE Len(stack[i].got) < Len(Refs(stack[i].die))
  <2>1. CASE i = Len(stack)
    BY <2>1, <1>2 DEF Referring, Top, Refs
  <2>2. CASE i < Len(stack)
    BY <2>2, <1>3 DEF IInv, StackInv
  <2>3. i = Len(stack) \/ i < Len(stack)
    BY <1>3
  <2> QED
    BY <2>1, <2>2, <2>3
<1>6. StackInv'
  BY <1>1, <1>2, <1>3, <1>4, <1>5, Resumed
<1>7. CacheInv'
  BY <1>2 DEF IInv, CacheInv, Dies, Upto
<1> QED
  BY <1>2, <1>6, <1>7 DEF IInv, Backward, Rec

(* Every step keeps it.                                                    *)
LEMMA Stays ==
  ASSUME IInv, [Next]_vars
  PROVE  IInv'
<1>1. CASE Request
  <2>1. PICK d \in Dies : ~ IsMethod(d) /\ ~ Known(d) /\ Enter(d)
    BY <1>1 DEF Request
  <2> QED
    BY <1>1, <2>1, Entered DEF Request
<1>2. CASE Call
  <2>1. /\ Referring /\ NextRef # 0 /\ ~ Known(NextRef) /\ Enter(NextRef)
        /\ UNCHANGED program /\ stack # << >>
    BY <1>2 DEF Call, Referring
  <2>2. Len(stack) \in 1 .. Len(stack) /\ stack \in [1 .. Len(stack) -> Act]
    BY <2>1, LenProperties, ElementOfSeq, EmptySeq DEF IInv, StackInv
  <2>3. Top.die \in Dies /\ Top.got \in Seq(Int)
    BY <2>2 DEF Top, Act
  <2>4. Refs(Top.die) \in Seq(Dies \cup {0}) /\ Len(Top.got) \in Nat
    BY <2>3, Typed, LenProperties DEF IInv
  <2>5. Len(Top.got) + 1 \in 1 .. Len(Refs(Top.die)) /\ NextRef = Refs(Top.die)[Len(Top.got) + 1]
    BY <2>1, <2>4, LenProperties DEF Referring, Refs, NextRef
  <2>6. NextRef \in Dies
    BY <2>1, <2>4, <2>5, ElementOfSeq
  <2> QED
    BY <2>1, <2>6, Entered
<1>3. CASE AnswerNull \/ AnswerKnown
  BY <1>3, Answered
<1>4. CASE Finish
  BY <1>4, Finished
<1>5. CASE UNCHANGED vars
  <2>1. UNCHANGED <<program, typeMap, table, stack>>
    BY <1>5 DEF vars
  <2>2. (CacheInv' = CacheInv) /\ (StackInv' = StackInv)
    BY <2>1 DEF CacheInv, StackInv, ActivationInv, Upto, Dies, Act, IsMethod, Tag, Refs
  <2> QED
    BY <2>1, <2>2 DEF IInv, Backward, Rec
<1> QED
  BY <1>1, <1>2, <1>3, <1>4, <1>5 DEF Next

(* IInv holds in every reachable state.                                    *)
THEOREM Inductive == Spec => []IInv
<1>1. Init => IInv
  <2> SUFFICES ASSUME Init PROVE IInv
    OBVIOUS
  <2>1. Len(<< >>) = 0 /\ << >> \in Seq(Rec) /\ << >> \in Seq(Act) /\ DOMAIN << >> = {}
    OBVIOUS
  <2>2. CacheInv
    BY <2>1 DEF Init, CacheInv
  <2> QED
    BY <2>1, <2>2 DEF Init, IInv, Backward, StackInv
<1> QED
  BY <1>1, Stays, PTL DEF Spec

(* Type correctness: every index held is one of the table or of a simple   *)
(* type.                                                                   *)
THEOREM TypeCorrect == Spec => []TypeOK
<1>1. IInv => TypeOK
  <2> SUFFICES ASSUME IInv PROVE TypeOK
    OBVIOUS
  <2>1. Upto(Len(table)) = Index /\ Len(table) \in Nat
    BY LenProperties DEF IInv, Upto, Index, None, Basic
  <2>2. /\ DOMAIN stack = 1 .. Len(stack) /\ stack \in [1 .. Len(stack) -> Act]
        /\ \A i \in 1 .. Len(stack) : ActivationInv(stack[i])
    BY LenProperties, ElementOfSeq DEF IInv, StackInv
  <2>3. ASSUME NEW i \in DOMAIN stack
        PROVE  /\ stack[i].die \in Dies /\ stack[i].fwd \in Index
               /\ Len(stack[i].got) <= Len(program.refs[stack[i].die])
               /\ \A k \in DOMAIN stack[i].got : stack[i].got[k] \in Index
    <3>1. stack[i] \in Act /\ ActivationInv(stack[i])
      BY <2>2
    <3>2. DOMAIN stack[i].got = 1 .. Len(stack[i].got)
      BY <3>1, LenProperties DEF Act
    <3> QED
      BY <3>1, <3>2, <2>1 DEF Act, ActivationInv, Refs
  <2> QED
    BY <2>1, <2>3 DEF IInv, CacheInv, TypeOK
<1> QED
  BY <1>1, Inductive, PTL

(* Records refer only to records before them.                              *)
THEOREM Topological == Spec => []RefersBackward
<1>1. IInv => RefersBackward
  <2> SUFFICES ASSUME IInv, NEW i \in DOMAIN table, NEW k \in DOMAIN table[i].args
               PROVE  table[i].args[k] < i
    BY DEF RefersBackward
  <2>1. DOMAIN table = 1 .. Len(table) /\ table \in [1 .. Len(table) -> Rec]
    BY LenProperties, ElementOfSeq DEF IInv
  <2>2. DOMAIN table[i].args = 1 .. Len(table[i].args)
    BY <2>1, LenProperties DEF Rec
  <2> QED
    BY <2>1, <2>2 DEF IInv, Backward
<1> QED
  BY <1>1, Inductive, PTL

(* The recursion never enters an entry it is in already.                   *)
THEOREM Bounded == Spec => []RecursionBounded
<1>1. IInv => RecursionBounded
  <2> SUFFICES ASSUME IInv PROVE RecursionBounded
    OBVIOUS
  <2>1. DOMAIN stack = 1 .. Len(stack)
    BY LenProperties DEF IInv, StackInv
  <2> QED
    BY <2>1 DEF IInv, StackInv, RecursionBounded
<1> QED
  BY <1>1, Inductive, PTL

-----------------------------------------------------------------------------
(* What the table says of the types that are finished.                     *)
Busy     == { stack[i].die : i \in 1 .. Len(stack) }
Translated == { d \in DOMAIN typeMap : ~ IsMethod(d) /\ d \notin Busy }

(* Index a was given for the reference r.  Unlike StandsFor this is also   *)
(* meant while r is in translation, when the index in the cache is that of *)
(* its placeholder; it does not change any more.                           *)
Answers(a, r) ==
  \/ r = 0 /\ a = Void
  \/ /\ r \in Dies /\ IsMethod(r) /\ a \in 1 .. Len(table)
     /\ table[a].leaf = IF Tag(r) = "static" THEN "procedure" ELSE "mfunction"
  \/ r \in Translated /\ a = typeMap[r]
  \/ r \in Dies /\ Tag(r) \in Aggregates /\ a \in 1 .. Len(table) /\ table[a] = Forward(r)
  \/ r \in Dies /\ ~ IsMethod(r) /\ Tag(r) \notin Aggregates /\ a = Void /\ OnCycle(r)

(* Record i of table t is that of an entry of this tag, with the parts p.  *)
Holds(t, tag, i, p) ==
  /\ i \in 1 .. Len(t)
  /\ tag \in Wrappers => t[i].args = p
  /\ tag \in Aggregates => \E j \in 1 .. Len(t) : t[i].args = <<j>> /\ t[j].args = p
  /\ tag = "routine" =>
       \E j \in 1 .. Len(t) : t[i].args = <<p[1], j>> /\ p = <<p[1]>> \o t[j].args
  /\ tag = "subprogram" =>
       \E j, k \in 1 .. Len(t) :
         t[i].args = <<j>> /\ t[j].args = <<p[1], k>> /\ p = <<p[1]>> \o t[k].args

Shown(d) ==
  \E p \in Seq(Int) :
    /\ Holds(table, Tag(d), typeMap[d], p) /\ Len(p) = Len(Refs(d))
    /\ \A k \in 1 .. Len(p) : Answers(p[k], Refs(d)[k])

(* What the cache has of an entry in translation.                          *)
Placeholder(d) ==
  IF Tag(d) \in Aggregates THEN typeMap[d] \in 1 .. Len(table) /\ table[typeMap[d]] = Forward(d)
  ELSE typeMap[d] = Void

(* The activations are a path in the graph, which is a cycle when the next *)
(* reference is to one of them.                                            *)
GraphInv ==
  /\ \A i \in 1 .. Len(stack) : ~ IsMethod(stack[i].die) => Placeholder(stack[i].die)
  /\ \A i \in 1 .. Len(stack) - 1 :
       stack[i + 1].die = Refs(stack[i].die)[Len(stack[i].got) + 1]
  /\ \A i \in 1 .. Len(stack) : \A k \in 1 .. Len(stack[i].got) :
       Answers(stack[i].got[k], Refs(stack[i].die)[k])
  /\ \A d \in Translated : HasParts(d) => Shown(d)

(* Of a set of numbers one is the least.                                   *)
LEMMA Least ==
  ASSUME NEW T \in SUBSET Nat, T # {}
  PROVE  \E x \in T : \A y \in T : x <= y
<1> DEFINE Less == OpToRel(<, Nat)
<1>1. IsWellFoundedOn(Less, Nat)
  BY NatLessThanWellFounded
<1>2. \A x, y \in Nat : <<y, x>> \notin Less => x <= y
  BY DEF OpToRel
<1> HIDE DEF Less
<1>3. \E x \in T : \A y \in T : ~ (<<y, x>> \in Less)
  BY <1>1, WFMin, Zenon
<1> QED
  BY <1>2, <1>3

Extended(t, u) ==
  /\ Len(t) \in Nat /\ Len(u) \in Nat /\ Len(t) <= Len(u)
  /\ \A i \in 1 .. Len(t) : u[i] = t[i]

(* A step that does away with nothing that is finished.                    *)
Adds ==
  /\ UNCHANGED program /\ Extended(table, table')
  /\ \A d \in Translated : d \in Translated' /\ typeMap'[d] = typeMap[d]

(* The graph is that of the program, which no step changes.                *)
LEMMA SameProgram ==
  ASSUME UNCHANGED program
  PROVE  /\ Dies' = Dies
         /\ \A d : /\ Tag(d)' = Tag(d) /\ IsMethod(d)' = IsMethod(d) /\ Refs(d)' = Refs(d)
                   /\ Forward(d)' = Forward(d) /\ OnCycle(d)' = OnCycle(d)
                   /\ HasParts(d)' = HasParts(d)
<1>1. Dies' = Dies /\ \A d : Tag(d)' = Tag(d) /\ Refs(d)' = Refs(d) /\ Referred(d)' = Referred(d)
  BY DEF Dies, Tag, Refs, Referred
<1>2. \A d : IsMethod(d)' = IsMethod(d) /\ Forward(d)' = Forward(d) /\ HasParts(d)' = HasParts(d)
  BY <1>1 DEF IsMethod, Forward, HasParts
<1>3. \A d : OnCycle(d)' = OnCycle(d)
  BY <1>1 DEF OnCycle
<1> QED
  BY <1>1, <1>2, <1>3

(* What a record holds it holds in a longer table.                         *)
LEMMA HoldsMore ==
  ASSUME NEW t, NEW u, Extended(t, u), NEW tag, NEW i, NEW p, Holds(t, tag, i, p)
  PROVE  Holds(u, tag, i, p)
<1>1. \A j \in 1 .. Len(t) : j \in 1 .. Len(u) /\ u[j] = t[j]
  BY DEF Extended
<1>2. i \in 1 .. Len(u) /\ u[i] = t[i]
  BY <1>1 DEF Holds
<1>3. tag \in Aggregates => \E j \in 1 .. Len(u) : u[i].args = <<j>> /\ u[j].args = p
  BY <1>1, <1>2 DEF Holds
<1>4. tag = "routine" =>
        \E j \in 1 .. Len(u) : u[i].args = <<p[1], j>> /\ p = <<p[1]>> \o u[j].args
  BY <1>1, <1>2 DEF Holds
<1>5. tag = "subprogram" =>
        \E j, k \in 1 .. Len(u) :
          u[i].args = <<j>> /\ u[j].args = <<p[1], k>> /\ p = <<p[1]>> \o u[k].args
  <2> SUFFICES ASSUME tag = "subprogram"
               PROVE  \E j, k \in 1 .. Len(u) :
                        u[i].args = <<j>> /\ u[j].args = <<p[1], k>> /\ p = <<p[1]>> \o u[k].args
    OBVIOUS
  <2>1. PICK j, k \in 1 .. Len(t) :
          t[i].args = <<j>> /\ t[j].args = <<p[1], k>> /\ p = <<p[1]>> \o t[k].args
    BY DEF Holds
  <2> QED
    BY <2>1, <1>1, <1>2
<1>6. tag \in Wrappers => u[i].args = p
  BY <1>2 DEF Holds
<1> QED
  BY <1>2, <1>3, <1>4, <1>5, <1>6 DEF Holds

(* What was answered and shown stays so.                                   *)
LEMMA Persists ==
  ASSUME Adds
  PROVE  /\ \A a, r : Answers(a, r) => Answers(a, r)'
         /\ \A d \in Translated : Shown(d) => Shown(d)'
<1>1. /\ Dies' = Dies
      /\ \A d : /\ Tag(d)' = Tag(d) /\ IsMethod(d)' = IsMethod(d) /\ Refs(d)' = Refs(d)
                /\ Forward(d)' = Forward(d) /\ OnCycle(d)' = OnCycle(d)
  BY SameProgram DEF Adds
<1>2. \A j \in 1 .. Len(table) : j \in 1 .. Len(table') /\ table'[j] = table[j]
  BY DEF Adds, Extended
<1>3. ASSUME NEW a, NEW r, Answers(a, r) PROVE Answers(a, r)'
  <2>1. CASE r = 0 /\ a = Void
    BY <2>1 DEF Answers
  <2>2. CASE /\ r \in Dies /\ IsMethod(r) /\ a \in 1 .. Len(table)
             /\ table[a].leaf = IF Tag(r) = "static" THEN "procedure" ELSE "mfunction"
    <3>1. /\ r \in Dies' /\ IsMethod(r)' /\ a \in 1 .. Len(table')
          /\ table'[a].leaf = IF Tag(r)' = "static" THEN "procedure" ELSE "mfunction"
      BY <2>2, <1>1, <1>2
    <3> QED
      BY <3>1 DEF Answers
  <2>3. CASE r \in Translated /\ a = typeMap[r]
    <3>1. r \in Translated' /\ a = typeMap'[r]
      BY <2>3 DEF Adds
    <3> QED
      BY <3>1 DEF Answers
  <2>4. CASE r \in Dies /\ Tag(r) \in Aggregates /\ a \in 1 .. Len(table) /\ table[a] = Forward(r)
    <3>1. r \in Dies' /\ Tag(r)' \in Aggregates /\ a \in 1 .. Len(table') /\ table'[a] = Forward(r)'
      BY <2>4, <1>1, <1>2
    <3> QED
      BY <3>1 DEF Answers
  <2>5. CASE r \in Dies /\ ~ IsMethod(r) /\ Tag(r) \notin Aggregates /\ a = Void /\ OnCycle(r)
    <3>1. r \in Dies' /\ ~ IsMethod(r)' /\ Tag(r)' \notin Aggregates /\ a = Void /\ OnCycle(r)'
      BY <2>5, <1>1
    <3> QED
      BY <3>1 DEF Answers
  <2> QED
    BY <1>3, <2>1, <2>2, <2>3, <2>4, <2>5 DEF Answers
<1>4. ASSUME NEW d \in Translated, Shown(d) PROVE Shown(d)'
  <2>1. PICK p \in Seq(Int) :
          /\ Holds(table, Tag(d), typeMap[d], p) /\ Len(p) = Len(Refs(d))
          /\ \A k \in 1 .. Len(p) : Answers(p[k], Refs(d)[k])
    BY <1>4 DEF Shown
  <2>2. typeMap'[d] = typeMap[d] /\ Extended(table, table')
    BY DEF Adds
  <2>3. Holds(table', Tag(d), typeMap'[d], p)
    BY <2>1, <2>2, HoldsMore
  <2>4. \A k \in 1 .. Len(p) : Answers(p[k], Refs(d)[k])'
    BY <2>1, <1>1, <1>3
  <2>5. Tag(d)' = Tag(d) /\ Refs(d)' = Refs(d)
    BY <1>1
  <2> QED
    BY <2>1, <2>3, <2>4, <2>5 DEF Shown
<1> QED
  BY <1>3, <1>4

(* A record that is written is there, and those before it stay.            *)
LEMMA WriteExtends ==
  ASSUME NEW t \in Seq(Rec), NEW r \in Rec
  PROVE  /\ Extended(t, Write(t, r)) /\ Write(t, r) \in Seq(Rec)
         /\ IndexIn(Write(t, r), r) \in 1 .. Len(Write(t, r))
         /\ Write(t, r)[IndexIn(Write(t, r), r)] = r
<1>0. Len(t) \in Nat /\ DOMAIN t = 1 .. Len(t)
  BY LenProperties
<1>1. \E i \in DOMAIN Write(t, r) : Write(t, r)[i] = r
  <2>1. CASE \E i \in DOMAIN t : t[i] = r
    BY <2>1 DEF Write
  <2>2. CASE ~ \E i \in DOMAIN t : t[i] = r
    <3>1. Write(t, r) = Append(t, r)
      BY <2>2 DEF Write
    <3>2. /\ Append(t, r) \in Seq(Rec) /\ Len(Append(t, r)) = Len(t) + 1
          /\ Append(t, r)[Len(t) + 1] = r
      BY AppendProperties
    <3>3. Len(t) + 1 \in DOMAIN Append(t, r)
      BY <3>2, <1>0, LenProperties
    <3> QED
      BY <3>1, <3>2, <3>3
  <2> QED
    BY <2>1, <2>2
<1>2. Write(t, r)[IndexIn(Write(t, r), r)] = r
  BY <1>1 DEF IndexIn
<1>3. \A i \in 1 .. Len(t) : Write(t, r)[i] = t[i]
  BY AppendProperties DEF Write
<1> QED
  BY <1>2, <1>3, WriteGives DEF Extended

(* Nor does a record after another change those there were.                *)
LEMMA ExtendedTwice ==
  ASSUME NEW t, NEW u, NEW v, Extended(t, u), Extended(u, v)
  PROVE  Extended(t, v)
<1>1. \A i \in 1 .. Len(t) : i \in 1 .. Len(u) /\ v[i] = t[i]
  BY DEF Extended
<1> QED
  BY <1>1 DEF Extended

(* The stack that a call returns to.                                       *)
LEMMA ResumedAt ==
  ASSUME NEW s \in Seq(Act), s # << >>, NEW idx \in Int
  PROVE  /\ Len(s) \in Nat /\ Len(s) \in 1 .. Len(s) /\ Len(Resume(s, idx)) = Len(s)
         /\ \A i \in 1 .. Len(s) :
              Resume(s, idx)[i].die = s[i].die /\ (i # Len(s) => Resume(s, idx)[i] = s[i])
         /\ Len(s[Len(s)].got) \in Nat
         /\ Len(Resume(s, idx)[Len(s)].got) = Len(s[Len(s)].got) + 1
         /\ Resume(s, idx)[Len(s)].got[Len(s[Len(s)].got) + 1] = idx
         /\ \A k \in 1 .. Len(s[Len(s)].got) : Resume(s, idx)[Len(s)].got[k] = s[Len(s)].got[k]
<1> DEFINE n == Len(s)
           b == [s[n] EXCEPT !.got = Append(@, idx)]
<1>1. n \in 1 .. Len(s) /\ n \in Nat
  BY LastPosition
<1>2. s[n] \in Act
  BY <1>1, ElementOfSeq
<1>3. s[n].got \in Seq(Int)
  BY <1>2 DEF Act
<1>4. /\ Append(s[n].got, idx) \in Seq(Int)
      /\ Len(Append(s[n].got, idx)) = Len(s[n].got) + 1
      /\ Append(s[n].got, idx)[Len(s[n].got) + 1] = idx
      /\ \A k \in 1 .. Len(s[n].got) : Append(s[n].got, idx)[k] = s[n].got[k]
      /\ Len(s[n].got) \in Nat
  BY <1>3, AppendProperties, LenProperties
<1>5. b \in Act /\ b.die = s[n].die /\ b.got = Append(s[n].got, idx)
  BY <1>2, <1>4 DEF Act
<1> HIDE DEF b
<1>6. Resume(s, idx) = [s EXCEPT ![n] = b]
  BY <1>5 DEF Resume, b
<1>7. /\ Len(Resume(s, idx)) = n /\ Resume(s, idx)[n] = b
      /\ \A i \in 1 .. n : i # n => Resume(s, idx)[i] = s[i]
  BY <1>1, <1>5, <1>6, ExceptSeq
<1> HIDE DEF n
<1>8. \A i \in 1 .. n : Resume(s, idx)[i].die = s[i].die
  BY <1>5, <1>7
<1> QED
  BY <1>1, <1>4, <1>5, <1>7, <1>8 DEF n

(* A reference to an entry in translation closes a cycle.                  *)
LEMMA CycleClosed ==
  ASSUME IInv, GraphInv, Referring, NextRef \in Busy, NextRef \in Dies
  PROVE  OnCycle(NextRef)
<1>1. /\ stack # << >> /\ stack \in Seq(Act) /\ Len(stack) \in Nat
      /\ \A i \in 1 .. Len(stack) : stack[i] \in Act
  BY LenProperties, ElementOfSeq DEF Referring, IInv, StackInv
<1>2. \A i \in 1 .. Len(stack) :
        stack[i].die \in Dies /\ Len(stack[i].got) \in Nat /\ Len(Refs(stack[i].die)) \in Nat
  BY <1>1, Typed, LenProperties DEF IInv, Act
<1>3. \A i \in 1 .. Len(stack) : Len(stack[i].got) + 1 \in DOMAIN Refs(stack[i].die)
  <2> SUFFICES ASSUME NEW i \in 1 .. Len(stack)
               PROVE  Len(stack[i].got) + 1 \in DOMAIN Refs(stack[i].die)
    OBVIOUS
  <2>1. Refs(stack[i].die) \in Seq(Dies \cup {0})
    BY <1>2, Typed DEF IInv
  <2>2. Len(stack[i].got) < Len(Refs(stack[i].die))
    <3>1. CASE i = Len(stack)
      BY <3>1 DEF Referring, Top, Refs
    <3>2. CASE i # Len(stack)
      BY <3>2, <1>1 DEF IInv, StackInv
    <3> QED
      BY <3>1, <3>2
  <2> QED
    BY <2>1, <2>2, <1>2, LenProperties
<1>4. PICK m \in 1 .. Len(stack) : NextRef = stack[m].die
  BY DEF Busy
<1> SUFFICES ASSUME NEW S \in SUBSET Dies, Referred(NextRef) \subseteq S,
                    \A e \in S : Referred(e) \subseteq S
             PROVE  NextRef \in S
  BY DEF OnCycle
<1>5. 0 \notin Dies
  BY Typed DEF IInv
(* The first entry on the path from there whose references are not in S.   *)
<1> DEFINE T == { i \in m .. Len(stack) : ~ Referred(stack[i].die) \subseteq S }
<1>6. T = {}
  <2> SUFFICES ASSUME T # {} PROVE FALSE
    OBVIOUS
  <2>1. PICK i \in T : \A j \in T : i <= j
    <3>1. T \in SUBSET Nat
      BY <1>1
    <3> QED
      BY <3>1, Least
  <2>2. i # m /\ i - 1 \in m .. Len(stack) /\ i - 1 \in 1 .. Len(stack) - 1 /\ i - 1 \notin T
    BY <2>1, <1>1, <1>4
  <2>3. Referred(stack[i - 1].die) \subseteq S
    BY <2>2
  <2>4. stack[i].die = Refs(stack[i - 1].die)[Len(stack[i - 1].got) + 1]
    <3>1. (i - 1) + 1 = i
      BY <2>1, <1>1
    <3> QED
      BY <2>2, <3>1 DEF GraphInv
  <2>5. stack[i].die \in Referred(stack[i - 1].die)
    <3>1. Len(stack[i - 1].got) + 1 \in DOMAIN program.refs[stack[i - 1].die]
      BY <2>2, <1>1, <1>3 DEF Refs
    <3>2. stack[i].die = program.refs[stack[i - 1].die][Len(stack[i - 1].got) + 1]
      BY <2>4 DEF Refs
    <3>3. stack[i].die # 0
      BY <2>1, <1>1, <1>2, <1>4, <1>5
    <3> QED
      BY <3>1, <3>2, <3>3 DEF Referred
  <2> QED
    BY <2>1, <2>3, <2>5
<1>7. Len(stack) \in m .. Len(stack) /\ Len(stack) \in 1 .. Len(stack)
  BY <1>1, <1>4
<1>8. Referred(Top.die) \subseteq S
  BY <1>6, <1>7 DEF Top
<1>9. NextRef \in Referred(Top.die)
  BY <1>3, <1>5, <1>7 DEF Referred, Refs, NextRef, Top
<1> QED
  BY <1>8, <1>9

(* A step that begins the translation of an entry.                         *)
LEMMA EnteredGraph ==
  ASSUME IInv, GraphInv, IInv', NEW d \in Dies, ~ Known(d), Enter(d), UNCHANGED program,
         stack = << >> \/ d = Refs(stack[Len(stack)].die)[Len(stack[Len(stack)].got) + 1],
         IsMethod(d) => stack # << >>
  PROVE  GraphInv'
<1>0. /\ Len(stack) \in Nat /\ Len(table) \in Nat /\ DOMAIN table = 1 .. Len(table)
      /\ table \in Seq(Rec) /\ stack \in Seq(Act)
      /\ program.name[d] \in Names
  BY Typed, LenProperties DEF IInv, StackInv
<1>1. /\ Extended(table, table') /\ (~ IsMethod(d) => Placeholder(d)')
      /\ \A e \in DOMAIN typeMap : (e # d \/ IsMethod(d)) => typeMap'[e] = typeMap[e]
      /\ IF IsMethod(d) THEN typeMap' = typeMap ELSE DOMAIN typeMap' = DOMAIN typeMap \cup {d}
  <2>1. CASE IsMethod(d)
    <3>1. typeMap' = typeMap /\ table' = table
      BY <2>1 DEF Enter, EnterMethod
    <3> QED
      BY <3>1, <2>1, <1>0 DEF Extended
  <2>2. CASE ~ IsMethod(d) /\ Tag(d) \in Aggregates
    <3>1. EnterAggregate(d)
      BY <2>2 DEF Enter
    <3>2. Forward(d) \in Rec
      BY <1>0 DEF Forward, Record, Rec, Leaves
    <3>3. /\ table' = Write(table, Forward(d))
          /\ typeMap' = [e \in DOMAIN typeMap \cup {d} |->
                           IF e = d THEN IndexIn(table', Forward(d)) ELSE typeMap[e]]
      BY <3>1 DEF EnterAggregate
    <3>4. /\ Extended(table, table') /\ IndexIn(table', Forward(d)) \in 1 .. Len(table')
          /\ table'[IndexIn(table', Forward(d))] = Forward(d)
      BY <3>2, <3>3, <1>0, WriteExtends
    <3>5. /\ typeMap'[d] = IndexIn(table', Forward(d)) /\ DOMAIN typeMap' = DOMAIN typeMap \cup {d}
          /\ \A e \in DOMAIN typeMap : e # d => typeMap'[e] = typeMap[e]
      BY <3>3
    <3>6. Tag(d)' = Tag(d) /\ Forward(d)' = Forward(d)
      BY SameProgram
    <3>7. Placeholder(d)'
      BY <3>4, <3>5, <3>6, <2>2 DEF Placeholder
    <3> QED
      BY <3>4, <3>5, <3>7, <2>2
  <2>3. CASE ~ IsMethod(d) /\ Tag(d) \notin Aggregates
    <3>1. EnterPlain(d)
      BY <2>3 DEF Enter
    <3>2. /\ table' = table
          /\ typeMap' = [e \in DOMAIN typeMap \cup {d} |-> IF e = d THEN Void ELSE typeMap[e]]
      BY <3>1 DEF EnterPlain
    <3>3. /\ typeMap'[d] = Void /\ DOMAIN typeMap' = DOMAIN typeMap \cup {d}
          /\ \A e \in DOMAIN typeMap : e # d => typeMap'[e] = typeMap[e]
      BY <3>2
    <3>4. Tag(d)' = Tag(d)
      BY SameProgram
    <3>5. Placeholder(d)'
      BY <3>3, <3>4, <2>3 DEF Placeholder
    <3> QED
      BY <3>2, <3>3, <3>5, <2>3, <1>0 DEF Extended
  <2> QED
    BY <2>1, <2>2, <2>3
<1>2. PICK a : stack' = Append(stack, a) /\ a.die = d /\ a.got = << >> /\ a \in Act
  <2>1. PICK f : stack' = Append(stack, [die |-> d, fwd |-> f, got |-> << >>])
    BY DEF Enter, EnterMethod, EnterAggregate, EnterPlain
  <2>2. stack' \in Seq(Act)
    BY SameProgram DEF IInv, StackInv, Act
  <2>3. Len(stack') = Len(stack) + 1 /\ stack'[Len(stack) + 1] = [die |-> d, fwd |-> f, got |-> << >>]
    BY <2>1, <1>0 
  <2>4. [die |-> d, fwd |-> f, got |-> << >>] \in Act
    <3>1. Len(stack) + 1 \in 1 .. Len(stack')
      BY <2>3, <1>0
    <3> QED
      BY <2>2, <2>3, <3>1, ElementOfSeq
  <2> QED
    BY <2>1, <2>4
<1>3. /\ Len(stack') = Len(stack) + 1 /\ stack'[Len(stack) + 1] = a
      /\ \A i \in 1 .. Len(stack) : stack'[i] = stack[i]
  BY <1>0, <1>2, AppendProperties
<1>4. \A e : IsMethod(e)' = IsMethod(e) /\ Refs(e)' = Refs(e) /\ Tag(e)' = Tag(e)
             /\ Forward(e)' = Forward(e) /\ HasParts(e)' = HasParts(e)
  BY SameProgram
<1>5. Busy' = Busy \cup {d}
  <2>1. \A i \in 1 .. Len(stack') : stack'[i].die \in Busy \cup {d}
    BY <1>0, <1>2, <1>3 DEF Busy
  <2>2. \A i \in 1 .. Len(stack) : \E j \in 1 .. Len(stack') : stack'[j].die = stack[i].die
    BY <1>0, <1>3
  <2>3. \E j \in 1 .. Len(stack') : stack'[j].die = d
    BY <1>0, <1>2, <1>3
  <2>4. \A e : e \in Busy' <=> \E j \in 1 .. Len(stack') : stack'[j].die = e
    BY DEF Busy
  <2>5. \A e : e \in Busy' <=> e \in Busy \cup {d}
    BY <2>1, <2>2, <2>3, <2>4 DEF Busy
  <2> QED
    BY <2>5
<1>6. Translated' = Translated
  <2>1. ~ IsMethod(d) => d \notin DOMAIN typeMap
    BY DEF Known
  <2>2. \A e : e \in Translated' <=> e \in DOMAIN typeMap' /\ ~ IsMethod(e) /\ e \notin Busy /\ e # d
    BY <1>4, <1>5 DEF Translated
  <2>3. \A e : e \in Translated' <=> e \in Translated
    BY <2>1, <2>2, <1>1 DEF Translated
  <2> QED
    BY <2>3
<1>7. Adds
  <2>1. \A e \in Translated : e \in DOMAIN typeMap /\ (e # d \/ IsMethod(d))
    BY DEF Translated, Known
  <2> QED
    BY <2>1, <1>1, <1>6 DEF Adds, Translated
<1>8. ASSUME NEW i \in 1 .. Len(stack'), NEW e, e = stack'[i].die, ~ IsMethod(e)
      PROVE  Placeholder(e)'
  <2>1. CASE i = Len(stack) + 1
    <3>1. e = d
      BY <2>1, <1>2, <1>3, <1>8
    <3> QED
      BY <3>1, <1>1, <1>8
  <2>2. CASE i \in 1 .. Len(stack)
    <3>1. stack[i].die = e /\ Placeholder(e)
      BY <2>2, <1>3, <1>8 DEF GraphInv
    <3>2. e \in DOMAIN typeMap
      BY <2>2, <3>1, <1>8 DEF IInv, StackInv, ActivationInv
    <3>3. typeMap'[e] = typeMap[e]
      BY <3>2, <1>1 DEF Known
    <3>4. \A j \in 1 .. Len(table) : j \in 1 .. Len(table') /\ table'[j] = table[j]
      BY <1>1 DEF Extended
    <3> QED
      BY <3>1, <3>3, <3>4, <1>4 DEF Placeholder
  <2> QED
    BY <2>1, <2>2, <1>0, <1>3
<1>9. ASSUME NEW i \in 1 .. Len(stack') - 1
      PROVE  stack'[i + 1].die = Refs(stack[i].die)'[Len(stack'[i].got) + 1]
  <2>1. i \in 1 .. Len(stack) /\ stack'[i] = stack[i] /\ Refs(stack[i].die)' = Refs(stack[i].die)
    BY <1>0, <1>3, <1>4
  <2>2. CASE i = Len(stack)
    <3>1. stack'[i + 1] = a /\ stack # << >>
      BY <2>1, <2>2, <1>3
    <3> QED
      BY <3>1, <2>1, <2>2, <1>2
  <2>3. CASE i # Len(stack)
    <3>1. i \in 1 .. Len(stack) - 1 /\ i + 1 \in 1 .. Len(stack) /\ stack'[i + 1] = stack[i + 1]
      BY <2>1, <2>3, <1>0, <1>3
    <3> QED
      BY <3>1, <2>1 DEF GraphInv
  <2> QED
    BY <2>2, <2>3
<1>10. ASSUME NEW i \in 1 .. Len(stack'), NEW k \in 1 .. Len(stack'[i].got)
       PROVE  Answers(stack[i].got[k], Refs(stack[i].die)[k])'
  <2>1. CASE i = Len(stack) + 1
    <3>1. Len(stack'[i].got) = 0
      BY <2>1, <1>2, <1>3
    <3> QED
      BY <3>1
  <2>2. CASE i \in 1 .. Len(stack)
    <3>1. stack'[i] = stack[i] /\ Refs(stack[i].die)' = Refs(stack[i].die)
      BY <2>2, <1>3, <1>4
    <3>2. Answers(stack[i].got[k], Refs(stack[i].die)[k])
      BY <2>2, <3>1 DEF GraphInv
    <3> QED
      BY <3>1, <3>2, <1>7, Persists
  <2> QED
    BY <2>1, <2>2, <1>0, <1>3
<1>11. \A e \in Translated' : HasParts(e)' => Shown(e)'
  BY <1>4, <1>6, <1>7, Persists DEF GraphInv
<1>12. \A i \in 1 .. Len(stack') : ~ IsMethod(stack[i].die)' => Placeholder(stack[i].die)'
  BY <1>8 DEF Placeholder, IsMethod, Tag, Forward, Record
<1>13. \A i \in 1 .. Len(stack') - 1 :
         stack'[i + 1].die = Refs(stack[i].die)'[Len(stack'[i].got) + 1]
  BY <1>9
<1> QED
  BY <1>10, <1>11, <1>12, <1>13 DEF GraphInv

(* A call returns idx to what it leaves of the stack, s, where idx answers *)
(* the reference that s was at.                                            *)
LEMMA ResumedGraph ==
  ASSUME IInv, GraphInv, Adds, NEW s \in Seq(Act), NEW idx \in Int,
         Len(s) <= Len(stack), \A i \in 1 .. Len(s) : s[i] = stack[i],
         stack' = Resume(s, idx),
         \A i \in 1 .. Len(s) : ~ IsMethod(s[i].die) => typeMap'[s[i].die] = typeMap[s[i].die],
         \A r : s # << >> /\ r = Refs(s[Len(s)].die)[Len(s[Len(s)].got) + 1] => Answers(idx, r)',
         \A e \in Translated' : e \notin Translated /\ HasParts(e) => Shown(e)'
  PROVE  GraphInv'
<1>0. Len(stack) \in Nat /\ Len(s) \in Nat /\ UNCHANGED program
  BY LenProperties DEF IInv, StackInv, Adds
<1>1. \A e : IsMethod(e)' = IsMethod(e) /\ Refs(e)' = Refs(e) /\ Tag(e)' = Tag(e)
             /\ Forward(e)' = Forward(e) /\ HasParts(e)' = HasParts(e)
  BY <1>0, SameProgram
<1>2. \A e \in Translated' : HasParts(e)' => Shown(e)'
  BY <1>1, Persists DEF GraphInv
<1>3. CASE s = << >>
  <2>1. Len(stack') = 0
    BY <1>3 DEF Resume
  <2> QED
    BY <2>1, <1>2 DEF GraphInv
<1>4. CASE s # << >>
  <2> DEFINE n == Len(s)
  <2>1. /\ n \in Nat /\ n \in 1 .. n /\ Len(stack') = n
        /\ \A i \in 1 .. n : stack'[i].die = s[i].die /\ (i # n => stack'[i] = s[i])
        /\ Len(s[n].got) \in Nat /\ Len(stack'[n].got) = Len(s[n].got) + 1
        /\ stack'[n].got[Len(s[n].got) + 1] = idx
        /\ \A k \in 1 .. Len(s[n].got) : stack'[n].got[k] = s[n].got[k]
    BY <1>4, ResumedAt
  <2>2. \A i \in 1 .. n : i \in 1 .. Len(stack) /\ s[i] = stack[i]
    BY <1>0
  <2> HIDE DEF n
  <2>3. ASSUME NEW i \in 1 .. n, NEW e, e = stack'[i].die, ~ IsMethod(e) PROVE Placeholder(e)'
    <3>1. stack[i].die = e /\ Placeholder(e)
      BY <2>1, <2>2, <2>3 DEF GraphInv
    <3>2. typeMap'[e] = typeMap[e]
      BY <2>1, <2>3 DEF n
    <3>3. \A j \in 1 .. Len(table) : j \in 1 .. Len(table') /\ table'[j] = table[j]
      BY DEF Adds, Extended
    <3> QED
      BY <3>1, <3>2, <3>3, <1>1 DEF Placeholder
  <2>4. \A i \in 1 .. Len(stack') : ~ IsMethod(stack[i].die)' => Placeholder(stack[i].die)'
    BY <2>1, <2>3, <1>0 DEF Placeholder, IsMethod, Tag, Forward, Record
  <2>5. ASSUME NEW i \in 1 .. n - 1
        PROVE  stack'[i + 1].die = Refs(stack[i].die)'[Len(stack'[i].got) + 1]
    <3>1. i \in 1 .. n /\ i + 1 \in 1 .. n /\ i # n /\ i \in 1 .. Len(stack) - 1
      BY <2>1, <2>2
    <3>2. stack'[i] = stack[i] /\ stack'[i + 1].die = stack[i + 1].die
      BY <2>1, <2>2, <3>1
    <3>3. stack[i + 1].die = Refs(stack[i].die)[Len(stack[i].got) + 1]
      BY <3>1 DEF GraphInv
    <3>4. Refs(stack[i].die)' = Refs(stack'[i].die)
      BY <1>0 DEF Refs
    <3> QED
      BY <3>2, <3>3, <3>4
  <2>6. ASSUME NEW i \in 1 .. n, NEW k \in 1 .. Len(stack'[i].got),
               NEW a, NEW r, a = stack'[i].got[k], r = Refs(s[i].die)[k]
        PROVE  Answers(a, r)'
    <3>1. stack[i] = s[i]
      BY <2>2
    <3>2. CASE i # n \/ k # Len(s[n].got) + 1
      <4>1. k \in 1 .. Len(s[i].got) /\ a = s[i].got[k]
        <5>1. CASE i # n
          <6>1. stack'[i] = s[i]
            BY <2>1, <5>1
          <6> QED
            BY <2>6, <6>1
        <5>2. CASE i = n /\ k # Len(s[n].got) + 1
          <6>1. k \in 1 .. Len(s[n].got)
            BY <2>1, <5>2
          <6> QED
            BY <2>1, <2>6, <5>2, <6>1
        <5> QED
          BY <3>2, <5>1, <5>2
      <4>2. i \in 1 .. Len(stack) /\ k \in 1 .. Len(stack[i].got)
        BY <3>1, <4>1, <2>2
      <4>3. Answers(stack[i].got[k], Refs(stack[i].die)[k])
        BY <4>2 DEF GraphInv
      <4>4. Answers(a, r)
        BY <2>6, <3>1, <4>1, <4>3
      <4> QED
        BY <4>4, Persists
    <3>3. CASE i = n /\ k = Len(s[n].got) + 1
      <4>1. a = idx /\ r = Refs(s[n].die)[Len(s[n].got) + 1]
        BY <2>1, <2>6, <3>3
      <4> QED
        BY <4>1, <1>4 DEF n
    <3> QED
      BY <3>2, <3>3
  <2>7. \A i \in 1 .. Len(stack') : \A k \in 1 .. Len(stack'[i].got) :
          Answers(stack[i].got[k], Refs(stack[i].die)[k])'
    <3> SUFFICES ASSUME NEW i \in 1 .. Len(stack'), NEW k \in 1 .. Len(stack'[i].got)
                 PROVE  Answers(stack[i].got[k], Refs(stack[i].die)[k])'
      OBVIOUS
    <3> DEFINE a == stack'[i].got[k]
               r == Refs(s[i].die)[k]
    <3>1. r = Refs(stack[i].die)'[k]
      <4>1. stack'[i].die = s[i].die
        BY <2>1
      <4> QED
        BY <4>1, <1>0 DEF Refs
    <3>2. PICK b, q : b = a /\ q = r
      OBVIOUS
    <3> HIDE DEF r
    <3>3. i \in 1 .. n
      BY <2>1
    <3>4. Answers(b, q)'
      BY <2>6, <3>2, <3>3 DEF r
    <3> QED
      BY <3>1, <3>2, <3>4 DEF Answers, IsMethod, Tag, Forward, Record, OnCycle
  <2>8. \A i \in 1 .. Len(stack') - 1 :
          stack'[i + 1].die = Refs(stack[i].die)'[Len(stack'[i].got) + 1]
    BY <2>1, <2>5
  <2> QED
    BY <1>2, <2>4, <2>7, <2>8 DEF GraphInv
<1> QED
  BY <1>3, <1>4

(* The end of a translation whose record holds what the entry was given.   *)
LEMMA ReturnedGraph ==
  ASSUME IInv, GraphInv, stack # << >>, ~ Referring,
         NEW t \in Seq(Rec), Extended(table, t), NEW idx \in Int, Return(t, idx),
         HasParts(Top.die) => Holds(t, Tag(Top.die), idx, Top.got),
         IsMethod(Top.die) =>
           /\ idx \in 1 .. Len(t)
           /\ t[idx].leaf = IF Tag(Top.die) = "static" THEN "procedure" ELSE "mfunction"
  PROVE  GraphInv'
<1> DEFINE n == Len(stack) - 1
<1>a. Len(stack) \in Nat /\ stack \in Seq(Act) /\ Len(stack) \in 1 .. Len(stack)
  BY LastPosition DEF IInv, StackInv
<1>b. n \in Nat /\ n <= Len(stack) /\ stack \in [1 .. Len(stack) -> Act]
  BY <1>a, LenProperties, ElementOfSeq
<1>1. PICK d : d = Top.die /\ d = stack[Len(stack)].die
  BY DEF Top
<1>2. /\ Popped \in Seq(Act) /\ Len(Popped) = n
      /\ \A i \in 1 .. n : Popped[i] = stack[i]
  BY <1>a, <1>b, SubSeqProperties DEF Popped
<1>0. /\ Len(stack) \in Nat /\ stack \in Seq(Act) /\ Len(stack) \in 1 .. Len(stack)
      /\ n \in Nat /\ n + 1 = Len(stack) /\ n <= Len(stack)
      /\ \A i \in 1 .. n : i \in 1 .. Len(stack) /\ i # Len(stack)
  BY <1>a
<1> HIDE DEF n
<1>3. /\ table' = t /\ stack' = Resume(Popped, idx) /\ UNCHANGED program
      /\ typeMap' = IF IsMethod(d) THEN typeMap ELSE [typeMap EXCEPT ![d] = idx]
  BY <1>1 DEF Return
<1>4. /\ d \in Dies /\ (~ IsMethod(d) => d \in DOMAIN typeMap)
      /\ Top.got \in Seq(Int) /\ Len(Top.got) = Len(Refs(d))
  BY <1>0, <1>1, TopGiven DEF IInv, StackInv, ActivationInv
<1>5. /\ DOMAIN typeMap' = DOMAIN typeMap /\ (~ IsMethod(d) => typeMap'[d] = idx)
      /\ \A e \in DOMAIN typeMap : e # d => typeMap'[e] = typeMap[e]
  BY <1>3, <1>4
<1>6. Len(stack') = n /\ \A i \in 1 .. n : stack'[i].die = stack[i].die
  <2>1. CASE Popped = << >>
    <3>1. stack' = << >> /\ n = 0
      BY <2>1, <1>2, <1>3 DEF Resume
    <3> QED
      BY <3>1
  <2>2. CASE Popped # << >>
    BY <2>2, <1>2, <1>3, ResumedAt
  <2> QED
    BY <2>1, <2>2
<1>7. \A e : IsMethod(e)' = IsMethod(e) /\ Refs(e)' = Refs(e) /\ Tag(e)' = Tag(e)
  BY <1>3, SameProgram
<1>8. \A e : e \in Busy <=> e \in Busy' \/ e = d
  <2>1. \A e : e \in Busy <=> \E i \in 1 .. Len(stack) : stack[i].die = e
    BY DEF Busy
  <2>2. \A e : e \in Busy' <=> \E i \in 1 .. n : stack[i].die = e
    BY <1>6 DEF Busy
  <2>3. \A i \in 1 .. Len(stack) : i \in 1 .. n \/ i = Len(stack)
    BY <1>0
  <2> QED
    BY <2>1, <2>2, <2>3, <1>0, <1>1
<1>9. \A i \in 1 .. n : ~ IsMethod(stack[i].die) => stack[i].die # d
  BY <1>0, <1>1 DEF IInv, StackInv
<1>10. ~ IsMethod(d) => d \notin Busy'
  BY <1>6, <1>9 DEF Busy
<1>11. Adds
  <2>1. \A e \in Translated : e \in Translated' /\ e # d
    BY <1>5, <1>7, <1>8 DEF Translated
  <2> QED
    BY <2>1, <1>3, <1>5 DEF Adds, Translated
<1>12. \A i \in 1 .. n : ~ IsMethod(stack[i].die) => typeMap'[stack[i].die] = typeMap[stack[i].die]
  BY <1>0, <1>5, <1>9 DEF IInv, StackInv, ActivationInv
<1>13. ~ IsMethod(d) => d \in Translated' /\ idx = typeMap'[d]
  BY <1>4, <1>5, <1>7, <1>10 DEF Translated
<1>14. Answers(idx, d)'
  <2>1. CASE IsMethod(d)
    <3>1. /\ d \in Dies' /\ IsMethod(d)' /\ idx \in 1 .. Len(table')
          /\ table'[idx].leaf = IF Tag(d)' = "static" THEN "procedure" ELSE "mfunction"
      BY <2>1, <1>1, <1>3, <1>4, <1>7, SameProgram
    <3> QED
      BY <3>1 DEF Answers
  <2>2. CASE ~ IsMethod(d)
    BY <2>2, <1>13 DEF Answers
  <2> QED
    BY <2>1, <2>2
<1>15. \A r : Popped # << >> /\ r = Refs(Popped[Len(Popped)].die)[Len(Popped[Len(Popped)].got) + 1]
              => Answers(idx, r)'
  <2> SUFFICES ASSUME NEW r, Popped # << >>,
                      r = Refs(Popped[Len(Popped)].die)[Len(Popped[Len(Popped)].got) + 1]
               PROVE  Answers(idx, r)'
    OBVIOUS
  <2>1. n \in 1 .. n
    BY <1>2, LastPosition
  <2>2. Popped[n] = stack[n] /\ n \in 1 .. Len(stack) - 1
    BY <2>1, <1>0, <1>2
  <2>3. stack[n + 1].die = Refs(stack[n].die)[Len(stack[n].got) + 1]
    BY <2>2 DEF GraphInv
  <2>4. r = d
    BY <2>2, <2>3, <1>0, <1>1, <1>2
  <2> QED
    BY <2>4, <1>14
<1>16. ASSUME NEW e \in Translated', e \notin Translated, HasParts(e) PROVE Shown(e)'
  <2>1. e = d
    BY <1>16, <1>5, <1>7, <1>8 DEF Translated
  <2>2. ~ IsMethod(d) /\ typeMap'[d] = idx
    BY <2>1, <1>5, <1>7 DEF Translated
  <2>3. Holds(table', Tag(d)', typeMap'[d], Top.got)
    BY <2>1, <2>2, <1>1, <1>3, <1>7, <1>16
  <2>4. \A k \in 1 .. Len(Top.got) : Answers(Top.got[k], Refs(d)[k])
    BY <1>0, <1>1 DEF GraphInv, Top
  <2>5. PICK p \in Seq(Int) : p = Top.got
    BY <1>4
  <2>6. ASSUME NEW k \in 1 .. Len(p), NEW r, r = Refs(d)[k] PROVE Answers(p[k], r)'
    BY <2>4, <2>5, <2>6, <1>11, Persists
  <2>7. \A k \in 1 .. Len(p) : Answers(p[k], Refs(d)[k])'
    BY <2>6, <1>7 DEF Answers, IsMethod, Tag, Forward, Record, OnCycle, Referred
  <2>8. Shown(d)'
    BY <2>3, <2>5, <2>7, <1>4, <1>7 DEF Shown
  <2> QED
    BY <2>1, <2>8
<1> QED
  BY SMTT(60), <1>2, <1>3, <1>11, <1>12, <1>15, <1>16, <1>0, ResumedGraph

(* The same for a record written last.                                     *)
LEMMA ReturnedRecordGraph ==
  ASSUME IInv, GraphInv, stack # << >>, ~ Referring,
         NEW t \in Seq(Rec), Extended(table, t), NEW r \in Rec, ReturnRecord(t, r),
         HasParts(Top.die) =>
           \A u, i : /\ u \in Seq(Rec) /\ Extended(t, u) /\ i \in 1 .. Len(u) /\ u[i] = r
                     => Holds(u, Tag(Top.die), i, Top.got),
         IsMethod(Top.die) =>
           r.leaf = IF Tag(Top.die) = "static" THEN "procedure" ELSE "mfunction"
  PROVE  GraphInv'
<1> DEFINE u   == Write(t, r)
           idx == IndexIn(u, r)
<1>1. Extended(t, u) /\ u \in Seq(Rec) /\ idx \in 1 .. Len(u) /\ u[idx] = r
  BY WriteExtends
<1>2. Return(u, idx)
  BY DEF ReturnRecord
<1> HIDE DEF u, idx
<1>3. Extended(table, u) /\ idx \in Int
  BY <1>1, ExtendedTwice
<1> QED
  BY <1>1, <1>2, <1>3, ReturnedGraph

(* A record of given parts is a record.                                    *)
LEMMA MadeRecord ==
  ASSUME NEW leaf \in Leaves, NEW name \in Names, NEW args \in Seq(Int)
  PROVE  /\ Record(leaf, name, args) \in Rec
         /\ Record(leaf, name, args).leaf = leaf /\ Record(leaf, name, args).args = args
BY DEF Record, Rec

(* Two of the kinds of record a routine or an enumeration ends in.         *)
LEMMA LeavesOfRecords ==
  "enum" \in Leaves /\ "procedure" \in Leaves /\ "" \in Names
BY DEF Leaves, Tags, Names

(* A sequence is its first element before the rest.                        *)
LEMMA FirstAndRest ==
  ASSUME NEW s \in Seq(Int), Len(s) >= 1
  PROVE  /\ s = <<s[1]>> \o Tail(s) /\ s[1] \in Int /\ Tail(s) \in Seq(Int)
<1> DEFINE u == <<s[1]>> \o Tail(s)
<1>1. s # << >> /\ Len(s) \in Nat
  BY LenProperties, EmptySeq
<1>2. s[1] \in Int
  BY <1>1, ElementOfSeq
<1>3. /\ Tail(s) \in Seq(Int) /\ Len(Tail(s)) = Len(s) - 1
      /\ \A i \in 1 .. Len(Tail(s)) : Tail(s)[i] = s[i + 1]
  BY <1>1, HeadTailProperties
<1>4. <<s[1]>> \in Seq(Int) /\ Len(<<s[1]>>) = 1
  BY <1>2
<1>5. /\ u \in Seq(Int) /\ Len(u) = 1 + (Len(s) - 1)
      /\ \A i \in 1 .. Len(u) : u[i] = IF i <= 1 THEN <<s[1]>>[i] ELSE Tail(s)[i - 1]
  BY <1>3, <1>4, ConcatProperties
<1>6. ASSUME NEW i \in 1 .. Len(s) PROVE s[i] = u[i]
  <2>1. CASE i = 1
    BY <2>1, <1>1, <1>5
  <2>2. CASE i # 1
    <3>1. i - 1 \in 1 .. Len(Tail(s)) /\ ~ (i <= 1) /\ i \in 1 .. Len(u) /\ (i - 1) + 1 = i
      BY <2>2, <1>1, <1>3, <1>5
    <3> QED
      BY <3>1, <1>3, <1>5
  <2> QED
    BY <2>1, <2>2
<1> HIDE DEF u
<1>7. s = u
  BY <1>1, <1>5, <1>6, SeqEqual
<1> QED
  BY <1>2, <1>3, <1>7 DEF u

(* Each end of the switch: its record holds what the entry was given.      *)
LEMMA FinishedGraph ==
  ASSUME IInv, GraphInv, Finish
  PROVE  GraphInv'
<1>1. stack # << >> /\ ~ Referring
  BY DEF Finish, Base, Unknown, Typedef, Wrapper, Declared, Aggregate, Enum, Routine,
         Subprogram, Method, Ready
<1>2. /\ Top.got \in Seq(Int) /\ Top.fwd \in Int /\ table \in Seq(Rec) /\ Len(table) \in Nat
      /\ Len(Top.got) = Len(Refs(Top.die)) /\ Len(Top.got) \in Nat
      /\ program.name[Top.die] \in Names /\ Tag(Top.die) \in Tags /\ Top.die \in Dies
  BY <1>1, TopGiven
<1>3. Extended(table, table)
  BY <1>2 DEF Extended
<1>4. CASE Base
  <2>1. Tag(Top.die) = "base" /\ Return(table, Basic)
    BY <1>4 DEF Base, Ready
  <2>2. ~ HasParts(Top.die) /\ ~ IsMethod(Top.die)
    BY <2>1 DEF HasParts, IsMethod, Wrappers, Aggregates
  <2> QED
    BY <2>1, <2>2, <1>1, <1>2, <1>3, ReturnedGraph DEF Basic
<1>5. CASE Unknown
  <2>1. Tag(Top.die) = "unknown" /\ Return(table, Void)
    BY <1>5 DEF Unknown, Ready
  <2>2. ~ HasParts(Top.die) /\ ~ IsMethod(Top.die)
    BY <2>1 DEF HasParts, IsMethod, Wrappers, Aggregates
  <2> QED
    BY <2>1, <2>2, <1>1, <1>2, <1>3, ReturnedGraph DEF Void
<1>6. CASE Typedef
  <2>1. Tag(Top.die) = "typedef" /\ Return(table, Top.got[1])
    BY <1>6 DEF Typedef, Ready
  <2>2. ~ HasParts(Top.die) /\ ~ IsMethod(Top.die)
    BY <2>1 DEF HasParts, IsMethod, Wrappers, Aggregates
  <2>3. Len(Top.got) = 1
    BY <2>1, <1>2, Typed DEF IInv
  <2>4. Top.got[1] \in Int
    BY <2>3, <1>2, FirstAndRest
  <2> QED
    BY <2>1, <2>2, <2>4, <1>1, <1>2, <1>3, ReturnedGraph
<1>7. CASE Wrapper
  <2> DEFINE r == Record(Tag(Top.die), "", Top.got)
  <2>1. Tag(Top.die) \in Wrappers /\ ReturnRecord(table, r)
    BY <1>7 DEF Wrapper, Ready
  <2>2. r \in Rec /\ r.args = Top.got
    BY <1>2 DEF Record, Rec, Leaves, Names
  <2>3. ~ IsMethod(Top.die)
    BY <2>1 DEF IsMethod, Wrappers
  <2> HIDE DEF r
  <2>4. ASSUME NEW u, NEW i, i \in 1 .. Len(u), u[i] = r
        PROVE  Holds(u, Tag(Top.die), i, Top.got)
    BY <2>1, <2>2, <2>4 DEF Holds, Wrappers, Aggregates
  <2> QED
    BY <2>1, <2>2, <2>3, <2>4, <1>1, <1>2, <1>3, ReturnedRecordGraph
<1>8. CASE Declared
  <2>1. Tag(Top.die) = "declared" /\ ReturnRecord(table, Forward(Top.die))
    BY <1>8 DEF Declared, Ready
  <2>2. ~ HasParts(Top.die) /\ ~ IsMethod(Top.die)
    BY <2>1 DEF HasParts, IsMethod, Wrappers, Aggregates
  <2>3. Forward(Top.die) \in Rec
    BY <1>2 DEF Forward, Record, Rec, Leaves
  <2> QED
    BY <2>1, <2>2, <2>3, <1>1, <1>2, <1>3, ReturnedRecordGraph
<1>9. CASE Aggregate
  <2> DEFINE f == Record("fieldlist", "", Top.got)
             t == Write(table, f)
             j == IndexIn(t, f)
             r == Record(Tag(Top.die), program.name[Top.die], <<j>>)
  <2>1. Tag(Top.die) \in Aggregates /\ ReturnRecord(t, r)
    BY <1>9 DEF Aggregate, Ready
  <2>2. f \in Rec /\ f.args = Top.got
    BY <1>2 DEF Record, Rec, Leaves, Names
  <2> HIDE DEF f
  <2>3. Extended(table, t) /\ t \in Seq(Rec) /\ j \in 1 .. Len(t) /\ t[j] = f
    BY <2>2, <1>2, WriteExtends
  <2> HIDE DEF t, j
  <2>4. r \in Rec /\ r.args = <<j>>
    BY <2>3, <1>2 DEF Record, Rec, Leaves
  <2> HIDE DEF r
  <2>5. ~ IsMethod(Top.die)
    BY <2>1 DEF IsMethod, Aggregates
  <2>6. ASSUME NEW u, NEW i, Extended(t, u), i \in 1 .. Len(u), u[i] = r
        PROVE  Holds(u, Tag(Top.die), i, Top.got)
    <3>1. j \in 1 .. Len(u) /\ u[j].args = Top.got
      BY <2>2, <2>3, <2>6 DEF Extended
    <3> QED
      BY <3>1, <2>1, <2>4, <2>6 DEF Holds, Wrappers, Aggregates
  <2> QED
    BY <2>1, <2>3, <2>4, <2>5, <2>6, <1>1, ReturnedRecordGraph
<1>10. CASE Enum
  <2> DEFINE f == Record("enumerators", program.name[Top.die], << >>)
             t == Write(table, f)
             j == IndexIn(t, f)
             q == IF program.refs[Top.die][1] = 0 THEN Basic ELSE Top.got[1]
             r == Record("enum", program.name[Top.die], <<j, q>>)
  <2>1. Tag(Top.die) = "enum" /\ ReturnRecord(t, r)
    BY <1>10 DEF Enum, Ready
  <2>2. f \in Rec
    BY <1>2 DEF Record, Rec, Leaves
  <2> HIDE DEF f
  <2>3. Extended(table, t) /\ t \in Seq(Rec) /\ j \in 1 .. Len(t)
    BY <2>2, <1>2, WriteExtends
  <2>4. Len(Top.got) = 1
    BY <2>1, <1>2, Typed DEF IInv
  <2>5. q \in Int
    BY <2>4, <1>2, FirstAndRest DEF Basic
  <2> HIDE DEF t, j, q
  <2>a. <<j, q>> \in Seq(Int)
    BY <2>3, <2>5, <1>2
  <2>6. r \in Rec
    BY <2>a, <1>2, LeavesOfRecords, MadeRecord
  <2>7. ~ HasParts(Top.die) /\ ~ IsMethod(Top.die)
    BY <2>1 DEF HasParts, IsMethod, Wrappers, Aggregates
  <2> HIDE DEF r
  <2> QED
    BY <2>1, <2>3, <2>6, <2>7, <1>1, ReturnedRecordGraph
<1>11. ASSUME Len(Top.got) >= 1
       PROVE  /\ Extended(table, Write(table, ArgList)) /\ Write(table, ArgList) \in Seq(Rec)
              /\ Procedure(Write(table, ArgList)) \in Rec
              /\ Procedure(Write(table, ArgList)).leaf = "procedure"
              /\ \E j \in 1 .. Len(Write(table, ArgList)) :
                   /\ Procedure(Write(table, ArgList)).args = <<Top.got[1], j>>
                   /\ Top.got = <<Top.got[1]>> \o Write(table, ArgList)[j].args
  <2> DEFINE t == Write(table, ArgList)
             j == IndexIn(t, ArgList)
  <2>1. /\ Top.got = <<Top.got[1]>> \o Tail(Top.got) /\ Top.got[1] \in Int
        /\ Tail(Top.got) \in Seq(Int)
    BY <1>2, <1>11, FirstAndRest
  <2>2. ArgList \in Rec /\ ArgList.args = Tail(Top.got)
    BY <2>1 DEF ArgList, Parameters, Record, Rec, Leaves, Names
  <2>3. Extended(table, t) /\ t \in Seq(Rec) /\ j \in 1 .. Len(t) /\ t[j] = ArgList
    BY <2>2, <1>2, WriteExtends
  <2>4. Procedure(t) = Record("procedure", "", <<Top.got[1], j>>)
    BY DEF Procedure
  <2> HIDE DEF t, j
  <2>5. <<Top.got[1], j>> \in Seq(Int)
    BY <2>1, <2>3
  <2> DEFINE a == <<Top.got[1], j>>
  <2> HIDE DEF a
  <2>6. Procedure(t) \in Rec /\ Procedure(t).leaf = "procedure" /\ Procedure(t).args = a
    <3>1. Procedure(t) = Record("procedure", "", a) /\ a \in Seq(Int)
      BY <2>4, <2>5 DEF a
    <3>2. "procedure" \in Leaves /\ "" \in Names
      BY LeavesOfRecords
    <3>3. PICK q : q = Record("procedure", "", a)
      OBVIOUS
    <3>4. q \in Rec /\ q.leaf = "procedure" /\ q.args = a
      BY <3>1, <3>2, <3>3 DEF Record, Rec
    <3> QED
      BY <3>1, <3>3, <3>4
  <2> QED
    BY <2>1, <2>2, <2>3, <2>6 DEF t, a
<1>12. CASE Routine
  <2> DEFINE t == Write(table, ArgList)
             r == Procedure(t)
  <2>1. Tag(Top.die) \in {"routine", "static"} /\ ReturnRecord(t, r)
    BY <1>12 DEF Routine, Ready
  <2>2. Len(Top.got) >= 1
    BY <2>1, <1>2, Typed DEF IInv
  <2>3. Extended(table, t) /\ t \in Seq(Rec) /\ r \in Rec /\ r.leaf = "procedure"
    BY <2>2, <1>11
  <2>4. PICK j \in 1 .. Len(t) : r.args = <<Top.got[1], j>> /\ Top.got = <<Top.got[1]>> \o t[j].args
    BY <2>2, <1>11
  <2> HIDE DEF t, r
  <2>5. ASSUME NEW u, NEW i, Extended(t, u), i \in 1 .. Len(u), u[i] = r
        PROVE  Holds(u, Tag(Top.die), i, Top.got)
    <3>1. j \in 1 .. Len(u) /\ u[j] = t[j]
      BY <2>4, <2>5 DEF Extended
    <3>2. u[i].args = <<Top.got[1], j>> /\ Top.got = <<Top.got[1]>> \o u[j].args
      BY <3>1, <2>4, <2>5
    <3> QED
      BY <3>1, <3>2, <2>1, <2>5 DEF Holds, Wrappers, Aggregates
  <2>6. IsMethod(Top.die) => Tag(Top.die) = "static"
    BY <2>1 DEF IsMethod
  <2> QED
    BY <2>1, <2>3, <2>5, <2>6, <1>1, ReturnedRecordGraph
<1>13. CASE Subprogram
  <2> DEFINE t == Write(table, ArgList)
             p == Procedure(t)
             v == Write(t, p)
             m == IndexIn(v, p)
             r == Record("funcid", program.name[Top.die], <<m>>)
  <2>1. Tag(Top.die) = "subprogram" /\ ReturnRecord(v, r)
    BY <1>13 DEF Subprogram, Ready
  <2>2. Len(Top.got) >= 1
    BY <2>1, <1>2, Typed DEF IInv
  <2>3. Extended(table, t) /\ t \in Seq(Rec) /\ p \in Rec
    BY <2>2, <1>11
  <2>4. PICK j \in 1 .. Len(t) : p.args = <<Top.got[1], j>> /\ Top.got = <<Top.got[1]>> \o t[j].args
    BY <2>2, <1>11
  <2> HIDE DEF t, p
  <2>5. Extended(t, v) /\ v \in Seq(Rec) /\ m \in 1 .. Len(v) /\ v[m] = p
    BY <2>3, WriteExtends
  <2> HIDE DEF v, m
  <2>6. r \in Rec /\ r.args = <<m>>
    BY <2>5, <1>2 DEF Record, Rec, Leaves
  <2> HIDE DEF r
  <2>7. ASSUME NEW u, NEW i, Extended(v, u), i \in 1 .. Len(u), u[i] = r
        PROVE  Holds(u, Tag(Top.die), i, Top.got)
    <3>1. j \in 1 .. Len(u) /\ u[j] = t[j]
      BY <2>4, <2>5, <2>7 DEF Extended
    <3>2. m \in 1 .. Len(u) /\ u[m] = p
      BY <2>5, <2>7 DEF Extended
    <3>3. /\ u[i].args = <<m>> /\ u[m].args = <<Top.got[1], j>>
          /\ Top.got = <<Top.got[1]>> \o u[j].args
      BY <3>1, <3>2, <2>4, <2>6, <2>7
    <3> QED
      BY <3>1, <3>2, <3>3, <2>1, <2>7 DEF Holds, Wrappers, Aggregates
  <2>8. ~ IsMethod(Top.die) /\ Extended(table, v)
    BY <2>1, <2>3, <2>5, ExtendedTwice DEF IsMethod
  <2> QED
    BY <2>1, <2>5, <2>6, <2>7, <2>8, <1>1, ReturnedRecordGraph
<1>14. CASE Method
  <2> DEFINE g == SubSeq(Top.got, 3, Len(Top.got))
             f == Record("arglist", "", g)
             t == Write(table, f)
             j == IndexIn(t, f)
             r == Record("mfunction", "", <<Top.got[1], j, Top.got[2], Top.fwd>>)
  <2>1. Tag(Top.die) = "method" /\ ReturnRecord(t, r)
    BY <1>14 DEF Method, Ready
  <2>2. Len(Top.got) >= 2
    BY <2>1, <1>2, Typed DEF IInv
  <2>3. \A k \in 1 .. Len(Top.got) : Top.got[k] \in Int
    BY <1>2, ElementOfSeq
  <2>4. g \in Seq(Int)
    BY <2>2, <2>3, <1>2, SubSeqProperties
  <2> HIDE DEF g
  <2>5. f \in Rec
    BY <2>4 DEF Record, Rec, Leaves, Names
  <2> HIDE DEF f
  <2>6. Extended(table, t) /\ t \in Seq(Rec) /\ j \in 1 .. Len(t)
    BY <2>5, <1>2, WriteExtends
  <2> HIDE DEF t, j
  <2>7. Top.got[1] \in Int /\ Top.got[2] \in Int /\ Top.fwd \in Int /\ j \in Int
    BY <2>2, <2>3, <2>6, <1>2
  <2>8. <<Top.got[1], j, Top.got[2], Top.fwd>> \in Seq(Int)
    BY <2>7
  <2>9. r \in Rec /\ r.leaf = "mfunction"
    BY <2>8 DEF Record, Rec, Leaves, Names
  <2> HIDE DEF r
  <2>10. ~ HasParts(Top.die) /\ Tag(Top.die) # "static"
    BY <2>1 DEF HasParts, Wrappers, Aggregates
  <2> QED
    BY <2>1, <2>6, <2>9, <2>10, <1>1, ReturnedRecordGraph
<1> QED
  BY <1>4, <1>5, <1>6, <1>7, <1>8, <1>9, <1>10, <1>12, <1>13, <1>14 DEF Finish

(* A call that returns at once.                                            *)
LEMMA AnsweredGraph ==
  ASSUME IInv, GraphInv, AnswerNull \/ AnswerKnown
  PROVE  GraphInv'
<1>1. Referring /\ stack # << >> /\ UNCHANGED <<program, typeMap, table>>
  BY DEF AnswerNull, AnswerKnown, Referring
<1>2. /\ stack \in Seq(Act) /\ Len(stack) \in Nat /\ Len(stack) \in 1 .. Len(stack)
      /\ Len(table) \in Nat
  BY <1>1, LastPosition, LenProperties DEF IInv, StackInv
<1>3. /\ Top.die \in Dies /\ Len(Top.got) \in Nat
      /\ Len(Top.got) + 1 \in 1 .. Len(Refs(Top.die))
      /\ NextRef = Refs(Top.die)[Len(Top.got) + 1] /\ NextRef \in Dies \cup {0}
  <2>1. Top \in Act
    BY <1>2, ElementOfSeq DEF Top
  <2>2. Top.die \in Dies /\ Len(Top.got) \in Nat
    BY <2>1, LenProperties DEF Act
  <2>3. Refs(Top.die) \in Seq(Dies \cup {0}) /\ Len(Refs(Top.die)) \in Nat
    BY <2>2, Typed DEF IInv
  <2>4. Len(Top.got) + 1 \in 1 .. Len(Refs(Top.die))
    BY <2>2, <2>3, <1>1 DEF Referring, Refs
  <2> QED
    BY <2>2, <2>3, <2>4, ElementOfSeq DEF Refs, NextRef
<1>4. PICK idx \in Int : stack' = Resume(stack, idx) /\ Answers(idx, NextRef)
  <2>1. CASE AnswerNull
    BY <2>1 DEF AnswerNull, Answers, Void
  <2>2. CASE AnswerKnown
    <3>1. NextRef \in Dies /\ ~ IsMethod(NextRef) /\ NextRef \in DOMAIN typeMap
      BY <2>2, <1>3 DEF AnswerKnown, Known
    <3>2. typeMap[NextRef] \in Int
      <4>1. typeMap[NextRef] \in Upto(Len(table))
        BY <3>1 DEF IInv, CacheInv
      <4> QED
        BY <4>1, <1>2 DEF Upto
    <3>3. Answers(typeMap[NextRef], NextRef)
      <4>1. CASE NextRef \notin Busy
        BY <3>1, <4>1 DEF Answers, Translated
      <4>2. CASE NextRef \in Busy
        <5>1. Placeholder(NextRef)
          BY <3>1, <4>2 DEF Busy, GraphInv
        <5>2. OnCycle(NextRef)
          BY <3>1, <4>2, <1>1, CycleClosed
        <5> QED
          BY <3>1, <5>1, <5>2 DEF Placeholder, Answers
      <4> QED
        BY <4>1, <4>2
    <3> QED
      BY <2>2, <3>2, <3>3 DEF AnswerKnown
  <2> QED
    BY <2>1, <2>2
<1>5. Busy' = Busy
  <2>1. Len(stack') = Len(stack) /\ \A i \in 1 .. Len(stack) : stack'[i].die = stack[i].die
    BY <1>1, <1>2, <1>4, ResumedAt
  <2>2. \A e : e \in Busy' <=> \E i \in 1 .. Len(stack) : stack[i].die = e
    BY <2>1 DEF Busy
  <2> QED
    BY <2>2 DEF Busy
<1>6. Translated' = Translated
  <2>1. \A e : e \in Translated' <=> e \in Translated
    BY <1>1, <1>5, SameProgram DEF Translated
  <2> QED
    BY <2>1
<1>7. Adds
  BY <1>1, <1>2, <1>6 DEF Adds, Extended
<1>8. \A r : stack # << >> /\ r = Refs(stack[Len(stack)].die)[Len(stack[Len(stack)].got) + 1]
             => Answers(idx, r)'
  <2> SUFFICES ASSUME NEW r, r = NextRef PROVE Answers(idx, r)'
    BY <1>3 DEF Top
  <2>1. Answers(idx, r)
    BY <1>4
  <2> QED
    BY <2>1, <1>7, Persists
<1>9. PICK s : s = stack
  OBVIOUS
<1> QED
  BY <1>1, <1>2, <1>4, <1>6, <1>7, <1>8, <1>9, ResumedGraph

(* Every step keeps it.                                                    *)
LEMMA NextGraph ==
  ASSUME IInv, GraphInv, [Next]_vars
  PROVE  GraphInv'
<1>0. IInv' /\ Len(stack) \in Nat
  BY Stays, LenProperties DEF IInv, StackInv
<1>1. CASE Request
  <2>1. PICK d \in Dies : ~ IsMethod(d) /\ ~ Known(d) /\ Enter(d)
    BY <1>1 DEF Request
  <2> QED
    BY <1>0, <1>1, <2>1, EnteredGraph DEF Request
<1>2. CASE Call
  <2>1. NextRef # 0 /\ ~ Known(NextRef) /\ Enter(NextRef) /\ UNCHANGED program /\ stack # << >>
        /\ Referring
    BY <1>2 DEF Call, Referring
  <2>2. Len(stack) \in 1 .. Len(stack) /\ stack \in Seq(Act)
    BY <2>1, LastPosition DEF IInv, StackInv
  <2>3. Top \in Act
    BY <2>2, ElementOfSeq DEF Top
  <2>4. Top.die \in Dies /\ Len(Top.got) \in Nat
    BY <2>3, LenProperties DEF Act
  <2>5. Refs(Top.die) \in Seq(Dies \cup {0}) /\ Len(Refs(Top.die)) \in Nat
    BY <2>4, Typed DEF IInv
  <2>6. Len(Top.got) + 1 \in 1 .. Len(Refs(Top.die))
    BY <2>1, <2>4, <2>5 DEF Referring, Refs
  <2>7. NextRef = Refs(Top.die)[Len(Top.got) + 1]
    BY DEF NextRef, Refs
  <2>8. NextRef \in Dies
    BY <2>1, <2>5, <2>6, <2>7, ElementOfSeq
  <2>9. PICK d \in Dies : d = NextRef
    BY <2>8
  <2> QED
    BY <1>0, <2>1, <2>7, <2>9, EnteredGraph DEF Top
<1>3. CASE AnswerNull \/ AnswerKnown
  BY <1>3, AnsweredGraph
<1>4. CASE Finish
  BY <1>4, FinishedGraph
<1>5. CASE UNCHANGED vars
  <2>1. UNCHANGED program /\ UNCHANGED typeMap /\ UNCHANGED table /\ UNCHANGED stack
    BY <1>5 DEF vars
  <2>2. Translated' = Translated /\ Busy' = Busy
    BY <2>1 DEF Translated, Busy, IsMethod, Tag
  <2>3. Adds
    <3>1. Len(table) \in Nat
      BY LenProperties DEF IInv
    <3> QED
      BY <3>1, <2>1, <2>2 DEF Adds, Extended, Translated
  <2>4. \A e : IsMethod(e)' = IsMethod(e) /\ Refs(e)' = Refs(e) /\ Tag(e)' = Tag(e)
               /\ Forward(e)' = Forward(e) /\ HasParts(e)' = HasParts(e)
    BY <2>1, SameProgram
  <2>5. \A i \in 1 .. Len(stack') : ~ IsMethod(stack[i].die)' => Placeholder(stack[i].die)'
    <3>1. ASSUME NEW i \in 1 .. Len(stack'), NEW e, e = stack'[i].die, ~ IsMethod(e)
          PROVE  Placeholder(e)'
      <4>1. Placeholder(e)
        BY <2>1, <3>1 DEF GraphInv
      <4> QED
        BY <4>1, <2>1, <2>4 DEF Placeholder
    <3> QED
      BY <2>1, <3>1 DEF Placeholder, IsMethod, Tag, Forward, Record
  <2>6. \A i \in 1 .. Len(stack') - 1 :
          stack'[i + 1].die = Refs(stack[i].die)'[Len(stack'[i].got) + 1]
    BY <2>1 DEF GraphInv, Refs
  <2>7. ASSUME NEW i \in 1 .. Len(stack'), NEW k \in 1 .. Len(stack'[i].got)
        PROVE  Answers(stack[i].got[k], Refs(stack[i].die)[k])'
    <3>1. stack'[i] = stack[i] /\ Refs(stack[i].die)' = Refs(stack[i].die)
      BY <2>1, <2>4
    <3>2. Answers(stack[i].got[k], Refs(stack[i].die)[k])
      BY <2>1 DEF GraphInv
    <3> QED
      BY <3>1, <3>2, <2>3, Persists
  <2>8. \A e \in Translated' : HasParts(e)' => Shown(e)'
    BY <2>2, <2>3, <2>4, Persists DEF GraphInv
  <2> QED
    BY <2>5, <2>6, <2>7, <2>8 DEF GraphInv
<1> QED
  BY <1>1, <1>2, <1>3, <1>4, <1>5 DEF Next

(* The inductive invariant of what the records say.                        *)
THEOREM InductiveGraph == Spec => []GraphInv
<1>1. Init => GraphInv
  <2> SUFFICES ASSUME Init PROVE GraphInv
    OBVIOUS
  <2>1. Len(stack) = 0 /\ DOMAIN typeMap = {}
    BY DEF Init
  <2> QED
    BY <2>1 DEF GraphInv, Translated
<1> QED
  BY <1>1, NextGraph, Inductive, PTL DEF Spec

(* Whatever is translated refers to what its references were translated to.*)
THEOREM Faith == Spec => []Faithful
<1>1. ASSUME IInv, GraphInv PROVE Faithful
  <2> SUFFICES ASSUME stack = << >>, NEW d \in DOMAIN typeMap, HasParts(d)
               PROVE  LET parts == Parts(d, typeMap[d]) IN
                        /\ Len(parts) = Len(program.refs[d])
                        /\ \A k \in DOMAIN parts : StandsFor(parts[k], program.refs[d][k])
    BY DEF Faithful
  <2>1. Busy = {} /\ ~ IsMethod(d)
    BY DEF Busy, HasParts, IsMethod, Wrappers, Aggregates
  <2>2. PICK p \in Seq(Int) :
          /\ Holds(table, Tag(d), typeMap[d], p) /\ Len(p) = Len(Refs(d))
          /\ \A k \in 1 .. Len(p) : Answers(p[k], Refs(d)[k])
    BY <1>1, <2>1 DEF GraphInv, Translated, Shown
  <2>3. p = Parts(d, typeMap[d])
    <3> DEFINE i == typeMap[d]
    <3>1. CASE Tag(d) \in Wrappers
      <4>1. Parts(d, i) = table[i].args
        BY <3>1 DEF Parts, Wrappers, Aggregates
      <4> QED
        BY <3>1, <4>1, <2>2 DEF Holds
    <3>2. CASE Tag(d) \in Aggregates
      <4>1. Parts(d, i) = table[table[i].args[1]].args
        BY <3>2 DEF Parts, Wrappers, Aggregates
      <4>2. PICK j \in 1 .. Len(table) : table[i].args = <<j>> /\ table[j].args = p
        BY <3>2, <2>2 DEF Holds
      <4> QED
        BY <4>1, <4>2
    <3>3. CASE Tag(d) = "routine"
      <4>1. Parts(d, i) = <<table[i].args[1]>> \o table[table[i].args[2]].args
        BY <3>3 DEF Parts, Wrappers, Aggregates
      <4>2. PICK j \in 1 .. Len(table) :
              table[i].args = <<p[1], j>> /\ p = <<p[1]>> \o table[j].args
        BY <3>3, <2>2 DEF Holds
      <4>3. table[i].args[1] = p[1] /\ table[i].args[2] = j
        BY <4>2
      <4> QED
        BY <4>1, <4>2, <4>3
    <3>4. CASE Tag(d) = "subprogram"
      <4>1. Parts(d, i) = LET q == table[table[i].args[1]] IN <<q.args[1]>> \o table[q.args[2]].args
        BY <3>4 DEF Parts, Wrappers, Aggregates
      <4>2. PICK j, m \in 1 .. Len(table) :
              /\ table[i].args = <<j>> /\ table[j].args = <<p[1], m>>
              /\ p = <<p[1]>> \o table[m].args
        BY <3>4, <2>2 DEF Holds
      <4>3. table[i].args[1] = j /\ table[j].args[1] = p[1] /\ table[j].args[2] = m
        BY <4>2
      <4> QED
        BY <4>1, <4>2, <4>3
    <3> QED
      BY <3>1, <3>2, <3>3, <3>4 DEF HasParts
  <2>4. ASSUME NEW k \in 1 .. Len(p) PROVE StandsFor(p[k], Refs(d)[k])
    <3> DEFINE a == p[k]
               r == Refs(d)[k]
    <3>1. Answers(a, r) /\ 0 \notin Dies /\ Len(table) \in Nat
      BY <1>1, <2>2, Typed, LenProperties DEF IInv
    <3> SUFFICES StandsFor(a, r)
      OBVIOUS
    <3> HIDE DEF a, r
    <3>2. CASE r = 0 /\ a = Void
      BY <3>2 DEF StandsFor
    <3>3. CASE /\ r \in Dies /\ IsMethod(r)
               /\ table[a].leaf = IF Tag(r) = "static" THEN "procedure" ELSE "mfunction"
      BY <3>1, <3>3 DEF StandsFor
    <3>4. CASE r \in Translated /\ a = typeMap[r]
      BY <1>1, <3>1, <3>4 DEF StandsFor, Translated, IInv, CacheInv
    <3>5. CASE r \in Dies /\ Tag(r) \in Aggregates /\ a \in 1 .. Len(table) /\ table[a] = Forward(r)
      BY <3>1, <3>5 DEF StandsFor
    <3>6. CASE r \in Dies /\ ~ IsMethod(r) /\ Tag(r) \notin Aggregates /\ a = Void /\ OnCycle(r)
      BY <3>1, <3>6 DEF StandsFor
    <3> QED
      BY <3>1, <3>2, <3>3, <3>4, <3>5, <3>6 DEF Answers
  <2> QED
    BY <2>2, <2>3, <2>4, LenProperties DEF Refs
<1> QED
  BY <1>1, Inductive, InductiveGraph, PTL
=============================================================================
