--------------------------- MODULE TypeTranslator ---------------------------
(***************************************************************************)
(* TypeTranslator::TranslateType: DWARF types, a graph that may be cyclic, *)
(* become CodeView type records, a table in which a record may refer only  *)
(* to those before it.  The function calls itself; its activations are an  *)
(* explicit stack here.  A cycle is broken by the cache, m_typeMap, which  *)
(* holds a placeholder for a type whose translation is under way: the      *)
(* forward reference of a class or union, Void for anything else.          *)
(*                                                                         *)
(* Of a record only its leaf, name and the types it refers to are kept;    *)
(* sizes, offsets and flags are left out.                                  *)
(***************************************************************************)
EXTENDS Integers, Sequences

CONSTANT Programs   (* Type graphs; see ProgramType.                       *)

Wrappers   == {"pointer", "const", "volatile", "array"}   \* one reference each
Aggregates == {"class", "union"}     \* DW_TAG_structure_type is a class
Tags == Wrappers \cup Aggregates \cup {
  "base",        (* a base type CodeView has                               *)
  "unknown",     (* a tag or encoding the switch has no case for           *)
  "typedef",
  "enum",
  "declared",    (* a class or union without members and size              *)
  "method",      (* a subprogram of a class, seen from the class: `this'   *)
                 (* comes after the return type, unless it is static       *)
  "static",
  "routine",     (* DW_TAG_subroutine_type                                 *)
  "subprogram" }

(* refs: the entries each one refers to, in the order they are translated, *)
(*       0 for none: the type of a pointer, the members of a class, the    *)
(*       return type and the parameters of a function.                     *)
ProgramType(p) ==
  /\ p.tag \in Seq(Tags)
  /\ p.name \in [DOMAIN p.tag -> STRING]
  /\ p.refs \in [DOMAIN p.tag -> Seq(DOMAIN p.tag \cup {0})]
  /\ \A d \in DOMAIN p.tag :
       /\ p.tag[d] \in Wrappers \cup {"typedef", "enum"} => Len(p.refs[d]) = 1
       /\ p.tag[d] \in {"base", "unknown", "declared"} => p.refs[d] = << >>
       /\ p.tag[d] \in {"static", "routine", "subprogram"} => Len(p.refs[d]) >= 1
       /\ p.tag[d] = "method" => Len(p.refs[d]) >= 2
       /\ \A i \in DOMAIN p.refs[d] :
            p.refs[d][i] # 0 => /\ p.tag[p.refs[d][i]] # "subprogram"
                                /\ p.tag[p.refs[d][i]] \in {"method", "static"}
                                     => p.tag[d] = "class"

ASSUME ProgramsAssumption == \A p \in Programs : ProgramType(p)

VARIABLES
  program,
  typeMap,   (* From the entries that have one to their type index.        *)
  table,     (* m_typeBuilder: the records written, without duplicates.    *)
  stack      (* Activations: the entry, its forward reference if it has    *)
             (* one, and the indexes its references gave so far.           *)

vars == <<program, typeMap, table, stack>>

(* A positive index is that of a record of the table.                      *)
Void  == 0
Basic == -1
None  == -2

Dies   == DOMAIN program.tag
Tag(d) == program.tag[d]

Top     == stack[Len(stack)]
NextRef == program.refs[Top.die][Len(Top.got) + 1]

Init ==
  /\ program \in Programs
  /\ typeMap = << >> /\ table = << >> /\ stack = << >>

-----------------------------------------------------------------------------
Record(leaf, name, args) == [leaf |-> leaf, name |-> name, args |-> args]

(* writeLeafType: a record equal to one of the table is not written again. *)
Write(t, r)   == IF \E i \in DOMAIN t : t[i] = r THEN t ELSE Append(t, r)

(* Faulty: nextTypeIndex, for the index of the record just written.        *)
IndexAfter(t, r) == Len(t) + 1

IndexIn(t, r) == CHOOSE i \in DOMAIN t : t[i] = r

Forward(d) == Record("forward", program.name[d], << >>)

(* Methods are translated within their class and are not looked up.        *)
IsMethod(d) == Tag(d) \in {"method", "static"}

(* Faulty: Void is taken for the answer of a cache that has none.          *)
KnownUnlessVoid(d) == ~ IsMethod(d) /\ d \in DOMAIN typeMap /\ typeMap[d] # Void

Known(d) == ~ IsMethod(d) /\ d \in DOMAIN typeMap

(* Up to the first reference: the placeholder, then the forward reference. *)
EnterAggregate(d) ==
  /\ table' = Write(table, Forward(d))
  /\ typeMap' = [e \in DOMAIN typeMap \cup {d} |->
                   IF e = d THEN IndexIn(table', Forward(d)) ELSE typeMap[e]]
  /\ stack' = Append(stack, [die |-> d, fwd |-> typeMap'[d], got |-> << >>])

EnterPlain(d) ==
  /\ typeMap' = [e \in DOMAIN typeMap \cup {d} |-> IF e = d THEN Void ELSE typeMap[e]]
  /\ stack' = Append(stack, [die |-> d, fwd |-> None, got |-> << >>])
  /\ UNCHANGED table

EnterMethod(d) ==
  /\ stack' = Append(stack, [die |-> d, fwd |-> Top.fwd, got |-> << >>])
  /\ UNCHANGED <<typeMap, table>>

Enter(d) ==
  IF IsMethod(d) THEN EnterMethod(d)
  ELSE IF Tag(d) \in Aggregates THEN EnterAggregate(d) ELSE EnterPlain(d)

(* A variable, parameter or function asks for its type.                    *)
Request ==
  /\ stack = << >>
  /\ \E d \in Dies : ~ IsMethod(d) /\ ~ Known(d) /\ Enter(d)
  /\ UNCHANGED program

Referring == stack # << >> /\ Len(Top.got) < Len(program.refs[Top.die])

Call ==
  /\ Referring
  /\ NextRef # 0 /\ ~ Known(NextRef)
  /\ Enter(NextRef)
  /\ UNCHANGED program

(* The caller goes on with the index its call returned.                    *)
Resume(s, idx) ==
  IF s = << >> THEN s ELSE [s EXCEPT ![Len(s)].got = Append(@, idx)]

(* Without a type to translate, or with one that is in the cache already,  *)
(* the call returns at once.                                               *)
AnswerNull ==
  /\ Referring /\ NextRef = 0
  /\ stack' = Resume(stack, Void)
  /\ UNCHANGED <<program, typeMap, table>>

AnswerKnown ==
  /\ Referring /\ NextRef # 0 /\ Known(NextRef)
  /\ stack' = Resume(stack, typeMap[NextRef])
  /\ UNCHANGED <<program, typeMap, table>>

-----------------------------------------------------------------------------
(* The end of the switch: recs have been written to t, the last of them is *)
(* the result, idx.                                                        *)
Popped == SubSeq(stack, 1, Len(stack) - 1)

Return(t, idx) ==
  /\ table' = t
  /\ typeMap' = IF IsMethod(Top.die) THEN typeMap ELSE [typeMap EXCEPT ![Top.die] = idx]
  /\ stack' = Resume(Popped, idx)
  /\ UNCHANGED program

ReturnRecord(t, r) == Return(Write(t, r), IndexIn(Write(t, r), r))

Ready(tags) == stack # << >> /\ ~ Referring /\ Tag(Top.die) \in tags

Base    == Ready({"base"}) /\ Return(table, Basic)
Unknown == Ready({"unknown"}) /\ Return(table, Void)
Typedef == Ready({"typedef"}) /\ Return(table, Top.got[1])

Wrapper ==
  /\ Ready(Wrappers)
  /\ ReturnRecord(table, Record(Tag(Top.die), "", Top.got))

Declared ==
  /\ Ready({"declared"})
  /\ ReturnRecord(table, Forward(Top.die))

(* The field list, then the record that refers to it.                      *)
Aggregate ==
  /\ Ready(Aggregates)
  /\ LET fields == Record("fieldlist", "", Top.got)
         t      == Write(table, fields)
     IN  ReturnRecord(t, Record(Tag(Top.die), program.name[Top.die], <<IndexIn(t, fields)>>))

(* The enumerators are a field list that refers to nothing; the underlying *)
(* type is int where none is given.                                        *)
Enum ==
  /\ Ready({"enum"})
  /\ LET fields == Record("enumerators", program.name[Top.die], << >>)
         t      == Write(table, fields)
         int    == IF program.refs[Top.die][1] = 0 THEN Basic ELSE Top.got[1]
     IN  ReturnRecord(t, Record("enum", program.name[Top.die], <<IndexIn(t, fields), int>>))

(* Faulty: the return type among the arguments.                            *)
ParametersAll(got) == got

Parameters(got) == Tail(got)

ArgList == Record("arglist", "", Parameters(Top.got))

(* translate_procedure_type, also inlined for a static method.             *)
Procedure(t) == Record("procedure", "", <<Top.got[1], IndexIn(t, ArgList)>>)

Routine ==
  /\ Ready({"routine", "static"})
  /\ LET t == Write(table, ArgList) IN ReturnRecord(t, Procedure(t))

Subprogram ==
  /\ Ready({"subprogram"})
  /\ LET t == Write(table, ArgList)
         u == Write(t, Procedure(t))
     IN  ReturnRecord(u, Record("funcid", program.name[Top.die], <<IndexIn(u, Procedure(t))>>))

Method ==
  /\ Ready({"method"})
  /\ LET args == Record("arglist", "", SubSeq(Top.got, 3, Len(Top.got)))
         t    == Write(table, args)
     IN  ReturnRecord(t, Record("mfunction", "",
                                <<Top.got[1], IndexIn(t, args), Top.got[2], Top.fwd>>))

Finish ==
  \/ Base \/ Unknown \/ Typedef \/ Wrapper \/ Declared \/ Aggregate
  \/ Enum \/ Routine \/ Subprogram \/ Method

Next == Request \/ Call \/ AnswerNull \/ AnswerKnown \/ Finish

Spec == Init /\ [][Next]_vars

-----------------------------------------------------------------------------
Index == {None, Basic} \cup (0 .. Len(table))

(* The state has the shape the code's declarations give it; every index    *)
(* held anywhere is that of a simple type or of a record there is.         *)
TypeOK ==
  /\ program \in Programs
  /\ DOMAIN typeMap \subseteq Dies
  /\ \A d \in DOMAIN typeMap : typeMap[d] \in Index
  /\ \A i \in DOMAIN stack :
       /\ stack[i].die \in Dies /\ stack[i].fwd \in Index
       /\ Len(stack[i].got) <= Len(program.refs[stack[i].die])
       /\ \A k \in DOMAIN stack[i].got : stack[i].got[k] \in Index

(* A record refers only to simple types and to records before it: a reader *)
(* of .debug$T takes it in one pass.                                       *)
RefersBackward ==
  \A i \in DOMAIN table : \A k \in DOMAIN table[i].args : table[i].args[k] < i

(* No entry is in translation twice at once, so the recursion is no deeper *)
(* than there are types, however the graph is tied.                        *)
RecursionBounded ==
  \A i, j \in DOMAIN stack :
    stack[i].die = stack[j].die /\ ~ IsMethod(stack[i].die) => i = j

(* The indexes that entry d's record, of index i, holds for its references.*)
Parts(d, i) ==
  CASE Tag(d) \in Wrappers   -> table[i].args
    [] Tag(d) \in Aggregates -> table[table[i].args[1]].args
    [] Tag(d) = "routine"    -> <<table[i].args[1]>> \o table[table[i].args[2]].args
    [] Tag(d) = "subprogram" ->
         LET p == table[table[i].args[1]] IN <<p.args[1]>> \o table[p.args[2]].args
    [] OTHER -> << >>

HasParts(d) == Tag(d) \in Wrappers \cup Aggregates \cup {"routine", "subprogram"}

Referred(d) == { program.refs[d][i] : i \in DOMAIN program.refs[d] } \ {0}

(* Whatever all references from d on lead to has d in it.                  *)
OnCycle(d) ==
  \A S \in SUBSET Dies : Referred(d) \subseteq S /\ (\A e \in S : Referred(e) \subseteq S) => d \in S

(* Index a may stand for reference r in a finished table.                  *)
StandsFor(a, r) ==
  \/ r = 0 /\ a = Void
  \/ r # 0 /\ IsMethod(r) /\ table[a].leaf = IF Tag(r) = "static" THEN "procedure" ELSE "mfunction"
  \/ r # 0 /\ ~ IsMethod(r) /\ a = typeMap[r]
  \/ r # 0 /\ Tag(r) \in Aggregates /\ a > 0 /\ table[a] = Forward(r)
  \/ r # 0 /\ Tag(r) \notin Aggregates /\ a = Void /\ OnCycle(r)

(* When a request is answered, every type translated so far refers, in the *)
(* order of the graph, to what its references were translated to: for a    *)
(* class maybe by its forward reference, and, within a cycle only, Void in *)
(* place of a type that is no class.                                       *)
Faithful ==
  stack = << >> => \A d \in DOMAIN typeMap : HasParts(d) =>
    LET parts == Parts(d, typeMap[d]) IN
      /\ Len(parts) = Len(program.refs[d])
      /\ \A k \in DOMAIN parts : StandsFor(parts[k], program.refs[d][k])

(* "Caches translated types to ... resolve cyclic type references during   *)
(* DWARF to CodeView conversion" (debug_context.h): no record holds Void   *)
(* for a reference to a type that has a translation.                       *)
CyclesResolved ==
  stack = << >> => \A d \in DOMAIN typeMap : HasParts(d) =>
    LET parts == Parts(d, typeMap[d]) IN
      \A k \in DOMAIN parts : LET r == program.refs[d][k] IN
        parts[k] = Void /\ r \in DOMAIN typeMap => typeMap[r] = Void
=============================================================================
