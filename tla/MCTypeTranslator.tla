-------------------------- MODULE MCTypeTranslator --------------------------
(* Every graph of up to MaxTypes entries of the tags that cycles are made  *)
(* of; and four graphs with the other tags: a class with methods and a     *)
(* union, functions, an enumeration and an array, and the same class       *)
(* described in two compile units.                                         *)
EXTENDS TypeTranslator

CONSTANT MaxTypes

Targets(n) == 0 .. n
Entries(n) ==
  { <<"base", << >>>>, <<"declared", << >>>> }
    \cup { <<t, <<r>>>> : t \in {"pointer", "typedef"}, r \in Targets(n) }
    \cup { <<"class", <<r>>>> : r \in 1 .. n }
    \cup { <<"routine", <<0, r>>>> : r \in 1 .. n }

NameOf(tag, d) == IF tag \in {"class", "declared"} THEN (IF d = 1 THEN "A" ELSE "B") ELSE "t"

Graph(f) ==
  [tag  |-> [d \in DOMAIN f |-> f[d][1]], refs |-> [d \in DOMAIN f |-> f[d][2]],
   name |-> [d \in DOMAIN f |-> NameOf(f[d][1], d)]]

(* No reference chain of these leads back to where it started.             *)
Ranked(p, From) ==
  \E rank \in [DOMAIN p.tag -> DOMAIN p.tag] :
    \A d \in DOMAIN p.tag : \A i \in DOMAIN p.refs[d] :
      d \in From /\ p.refs[d][i] \in From => rank[p.refs[d][i]] < rank[d]

With(p, tags) == { d \in DOMAIN p.tag : p.tag[d] \in tags }

(* Types that C++ can declare: no type holds itself by value, and only     *)
(* classes make a cycle.                                                   *)
Declarable(p) ==
  Ranked(p, With(p, {"typedef", "class"})) /\ Ranked(p, With(p, Tags \ {"class"}))

Graphs == UNION { { p \in { Graph(f) : f \in [1 .. n -> Entries(n)] } : Declarable(p) } :
                  n \in 1 .. MaxTypes }

Special == {
  [tag  |-> <<"class", "method", "static", "pointer", "union", "base", "const">>,
   refs |-> << <<2, 3, 5, 6>>, <<0, 4, 7>>, <<6, 4>>, <<1>>, <<6, 4>>, << >>, <<1>> >>,
   name |-> <<"A", "", "", "", "U", "", "">>],
  [tag  |-> <<"subprogram", "pointer", "routine", "typedef", "unknown">>,
   refs |-> << <<4, 2, 5>>, <<3>>, <<0, 4>>, <<2>>, << >> >>,
   name |-> <<"f", "", "", "", "">>],
  [tag  |-> <<"array", "enum", "enum", "base", "volatile">>,
   refs |-> << <<5>>, <<0>>, <<4>>, << >>, <<2>> >>,
   name |-> <<"", "E", "F", "", "">>],
  [tag  |-> <<"class", "pointer", "class", "pointer">>,
   refs |-> << <<2>>, <<1>>, <<4>>, <<3>> >>,
   name |-> <<"A", "", "A", "">>] }

MCPrograms == Graphs \cup Special
=============================================================================
