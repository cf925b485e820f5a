----------------------------- MODULE MCLocals -----------------------------
(***************************************************************************)
(* Instances of Locals.                                                    *)
(*                                                                         *)
(* "scopes": two functions with up to MaxEntries entries between them, of  *)
(* every tag and in every nesting; the annotations of an inline site take  *)
(* five bytes.  A variable has one location, which is left out, or three:  *)
(* one left out, one of two def-ranges and one of one.                     *)
(*                                                                         *)
(* "ranges": locations of up to ten bytes, records of at most three, a     *)
(* length field of two bits: every remainder modulo both occurs.           *)
(*                                                                         *)
(* "locations": entries of one part, of a part and a cold one behind or    *)
(* before it, and one whose code the linker dropped (at 0), in all pairs;  *)
(* symbols of any of the parts, one in the middle of a function, and an    *)
(* undefined one.  The entries' variable has up to two locations.          *)
(*                                                                         *)
(* "site": sites of one range and of two with a gap; rows that are 15, 16  *)
(* and more than 2^7 and 2^14 bytes apart, some behind the site, and lines *)
(* that are 3, 4 and more than 64 lines apart in both directions.          *)
(***************************************************************************)
EXTENDS Locals, FiniteSets, Functions

CONSTANT MaxEntries   (* Bound: the number of entries of a program.        *)

MCAddresses    == 0 .. 10
MCRangeSets    == { {<<100, 17000>>}, {<<100, 116>>, <<300, 17000>>} }
MCRowAddresses == {100, 115, 116, 300, 16800, 17000}
MCFiles        == {1, 20}
MCRowLines     == {6, 10, 13, 110}
MCCalls        == { <<1, 10>>, <<20, 0>> }

(* The shape of programs and images alone, of which the constants are made.*)
AnyScopes    == INSTANCE SymbolRecords WITH Programs <- {}, out <- records
AnyLocations == INSTANCE VarLocations WITH Archs <- {}, Images <- {}

ASSUME MCEncodable == Site!Encodable

-----------------------------------------------------------------------------
Extend(p, t, u, ls) ==
  [tag |-> Append(p.tag, t), up |-> Append(p.up, u), notes |-> Append(p.notes, 5),
   locs |-> Append(p.locs, ls)]

Counts(t) == IF t = "variable" THEN { <<0>>, <<0, 2, 1>> } ELSE { << >> }

(* An entry that may come next: below the last one or one of its ancestors.*)
Fits(p, t, u) ==
  IF t = "function" THEN u = 0 /\ Cardinality({ d \in DOMAIN p.tag : p.up[d] = 0 }) < 2
  ELSE /\ u # 0 /\ p.tag[u] \in {"function", "block", "inlined", "opaque"}
       /\ \A e \in u + 1 .. Len(p.tag) : p.up[e] >= u

Extensions(p) ==
  UNION { { Extend(p, t, u, ls) : u \in { v \in 0 .. Len(p.tag) : Fits(p, t, v) }, ls \in Counts(t) } :
          t \in AnyScopes!Tags }

Trees[n \in 1 .. MaxEntries] ==
  IF n = 1 THEN { [tag |-> <<"function">>, up |-> <<0>>, notes |-> <<5>>, locs |-> << << >> >>] }
  ELSE UNION { Extensions(p) : p \in Trees[n - 1] }

MCPrograms == UNION { Trees[n] : n \in 1 .. MaxEntries }

Shape(low, rs) == [low |-> low, ranges |-> rs]

Shapes == { Shape(2, << <<2, 5>> >>), Shape(AnyLocations!NoPc, << <<2, 5>> >>),
            Shape(AnyLocations!NoPc, << <<2, 5>>, <<7, 9>> >>),
            Shape(AnyLocations!NoPc, << <<7, 9>>, <<2, 5>> >>),
            Shape(0, << <<0, 2>> >>) }

Location(range, op, reg) == [range |-> range, op |-> op, reg |-> reg]

(* 33 is st(0) on x86_64; it has no name, nor on x86.                      *)
Operations == { <<"reg", 0>>, <<"reg", 33>>, <<"fbreg", 0>>, <<"breg", 0>>, <<"breg", 33>>,
                <<"other", 0>> }

RangesIn(s) ==
  { r \in (0 .. 8) \X (1 .. 9) :
      /\ r[1] < r[2] /\ (r[1] = r[2] - 1 => r[1] \in {3, 8})
      /\ \E i \in DOMAIN s.ranges : s.ranges[i][1] <= r[1] /\ r[2] <= s.ranges[i][2] }

LocationLists(s) ==
  { << Location(r, o[1], o[2]) >> : r \in RangesIn(s) \cup {AnyLocations!Everywhere},
                                     o \in Operations }
    \cup { << Location(r, "other", 0), Location(q, "reg", 0) >> : r, q \in RangesIn(s) }
    \cup { << >> }

Entry(s, locs) == [low |-> s.low, ranges |-> s.ranges, vars |-> << locs >>]

Entries       == UNION { { Entry(s, locs) : locs \in LocationLists(s) } : s \in Shapes }
SimpleEntries == { Entry(s, << Location(AnyLocations!Everywhere, "fbreg", 0) >>) : s \in Shapes }

Size == [a \in {0, 2, 3, 7} |-> CASE a = 0 -> 0 [] a = 2 -> 3 [] a = 3 -> 1 [] a = 7 -> 2]

MCImages ==
  { [size |-> Restrict(Size, S), named |-> S \ {0}, dies |-> ds] :
      S \in SUBSET DOMAIN Size,
      ds \in { <<d>> : d \in Entries } \cup { <<e, d>> : e \in SimpleEntries, d \in Entries } }
=============================================================================
