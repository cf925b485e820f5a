--------------------------- MODULE SymbolRecords ---------------------------
(***************************************************************************)
(* EmitCodeviewSymbolTable and VarTranslator::TranslateLocalVars: for each *)
(* function its procedure records, and then a walk over its DWARF entries  *)
(* (lexical blocks, inlined subroutines, variables), depth first, which    *)
(* writes nested scopes of records.  The recursion of                      *)
(* translate_block_variables is an explicit stack of activations here, and *)
(* a step within a variable is a turn of the loop over its locations, or   *)
(* of the one that writes a location's def-ranges.                         *)
(*                                                                         *)
(* A record is its kind, the length it declares and the bytes it takes,    *)
(* and what it was written for: an entry and, of a def-range, the location.*)
(* Of the last two a reader of a .debug$S section does not see the latter; *)
(* a def-range does not name its variable either.  Types, names and        *)
(* registers are left out.                                                 *)
(***************************************************************************)
EXTENDS Integers, FiniteSets, Sequences

CONSTANT Programs   (* The programs to translate; see ProgramType.         *)

(***************************************************************************)
(* tag:   of each entry (see Tags), up: its parent.  Entries are numbered  *)
(*        in the order of the DWARF section: depth first, parents first.   *)
(* notes: the bytes of an inline site's binary annotations.                *)
(* locs:  of each location of a variable, how many def-ranges its range    *)
(*        takes (see DefRange): none if it is left out, as it starts before*)
(*        the function, the function has no name or the operation is not   *)
(*        understood, and none if it is empty.                             *)
(***************************************************************************)
Tags == {
  "function",  (* DW_TAG_subprogram, one for each function with a DIE.     *)
  "block",     (* DW_TAG_lexical_block                                     *)
  "inlined",   (* DW_TAG_inlined_subroutine                                *)
  "opaque",    (* the same, its ranges or its origin unreadable            *)
  "variable",  (* a variable or parameter with locations                   *)
  "hidden" }   (* static, or without a name or locations                   *)

ProgramType(p) ==
  /\ p.tag \in Seq(Tags)
  /\ p.up \in [DOMAIN p.tag -> Nat] /\ p.notes \in [DOMAIN p.tag -> Nat]
  /\ p.locs \in [DOMAIN p.tag -> Seq(Nat)]
  /\ \A d \in DOMAIN p.tag :
       /\ p.up[d] \in 0 .. d - 1
       /\ p.up[d] = 0 <=> p.tag[d] = "function"
       /\ p.tag[d] = "variable" => p.locs[d] # << >>
       /\ p.up[d] # 0 => p.tag[p.up[d]] \in {"function", "block", "inlined", "opaque"}
       /\ \A e \in p.up[d] + 1 .. d - 1 : p.up[d] # 0 => p.up[e] >= p.up[d]

VARIABLES
  program,
  func,           (* Index of the function being written.                  *)
  stack,          (* Activations: die, and todo, its children still ahead. *)
  inline_site_counter,
  site,           (* Site number of each inlined entry, 0 before it has it.*)
  child,          (* The variable whose locations are gone through, or 0,  *)
  loc_expr,       (* the location, and how many of its def-ranges are still*)
  left,           (* to be written.                                        *)
  out,            (* The records written.                                  *)
  labels          (* Labels defined: a sequence of <<name, number>>.       *)

vars == <<program, func, stack, inline_site_counter, site, child, loc_expr, left,
          out, labels>>

locations == <<child, loc_expr, left>>

Dies      == DOMAIN program.tag
Functions == { d \in Dies : program.tag[d] = "function" }

Children(d) == { c \in Dies : program.up[c] = d }

Activation(d) == [die |-> d, todo |-> Children(d)]

Init ==
  /\ program \in Programs
  /\ func = 0 /\ stack = << >>
  /\ inline_site_counter = 0
  /\ site = [d \in DOMAIN program.tag |-> 0]
  /\ child = 0 /\ loc_expr = 0 /\ left = 0
  /\ out = << >> /\ labels = << >>

-----------------------------------------------------------------------------
Align4(n) == ((n + 3) \div 4) * 4

(* A record whose length field is right: without the field itself.         *)
Record(kind, d, bytes) ==
  [kind |-> kind, die |-> d, loc |-> 0,
   declared |-> Align4(bytes) - 2, size |-> Align4(bytes)]

(* S_DEFRANGE_REGISTER and the like, of a location of a variable.          *)
DefRangeRecord(d, l) == [Record("defrange", d, 16) EXCEPT !.loc = l]

(* S_INLINESITE: record_payload_size = 4 + 4 + 4 + annotations.size().     *)
InlineSite(d) ==
  [kind |-> "inlinesite", die |-> d, loc |-> 0,
   declared |-> 12 + program.notes[d], size |-> Align4(16 + program.notes[d])]

(* The S_END of every scope: .short 2, .short 6.                           *)
End(d) == Record("end", d, 4)

NoMoreFunctions == \A f \in Functions : f <= func
NextFunction    == CHOOSE f \in Functions : f > func /\ \A g \in Functions : g > func => f <= g

(* The procedure and frame records; TranslateLocalVars starts to count     *)
(* inline sites anew.                                                      *)
BeginFunction ==
  /\ stack = << >> /\ child = 0 /\ ~ NoMoreFunctions
  /\ func' = NextFunction
  /\ inline_site_counter' = 0
  /\ out' = out \o << Record("proc", func', 40), Record("frameproc", func', 30) >>
  /\ stack' = << Activation(func') >>
  /\ UNCHANGED <<program, site, locations, labels>>

Top  == stack[Len(stack)]
Next1 == CHOOSE c \in Top.todo : \A e \in Top.todo : c <= e   \* the child the loop is at
Is(tag) == stack # << >> /\ child = 0 /\ Top.todo # {} /\ program.tag[Next1] = tag

(* The loop of the activation on top goes on to the next child ...         *)
Advanced == [stack EXCEPT ![Len(stack)].todo = @ \ {Next1}]

(* ... after the activation of this one.                                   *)
Descended == Append(Advanced, Activation(Next1))

LexicalBlock ==
  /\ Is("block")
  /\ stack' = Descended
  /\ UNCHANGED <<program, func, inline_site_counter, site, locations, out, labels>>

(* The site gets its number before anything is known to be readable.       *)
NumberSite ==
  /\ inline_site_counter' = inline_site_counter + 1
  /\ site' = [site EXCEPT ![Next1] = inline_site_counter']

InlinedSubroutine ==
  /\ Is("inlined")
  /\ NumberSite
  /\ labels' = labels \o << <<"site_begin", site'[Next1]>>, <<"site_end", site'[Next1]>> >>
  /\ out' = Append(out, InlineSite(Next1))
  /\ stack' = Descended
  /\ UNCHANGED <<program, func, locations>>

(* Faulty: the children of a site that cannot be read are dropped with it. *)
SkipsChildren == Advanced

KeepsChildren == Descended

OpaqueSubroutine ==
  /\ Is("opaque")
  /\ NumberSite
  /\ stack' = KeepsChildren
  /\ UNCHANGED <<program, func, locations, out, labels>>

(* S_LOCAL, whatever becomes of the locations.                             *)
Variable ==
  /\ Is("variable")
  /\ out' = Append(out, Record("local", Next1, 10))
  /\ child' = Next1 /\ loc_expr' = 1 /\ left' = program.locs[Next1][1]
  /\ stack' = Advanced
  /\ UNCHANGED <<program, func, inline_site_counter, site, labels>>

InLocations ==
  child # 0 /\ UNCHANGED <<program, func, stack, inline_site_counter, site, labels>>

EmitDefRange ==
  /\ InLocations /\ left > 0
  /\ out' = Append(out, DefRangeRecord(child, loc_expr))
  /\ left' = left - 1
  /\ UNCHANGED <<child, loc_expr>>

(* Faulty: a location that is left out ends the loop.                      *)
MoreUnlessLeftOut ==
  program.locs[child][loc_expr] > 0 /\ loc_expr < Len(program.locs[child])

MoreLocations == loc_expr < Len(program.locs[child])

NextLocation ==
  /\ InLocations /\ left = 0 /\ MoreLocations
  /\ loc_expr' = loc_expr + 1
  /\ left' = program.locs[child][loc_expr + 1]
  /\ UNCHANGED <<child, out>>

EndOfLocations ==
  /\ InLocations /\ left = 0 /\ ~ MoreLocations
  /\ child' = 0 /\ loc_expr' = 0 /\ left' = 0
  /\ UNCHANGED out

HiddenVariable ==
  /\ Is("hidden")
  /\ stack' = Advanced
  /\ UNCHANGED <<program, func, inline_site_counter, site, locations, out, labels>>

(* Faulty: the activation just returns.                                    *)
ReturnPlain(d) == UNCHANGED <<out, labels>>

(* What follows the recursive call: an inline site and a function close    *)
(* their scope; blocks and unreadable sites have none.                     *)
CloseScope(d) ==
  IF program.tag[d] \in {"inlined", "function"}
    THEN /\ out' = Append(out, End(d))
         /\ labels' = IF program.tag[d] = "inlined"
                        THEN Append(labels, <<"site_scope_end", site[d]>>) ELSE labels
    ELSE UNCHANGED <<out, labels>>

Return ==
  /\ stack # << >> /\ child = 0 /\ Top.todo = {}
  /\ CloseScope(Top.die)
  /\ stack' = SubSeq(stack, 1, Len(stack) - 1)
  /\ UNCHANGED <<program, func, inline_site_counter, site, locations>>

Next ==
  \/ BeginFunction
  \/ LexicalBlock
  \/ InlinedSubroutine
  \/ OpaqueSubroutine
  \/ Variable
  \/ EmitDefRange
  \/ NextLocation
  \/ EndOfLocations
  \/ HiddenVariable
  \/ Return

Spec == Init /\ [][Next]_vars

-----------------------------------------------------------------------------
Done == stack = << >> /\ child = 0 /\ NoMoreFunctions

Kinds == {"proc", "frameproc", "inlinesite", "local", "defrange", "end"}

(* The state has the shape the code's declarations give it; activations    *)
(* are of entries, each a child of the one below it.                       *)
TypeOK ==
  /\ ProgramType(program)
  /\ func \in Functions \cup {0}
  /\ \A i \in DOMAIN stack :
       /\ stack[i].die \in Dies /\ stack[i].todo \subseteq Dies
       /\ i > 1 => program.up[stack[i].die] = stack[i - 1].die
  /\ inline_site_counter \in 0 .. Cardinality(Dies)
  /\ site \in [Dies -> 0 .. Cardinality(Dies)]
  /\ child \in Dies \cup {0} /\ loc_expr \in Nat /\ left \in Nat
  /\ out \in Seq([kind: Kinds, die: Dies, loc: Nat, declared: Nat, size: Nat])

Opens(k)    == k \in {"proc", "inlinesite"}
HasScope(d) == program.tag[d] \in {"function", "inlined"}

(* What a reader of the records makes of one with these scopes open.       *)
After(open, r) ==
  IF Opens(r.kind) THEN Append(open, r.die)
  ELSE IF r.kind = "end" THEN SubSeq(open, 1, Len(open) - 1)
  ELSE open

(* The scopes it has open after the first n records.                       *)
OpenScopes[n \in 0 .. Len(out)] ==
  IF n = 0 THEN << >> ELSE After(OpenScopes[n - 1], out[n])

(* The scopes of the first n activations.                                  *)
ActiveScopes[n \in 0 .. Len(stack)] ==
  IF n = 0 THEN << >>
  ELSE IF HasScope(stack[n].die) THEN Append(ActiveScopes[n - 1], stack[n].die)
  ELSE ActiveScopes[n - 1]

(* The scopes open in the output are those of the activations, innermost   *)
(* last, so each S_END closes what it was written for, and none is left.   *)
ScopesMatchActivations == OpenScopes[Len(out)] = ActiveScopes[Len(stack)]

(* The entry whose scope a variable belongs in: past blocks and unreadable *)
(* inline sites.                                                           *)
IsScopeOf(s, d) ==
  /\ HasScope(s)
  /\ \E n \in 1 .. Len(program.tag) :
       \E path \in [1 .. n -> Dies] :
         /\ path[1] = program.up[d] /\ path[n] = s
         /\ \A i \in 1 .. n - 1 : ~ HasScope(path[i]) /\ program.up[path[i]] = path[i + 1]

(* Every variable that is not hidden gets one S_LOCAL, in the scope it     *)
(* belongs in, also below inline sites that could not be read.             *)
VariablesInTheirScope ==
  /\ \A i \in DOMAIN out : out[i].kind = "local" =>
       OpenScopes[i] # << >> /\ IsScopeOf(OpenScopes[i][Len(OpenScopes[i])], out[i].die)
  /\ Done => \A d \in Dies : program.tag[d] = "variable" =>
       Cardinality({ i \in DOMAIN out : out[i].kind = "local" /\ out[i].die = d }) = 1

(* The def-ranges a reader takes for those of the variable at i: all that  *)
(* follow, up to a record of another kind.                                 *)
RangesBehind(i) == { j \in i + 1 .. Len(out) : \A k \in i + 1 .. j : out[k].kind = "defrange" }

(* A def-range does not say which variable it is of, or which location.    *)
(* What a reader takes for a variable's are its own and, once the loop     *)
(* over its locations is over, those of every location: as many as its     *)
(* range takes, whichever locations before it were left out.               *)
DefRangesFollowTheirVariable ==
  /\ \A j \in DOMAIN out : out[j].kind = "defrange" =>
       \E i \in DOMAIN out : out[i].kind = "local" /\ j \in RangesBehind(i)
  /\ \A i \in DOMAIN out : out[i].kind = "local" =>
       /\ \A j \in RangesBehind(i) : out[j].die = out[i].die
       /\ out[i].die # child => \A l \in DOMAIN program.locs[out[i].die] :
            Cardinality({ j \in RangesBehind(i) : out[j].loc = l }) = program.locs[out[i].die][l]

(* "The output can be compiled by Clang to produce a COFF object"          *)
(* (README.md): no label is defined twice.                                 *)
LabelsUnique == \A i, j \in DOMAIN labels : labels[i] = labels[j] => i = j

(* "All CodeView records are padded to 4 bytes" (Given_DebugInfo.cpp): the *)
(* length of a record and its length field are a multiple of 4.            *)
LengthsAligned == \A i \in DOMAIN out : (out[i].declared + 2) % 4 = 0
=============================================================================
