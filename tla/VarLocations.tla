---------------------------- MODULE VarLocations ----------------------------
(***************************************************************************)
(* Which code a variable's records name.  For each function of the symbol  *)
(* table FindDwarfFunctionDie looks for its DWARF entry; TranslateLocalVars*)
(* takes the start and the name of that entry's function, which need not   *)
(* be the symbol asked for, as entries may have several parts of code; and *)
(* each location of a variable becomes a record or is left out with a      *)
(* warning.                                                                *)
(*                                                                         *)
(* Blocks and inline sites are in SymbolRecords, the splitting of long     *)
(* ranges in DefRange, the offsets of frame locations in FrameLayout.      *)
(***************************************************************************)
EXTENDS Integers, Sequences, FiniteSets, Functions

CONSTANTS
  Archs,    (* A subset of {"x86_64", "x86", "aarch64", "arm"}.            *)
  Images    (* The symbols and DWARF entries there may be; see ImageType.  *)

(***************************************************************************)
(* size:  of the functions in the symbol table, by address.                *)
(* named: the addresses among them that m_symbolNames has.                 *)
(* dies:  the subprograms of the compile units, in their order.  An entry  *)
(*        has a low_pc, or NoPc and ranges alone; with a low_pc its range  *)
(*        is the one in ranges.                                            *)
(* A location has a range or holds in Everywhere; op is that of its only   *)
(* operation, or "other", and reg the register of "reg" and "breg".        *)
(***************************************************************************)
NoPc       == -1
Everywhere == << >>
NoSymbol   == -1

Ops == {"reg", "fbreg", "breg", "other"}

IsList(s) == Len(s) \in Nat /\ DOMAIN s = 1 .. Len(s)

LocationType(l) ==
  /\ l.op \in Ops /\ l.reg \in Nat
  /\ l.range # Everywhere => l.range \in Nat \X Nat /\ l.range[1] <= l.range[2]

EntryType(d) ==
  /\ d.low \in Nat \cup {NoPc} /\ d.ranges \in Seq(Nat \X Nat)
  /\ d.low # NoPc => d.ranges # << >> /\ d.low = d.ranges[1][1]
  /\ IsList(d.vars)
  /\ \A v \in DOMAIN d.vars :
       IsList(d.vars[v]) /\ \A l \in DOMAIN d.vars[v] : LocationType(d.vars[v][l])

ImageType(m) ==
  /\ DOMAIN m.size \subseteq Nat /\ Range(m.size) \subseteq Nat
  /\ m.named \subseteq DOMAIN m.size
  /\ IsList(m.dies) /\ \A i \in DOMAIN m.dies : EntryType(m.dies[i])

(***************************************************************************)
(* What the compiler and the linker see to: no function is at 0, where the *)
(* file header is; a symbol is as long as the part of a function it is of; *)
(* and a location is of some part of its function.                         *)
(***************************************************************************)
Compiled(m) ==
  /\ 0 \notin m.named
  /\ \A i \in DOMAIN m.dies :
       LET d == m.dies[i] IN
         /\ \A k \in DOMAIN d.ranges :
              d.ranges[k][1] \in m.named =>
                d.ranges[k][2] = d.ranges[k][1] + m.size[d.ranges[k][1]]
         /\ \A v \in DOMAIN d.vars : \A l \in DOMAIN d.vars[v] :
              LET range == d.vars[v][l].range IN
                range # Everywhere =>
                  \E k \in DOMAIN d.ranges :
                    d.ranges[k][1] <= range[1] /\ range[2] <= d.ranges[k][2]

VARIABLES
  arch, image,
  func,        (* The function being written, by its address.              *)
  die,         (* Index of its entry, 0 for none.                          *)
  var, loc,    (* Indexes of the variable and its location that are next.  *)
  out          (* The records written, each with the func it is in.        *)

vars == <<arch, image, func, die, var, loc, out>>

Init ==
  /\ arch \in Archs /\ image \in Images
  /\ func = NoSymbol /\ die = 0 /\ var = 1 /\ loc = 1
  /\ out = {}

-----------------------------------------------------------------------------
(* DWARF numbers of the registers CodeView has a name for.                 *)
Mapped(a) ==
  CASE a = "x86_64"  -> (0 .. 15) \cup (17 .. 32)
    [] a = "x86"     -> (0 .. 9) \cup (21 .. 28)
    [] a = "arm"     -> (0 .. 15) \cup (64 .. 95) \cup (256 .. 287)
    [] a = "aarch64" -> (0 .. 31) \cup (64 .. 95)

(* Faulty: ranges alone do not make an entry.                              *)
IsOfLowPc(d, addr) == d.low = addr

IsOf(d, addr) ==
  \/ d.low = addr
  \/ d.low = NoPc /\ \E i \in DOMAIN d.ranges : d.ranges[i][1] = addr

(* The first entry of a function or of a part of it.                       *)
FindDwarfFunctionDie(addr) ==
  LET found == { i \in DOMAIN image.dies : IsOf(image.dies[i], addr) }
  IN  IF found = {} THEN 0 ELSE CHOOSE i \in found : \A j \in found : i <= j

Die == image.dies[die]

(* func_start: of the entry, whatever part of it func is.                  *)
Start(d) == IF d.low > 0 THEN d.low ELSE IF d.ranges = << >> THEN 0 ELSE d.ranges[1][1]

(* Faulty: the symbol records refer to is the one being written.           *)
NamedAfterSymbol(start) == IF func \in image.named THEN func ELSE NoSymbol

(* func_name stands for the address it is the name of.                     *)
FuncName(start) == IF start \in image.named THEN start ELSE NoSymbol

NoMoreFunctions == \A f \in DOMAIN image.size : f <= func
NextFunction ==
  CHOOSE f \in DOMAIN image.size : f > func /\ \A g \in DOMAIN image.size : g > func => f <= g

Idle == die # 0 => var > Len(Die.vars)

BeginFunction ==
  /\ Idle /\ ~ NoMoreFunctions
  /\ func' = NextFunction
  /\ die' = FindDwarfFunctionDie(func') /\ var' = 1 /\ loc' = 1
  /\ UNCHANGED <<arch, image, out>>

AtLocation == ~ Idle /\ loc <= Len(Die.vars[var])
Loc        == Die.vars[var][loc]
Low        == IF Loc.range = Everywhere THEN Start(Die) ELSE Loc.range[1]
High       == IF Loc.range = Everywhere THEN Start(Die) + image.size[func] ELSE Loc.range[2]

(* Faulty: locations before the function are not left out.                 *)
LocatedAnywhere == AtLocation /\ FuncName(Start(Die)) # NoSymbol

(* Locations before the function are left out, and all locations of a      *)
(* function without a name.                                                *)
Located == AtLocation /\ Low >= Start(Die) /\ FuncName(Start(Die)) # NoSymbol

NoRegister == -1
CvRegister == IF Loc.reg \in Mapped(arch) THEN Loc.reg ELSE NoRegister

(* Nothing is written for an empty range.                                  *)
Emit(kind, reg) ==
  /\ out' = IF High = Low THEN out ELSE
            out \cup {[func |-> func, die |-> die, var |-> var, loc |-> loc,
                       kind |-> kind, reg |-> reg,
                       symbol |-> FuncName(Start(Die)), offset |-> Low - Start(Die),
                       len |-> High - Low]}
  /\ loc' = loc + 1
  /\ UNCHANGED <<arch, image, func, die, var>>

(* Also of a register that has no name.                                    *)
EmitRegister == Located /\ Loc.op = "reg" /\ Emit("register", CvRegister)

EmitFramePointerRel == Located /\ Loc.op = "fbreg" /\ Emit("framepointer_rel", NoRegister)

EmitRegisterRel ==
  Located /\ Loc.op = "breg" /\ CvRegister # NoRegister /\ Emit("register_rel", CvRegister)

OmitRange ==
  /\ AtLocation
  /\ \/ ~ Located
     \/ Loc.op = "other"
     \/ Loc.op = "breg" /\ CvRegister = NoRegister
  /\ loc' = loc + 1
  /\ UNCHANGED <<arch, image, func, die, var, out>>

NextVariable ==
  /\ ~ Idle /\ ~ AtLocation
  /\ var' = var + 1 /\ loc' = 1
  /\ UNCHANGED <<arch, image, func, die, out>>

Next ==
  \/ BeginFunction
  \/ EmitRegister \/ EmitFramePointerRel \/ EmitRegisterRel \/ OmitRange
  \/ NextVariable

Spec == Init /\ [][Next]_vars

-----------------------------------------------------------------------------
Done == Idle /\ NoMoreFunctions

LocOf(r)  == image.dies[r.die].vars[r.var][r.loc]
CodeOf(r) == r.symbol + r.offset .. r.symbol + r.offset + r.len - 1

(* The state has the shape the code's declarations give it, and a record   *)
(* is of a function with that entry and refers to a symbol by its name.    *)
TypeOK ==
  /\ arch \in Archs /\ ImageType(image)
  /\ func \in DOMAIN image.size \cup {NoSymbol} /\ die \in 0 .. Len(image.dies)
  /\ var \in Nat \ {0} /\ loc \in Nat \ {0}
  /\ \A r \in out :
       /\ r.func \in DOMAIN image.size /\ r.symbol \in image.named
       /\ r.kind \in {"register", "framepointer_rel", "register_rel"}
       /\ r.reg \in Mapped(arch) \cup {NoRegister}
       /\ r.offset \in Nat /\ r.len \in Nat \ {0}

(* A record of a location with a range names the code in that range, also  *)
(* in the scope of another part of the function: .secrel32 and the offset  *)
(* come from one address.  One of a location that is the whole function    *)
(* names the part the function starts with, in the scope of that part, and *)
(* code of it in the scope of any part that is not longer.  In the scope of*)
(* a longer part, where the length is that part's and the start is not, it *)
(* runs past the part it names.  The scope of a function in one part has   *)
(* records of its own code only.                                           *)
RecordsWhereLocated ==
  \A r \in out :
    LET range == LocOf(r).range
        parts == image.dies[r.die].ranges
        first == parts[1][1] .. parts[1][2] - 1
    IN  /\ range # Everywhere => CodeOf(r) = range[1] .. range[2] - 1
        /\ range = Everywhere =>
             /\ r.func = parts[1][1] => CodeOf(r) = first
             /\ image.size[r.func] <= image.size[r.symbol] => CodeOf(r) \subseteq first
        /\ Len(parts) = 1 => CodeOf(r) \subseteq r.func .. r.func + image.size[r.func] - 1

Starts(d) == { d.ranges[k][1] : k \in DOMAIN d.ranges }

(* The symbol of an entry's start, if it is no part of an entry before.    *)
Owner(i) ==
  LET f == Start(image.dies[i]) IN
    IF f \in image.named /\ \A j \in 1 .. i - 1 : f \notin Starts(image.dies[j])
      THEN f ELSE NoSymbol

Understood(l) == l.op # "other" /\ (l.op # "fbreg" => l.reg \in Mapped(arch))

(* A variable can be found at all addresses of a location of it that are   *)
(* not before its function's start; of one that is the whole function, in  *)
(* the part the function starts with.                                      *)
VisibleInFunction ==
  Done => \A i \in DOMAIN image.dies : Owner(i) # NoSymbol =>
    LET d == image.dies[i] IN
      \A v \in DOMAIN d.vars : \A l \in DOMAIN d.vars[v] :
        LET range == IF d.vars[v][l].range = Everywhere THEN d.ranges[1] ELSE d.vars[v][l].range
            code  == range[1] .. range[2] - 1
        IN  Understood(d.vars[v][l]) /\ range[1] >= Start(d) =>
              code \subseteq UNION { CodeOf(r) :
                r \in { q \in out : q.func = Owner(i) /\ q.die = i /\ q.var = v /\ q.loc = l } }
=============================================================================
