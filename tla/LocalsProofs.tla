---------------------------- MODULE LocalsProofs ----------------------------
(***************************************************************************)
(* Proofs about Locals and the four modules it composes: for programs and  *)
(* images of any size, all addresses and all limits of a record.           *)
(***************************************************************************)
EXTENDS Locals, FiniteSetTheorems, SequenceTheorems, WellFoundedInduction, TLAPS

(* Of a set of numbers one is the least.                                   *)
LEMMA Least ==
  ASSUME NEW T \in SUBSET Nat, T # {}
  PROVE  \E x \in T : \A y \in T : x <= y
  <1> DEFINE Less == OpToRel(<, Nat)
  <1>1. IsWellFoundedOn(Less, Nat)
    BY NatLessThanWellFounded
  <1>2. \A x, y \in Nat : <<y, x>> \notin Less => x <= y
    BY DEF OpToRel
  <1> HIDE DEF Less
  <1>3. \E x \in T : \A y \in T : ~ (<<y, x>> \in Less)
    BY <1>1, WFMin, Zenon
  <1>4. QED
    BY <1>2, <1>3

-----------------------------------------------------------------------------
(* DefRange: the records of one location.                                  *)

(* While the loop runs: what is covered is the range's part below the      *)
(* current offset, and what remains is the part from there on.             *)
LoopInv ==
  pc \in {"split", "done"} =>
    /\ func_start <= low_pc /\ low_pc <= high_pc
    /\ First <= current_offset /\ current_offset + remaining_len = Limit
    /\ \A x \in First .. current_offset - 1 :
         \E r \in ranges : r[1] <= x /\ x < r[1] + r[2]
    /\ \A r \in ranges : First <= r[1] /\ r[1] + r[2] <= current_offset
    /\ \A r, q \in ranges : r # q => r[1] + r[2] <= q[1] \/ q[1] + q[2] <= r[1]
    /\ pc = "done" => remaining_len = 0

IInv == TypeOK /\ (pc = "location" => low_pc <= high_pc /\ ranges = {}) /\ LoopInv

(* A turn of the loop covers something and no more than what is left.      *)
LEMMA CurrentLenBounds ==
  ASSUME TypeOK, remaining_len > 0
  PROVE  CurrentLen \in 1 .. MaxDefRange /\ CurrentLen <= remaining_len
  BY MaxDefRangeAssumption DEF TypeOK, CurrentLen

(* A turn of the loop goes on where the last one ended.                    *)
LEMMA EmitRangeKeeps ==
  ASSUME IInv, EmitRange
  PROVE  IInv'
  <1> DEFINE len == CurrentLen
             new == <<current_offset, len>>
  <1>1. /\ len \in Nat /\ len \in 1 .. MaxDefRange /\ len <= remaining_len
        /\ current_offset \in Nat /\ remaining_len \in Nat
    BY CurrentLenBounds, MaxDefRangeAssumption DEF IInv, TypeOK, EmitRange
  <1>2. new[1] = current_offset /\ new[2] = len /\ new \in Nat \X (1 .. MaxDefRange)
    BY <1>1
  <1>3. /\ ranges' = ranges \cup {new}
        /\ current_offset' = current_offset + len /\ remaining_len' = remaining_len - len
        /\ UNCHANGED <<pc, func_start, low_pc, high_pc>> /\ pc = "split"
    BY DEF EmitRange
  <1> HIDE DEF len, new
  <1>4. \A r \in ranges : r[1] \in Nat /\ r[2] \in Nat
    BY MaxDefRangeAssumption DEF IInv, TypeOK
  <1>5. TypeOK'
    BY <1>1, <1>2, <1>3 DEF IInv, TypeOK
  <1>6. First' = First /\ Limit' = Limit /\ First \in Int /\ Limit \in Int
    BY <1>3 DEF First, Limit, IInv, TypeOK
  <1>7. /\ First <= current_offset /\ current_offset + remaining_len = Limit
        /\ \A r \in ranges : First <= r[1] /\ r[1] + r[2] <= current_offset
    BY <1>3 DEF IInv, LoopInv
  <1>8. ASSUME NEW x \in First .. current_offset + len - 1
        PROVE  \E r \in ranges' : r[1] <= x /\ x < r[1] + r[2]
    <2>1. CASE x < current_offset
      <3>1. x \in First .. current_offset - 1
        BY <1>1, <1>6, <2>1
      <3>2. QED
        BY <1>3, <3>1 DEF IInv, LoopInv
    <2>2. CASE current_offset <= x
      <3>1. new[1] <= x /\ x < new[1] + new[2]
        BY <1>1, <1>2, <1>6, <2>2
      <3>2. QED
        BY <1>3, <3>1
    <2>3. QED
      BY <1>1, <1>6, <2>1, <2>2
  <1>9. ASSUME NEW r \in ranges' PROVE First <= r[1] /\ r[1] + r[2] <= current_offset'
    BY <1>1, <1>2, <1>3, <1>4, <1>6, <1>7
  <1>10. ASSUME NEW r \in ranges', NEW q \in ranges', r # q
         PROVE  r[1] + r[2] <= q[1] \/ q[1] + q[2] <= r[1]
    BY <1>2, <1>3, <1>7, <1>10 DEF IInv, LoopInv
  <1>11. First <= current_offset' /\ current_offset' + remaining_len' = Limit
    BY <1>1, <1>3, <1>6, <1>7
  <1>12. func_start <= low_pc /\ low_pc <= high_pc
    BY <1>3 DEF IInv, LoopInv
  <1>13. LoopInv'
    <2>1. ASSUME NEW x \in First' .. current_offset' - 1
          PROVE  \E r \in ranges' : r[1] <= x /\ x < r[1] + r[2]
      <3>1. x \in First .. current_offset + len - 1
        BY <1>1, <1>3, <1>6
      <3>2. QED
        BY <1>8, <3>1
    <2>2. /\ (func_start <= low_pc /\ low_pc <= high_pc)'
          /\ (First <= current_offset /\ current_offset + remaining_len = Limit)'
          /\ \A r \in ranges' : First' <= r[1] /\ r[1] + r[2] <= current_offset'
          /\ pc' # "done"
      BY <1>3, <1>6, <1>9, <1>11, <1>12
    <2>3. QED
      BY <1>10, <2>1, <2>2 DEF LoopInv
  <1>14. QED
    BY <1>3, <1>5, <1>13 DEF IInv

(* Before a location there is no range.                                    *)
LEMMA RangesInit == Init => IInv
  BY AddressesAssumption DEF Init, IInv, TypeOK, LoopInv

(* The range stays while another part is run.                              *)
LEMMA RangesStay ==
  ASSUME IInv, UNCHANGED vars
  PROVE  IInv'
  BY DEF vars, IInv, TypeOK, LoopInv, First, Limit

(* Every step of the def-range loop keeps its invariant.                   *)
LEMMA RangesNext ==
  ASSUME IInv, Next
  PROVE  IInv'
  <1>1. CASE Ignore
    BY <1>1 DEF Ignore, IInv, TypeOK, LoopInv
  <1>2. CASE Begin
    BY <1>2 DEF Begin, IInv, TypeOK, LoopInv, First, Limit
  <1>3. CASE EmitRange
    BY <1>3, EmitRangeKeeps
  <1>4. CASE Finish
    BY <1>4 DEF Finish, IInv, TypeOK, LoopInv, First, Limit
  <1>5. QED
    BY <1>1, <1>2, <1>3, <1>4 DEF Next

-----------------------------------------------------------------------------
(* VarLocations: which code the records of a variable name.                *)

(* The facts of an image that its entries and their lists have.            *)
Entry(i) == image.dies[i]

LocTypes ==
  /\ arch \in Archs /\ image \in Images
  /\ func \in DOMAIN image.size \cup {Locations!NoSymbol}
  /\ die = IF func = Locations!NoSymbol THEN 0 ELSE Locations!FindDwarfFunctionDie(func)
  /\ var \in Nat \ {0} /\ loc \in Nat \ {0}

(* The place of a location, for an entry's start s and a symbol of size n. *)
LowOf(l, s)     == IF l.range = Locations!Everywhere THEN s ELSE l.range[1]
HighOf(l, s, n) == IF l.range = Locations!Everywhere THEN s + n ELSE l.range[2]

(* A location that is written, of the function f.                          *)
Written(f, l, s) == LowOf(l, s) >= s /\ s \in image.named

(* A record says where its location is.                                    *)
RecordRight(r) ==
  /\ r.func \in DOMAIN image.size /\ r.die = Locations!FindDwarfFunctionDie(r.func)
  /\ r.die \in DOMAIN image.dies
  /\ r.var \in DOMAIN Entry(r.die).vars /\ r.loc \in DOMAIN Entry(r.die).vars[r.var]
  /\ LET s == Locations!Start(Entry(r.die))
         l == Entry(r.die).vars[r.var][r.loc]
     IN  /\ s \in image.named /\ LowOf(l, s) >= s
         /\ LowOf(l, s) # HighOf(l, s, image.size[r.func])
         /\ r.symbol = s /\ r.offset = LowOf(l, s) - s
         /\ r.len = HighOf(l, s, image.size[r.func]) - LowOf(l, s)
  /\ r.kind \in {"register", "framepointer_rel", "register_rel"}
  /\ r.reg \in Locations!Mapped(arch) \cup {Locations!NoRegister}

(* What has been passed of the variables of function f.                    *)
Passed(f, v, l) == f < func \/ (f = func /\ (v < var \/ (v = var /\ l < loc)))

(* Whatever was passed and is understood has its record.                   *)
Complete ==
  \A f \in DOMAIN image.size : \A i \in DOMAIN image.dies :
    i = Locations!FindDwarfFunctionDie(f) =>
      \A v \in DOMAIN Entry(i).vars : \A l \in DOMAIN Entry(i).vars[v] :
        LET s == Locations!Start(Entry(i))
            e == Entry(i).vars[v][l]
        IN  /\ Passed(f, v, l) /\ Locations!Understood(e)
            /\ s \in image.named /\ LowOf(e, s) >= s
            /\ LowOf(e, s) # HighOf(e, s, image.size[f])
            => \E r \in out : r.func = f /\ r.die = i /\ r.var = v /\ r.loc = l

LocInv == LocTypes /\ (\A r \in out : RecordRight(r)) /\ Complete

(* The types of an image, its functions and its entries.                   *)
LEMMA ImageFacts ==
  ASSUME LocTypes
  PROVE  /\ DOMAIN image.size \subseteq Nat /\ image.named \subseteq DOMAIN image.size
         /\ \A f \in DOMAIN image.size : image.size[f] \in Nat
         /\ DOMAIN image.dies \subseteq Nat \ {0}
         /\ \A i \in DOMAIN image.dies : Locations!EntryType(Entry(i))
  <1>1. Locations!ImageType(image)
    BY ImagesAssumption DEF LocTypes
  <1>2. \A f \in DOMAIN image.size : image.size[f] \in Locations!Range(image.size)
    BY DEF Locations!Range
  <1>3. QED
    BY <1>1, <1>2 DEF Locations!ImageType, Locations!IsList, Entry

(* The types of a location of a variable of an entry.                      *)
LEMMA LocationFacts ==
  ASSUME LocTypes, NEW i \in DOMAIN image.dies,
         NEW v \in DOMAIN Entry(i).vars, NEW l \in DOMAIN Entry(i).vars[v]
  PROVE  /\ Locations!LocationType(Entry(i).vars[v][l])
         /\ v \in 1 .. Len(Entry(i).vars) /\ Len(Entry(i).vars) \in Nat
         /\ l \in 1 .. Len(Entry(i).vars[v]) /\ Len(Entry(i).vars[v]) \in Nat
  BY ImageFacts DEF Locations!EntryType, Locations!IsList

(* A function starts at an address.                                        *)
LEMMA StartType ==
  ASSUME LocTypes, NEW i \in DOMAIN image.dies
  PROVE  Locations!Start(Entry(i)) \in Nat
  <1>1. Locations!EntryType(Entry(i))
    BY ImageFacts
  <1>2. Entry(i).ranges # << >> => Entry(i).ranges[1] \in Nat \X Nat
    BY <1>1 DEF Locations!EntryType
  <1>3. QED
    BY <1>1, <1>2 DEF Locations!EntryType, Locations!Start, Locations!NoPc

(* The entry found is of the address, and the first such one.              *)
LEMMA FoundEntry ==
  ASSUME LocTypes, NEW f
  PROVE  \/ /\ Locations!FindDwarfFunctionDie(f) = 0
            /\ \A i \in DOMAIN image.dies : ~ Locations!IsOf(Entry(i), f)
         \/ /\ Locations!FindDwarfFunctionDie(f) \in DOMAIN image.dies
            /\ Locations!IsOf(Entry(Locations!FindDwarfFunctionDie(f)), f)
            /\ \A i \in DOMAIN image.dies :
                 Locations!IsOf(Entry(i), f) => Locations!FindDwarfFunctionDie(f) <= i
  <1> DEFINE found == { i \in DOMAIN image.dies : Locations!IsOf(image.dies[i], f) }
  <1>1. CASE found = {}
    BY <1>1 DEF Locations!FindDwarfFunctionDie, Entry
  <1>2. CASE found # {}
    <2>1. found \in SUBSET Nat
      BY ImageFacts
    <2>2. \E i \in found : \A j \in found : i <= j
      BY <1>2, <2>1, Least
    <2>3. /\ Locations!FindDwarfFunctionDie(f) \in found
          /\ \A j \in found : Locations!FindDwarfFunctionDie(f) <= j
      BY <1>2, <2>2 DEF Locations!FindDwarfFunctionDie
    <2>4. QED
      BY <2>3 DEF Entry
  <1>3. QED
    BY <1>1, <1>2

(* The table of functions is walked upwards, without a gap.                *)
LEMMA NextOfTable ==
  ASSUME LocTypes, ~ Locations!NoMoreFunctions
  PROVE  /\ Locations!NextFunction \in DOMAIN image.size /\ Locations!NextFunction > func
         /\ \A g \in DOMAIN image.size : g > func => Locations!NextFunction <= g
  <1> DEFINE later == { f \in DOMAIN image.size : f > func }
  <1>1. later \in SUBSET Nat
    BY ImageFacts
  <1>2. func \in Int
    BY ImageFacts DEF LocTypes, Locations!NoSymbol
  <1>3. later # {}
    BY <1>2, ImageFacts DEF Locations!NoMoreFunctions
  <1>4. \E f \in later : \A g \in later : f <= g
    BY <1>1, <1>3, Least
  <1>5. \E f \in DOMAIN image.size : f > func /\ \A g \in DOMAIN image.size : g > func => f <= g
    BY <1>4
  <1>6. QED
    BY <1>5 DEF Locations!NextFunction

(* Where the walk is, when it is at a location.                            *)
LEMMA HereFacts ==
  ASSUME LocTypes, Locations!AtLocation
  PROVE  /\ func \in DOMAIN image.size /\ die = Locations!FindDwarfFunctionDie(func)
         /\ die \in DOMAIN image.dies /\ Locations!Die = Entry(die)
         /\ var \in DOMAIN Entry(die).vars /\ loc \in DOMAIN Entry(die).vars[var]
         /\ Locations!Loc = Entry(die).vars[var][loc]
         /\ Locations!Start(Entry(die)) \in Nat
         /\ Locations!Low = LowOf(Locations!Loc, Locations!Start(Entry(die)))
         /\ Locations!High = HighOf(Locations!Loc, Locations!Start(Entry(die)), image.size[func])
         /\ Locations!Low \in Nat /\ Locations!High \in Nat /\ Locations!Low <= Locations!High
  <1>1. die # 0 /\ ~ (var > Len(Locations!Die.vars)) /\ loc <= Len(Locations!Die.vars[var])
    BY DEF Locations!AtLocation, Locations!Idle
  <1>2. /\ func \in DOMAIN image.size /\ die = Locations!FindDwarfFunctionDie(func)
        /\ die \in DOMAIN image.dies
    BY <1>1, FoundEntry DEF LocTypes
  <1>3. Locations!Die = Entry(die) /\ Locations!EntryType(Entry(die))
    BY <1>2, ImageFacts DEF Locations!Die, Entry
  <1>4. var \in DOMAIN Entry(die).vars /\ loc \in DOMAIN Entry(die).vars[var]
    BY <1>1, <1>3 DEF Locations!EntryType, Locations!IsList, LocTypes
  <1>5. Locations!Loc = Entry(die).vars[var][loc] /\ Locations!LocationType(Locations!Loc)
    BY <1>3, <1>4 DEF Locations!Loc, Locations!EntryType
  <1>6. Locations!Start(Entry(die)) \in Nat /\ image.size[func] \in Nat
    BY <1>2, StartType, ImageFacts
  <1>7. /\ Locations!Low = LowOf(Locations!Loc, Locations!Start(Entry(die)))
        /\ Locations!High = HighOf(Locations!Loc, Locations!Start(Entry(die)), image.size[func])
    BY <1>3 DEF Locations!Low, Locations!High, LowOf, HighOf
  <1>8. Locations!Low \in Nat /\ Locations!High \in Nat /\ Locations!Low <= Locations!High
    BY <1>5, <1>6, <1>7 DEF LowOf, HighOf, Locations!LocationType
  <1>9. QED
    BY <1>2, <1>3, <1>4, <1>5, <1>6, <1>7, <1>8

(* What depends on the image alone.                                        *)
LEMMA SameImage ==
  ASSUME UNCHANGED <<arch, image>>
  PROVE  /\ \A f : Locations!FindDwarfFunctionDie(f)' = Locations!FindDwarfFunctionDie(f)
         /\ \A i : Entry(i)' = Entry(i)
         /\ \A r : RecordRight(r)' = RecordRight(r)
         /\ \A l : Locations!Understood(l)' = Locations!Understood(l)
  <1>1. \A f : Locations!FindDwarfFunctionDie(f)' = Locations!FindDwarfFunctionDie(f)
    BY DEF Locations!FindDwarfFunctionDie
  <1>2. \A i : Entry(i)' = Entry(i)
    BY DEF Entry
  <1>3. \A r : RecordRight(r)' = RecordRight(r)
    BY <1>1, <1>2 DEF RecordRight
  <1>4. \A l : Locations!Understood(l)' = Locations!Understood(l)
    BY DEF Locations!Understood
  <1>5. QED
    BY <1>1, <1>2, <1>3, <1>4

(* A step to the next location: what was passed before stays complete, so  *)
(* that only the location left behind is in question.                      *)
LEMMA NextLocation ==
  ASSUME LocInv, Locations!AtLocation,
         loc' = loc + 1, UNCHANGED <<arch, image, func, die, var>>,
         out \subseteq out', \A r \in out' \ out : RecordRight(r),
         LET s == Locations!Start(Entry(die))
             e == Locations!Loc
         IN  /\ Locations!Understood(e) /\ s \in image.named /\ LowOf(e, s) >= s
             /\ LowOf(e, s) # HighOf(e, s, image.size[func])
             => \E r \in out' : r.func = func /\ r.die = die /\ r.var = var /\ r.loc = loc
  PROVE  LocInv'
  <1>1. LocTypes /\ LocTypes' /\ loc \in Nat /\ var \in Nat
    BY SameImage DEF LocInv, LocTypes
  <1>2. \A r \in out' : RecordRight(r)'
    BY SameImage DEF LocInv
  <1>3. \A r \in out : r \in out'
    OBVIOUS
  <1>4. Complete'
    <2> SUFFICES ASSUME NEW f \in DOMAIN image.size, NEW i \in DOMAIN image.dies,
                        i = Locations!FindDwarfFunctionDie(f),
                        NEW v \in DOMAIN Entry(i).vars, NEW l \in DOMAIN Entry(i).vars[v],
                        Passed(f, v, l)', Locations!Understood(Entry(i).vars[v][l]),
                        Locations!Start(Entry(i)) \in image.named,
                        LowOf(Entry(i).vars[v][l], Locations!Start(Entry(i)))
                          >= Locations!Start(Entry(i)),
                        LowOf(Entry(i).vars[v][l], Locations!Start(Entry(i)))
                          # HighOf(Entry(i).vars[v][l], Locations!Start(Entry(i)), image.size[f])
                 PROVE  \E r \in out' : r.func = f /\ r.die = i /\ r.var = v /\ r.loc = l
      BY SameImage DEF Complete
    <2>1. v \in Nat /\ l \in Nat
      BY <1>1, LocationFacts
    <2>2. Passed(f, v, l) \/ (f = func /\ v = var /\ l = loc)
      BY <1>1, <2>1 DEF Passed
    <2>3. CASE Passed(f, v, l)
      BY <2>3, <1>3 DEF LocInv, Complete
    <2>4. CASE f = func /\ v = var /\ l = loc
      BY <2>4, <1>1, HereFacts
    <2>5. QED
      BY <2>2, <2>3, <2>4
  <1>5. QED
    BY <1>1, <1>2, <1>4 DEF LocInv

(* A record that is emitted is right, and is the one its location calls    *)
(* for.                                                                    *)
LEMMA EmitInv ==
  ASSUME LocInv, Locations!Located, NEW kind, NEW reg, Locations!Emit(kind, reg),
         kind \in {"register", "framepointer_rel", "register_rel"},
         reg \in Locations!Mapped(arch) \cup {Locations!NoRegister}
  PROVE  LocInv'
  <1> DEFINE s == Locations!Start(Entry(die))
             r == [func |-> func, die |-> die, var |-> var, loc |-> loc,
                   kind |-> kind, reg |-> reg,
                   symbol |-> Locations!FuncName(Locations!Start(Locations!Die)),
                   offset |-> Locations!Low - Locations!Start(Locations!Die),
                   len |-> Locations!High - Locations!Low]
  <1>1. Locations!AtLocation /\ LocTypes
    BY DEF Locations!Located, LocInv
  <1>2. s \in image.named /\ Locations!FuncName(s) = s /\ Locations!Low >= s
    BY <1>1, HereFacts DEF Locations!Located, Locations!FuncName
  <1>3. /\ out' = IF Locations!High = Locations!Low THEN out ELSE out \cup {r}
        /\ loc' = loc + 1 /\ UNCHANGED <<arch, image, func, die, var>>
    BY DEF Locations!Emit
  <1>4. Locations!High # Locations!Low => RecordRight(r)
    BY <1>1, <1>2, HereFacts DEF RecordRight
  <1>5. r.func = func /\ r.die = die /\ r.var = var /\ r.loc = loc
    OBVIOUS
  <1>6. /\ Locations!Low = LowOf(Locations!Loc, s)
        /\ Locations!High = HighOf(Locations!Loc, s, image.size[func])
    BY <1>1, HereFacts
  <1> HIDE DEF r, s
  <1>7. Locations!High # Locations!Low =>
          \E q \in out' : q.func = func /\ q.die = die /\ q.var = var /\ q.loc = loc
    BY <1>3, <1>5
  <1>8. out \subseteq out' /\ \A q \in out' \ out : RecordRight(q)
    BY <1>3, <1>4
  <1>9. QED
    BY <1>1, <1>3, <1>6, <1>7, <1>8, NextLocation DEF s

(* A location that is left out is one the properties except.               *)
LEMMA OmitInv ==
  ASSUME LocInv, Locations!OmitRange
  PROVE  LocInv'
  <1> DEFINE s == Locations!Start(Entry(die))
  <1>1. Locations!AtLocation /\ LocTypes /\ out' = out /\ loc' = loc + 1
        /\ UNCHANGED <<arch, image, func, die, var>>
    BY DEF Locations!OmitRange, LocInv
  <1>2. s \in Nat /\ Locations!Low = LowOf(Locations!Loc, s) /\ Locations!Die = Entry(die)
        /\ Locations!Loc = Entry(die).vars[var][loc] /\ Locations!LocationType(Locations!Loc)
    BY <1>1, HereFacts, LocationFacts
  <1>3. Locations!Understood(Locations!Loc) /\ s \in image.named /\ LowOf(Locations!Loc, s) >= s
        => FALSE
    <2> SUFFICES ASSUME Locations!Understood(Locations!Loc), s \in image.named,
                        LowOf(Locations!Loc, s) >= s
                 PROVE  FALSE
      OBVIOUS
    <2>1. Locations!Located
      BY <1>1, <1>2 DEF Locations!Located, Locations!FuncName, Locations!NoSymbol
    <2>2. Locations!Loc.op = "breg" /\ Locations!CvRegister = Locations!NoRegister
      BY <2>1 DEF Locations!OmitRange, Locations!Understood
    <2>3. Locations!Loc.reg \in Locations!Mapped(arch) /\ Locations!Loc.reg \in Nat
      BY <2>2, <1>2 DEF Locations!Understood, Locations!LocationType
    <2>4. QED
      BY <2>2, <2>3 DEF Locations!CvRegister, Locations!NoRegister
  <1> HIDE DEF s
  <1>4. QED
    BY <1>1, <1>3, NextLocation DEF s

(* The next function: all variables of the one before were passed.         *)
LEMMA BeginFunctionInv ==
  ASSUME LocInv, Locations!BeginFunction
  PROVE  LocInv'
  <1>1. /\ LocTypes /\ Locations!Idle /\ func' = Locations!NextFunction
        /\ die' = Locations!FindDwarfFunctionDie(func)' /\ var' = 1 /\ loc' = 1
        /\ UNCHANGED <<arch, image, out>>
    BY DEF LocInv, Locations!BeginFunction, Locations!FindDwarfFunctionDie
  <1>2. /\ func' \in DOMAIN image.size /\ func' > func
        /\ \A g \in DOMAIN image.size : g > func => func' <= g
    BY <1>1, NextOfTable DEF Locations!BeginFunction
  <1>3. func \in Int /\ func' \in Nat /\ DOMAIN image.size \subseteq Nat
        /\ Locations!NoSymbol \notin Nat
    BY <1>1, <1>2, ImageFacts DEF LocTypes, Locations!NoSymbol
  <1>4. LocTypes'
    <2>1. func' # Locations!NoSymbol
      BY <1>3
    <2>2. QED
      BY <1>1, <1>2, <2>1 DEF LocTypes
  <1>5. \A r \in out' : RecordRight(r)'
    BY <1>1, SameImage DEF LocInv
  <1>6. Complete'
    <2> SUFFICES ASSUME NEW f \in DOMAIN image.size, NEW i \in DOMAIN image.dies,
                        i = Locations!FindDwarfFunctionDie(f),
                        NEW v \in DOMAIN Entry(i).vars, NEW l \in DOMAIN Entry(i).vars[v],
                        Passed(f, v, l)', Locations!Understood(Entry(i).vars[v][l]),
                        Locations!Start(Entry(i)) \in image.named,
                        LowOf(Entry(i).vars[v][l], Locations!Start(Entry(i)))
                          >= Locations!Start(Entry(i)),
                        LowOf(Entry(i).vars[v][l], Locations!Start(Entry(i)))
                          # HighOf(Entry(i).vars[v][l], Locations!Start(Entry(i)), image.size[f])
                 PROVE  \E r \in out : r.func = f /\ r.die = i /\ r.var = v /\ r.loc = l
      BY <1>1, SameImage DEF Complete
    <2>1. v \in 1 .. Len(Entry(i).vars) /\ l \in Nat \ {0} /\ Len(Entry(i).vars) \in Nat
      BY <1>1, LocationFacts
    <2>2. f < func'
      BY <1>1, <2>1 DEF Passed
    <2>3. f <= func
      BY <1>2, <1>3, <2>2
    <2>4. CASE f < func
      BY <2>4 DEF LocInv, Complete, Passed
    <2>5. CASE f = func
      <3>1. die = i /\ die # 0 /\ Locations!Die = Entry(i)
        <4>1. func # Locations!NoSymbol
          BY <2>5, <1>3
        <4>2. die = i
          BY <1>1, <2>5, <4>1 DEF LocTypes
        <4>3. QED
          BY <4>2, <1>1, ImageFacts DEF Locations!Die, Entry
      <3>2. var > Len(Entry(i).vars) /\ var \in Nat
        BY <1>1, <3>1 DEF Locations!Idle, LocTypes
      <3>3. Passed(f, v, l)
        BY <2>1, <2>5, <3>2 DEF Passed
      <3>4. QED
        BY <3>3 DEF LocInv, Complete
    <2>6. QED
      BY <1>3, <2>3, <2>4, <2>5
  <1>7. QED
    BY <1>4, <1>5, <1>6 DEF LocInv

(* Going on to the next location or variable leaves none behind.           *)
LEMMA NextVariableInv ==
  ASSUME LocInv, Locations!NextVariable
  PROVE  LocInv'
  <1>1. /\ LocTypes /\ ~ Locations!Idle /\ ~ Locations!AtLocation /\ var' = var + 1 /\ loc' = 1
        /\ UNCHANGED <<arch, image, func, die, out>> /\ loc \in Nat /\ var \in Nat
    BY DEF LocInv, LocTypes, Locations!NextVariable
  <1>2. LocTypes'
    BY <1>1, SameImage DEF LocTypes
  <1>3. \A r \in out' : RecordRight(r)'
    BY <1>1, SameImage DEF LocInv
  <1>4. Complete'
    <2> SUFFICES ASSUME NEW f \in DOMAIN image.size, NEW i \in DOMAIN image.dies,
                        i = Locations!FindDwarfFunctionDie(f),
                        NEW v \in DOMAIN Entry(i).vars, NEW l \in DOMAIN Entry(i).vars[v],
                        Passed(f, v, l)', Locations!Understood(Entry(i).vars[v][l]),
                        Locations!Start(Entry(i)) \in image.named,
                        LowOf(Entry(i).vars[v][l], Locations!Start(Entry(i)))
                          >= Locations!Start(Entry(i)),
                        LowOf(Entry(i).vars[v][l], Locations!Start(Entry(i)))
                          # HighOf(Entry(i).vars[v][l], Locations!Start(Entry(i)), image.size[f])
                 PROVE  \E r \in out : r.func = f /\ r.die = i /\ r.var = v /\ r.loc = l
      BY <1>1, SameImage DEF Complete
    <2>1. v \in Nat /\ l \in 1 .. Len(Entry(i).vars[v]) /\ Len(Entry(i).vars[v]) \in Nat
      BY <1>1, LocationFacts
    <2>2. f < func \/ (f = func /\ (v < var \/ v = var))
      BY <1>1, <2>1 DEF Passed
    <2>3. CASE f = func /\ v = var
      <3>1. die = i /\ Locations!Die = Entry(i)
        <4>1. func # Locations!NoSymbol
          BY <2>3, <1>1, ImageFacts DEF Locations!NoSymbol
        <4>2. QED
          BY <4>1, <1>1, <2>3 DEF LocTypes, Locations!Die, Entry
      <3>2. ~ (loc <= Len(Entry(i).vars[v]))
        BY <1>1, <2>3, <3>1 DEF Locations!AtLocation
      <3>3. Passed(f, v, l)
        BY <1>1, <2>1, <2>3, <3>2 DEF Passed
      <3>4. QED
        BY <3>3 DEF LocInv, Complete
    <2>4. CASE f < func \/ (f = func /\ v < var)
      BY <2>4 DEF LocInv, Complete, Passed
    <2>5. QED
      BY <2>2, <2>3, <2>4
  <1>5. QED
    BY <1>2, <1>3, <1>4 DEF LocInv

(* Before the first symbol there is nothing to locate.                     *)
LEMMA LocationsInit == Locations!Init => LocInv
  <1> SUFFICES ASSUME Locations!Init PROVE LocInv
    OBVIOUS
  <1>1. LocTypes
    BY DEF Locations!Init, LocTypes
  <1>2. Complete
    <2>1. ASSUME NEW f \in DOMAIN image.size PROVE ~ (f < func) /\ f # func
      <3>1. f \in Nat /\ func = -1
        BY <1>1, ImageFacts DEF Locations!Init, Locations!NoSymbol
      <3>2. QED
        BY <3>1
    <2>2. QED
      BY <2>1 DEF Complete, Passed
  <1>3. QED
    BY <1>1, <1>2 DEF Locations!Init, LocInv

(* Every step of the variables' locations keeps their invariant.           *)
LEMMA LocationsNext ==
  ASSUME LocInv, Locations!Next
  PROVE  LocInv'
  <1>1. CASE Locations!BeginFunction
    BY <1>1, BeginFunctionInv
  <1>2. LocTypes
    BY DEF LocInv
  <1>3. Locations!CvRegister \in Locations!Mapped(arch) \cup {Locations!NoRegister}
    BY DEF Locations!CvRegister
  <1>4. CASE Locations!EmitRegister
    BY <1>3, <1>4, EmitInv DEF Locations!EmitRegister
  <1>5. CASE Locations!EmitFramePointerRel
    BY <1>5, EmitInv DEF Locations!EmitFramePointerRel
  <1>6. CASE Locations!EmitRegisterRel
    BY <1>3, <1>6, EmitInv DEF Locations!EmitRegisterRel
  <1>7. CASE Locations!OmitRange
    BY <1>7, OmitInv
  <1>8. CASE Locations!NextVariable
    BY <1>8, NextVariableInv
  <1>9. QED
    BY <1>1, <1>4, <1>5, <1>6, <1>7, <1>8 DEF Locations!Next

(* The locations stay while another part is run.                           *)
LEMMA LocInvStays ==
  ASSUME LocInv, UNCHANGED <<location_vars, func>>
  PROVE  LocInv'
  <1>1. UNCHANGED <<arch, image, func, die, var, loc, out>>
    BY DEF location_vars
  <1>2. LocTypes' /\ \A r \in out' : RecordRight(r)'
    BY <1>1, SameImage DEF LocInv, LocTypes
  <1>3. \A f, v, l : Passed(f, v, l)' = Passed(f, v, l)
    BY <1>1 DEF Passed
  <1>4. Complete'
    BY <1>1, <1>3, SameImage DEF LocInv, Complete
  <1>5. QED
    BY <1>2, <1>4 DEF LocInv

(* The place of a location, in numbers.                                    *)
LEMMA PlaceType ==
  ASSUME NEW l, Locations!LocationType(l), NEW s \in Nat, NEW n \in Nat
  PROVE  LowOf(l, s) \in Nat /\ HighOf(l, s, n) \in Nat /\ LowOf(l, s) <= HighOf(l, s, n)
  <1>1. CASE l.range = Locations!Everywhere
    BY <1>1 DEF LowOf, HighOf
  <1>2. CASE l.range # Locations!Everywhere
    <2>1. l.range \in Nat \X Nat /\ l.range[1] <= l.range[2]
      BY <1>2 DEF Locations!LocationType
    <2>2. l.range[1] \in Nat /\ l.range[2] \in Nat
      BY <2>1
    <2>3. LowOf(l, s) = l.range[1] /\ HighOf(l, s, n) = l.range[2]
      BY <1>2 DEF LowOf, HighOf
    <2>4. QED
      BY <2>1, <2>2, <2>3
  <1>3. QED
    BY <1>1, <1>2

(* A record's code is that of its location.                                *)
LEMMA CodeOfRecord ==
  ASSUME LocInv, NEW r \in out
  PROVE  /\ Locations!LocOf(r) = Entry(r.die).vars[r.var][r.loc]
         /\ Locations!CodeOf(r) =
              LowOf(Locations!LocOf(r), Locations!Start(Entry(r.die))) ..
              HighOf(Locations!LocOf(r), Locations!Start(Entry(r.die)), image.size[r.func]) - 1
  <1> DEFINE s == Locations!Start(Entry(r.die))
             l == Entry(r.die).vars[r.var][r.loc]
  <1>1. RecordRight(r) /\ LocTypes
    BY DEF LocInv
  <1>2. s \in Nat /\ Locations!LocationType(l) /\ image.size[r.func] \in Nat
    BY <1>1, StartType, LocationFacts, ImageFacts DEF RecordRight
  <1>3. LowOf(l, s) \in Nat /\ HighOf(l, s, image.size[r.func]) \in Nat
    BY <1>2, PlaceType
  <1>4. /\ r.symbol = s /\ r.offset = LowOf(l, s) - s
        /\ r.len = HighOf(l, s, image.size[r.func]) - LowOf(l, s)
    BY <1>1 DEF RecordRight
  <1>5. Locations!LocOf(r) = l
    BY DEF Locations!LocOf, Entry
  <1> HIDE DEF s, l
  <1>6. /\ r.symbol + r.offset = LowOf(l, s)
        /\ r.symbol + r.offset + r.len = HighOf(l, s, image.size[r.func])
    BY <1>2, <1>3, <1>4
  <1>7. Locations!CodeOf(r) = LowOf(l, s) .. HighOf(l, s, image.size[r.func]) - 1
    BY <1>2, <1>3, <1>4, <1>6 DEF Locations!CodeOf
  <1>8. QED
    BY <1>5, <1>7 DEF s, l

(* What a compiler guarantees of the entries of an image.                  *)
LEMMA CompiledFacts ==
  ASSUME LocTypes, NEW i \in DOMAIN image.dies
  PROVE  /\ 0 \notin image.named
         /\ \A k \in DOMAIN Entry(i).ranges :
              Entry(i).ranges[k][1] \in image.named =>
                Entry(i).ranges[k][2] = Entry(i).ranges[k][1] + image.size[Entry(i).ranges[k][1]]
         /\ \A v \in DOMAIN Entry(i).vars : \A l \in DOMAIN Entry(i).vars[v] :
              Entry(i).vars[v][l].range # Locations!Everywhere =>
                \E k \in DOMAIN Entry(i).ranges :
                  /\ Entry(i).ranges[k][1] <= Entry(i).vars[v][l].range[1]
                  /\ Entry(i).vars[v][l].range[2] <= Entry(i).ranges[k][2]
         /\ \A k \in DOMAIN Entry(i).ranges : Entry(i).ranges[k] \in Nat \X Nat
  <1>1. Locations!Compiled(image) /\ Locations!EntryType(Entry(i))
    BY CompiledAssumption, ImageFacts DEF LocTypes
  <1>2. \A k \in DOMAIN Entry(i).ranges : Entry(i).ranges[k] \in Nat \X Nat
    BY <1>1 DEF Locations!EntryType
  <1>3. 0 \notin image.named
    BY <1>1 DEF Locations!Compiled
  <1>4. \A k \in DOMAIN Entry(i).ranges :
          Entry(i).ranges[k][1] \in image.named =>
            Entry(i).ranges[k][2] = Entry(i).ranges[k][1] + image.size[Entry(i).ranges[k][1]]
    BY <1>1 DEF Locations!Compiled, Entry
  <1>5. \A v \in DOMAIN Entry(i).vars : \A l \in DOMAIN Entry(i).vars[v] :
          Entry(i).vars[v][l].range # Locations!Everywhere =>
            \E k \in DOMAIN Entry(i).ranges :
              /\ Entry(i).ranges[k][1] <= Entry(i).vars[v][l].range[1]
              /\ Entry(i).vars[v][l].range[2] <= Entry(i).ranges[k][2]
    BY <1>1 DEF Locations!Compiled, Entry
  <1>6. QED
    BY <1>2, <1>3, <1>4, <1>5

(* The start of an entry that has a name is where its first range begins.  *)
LEMMA StartOfRanges ==
  ASSUME LocTypes, NEW i \in DOMAIN image.dies, Locations!Start(Entry(i)) \in image.named
  PROVE  /\ Entry(i).ranges # << >> /\ 1 \in DOMAIN Entry(i).ranges
         /\ Entry(i).ranges[1][1] = Locations!Start(Entry(i))
         /\ Locations!IsOf(Entry(i), Locations!Start(Entry(i)))
  <1>1. Locations!EntryType(Entry(i)) /\ Locations!Start(Entry(i)) # 0
    BY ImageFacts, CompiledFacts
  <1>2. Entry(i).ranges # << >> => 1 \in DOMAIN Entry(i).ranges
    BY <1>1 DEF Locations!EntryType
  <1>3. Entry(i).ranges # << >> /\ Entry(i).ranges[1][1] = Locations!Start(Entry(i))
    BY <1>1 DEF Locations!EntryType, Locations!Start, Locations!NoPc
  <1>4. QED
    BY <1>1, <1>2, <1>3 DEF Locations!EntryType, Locations!IsOf, Locations!Start, Locations!NoPc

(* The types of the walk over functions, variables and locations.          *)
LEMMA LocationsType == LocInv => Locations!TypeOK
  <1> SUFFICES ASSUME LocInv PROVE Locations!TypeOK
    OBVIOUS
  <1>1. LocTypes /\ \A r \in out : RecordRight(r)
    BY DEF LocInv
  <1>2. Locations!ImageType(image)
    BY <1>1, ImagesAssumption DEF LocTypes
  <1>3. die \in 0 .. Len(image.dies)
    <2>1. Len(image.dies) \in Nat /\ DOMAIN image.dies = 1 .. Len(image.dies)
      BY <1>2 DEF Locations!ImageType, Locations!IsList
    <2>2. die = 0 \/ die \in DOMAIN image.dies
      BY <1>1, FoundEntry DEF LocTypes
    <2>3. QED
      BY <2>1, <2>2
  <1>4. ASSUME NEW r \in out
        PROVE  r.symbol \in image.named /\ r.offset \in Nat /\ r.len \in Nat \ {0}
    <2> DEFINE s == Locations!Start(Entry(r.die))
               l == Entry(r.die).vars[r.var][r.loc]
               n == image.size[r.func]
    <2>1. s \in Nat /\ Locations!LocationType(l) /\ n \in Nat
      BY <1>1, StartType, LocationFacts, ImageFacts DEF RecordRight
    <2>2. LowOf(l, s) \in Nat /\ HighOf(l, s, n) \in Nat /\ LowOf(l, s) <= HighOf(l, s, n)
      BY <2>1, PlaceType
    <2>3. /\ s \in image.named /\ LowOf(l, s) >= s /\ LowOf(l, s) # HighOf(l, s, n)
          /\ r.symbol = s /\ r.offset = LowOf(l, s) - s /\ r.len = HighOf(l, s, n) - LowOf(l, s)
      BY <1>1 DEF RecordRight
    <2> HIDE DEF s, l, n
    <2>4. QED
      BY <2>1, <2>2, <2>3
  <1>5. \A r \in out :
          /\ r.func \in DOMAIN image.size
          /\ r.kind \in {"register", "framepointer_rel", "register_rel"}
          /\ r.reg \in Locations!Mapped(arch) \cup {Locations!NoRegister}
    BY <1>1 DEF RecordRight
  <1>6. QED
    BY <1>1, <1>2, <1>3, <1>4, <1>5 DEF Locations!TypeOK, LocTypes

(* RecordsWhereLocated, from the invariant: every record is in the         *)
(* function of the symbol it was found by, and the symbol it names is the  *)
(* one of the first part of its entry.                                     *)
LEMMA LocatedRight == LocInv => Locations!RecordsWhereLocated
  <1> SUFFICES ASSUME LocInv, NEW r \in out
               PROVE  LET range == Locations!LocOf(r).range
                          parts == image.dies[r.die].ranges
                          first == parts[1][1] .. parts[1][2] - 1
                      IN  /\ range # Locations!Everywhere =>
                               Locations!CodeOf(r) = range[1] .. range[2] - 1
                          /\ range = Locations!Everywhere =>
                               /\ r.func = parts[1][1] => Locations!CodeOf(r) = first
                               /\ image.size[r.func] <= image.size[r.symbol] =>
                                    Locations!CodeOf(r) \subseteq first
                          /\ Len(parts) = 1 =>
                               Locations!CodeOf(r) \subseteq r.func .. r.func + image.size[r.func] - 1
    BY Zenon DEF Locations!RecordsWhereLocated
  <1> DEFINE d == Entry(r.die)
             s == Locations!Start(d)
             l == Locations!LocOf(r)
             first == d.ranges[1][1] .. d.ranges[1][2] - 1
  <1>1. RecordRight(r) /\ LocTypes /\ d = image.dies[r.die]
    BY DEF LocInv, Entry
  <1>2. /\ l = d.vars[r.var][r.loc] /\ Locations!LocationType(l)
        /\ Locations!CodeOf(r) = LowOf(l, s) .. HighOf(l, s, image.size[r.func]) - 1
    BY <1>1, CodeOfRecord, LocationFacts DEF RecordRight
  <1>3. /\ r.die \in DOMAIN image.dies /\ s \in Nat /\ s \in image.named /\ r.symbol = s
        /\ r.func \in DOMAIN image.size /\ image.size[r.func] \in Nat
        /\ s \in DOMAIN image.size /\ image.size[s] \in Nat
    BY <1>1, StartType, ImageFacts DEF RecordRight
  <1>4. ASSUME l.range # Locations!Everywhere
        PROVE  Locations!CodeOf(r) = l.range[1] .. l.range[2] - 1
    BY <1>2, <1>4 DEF LowOf, HighOf
  <1>5. d.ranges[1][1] = s /\ d.ranges[1][2] = s + image.size[s]
    <2>1. \A k \in DOMAIN d.ranges :
            d.ranges[k][1] \in image.named =>
              d.ranges[k][2] = d.ranges[k][1] + image.size[d.ranges[k][1]]
      BY <1>1, <1>3, CompiledFacts
    <2>2. 1 \in DOMAIN d.ranges /\ d.ranges[1][1] = s
      BY <1>1, <1>3, StartOfRanges
    <2>3. QED
      BY <2>1, <2>2, <1>3
  <1>6. ASSUME l.range = Locations!Everywhere
        PROVE  /\ r.func = d.ranges[1][1] => Locations!CodeOf(r) = first
               /\ image.size[r.func] <= image.size[r.symbol] => Locations!CodeOf(r) \subseteq first
    <2>1. first = s .. s + image.size[s] - 1
      <3>1. PICK a, b : a = d.ranges[1][1] /\ b = d.ranges[1][2]
        OBVIOUS
      <3>2. a = s /\ b = s + image.size[s]
        BY <1>5, <3>1
      <3>3. first = a .. b - 1
        BY <3>1
      <3> HIDE DEF first, s
      <3>4. QED
        BY <1>3, <3>2, <3>3
    <2>6. \A x : LowOf(l, x) = x /\ \A n : HighOf(l, x, n) = x + n
      BY <1>6, Zenon DEF LowOf, HighOf
    <2> HIDE DEF s, l, d, first
    <2>2. Locations!CodeOf(r) = s .. s + image.size[r.func] - 1
      <3>1. LowOf(l, s) = s /\ HighOf(l, s, image.size[r.func]) = s + image.size[r.func]
        BY <2>6
      <3>2. QED
        BY <1>2, <1>3, <3>1
    <2>3. r.func = s => Locations!CodeOf(r) = first
      BY <2>1, <2>2
    <2>4. image.size[r.func] <= image.size[s] => Locations!CodeOf(r) \subseteq first
      BY <1>3, <2>1, <2>2
    <2>5. QED
      BY <1>3, <1>5, <2>3, <2>4
  <1>7. ASSUME Len(d.ranges) = 1
        PROVE  Locations!CodeOf(r) \subseteq r.func .. r.func + image.size[r.func] - 1
    <2>1. /\ d.ranges \in Seq(Nat \X Nat) /\ d.ranges[1] \in Nat \X Nat /\ d.ranges[1][1] = s
          /\ DOMAIN d.ranges = {1}
      <3>1. Locations!EntryType(d)
        BY <1>3, ImageFacts, <1>1
      <3>2. d.ranges \in Seq(Nat \X Nat)
        BY <3>1 DEF Locations!EntryType
      <3>3. DOMAIN d.ranges = 1 .. 1
        BY <3>2, <1>7
      <3>4. QED
        BY <3>2, <3>3, <1>1, <1>3, StartOfRanges
    <2>2. d.ranges[1][2] = s + image.size[s]
      BY <1>5
    <2>3. r.func = s
      <3>1. Locations!IsOf(d, r.func)
        BY <1>1, <1>3, FoundEntry, ImageFacts DEF RecordRight
      <3>2. d.low = r.func \/ (\E i \in DOMAIN d.ranges : d.ranges[i][1] = r.func)
        BY <3>1 DEF Locations!IsOf
      <3>3. d.low = r.func => d.ranges[1][1] = r.func
        <4>1. r.func # Locations!NoPc
          BY <1>1, <1>3, ImageFacts DEF Locations!NoPc
        <4>2. Locations!EntryType(d)
          BY <1>3, ImageFacts, <1>1
        <4>3. QED
          BY <4>1, <4>2 DEF Locations!EntryType
      <3>4. QED
        BY <2>1, <3>2, <3>3
    <2>4. s <= LowOf(l, s) /\ HighOf(l, s, image.size[s]) <= s + image.size[s]
          /\ LowOf(l, s) \in Nat /\ HighOf(l, s, image.size[s]) \in Nat
      <3>1. CASE l.range = Locations!Everywhere
        BY <3>1, <1>3, <2>3 DEF LowOf, HighOf
      <3>2. CASE l.range # Locations!Everywhere
        <4>1. PICK k \in DOMAIN d.ranges :
                d.ranges[k][1] <= l.range[1] /\ l.range[2] <= d.ranges[k][2]
          <5>1. r.var \in DOMAIN d.vars /\ r.loc \in DOMAIN d.vars[r.var]
            BY <1>1 DEF RecordRight
          <5>2. \A v \in DOMAIN d.vars : \A n \in DOMAIN d.vars[v] :
                  d.vars[v][n].range # Locations!Everywhere =>
                    \E k \in DOMAIN d.ranges :
                      /\ d.ranges[k][1] <= d.vars[v][n].range[1]
                      /\ d.vars[v][n].range[2] <= d.ranges[k][2]
            BY <1>1, <1>3, CompiledFacts
          <5>3. QED
            BY <1>2, <3>2, <5>1, <5>2
        <4>2. k = 1 /\ l.range \in Nat \X Nat
          BY <4>1, <2>1, <1>2, <3>2 DEF Locations!LocationType
        <4>3. QED
          BY <4>1, <4>2, <2>1, <2>2, <3>2 DEF LowOf, HighOf
      <3>3. QED
        BY <3>1, <3>2
    <2> HIDE DEF s, l, d
    <2>5. Locations!CodeOf(r) = LowOf(l, s) .. HighOf(l, s, image.size[s]) - 1
      BY <1>2, <2>3
    <2>6. LowOf(l, s) .. HighOf(l, s, image.size[s]) - 1 \subseteq s .. s + image.size[s] - 1
      BY <1>3, <2>3, <2>4
    <2>7. QED
      BY <2>3, <2>5, <2>6
  <1>8. QED
    BY <1>1, <1>4, <1>7, <1>6

(* VisibleInFunction, from the invariant: when a function is done, what    *)
(* its entry locates has been emitted or is excepted.                      *)
LEMMA VisibleRight == LocInv => Locations!VisibleInFunction
  <1> SUFFICES ASSUME LocInv, Locations!Done, NEW i \in DOMAIN image.dies,
                      Locations!Owner(i) # Locations!NoSymbol,
                      NEW v \in DOMAIN image.dies[i].vars,
                      NEW l \in DOMAIN image.dies[i].vars[v]
               PROVE  LET d == image.dies[i]
                          range == IF d.vars[v][l].range = Locations!Everywhere
                                     THEN d.ranges[1] ELSE d.vars[v][l].range
                          code  == range[1] .. range[2] - 1
                      IN  Locations!Understood(d.vars[v][l]) /\ range[1] >= Locations!Start(d) =>
                            code \subseteq UNION { Locations!CodeOf(r) :
                              r \in { q \in out : q.func = Locations!Owner(i) /\ q.die = i
                                                    /\ q.var = v /\ q.loc = l } }
    BY Zenon DEF Locations!VisibleInFunction
  <1> DEFINE d == Entry(i)
             s == Locations!Start(d)
             e == d.vars[v][l]
             range == IF e.range = Locations!Everywhere THEN d.ranges[1] ELSE e.range
  <1>1. LocTypes /\ d = image.dies[i] /\ v \in DOMAIN d.vars /\ l \in DOMAIN d.vars[v]
    BY DEF LocInv, Entry
  <1>2. /\ s \in image.named /\ Locations!Owner(i) = s
        /\ \A j \in 1 .. i - 1 : s \notin Locations!Starts(image.dies[j])
    BY <1>1 DEF Locations!Owner
  <1>3. /\ s \in Nat /\ s \in DOMAIN image.size /\ image.size[s] \in Nat
        /\ Locations!LocationType(e) /\ Locations!EntryType(d)
    BY <1>1, <1>2, StartType, ImageFacts, LocationFacts
  <1>4. i = Locations!FindDwarfFunctionDie(s)
    <2>1. Locations!IsOf(Entry(i), s)
      BY <1>1, <1>2, StartOfRanges
    <2>2. Locations!FindDwarfFunctionDie(s) \in DOMAIN image.dies
          /\ Locations!FindDwarfFunctionDie(s) <= i
          /\ Locations!IsOf(Entry(Locations!FindDwarfFunctionDie(s)), s)
      BY <1>1, <2>1, FoundEntry
    <2>3. ASSUME NEW j \in DOMAIN image.dies, j < i, Locations!IsOf(Entry(j), s)
          PROVE  FALSE
      <3>1. j \in 1 .. i - 1 /\ Locations!EntryType(Entry(j))
        BY <2>3, <1>1, ImageFacts
      <3>2. \E k \in DOMAIN Entry(j).ranges : Entry(j).ranges[k][1] = s
        <4>1. CASE Entry(j).low = s
          <5>1. Entry(j).low # Locations!NoPc
            BY <4>1, <1>3 DEF Locations!NoPc
          <5>2. Entry(j).ranges # << >> /\ Entry(j).ranges[1][1] = s
            BY <3>1, <4>1, <5>1 DEF Locations!EntryType
          <5>3. 1 \in DOMAIN Entry(j).ranges
            BY <3>1, <5>2 DEF Locations!EntryType
          <5>4. QED
            BY <5>2, <5>3
        <4>2. QED
          BY <4>1, <2>3 DEF Locations!IsOf
      <3>3. s \in Locations!Starts(image.dies[j])
        BY <3>2 DEF Locations!Starts, Entry
      <3>4. QED
        BY <3>1, <3>3, <1>2
    <2>4. QED
      BY <2>2, <2>3, <1>1, ImageFacts
  <1>5. Passed(s, v, l)
    <2>1. s <= func
      BY <1>3 DEF Locations!Done, Locations!NoMoreFunctions
    <2>2. CASE s = func
      <3>1. func # Locations!NoSymbol /\ die = i /\ die # 0 /\ Locations!Die = d
        BY <1>1, <1>3, <1>4, <2>2, ImageFacts DEF LocTypes, Locations!NoSymbol, Locations!Die
      <3>2. var > Len(d.vars) /\ var \in Nat
        BY <1>1, <3>1 DEF Locations!Done, Locations!Idle, LocTypes
      <3>3. v \in 1 .. Len(d.vars) /\ Len(d.vars) \in Nat
        BY <1>1, LocationFacts
      <3>4. QED
        BY <2>2, <3>2, <3>3 DEF Passed
    <2>3. CASE s # func
      <3>1. func \in Int
        BY <1>1, ImageFacts DEF LocTypes, Locations!NoSymbol
      <3>2. QED
        BY <1>3, <2>1, <2>3, <3>1 DEF Passed
    <2>4. QED
      BY <2>2, <2>3
  <1>6. range[1] = LowOf(e, s) /\ range[2] = HighOf(e, s, image.size[s])
        /\ LowOf(e, s) \in Nat /\ HighOf(e, s, image.size[s]) \in Nat
    <2>1. CASE e.range = Locations!Everywhere
      <3>1. 1 \in DOMAIN d.ranges /\ d.ranges[1][1] = s
        BY <1>1, <1>2, StartOfRanges
      <3>2. d.ranges[1][2] = s + image.size[s]
        BY <1>1, <1>2, <3>1, CompiledFacts
      <3>3. QED
        BY <2>1, <1>3, <3>1, <3>2 DEF LowOf, HighOf
    <2>2. CASE e.range # Locations!Everywhere
      BY <2>2, <1>3 DEF LowOf, HighOf, Locations!LocationType
    <2>3. QED
      BY <2>1, <2>2
  <1> HIDE DEF range
  <1>7. ASSUME Locations!Understood(e), range[1] >= s, NEW x \in range[1] .. range[2] - 1
        PROVE  x \in UNION { Locations!CodeOf(r) :
                 r \in { q \in out : q.func = s /\ q.die = i /\ q.var = v /\ q.loc = l } }
    <2>1. LowOf(e, s) # HighOf(e, s, image.size[s])
      BY <1>6, <1>7
    <2>2. PICK r \in out : r.func = s /\ r.die = i /\ r.var = v /\ r.loc = l
      <3>1. Passed(s, v, l) /\ Locations!Understood(e)
            /\ Locations!Start(d) \in image.named /\ LowOf(e, s) >= s
            /\ LowOf(e, s) # HighOf(e, s, image.size[s])
            => \E r \in out : r.func = s /\ r.die = i /\ r.var = v /\ r.loc = l
        BY <1>1, <1>3, <1>4 DEF LocInv, Complete
      <3>2. LowOf(e, s) >= s
        BY <1>6, <1>7
      <3>3. QED
        BY <3>1, <3>2, <1>2, <1>5, <1>7, <2>1
    <2>3. Locations!CodeOf(r) = range[1] .. range[2] - 1
      BY <1>6, <2>2, CodeOfRecord
    <2>4. QED
      BY <1>7, <2>2, <2>3
  <1>8. QED
    BY <1>1, <1>2, <1>7 DEF range, Entry

-----------------------------------------------------------------------------
(* SymbolRecords: the nesting of the records.                              *)

Dies         == Scopes!Dies
RecordType   == [kind: Scopes!Kinds, die: Dies, loc: Nat, declared: Nat, size: Nat]
FrameType    == [die: Dies, todo: SUBSET Dies]
HasScope(d)  == Scopes!HasScope(d)
After(o, r)  == Scopes!After(o, r)
LastOf(s)    == s[Len(s)]

(* The activations: each of a child of the one below it.                   *)
Activated(st) ==
  /\ st \in Seq(FrameType)
  /\ \A i \in 1 .. Len(st) :
       /\ st[i].todo \subseteq Scopes!Children(st[i].die)
       /\ i > 1 => program.up[st[i].die] = st[i - 1].die
       /\ \A j \in i + 1 .. Len(st) : st[i].die < st[j].die

(* What a reader of the records has open after each of them.               *)
Reads(f, recs) ==
  /\ f = [n \in 0 .. Len(recs) |-> f[n]] /\ f[0] = << >>
  /\ \A n \in 1 .. Len(recs) : f[n] = After(f[n - 1], recs[n])

(* The scopes of the activations up to each of them.                       *)
Within(o, a) == IF HasScope(a.die) THEN Append(o, a.die) ELSE o

Nests(g, st) ==
  /\ g = [n \in 0 .. Len(st) |-> g[n]] /\ g[0] = << >>
  /\ \A n \in 1 .. Len(st) : g[n] = Within(g[n - 1], st[n])

(* The scope s is the innermost around what entry e holds.                 *)
PathTo(s, e) ==
  /\ HasScope(s)
  /\ \E n \in 1 .. e : \E path \in [1 .. n -> Dies] :
       /\ path[1] = e /\ path[n] = s
       /\ \A i \in 1 .. n - 1 : ~ HasScope(path[i]) /\ program.up[path[i]] = path[i + 1]

(* Records and activations nest alike, and each variable is in its scope.  *)
NestedBy(f, g, recs, st) ==
  /\ Reads(f, recs) /\ Nests(g, st)
  /\ \A n \in 0 .. Len(recs) : f[n] \in Seq(Dies)
  /\ \A n \in 0 .. Len(st) : g[n] \in Seq(Dies)
  /\ f[Len(recs)] = g[Len(st)]
  /\ \A m \in 1 .. Len(st) : g[m] # << >> /\ PathTo(LastOf(g[m]), st[m].die)
  /\ \A i \in 1 .. Len(recs) : recs[i].kind = "local" =>
       f[i] # << >> /\ Scopes!IsScopeOf(LastOf(f[i]), recs[i].die)

(* Of the entries, V have been visited, each variable among them once.     *)
Numbered(V)       == { d \in V : program.tag[d] \in {"inlined", "opaque"} }
IsVariable(d)     == program.tag[d] = "variable"
LocalsIn(recs, d) == { i \in 1 .. Len(recs) : recs[i].kind = "local" /\ recs[i].die = d }

Reached(V, st, fn) ==
  /\ V \subseteq Dies
  /\ \A d \in Scopes!Functions : d \in V <=> d <= fn
  /\ \A d \in Dies \ Scopes!Functions :
       d \in V <=> program.up[d] \in V /\ \A i \in 1 .. Len(st) : d \notin st[i].todo
  /\ \A i \in 1 .. Len(st) : st[i].die \in V

Recorded(V, recs) ==
  \A d \in Dies : IsVariable(d) =>
    IF d \in V THEN \E i : LocalsIn(recs, d) = {i} ELSE LocalsIn(recs, d) = {}

(* A state of the walk, with what witnesses that it is right.              *)
Walk(V, f, g, recs, st, fn, n) ==
  /\ recs \in Seq(RecordType) /\ Activated(st) /\ fn \in Scopes!Functions \cup {0}
  /\ NestedBy(f, g, recs, st) /\ Reached(V, st, fn) /\ Recorded(V, recs)
  /\ n \in Nat /\ n <= Cardinality(Numbered(V))

ScopeInv ==
  /\ program \in Programs
  /\ site \in [Dies -> 0 .. Cardinality(Dies)]
  /\ \E recs, st, fn, n :
       /\ recs = records /\ st = stack /\ fn = func /\ n = inline_site_counter
       /\ \E V, f, g : Walk(V, f, g, recs, st, fn, n)

(* The types of a tree of entries, in which parents come first.            *)
LEMMA ProgramFacts ==
  ASSUME program \in Programs
  PROVE  /\ program.tag \in Seq(Scopes!Tags) /\ Dies = 1 .. Len(program.tag)
         /\ Len(program.tag) \in Nat /\ Dies \subseteq Nat \ {0}
         /\ Scopes!Functions \subseteq Dies
         /\ \A d \in Dies :
              /\ program.tag[d] \in Scopes!Tags /\ program.notes[d] \in Nat
              /\ program.locs[d] \in Seq(Nat)
              /\ IsVariable(d) => program.locs[d] # << >>
              /\ program.up[d] \in Nat /\ program.up[d] < d
              /\ program.up[d] = 0 <=> d \in Scopes!Functions
              /\ program.up[d] # 0 =>
                   /\ program.up[d] \in Dies
                   /\ program.tag[program.up[d]] \in {"function", "block", "inlined", "opaque"}
  <1>1. Scopes!ProgramType(program)
    BY ProgramsAssumption
  <1>2. program.tag \in Seq(Scopes!Tags)
    BY <1>1 DEF Scopes!ProgramType
  <1>3. Dies = 1 .. Len(program.tag) /\ Len(program.tag) \in Nat
    BY <1>2 DEF Dies, Scopes!Dies
  <1>4. ASSUME NEW d \in Dies
        PROVE  /\ program.tag[d] \in Scopes!Tags /\ program.notes[d] \in Nat
               /\ program.locs[d] \in Seq(Nat)
               /\ IsVariable(d) => program.locs[d] # << >>
               /\ program.up[d] \in Nat /\ program.up[d] < d
               /\ program.up[d] = 0 <=> d \in Scopes!Functions
               /\ program.up[d] # 0 =>
                    /\ program.up[d] \in Dies
                    /\ program.tag[program.up[d]] \in {"function", "block", "inlined", "opaque"}
    <2>1. /\ program.up[d] \in 0 .. d - 1
          /\ program.up[d] = 0 <=> program.tag[d] = "function"
          /\ program.up[d] # 0 =>
               program.tag[program.up[d]] \in {"function", "block", "inlined", "opaque"}
          /\ program.notes[d] \in Nat
          /\ program.locs[d] \in Seq(Nat)
          /\ IsVariable(d) => program.locs[d] # << >>
      BY <1>1, <1>4 DEF Scopes!ProgramType, Dies, Scopes!Dies, IsVariable
    <2>2. d \in 1 .. Len(program.tag) /\ program.tag[d] \in Scopes!Tags
      BY <1>2, <1>3
    <2>3. program.tag[d] = "function" <=> d \in Scopes!Functions
      BY DEF Scopes!Functions, Dies
    <2>4. QED
      BY <1>3, <2>1, <2>2, <2>3
  <1>5. QED
    BY <1>2, <1>3, <1>4 DEF Scopes!Functions, Dies

-----------------------------------------------------------------------------
(* Recursion over sequences has one solution, and one more element extends *)
(* it.                                                                     *)
LEMMA ReadsUnique ==
  ASSUME NEW recs, Len(recs) \in Nat, NEW f, Reads(f, recs), NEW g, Reads(g, recs)
  PROVE  f = g
  <1> DEFINE T == { n \in 0 .. Len(recs) : f[n] # g[n] }
  <1>1. /\ f[0] = << >> /\ g[0] = << >>
        /\ \A n \in 1 .. Len(recs) : f[n] = After(f[n - 1], recs[n])
        /\ \A n \in 1 .. Len(recs) : g[n] = After(g[n - 1], recs[n])
    BY DEF Reads
  <1>2. T = {}
    <2> SUFFICES ASSUME T # {} PROVE FALSE
      OBVIOUS
    <2>1. PICK n \in T : \A m \in T : n <= m
      <3>1. T \in SUBSET Nat
        OBVIOUS
      <3>2. QED
        BY <3>1, Least
    <2>2. n # 0 /\ n \in 1 .. Len(recs) /\ n - 1 \in 0 .. Len(recs) /\ n - 1 \notin T
      BY <1>1, <2>1
    <2>3. f[n - 1] = g[n - 1]
      BY <2>2
    <2>4. f[n] = g[n]
      BY <1>1, <2>2, <2>3
    <2>5. QED
      BY <2>1, <2>4
  <1>3. \A n \in 0 .. Len(recs) : f[n] = g[n]
    BY <1>2
  <1>4. f = [n \in 0 .. Len(recs) |-> f[n]] /\ g = [n \in 0 .. Len(recs) |-> g[n]]
    BY DEF Reads
  <1>5. QED
    BY <1>3, <1>4

(* The scopes of a stack of activations are determined by it.              *)
LEMMA NestsUnique ==
  ASSUME NEW st, Len(st) \in Nat, NEW f, Nests(f, st), NEW g, Nests(g, st)
  PROVE  f = g
  <1> DEFINE T == { n \in 0 .. Len(st) : f[n] # g[n] }
  <1>1. /\ f[0] = << >> /\ g[0] = << >>
        /\ \A n \in 1 .. Len(st) : f[n] = Within(f[n - 1], st[n])
        /\ \A n \in 1 .. Len(st) : g[n] = Within(g[n - 1], st[n])
    BY DEF Nests
  <1>2. T = {}
    <2> SUFFICES ASSUME T # {} PROVE FALSE
      OBVIOUS
    <2>1. PICK n \in T : \A m \in T : n <= m
      <3>1. T \in SUBSET Nat
        OBVIOUS
      <3>2. QED
        BY <3>1, Least
    <2>2. n # 0 /\ n \in 1 .. Len(st) /\ n - 1 \in 0 .. Len(st) /\ n - 1 \notin T
      BY <1>1, <2>1
    <2>3. f[n - 1] = g[n - 1]
      BY <2>2
    <2>4. f[n] = g[n]
      BY <1>1, <2>2, <2>3
    <2>5. QED
      BY <2>1, <2>4
  <1>3. \A n \in 0 .. Len(st) : f[n] = g[n]
    BY <1>2
  <1>4. f = [n \in 0 .. Len(st) |-> f[n]] /\ g = [n \in 0 .. Len(st) |-> g[n]]
    BY DEF Nests
  <1>5. QED
    BY <1>3, <1>4

(* A reader of one more record goes on from where it was.                  *)
LEMMA ReadMore ==
  ASSUME NEW R, NEW recs \in Seq(R), NEW r \in R, NEW f, Reads(f, recs)
  PROVE  \E h : /\ Reads(h, Append(recs, r))
                /\ \A n \in 0 .. Len(recs) : h[n] = f[n]
                /\ h[Len(recs) + 1] = After(f[Len(recs)], r)
  <1> DEFINE N == Len(recs)
             h == [n \in 0 .. N + 1 |-> IF n = N + 1 THEN After(f[N], r) ELSE f[n]]
  <1>1. N \in Nat /\ Len(Append(recs, r)) = N + 1
    OBVIOUS
  <1>2. /\ f[0] = << >>
        /\ \A n \in 1 .. N : f[n] = After(f[n - 1], recs[n])
    BY <1>1 DEF Reads
  <1>3. /\ \A n \in 0 .. N : h[n] = f[n]
        /\ h[N + 1] = After(f[N], r)
    BY <1>1
  <1>4. /\ Append(recs, r)[N + 1] = r
        /\ \A n \in 1 .. N : Append(recs, r)[n] = recs[n]
    BY <1>1
  <1>5. h = [n \in 0 .. N + 1 |-> h[n]]
    OBVIOUS
  <1> HIDE DEF h, N
  <1>6. ASSUME NEW n \in 1 .. N + 1
        PROVE  h[n] = After(h[n - 1], Append(recs, r)[n])
    <2>1. CASE n = N + 1
      <3>1. n # 0 /\ n - 1 = N /\ h[n - 1] = f[N]
        BY <1>1, <1>3, <2>1
      <3>2. QED
        BY <1>3, <1>4, <2>1, <3>1
    <2>2. CASE n \in 1 .. N
      <3>1. n # 0 /\ n - 1 \in 0 .. N /\ n \in 0 .. N
        BY <1>1, <2>2
      <3>2. QED
        BY <1>2, <1>3, <1>4, <2>2, <3>1
    <2>3. QED
      BY <1>1, <2>1, <2>2
  <1>7. Reads(h, Append(recs, r))
    <2>1. h[0] = << >>
      BY <1>1, <1>2, <1>3
    <2>2. QED
      BY <1>1, <1>5, <1>6, <2>1 DEF Reads
  <1>8. QED
    BY <1>3, <1>7 DEF N

(* One more activation is within the scopes of the others.                 *)
LEMMA NestMore ==
  ASSUME NEW R, NEW st \in Seq(R), NEW a \in R, NEW g, Nests(g, st)
  PROVE  \E h : /\ Nests(h, Append(st, a))
                /\ \A n \in 0 .. Len(st) : h[n] = g[n]
                /\ h[Len(st) + 1] = Within(g[Len(st)], a)
  <1> DEFINE N == Len(st)
             h == [n \in 0 .. N + 1 |-> IF n = N + 1 THEN Within(g[N], a) ELSE g[n]]
  <1>1. N \in Nat /\ Len(Append(st, a)) = N + 1
    OBVIOUS
  <1>2. /\ g[0] = << >>
        /\ \A n \in 1 .. N : g[n] = Within(g[n - 1], st[n])
    BY <1>1 DEF Nests
  <1>3. /\ \A n \in 0 .. N : h[n] = g[n]
        /\ h[N + 1] = Within(g[N], a)
    BY <1>1
  <1>4. /\ Append(st, a)[N + 1] = a
        /\ \A n \in 1 .. N : Append(st, a)[n] = st[n]
    BY <1>1
  <1>5. h = [n \in 0 .. N + 1 |-> h[n]]
    OBVIOUS
  <1> HIDE DEF h, N
  <1>6. ASSUME NEW n \in 1 .. N + 1
        PROVE  h[n] = Within(h[n - 1], Append(st, a)[n])
    <2>1. CASE n = N + 1
      <3>1. n # 0 /\ n - 1 = N /\ h[n - 1] = g[N]
        BY <1>1, <1>3, <2>1
      <3>2. QED
        BY <1>3, <1>4, <2>1, <3>1
    <2>2. CASE n \in 1 .. N
      <3>1. n # 0 /\ n - 1 \in 0 .. N /\ n \in 0 .. N
        BY <1>1, <2>2
      <3>2. QED
        BY <1>2, <1>3, <1>4, <2>2, <3>1
    <2>3. QED
      BY <1>1, <2>1, <2>2
  <1>7. Nests(h, Append(st, a))
    <2>1. h[0] = << >>
      BY <1>1, <1>2, <1>3
    <2>2. QED
      BY <1>1, <1>5, <1>6, <2>1 DEF Nests
  <1>8. QED
    BY <1>3, <1>7 DEF N

(* The nesting depends on the entries of the activations alone.            *)
LEMMA NestSame ==
  ASSUME NEW R, NEW st \in Seq(R), NEW q \in Seq(R), Len(q) = Len(st),
         \A n \in 1 .. Len(st) : q[n].die = st[n].die, NEW g, Nests(g, st)
  PROVE  Nests(g, q)
  BY DEF Nests, Within

(* An activation that returns leaves the scopes of the others.             *)
LEMMA NestLess ==
  ASSUME NEW R, NEW st \in Seq(R), st # << >>, NEW g, Nests(g, st)
  PROVE  \E h : /\ Nests(h, SubSeq(st, 1, Len(st) - 1))
                /\ \A n \in 0 .. Len(st) - 1 : h[n] = g[n]
  <1> DEFINE N == Len(st) - 1
             q == SubSeq(st, 1, N)
             h == [n \in 0 .. N |-> g[n]]
  <1>1. N \in Nat /\ Len(st) = N + 1 /\ Len(q) = N /\ \A n \in 1 .. N : q[n] = st[n]
    <2>1. Len(st) \in Nat /\ Len(st) # 0
      OBVIOUS
    <2>2. N \in Nat /\ Len(st) = N + 1
      BY <2>1
    <2>3. QED
      BY <2>2
  <1>2. \A n \in 0 .. N : h[n] = g[n]
    OBVIOUS
  <1>3. g[0] = << >> /\ \A n \in 1 .. N : g[n] = Within(g[n - 1], st[n])
    BY <1>1 DEF Nests
  <1>4. h = [n \in 0 .. N |-> h[n]]
    OBVIOUS
  <1> HIDE DEF h, q, N
  <1>5. ASSUME NEW n \in 1 .. N
        PROVE  h[n] = Within(h[n - 1], q[n])
    <2>1. n - 1 \in 0 .. N /\ n \in 0 .. N
      BY <1>1
    <2>2. QED
      BY <1>1, <1>2, <1>3, <2>1
  <1>6. Nests(h, q)
    <2>1. h[0] = << >>
      BY <1>1, <1>2, <1>3
    <2>2. QED
      BY <1>1, <1>4, <1>5, <2>1 DEF Nests
  <1>7. QED
    BY <1>1, <1>2, <1>6 DEF N, q

-----------------------------------------------------------------------------
(* Append and its inverses.                                                *)
LEMMA Appended ==
  ASSUME NEW S, NEW s \in Seq(S), NEW e \in S
  PROVE  /\ Append(s, e) \in Seq(S) /\ Append(s, e) # << >> /\ LastOf(Append(s, e)) = e
         /\ SubSeq(Append(s, e), 1, Len(Append(s, e)) - 1) = s
  <1>1. /\ Append(s, e) \in Seq(S) /\ Len(Append(s, e)) = Len(s) + 1 /\ Len(s) \in Nat
        /\ Append(s, e)[Len(s) + 1] = e /\ \A i \in 1 .. Len(s) : Append(s, e)[i] = s[i]
    OBVIOUS
  <1>2. SubSeq(Append(s, e), 1, Len(s)) = s
    OBVIOUS
  <1>3. Append(s, e) # << >>
    BY <1>1
  <1>4. QED
    BY <1>1, <1>2, <1>3 DEF LastOf

(* A way up the tree without a scope on it is a path.                      *)
LEMMA PathBy ==
  ASSUME NEW s, NEW e, HasScope(s), NEW n \in 1 .. e, NEW path \in [1 .. n -> Dies],
         path[1] = e, path[n] = s,
         \A i \in 1 .. n - 1 : ~ HasScope(path[i]) /\ program.up[path[i]] = path[i + 1]
  PROVE  PathTo(s, e)
  BY DEF PathTo

(* Each way records and activations grow keeps them nested.  A record that *)
(* neither opens nor closes a scope is in the innermost one.               *)
LEMMA RecordInScope ==
  ASSUME NEW recs \in Seq(RecordType), NEW st, NEW f, NEW g, NestedBy(f, g, recs, st),
         NEW r \in RecordType, r.kind \in {"frameproc", "local", "defrange"},
         r.kind = "local" =>
           g[Len(st)] # << >> /\ Scopes!IsScopeOf(LastOf(g[Len(st)]), r.die)
  PROVE  \E h : NestedBy(h, g, Append(recs, r), st)
  <1>1. PICK h : /\ Reads(h, Append(recs, r))
                 /\ \A n \in 0 .. Len(recs) : h[n] = f[n]
                 /\ h[Len(recs) + 1] = After(f[Len(recs)], r)
    BY ReadMore DEF NestedBy
  <1>2. /\ Len(recs) \in Nat /\ Len(Append(recs, r)) = Len(recs) + 1
        /\ Append(recs, r)[Len(recs) + 1] = r
        /\ \A i \in 1 .. Len(recs) : Append(recs, r)[i] = recs[i]
    OBVIOUS
  <1>3. h[Len(recs) + 1] = g[Len(st)] /\ f[Len(recs)] = g[Len(st)]
    BY <1>1 DEF After, Scopes!After, Scopes!Opens, NestedBy
  <1>4. ASSUME NEW n \in 0 .. Len(recs) + 1 PROVE h[n] \in Seq(Dies)
    <2>1. CASE n \in 0 .. Len(recs)
      BY <1>1, <2>1 DEF NestedBy
    <2>2. CASE n = Len(recs) + 1
      BY <1>2, <1>3, <2>2 DEF NestedBy
    <2>3. QED
      BY <1>2, <2>1, <2>2
  <1>5. ASSUME NEW i \in 1 .. Len(recs) + 1, Append(recs, r)[i].kind = "local"
        PROVE  h[i] # << >> /\ Scopes!IsScopeOf(LastOf(h[i]), Append(recs, r)[i].die)
    <2>1. CASE i \in 1 .. Len(recs)
      <3>1. h[i] = f[i] /\ recs[i].kind = "local" /\ Append(recs, r)[i] = recs[i]
        BY <1>1, <1>2, <1>5, <2>1
      <3>2. QED
        BY <2>1, <3>1 DEF NestedBy
    <2>2. CASE i = Len(recs) + 1
      BY <1>2, <1>3, <1>5, <2>2
    <2>3. QED
      BY <1>2, <2>1, <2>2
  <1>6. NestedBy(h, g, Append(recs, r), st)
    BY <1>1, <1>2, <1>3, <1>4, <1>5 DEF NestedBy
  <1>7. QED
    BY <1>6

(* A scope is opened along with its activation.                            *)
LEMMA ScopeOpened ==
  ASSUME program \in Programs,
         NEW recs \in Seq(RecordType), NEW st \in Seq(FrameType), NEW f, NEW g,
         NestedBy(f, g, recs, st),
         NEW r \in RecordType, NEW a \in FrameType, r.kind \in {"proc", "inlinesite"},
         r.die = a.die, HasScope(a.die)
  PROVE  \E h, k : NestedBy(h, k, Append(recs, r), Append(st, a))
  <1>1. PICK h : /\ Reads(h, Append(recs, r))
                 /\ \A n \in 0 .. Len(recs) : h[n] = f[n]
                 /\ h[Len(recs) + 1] = After(f[Len(recs)], r)
    BY ReadMore DEF NestedBy
  <1>2. PICK k : /\ Nests(k, Append(st, a))
                 /\ \A n \in 0 .. Len(st) : k[n] = g[n]
                 /\ k[Len(st) + 1] = Within(g[Len(st)], a)
    BY NestMore DEF NestedBy
  <1>3. /\ Len(recs) \in Nat /\ Len(Append(recs, r)) = Len(recs) + 1
        /\ Append(recs, r)[Len(recs) + 1] = r
        /\ \A i \in 1 .. Len(recs) : Append(recs, r)[i] = recs[i]
    OBVIOUS
  <1>4. /\ Len(st) \in Nat /\ Len(Append(st, a)) = Len(st) + 1
        /\ Append(st, a)[Len(st) + 1] = a
        /\ \A i \in 1 .. Len(st) : Append(st, a)[i] = st[i]
    OBVIOUS
  <1>5. a.die \in Dies /\ a.die \in Nat \ {0} /\ Len(st) \in 0 .. Len(st)
    BY ProgramFacts, <1>4 DEF FrameType
  <1>6. /\ k[Len(st) + 1] = Append(g[Len(st)], a.die) /\ g[Len(st)] \in Seq(Dies)
        /\ h[Len(recs) + 1] = k[Len(st) + 1]
    BY <1>1, <1>2, <1>5 DEF Within, After, Scopes!After, Scopes!Opens, NestedBy
  <1>7. /\ k[Len(st) + 1] \in Seq(Dies) /\ k[Len(st) + 1] # << >>
        /\ LastOf(k[Len(st) + 1]) = a.die
    <2> DEFINE o == g[Len(st)]
    <2>1. o \in Seq(Dies) /\ a.die \in Dies /\ k[Len(st) + 1] = Append(o, a.die)
      BY <1>5, <1>6
    <2> HIDE DEF o
    <2>2. /\ Append(o, a.die) \in Seq(Dies) /\ Append(o, a.die) # << >>
          /\ LastOf(Append(o, a.die)) = a.die
      BY SMTT(60), <2>1, Appended
    <2>3. QED
      BY <2>1, <2>2
  <1>8. PathTo(a.die, a.die)
    <2> DEFINE path == [i \in 1 .. 1 |-> a.die]
    <2>1. /\ path \in [1 .. 1 -> Dies] /\ path[1] = a.die /\ 1 \in 1 .. a.die
          /\ \A i \in 1 .. 1 - 1 : ~ HasScope(path[i]) /\ program.up[path[i]] = path[i + 1]
      BY <1>5
    <2> HIDE DEF path
    <2>2. QED
      BY <2>1, PathBy, Zenon
  <1>9. ASSUME NEW n \in 0 .. Len(recs) + 1 PROVE h[n] \in Seq(Dies)
    <2>1. CASE n \in 0 .. Len(recs)
      BY <1>1, <2>1 DEF NestedBy
    <2>2. CASE n = Len(recs) + 1
      BY <1>6, <1>7, <2>2
    <2>3. QED
      BY <1>3, <2>1, <2>2
  <1>10. ASSUME NEW n \in 0 .. Len(st) + 1 PROVE k[n] \in Seq(Dies)
    <2>1. CASE n \in 0 .. Len(st)
      BY <1>2, <2>1 DEF NestedBy
    <2>2. CASE n = Len(st) + 1
      BY <1>7, <2>2
    <2>3. QED
      BY <1>4, <2>1, <2>2
  <1>11. ASSUME NEW m \in 1 .. Len(st) + 1
         PROVE  k[m] # << >> /\ PathTo(LastOf(k[m]), Append(st, a)[m].die)
    <2>1. CASE m \in 1 .. Len(st)
      <3>1. k[m] = g[m] /\ Append(st, a)[m] = st[m]
        BY <1>2, <1>4, <2>1
      <3>2. QED
        BY <2>1, <3>1 DEF NestedBy
    <2>2. CASE m = Len(st) + 1
      BY <1>4, <1>7, <1>8, <2>2
    <2>3. QED
      BY <1>4, <2>1, <2>2
  <1>12. ASSUME NEW i \in 1 .. Len(recs) + 1, Append(recs, r)[i].kind = "local"
         PROVE  h[i] # << >> /\ Scopes!IsScopeOf(LastOf(h[i]), Append(recs, r)[i].die)
    <2>1. i \in 1 .. Len(recs)
      BY <1>3, <1>12
    <2>2. h[i] = f[i] /\ recs[i].kind = "local" /\ Append(recs, r)[i] = recs[i]
      BY <1>1, <1>3, <1>12, <2>1
    <2>3. QED
      BY <2>1, <2>2 DEF NestedBy
  <1>13. NestedBy(h, k, Append(recs, r), Append(st, a))
    BY <1>1, <1>2, <1>3, <1>4, <1>6, <1>9, <1>10, <1>11, <1>12 DEF NestedBy
  <1>14. QED
    BY <1>13

(* The path to a scope goes on through an entry that has none.             *)
LEMMA LongerPath ==
  ASSUME program \in Programs, NEW s, NEW e \in Dies, NEW d \in Dies, PathTo(s, e),
         program.up[d] = e, ~ HasScope(d)
  PROVE  PathTo(s, d)
  <1>1. PICK n \in 1 .. e : \E path \in [1 .. n -> Dies] :
          /\ path[1] = e /\ path[n] = s
          /\ \A i \in 1 .. n - 1 : ~ HasScope(path[i]) /\ program.up[path[i]] = path[i + 1]
    BY DEF PathTo
  <1>2. PICK path \in [1 .. n -> Dies] :
          /\ path[1] = e /\ path[n] = s
          /\ \A i \in 1 .. n - 1 : ~ HasScope(path[i]) /\ program.up[path[i]] = path[i + 1]
    BY <1>1
  <1>3. e \in Nat /\ d \in Nat /\ e < d /\ n \in Nat /\ n + 1 \in 1 .. d
    BY ProgramFacts
  <1> DEFINE q == [i \in 1 .. n + 1 |-> IF i = 1 THEN d ELSE path[i - 1]]
  <1>4. q[1] = d /\ \A i \in 2 .. n + 1 : q[i] = path[i - 1]
    BY <1>3
  <1>5. q \in [1 .. n + 1 -> Dies]
    BY <1>3
  <1> HIDE DEF q
  <1>6. q[n + 1] = s
    BY <1>2, <1>3, <1>4
  <1>7. ASSUME NEW i \in 1 .. n + 1 - 1
        PROVE  ~ HasScope(q[i]) /\ program.up[q[i]] = q[i + 1]
    <2>1. CASE i = 1
      <3>1. q[2] = path[1]
        BY <1>3, <1>4
      <3>2. QED
        BY <1>2, <1>4, <2>1, <3>1
    <2>2. CASE i # 1
      <3>1. i - 1 \in 1 .. n - 1 /\ q[i] = path[i - 1] /\ q[i + 1] = path[i - 1 + 1]
        <4>1. i \in 2 .. n + 1 /\ i + 1 \in 2 .. n + 1 /\ i + 1 - 1 = i - 1 + 1
          BY <1>3, <2>2
        <4>2. QED
          BY <1>3, <1>4, <4>1
      <3>2. QED
        BY <1>2, <3>1
    <2>3. QED
      BY <2>1, <2>2
  <1>8. HasScope(s)
    BY DEF PathTo
  <1> DEFINE m == n + 1
  <1>9. /\ m \in 1 .. d /\ q \in [1 .. m -> Dies] /\ q[1] = d /\ q[m] = s
        /\ \A i \in 1 .. m - 1 : ~ HasScope(q[i]) /\ program.up[q[i]] = q[i + 1]
    BY <1>3, <1>4, <1>5, <1>6, <1>7
  <1> HIDE DEF m
  <1>10. QED
    BY <1>8, <1>9, PathBy, Zenon


(* When records and activations nest alike, a reader is where the          *)
(* recursion is.                                                           *)
LEMMA NestedFacts ==
  ASSUME NEW recs, NEW st, NEW f, NEW g, NestedBy(f, g, recs, st)
  PROVE  /\ \A n \in 0 .. Len(recs) : f[n] \in Seq(Dies)
         /\ \A n \in 0 .. Len(st) : g[n] \in Seq(Dies)
         /\ f[Len(recs)] = g[Len(st)]
         /\ \A m \in 1 .. Len(st) : g[m] # << >> /\ PathTo(LastOf(g[m]), st[m].die)
  BY DEF NestedBy

(* With no record and no activation, both are nowhere.                     *)
LEMMA NothingNested ==
  \E f, g : NestedBy(f, g, << >>, << >>)
  <1> DEFINE f == [n \in 0 .. 0 |-> << >>]
  <1>1. /\ f = [n \in 0 .. 0 |-> f[n]] /\ f[0] = << >>
        /\ \A n \in 0 .. 0 : f[n] \in Seq(Dies)
    OBVIOUS
  <1>2. Len(<< >>) = 0 /\ 1 .. 0 = {}
    OBVIOUS
  <1> HIDE DEF f
  <1>3. Reads(f, << >>)
    BY <1>1, <1>2 DEF Reads
  <1>4. Nests(f, << >>)
    BY <1>1, <1>2 DEF Nests
  <1>5. NestedBy(f, f, << >>, << >>)
    BY <1>1, <1>2, <1>3, <1>4 DEF NestedBy
  <1>6. QED
    BY <1>5

(* The nesting depends only on the entries of the activations.             *)
LEMMA SameActivations ==
  ASSUME NEW recs, NEW st \in Seq(FrameType), NEW f, NEW g, NestedBy(f, g, recs, st),
         NEW q \in Seq(FrameType), Len(q) = Len(st), \A n \in 1 .. Len(st) : q[n].die = st[n].die
  PROVE  NestedBy(f, g, recs, q)
  <1>1. Nests(g, q)
    BY NestSame DEF NestedBy
  <1>2. \A m \in 1 .. Len(q) : g[m] # << >> /\ PathTo(LastOf(g[m]), q[m].die)
    BY DEF NestedBy
  <1>3. QED
    BY <1>1, <1>2 DEF NestedBy

(* The activation of an entry without a scope is inside that below it.     *)
LEMMA ActivationInScope ==
  ASSUME program \in Programs,
         NEW recs, NEW st \in Seq(FrameType), st # << >>, NEW f, NEW g,
         NestedBy(f, g, recs, st),
         NEW a \in FrameType, ~ HasScope(a.die), program.up[a.die] = LastOf(st).die
  PROVE  \E k : NestedBy(f, k, recs, Append(st, a))
  <1>1. PICK k : /\ Nests(k, Append(st, a))
                 /\ \A n \in 0 .. Len(st) : k[n] = g[n]
                 /\ k[Len(st) + 1] = Within(g[Len(st)], a)
    BY NestMore DEF NestedBy
  <1>2. /\ Len(st) \in Nat /\ Len(Append(st, a)) = Len(st) + 1
        /\ Append(st, a)[Len(st) + 1] = a
        /\ \A i \in 1 .. Len(st) : Append(st, a)[i] = st[i]
        /\ Len(st) \in 1 .. Len(st)
    OBVIOUS
  <1>3. k[Len(st) + 1] = g[Len(st)] /\ g[Len(st)] # << >> /\ g[Len(st)] \in Seq(Dies)
    BY <1>1, <1>2 DEF Within, NestedBy
  <1>4. PathTo(LastOf(k[Len(st) + 1]), a.die)
    <2> DEFINE s == LastOf(k[Len(st) + 1])
               e == LastOf(st).die
    <2>1. PathTo(s, e)
      BY <1>2, <1>3 DEF NestedBy, LastOf
    <2>2. st[Len(st)] \in FrameType
      BY <1>2
    <2>3. e \in Dies /\ a.die \in Dies /\ program.up[a.die] = e
      BY <2>2 DEF LastOf, FrameType
    <2> HIDE DEF s, e
    <2>4. PathTo(s, a.die)
      BY <2>1, <2>3, LongerPath
    <2>5. QED
      BY <2>4 DEF s
  <1>5. ASSUME NEW n \in 0 .. Len(st) + 1 PROVE k[n] \in Seq(Dies)
    <2>1. CASE n \in 0 .. Len(st)
      BY <1>1, <2>1 DEF NestedBy
    <2>2. CASE n = Len(st) + 1
      BY <1>3, <2>2
    <2>3. QED
      BY <1>2, <2>1, <2>2
  <1>6. ASSUME NEW m \in 1 .. Len(st) + 1
        PROVE  k[m] # << >> /\ PathTo(LastOf(k[m]), Append(st, a)[m].die)
    <2>1. CASE m \in 1 .. Len(st)
      <3>1. k[m] = g[m] /\ Append(st, a)[m] = st[m]
        BY <1>1, <1>2, <2>1
      <3>2. QED
        BY <2>1, <3>1 DEF NestedBy
    <2>2. CASE m = Len(st) + 1
      BY <1>2, <1>3, <1>4, <2>2
    <2>3. QED
      BY <1>2, <2>1, <2>2
  <1>7. NestedBy(f, k, recs, Append(st, a))
    BY <1>1, <1>2, <1>3, <1>5, <1>6 DEF NestedBy
  <1>8. QED
    BY <1>7

(* What is left when the activation on top goes.                           *)
LEMMA Popped ==
  ASSUME NEW S, NEW st \in Seq(S), st # << >>
  PROVE  /\ SubSeq(st, 1, Len(st) - 1) \in Seq(S)
         /\ Len(SubSeq(st, 1, Len(st) - 1)) = Len(st) - 1 /\ Len(st) - 1 \in Nat
         /\ \A i \in 1 .. Len(st) - 1 : SubSeq(st, 1, Len(st) - 1)[i] = st[i]
         /\ LastOf(st) = st[Len(st)] /\ Len(st) \in 1 .. Len(st) /\ Len(st) \in Nat
  <1> DEFINE N == Len(st) - 1
  <1>1. Len(st) \in Nat /\ Len(st) # 0
    OBVIOUS
  <1>2. N \in Nat /\ Len(st) \in 1 .. Len(st) /\ N <= Len(st) /\ N + 1 = Len(st)
    BY <1>1
  <1> HIDE DEF N
  <1>3. /\ SubSeq(st, 1, N) \in Seq(S) /\ Len(SubSeq(st, 1, N)) = N
        /\ \A i \in 1 .. N : SubSeq(st, 1, N)[i] = st[i]
    BY <1>1, <1>2
  <1>4. QED
    BY <1>1, <1>2, <1>3 DEF LastOf, N

(* A return without a record leaves the reader in the same scope.          *)
LEMMA ReturnToBlock ==
  ASSUME NEW recs, NEW st \in Seq(FrameType), st # << >>, NEW f, NEW g,
         NestedBy(f, g, recs, st), ~ HasScope(LastOf(st).die)
  PROVE  \E k : NestedBy(f, k, recs, SubSeq(st, 1, Len(st) - 1))
  <1> DEFINE N == Len(st) - 1
             q == SubSeq(st, 1, Len(st) - 1)
  <1>1. PICK k : Nests(k, q) /\ \A n \in 0 .. N : k[n] = g[n]
    BY NestLess DEF NestedBy
  <1>2. /\ Len(q) = N /\ N \in Nat /\ Len(st) = N + 1 /\ LastOf(st) = st[N + 1]
        /\ \A i \in 1 .. N : q[i] = st[i]
    BY Popped
  <1> HIDE DEF N, q
  <1>3. g[N + 1] = g[N]
    <2>1. N + 1 - 1 = N /\ N + 1 \in 1 .. Len(st) /\ N \in Nat
      BY <1>2
    <2>2. g[N + 1] = Within(g[N + 1 - 1], st[N + 1])
      <3>1. \A m \in 1 .. Len(st) : g[m] = Within(g[m - 1], st[m])
        BY DEF NestedBy, Nests
      <3>2. QED
        BY <2>1, <3>1
    <2>3. ~ HasScope(st[N + 1].die)
      BY <1>2, Zenon
    <2>4. Within(g[N + 1 - 1], st[N + 1]) = g[N + 1 - 1]
      BY <2>3, Zenon DEF Within
    <2>5. QED
      BY <2>1, <2>2, <2>4, Zenon
  <1>4. /\ \A n \in 0 .. N : k[n] \in Seq(Dies)
        /\ \A m \in 1 .. N : k[m] # << >> /\ PathTo(LastOf(k[m]), q[m].die)
        /\ f[Len(recs)] = k[N]
    <2>1. /\ \A n \in 0 .. N : n \in 0 .. Len(st)
          /\ \A n \in 1 .. N : n \in 1 .. Len(st) /\ n \in 0 .. N
          /\ N \in 0 .. N
      BY <1>2
    <2>2. /\ \A n \in 0 .. N : g[n] \in Seq(Dies)
          /\ \A m \in 1 .. N : g[m] # << >> /\ PathTo(LastOf(g[m]), st[m].die)
      BY <2>1, NestedFacts
    <2>3. f[Len(recs)] = g[N + 1]
      <3>1. f[Len(recs)] = g[Len(st)]
        BY NestedFacts
      <3>2. QED
        BY <1>2, <3>1, Zenon
    <2>4. QED
      BY <1>1, <1>2, <1>3, <2>1, <2>2, <2>3
  <1>5. NestedBy(f, k, recs, q)
    BY <1>1, <1>2, <1>4 DEF NestedBy
  <1>6. QED
    BY <1>5 DEF q

(* The end record closes the scope of the activation that goes.            *)
LEMMA ScopeClosed ==
  ASSUME NEW recs \in Seq(RecordType), NEW st \in Seq(FrameType), st # << >>,
         NEW f, NEW g, NestedBy(f, g, recs, st), HasScope(LastOf(st).die),
         NEW r \in RecordType, r.kind = "end"
  PROVE  \E h, k : NestedBy(h, k, Append(recs, r), SubSeq(st, 1, Len(st) - 1))
  <1> DEFINE N == Len(st) - 1
             q == SubSeq(st, 1, Len(st) - 1)
  <1>1. PICK k : Nests(k, q) /\ \A n \in 0 .. N : k[n] = g[n]
    BY NestLess DEF NestedBy
  <1>2. PICK h : /\ Reads(h, Append(recs, r))
                 /\ \A n \in 0 .. Len(recs) : h[n] = f[n]
                 /\ h[Len(recs) + 1] = After(f[Len(recs)], r)
    BY ReadMore DEF NestedBy
  <1>3. /\ Len(q) = N /\ N \in Nat /\ Len(st) = N + 1 /\ LastOf(st) = st[N + 1]
        /\ \A i \in 1 .. N : q[i] = st[i]
    BY Popped
  <1>4. /\ Len(recs) \in Nat /\ Len(Append(recs, r)) = Len(recs) + 1
        /\ Append(recs, r)[Len(recs) + 1] = r
        /\ \A i \in 1 .. Len(recs) : Append(recs, r)[i] = recs[i]
    OBVIOUS
  <1> HIDE DEF N, q
  <1>5. st[N + 1].die \in Dies /\ N + 1 \in 1 .. Len(st) /\ N + 1 - 1 = N /\ N \in 0 .. Len(st)
    <2>1. N + 1 \in 1 .. Len(st) /\ N + 1 - 1 = N /\ N \in 0 .. Len(st)
      BY <1>3
    <2>2. st[N + 1] \in FrameType
      BY <2>1
    <2>3. QED
      BY <2>1, <2>2 DEF FrameType
  <1>6. g[N + 1] = Append(g[N], st[N + 1].die) /\ g[N] \in Seq(Dies)
    <2>1. g[N + 1] = Within(g[N + 1 - 1], st[N + 1])
      <3>1. \A m \in 1 .. Len(st) : g[m] = Within(g[m - 1], st[m])
        BY DEF NestedBy, Nests
      <3>2. QED
        BY <1>5, <3>1
    <2>2. g[N] \in Seq(Dies)
      BY <1>5, NestedFacts
    <2>3. HasScope(st[N + 1].die)
      BY <1>3, Zenon
    <2>4. Within(g[N + 1 - 1], st[N + 1]) = Append(g[N + 1 - 1], st[N + 1].die)
      BY <2>3, Zenon DEF Within
    <2>5. QED
      BY <1>5, <2>1, <2>2, <2>4, Zenon
  <1>7. h[Len(recs) + 1] = k[N]
    <2> DEFINE o == g[N]
               d == st[N + 1].die
    <2>1. f[Len(recs)] = Append(o, d) /\ o \in Seq(Dies) /\ d \in Dies
      BY <1>3, <1>5, <1>6, NestedFacts
    <2> HIDE DEF o, d
    <2>2. SubSeq(Append(o, d), 1, Len(Append(o, d)) - 1) = o
      BY <2>1, Appended
    <2>3. After(f[Len(recs)], r) = SubSeq(f[Len(recs)], 1, Len(f[Len(recs)]) - 1)
      BY DEF After, Scopes!After, Scopes!Opens
    <2>4. h[Len(recs) + 1] = o
      BY <1>2, <2>1, <2>2, <2>3
    <2>5. QED
      BY <1>1, <1>3, <2>4 DEF o
  <1>8. /\ \A n \in 0 .. N : k[n] \in Seq(Dies)
        /\ \A m \in 1 .. N : k[m] # << >> /\ PathTo(LastOf(k[m]), q[m].die)
    <2>1. /\ \A n \in 0 .. N : n \in 0 .. Len(st)
          /\ \A n \in 1 .. N : n \in 1 .. Len(st) /\ n \in 0 .. N
      BY <1>3
    <2>2. /\ \A n \in 0 .. N : g[n] \in Seq(Dies)
          /\ \A m \in 1 .. N : g[m] # << >> /\ PathTo(LastOf(g[m]), st[m].die)
      BY <2>1, NestedFacts
    <2>3. QED
      BY <1>1, <1>3, <2>1, <2>2
  <1>9. ASSUME NEW n \in 0 .. Len(recs) + 1 PROVE h[n] \in Seq(Dies)
    <2>1. CASE n \in 0 .. Len(recs)
      BY <1>2, <2>1 DEF NestedBy
    <2>2. CASE n = Len(recs) + 1
      BY <1>3, <1>7, <1>8, <2>2
    <2>3. QED
      BY <1>4, <2>1, <2>2
  <1>10. ASSUME NEW i \in 1 .. Len(recs) + 1, Append(recs, r)[i].kind = "local"
         PROVE  h[i] # << >> /\ Scopes!IsScopeOf(LastOf(h[i]), Append(recs, r)[i].die)
    <2>1. i \in 1 .. Len(recs)
      BY <1>4, <1>10
    <2>2. h[i] = f[i] /\ recs[i].kind = "local" /\ Append(recs, r)[i] = recs[i]
      BY <1>2, <1>4, <1>10, <2>1
    <2>3. QED
      BY <2>1, <2>2 DEF NestedBy
  <1>11. NestedBy(h, k, Append(recs, r), q)
    BY <1>1, <1>2, <1>3, <1>4, <1>7, <1>8, <1>9, <1>10 DEF NestedBy
  <1>12. QED
    BY <1>11 DEF q


-----------------------------------------------------------------------------
(* The entries reached.  A child of the activation on top is on no other   *)
(* list, and was not reached yet.                                          *)
Advance(st, c) == [st EXCEPT ![Len(st)].todo = @ \ {c}]
FrameOf(c)     == [die |-> c, todo |-> Scopes!Children(c)]

(* A child that is visited is visited by the activation on top.            *)
LEMMA ChildOnTop ==
  ASSUME program \in Programs, NEW st, Activated(st), st # << >>, NEW c \in LastOf(st).todo
  PROVE  /\ c \in Dies \ Scopes!Functions /\ program.up[c] = LastOf(st).die
         /\ LastOf(st) \in FrameType /\ LastOf(st).die < c
         /\ \A i \in 1 .. Len(st) : c \in st[i].todo => i = Len(st)
  <1> DEFINE n == Len(st)
  <1>1. /\ st \in Seq(FrameType) /\ n \in 1 .. n /\ n \in Nat /\ LastOf(st) = st[n]
        /\ st[n] \in FrameType
    <2>1. st \in Seq(FrameType)
      BY DEF Activated
    <2>2. n \in 1 .. n /\ n \in Nat /\ LastOf(st) = st[n]
      BY <2>1, Popped
    <2>3. QED
      BY <2>1, <2>2
  <1>2. ASSUME NEW i \in 1 .. n, c \in st[i].todo
        PROVE  c \in Dies /\ program.up[c] = st[i].die
    BY <1>2 DEF Activated, Scopes!Children, Dies
  <1>3. c \in Dies /\ program.up[c] = LastOf(st).die
    BY <1>1, <1>2
  <1>4. program.up[c] \in Dies
    BY <1>1, <1>3 DEF FrameType
  <1>5. program.up[c] # 0 /\ program.up[c] < c /\ c \notin Scopes!Functions
    BY <1>3, <1>4, ProgramFacts
  <1>6. ASSUME NEW i \in 1 .. n, c \in st[i].todo
        PROVE  i = n
    <2>1. st[i].die = st[n].die
      BY <1>1, <1>2, <1>3, <1>6
    <2>2. st[i].die \in Dies /\ st[i].die \in Nat
      <3>1. st[i] \in FrameType
        BY <1>1
      <3>2. st[i].die \in Dies
        BY <3>1 DEF FrameType
      <3>3. QED
        BY <3>2, ProgramFacts
    <2>3. CASE i < n
      <3>1. n \in i + 1 .. n
        BY <1>1, <2>3
      <3>2. st[i].die < st[n].die
        BY <3>1 DEF Activated
      <3>3. QED
        BY <2>1, <2>2, <3>2
    <2>4. QED
      BY <1>1, <2>3
  <1>7. QED
    BY <1>1, <1>3, <1>5, <1>6

(* Visiting a child takes it from what the top has still to visit.         *)
LEMMA AdvanceFacts ==
  ASSUME NEW st, Activated(st), st # << >>, NEW c
  PROVE  /\ Activated(Advance(st, c)) /\ Advance(st, c) \in Seq(FrameType)
         /\ st \in Seq(FrameType)
         /\ Len(Advance(st, c)) = Len(st) /\ Len(st) \in Nat /\ Len(st) \in 1 .. Len(st)
         /\ Advance(st, c) # << >>
         /\ LastOf(Advance(st, c)).die = LastOf(st).die
         /\ \A i \in 1 .. Len(st) :
              /\ Advance(st, c)[i].die = st[i].die
              /\ Advance(st, c)[i].todo = IF i = Len(st) THEN st[i].todo \ {c} ELSE st[i].todo
  <1> DEFINE n == Len(st)
             q == Advance(st, c)
  <1>1. /\ st \in Seq(FrameType) /\ n \in 1 .. n /\ n \in Nat
        /\ \A i \in 1 .. n : st[i] \in FrameType
    <2>1. st \in Seq(FrameType)
      BY DEF Activated
    <2>2. n \in 1 .. n /\ n \in Nat
      BY <2>1, Popped
    <2>3. QED
      BY <2>1, <2>2
  <1>2. /\ Len(q) = n /\ DOMAIN q = 1 .. n
        /\ \A i \in 1 .. n : q[i] = IF i = n THEN [st[n] EXCEPT !.todo = @ \ {c}] ELSE st[i]
    BY <1>1 DEF Advance
  <1>3. \A i \in 1 .. n : /\ q[i] \in FrameType /\ q[i].die = st[i].die
                          /\ q[i].todo = IF i = n THEN st[i].todo \ {c} ELSE st[i].todo
    BY ZenonT(60), <1>1, <1>2 DEF FrameType
  <1>4. q \in Seq(FrameType)
    <2>1. q = [i \in 1 .. n |-> q[i]]
      BY <1>1, <1>2 DEF Advance
    <2>2. q \in [1 .. n -> FrameType]
      BY <1>3, <2>1, Zenon
    <2>3. QED
      BY <1>1, <2>2
  <1> HIDE DEF q
  <1>5. Activated(q)
    <2> SUFFICES ASSUME NEW i \in 1 .. n
                 PROVE  /\ q[i].todo \subseteq Scopes!Children(q[i].die)
                        /\ i > 1 => program.up[q[i].die] = q[i - 1].die
                        /\ \A j \in i + 1 .. n : q[i].die < q[j].die
      BY <1>2, <1>4 DEF Activated
    <2>1. /\ st[i].todo \subseteq Scopes!Children(st[i].die)
          /\ i > 1 => program.up[st[i].die] = st[i - 1].die
          /\ \A j \in i + 1 .. n : st[i].die < st[j].die
      BY DEF Activated
    <2>2. i > 1 => i - 1 \in 1 .. n
      BY <1>1
    <2>3. \A j \in i + 1 .. n : j \in 1 .. n
      BY <1>1
    <2>4. QED
      BY <1>3, <2>1, <2>2, <2>3
  <1>6. q # << >> /\ LastOf(q).die = LastOf(st).die
    <2>1. LastOf(q) = q[n] /\ LastOf(st) = st[n]
      BY <1>2 DEF LastOf
    <2>2. q # << >>
      BY <1>1, <1>2
    <2>3. QED
      BY <1>1, <1>3, <2>1, <2>2
  <1>7. QED
    BY <1>1, <1>2, <1>3, <1>4, <1>5, <1>6 DEF q

(* Visiting a child leaves the activations those of the same entries.      *)
LEMMA AdvanceKeeps ==
  ASSUME NEW st, Activated(st), st # << >>, NEW c
  PROVE  /\ Advance(st, c) \in Seq(FrameType) /\ st \in Seq(FrameType)
         /\ Advance(st, c) # << >> /\ Activated(Advance(st, c))
         /\ Len(Advance(st, c)) = Len(st) /\ Len(st) \in 1 .. Len(st)
         /\ \A i \in 1 .. Len(st) : Advance(st, c)[i].die = st[i].die
         /\ LastOf(Advance(st, c)).die = LastOf(st).die
  BY ZenonT(60), AdvanceFacts

(* The recursion goes down the tree, to an entry after all active ones.    *)
LEMMA ActivatedMore ==
  ASSUME program \in Programs, NEW st, Activated(st), NEW c \in Dies,
         st # << >> => /\ program.up[c] = LastOf(st).die /\ LastOf(st).die < c
                       /\ \A i \in 1 .. Len(st) : st[i].die < c
  PROVE  /\ Activated(Append(st, FrameOf(c))) /\ FrameOf(c) \in FrameType
         /\ Len(Append(st, FrameOf(c))) = Len(st) + 1 /\ Len(st) \in Nat
         /\ Append(st, FrameOf(c))[Len(st) + 1] = FrameOf(c)
         /\ \A i \in 1 .. Len(st) : Append(st, FrameOf(c))[i] = st[i]
  <1> DEFINE n == Len(st)
             q == Append(st, FrameOf(c))
  <1>1. FrameOf(c) \in FrameType /\ FrameOf(c).die = c /\ FrameOf(c).todo = Scopes!Children(c)
    BY DEF FrameOf, FrameType, Scopes!Children, Dies
  <1>2. st \in Seq(FrameType)
    BY DEF Activated
  <1>3. /\ q \in Seq(FrameType) /\ Len(q) = n + 1 /\ n \in Nat
        /\ q[n + 1] = FrameOf(c) /\ \A i \in 1 .. n : q[i] = st[i]
    BY <1>1, <1>2
  <1>4. n # 0 => st # << >> /\ LastOf(st) = st[n]
    BY <1>2 DEF LastOf
  <1> HIDE DEF q
  <1>5. ASSUME NEW i \in 1 .. n + 1
        PROVE  /\ q[i].todo \subseteq Scopes!Children(q[i].die)
               /\ i > 1 => program.up[q[i].die] = q[i - 1].die
               /\ \A j \in i + 1 .. n + 1 : q[i].die < q[j].die
    <2>1. CASE i = n + 1
      <3>1. \A j \in i + 1 .. n + 1 : FALSE
        BY <1>3, <2>1
      <3>2. i > 1 => n # 0 /\ i - 1 = n /\ n \in 1 .. n
        BY <1>3, <2>1
      <3>3. QED
        BY <1>1, <1>3, <1>4, <2>1, <3>1, <3>2
    <2>2. CASE i \in 1 .. n
      <3>1. /\ st[i].todo \subseteq Scopes!Children(st[i].die)
            /\ i > 1 => program.up[st[i].die] = st[i - 1].die
            /\ \A j \in i + 1 .. n : st[i].die < st[j].die
        BY <2>2 DEF Activated
      <3>2. i > 1 => i - 1 \in 1 .. n
        BY <1>3, <2>2
      <3>3. \A j \in i + 1 .. n + 1 : j = n + 1 \/ (j \in i + 1 .. n /\ j \in 1 .. n)
        BY <1>3, <2>2
      <3>4. n # 0 /\ st[i].die < c
        BY <1>3, <1>4, <2>2
      <3>5. QED
        BY <1>1, <1>3, <2>2, <3>1, <3>2, <3>3, <3>4
    <2>3. QED
      BY <1>3, <2>1, <2>2
  <1>6. Activated(q)
    BY <1>3, <1>5 DEF Activated
  <1>7. QED
    BY <1>1, <1>3, <1>6 DEF q

(* A return leaves activations in the order of the tree.                   *)
LEMMA ActivatedLess ==
  ASSUME NEW st, Activated(st), st # << >>
  PROVE  Activated(SubSeq(st, 1, Len(st) - 1))
  <1> DEFINE n == Len(st) - 1
             q == SubSeq(st, 1, Len(st) - 1)
  <1>1. st \in Seq(FrameType)
    BY DEF Activated
  <1>2. /\ q \in Seq(FrameType) /\ Len(q) = n /\ n \in Nat /\ n + 1 = Len(st)
        /\ \A i \in 1 .. n : q[i] = st[i]
    BY <1>1, Popped
  <1> HIDE DEF q, n
  <1>3. ASSUME NEW i \in 1 .. n
        PROVE  /\ q[i].todo \subseteq Scopes!Children(q[i].die)
               /\ i > 1 => program.up[q[i].die] = q[i - 1].die
               /\ \A j \in i + 1 .. n : q[i].die < q[j].die
    <2>1. i \in 1 .. Len(st)
      BY <1>2
    <2>2. /\ st[i].todo \subseteq Scopes!Children(st[i].die)
          /\ i > 1 => program.up[st[i].die] = st[i - 1].die
          /\ \A j \in i + 1 .. Len(st) : st[i].die < st[j].die
      BY <2>1 DEF Activated
    <2>3. /\ i > 1 => i - 1 \in 1 .. n
          /\ \A j \in i + 1 .. n : j \in 1 .. n /\ j \in i + 1 .. Len(st)
      BY <1>2
    <2>4. QED
      BY <1>2, <2>2, <2>3
  <1>4. QED
    BY <1>2, <1>3 DEF Activated, q


(* The next function is reached, nothing below it yet.                     *)
LEMMA FunctionReached ==
  ASSUME program \in Programs, NEW V, NEW fn, Reached(V, << >>, fn), NEW c \in Scopes!Functions,
         fn \in Nat, c > fn, \A e \in Scopes!Functions : e > fn => c <= e
  PROVE  Reached(V \cup {c}, << FrameOf(c) >>, c) /\ c \notin V
  <1>1. /\ c \in Dies /\ Scopes!Functions \subseteq Dies /\ Dies \subseteq Nat \ {0}
        /\ \A d \in Dies \ Scopes!Functions : program.up[d] # 0
        /\ program.up[c] = 0
    BY ProgramFacts
  <1>2. c \notin V
    BY <1>1 DEF Reached
  <1>3. /\ Len(<< FrameOf(c) >>) = 1 /\ << FrameOf(c) >>[1] = FrameOf(c) /\ FrameOf(c).die = c
        /\ FrameOf(c).todo = Scopes!Children(c) /\ Len(<< >>) = 0
    BY DEF FrameOf
  <1>4. V \cup {c} \subseteq Dies
    BY <1>1 DEF Reached
  <1>5. \A d \in Scopes!Functions : d \in V \cup {c} <=> d <= c
    <2> SUFFICES ASSUME NEW d \in Scopes!Functions PROVE d \in V \cup {c} <=> d <= c
      OBVIOUS
    <2>1. d \in Nat /\ c \in Nat /\ (d \in V <=> d <= fn)
      BY <1>1 DEF Reached
    <2>2. d > fn => c <= d
      OBVIOUS
    <2>3. QED
      BY <2>1, <2>2
  <1>6. ASSUME NEW d \in Dies \ Scopes!Functions
        PROVE  d \in V \cup {c} <=>
                 program.up[d] \in V \cup {c} /\ \A i \in 1 .. 1 : d \notin << FrameOf(c) >>[i].todo
    <2>1. d \in V <=> program.up[d] \in V
      <3>1. \A i \in 1 .. Len(<< >>) : d \notin << >>[i].todo
        BY <1>3
      <3>2. QED
        BY <3>1 DEF Reached
    <2>2. d # c
      OBVIOUS
    <2>3. d \in Scopes!Children(c) <=> program.up[d] = c
      BY DEF Scopes!Children, Dies
    <2>4. program.up[d] = c => d \notin V
      BY <1>2, <2>1
    <2>5. QED
      BY <1>3, <2>1, <2>2, <2>3, <2>4
  <1>7. QED
    BY <1>2, <1>3, <1>4, <1>5, <1>6 DEF Reached

(* A child still to be visited has not been reached.                       *)
LEMMA NotYetReached ==
  ASSUME program \in Programs, NEW V, NEW st, NEW fn, Reached(V, st, fn), Activated(st),
         st # << >>, NEW c \in LastOf(st).todo
  PROVE  c \notin V /\ LastOf(st).die \in V
  <1>1. c \in Dies \ Scopes!Functions /\ Len(st) \in 1 .. Len(st) /\ LastOf(st) = st[Len(st)]
    BY ChildOnTop, AdvanceFacts DEF LastOf
  <1>2. QED
    BY <1>1 DEF Reached

(* A variable has no entries below it.                                     *)
LEMMA LeafReached ==
  ASSUME program \in Programs, NEW V, NEW st, NEW fn, Reached(V, st, fn), Activated(st),
         st # << >>, NEW c \in LastOf(st).todo,
         program.tag[c] \in {"variable", "hidden"}
  PROVE  Reached(V \cup {c}, Advance(st, c), fn)
  <1> DEFINE q == Advance(st, c)
  <1>1. /\ Len(q) = Len(st) /\ Len(st) \in 1 .. Len(st)
        /\ \A i \in 1 .. Len(st) :
             /\ q[i].die = st[i].die
             /\ q[i].todo = IF i = Len(st) THEN st[i].todo \ {c} ELSE st[i].todo
    BY AdvanceFacts
  <1>2. /\ c \in Dies \ Scopes!Functions /\ program.up[c] = LastOf(st).die
        /\ \A i \in 1 .. Len(st) : c \in st[i].todo => i = Len(st)
    BY ChildOnTop
  <1>3. c \notin V /\ program.up[c] \in V
    BY <1>2, NotYetReached
  <1>4. \A d \in Dies \ Scopes!Functions : program.up[d] # c
    BY ProgramFacts
  <1> HIDE DEF q
  <1>5. ASSUME NEW d \in Dies \ Scopes!Functions
        PROVE  d \in V \cup {c} <=>
                 program.up[d] \in V \cup {c} /\ \A i \in 1 .. Len(st) : d \notin q[i].todo
    <2>1. d \in V <=> program.up[d] \in V /\ \A i \in 1 .. Len(st) : d \notin st[i].todo
      BY DEF Reached
    <2>2. CASE d = c
      <3>1. \A i \in 1 .. Len(st) : c \notin q[i].todo
        BY <1>1, <1>2
      <3>2. QED
        BY <1>3, <2>2, <3>1
    <2>3. CASE d # c
      <3>1. \A i \in 1 .. Len(st) : d \in q[i].todo <=> d \in st[i].todo
        BY <1>1, <2>3
      <3>2. QED
        BY <1>4, <2>1, <2>3, <3>1
    <2>4. QED
      BY <2>2, <2>3
  <1>6. /\ V \cup {c} \subseteq Dies
        /\ \A d \in Scopes!Functions : d \in V \cup {c} <=> d <= fn
        /\ \A i \in 1 .. Len(st) : q[i].die \in V \cup {c}
    BY <1>1, <1>2 DEF Reached
  <1>7. QED
    BY <1>1, <1>5, <1>6 DEF Reached, q

(* An entry that is entered: its children are still ahead.                 *)
LEMMA EntryReached ==
  ASSUME program \in Programs, NEW V, NEW st, NEW fn, Reached(V, st, fn), Activated(st),
         st # << >>, NEW c \in LastOf(st).todo
  PROVE  /\ Reached(V \cup {c}, Append(Advance(st, c), FrameOf(c)), fn)
         /\ Activated(Append(Advance(st, c), FrameOf(c)))
  <1> DEFINE a == Advance(st, c)
             n == Len(st)
             q == Append(Advance(st, c), FrameOf(c))
  <1>1. /\ Activated(a) /\ a # << >> /\ LastOf(a).die = LastOf(st).die
        /\ Len(a) = n /\ n \in 1 .. n /\ n \in Nat /\ a \in Seq(FrameType)
        /\ \A i \in 1 .. n :
             /\ a[i].die = st[i].die
             /\ a[i].todo = IF i = n THEN st[i].todo \ {c} ELSE st[i].todo
    BY AdvanceFacts
  <1>2. /\ c \in Dies \ Scopes!Functions /\ program.up[c] = LastOf(st).die
        /\ LastOf(st).die < c /\ LastOf(st) \in FrameType
        /\ \A i \in 1 .. n : c \in st[i].todo => i = n
    BY ChildOnTop
  <1>3. c \notin V /\ program.up[c] \in V
    BY <1>2, NotYetReached
  <1>4. \A i \in 1 .. n : a[i].die < c
    <2> SUFFICES ASSUME NEW i \in 1 .. n PROVE st[i].die < c
      BY <1>1
    <2>1. i = n \/ n \in i + 1 .. n
      BY <1>1
    <2>2. i # n => st[i].die < st[n].die
      BY <2>1 DEF Activated
    <2>3. LastOf(st) = st[n]
      BY DEF LastOf
    <2>4. st[i] \in FrameType
      <3>1. st \in Seq(FrameType)
        BY DEF Activated
      <3>2. QED
        BY <3>1
    <2>5. st[i].die \in Nat /\ st[n].die \in Nat /\ c \in Nat
      BY <1>2, <2>3, <2>4, ProgramFacts DEF FrameType
    <2>6. QED
      BY <1>2, <2>2, <2>3, <2>5
  <1>5. /\ Activated(q) /\ Len(q) = n + 1 /\ q[n + 1] = FrameOf(c)
        /\ \A i \in 1 .. n : q[i] = a[i]
    BY <1>1, <1>2, <1>4, ActivatedMore
  <1>6. FrameOf(c).die = c /\ FrameOf(c).todo = Scopes!Children(c)
    BY DEF FrameOf
  <1> HIDE DEF a, q
  <1>7. \A i \in 1 .. n + 1 : i = n + 1 \/ i \in 1 .. n
    BY <1>1
  <1>8. ASSUME NEW d \in Dies \ Scopes!Functions
        PROVE  d \in V \cup {c} <=>
                 program.up[d] \in V \cup {c} /\ \A i \in 1 .. n + 1 : d \notin q[i].todo
    <2>1. d \in V <=> program.up[d] \in V /\ \A i \in 1 .. n : d \notin st[i].todo
      BY DEF Reached
    <2>2. d \in Scopes!Children(c) <=> program.up[d] = c
      BY DEF Scopes!Children, Dies
    <2>3. program.up[d] # d
      BY ProgramFacts
    <2>4. (\A i \in 1 .. n + 1 : d \notin q[i].todo) <=>
            program.up[d] # c /\ \A i \in 1 .. n : d \notin a[i].todo
      BY <1>1, <1>5, <1>6, <1>7, <2>2
    <2>5. CASE d = c
      <3>1. \A i \in 1 .. n : c \notin a[i].todo
        BY <1>1, <1>2
      <3>2. QED
        BY <1>3, <2>3, <2>4, <2>5, <3>1
    <2>6. CASE d # c
      <3>1. \A i \in 1 .. n : d \in a[i].todo <=> d \in st[i].todo
        BY <1>1, <2>6
      <3>2. QED
        BY <1>3, <2>1, <2>4, <2>6, <3>1
    <2>7. QED
      BY <2>5, <2>6
  <1>9. /\ V \cup {c} \subseteq Dies
        /\ \A d \in Scopes!Functions : d \in V \cup {c} <=> d <= fn
    BY <1>2 DEF Reached
  <1>10. \A i \in 1 .. n + 1 : q[i].die \in V \cup {c}
    <2>1. \A i \in 1 .. n : st[i].die \in V
      BY DEF Reached
    <2>2. QED
      BY <1>1, <1>5, <1>6, <1>7, <2>1
  <1>11. QED
    BY <1>5, <1>8, <1>9, <1>10 DEF Reached, q

(* A return with no child left leaves none behind.                         *)
LEMMA ReturnReached ==
  ASSUME NEW V, NEW st, NEW fn, Reached(V, st, fn), Activated(st), st # << >>,
         LastOf(st).todo = {}
  PROVE  Reached(V, SubSeq(st, 1, Len(st) - 1), fn)
  <1> DEFINE n == Len(st) - 1
             q == SubSeq(st, 1, Len(st) - 1)
  <1>1. /\ Len(q) = n /\ n \in Nat /\ LastOf(st) = st[n + 1] /\ n + 1 = Len(st)
        /\ \A i \in 1 .. n : q[i] = st[i]
    <2>1. st \in Seq(FrameType)
      BY DEF Activated
    <2>2. QED
      BY <2>1, Popped
  <1> HIDE DEF n, q
  <1>2. \A i \in 1 .. Len(st) : i = n + 1 \/ i \in 1 .. n
    BY <1>1
  <1>3. \A i \in 1 .. n : i \in 1 .. Len(st)
    BY <1>1
  <1>4. ASSUME NEW d
        PROVE  (\A i \in 1 .. n : d \notin q[i].todo) <=> \A i \in 1 .. Len(st) : d \notin st[i].todo
    BY <1>1, <1>2, <1>3
  <1>5. \A i \in 1 .. n : q[i].die \in V
    BY <1>1, <1>3 DEF Reached
  <1>6. QED
    BY <1>1, <1>4, <1>5 DEF Reached, q

-----------------------------------------------------------------------------
(* The records of what was reached.                                        *)
LEMMA LocalsMore ==
  ASSUME NEW recs \in Seq(RecordType), NEW r \in RecordType, NEW d
  PROVE  LocalsIn(Append(recs, r), d) =
           LocalsIn(recs, d) \cup (IF r.kind = "local" /\ r.die = d THEN {Len(recs) + 1} ELSE {})
  <1>1. /\ Len(recs) \in Nat /\ Len(Append(recs, r)) = Len(recs) + 1
        /\ Append(recs, r)[Len(recs) + 1] = r
        /\ \A i \in 1 .. Len(recs) : Append(recs, r)[i] = recs[i]
    OBVIOUS
  <1>2. 1 .. Len(recs) + 1 = (1 .. Len(recs)) \cup {Len(recs) + 1}
    BY <1>1
  <1>3. QED
    BY <1>1, <1>2 DEF LocalsIn

(* A record that is no variable's leaves what is recorded.                 *)
LEMMA RecordedSame ==
  ASSUME NEW recs \in Seq(RecordType), NEW r \in RecordType, r.kind # "local",
         NEW V, Recorded(V, recs)
  PROVE  Recorded(V, Append(recs, r))
  <1>1. ASSUME NEW d PROVE LocalsIn(Append(recs, r), d) = LocalsIn(recs, d)
    <2>1. LocalsIn(Append(recs, r), d) = LocalsIn(recs, d) \cup {}
      BY LocalsMore
    <2>2. QED
      BY <2>1
  <1>2. QED
    BY <1>1 DEF Recorded

(* An entry that is no variable needs no record.                           *)
LEMMA RecordedMore ==
  ASSUME NEW recs, NEW V, Recorded(V, recs), NEW c \in Dies, ~ IsVariable(c)
  PROVE  Recorded(V \cup {c}, recs)
  BY DEF Recorded

(* A variable reached for the first time gets its one record.              *)
LEMMA RecordedLocal ==
  ASSUME NEW recs \in Seq(RecordType), NEW r \in RecordType, r.kind = "local",
         NEW V, Recorded(V, recs), NEW c \in Dies \ V, IsVariable(c), r.die = c
  PROVE  Recorded(V \cup {c}, Append(recs, r))
  <1>1. LocalsIn(recs, c) = {}
    BY DEF Recorded
  <1>2. LocalsIn(Append(recs, r), c) = {Len(recs) + 1}
    BY <1>1, LocalsMore
  <1>3. ASSUME NEW d, d # c PROVE LocalsIn(Append(recs, r), d) = LocalsIn(recs, d)
    <2>1. LocalsIn(Append(recs, r), d) = LocalsIn(recs, d) \cup {}
      BY <1>3, LocalsMore
    <2>2. QED
      BY <2>1
  <1>4. QED
    BY <1>2, <1>3 DEF Recorded

(* The counter is bounded by the sites reached.                            *)
LEMMA NumberedMore ==
  ASSUME program \in Programs, NEW V, V \subseteq Dies, NEW c \in Dies
  PROVE  /\ IsFiniteSet(Numbered(V)) /\ Cardinality(Numbered(V)) \in Nat
         /\ Cardinality(Numbered(V)) <= Cardinality(Dies) /\ Cardinality(Dies) \in Nat
         /\ Cardinality(Numbered(V)) <= Cardinality(Numbered(V \cup {c}))
         /\ c \notin V /\ program.tag[c] \in {"inlined", "opaque"} =>
              Cardinality(Numbered(V \cup {c})) = Cardinality(Numbered(V)) + 1
  <1>1. IsFiniteSet(Dies) /\ Cardinality(Dies) \in Nat
    <2>1. Dies = 1 .. Len(program.tag) /\ Len(program.tag) \in Nat
      BY ProgramFacts
    <2>2. IsFiniteSet(1 .. Len(program.tag))
      BY <2>1, FS_Interval
    <2>3. Cardinality(1 .. Len(program.tag)) \in Nat
      BY <2>2, FS_CardinalityType
    <2>4. QED
      BY <2>1, <2>2, <2>3
  <1>2. Numbered(V) \subseteq Numbered(V \cup {c}) /\ Numbered(V \cup {c}) \subseteq Dies
        /\ Numbered(V) \subseteq Dies
    BY DEF Numbered
  <1>3. /\ IsFiniteSet(Numbered(V)) /\ IsFiniteSet(Numbered(V \cup {c}))
        /\ Cardinality(Numbered(V)) <= Cardinality(Dies)
        /\ Cardinality(Numbered(V)) \in Nat
    BY <1>1, <1>2, FS_Subset, FS_CardinalityType
  <1>4. Cardinality(Numbered(V)) <= Cardinality(Numbered(V \cup {c}))
    BY <1>2, <1>3, FS_Subset
  <1>5. ASSUME c \notin V, program.tag[c] \in {"inlined", "opaque"}
        PROVE  Cardinality(Numbered(V \cup {c})) = Cardinality(Numbered(V)) + 1
    <2>1. Numbered(V \cup {c}) = Numbered(V) \cup {c} /\ c \notin Numbered(V)
      BY <1>5 DEF Numbered
    <2>2. QED
      BY <1>3, <2>1, FS_AddElement
  <1>6. QED
    BY <1>1, <1>3, <1>4, <1>5


(* The scope on the path from an entry is that of its children.            *)
LEMMA ScopeOf ==
  ASSUME program \in Programs, NEW s, NEW e \in Dies, PathTo(s, e), NEW d \in Dies,
         program.up[d] = e
  PROVE  Scopes!IsScopeOf(s, d)
  <1>1. PICK n \in 1 .. e : \E path \in [1 .. n -> Dies] :
          /\ path[1] = e /\ path[n] = s
          /\ \A i \in 1 .. n - 1 : ~ HasScope(path[i]) /\ program.up[path[i]] = path[i + 1]
    BY DEF PathTo
  <1>2. n \in 1 .. Len(program.tag)
    BY ProgramFacts
  <1>3. HasScope(s)
    BY DEF PathTo
  <1>4. QED
    BY <1>1, <1>2, <1>3 DEF Scopes!IsScopeOf, HasScope, Dies

(* Record makes a record of the kind and the entry it is given.            *)
LEMMA RecordFacts ==
  ASSUME program \in Programs, NEW kind \in Scopes!Kinds, NEW d \in Dies,
         NEW bytes \in Nat, bytes >= 2
  PROVE  /\ Scopes!Record(kind, d, bytes) \in RecordType
         /\ Scopes!Record(kind, d, bytes).kind = kind /\ Scopes!Record(kind, d, bytes).die = d
         /\ Scopes!Record(kind, d, bytes).loc = 0
  <1>1. Scopes!Align4(bytes) \in Nat /\ Scopes!Align4(bytes) - 2 \in Nat
    BY DEF Scopes!Align4
  <1>2. QED
    BY <1>1 DEF Scopes!Record, RecordType

(* DefRangeRecord makes one of a location of the entry it is given.        *)
LEMMA DefRangeFacts ==
  ASSUME program \in Programs, NEW d \in Dies, NEW l \in Nat
  PROVE  /\ Scopes!DefRangeRecord(d, l) \in RecordType
         /\ Scopes!DefRangeRecord(d, l).kind = "defrange" /\ Scopes!DefRangeRecord(d, l).die = d
         /\ Scopes!DefRangeRecord(d, l).loc = l
  <1> DEFINE r == Scopes!Record("defrange", d, 16)
  <1>1. r \in RecordType /\ r.kind = "defrange" /\ r.die = d
    BY RecordFacts DEF Scopes!Kinds
  <1>2. Scopes!DefRangeRecord(d, l) = [r EXCEPT !.loc = l]
    BY DEF Scopes!DefRangeRecord
  <1> HIDE DEF r
  <1>3. QED
    BY <1>1, <1>2 DEF RecordType

(* InlineSite makes a record of an inlined subroutine.                     *)
LEMMA InlineSiteFacts ==
  ASSUME program \in Programs, NEW d \in Dies
  PROVE  /\ Scopes!InlineSite(d) \in RecordType
         /\ Scopes!InlineSite(d).kind = "inlinesite" /\ Scopes!InlineSite(d).die = d
  <1>1. program.notes[d] \in Nat
    BY ProgramFacts
  <1>2. Scopes!Align4(16 + program.notes[d]) \in Nat /\ 12 + program.notes[d] \in Nat
    BY <1>1 DEF Scopes!Align4
  <1>3. QED
    BY <1>2 DEF Scopes!InlineSite, RecordType, Scopes!Kinds

(* Two records are appended one after the other.                           *)
LEMMA TwoMore ==
  ASSUME NEW S, NEW s \in Seq(S), NEW a \in S, NEW b \in S
  PROVE  s \o << a, b >> = Append(Append(s, a), b) /\ s \o << a >> = Append(s, a)
  OBVIOUS

-----------------------------------------------------------------------------
(* The steps of the walk.                                                  *)
LEMMA WalkFunction ==
  ASSUME program \in Programs, NEW V, NEW f, NEW g, NEW recs, NEW fn, NEW n,
         Walk(V, f, g, recs, << >>, fn, n),
         NEW c \in Scopes!Functions, c > fn, \A e \in Scopes!Functions : e > fn => c <= e
  PROVE  \E W, h, k : Walk(W, h, k, recs \o << Scopes!Record("proc", c, 40),
                                               Scopes!Record("frameproc", c, 30) >>,
                           << FrameOf(c) >>, c, 0)
  <1> DEFINE r == Scopes!Record("proc", c, 40)
             s == Scopes!Record("frameproc", c, 30)
             q == Append(recs, r)
  <1>1. /\ recs \in Seq(RecordType) /\ fn \in Scopes!Functions \cup {0}
        /\ NestedBy(f, g, recs, << >>)
        /\ Reached(V, << >>, fn) /\ Recorded(V, recs)
    BY DEF Walk
  <1>2. c \in Dies /\ fn \in Nat /\ HasScope(c) /\ ~ IsVariable(c)
    <2>1. program.tag[c] = "function"
      BY DEF Scopes!Functions
    <2>2. QED
      BY <1>1, <2>1, ProgramFacts DEF HasScope, Scopes!HasScope, IsVariable
  <1>3. /\ r \in RecordType /\ r.kind = "proc" /\ r.die = c
        /\ s \in RecordType /\ s.kind = "frameproc" /\ s.die = c
    BY <1>2, RecordFacts DEF Scopes!Kinds
  <1> HIDE DEF r, s
  <1>4. q \in Seq(RecordType) /\ recs \o << r, s >> = Append(q, s)
    BY <1>1, <1>3, TwoMore
  <1> HIDE DEF q
  <1>5. << >> \in Seq(FrameType) /\ Append(<< >>, FrameOf(c)) = << FrameOf(c) >>
        /\ FrameOf(c) \in FrameType /\ FrameOf(c).die = c
    BY <1>2 DEF FrameOf, FrameType, Scopes!Children, Dies
  <1>6. PICK h1, k : NestedBy(h1, k, q, << FrameOf(c) >>)
    BY <1>1, <1>2, <1>3, <1>5, ScopeOpened DEF q
  <1>7. PICK h : NestedBy(h, k, Append(q, s), << FrameOf(c) >>)
    BY <1>3, <1>4, <1>6, RecordInScope
  <1>8. Reached(V \cup {c}, << FrameOf(c) >>, c)
    BY <1>1, <1>2, FunctionReached
  <1>9. Recorded(V \cup {c}, Append(q, s))
    <2>1. Recorded(V \cup {c}, recs)
      BY <1>1, <1>2, RecordedMore
    <2>2. Recorded(V \cup {c}, q)
      BY <1>1, <1>3, <2>1, RecordedSame DEF q
    <2>3. QED
      BY <1>3, <1>4, <2>2, RecordedSame
  <1>10. Activated(<< FrameOf(c) >>)
    <2>1. Activated(<< >>)
      BY DEF Walk
    <2>2. QED
      BY <1>2, <1>5, <2>1, ActivatedMore
  <1>11. 0 <= Cardinality(Numbered(V \cup {c}))
    <2>1. V \subseteq Dies
      BY <1>1 DEF Reached
    <2>2. QED
      BY <1>2, <2>1, NumberedMore
  <1>12. Walk(V \cup {c}, h, k, Append(q, s), << FrameOf(c) >>, c, 0)
    <2>1. Append(q, s) \in Seq(RecordType)
      BY <1>3, <1>4
    <2>2. QED
      BY <1>7, <1>8, <1>9, <1>10, <1>11, <2>1 DEF Walk
  <1>13. QED
    BY <1>4, <1>12 DEF r, s

(* An entry without a scope of its own.                                    *)
LEMMA WalkBlock ==
  ASSUME program \in Programs, NEW V, NEW f, NEW g, NEW recs, NEW st, NEW fn, NEW n,
         Walk(V, f, g, recs, st, fn, n), st # << >>, NEW c \in LastOf(st).todo,
         ~ HasScope(c), ~ IsVariable(c), NEW m \in Nat,
         m = n \/ (m = n + 1 /\ program.tag[c] \in {"inlined", "opaque"})
  PROVE  \E W, h, k : Walk(W, h, k, recs, Append(Advance(st, c), FrameOf(c)), fn, m)
  <1> DEFINE a == Advance(st, c)
  <1>1. /\ recs \in Seq(RecordType) /\ Activated(st) /\ fn \in Scopes!Functions \cup {0}
        /\ NestedBy(f, g, recs, st)
        /\ Reached(V, st, fn) /\ Recorded(V, recs)
        /\ n \in Nat /\ n <= Cardinality(Numbered(V))
    BY DEF Walk
  <1>2. /\ a \in Seq(FrameType) /\ st \in Seq(FrameType) /\ a # << >> /\ Len(a) = Len(st)
        /\ \A i \in 1 .. Len(st) : a[i].die = st[i].die
        /\ LastOf(a).die = LastOf(st).die
    BY <1>1, AdvanceKeeps
  <1>3. c \in Dies /\ program.up[c] = LastOf(st).die
    BY <1>1, ChildOnTop
  <1> HIDE DEF a
  <1>4. NestedBy(f, g, recs, a)
    BY <1>1, <1>2, SameActivations
  <1>5. FrameOf(c) \in FrameType /\ FrameOf(c).die = c
    BY <1>3 DEF FrameOf, FrameType, Scopes!Children, Dies
  <1>6. PICK k : NestedBy(f, k, recs, Append(a, FrameOf(c)))
    BY <1>2, <1>3, <1>4, <1>5, ActivationInScope
  <1>7. Reached(V \cup {c}, Append(a, FrameOf(c)), fn) /\ Activated(Append(a, FrameOf(c)))
    BY <1>1, EntryReached DEF a
  <1>8. Recorded(V \cup {c}, recs)
    BY <1>1, <1>3, RecordedMore
  <1>9. m <= Cardinality(Numbered(V \cup {c}))
    <2>1. V \subseteq Dies /\ c \notin V
      BY <1>1, NotYetReached DEF Reached
    <2>2. QED
      BY <1>1, <1>3, <2>1, NumberedMore
  <1>10. Walk(V \cup {c}, f, k, recs, Append(a, FrameOf(c)), fn, m)
    BY <1>1, <1>6, <1>7, <1>8, <1>9 DEF Walk
  <1>11. QED
    BY <1>10 DEF a

(* An inlined subroutine opens a scope and is descended into.              *)
LEMMA WalkSite ==
  ASSUME program \in Programs, NEW V, NEW f, NEW g, NEW recs, NEW st, NEW fn, NEW n,
         Walk(V, f, g, recs, st, fn, n), st # << >>, NEW c \in LastOf(st).todo,
         program.tag[c] = "inlined"
  PROVE  \E W, h, k : Walk(W, h, k, Append(recs, Scopes!InlineSite(c)),
                           Append(Advance(st, c), FrameOf(c)), fn, n + 1)
  <1> DEFINE a == Advance(st, c)
             r == Scopes!InlineSite(c)
  <1>1. /\ recs \in Seq(RecordType) /\ Activated(st) /\ fn \in Scopes!Functions \cup {0}
        /\ NestedBy(f, g, recs, st)
        /\ Reached(V, st, fn) /\ Recorded(V, recs)
        /\ n \in Nat /\ n <= Cardinality(Numbered(V))
    BY DEF Walk
  <1>2. /\ a \in Seq(FrameType) /\ st \in Seq(FrameType) /\ a # << >> /\ Len(a) = Len(st)
        /\ \A i \in 1 .. Len(st) : a[i].die = st[i].die
    BY <1>1, AdvanceKeeps
  <1>3. c \in Dies /\ HasScope(c) /\ ~ IsVariable(c)
    BY <1>1, ChildOnTop DEF HasScope, Scopes!HasScope, IsVariable
  <1> HIDE DEF a
  <1>4. NestedBy(f, g, recs, a)
    BY <1>1, <1>2, SameActivations
  <1>5. FrameOf(c) \in FrameType /\ FrameOf(c).die = c
    BY <1>3 DEF FrameOf, FrameType, Scopes!Children, Dies
  <1>6. r \in RecordType /\ r.kind = "inlinesite" /\ r.die = c
    BY <1>3, InlineSiteFacts
  <1> HIDE DEF r
  <1>7. PICK h, k : NestedBy(h, k, Append(recs, r), Append(a, FrameOf(c)))
    BY <1>1, <1>2, <1>3, <1>4, <1>5, <1>6, ScopeOpened
  <1>8. Reached(V \cup {c}, Append(a, FrameOf(c)), fn) /\ Activated(Append(a, FrameOf(c)))
    BY <1>1, EntryReached DEF a
  <1>9. Recorded(V \cup {c}, Append(recs, r))
    <2>1. Recorded(V \cup {c}, recs)
      BY <1>1, <1>3, RecordedMore
    <2>2. QED
      BY <1>1, <1>6, <2>1, RecordedSame
  <1>10. n + 1 \in Nat /\ n + 1 <= Cardinality(Numbered(V \cup {c}))
    <2>1. V \subseteq Dies /\ c \notin V
      BY <1>1, NotYetReached DEF Reached
    <2>2. QED
      BY <1>1, <1>3, <2>1, NumberedMore
  <1>11. Walk(V \cup {c}, h, k, Append(recs, r), Append(a, FrameOf(c)), fn, n + 1)
    <2>1. Append(recs, r) \in Seq(RecordType)
      BY <1>1, <1>6
    <2>2. QED
      BY <1>1, <1>7, <1>8, <1>9, <1>10, <2>1 DEF Walk
  <1>12. QED
    BY <1>11 DEF a, r

(* A hidden variable leaves the records as they are.                       *)
LEMMA WalkHidden ==
  ASSUME program \in Programs, NEW V, NEW f, NEW g, NEW recs, NEW st, NEW fn, NEW n,
         Walk(V, f, g, recs, st, fn, n), st # << >>, NEW c \in LastOf(st).todo,
         program.tag[c] = "hidden"
  PROVE  \E W, h, k : Walk(W, h, k, recs, Advance(st, c), fn, n)
  <1>1. /\ recs \in Seq(RecordType) /\ Activated(st) /\ fn \in Scopes!Functions \cup {0}
        /\ NestedBy(f, g, recs, st)
        /\ Reached(V, st, fn) /\ Recorded(V, recs)
        /\ n \in Nat /\ n <= Cardinality(Numbered(V))
    BY DEF Walk
  <1>2. c \in Dies /\ ~ IsVariable(c)
    BY <1>1, ChildOnTop DEF IsVariable
  <1>3. NestedBy(f, g, recs, Advance(st, c)) /\ Activated(Advance(st, c))
    BY ZenonT(60), <1>1, AdvanceFacts, SameActivations
  <1>4. Reached(V \cup {c}, Advance(st, c), fn) /\ Recorded(V \cup {c}, recs)
    BY <1>1, <1>2, LeafReached, RecordedMore
  <1>5. n <= Cardinality(Numbered(V \cup {c}))
    <2>1. V \subseteq Dies
      BY <1>1 DEF Reached
    <2>2. QED
      BY <1>1, <1>2, <2>1, NumberedMore
  <1>6. Walk(V \cup {c}, f, g, recs, Advance(st, c), fn, n)
    BY <1>1, <1>3, <1>4, <1>5 DEF Walk
  <1>7. QED
    BY <1>6

(* A variable is recorded in the scope its entry is in.                    *)
LEMMA WalkVariable ==
  ASSUME program \in Programs, NEW V, NEW f, NEW g, NEW recs, NEW st, NEW fn, NEW n,
         Walk(V, f, g, recs, st, fn, n), st # << >>, NEW c \in LastOf(st).todo,
         IsVariable(c)
  PROVE  \E W, h, k : Walk(W, h, k, Append(recs, Scopes!Record("local", c, 10)),
                           Advance(st, c), fn, n)
  <1> DEFINE r == Scopes!Record("local", c, 10)
             q == Append(recs, r)
             a == Advance(st, c)
  <1>1. /\ recs \in Seq(RecordType) /\ Activated(st) /\ fn \in Scopes!Functions \cup {0}
        /\ NestedBy(f, g, recs, st)
        /\ Reached(V, st, fn) /\ Recorded(V, recs)
        /\ n \in Nat /\ n <= Cardinality(Numbered(V))
    BY DEF Walk
  <1>2. c \in Dies /\ program.up[c] = LastOf(st).die /\ LastOf(st) \in FrameType
        /\ LastOf(st).die \in Dies
    BY <1>1, ChildOnTop DEF FrameType
  <1>3. /\ a \in Seq(FrameType) /\ st \in Seq(FrameType) /\ Len(a) = Len(st) /\ Activated(a)
        /\ \A i \in 1 .. Len(st) : a[i].die = st[i].die
        /\ Len(st) \in 1 .. Len(st)
    BY <1>1, AdvanceKeeps
  <1>4. Reached(V \cup {c}, a, fn) /\ c \notin V
    BY <1>1, LeafReached, NotYetReached DEF IsVariable
  <1>5. n <= Cardinality(Numbered(V \cup {c}))
    <2>1. V \subseteq Dies
      BY <1>1 DEF Reached
    <2>2. QED
      BY <1>1, <1>2, <2>1, NumberedMore
  <1> HIDE DEF a
  <1>6. r \in RecordType /\ r.kind = "local" /\ r.die = c
    BY <1>2, RecordFacts DEF Scopes!Kinds
  <1> HIDE DEF r
  <1>7. q \in Seq(RecordType)
    BY <1>1, <1>6
  <1>8. g[Len(a)] # << >> /\ Scopes!IsScopeOf(LastOf(g[Len(a)]), c)
    <2>1. g[Len(st)] # << >> /\ PathTo(LastOf(g[Len(st)]), LastOf(st).die)
      BY <1>1, <1>3, NestedFacts DEF LastOf
    <2>2. QED
      BY <1>2, <1>3, <2>1, ScopeOf
  <1>9. NestedBy(f, g, recs, a)
    BY <1>1, <1>3, SameActivations
  <1>10. PICK h : NestedBy(h, g, q, a)
    BY <1>1, <1>6, <1>8, <1>9, RecordInScope
  <1>11. Recorded(V \cup {c}, q)
    BY <1>1, <1>2, <1>4, <1>6, RecordedLocal
  <1> HIDE DEF q
  <1>12. Walk(V \cup {c}, h, g, q, a, fn, n)
    BY <1>1, <1>3, <1>4, <1>5, <1>7, <1>10, <1>11 DEF Walk
  <1>13. QED
    BY <1>12 DEF a, q, r

(* A def-range is in the scope its variable is in.                         *)
LEMMA WalkRange ==
  ASSUME program \in Programs, NEW V, NEW f, NEW g, NEW recs, NEW st, NEW fn, NEW n,
         Walk(V, f, g, recs, st, fn, n), NEW r \in RecordType, r.kind = "defrange"
  PROVE  \E h : Walk(V, h, g, Append(recs, r), st, fn, n)
  <1>1. /\ recs \in Seq(RecordType) /\ NestedBy(f, g, recs, st) /\ Recorded(V, recs)
    BY DEF Walk
  <1>2. PICK h : NestedBy(h, g, Append(recs, r), st)
    BY <1>1, RecordInScope
  <1>3. Recorded(V, Append(recs, r)) /\ Append(recs, r) \in Seq(RecordType)
    BY <1>1, RecordedSame
  <1>4. Walk(V, h, g, Append(recs, r), st, fn, n)
    BY <1>2, <1>3 DEF Walk
  <1>5. QED
    BY <1>4

(* A return closes the scope that was opened, if one was.                  *)
LEMMA WalkReturn ==
  ASSUME program \in Programs, NEW V, NEW f, NEW g, NEW recs, NEW st, NEW fn, NEW n,
         Walk(V, f, g, recs, st, fn, n), st # << >>, LastOf(st).todo = {}
  PROVE  \E h, k : Walk(V, h, k, IF HasScope(LastOf(st).die)
                                   THEN Append(recs, Scopes!End(LastOf(st).die)) ELSE recs,
                        SubSeq(st, 1, Len(st) - 1), fn, n)
  <1> DEFINE r == Scopes!End(LastOf(st).die)
             q == SubSeq(st, 1, Len(st) - 1)
  <1>1. /\ recs \in Seq(RecordType) /\ Activated(st) /\ fn \in Scopes!Functions \cup {0}
        /\ NestedBy(f, g, recs, st)
        /\ Reached(V, st, fn) /\ Recorded(V, recs)
        /\ n \in Nat /\ n <= Cardinality(Numbered(V))
    BY DEF Walk
  <1>2. Activated(q) /\ Reached(V, q, fn)
    BY <1>1, ActivatedLess, ReturnReached
  <1>3. st \in Seq(FrameType) /\ LastOf(st) \in FrameType /\ LastOf(st).die \in Dies
    <2>1. st \in Seq(FrameType)
      BY <1>1 DEF Activated
    <2>2. LastOf(st) = st[Len(st)] /\ Len(st) \in 1 .. Len(st)
      BY <2>1, Popped
    <2>3. LastOf(st) \in FrameType
      BY <2>1, <2>2
    <2>4. QED
      BY <2>1, <2>3 DEF FrameType
  <1>4. r \in RecordType /\ r.kind = "end"
    BY <1>3, RecordFacts DEF Scopes!End, Scopes!Kinds
  <1> HIDE DEF r, q
  <1>5. CASE HasScope(LastOf(st).die)
    <2>1. PICK h, k : NestedBy(h, k, Append(recs, r), q)
      BY <1>1, <1>3, <1>4, <1>5, ScopeClosed DEF q
    <2>2. Recorded(V, Append(recs, r))
      BY <1>1, <1>4, RecordedSame
    <2>3. Append(recs, r) \in Seq(RecordType)
      BY <1>1, <1>4
    <2>4. Walk(V, h, k, Append(recs, r), q, fn, n)
      BY <1>1, <1>2, <2>1, <2>2, <2>3 DEF Walk
    <2>5. QED
      BY <1>5, <2>4 DEF r, q
  <1>6. CASE ~ HasScope(LastOf(st).die)
    <2>1. PICK k : NestedBy(f, k, recs, q)
      BY <1>1, <1>3, <1>6, ReturnToBlock DEF q
    <2>2. Walk(V, f, k, recs, q, fn, n)
      BY <1>1, <1>2, <2>1 DEF Walk
    <2>3. QED
      BY <1>6, <2>2 DEF q
  <1>7. QED
    BY <1>5, <1>6


-----------------------------------------------------------------------------
(* The walk changes nothing of the program.                                *)
LEMMA SameShapes ==
  ASSUME program' = program
  PROVE  /\ Dies' = Dies /\ Scopes!Functions' = Scopes!Functions
         /\ FrameType' = FrameType /\ RecordType' = RecordType
  BY DEF Dies, Scopes!Dies, Scopes!Functions, FrameType, RecordType, Scopes!Kinds

(* The walk is about the tree, which never changes.                        *)
LEMMA SameProgram ==
  ASSUME program' = program, NEW V, NEW f, NEW g, NEW recs, NEW st, NEW fn, NEW n,
         Walk(V, f, g, recs, st, fn, n)
  PROVE  Walk(V, f, g, recs, st, fn, n)'
  <1>1. /\ Dies' = Dies /\ Scopes!Functions' = Scopes!Functions
        /\ FrameType' = FrameType /\ RecordType' = RecordType
    BY SameShapes
  <1>2. NestedBy(f, g, recs, st)'
    <2>1. NestedBy(f, g, recs, st)
      BY DEF Walk
    <2>2. Reads(f, recs)' /\ Nests(g, st)'
      BY <2>1 DEF NestedBy, Reads, Nests, After, Scopes!After, Within, HasScope, Scopes!HasScope
    <2>3. \A s, e : PathTo(s, e)' <=> PathTo(s, e)
      BY <1>1 DEF PathTo, HasScope, Scopes!HasScope
    <2>4. \A s, d : Scopes!IsScopeOf(s, d)' <=> Scopes!IsScopeOf(s, d)
      BY DEF Scopes!IsScopeOf, Scopes!HasScope, Scopes!Dies
    <2>5. QED
      BY <1>1, <2>1, <2>2, <2>3, <2>4 DEF NestedBy, LastOf
  <1>3. Activated(st)'
    <2>1. Activated(st)
      BY DEF Walk
    <2>2. QED
      BY <1>1, <2>1 DEF Activated, Scopes!Children, Scopes!Dies
  <1>4. Reached(V, st, fn)'
    <2>1. Reached(V, st, fn)
      BY DEF Walk
    <2>2. QED
      BY <1>1, <2>1 DEF Reached
  <1>5. Recorded(V, recs)'
    <2>1. Recorded(V, recs)
      BY DEF Walk
    <2>2. QED
      BY <1>1, <2>1 DEF Recorded, IsVariable, LocalsIn
  <1>6. Numbered(V)' = Numbered(V)
    BY DEF Numbered
  <1>7. (recs \in Seq(RecordType))' /\ (fn \in Scopes!Functions \cup {0})'
    BY <1>1 DEF Walk
  <1>8. n \in Nat /\ n <= Cardinality(Numbered(V))
    BY DEF Walk
  <1>9. QED
    BY <1>2, <1>3, <1>4, <1>5, <1>6, <1>7, <1>8 DEF Walk

(* Before the first function there is no record.                           *)
LEMMA ScopesInit == Scopes!Init => ScopeInv
  <1> SUFFICES ASSUME Scopes!Init PROVE ScopeInv
    OBVIOUS
  <1>1. /\ program \in Programs /\ func = 0 /\ stack = << >> /\ inline_site_counter = 0
        /\ site = [d \in DOMAIN program.tag |-> 0] /\ records = << >>
    BY DEF Scopes!Init
  <1>2. PICK f, g : NestedBy(f, g, << >>, << >>)
    BY NothingNested
  <1>3. Dies = 1 .. Len(program.tag) /\ Len(program.tag) \in Nat /\ Dies \subseteq Nat \ {0}
        /\ Scopes!Functions \subseteq Dies
        /\ \A d \in Dies \ Scopes!Functions : program.up[d] \in Dies
    BY <1>1, ProgramFacts
  <1>4. Cardinality(Dies) \in Nat /\ Cardinality(Numbered({})) = 0
    <2>1. IsFiniteSet(Dies)
      BY <1>3, FS_Interval
    <2>2. Numbered({}) = {}
      BY DEF Numbered
    <2>3. QED
      BY <2>1, <2>2, FS_CardinalityType, FS_EmptySet
  <1>5. Reached({}, << >>, 0) /\ Recorded({}, << >>) /\ Activated(<< >>)
    <2>1. Len(<< >>) = 0 /\ 1 .. 0 = {}
      OBVIOUS
    <2>2. Reached({}, << >>, 0)
      BY <1>3, <2>1 DEF Reached
    <2>3. Recorded({}, << >>)
      BY <2>1 DEF Recorded, LocalsIn
    <2>4. Activated(<< >>)
      BY <2>1 DEF Activated
    <2>5. QED
      BY <2>2, <2>3, <2>4
  <1>6. Walk({}, f, g, << >>, << >>, 0, 0)
    BY <1>2, <1>4, <1>5 DEF Walk
  <1>7. site \in [Dies -> 0 .. Cardinality(Dies)]
    BY <1>1, <1>4 DEF Dies, Scopes!Dies
  <1>8. QED
    BY <1>1, <1>6, <1>7 DEF ScopeInv

(* A state of the walk gives the invariant of the next state.              *)
LEMMA WalkedTo ==
  ASSUME program \in Programs, program' = program,
         NEW V, NEW f, NEW g, NEW recs, NEW st, NEW fn, NEW n, Walk(V, f, g, recs, st, fn, n),
         records' = recs, stack' = st, func' = fn, inline_site_counter' = n,
         site' \in [Dies -> 0 .. Cardinality(Dies)]
  PROVE  ScopeInv'
  <1>1. Walk(V, f, g, recs, st, fn, n)'
    BY SameProgram
  <1>2. (site \in [Dies -> 0 .. Cardinality(Dies)])'
    BY SameShapes
  <1>3. QED
    BY <1>1, <1>2 DEF ScopeInv


(* The child the loop visits is one the top has not visited.               *)
LEMMA ChildFacts ==
  ASSUME program \in Programs, Activated(stack), stack # << >>, Scopes!Top.todo # {}
  PROVE  /\ Scopes!Next1 \in LastOf(stack).todo /\ Scopes!Next1 \in Dies
         /\ Scopes!Advanced = Advance(stack, Scopes!Next1)
         /\ Scopes!Descended = Append(Advance(stack, Scopes!Next1), FrameOf(Scopes!Next1))
  <1> DEFINE T == Scopes!Top.todo
  <1>1. Scopes!Top = LastOf(stack)
    BY DEF Scopes!Top, LastOf
  <1>2. T \in SUBSET Nat
    <2>1. stack \in Seq(FrameType)
      BY DEF Activated
    <2>2. LastOf(stack) \in FrameType
      <3>1. LastOf(stack) = stack[Len(stack)] /\ Len(stack) \in 1 .. Len(stack)
        BY <2>1, Popped
      <3>2. QED
        BY <2>1, <3>1
    <2>3. QED
      BY <1>1, <2>2, ProgramFacts DEF FrameType
  <1>3. \E c \in T : \A e \in T : c <= e
    BY <1>2, Least
  <1>4. Scopes!Next1 \in T
    BY <1>3 DEF Scopes!Next1
  <1>5. Scopes!Next1 \in Dies
    BY <1>1, <1>4, ChildOnTop
  <1>6. Scopes!Advanced = Advance(stack, Scopes!Next1)
    BY DEF Scopes!Advanced, Advance
  <1>7. Scopes!Descended = Append(Advance(stack, Scopes!Next1), FrameOf(Scopes!Next1))
    BY <1>6 DEF Scopes!Descended, Scopes!Activation, FrameOf
  <1>8. QED
    BY <1>1, <1>4, <1>5, <1>6, <1>7

(* The functions are walked upwards, without a gap.                        *)
LEMMA NextFunctionFacts ==
  ASSUME program \in Programs, func \in Scopes!Functions \cup {0}, ~ Scopes!NoMoreFunctions
  PROVE  /\ Scopes!NextFunction \in Scopes!Functions /\ Scopes!NextFunction > func
         /\ \A e \in Scopes!Functions : e > func => Scopes!NextFunction <= e
  <1> DEFINE T == { d \in Scopes!Functions : d > func }
  <1>1. Scopes!Functions \subseteq Nat /\ func \in Nat
    <2>1. Scopes!Functions \subseteq Dies /\ Dies \subseteq Nat \ {0}
      BY ProgramFacts
    <2>2. QED
      BY <2>1
  <1>2. T \in SUBSET Nat /\ T # {}
    <2>1. PICK d \in Scopes!Functions : ~ (d <= func)
      BY DEF Scopes!NoMoreFunctions
    <2>2. d \in Nat /\ d > func
      BY <1>1, <2>1
    <2>3. d \in T
      BY <2>2
    <2>4. QED
      BY <1>1, <2>3
  <1>3. \E d \in T : \A e \in T : d <= e
    BY <1>2, Least
  <1>4. \E d \in Scopes!Functions : d > func /\ \A e \in Scopes!Functions : e > func => d <= e
    BY <1>3
  <1>5. QED
    BY <1>4 DEF Scopes!NextFunction

(* A site gets its number only for itself.                                 *)
LEMMA NumberSiteFacts ==
  ASSUME site \in [Dies -> 0 .. Cardinality(Dies)], Scopes!Next1 \in Dies, Scopes!NumberSite,
         inline_site_counter \in Nat, inline_site_counter + 1 <= Cardinality(Dies),
         Cardinality(Dies) \in Nat
  PROVE  site' \in [Dies -> 0 .. Cardinality(Dies)] /\ inline_site_counter' = inline_site_counter + 1
  BY DEF Scopes!NumberSite

(* Every step of the recursion keeps the invariant of the walk.            *)
LEMMA ScopesNext ==
  ASSUME ScopeInv, child \in Dies \cup {0}, loc_expr \in Nat, Scopes!Next
  PROVE  ScopeInv'
  <1>1. program \in Programs /\ site \in [Dies -> 0 .. Cardinality(Dies)] /\ program' = program
    BY DEF ScopeInv, Scopes!Next, Scopes!BeginFunction, Scopes!LexicalBlock,
           Scopes!InlinedSubroutine, Scopes!OpaqueSubroutine, Scopes!Variable,
           Scopes!InLocations, Scopes!EmitDefRange, Scopes!NextLocation, Scopes!EndOfLocations,
           Scopes!HiddenVariable, Scopes!Return
  <1>2. PICK recs, st, fn, n :
          /\ recs = records /\ st = stack /\ fn = func /\ n = inline_site_counter
          /\ \E V, f, g : Walk(V, f, g, recs, st, fn, n)
    BY DEF ScopeInv
  <1>3. PICK V, f, g : Walk(V, f, g, recs, st, fn, n)
    BY <1>2
  <1>4. Activated(st) /\ Activated(stack) /\ n \in Nat /\ V \subseteq Dies
        /\ func \in Scopes!Functions \cup {0}
    BY <1>2, <1>3 DEF Walk, Reached
  <1>5. ASSUME Scopes!BeginFunction PROVE ScopeInv'
    <2>1. PICK c : c = Scopes!NextFunction
      OBVIOUS
    <2>2. c \in Scopes!Functions /\ c > fn /\ \A e \in Scopes!Functions : e > fn => c <= e
      BY <1>1, <1>2, <1>4, <1>5, <2>1, NextFunctionFacts DEF Scopes!BeginFunction
    <2>3. st = << >> /\ func' = c /\ inline_site_counter' = 0 /\ site' = site
      BY <1>2, <1>5, <2>1 DEF Scopes!BeginFunction
    <2>4. /\ records' = recs \o << Scopes!Record("proc", c, 40), Scopes!Record("frameproc", c, 30) >>
          /\ stack' = << FrameOf(c) >>
      BY <1>1, <1>2, <1>5, <2>3 DEF Scopes!BeginFunction, Scopes!Activation, FrameOf,
         Scopes!Children, Scopes!Dies, Scopes!Record, Scopes!Align4
    <2>5. PICK W, h, k : Walk(W, h, k, recs \o << Scopes!Record("proc", c, 40),
                                                 Scopes!Record("frameproc", c, 30) >>,
                              << FrameOf(c) >>, c, 0)
      <3>1. Walk(V, f, g, recs, << >>, fn, n)
        BY <1>3, <2>3
      <3>2. QED
        BY <1>1, <2>2, <3>1, WalkFunction
    <2>6. PICK r2, s2 : r2 = recs \o << Scopes!Record("proc", c, 40),
                                        Scopes!Record("frameproc", c, 30) >>
                        /\ s2 = << FrameOf(c) >>
      OBVIOUS
    <2>7. Walk(W, h, k, r2, s2, c, 0) /\ records' = r2 /\ stack' = s2
      BY <2>4, <2>5, <2>6
    <2>8. QED
      BY <1>1, <2>3, <2>7, WalkedTo
  <1>6. ASSUME NEW tag, Scopes!Is(tag)
        PROVE  /\ st # << >> /\ Scopes!Next1 \in LastOf(st).todo /\ Scopes!Next1 \in Dies
               /\ program.tag[Scopes!Next1] = tag /\ Scopes!Next1 \notin V
               /\ Scopes!Advanced = Advance(st, Scopes!Next1)
               /\ Scopes!Descended = Append(Advance(st, Scopes!Next1), FrameOf(Scopes!Next1))
    <2>1. /\ stack # << >> /\ Scopes!Top.todo # {} /\ program.tag[Scopes!Next1] = tag
      BY <1>6 DEF Scopes!Is
    <2>2. /\ Scopes!Next1 \in LastOf(stack).todo /\ Scopes!Next1 \in Dies
          /\ Scopes!Advanced = Advance(stack, Scopes!Next1)
          /\ Scopes!Descended = Append(Advance(stack, Scopes!Next1), FrameOf(Scopes!Next1))
      BY <1>1, <1>4, <2>1, ChildFacts
    <2>3. Scopes!Next1 \notin V
      BY <1>1, <1>2, <1>3, <2>1, <2>2, NotYetReached DEF Walk
    <2>4. QED
      BY <1>2, <2>1, <2>2, <2>3
  <1>7. ASSUME Scopes!LexicalBlock PROVE ScopeInv'
    <2>1. PICK c : c = Scopes!Next1
      OBVIOUS
    <2>2. /\ st # << >> /\ c \in LastOf(st).todo /\ program.tag[c] = "block"
          /\ stack' = Append(Advance(st, c), FrameOf(c))
      BY <1>6, <1>7, <2>1 DEF Scopes!LexicalBlock
    <2>3. records' = recs /\ func' = fn /\ inline_site_counter' = n /\ site' = site
      BY <1>2, <1>7 DEF Scopes!LexicalBlock
    <2>4. ~ HasScope(c) /\ ~ IsVariable(c)
      BY <2>2 DEF HasScope, Scopes!HasScope, IsVariable
    <2>5. PICK W, h, k : Walk(W, h, k, recs, Append(Advance(st, c), FrameOf(c)), fn, n)
      BY <1>1, <1>3, <1>4, <2>2, <2>4, WalkBlock
    <2>6. PICK s2 : s2 = Append(Advance(st, c), FrameOf(c))
      OBVIOUS
    <2>7. Walk(W, h, k, recs, s2, fn, n) /\ stack' = s2
      BY <2>2, <2>5, <2>6
    <2>8. QED
      BY <1>1, <2>3, <2>7, WalkedTo
  <1>8. ASSUME Scopes!Is("inlined") \/ Scopes!Is("opaque"), Scopes!NumberSite
        PROVE  site' \in [Dies -> 0 .. Cardinality(Dies)] /\ inline_site_counter' = n + 1
    <2>1. PICK c : c = Scopes!Next1
      OBVIOUS
    <2>2. c \in Dies \ V /\ program.tag[c] \in {"inlined", "opaque"}
      BY <1>6, <1>8, <2>1
    <2>3. n + 1 <= Cardinality(Dies) /\ Cardinality(Dies) \in Nat
      <3>1. n <= Cardinality(Numbered(V))
        BY <1>3 DEF Walk
      <3>2. /\ Cardinality(Numbered(V)) \in Nat /\ Cardinality(Dies) \in Nat
            /\ Cardinality(Numbered(V \cup {c})) = Cardinality(Numbered(V)) + 1
        BY <1>1, <1>4, <2>2, NumberedMore
      <3>3. Cardinality(Numbered(V \cup {c})) <= Cardinality(Dies)
        <4>1. V \cup {c} \subseteq Dies
          BY <1>4, <2>2
        <4>2. QED
          BY <1>1, <2>2, <4>1, NumberedMore
      <3>4. QED
        BY <1>4, <3>1, <3>2, <3>3
    <2>4. QED
      BY <1>1, <1>2, <1>4, <1>8, <2>1, <2>2, <2>3, NumberSiteFacts
  <1>9. ASSUME Scopes!InlinedSubroutine PROVE ScopeInv'
    <2>1. PICK c : c = Scopes!Next1
      OBVIOUS
    <2>2. Scopes!Is("inlined") /\ Scopes!NumberSite
      BY <1>9 DEF Scopes!InlinedSubroutine
    <2>3. /\ st # << >> /\ c \in LastOf(st).todo /\ program.tag[c] = "inlined"
          /\ stack' = Append(Advance(st, c), FrameOf(c))
      BY <1>6, <1>9, <2>1, <2>2 DEF Scopes!InlinedSubroutine
    <2>4. records' = Append(recs, Scopes!InlineSite(c)) /\ func' = fn
      BY <1>2, <1>9, <2>1 DEF Scopes!InlinedSubroutine
    <2>5. site' \in [Dies -> 0 .. Cardinality(Dies)] /\ inline_site_counter' = n + 1
      BY <1>8, <2>2
    <2>6. PICK W, h, k : Walk(W, h, k, Append(recs, Scopes!InlineSite(c)),
                              Append(Advance(st, c), FrameOf(c)), fn, n + 1)
      BY <1>1, <1>3, <2>3, WalkSite
    <2>7. PICK r2, s2, m : /\ r2 = Append(recs, Scopes!InlineSite(c))
                           /\ s2 = Append(Advance(st, c), FrameOf(c)) /\ m = n + 1
      OBVIOUS
    <2>8. Walk(W, h, k, r2, s2, fn, m) /\ records' = r2 /\ stack' = s2 /\ inline_site_counter' = m
      BY <2>3, <2>4, <2>5, <2>6, <2>7
    <2>9. QED
      BY <1>1, <2>4, <2>5, <2>8, WalkedTo
  <1>10. ASSUME Scopes!OpaqueSubroutine PROVE ScopeInv'
    <2>1. PICK c : c = Scopes!Next1
      OBVIOUS
    <2>2. Scopes!Is("opaque") /\ Scopes!NumberSite
      BY <1>10 DEF Scopes!OpaqueSubroutine
    <2>3. /\ st # << >> /\ c \in LastOf(st).todo /\ program.tag[c] = "opaque"
          /\ stack' = Append(Advance(st, c), FrameOf(c))
      BY <1>6, <1>10, <2>1, <2>2 DEF Scopes!OpaqueSubroutine, Scopes!KeepsChildren
    <2>4. records' = recs /\ func' = fn
      BY <1>2, <1>10 DEF Scopes!OpaqueSubroutine
    <2>5. site' \in [Dies -> 0 .. Cardinality(Dies)] /\ inline_site_counter' = n + 1
      BY <1>8, <2>2
    <2>6. PICK m : m = n + 1
      OBVIOUS
    <2>7. ~ HasScope(c) /\ ~ IsVariable(c) /\ m \in Nat
      BY <1>4, <2>3, <2>6 DEF HasScope, Scopes!HasScope, IsVariable
    <2>8. PICK W, h, k : Walk(W, h, k, recs, Append(Advance(st, c), FrameOf(c)), fn, m)
      BY <1>1, <1>3, <2>3, <2>6, <2>7, WalkBlock
    <2>9. PICK s2 : s2 = Append(Advance(st, c), FrameOf(c))
      OBVIOUS
    <2>10. Walk(W, h, k, recs, s2, fn, m) /\ stack' = s2 /\ inline_site_counter' = m
      BY <2>3, <2>5, <2>6, <2>8, <2>9
    <2>11. QED
      BY <1>1, <2>4, <2>5, <2>10, WalkedTo
  <1>11. ASSUME Scopes!Variable PROVE ScopeInv'
    <2>1. PICK c : c = Scopes!Next1
      OBVIOUS
    <2>2. /\ st # << >> /\ c \in LastOf(st).todo /\ IsVariable(c) /\ stack' = Advance(st, c)
      BY <1>6, <1>11, <2>1 DEF Scopes!Variable, IsVariable
    <2>3. /\ records' = Append(recs, Scopes!Record("local", c, 10))
          /\ func' = fn /\ inline_site_counter' = n /\ site' = site
      BY <1>2, <1>11, <2>1 DEF Scopes!Variable
    <2>4. PICK W, h, k : Walk(W, h, k, Append(recs, Scopes!Record("local", c, 10)),
                              Advance(st, c), fn, n)
      BY <1>1, <1>3, <2>2, WalkVariable
    <2>5. PICK r2, s2 : /\ r2 = Append(recs, Scopes!Record("local", c, 10))
                        /\ s2 = Advance(st, c)
      OBVIOUS
    <2>6. Walk(W, h, k, r2, s2, fn, n) /\ records' = r2 /\ stack' = s2
      BY <2>2, <2>3, <2>4, <2>5
    <2>7. QED
      BY <1>1, <2>3, <2>6, WalkedTo
  <1>12. ASSUME Scopes!HiddenVariable PROVE ScopeInv'
    <2>1. PICK c : c = Scopes!Next1
      OBVIOUS
    <2>2. /\ st # << >> /\ c \in LastOf(st).todo /\ program.tag[c] = "hidden"
          /\ stack' = Advance(st, c)
      BY <1>6, <1>12, <2>1 DEF Scopes!HiddenVariable
    <2>3. records' = recs /\ func' = fn /\ inline_site_counter' = n /\ site' = site
      BY <1>2, <1>12 DEF Scopes!HiddenVariable
    <2>4. PICK W, h, k : Walk(W, h, k, recs, Advance(st, c), fn, n)
      BY <1>1, <1>3, <2>2, WalkHidden
    <2>5. PICK s2 : s2 = Advance(st, c)
      OBVIOUS
    <2>6. Walk(W, h, k, recs, s2, fn, n) /\ stack' = s2
      BY <2>2, <2>4, <2>5
    <2>7. QED
      BY <1>1, <2>3, <2>6, WalkedTo
  <1>13. ASSUME Scopes!Return PROVE ScopeInv'
    <2>1. PICK d : d = LastOf(st).die
      OBVIOUS
    <2>2. /\ st # << >> /\ LastOf(st).todo = {} /\ stack' = SubSeq(st, 1, Len(st) - 1)
          /\ Scopes!CloseScope(d) /\ func' = fn /\ inline_site_counter' = n /\ site' = site
      BY <1>2, <1>13, <2>1 DEF Scopes!Return, Scopes!Top, LastOf
    <2>3. records' = IF HasScope(d) THEN Append(recs, Scopes!End(d)) ELSE recs
      BY <1>2, <2>2 DEF Scopes!CloseScope, HasScope, Scopes!HasScope
    <2>4. PICK h, k : Walk(V, h, k, IF HasScope(LastOf(st).die)
                                     THEN Append(recs, Scopes!End(LastOf(st).die)) ELSE recs,
                          SubSeq(st, 1, Len(st) - 1), fn, n)
      BY <1>1, <1>3, <2>2, WalkReturn
    <2>5. PICK r2, s2 : r2 = (IF HasScope(LastOf(st).die)
                                THEN Append(recs, Scopes!End(LastOf(st).die)) ELSE recs)
                        /\ s2 = SubSeq(st, 1, Len(st) - 1)
      OBVIOUS
    <2>6. Walk(V, h, k, r2, s2, fn, n)
      BY <2>4, <2>5
    <2>7. records' = r2 /\ stack' = s2
      BY <2>1, <2>2, <2>3, <2>5
    <2>8. QED
      BY <1>1, <2>2, <2>6, <2>7, WalkedTo
  <1>14. ASSUME Scopes!EmitDefRange PROVE ScopeInv'
    <2>1. PICK r : r = Scopes!DefRangeRecord(child, loc_expr)
      OBVIOUS
    <2>2. r \in RecordType /\ r.kind = "defrange"
      BY <1>1, <1>14, <2>1, DefRangeFacts DEF Scopes!EmitDefRange, Scopes!InLocations
    <2>3. /\ records' = Append(recs, r) /\ stack' = st /\ func' = fn
          /\ inline_site_counter' = n /\ site' = site
      BY <1>2, <1>14, <2>1 DEF Scopes!EmitDefRange, Scopes!InLocations
    <2>4. PICK h : Walk(V, h, g, Append(recs, r), st, fn, n)
      BY <1>1, <1>3, <2>2, WalkRange
    <2>5. PICK r2 : r2 = Append(recs, r)
      OBVIOUS
    <2>6. QED
      BY <1>1, <2>3, <2>4, <2>5, WalkedTo
  <1>15. ASSUME Scopes!NextLocation \/ Scopes!EndOfLocations PROVE ScopeInv'
    <2>1. /\ records' = recs /\ stack' = st /\ func' = fn
          /\ inline_site_counter' = n /\ site' = site
      BY <1>2, <1>15 DEF Scopes!NextLocation, Scopes!EndOfLocations, Scopes!InLocations
    <2>2. QED
      BY <1>1, <1>3, <2>1, WalkedTo
  <1>16. QED
    BY <1>5, <1>7, <1>9, <1>10, <1>11, <1>12, <1>13, <1>14, <1>15 DEF Scopes!Next

(* The walk stays while another part is run.                               *)
LEMMA ScopesStay ==
  ASSUME ScopeInv, UNCHANGED <<scope_vars, func>>
  PROVE  ScopeInv'
  <1>1. UNCHANGED <<program, stack, inline_site_counter, site, records, func>>
    BY DEF scope_vars
  <1>2. PICK recs, st, fn, n :
          /\ recs = records /\ st = stack /\ fn = func /\ n = inline_site_counter
          /\ \E V, f, g : Walk(V, f, g, recs, st, fn, n)
    BY DEF ScopeInv
  <1>3. PICK V, f, g : Walk(V, f, g, recs, st, fn, n)
    BY <1>2
  <1>4. records' = recs /\ stack' = st /\ func' = fn /\ inline_site_counter' = n
        /\ program \in Programs /\ program' = program
        /\ site' \in [Dies -> 0 .. Cardinality(Dies)]
    BY <1>1, <1>2 DEF ScopeInv
  <1>5. QED
    BY <1>3, <1>4, WalkedTo

-----------------------------------------------------------------------------
(* SymbolRecords: the def-ranges of a variable.                            *)

(* The def-ranges behind a record, those of a location among them, and     *)
(* whether one that is written next is behind it, too.                     *)
RunOf(recs, i)    == { j \in i + 1 .. Len(recs) : \A k \in i + 1 .. j : recs[k].kind = "defrange" }
OfLoc(recs, i, l) == { j \in RunOf(recs, i) : recs[j].loc = l }
GoesOn(recs, i)   == \A k \in i + 1 .. Len(recs) : recs[k].kind = "defrange"

LocalAt(recs, i) == i \in 1 .. Len(recs) /\ recs[i].kind = "local"

(* How many def-ranges of a location are written when lf of location le    *)
(* are not.                                                                *)
SoFar(d, l, le, lf) ==
  IF l < le THEN program.locs[d][l] ELSE IF l = le THEN program.locs[d][l] - lf ELSE 0

(* Every def-range is behind a variable, and all behind one are of it and  *)
(* of each location as many as there must be, or are by now if the loop is *)
(* at the variable.                                                        *)
BehindLocals(recs, ch, le, lf) ==
  /\ \A j \in 1 .. Len(recs) : recs[j].kind = "defrange" =>
       \E i : LocalAt(recs, i) /\ j \in RunOf(recs, i)
  /\ \A i : LocalAt(recs, i) =>
       /\ \A j \in RunOf(recs, i) : recs[j].die = recs[i].die
       /\ \A l \in DOMAIN program.locs[recs[i].die] :
            Cardinality(OfLoc(recs, i, l)) =
              IF ch # 0 /\ GoesOn(recs, i)
                THEN SoFar(recs[i].die, l, le, lf) ELSE program.locs[recs[i].die][l]

(* The loop is at a location of the variable whose record is the last but  *)
(* for def-ranges.                                                         *)
AtVariable(recs, ch, le, lf) ==
  /\ ch \in Dies \cup {0} /\ le \in Nat /\ lf \in Nat
  /\ ch # 0 =>
       /\ le \in DOMAIN program.locs[ch] /\ lf <= program.locs[ch][le]
       /\ \E i : LocalAt(recs, i) /\ GoesOn(recs, i) /\ recs[i].die = ch

LocationsRight(recs, ch, le, lf) == BehindLocals(recs, ch, le, lf) /\ AtVariable(recs, ch, le, lf)

LocationInv ==
  \E recs, ch, le, lf :
    /\ recs = records /\ ch = child /\ le = loc_expr /\ lf = left
    /\ LocationsRight(recs, ch, le, lf)

(* One more record goes on a run of def-ranges that reaches it, or ends it.*)
LEMMA RunMore ==
  ASSUME NEW recs \in Seq(RecordType), NEW r \in RecordType, NEW i \in 1 .. Len(recs)
  PROVE  /\ GoesOn(Append(recs, r), i) <=> GoesOn(recs, i) /\ r.kind = "defrange"
         /\ RunOf(Append(recs, r), i) =
              RunOf(recs, i) \cup (IF GoesOn(recs, i) /\ r.kind = "defrange"
                                     THEN {Len(recs) + 1} ELSE {})
         /\ RunOf(recs, i) \subseteq 1 .. Len(recs)
  <1> DEFINE N == Len(recs)
             q == Append(recs, r)
  <1>1. /\ N \in Nat /\ Len(q) = N + 1 /\ q[N + 1] = r
        /\ \A k \in 1 .. N : q[k] = recs[k]
    OBVIOUS
  <1> HIDE DEF q
  <1>2. \A k \in i + 1 .. N : k \in 1 .. N /\ q[k] = recs[k]
    BY <1>1
  <1>3. GoesOn(q, i) <=> GoesOn(recs, i) /\ r.kind = "defrange"
    <2>1. N + 1 \in i + 1 .. N + 1 /\ \A k \in i + 1 .. N : k \in i + 1 .. N + 1
      BY <1>1
    <2>2. \A k \in i + 1 .. N + 1 : k \in i + 1 .. N \/ k = N + 1
      BY <1>1
    <2>3. QED
      BY <1>1, <1>2, <2>1, <2>2 DEF GoesOn
  <1>4. ASSUME NEW j \in i + 1 .. N
        PROVE  j \in RunOf(q, i) <=> j \in RunOf(recs, i)
    <2>1. j \in i + 1 .. N + 1 /\ \A k \in i + 1 .. j : q[k] = recs[k]
      BY <1>1, <1>2
    <2>2. QED
      BY <1>1, <2>1 DEF RunOf
  <1>5. N + 1 \in RunOf(q, i) <=> GoesOn(q, i)
    <2>1. N + 1 \in i + 1 .. N + 1
      BY <1>1
    <2>2. QED
      BY <1>1, <2>1 DEF RunOf, GoesOn
  <1>6. RunOf(recs, i) \subseteq i + 1 .. N /\ RunOf(q, i) \subseteq (i + 1 .. N) \cup {N + 1}
    <2>1. i + 1 .. N + 1 = (i + 1 .. N) \cup {N + 1}
      BY <1>1
    <2>2. QED
      BY <1>1, <2>1 DEF RunOf
  <1>7. N + 1 \notin i + 1 .. N /\ i + 1 .. N \subseteq 1 .. N
    BY <1>1
  <1> HIDE DEF N
  <1>8. RunOf(q, i) = RunOf(recs, i) \cup (IF GoesOn(q, i) THEN {N + 1} ELSE {})
    BY <1>4, <1>5, <1>6, <1>7
  <1>9. QED
    BY <1>3, <1>6, <1>7, <1>8 DEF N, q

(* No more than one variable has all the records behind it for def-ranges. *)
LEMMA OneGoesOn ==
  ASSUME NEW recs \in Seq(RecordType), NEW i, LocalAt(recs, i), GoesOn(recs, i),
         NEW k, LocalAt(recs, k), GoesOn(recs, k)
  PROVE  i = k
  <1>1. /\ i \in 1 .. Len(recs) /\ k \in 1 .. Len(recs) /\ Len(recs) \in Nat
        /\ recs[i].kind = "local" /\ recs[k].kind = "local"
    BY DEF LocalAt
  <1>2. ~ i < k
    <2>1. i < k => k \in i + 1 .. Len(recs)
      BY <1>1
    <2>2. QED
      BY <1>1, <2>1 DEF GoesOn
  <1>3. ~ k < i
    <2>1. k < i => i \in k + 1 .. Len(recs)
      BY <1>1
    <2>2. QED
      BY <1>1, <2>1 DEF GoesOn
  <1>4. QED
    BY <1>1, <1>2, <1>3

(* The records of a variable's locations are finitely many.                *)
LEMMA RunFinite ==
  ASSUME NEW recs \in Seq(RecordType), NEW i \in 1 .. Len(recs), NEW l
  PROVE  IsFiniteSet(OfLoc(recs, i, l)) /\ OfLoc(recs, i, l) \subseteq i + 1 .. Len(recs)
  <1>1. OfLoc(recs, i, l) \subseteq i + 1 .. Len(recs)
    BY DEF OfLoc, RunOf
  <1>2. IsFiniteSet(i + 1 .. Len(recs))
    BY FS_Interval
  <1>3. QED
    BY <1>1, <1>2, FS_Subset

(* A record that is no def-range leaves what is behind the others.         *)
LEMMA OfLocSame ==
  ASSUME NEW recs \in Seq(RecordType), NEW r \in RecordType, NEW i \in 1 .. Len(recs),
         ~ (GoesOn(recs, i) /\ r.kind = "defrange")
  PROVE  /\ RunOf(Append(recs, r), i) = RunOf(recs, i) /\ ~ GoesOn(Append(recs, r), i)
         /\ \A l : OfLoc(Append(recs, r), i, l) = OfLoc(recs, i, l)
  <1> DEFINE more == IF GoesOn(recs, i) /\ r.kind = "defrange" THEN {Len(recs) + 1} ELSE {}
  <1>4. /\ GoesOn(Append(recs, r), i) <=> GoesOn(recs, i) /\ r.kind = "defrange"
        /\ RunOf(Append(recs, r), i) = RunOf(recs, i) \cup more
        /\ RunOf(recs, i) \subseteq 1 .. Len(recs)
    BY RunMore
  <1>5. more = {}
    OBVIOUS
  <1> HIDE DEF more
  <1>1. /\ RunOf(Append(recs, r), i) = RunOf(recs, i) /\ ~ GoesOn(Append(recs, r), i)
        /\ RunOf(recs, i) \subseteq 1 .. Len(recs)
    BY <1>4, <1>5
  <1>2. \A k \in 1 .. Len(recs) : Append(recs, r)[k] = recs[k]
    OBVIOUS
  <1>3. QED
    BY <1>1, <1>2 DEF OfLoc

(* A variable already recorded is where it was, and a new one at the end.  *)
LEMMA LocalAtMore ==
  ASSUME NEW recs \in Seq(RecordType), NEW r \in RecordType, NEW i
  PROVE  /\ LocalAt(recs, i) => /\ LocalAt(Append(recs, r), i) /\ i \in 1 .. Len(recs)
                                /\ Append(recs, r)[i] = recs[i] /\ recs[i].die \in Dies
         /\ LocalAt(Append(recs, r), i) =>
              LocalAt(recs, i) \/ (i = Len(recs) + 1 /\ r.kind = "local")
  <1>1. /\ Len(recs) \in Nat /\ Len(Append(recs, r)) = Len(recs) + 1
        /\ Append(recs, r)[Len(recs) + 1] = r
        /\ \A k \in 1 .. Len(recs) : Append(recs, r)[k] = recs[k]
        /\ \A k \in 1 .. Len(recs) : recs[k] \in RecordType
    OBVIOUS
  <1>2. QED
    BY <1>1 DEF LocalAt, RecordType

-----------------------------------------------------------------------------
(* Between variables any record but a def-range may be written.            *)
LEMMA OtherRecord ==
  ASSUME program \in Programs, NEW recs \in Seq(RecordType), NEW le, NEW lf,
         LocationsRight(recs, 0, le, lf), NEW r \in RecordType, r.kind \notin {"local", "defrange"}
  PROVE  LocationsRight(Append(recs, r), 0, le, lf)
  <1> DEFINE q == Append(recs, r)
  <1>1. BehindLocals(recs, 0, le, lf) /\ AtVariable(recs, 0, le, lf)
    BY DEF LocationsRight
  <1>2. /\ Len(recs) \in Nat /\ Len(q) = Len(recs) + 1 /\ q[Len(recs) + 1] = r
        /\ \A k \in 1 .. Len(recs) : q[k] = recs[k]
    OBVIOUS
  <1>3. \A i : LocalAt(q, i) <=> LocalAt(recs, i)
    BY LocalAtMore
  <1>4. ASSUME NEW i, LocalAt(recs, i)
        PROVE  /\ q[i] = recs[i] /\ i \in 1 .. Len(recs)
               /\ RunOf(q, i) = RunOf(recs, i) /\ RunOf(recs, i) \subseteq 1 .. Len(recs)
               /\ \A l : OfLoc(q, i, l) = OfLoc(recs, i, l)
    <2>1. i \in 1 .. Len(recs) /\ q[i] = recs[i]
      BY <1>4, LocalAtMore
    <2>2. QED
      BY <2>1, OfLocSame, RunMore
  <1> HIDE DEF q
  <1>5. ASSUME NEW j \in 1 .. Len(q), q[j].kind = "defrange"
        PROVE  \E i : LocalAt(q, i) /\ j \in RunOf(q, i)
    <2>1. j \in 1 .. Len(recs) /\ recs[j].kind = "defrange"
      BY <1>2, <1>5
    <2>2. PICK i : LocalAt(recs, i) /\ j \in RunOf(recs, i)
      BY <1>1, <2>1 DEF BehindLocals
    <2>3. QED
      BY <1>3, <1>4, <2>2
  <1>6. ASSUME NEW i, LocalAt(q, i)
        PROVE  /\ \A j \in RunOf(q, i) : q[j].die = q[i].die
               /\ \A l \in DOMAIN program.locs[q[i].die] :
                    Cardinality(OfLoc(q, i, l)) = program.locs[q[i].die][l]
    <2>1. LocalAt(recs, i) /\ q[i] = recs[i]
      BY <1>3, <1>4, <1>6
    <2>2. /\ \A j \in RunOf(recs, i) : recs[j].die = recs[i].die
          /\ \A l \in DOMAIN program.locs[recs[i].die] :
               Cardinality(OfLoc(recs, i, l)) = program.locs[recs[i].die][l]
      BY <1>1, <2>1 DEF BehindLocals
    <2>3. \A j \in RunOf(q, i) : q[j].die = q[i].die
      BY <1>2, <1>4, <2>1, <2>2
    <2>4. \A l : OfLoc(q, i, l) = OfLoc(recs, i, l)
      BY <1>4, <2>1
    <2>5. QED
      BY <2>1, <2>2, <2>3, <2>4
  <1>7. BehindLocals(q, 0, le, lf)
    BY <1>5, <1>6 DEF BehindLocals
  <1>8. AtVariable(q, 0, le, lf)
    BY <1>1 DEF AtVariable
  <1>9. QED
    BY <1>7, <1>8 DEF LocationsRight, q

(* The record of a variable starts the loop over its locations, with none  *)
(* of their def-ranges written.                                            *)
LEMMA LocalRecord ==
  ASSUME program \in Programs, NEW recs \in Seq(RecordType), NEW le, NEW lf,
         LocationsRight(recs, 0, le, lf), NEW r \in RecordType, r.kind = "local",
         NEW d \in Dies, r.die = d, IsVariable(d)
  PROVE  LocationsRight(Append(recs, r), d, 1, program.locs[d][1])
  <1> DEFINE q == Append(recs, r)
             N == Len(recs)
  <1>1. BehindLocals(recs, 0, le, lf) /\ AtVariable(recs, 0, le, lf)
    BY DEF LocationsRight
  <1>2. /\ N \in Nat /\ Len(q) = N + 1 /\ q[N + 1] = r
        /\ \A k \in 1 .. N : q[k] = recs[k]
    OBVIOUS
  <1>3. \A i : LocalAt(q, i) <=> LocalAt(recs, i) \/ i = N + 1
    <2>1. LocalAt(q, N + 1)
      BY <1>2 DEF LocalAt
    <2>2. QED
      BY <2>1, LocalAtMore
  <1>4. ASSUME NEW i, LocalAt(recs, i)
        PROVE  /\ q[i] = recs[i] /\ i \in 1 .. N /\ ~ GoesOn(q, i)
               /\ RunOf(q, i) = RunOf(recs, i) /\ RunOf(recs, i) \subseteq 1 .. N
               /\ \A l : OfLoc(q, i, l) = OfLoc(recs, i, l)
    <2>1. i \in 1 .. N /\ q[i] = recs[i]
      BY <1>4, LocalAtMore
    <2>2. QED
      BY <2>1, OfLocSame, RunMore
  <1>5. /\ program.locs[d] \in Seq(Nat) /\ 1 \in DOMAIN program.locs[d]
        /\ \A l \in DOMAIN program.locs[d] : l \in Nat \ {0} /\ program.locs[d][l] \in Nat
        /\ d # 0
    <2>1. program.locs[d] \in Seq(Nat) /\ program.locs[d] # << >> /\ d \in Nat \ {0}
      BY ProgramFacts
    <2>2. PICK locs : locs = program.locs[d]
      OBVIOUS
    <2>3. locs \in Seq(Nat) /\ locs # << >>
      BY <2>1, <2>2
    <2>4. 1 \in DOMAIN locs /\ \A l \in DOMAIN locs : l \in Nat \ {0} /\ locs[l] \in Nat
      BY <2>3
    <2>5. QED
      BY <2>1, <2>2, <2>4
  <1> HIDE DEF q
  <1>6. RunOf(q, N + 1) = {} /\ GoesOn(q, N + 1) /\ \A l : OfLoc(q, N + 1, l) = {}
    <2>1. N + 1 + 1 .. N + 1 = {}
      BY <1>2
    <2>2. QED
      BY <1>2, <2>1 DEF RunOf, GoesOn, OfLoc
  <1> HIDE DEF N
  <1>7. ASSUME NEW j \in 1 .. Len(q), q[j].kind = "defrange"
        PROVE  \E i : LocalAt(q, i) /\ j \in RunOf(q, i)
    <2>1. j \in 1 .. N /\ recs[j].kind = "defrange"
      BY <1>2, <1>7
    <2>2. PICK i : LocalAt(recs, i) /\ j \in RunOf(recs, i)
      BY <1>1, <2>1 DEF BehindLocals, N
    <2>3. QED
      BY <1>3, <1>4, <2>2
  <1>8. ASSUME NEW i, LocalAt(q, i)
        PROVE  /\ \A j \in RunOf(q, i) : q[j].die = q[i].die
               /\ \A l \in DOMAIN program.locs[q[i].die] :
                    Cardinality(OfLoc(q, i, l)) =
                      IF d # 0 /\ GoesOn(q, i)
                        THEN SoFar(q[i].die, l, 1, program.locs[d][1])
                        ELSE program.locs[q[i].die][l]
    <2>1. CASE LocalAt(recs, i)
      <3>1. /\ \A j \in RunOf(recs, i) : recs[j].die = recs[i].die
            /\ \A l \in DOMAIN program.locs[recs[i].die] :
                 Cardinality(OfLoc(recs, i, l)) = program.locs[recs[i].die][l]
        BY <1>1, <2>1 DEF BehindLocals
      <3>2. \A j \in RunOf(q, i) : q[j].die = q[i].die
        BY <1>2, <1>4, <2>1, <3>1
      <3>3. q[i] = recs[i] /\ ~ GoesOn(q, i) /\ \A l : OfLoc(q, i, l) = OfLoc(recs, i, l)
        BY <1>4, <2>1
      <3>4. QED
        BY <3>1, <3>2, <3>3
    <2>2. CASE i = N + 1
      <3>1. q[i].die = d /\ RunOf(q, i) = {} /\ GoesOn(q, i) /\ \A l : OfLoc(q, i, l) = {}
        BY <1>2, <1>6, <2>2
      <3>2. Cardinality({}) = 0
        BY FS_EmptySet
      <3>3. ASSUME NEW l \in DOMAIN program.locs[d]
            PROVE  SoFar(d, l, 1, program.locs[d][1]) = 0
        BY <1>5 DEF SoFar
      <3>4. QED
        BY <1>5, <3>1, <3>2, <3>3
    <2>3. QED
      BY <1>3, <1>8, <2>1, <2>2
  <1>9. BehindLocals(q, d, 1, program.locs[d][1])
    BY <1>7, <1>8 DEF BehindLocals
  <1>10. AtVariable(q, d, 1, program.locs[d][1])
    <2>1. LocalAt(q, N + 1) /\ GoesOn(q, N + 1) /\ q[N + 1].die = d
      BY <1>2, <1>3, <1>6
    <2>2. program.locs[d][1] \in Nat /\ program.locs[d][1] <= program.locs[d][1]
      BY <1>5
    <2>3. QED
      BY <1>5, <2>1, <2>2 DEF AtVariable
  <1>11. QED
    BY <1>9, <1>10 DEF LocationsRight, q

(* A def-range of the location the loop is at counts for its variable, the *)
(* only one it is behind.                                                  *)
LEMMA RangeRecord ==
  ASSUME program \in Programs, NEW recs \in Seq(RecordType), NEW ch, ch # 0, NEW le, NEW lf,
         LocationsRight(recs, ch, le, lf), lf > 0,
         NEW r \in RecordType, r.kind = "defrange", r.die = ch, r.loc = le
  PROVE  LocationsRight(Append(recs, r), ch, le, lf - 1)
  <1> DEFINE q == Append(recs, r)
             N == Len(recs)
  <1>1. BehindLocals(recs, ch, le, lf) /\ AtVariable(recs, ch, le, lf)
    BY DEF LocationsRight
  <1>2. /\ N \in Nat /\ Len(q) = N + 1 /\ q[N + 1] = r
        /\ \A k \in 1 .. N : q[k] = recs[k]
    OBVIOUS
  <1>3. \A i : LocalAt(q, i) <=> LocalAt(recs, i)
    BY LocalAtMore
  <1>4. ASSUME NEW i, LocalAt(recs, i)
        PROVE  /\ q[i] = recs[i] /\ i \in 1 .. N /\ recs[i].die \in Dies
               /\ RunOf(q, i) = RunOf(recs, i) \cup (IF GoesOn(recs, i) THEN {N + 1} ELSE {})
               /\ RunOf(recs, i) \subseteq 1 .. N
               /\ GoesOn(q, i) <=> GoesOn(recs, i)
    <2>1. i \in 1 .. N /\ q[i] = recs[i] /\ recs[i].die \in Dies
      BY <1>4, LocalAtMore
    <2>2. QED
      BY <2>1, RunMore
  <1>5. /\ ch \in Dies /\ le \in DOMAIN program.locs[ch] /\ lf <= program.locs[ch][le]
        /\ lf \in Nat /\ lf - 1 \in Nat /\ le \in Nat
        /\ \A l \in DOMAIN program.locs[ch] : l \in Nat /\ program.locs[ch][l] \in Nat
    <2>1. ch \in Dies /\ lf \in Nat /\ le \in Nat
      BY <1>1 DEF AtVariable
    <2>2. program.locs[ch] \in Seq(Nat)
      BY <2>1, ProgramFacts
    <2>3. le \in DOMAIN program.locs[ch] /\ lf <= program.locs[ch][le]
      BY <1>1 DEF AtVariable
    <2>4. lf - 1 \in Nat
      BY <2>1
    <2>5. \A l \in DOMAIN program.locs[ch] : l \in Nat /\ program.locs[ch][l] \in Nat
      BY <2>2
    <2>6. QED
      BY <2>1, <2>3, <2>4, <2>5
  <1>6. PICK at : LocalAt(recs, at) /\ GoesOn(recs, at) /\ recs[at].die = ch
    BY <1>1 DEF AtVariable
  <1> HIDE DEF q, N
  <1>7. ASSUME NEW j \in 1 .. Len(q), q[j].kind = "defrange"
        PROVE  \E i : LocalAt(q, i) /\ j \in RunOf(q, i)
    <2>1. CASE j \in 1 .. N
      <3>1. recs[j].kind = "defrange"
        BY <1>2, <1>7, <2>1
      <3>2. PICK i : LocalAt(recs, i) /\ j \in RunOf(recs, i)
        BY <1>1, <2>1, <3>1 DEF BehindLocals, N
      <3>3. QED
        BY <1>3, <1>4, <3>2
    <2>2. CASE j = N + 1
      <3>1. j \in RunOf(q, at)
        BY <1>4, <1>6, <2>2
      <3>2. QED
        BY <1>3, <1>6, <3>1
    <2>3. QED
      BY <1>2, <2>1, <2>2
  <1>8. ASSUME NEW i, LocalAt(q, i)
        PROVE  /\ \A j \in RunOf(q, i) : q[j].die = q[i].die
               /\ \A l \in DOMAIN program.locs[q[i].die] :
                    Cardinality(OfLoc(q, i, l)) =
                      IF ch # 0 /\ GoesOn(q, i)
                        THEN SoFar(q[i].die, l, le, lf - 1)
                        ELSE program.locs[q[i].die][l]
    <2>1. LocalAt(recs, i) /\ q[i] = recs[i] /\ i \in 1 .. N
      BY <1>3, <1>4, <1>8
    <2>2. /\ \A j \in RunOf(recs, i) : recs[j].die = recs[i].die
          /\ \A l \in DOMAIN program.locs[recs[i].die] :
               Cardinality(OfLoc(recs, i, l)) =
                 IF ch # 0 /\ GoesOn(recs, i)
                   THEN SoFar(recs[i].die, l, le, lf) ELSE program.locs[recs[i].die][l]
      BY <1>1, <2>1 DEF BehindLocals
    <2>3. RunOf(recs, i) \subseteq 1 .. N /\ \A j \in RunOf(recs, i) : q[j] = recs[j]
      BY <1>2, <1>4, <2>1
    <2>4. CASE ~ GoesOn(recs, i)
      <3>1. RunOf(q, i) = RunOf(recs, i) /\ ~ GoesOn(q, i)
        BY <1>4, <2>1, <2>4
      <3>2. \A l : OfLoc(q, i, l) = OfLoc(recs, i, l)
        BY <2>3, <3>1 DEF OfLoc
      <3>3. \A j \in RunOf(q, i) : q[j].die = q[i].die
        BY <2>1, <2>2, <2>3, <3>1
      <3>4. QED
        BY <2>1, <2>2, <2>4, <3>1, <3>2, <3>3
    <2>5. CASE GoesOn(recs, i)
      <3>1. i = at /\ recs[i].die = ch
        BY <1>6, <2>1, <2>5, OneGoesOn
      <3>2. RunOf(q, i) = RunOf(recs, i) \cup {N + 1} /\ GoesOn(q, i)
        BY <1>4, <2>1, <2>5
      <3>3. \A j \in RunOf(q, i) : q[j].die = q[i].die
        BY <1>2, <2>1, <2>2, <2>3, <3>1, <3>2
      <3>4. ASSUME NEW l \in DOMAIN program.locs[ch]
            PROVE  Cardinality(OfLoc(q, i, l)) = SoFar(ch, l, le, lf - 1)
        <4>1. Cardinality(OfLoc(recs, i, l)) = SoFar(ch, l, le, lf)
          BY <2>2, <2>5, <3>1
        <4>2. CASE l = le
          <5>1. OfLoc(q, i, l) = OfLoc(recs, i, l) \cup {N + 1}
            BY <1>2, <2>3, <3>2, <4>2 DEF OfLoc
          <5>2. IsFiniteSet(OfLoc(recs, i, l)) /\ N + 1 \notin OfLoc(recs, i, l)
            <6>1. N + 1 \notin 1 .. N
              BY <1>2
            <6>2. QED
              BY <2>1, <2>3, <6>1, RunFinite DEF OfLoc, N
          <5>3. Cardinality(OfLoc(q, i, l)) = Cardinality(OfLoc(recs, i, l)) + 1
            BY <5>1, <5>2, FS_AddElement
          <5>4. /\ SoFar(ch, l, le, lf) = program.locs[ch][l] - lf
                /\ SoFar(ch, l, le, lf - 1) = program.locs[ch][l] - (lf - 1)
                /\ program.locs[ch][l] \in Nat
            BY <1>5, <4>2 DEF SoFar
          <5>5. QED
            BY <1>5, <4>1, <5>3, <5>4
        <4>3. CASE l # le
          <5>1. OfLoc(q, i, l) = OfLoc(recs, i, l)
            BY <1>2, <2>3, <3>2, <4>3 DEF OfLoc
          <5>2. SoFar(ch, l, le, lf - 1) = SoFar(ch, l, le, lf)
            BY <4>3 DEF SoFar
          <5>3. QED
            BY <4>1, <5>1, <5>2
        <4>4. QED
          BY <4>2, <4>3
      <3>5. QED
        BY <2>1, <3>1, <3>2, <3>3, <3>4
    <2>6. QED
      BY <2>4, <2>5
  <1>9. BehindLocals(q, ch, le, lf - 1)
    BY <1>7, <1>8 DEF BehindLocals
  <1>10. AtVariable(q, ch, le, lf - 1)
    <2>1. LocalAt(q, at) /\ GoesOn(q, at) /\ q[at].die = ch
      BY <1>3, <1>4, <1>6
    <2>2. lf - 1 <= program.locs[ch][le]
      BY <1>5
    <2>3. QED
      BY <1>5, <2>1, <2>2 DEF AtVariable
  <1>11. QED
    BY <1>9, <1>10 DEF LocationsRight, q

(* A location whose def-ranges are all written makes way for the next one. *)
LEMMA LocationPassed ==
  ASSUME program \in Programs, NEW recs \in Seq(RecordType), NEW ch, ch # 0, NEW le,
         LocationsRight(recs, ch, le, 0), le < Len(program.locs[ch])
  PROVE  LocationsRight(recs, ch, le + 1, program.locs[ch][le + 1])
  <1>1. BehindLocals(recs, ch, le, 0) /\ AtVariable(recs, ch, le, 0)
    BY DEF LocationsRight
  <1>2. ch \in Dies /\ le \in Nat /\ le \in DOMAIN program.locs[ch]
    BY <1>1 DEF AtVariable
  <1>3. program.locs[ch] \in Seq(Nat)
    BY <1>2, ProgramFacts
  <1>4. /\ le + 1 \in DOMAIN program.locs[ch] /\ program.locs[ch][le + 1] \in Nat
        /\ \A l \in DOMAIN program.locs[ch] : l \in Nat /\ program.locs[ch][l] \in Nat
    <2>1. DOMAIN program.locs[ch] = 1 .. Len(program.locs[ch]) /\ Len(program.locs[ch]) \in Nat
      BY <1>3
    <2>2. \A l \in DOMAIN program.locs[ch] : program.locs[ch][l] \in Nat
      BY <1>3
    <2>3. le + 1 \in 1 .. Len(program.locs[ch])
      BY <1>2, <2>1
    <2>4. \A l \in 1 .. Len(program.locs[ch]) : l \in Nat
      BY <2>1
    <2>5. QED
      BY <2>1, <2>2, <2>3, <2>4
  <1>5. ASSUME NEW l \in DOMAIN program.locs[ch]
        PROVE  SoFar(ch, l, le + 1, program.locs[ch][le + 1]) = SoFar(ch, l, le, 0)
    <2>1. l \in Nat /\ program.locs[ch][l] \in Nat
      BY <1>4
    <2>2. CASE l < le \/ l > le + 1
      BY <1>2, <2>1, <2>2 DEF SoFar
    <2>3. CASE l = le
      BY <1>2, <2>1, <2>3 DEF SoFar
    <2>4. CASE l = le + 1
      BY <1>2, <2>1, <2>4 DEF SoFar
    <2>5. QED
      BY <1>2, <2>1, <2>2, <2>3, <2>4
  <1>6. PICK at : LocalAt(recs, at) /\ GoesOn(recs, at) /\ recs[at].die = ch
    BY <1>1 DEF AtVariable
  <1>7. ASSUME NEW i, LocalAt(recs, i)
        PROVE  /\ \A j \in RunOf(recs, i) : recs[j].die = recs[i].die
               /\ \A l \in DOMAIN program.locs[recs[i].die] :
                    Cardinality(OfLoc(recs, i, l)) =
                      IF ch # 0 /\ GoesOn(recs, i)
                        THEN SoFar(recs[i].die, l, le + 1, program.locs[ch][le + 1])
                        ELSE program.locs[recs[i].die][l]
    <2>1. /\ \A j \in RunOf(recs, i) : recs[j].die = recs[i].die
          /\ \A l \in DOMAIN program.locs[recs[i].die] :
               Cardinality(OfLoc(recs, i, l)) =
                 IF ch # 0 /\ GoesOn(recs, i)
                   THEN SoFar(recs[i].die, l, le, 0) ELSE program.locs[recs[i].die][l]
      BY <1>1, <1>7 DEF BehindLocals
    <2>2. GoesOn(recs, i) => recs[i].die = ch
      BY <1>6, <1>7, OneGoesOn
    <2>3. QED
      BY <1>5, <2>1, <2>2
  <1>8. BehindLocals(recs, ch, le + 1, program.locs[ch][le + 1])
    BY <1>1, <1>7 DEF BehindLocals
  <1>9. AtVariable(recs, ch, le + 1, program.locs[ch][le + 1])
    BY <1>1, <1>2, <1>4, <1>6 DEF AtVariable
  <1>10. QED
    BY <1>8, <1>9 DEF LocationsRight

(* Behind the last location all def-ranges of the variable are written.    *)
LEMMA LocationsOver ==
  ASSUME program \in Programs, NEW recs \in Seq(RecordType), NEW ch, ch # 0, NEW le,
         LocationsRight(recs, ch, le, 0), ~ (le < Len(program.locs[ch]))
  PROVE  LocationsRight(recs, 0, 0, 0)
  <1>1. BehindLocals(recs, ch, le, 0) /\ AtVariable(recs, ch, le, 0)
    BY DEF LocationsRight
  <1>2. ch \in Dies /\ le \in Nat /\ le \in DOMAIN program.locs[ch]
    BY <1>1 DEF AtVariable
  <1>3. program.locs[ch] \in Seq(Nat)
    BY <1>2, ProgramFacts
  <1>4. ASSUME NEW l \in DOMAIN program.locs[ch]
        PROVE  SoFar(ch, l, le, 0) = program.locs[ch][l]
    <2>1. l \in Nat /\ program.locs[ch][l] \in Nat /\ l <= le
      BY <1>2, <1>3
    <2>2. QED
      BY <1>2, <2>1 DEF SoFar
  <1>5. PICK at : LocalAt(recs, at) /\ GoesOn(recs, at) /\ recs[at].die = ch
    BY <1>1 DEF AtVariable
  <1>6. ASSUME NEW i, LocalAt(recs, i)
        PROVE  /\ \A j \in RunOf(recs, i) : recs[j].die = recs[i].die
               /\ \A l \in DOMAIN program.locs[recs[i].die] :
                    Cardinality(OfLoc(recs, i, l)) = program.locs[recs[i].die][l]
    <2>1. /\ \A j \in RunOf(recs, i) : recs[j].die = recs[i].die
          /\ \A l \in DOMAIN program.locs[recs[i].die] :
               Cardinality(OfLoc(recs, i, l)) =
                 IF ch # 0 /\ GoesOn(recs, i)
                   THEN SoFar(recs[i].die, l, le, 0) ELSE program.locs[recs[i].die][l]
      BY <1>1, <1>6 DEF BehindLocals
    <2>2. GoesOn(recs, i) => recs[i].die = ch
      BY <1>5, <1>6, OneGoesOn
    <2>3. QED
      BY <1>4, <2>1, <2>2
  <1>7. BehindLocals(recs, 0, 0, 0)
    BY <1>1, <1>6 DEF BehindLocals
  <1>8. AtVariable(recs, 0, 0, 0)
    BY DEF AtVariable
  <1>9. QED
    BY <1>7, <1>8 DEF LocationsRight

(* Before the first record none is missing.                                *)
LEMMA LocationStart == Scopes!Init => LocationInv
  <1> SUFFICES ASSUME Scopes!Init PROVE LocationInv
    OBVIOUS
  <1>1. records = << >> /\ child = 0 /\ loc_expr = 0 /\ left = 0
    BY DEF Scopes!Init
  <1>2. Len(<< >>) = 0 /\ 1 .. 0 = {}
    OBVIOUS
  <1>3. BehindLocals(<< >>, 0, 0, 0)
    BY <1>2 DEF BehindLocals, LocalAt
  <1>4. AtVariable(<< >>, 0, 0, 0)
    BY DEF AtVariable
  <1>5. QED
    BY <1>1, <1>3, <1>4 DEF LocationInv, LocationsRight

(* The program never changes, and all of this is about it.                 *)
LEMMA RangesNow ==
  ASSUME program' = program, NEW recs, NEW ch, NEW le, NEW lf, LocationsRight(recs, ch, le, lf),
         records' = recs, child' = ch, loc_expr' = le, left' = lf
  PROVE  LocationInv'
  <1>1. Dies' = Dies
    BY SameShapes
  <1>4. BehindLocals(recs, ch, le, lf) /\ AtVariable(recs, ch, le, lf)
    BY DEF LocationsRight
  <1>5. BehindLocals(recs, ch, le, lf)'
    BY <1>4 DEF BehindLocals, LocalAt, RunOf, OfLoc, GoesOn, SoFar
  <1>6. AtVariable(recs, ch, le, lf)'
    BY <1>1, <1>4 DEF AtVariable, LocalAt, GoesOn
  <1>2. LocationsRight(recs, ch, le, lf)'
    BY <1>5, <1>6 DEF LocationsRight
  <1>3. QED
    BY <1>2 DEF LocationInv

(* Every step of the recursion and of the loops in it keeps that.          *)
LEMMA LocationNext ==
  ASSUME ScopeInv, LocationInv, Scopes!Next
  PROVE  LocationInv'
  <1>1. program \in Programs /\ program' = program
    BY DEF ScopeInv, Scopes!Next, Scopes!BeginFunction, Scopes!LexicalBlock,
           Scopes!InlinedSubroutine, Scopes!OpaqueSubroutine, Scopes!Variable,
           Scopes!InLocations, Scopes!EmitDefRange, Scopes!NextLocation, Scopes!EndOfLocations,
           Scopes!HiddenVariable, Scopes!Return
  <1>2. PICK recs, ch, le, lf :
          /\ recs = records /\ ch = child /\ le = loc_expr /\ lf = left
          /\ LocationsRight(recs, ch, le, lf)
    BY DEF LocationInv
  <1>3. recs \in Seq(RecordType) /\ Activated(stack) /\ func \in Scopes!Functions \cup {0}
    BY <1>2 DEF ScopeInv, Walk
  <1>4. ASSUME Scopes!BeginFunction PROVE LocationInv'
    <2>1. PICK c : c = Scopes!NextFunction
      OBVIOUS
    <2>2. c \in Dies
      BY <1>1, <1>3, <1>4, <2>1, NextFunctionFacts, ProgramFacts DEF Scopes!BeginFunction
    <2>3. PICK r, s : r = Scopes!Record("proc", c, 40) /\ s = Scopes!Record("frameproc", c, 30)
      OBVIOUS
    <2>4. r \in RecordType /\ r.kind = "proc" /\ s \in RecordType /\ s.kind = "frameproc"
      BY <1>1, <2>2, <2>3, RecordFacts DEF Scopes!Kinds
    <2>5. /\ records' = recs \o << r, s >> /\ ch = 0
          /\ child' = ch /\ loc_expr' = le /\ left' = lf
      BY <1>2, <1>4, <2>1, <2>3 DEF Scopes!BeginFunction, Scopes!locations
    <2>6. recs \o << r, s >> = Append(Append(recs, r), s)
      BY <1>3, <2>4, TwoMore
    <2>7. LocationsRight(Append(recs, r), 0, le, lf)
      BY <1>1, <1>2, <1>3, <2>4, <2>5, OtherRecord
    <2>8. Append(recs, r) \in Seq(RecordType)
      BY <1>3, <2>4
    <2>9. LocationsRight(Append(Append(recs, r), s), 0, le, lf)
      BY <1>1, <2>4, <2>7, <2>8, OtherRecord
    <2>10. PICK q : q = Append(Append(recs, r), s)
      OBVIOUS
    <2>11. QED
      BY <1>1, <2>5, <2>6, <2>9, <2>10, RangesNow
  <1>5. ASSUME UNCHANGED <<records, child, loc_expr, left>> PROVE LocationInv'
    BY <1>1, <1>2, <1>5, RangesNow
  <1>6. ASSUME NEW tag, Scopes!Is(tag)
        PROVE  Scopes!Next1 \in Dies /\ program.tag[Scopes!Next1] = tag /\ ch = 0
    BY <1>1, <1>2, <1>3, <1>6, ChildFacts DEF Scopes!Is
  <1>7. ASSUME Scopes!InlinedSubroutine PROVE LocationInv'
    <2>1. PICK r : r = Scopes!InlineSite(Scopes!Next1)
      OBVIOUS
    <2>2. ch = 0 /\ r \in RecordType /\ r.kind = "inlinesite"
      BY <1>1, <1>6, <1>7, <2>1, InlineSiteFacts DEF Scopes!InlinedSubroutine
    <2>3. records' = Append(recs, r) /\ child' = ch /\ loc_expr' = le /\ left' = lf
      BY <1>2, <1>7, <2>1 DEF Scopes!InlinedSubroutine, Scopes!locations
    <2>4. LocationsRight(Append(recs, r), 0, le, lf)
      BY <1>1, <1>2, <1>3, <2>2, OtherRecord
    <2>5. PICK q : q = Append(recs, r)
      OBVIOUS
    <2>6. QED
      BY <1>1, <2>2, <2>3, <2>4, <2>5, RangesNow
  <1>8. ASSUME Scopes!Variable PROVE LocationInv'
    <2>1. PICK d, r : d = Scopes!Next1 /\ r = Scopes!Record("local", d, 10)
      OBVIOUS
    <2>2. /\ ch = 0 /\ d \in Dies /\ IsVariable(d)
          /\ r \in RecordType /\ r.kind = "local" /\ r.die = d
      BY <1>1, <1>6, <1>8, <2>1, RecordFacts DEF Scopes!Variable, Scopes!Kinds, IsVariable
    <2>3. /\ records' = Append(recs, r) /\ child' = d /\ loc_expr' = 1
          /\ left' = program.locs[d][1]
      BY <1>2, <1>8, <2>1 DEF Scopes!Variable
    <2>4. PICK q, n : q = Append(recs, r) /\ n = program.locs[d][1]
      OBVIOUS
    <2>5. LocationsRight(q, d, 1, n)
      BY <1>1, <1>2, <1>3, <2>2, <2>4, LocalRecord
    <2>6. QED
      BY <1>1, <2>3, <2>4, <2>5, RangesNow
  <1>9. ASSUME Scopes!EmitDefRange PROVE LocationInv'
    <2>1. PICK r : r = Scopes!DefRangeRecord(ch, le)
      OBVIOUS
    <2>2. ch # 0 /\ ch \in Dies /\ le \in Nat /\ lf > 0
      BY <1>2, <1>9 DEF Scopes!EmitDefRange, Scopes!InLocations, LocationsRight, AtVariable
    <2>3. r \in RecordType /\ r.kind = "defrange" /\ r.die = ch /\ r.loc = le
      BY <1>1, <2>1, <2>2, DefRangeFacts
    <2>4. records' = Append(recs, r) /\ child' = ch /\ loc_expr' = le /\ left' = lf - 1
      BY <1>2, <1>9, <2>1 DEF Scopes!EmitDefRange
    <2>5. PICK q, n : q = Append(recs, r) /\ n = lf - 1
      OBVIOUS
    <2>6. LocationsRight(q, ch, le, n)
      BY <1>1, <1>2, <1>3, <2>2, <2>3, <2>5, RangeRecord
    <2>7. QED
      BY <1>1, <2>4, <2>5, <2>6, RangesNow
  <1>10. ASSUME Scopes!NextLocation PROVE LocationInv'
    <2>1. ch # 0 /\ lf = 0 /\ le < Len(program.locs[ch])
      BY <1>2, <1>10 DEF Scopes!NextLocation, Scopes!InLocations, Scopes!MoreLocations
    <2>2. /\ records' = recs /\ child' = ch /\ loc_expr' = le + 1
          /\ left' = program.locs[ch][le + 1]
      BY <1>2, <1>10 DEF Scopes!NextLocation
    <2>3. PICK m, n : m = le + 1 /\ n = program.locs[ch][le + 1]
      OBVIOUS
    <2>4. LocationsRight(recs, ch, m, n)
      BY <1>1, <1>2, <1>3, <2>1, <2>3, LocationPassed
    <2>5. QED
      BY <1>1, <2>2, <2>3, <2>4, RangesNow
  <1>11. ASSUME Scopes!EndOfLocations PROVE LocationInv'
    <2>1. ch # 0 /\ lf = 0 /\ ~ (le < Len(program.locs[ch]))
      BY <1>2, <1>11 DEF Scopes!EndOfLocations, Scopes!InLocations, Scopes!MoreLocations
    <2>2. records' = recs /\ child' = 0 /\ loc_expr' = 0 /\ left' = 0
      BY <1>2, <1>11 DEF Scopes!EndOfLocations
    <2>3. LocationsRight(recs, 0, 0, 0)
      BY <1>1, <1>2, <1>3, <2>1, LocationsOver
    <2>4. QED
      BY <1>1, <2>2, <2>3, RangesNow
  <1>12. ASSUME Scopes!Return PROVE LocationInv'
    <2>1. PICK d : d = Scopes!Top.die
      OBVIOUS
    <2>2. d \in Dies
      <3>1. stack \in Seq(FrameType) /\ stack # << >>
        BY <1>3, <1>12 DEF Activated, Scopes!Return
      <3>2. stack[Len(stack)] \in FrameType
        BY <3>1
      <3>3. QED
        BY <2>1, <3>2 DEF Scopes!Top, FrameType
    <2>3. PICK r : r = Scopes!End(d)
      OBVIOUS
    <2>4. r \in RecordType /\ r.kind = "end"
      BY <1>1, <2>2, <2>3, RecordFacts DEF Scopes!End, Scopes!Kinds
    <2>5. /\ records' = Append(recs, r) \/ records' = records
          /\ ch = 0 /\ child' = ch /\ loc_expr' = le /\ left' = lf
      BY <1>2, <1>12, <2>1, <2>3 DEF Scopes!Return, Scopes!CloseScope, Scopes!locations
    <2>6. PICK q : q = Append(recs, r)
      OBVIOUS
    <2>7. LocationsRight(q, 0, le, lf)
      BY <1>1, <1>2, <1>3, <2>4, <2>5, <2>6, OtherRecord
    <2>8. QED
      BY <1>1, <1>2, <2>5, <2>6, <2>7, RangesNow
  <1>13. ASSUME Scopes!LexicalBlock \/ Scopes!OpaqueSubroutine \/ Scopes!HiddenVariable
         PROVE  UNCHANGED <<records, child, loc_expr, left>>
    BY <1>13 DEF Scopes!LexicalBlock, Scopes!OpaqueSubroutine, Scopes!HiddenVariable,
                 Scopes!locations
  <1>14. QED
    BY <1>4, <1>5, <1>7, <1>8, <1>9, <1>10, <1>11, <1>12, <1>13 DEF Scopes!Next

(* It stays while another part is run.                                     *)
LEMMA LocationStays ==
  ASSUME LocationInv, UNCHANGED scope_vars
  PROVE  LocationInv'
  <1>1. UNCHANGED <<program, records, child, loc_expr, left>>
    BY DEF scope_vars
  <1>2. PICK recs, ch, le, lf :
          /\ recs = records /\ ch = child /\ le = loc_expr /\ lf = left
          /\ LocationsRight(recs, ch, le, lf)
    BY DEF LocationInv
  <1>3. QED
    BY <1>1, <1>2, RangesNow

-----------------------------------------------------------------------------
(* What the invariant says of the functions the properties are stated with.*)
LEMMA OpenedAre ==
  ASSUME NEW f, Reads(f, records), Len(records) \in Nat
  PROVE  Scopes!OpenScopes = f
  <1> DEFINE N == Len(records)
             Step(h) == [n \in 0 .. N |->
                           IF n = 0 THEN << >> ELSE Scopes!After(h[n - 1], records[n])]
  <1>1. f = [n \in 0 .. N |-> f[n]] /\ f[0] = << >>
        /\ \A n \in 1 .. N : f[n] = Scopes!After(f[n - 1], records[n])
    BY DEF Reads, After
  <1>2. \A n \in 0 .. N : f[n] = IF n = 0 THEN << >> ELSE Scopes!After(f[n - 1], records[n])
    <2> SUFFICES ASSUME NEW n \in 0 .. N, n # 0
                 PROVE  f[n] = Scopes!After(f[n - 1], records[n])
      BY <1>1
    <2>1. n \in 1 .. N
      OBVIOUS
    <2>2. QED
      BY <1>1, <2>1
  <1>3. f = Step(f)
    BY <1>1, <1>2, Zenon
  <1> DEFINE x == Scopes!OpenScopes
  <1>4. x = Step(x)
    BY <1>3 DEF Scopes!OpenScopes
  <1> HIDE DEF x
  <1>5. 0 \in 0 .. N /\ \A n \in 1 .. N : n \in 0 .. N /\ n # 0
    OBVIOUS
  <1>6. \A n \in 0 .. N : x[n] = IF n = 0 THEN << >> ELSE Scopes!After(x[n - 1], records[n])
    BY <1>4, Zenon
  <1>7. x[0] = << >> /\ \A n \in 1 .. N : x[n] = Scopes!After(x[n - 1], records[n])
    BY <1>5, <1>6, Zenon
  <1>8. x = [n \in 0 .. N |-> x[n]]
    BY <1>4
  <1>9. Reads(x, records)
    BY <1>7, <1>8 DEF Reads, After
  <1>10. QED
    BY <1>9, ReadsUnique DEF x

(* The scopes of the activations are those the properties name.            *)
LEMMA ActiveAre ==
  ASSUME NEW g, Nests(g, stack), Len(stack) \in Nat
  PROVE  Scopes!ActiveScopes = g
  <1> DEFINE N == Len(stack)
             Step(h) == [n \in 0 .. N |->
                           IF n = 0 THEN << >>
                           ELSE IF Scopes!HasScope(stack[n].die)
                             THEN Append(h[n - 1], stack[n].die) ELSE h[n - 1]]
  <1>1. g = [n \in 0 .. N |-> g[n]] /\ g[0] = << >>
        /\ \A n \in 1 .. N : g[n] = Within(g[n - 1], stack[n])
    BY DEF Nests
  <1>2. \A n \in 0 .. N : g[n] = IF n = 0 THEN << >>
                                 ELSE IF Scopes!HasScope(stack[n].die)
                                   THEN Append(g[n - 1], stack[n].die) ELSE g[n - 1]
    <2> SUFFICES ASSUME NEW n \in 0 .. N, n # 0
                 PROVE  g[n] = IF Scopes!HasScope(stack[n].die)
                                 THEN Append(g[n - 1], stack[n].die) ELSE g[n - 1]
      BY <1>1
    <2>1. n \in 1 .. N
      OBVIOUS
    <2>2. g[n] = Within(g[n - 1], stack[n])
      BY <1>1, <2>1
    <2>3. QED
      BY <2>2 DEF Within, HasScope
  <1>3. g = Step(g)
    BY <1>1, <1>2, Zenon
  <1> DEFINE x == Scopes!ActiveScopes
  <1>4. x = Step(x)
    BY <1>3 DEF Scopes!ActiveScopes
  <1> HIDE DEF x
  <1>5. 0 \in 0 .. N /\ \A n \in 1 .. N : n \in 0 .. N /\ n # 0
    OBVIOUS
  <1>6. \A n \in 0 .. N : x[n] = IF n = 0 THEN << >>
                                 ELSE IF Scopes!HasScope(stack[n].die)
                                   THEN Append(x[n - 1], stack[n].die) ELSE x[n - 1]
    BY <1>4, Zenon
  <1>7. x[0] = << >> /\ \A n \in 1 .. N : x[n] = Within(x[n - 1], stack[n])
    BY <1>5, <1>6, Zenon DEF Within, HasScope
  <1>8. x = [n \in 0 .. N |-> x[n]]
    BY <1>4
  <1>9. Nests(x, stack)
    BY <1>7, <1>8 DEF Nests
  <1>10. QED
    BY <1>9, NestsUnique DEF x

(* Cardinality is the same through the instance.                           *)
LEMMA SameCardinality == \A T : Scopes!Cardinality(T) = Cardinality(T)
  BY DEF Scopes!Cardinality, Cardinality

(* A walk explains the records written so far.                             *)
LEMMA WalkNow ==
  ASSUME ScopeInv
  PROVE  \E V, f, g : Walk(V, f, g, records, stack, func, inline_site_counter)
  BY DEF ScopeInv

(* ScopesMatchActivations, from the invariant: a reader of the records is  *)
(* in the scopes of the active entries.                                    *)
LEMMA ScopesMatch == ScopeInv => Scopes!ScopesMatchActivations
  <1> SUFFICES ASSUME ScopeInv PROVE Scopes!OpenScopes[Len(records)] = Scopes!ActiveScopes[Len(stack)]
    BY DEF Scopes!ScopesMatchActivations
  <1>1. PICK V, f, g : Walk(V, f, g, records, stack, func, inline_site_counter)
    BY WalkNow
  <1>2. /\ Reads(f, records) /\ Nests(g, stack) /\ f[Len(records)] = g[Len(stack)]
        /\ Len(records) \in Nat /\ Len(stack) \in Nat
    BY <1>1 DEF Walk, NestedBy, Activated
  <1>3. Scopes!OpenScopes = f /\ Scopes!ActiveScopes = g
    BY <1>2, OpenedAre, ActiveAre
  <1>4. QED
    BY <1>2, <1>3

(* DefRangesFollowTheirVariable, from the invariant: of a variable the     *)
(* loop is not at all def-ranges are written.                              *)
LEMMA RangesFollow == ScopeInv /\ LocationInv => Scopes!DefRangesFollowTheirVariable
  <1> SUFFICES ASSUME ScopeInv, LocationInv PROVE Scopes!DefRangesFollowTheirVariable
    OBVIOUS
  <1>1. BehindLocals(records, child, loc_expr, left) /\ AtVariable(records, child, loc_expr, left)
    BY DEF LocationInv, LocationsRight
  <1>2. records \in Seq(RecordType) /\ DOMAIN records = 1 .. Len(records)
    BY WalkNow DEF Walk
  <1>3. \A i \in DOMAIN records : Scopes!RangesBehind(i) = RunOf(records, i)
    BY DEF Scopes!RangesBehind, RunOf
  <1>4. ASSUME NEW j \in DOMAIN records, records[j].kind = "defrange"
        PROVE  \E i \in DOMAIN records :
                 records[i].kind = "local" /\ j \in Scopes!RangesBehind(i)
    <2>1. PICK i : LocalAt(records, i) /\ j \in RunOf(records, i)
      BY <1>1, <1>2, <1>4 DEF BehindLocals
    <2>2. QED
      BY <1>2, <1>3, <2>1 DEF LocalAt
  <1>5. ASSUME NEW i \in DOMAIN records, records[i].kind = "local"
        PROVE  /\ \A j \in Scopes!RangesBehind(i) : records[j].die = records[i].die
               /\ records[i].die # child => \A l \in DOMAIN program.locs[records[i].die] :
                    Scopes!Cardinality({ j \in Scopes!RangesBehind(i) : records[j].loc = l }) =
                      program.locs[records[i].die][l]
    <2>1. LocalAt(records, i)
      BY <1>2, <1>5 DEF LocalAt
    <2>2. /\ \A j \in RunOf(records, i) : records[j].die = records[i].die
          /\ \A l \in DOMAIN program.locs[records[i].die] :
               Cardinality(OfLoc(records, i, l)) =
                 IF child # 0 /\ GoesOn(records, i)
                   THEN SoFar(records[i].die, l, loc_expr, left)
                   ELSE program.locs[records[i].die][l]
      BY <1>1, <2>1 DEF BehindLocals
    <2>3. ASSUME child # 0, GoesOn(records, i) PROVE records[i].die = child
      <3>1. PICK at : LocalAt(records, at) /\ GoesOn(records, at) /\ records[at].die = child
        BY <1>1, <2>3 DEF AtVariable
      <3>2. QED
        BY <1>2, <2>1, <2>3, <3>1, OneGoesOn
    <2>4. \A l : { j \in Scopes!RangesBehind(i) : records[j].loc = l } = OfLoc(records, i, l)
      BY <1>3 DEF OfLoc
    <2>5. \A T : Scopes!Cardinality(T) = Cardinality(T)
      BY SameCardinality
    <2>6. QED
      BY <1>3, <2>2, <2>3, <2>4, <2>5
  <1>6. QED
    BY <1>4, <1>5 DEF Scopes!DefRangesFollowTheirVariable

(* When the walk is over it has reached every entry.                       *)
LEMMA AllReached ==
  ASSUME program \in Programs, NEW V, Reached(V, << >>, func),
         func \in Scopes!Functions \cup {0}, Scopes!NoMoreFunctions
  PROVE  V = Dies
  <1>1. /\ Dies \subseteq Nat \ {0} /\ Scopes!Functions \subseteq Dies
        /\ \A d \in Dies \ Scopes!Functions : program.up[d] \in Dies /\ program.up[d] < d
    BY ProgramFacts
  <1>2. \A d \in Scopes!Functions : d \in V
    BY DEF Reached, Scopes!NoMoreFunctions
  <1> SUFFICES ASSUME Dies \ V # {} PROVE FALSE
    BY DEF Reached
  <1>3. PICK d \in Dies \ V : \A e \in Dies \ V : d <= e
    <2>1. Dies \ V \in SUBSET Nat
      BY <1>1
    <2>2. QED
      BY <2>1, Least
  <1>4. d \in Dies \ Scopes!Functions
    BY <1>2
  <1>5. program.up[d] \in V
    <2>1. program.up[d] \in Dies /\ program.up[d] < d /\ d \in Nat
      BY <1>1, <1>4
    <2>2. program.up[d] \in Nat
      BY <1>1, <2>1
    <2>3. QED
      BY <1>3, <2>1, <2>2
  <1>6. 1 .. Len(<< >>) = {}
    OBVIOUS
  <1>7. QED
    BY <1>3, <1>4, <1>5, <1>6 DEF Reached

(* VariablesInTheirScope, from the invariant: a reader meets every         *)
(* variable in the scope its entry is in.                                  *)
LEMMA InTheirScope == ScopeInv => Scopes!VariablesInTheirScope
  <1> SUFFICES ASSUME ScopeInv PROVE Scopes!VariablesInTheirScope
    OBVIOUS
  <1>1. PICK V, f, g : Walk(V, f, g, records, stack, func, inline_site_counter)
    BY WalkNow
  <1>2. /\ Reads(f, records) /\ Len(records) \in Nat /\ DOMAIN records = 1 .. Len(records)
        /\ Reached(V, stack, func) /\ Recorded(V, records) /\ program \in Programs
        /\ func \in Scopes!Functions \cup {0}
    BY <1>1 DEF Walk, NestedBy, ScopeInv
  <1>3. Scopes!OpenScopes = f
    BY <1>2, OpenedAre
  <1>4. ASSUME NEW i \in DOMAIN records, records[i].kind = "local"
        PROVE  f[i] # << >> /\ Scopes!IsScopeOf(f[i][Len(f[i])], records[i].die)
    BY <1>1, <1>2, <1>4 DEF Walk, NestedBy, LastOf
  <1>5. ASSUME Scopes!Done, NEW d \in Scopes!Dies, program.tag[d] = "variable"
        PROVE  Cardinality({ i \in DOMAIN records :
                               records[i].kind = "local" /\ records[i].die = d }) = 1
    <2>1. d \in V
      <3>1. V = Dies
        BY <1>2, <1>5, AllReached DEF Scopes!Done
      <3>2. QED
        BY <1>5, <3>1 DEF Dies
    <2>2. PICK i : LocalsIn(records, d) = {i}
      BY <1>2, <1>5, <2>1 DEF Recorded, IsVariable, Dies
    <2>3. { j \in DOMAIN records : records[j].kind = "local" /\ records[j].die = d } = {i}
      BY <1>2, <2>2 DEF LocalsIn
    <2>4. Cardinality({i}) = 1
      BY FS_Singleton
    <2>5. QED
      BY <2>3, <2>4
  <1>6. \A i \in DOMAIN records : records[i].kind = "local" =>
          /\ Scopes!OpenScopes[i] # << >>
          /\ Scopes!IsScopeOf(Scopes!OpenScopes[i][Len(Scopes!OpenScopes[i])], records[i].die)
    BY <1>3, <1>4, Zenon
  <1>7. Scopes!Done =>
          \A d \in Scopes!Dies : program.tag[d] = "variable" =>
            Scopes!Cardinality({ i \in DOMAIN records :
                                   records[i].kind = "local" /\ records[i].die = d }) = 1
    BY <1>5, SameCardinality
  <1>8. QED
    BY <1>6, <1>7 DEF Scopes!VariablesInTheirScope

(* The invariant of the walk has its types.                                *)
LEMMA ScopesType == ScopeInv /\ LocationInv => Scopes!TypeOK
  <1> SUFFICES ASSUME ScopeInv, LocationInv PROVE Scopes!TypeOK
    OBVIOUS
  <1>1. PICK V, f, g : Walk(V, f, g, records, stack, func, inline_site_counter)
    BY WalkNow
  <1>2. /\ program \in Programs /\ site \in [Dies -> 0 .. Cardinality(Dies)]
        /\ records \in Seq(RecordType) /\ Activated(stack) /\ V \subseteq Dies
        /\ func \in Scopes!Functions \cup {0}
        /\ inline_site_counter \in Nat /\ inline_site_counter <= Cardinality(Numbered(V))
    BY <1>1 DEF ScopeInv, Walk, Reached
  <1>3. Scopes!ProgramType(program)
    BY <1>2, ProgramsAssumption
  <1>4. inline_site_counter \in 0 .. Cardinality(Dies)
    <2>1. IsFiniteSet(Dies)
      BY <1>2, ProgramFacts, FS_Interval
    <2>2. Cardinality(Dies) \in Nat
      BY <2>1, FS_CardinalityType
    <2>3. Numbered(V) \subseteq Dies
      BY <1>2 DEF Numbered
    <2>4. Cardinality(Numbered(V)) <= Cardinality(Dies)
      BY <2>1, <2>3, FS_Subset
    <2>5. IsFiniteSet(Numbered(V))
      BY <2>1, <2>3, FS_Subset
    <2>6. Cardinality(Numbered(V)) \in Nat
      BY <2>5, FS_CardinalityType
    <2>7. QED
      BY <1>2, <2>2, <2>4, <2>6
  <1>5. ASSUME NEW i \in DOMAIN stack
        PROVE  /\ stack[i].die \in Dies /\ stack[i].todo \subseteq Dies
               /\ i > 1 => program.up[stack[i].die] = stack[i - 1].die
    <2>1. stack \in Seq(FrameType)
      BY <1>2 DEF Activated
    <2>2. i \in 1 .. Len(stack) /\ stack[i] \in FrameType
      BY <2>1
    <2>3. QED
      BY <1>2, <2>2 DEF Activated, FrameType
  <1>6. Dies = Scopes!Dies /\ RecordType = [kind: Scopes!Kinds, die: Scopes!Dies, loc: Nat,
                                            declared: Nat, size: Nat]
    BY DEF Dies, RecordType
  <1>7. /\ func \in Scopes!Functions \cup {0}
        /\ inline_site_counter \in 0 .. Scopes!Cardinality(Scopes!Dies)
        /\ site \in [Scopes!Dies -> 0 .. Scopes!Cardinality(Scopes!Dies)]
        /\ records \in Seq([kind: Scopes!Kinds, die: Scopes!Dies, loc: Nat,
                            declared: Nat, size: Nat])
    BY <1>2, <1>4, <1>6, SameCardinality
  <1>8. \A i \in DOMAIN stack :
          /\ stack[i].die \in Scopes!Dies /\ stack[i].todo \subseteq Scopes!Dies
          /\ i > 1 => program.up[stack[i].die] = stack[i - 1].die
    BY <1>5, <1>6
  <1>9. child \in Scopes!Dies \cup {0} /\ loc_expr \in Nat /\ left \in Nat
    BY <1>6 DEF LocationInv, LocationsRight, AtVariable
  <1>10. QED
    BY <1>3, <1>7, <1>8, <1>9 DEF Scopes!TypeOK


-----------------------------------------------------------------------------
(* InlineAnnotations: bytes, for every number the code may write.          *)
LEMMA Induction ==
  ASSUME NEW T \in SUBSET Nat, 0 \in T, \A n \in T : n + 1 \in T
  PROVE  T = Nat
  <1> SUFFICES ASSUME Nat \ T # {} PROVE FALSE
    OBVIOUS
  <1>1. PICK m \in Nat \ T : \A k \in Nat \ T : m <= k
    <2>1. Nat \ T \in SUBSET Nat
      OBVIOUS
    <2>2. QED
      BY <2>1, Least
  <1>2. m # 0 /\ m - 1 \in Nat /\ m - 1 + 1 = m /\ ~ (m <= m - 1)
    BY <1>1
  <1>3. m - 1 \in T
    BY <1>1, <1>2
  <1>4. QED
    BY <1>1, <1>2, <1>3

(* Of a finite set of numbers one is the greatest.                         *)
LEMMA Greatest ==
  ASSUME NEW S \in SUBSET Nat, S # {}, IsFiniteSet(S)
  PROVE  \E m \in S : \A k \in S : k <= m
  <1> DEFINE Good == { n \in Nat : \A T \in SUBSET S :
                         Cardinality(T) = n /\ T # {} => \E m \in T : \A k \in T : k <= m }
  <1>1. 0 \in Good
    <2> SUFFICES ASSUME NEW T \in SUBSET S, Cardinality(T) = 0, T # {} PROVE FALSE
      OBVIOUS
    <2>1. IsFiniteSet(T)
      BY FS_Subset
    <2>2. QED
      BY <2>1, FS_EmptySet
  <1>2. ASSUME NEW n \in Good PROVE n + 1 \in Good
    <2>1. n \in Nat
      OBVIOUS
    <2> SUFFICES ASSUME NEW T \in SUBSET S, Cardinality(T) = n + 1, T # {}
                 PROVE  \E m \in T : \A k \in T : k <= m
      BY <2>1
    <2>2. PICK x \in T : TRUE
      OBVIOUS
    <2>3. IsFiniteSet(T)
      BY FS_Subset
    <2>4. Cardinality(T \ {x}) = n
      <3>1. Cardinality(T \ {x}) = Cardinality(T) - 1
        BY <2>2, <2>3, FS_RemoveElement
      <3>2. QED
        BY <2>1, <3>1
    <2>5. CASE T \ {x} = {}
      <3>1. T = {x}
        BY <2>2, <2>5
      <3>2. x \in Nat
        BY <2>2
      <3>3. x <= x
        BY <3>2
      <3>4. QED
        BY <3>1, <3>3
    <2>6. CASE T \ {x} # {}
      <3>1. PICK m \in T \ {x} : \A k \in T \ {x} : k <= m
        BY <2>4, <2>6
      <3>2. m \in Nat /\ x \in Nat
        BY <2>2
      <3>3. QED
        BY <3>1, <3>2
    <2>7. QED
      BY <2>5, <2>6
  <1>3. Good = Nat
    <2>1. Good \in SUBSET Nat
      OBVIOUS
    <2> HIDE DEF Good
    <2>2. QED
      BY <1>1, <1>2, <2>1, Induction
  <1>4. Cardinality(S) \in Nat
    BY FS_CardinalityType
  <1>5. QED
    BY <1>3, <1>4

Byte == 0 .. 255

(* Four bytes are a sequence of bytes.                                     *)
LEMMA FourBytes ==
  ASSUME NEW a \in Byte, NEW b \in Byte, NEW c \in Byte, NEW d \in Byte
  PROVE  <<a, b, c, d>> \in Seq(Byte)
  OBVIOUS

(* An operand is encoded in bytes, at every width it can have.             *)
LEMMA Bytes ==
  ASSUME NEW val \in Nat
  PROVE  Site!U32(val) \in Seq(Byte)
  <1>1. CASE val < 128
    BY <1>1, SMT DEF Site!U32, Byte
  <1>2. CASE val >= 128 /\ val < 16384
    <2>1. val \div 256 \in 0 .. 63 /\ val % 256 \in 0 .. 255
      BY <1>2, SMT
    <2>2. 128 + val \div 256 \in Byte /\ val % 256 \in Byte
      BY <2>1, SMT DEF Byte
    <2>3. QED
      BY <1>2, <2>2, SMT DEF Site!U32
  <1>3. CASE val >= 16384
    <2>1. /\ (val \div 16777216) % 64 \in 0 .. 63 /\ (val \div 65536) % 256 \in 0 .. 255
          /\ (val \div 256) % 256 \in 0 .. 255 /\ val % 256 \in 0 .. 255
      <3>1. val \div 16777216 \in Nat /\ val \div 65536 \in Nat /\ val \div 256 \in Nat
        BY SMT
      <3>2. \A x \in Nat : x % 64 \in 0 .. 63 /\ x % 256 \in 0 .. 255
        BY SMT
      <3>3. QED
        BY <3>1, <3>2, SMT
    <2>2. /\ 192 + ((val \div 16777216) % 64) \in Byte /\ (val \div 65536) % 256 \in Byte
          /\ (val \div 256) % 256 \in Byte /\ val % 256 \in Byte
      BY <2>1, SMT DEF Byte
    <2>3. Site!U32(val) = <<192 + ((val \div 16777216) % 64), (val \div 65536) % 256,
                            (val \div 256) % 256, val % 256>>
      BY <1>3, SMT DEF Site!U32
    <2>4. QED
      BY <2>2, <2>3, FourBytes, SMT
  <1>4. QED
    BY <1>1, <1>2, <1>3, SMT

(* A signed operand becomes a natural number, its sign in the lowest bit.  *)
LEMMA SignedType ==
  ASSUME NEW val \in Int
  PROVE  Site!Signed(val) \in Nat
  BY DEF Site!Signed

(* A row of the line table becomes bytes.                                  *)
LEMMA MoveBytes ==
  ASSUME NEW line_delta \in Int, NEW code_delta \in Nat
  PROVE  Site!Move(line_delta, code_delta) \in Seq(Byte)
  <1>1. Site!Signed(line_delta) \in Nat /\ Site!Signed(line_delta) * 16 + code_delta \in Nat
    BY SignedType
  <1>2. /\ Site!U32(Site!Signed(line_delta) * 16 + code_delta) \in Seq(Byte)
        /\ Site!U32(Site!Signed(line_delta)) \in Seq(Byte)
        /\ Site!U32(code_delta) \in Seq(Byte)
    BY <1>1, Bytes
  <1>3. /\ Site!U32(Site!ChangeCodeOffsetAndLineOffset) \in Seq(Byte)
        /\ Site!U32(Site!ChangeLineOffset) \in Seq(Byte)
        /\ Site!U32(Site!ChangeCodeOffset) \in Seq(Byte)
    BY Bytes DEF Site!ChangeCodeOffsetAndLineOffset, Site!ChangeLineOffset, Site!ChangeCodeOffset
  <1>4. QED
    BY <1>2, <1>3 DEF Site!Move

-----------------------------------------------------------------------------
(* Rows are read in the order of their addresses, all of them in the site. *)
SiteInv ==
  /\ Site!TypeOK
  /\ rows \in [DOMAIN rows -> [file: Files, line: RowLines]]
  /\ last.file \in Nat \ {0} /\ last.line \in Nat
  /\ \A a \in it : Site!InRange(a) /\ last.addr <= a

(* The ranges of a site lie between their lowest and highest address.      *)
LEMMA SiteFacts ==
  ASSUME NEW rs \in RangeSets
  PROVE  /\ Site!Low(rs) \in Nat /\ Site!High(rs) \in Nat
         /\ Site!Low(rs) <= Site!High(rs)
  <1> DEFINE starts == { r[1] : r \in rs }
             ends   == { r[2] : r \in rs }
  <1>1. /\ rs # {} /\ IsFiniteSet(rs)
        /\ \A r \in rs : r[1] \in Nat /\ r[2] \in Nat /\ r[1] <= r[2]
    <2>1. Site!IsFiniteSet(rs) <=> IsFiniteSet(rs)
      BY DEF Site!IsFiniteSet, IsFiniteSet
    <2>2. rs # {} /\ Site!IsFiniteSet(rs) /\ \A r \in rs : r \in Nat \X Nat /\ r[1] <= r[2]
      BY SitesAssumption DEF Site!SitesType
    <2>3. QED
      BY <2>1, <2>2
  <1>2. PICK r1 \in rs : \A r \in rs : r1[1] <= r[1]
    <2>1. starts \in SUBSET Nat /\ starts # {}
      BY <1>1
    <2>2. PICK a \in starts : \A b \in starts : a <= b
      BY <2>1, Least
    <2>3. QED
      BY <2>2
  <1>3. PICK r2 \in rs : \A r \in rs : r2[2] >= r[2]
    <2>1. ends \in SUBSET Nat /\ ends # {}
      BY <1>1
    <2>2. IsFiniteSet(ends)
      <3> DEFINE h == [r \in rs |-> r[2]]
      <3>1. h \in [rs -> ends] /\ \A a \in ends : \E r \in rs : h[r] = a
        OBVIOUS
      <3> HIDE DEF h, ends
      <3>2. h \in Surjection(rs, ends)
        BY <3>1 DEF Surjection
      <3>3. QED
        BY <1>1, <3>2, FS_Surjection
    <2>3. PICK a \in ends : \A b \in ends : b <= a
      BY <2>1, <2>2, Greatest
    <2>4. PICK r2 \in rs : a = r2[2]
      BY <2>3
    <2>5. \A r \in rs : r[2] \in ends
      OBVIOUS
    <2> HIDE DEF ends
    <2>6. \A r \in rs : r2[2] >= r[2]
      BY <1>1, <2>3, <2>4, <2>5
    <2>7. QED
      BY <2>6
  <1>4. Site!Low(rs) \in starts /\ \A r \in rs : Site!Low(rs) <= r[1]
    <2>1. \E a \in { r[1] : r \in rs } : \A r \in rs : a <= r[1]
      BY <1>2
    <2>2. QED
      BY <2>1 DEF Site!Low
  <1>5. Site!High(rs) \in ends /\ \A r \in rs : Site!High(rs) >= r[2]
    <2>1. \E a \in { r[2] : r \in rs } : \A r \in rs : a >= r[2]
      BY <1>3
    <2>2. QED
      BY <2>1 DEF Site!High
  <1>6. Site!Low(rs) \in Nat /\ Site!High(rs) \in Nat
    BY <1>1, <1>4, <1>5
  <1>7. Site!Low(rs) <= r1[1] /\ r1[1] <= r1[2] /\ r1[2] <= Site!High(rs)
    BY <1>1, <1>2, <1>4, <1>5
  <1>8. r1[1] \in Nat /\ r1[2] \in Nat
    BY <1>1
  <1>9. QED
    BY <1>6, <1>7, <1>8

(* Before the first row there is no annotation.                            *)
LEMMA SiteInit == Site!Init => SiteInv
  <1> SUFFICES ASSUME Site!Init PROVE SiteInv
    OBVIOUS
  <1>1. /\ site_ranges \in RangeSets /\ call \in Calls
        /\ it = { a \in DOMAIN rows : Site!InRange(a) } /\ annotations = << >>
        /\ last = Site!Position(Site!Low(site_ranges), call[1], call[2])
        /\ open_range = FALSE /\ done = FALSE
    BY DEF Site!Init
  <1>2. PICK S \in SUBSET RowAddresses : rows \in [S -> [file: Files, line: RowLines]]
    BY DEF Site!Init
  <1>3. /\ last.addr = Site!Low(site_ranges) /\ last.file = call[1] /\ last.line = call[2]
    BY <1>1 DEF Site!Position
  <1>4. call[1] \in Nat \ {0} /\ call[2] \in Nat /\ RowAddresses \subseteq Nat
    BY <1>1, SitesAssumption DEF Site!SitesType
  <1>5. Site!Low(site_ranges) \in Nat /\ Site!High(site_ranges) \in Nat
        /\ Site!Low(site_ranges) <= Site!High(site_ranges)
    BY <1>1, SiteFacts
  <1>6. \A a \in it : Site!InRange(a) /\ last.addr <= a
    <2>1. \A a \in it : Site!InRange(a) /\ a \in Nat
      BY <1>1, <1>2, <1>4
    <2>2. QED
      BY <1>3, <1>5, <2>1 DEF Site!InRange
  <1>7. annotations \in Seq(0 .. 255) /\ last.addr \in Site!Low(site_ranges) .. Site!High(site_ranges)
    BY <1>1, <1>3, <1>5
  <1>8. Site!TypeOK
    BY <1>1, <1>2, <1>7 DEF Site!TypeOK
  <1>9. QED
    BY <1>2, <1>3, <1>4, <1>6, <1>8 DEF SiteInv

(* The rows are walked upwards and stay in the range of the site.          *)
LEMMA NextRow ==
  ASSUME SiteInv, it # {}
  PROVE  /\ Site!NextAddr \in it /\ \A b \in it : Site!NextAddr <= b
         /\ Site!NextAddr \in Nat
         /\ Site!InRange(Site!NextAddr) /\ last.addr <= Site!NextAddr
         /\ rows[Site!NextAddr].file \in Nat \ {0} /\ rows[Site!NextAddr].line \in Nat
  <1>1. it \in SUBSET Nat /\ it \subseteq DOMAIN rows
    BY SitesAssumption DEF SiteInv, Site!TypeOK, Site!SitesType
  <1>2. \E a \in it : \A b \in it : a <= b
    BY <1>1, Least
  <1>3. Site!NextAddr \in it /\ \A b \in it : Site!NextAddr <= b
    BY <1>2 DEF Site!NextAddr
  <1>4. rows[Site!NextAddr] \in [file: Files, line: RowLines]
    BY <1>1, <1>3 DEF SiteInv
  <1>5. rows[Site!NextAddr].file \in Nat \ {0} /\ rows[Site!NextAddr].line \in Nat
    BY <1>4, SitesAssumption DEF Site!SitesType
  <1>6. QED
    BY <1>1, <1>3, <1>5 DEF SiteInv

(* Every step of the encoder keeps the invariant of the site.              *)
LEMMA SiteNext ==
  ASSUME SiteInv, Site!Next
  PROVE  SiteInv'
  <1> DEFINE a == Site!NextAddr
             lo == Site!Low(site_ranges)
             hi == Site!High(site_ranges)
  <1>1. /\ site_ranges \in RangeSets /\ call \in Calls
        /\ DOMAIN rows \subseteq RowAddresses /\ it \subseteq DOMAIN rows
        /\ annotations \in Seq(Byte) /\ last.addr \in lo .. hi
        /\ open_range \in BOOLEAN /\ done \in BOOLEAN
        /\ rows \in [DOMAIN rows -> [file: Files, line: RowLines]]
        /\ last.file \in Nat \ {0} /\ last.line \in Nat
        /\ \A b \in it : Site!InRange(b) /\ last.addr <= b
        /\ lo \in Nat /\ hi \in Nat
    BY SiteFacts DEF SiteInv, Site!TypeOK, Byte
  <1>2. UNCHANGED <<site_ranges, call, rows>>
    BY DEF Site!Next, Site!SkipRow, Site!EncodeRow, Site!CloseRange
  <1>3. ASSUME it' \subseteq it, annotations' \in Seq(Byte), last'.addr \in lo .. hi,
               open_range' \in BOOLEAN, done' \in BOOLEAN,
               last'.file \in Nat \ {0}, last'.line \in Nat, \A b \in it' : last'.addr <= b
        PROVE  SiteInv'
    <2>1. (site_ranges \in RangeSets)' /\ (call \in Calls)'
          /\ (DOMAIN rows \subseteq RowAddresses)' /\ (it \subseteq DOMAIN rows)'
          /\ (rows \in [DOMAIN rows -> [file: Files, line: RowLines]])'
      BY <1>1, <1>2, <1>3
    <2>2. \A b \in it' : Site!InRange(b)'
      BY <1>1, <1>2, <1>3 DEF Site!InRange, Site!Low, Site!High
    <2>3. (last.addr \in Site!Low(site_ranges) .. Site!High(site_ranges))'
      BY <1>2, <1>3 DEF Site!Low, Site!High
    <2>4. Site!TypeOK'
      BY <1>3, <2>1, <2>3 DEF Site!TypeOK, Byte
    <2>5. QED
      BY <1>3, <2>1, <2>2, <2>4 DEF SiteInv
  <1>4. CASE Site!SkipRow
    <2>1. /\ it' = it \ {a} /\ annotations' = annotations /\ last' = last
          /\ open_range' = open_range /\ done' = done
      BY <1>4 DEF Site!SkipRow
    <2>2. QED
      BY <1>1, <1>3, <2>1
  <1>5. CASE Site!EncodeRow
    <2>1. /\ it # {} /\ it' = it \ {a} /\ open_range' = TRUE /\ done' = done
          /\ annotations' = annotations \o Site!FileChange(rows[a].file)
                              \o Site!Move(rows[a].line - last.line, a - last.addr)
          /\ last' = Site!Position(a, rows[a].file, rows[a].line)
      BY <1>5 DEF Site!EncodeRow
    <2>2. /\ a \in it /\ (\A b \in it : a <= b) /\ a \in Nat /\ Site!InRange(a) /\ last.addr <= a
          /\ rows[a].file \in Nat \ {0} /\ rows[a].line \in Nat
      BY <2>1, NextRow
    <2>3. last'.addr = a /\ last'.file = rows[a].file /\ last'.line = rows[a].line
      BY <2>1 DEF Site!Position
    <2>4. a \in lo .. hi
      BY <1>1, <2>2 DEF Site!InRange
    <2>5. Site!FileChange(rows[a].file) \in Seq(Byte)
      <3>1. (rows[a].file - 1) * 8 \in Nat
        BY <2>2
      <3>2. Site!U32(Site!ChangeFile) \in Seq(Byte) /\ Site!U32((rows[a].file - 1) * 8) \in Seq(Byte)
        BY <3>1, Bytes DEF Site!ChangeFile
      <3>3. QED
        BY <3>2 DEF Site!FileChange
    <2>6. Site!Move(rows[a].line - last.line, a - last.addr) \in Seq(Byte)
      <3>1. rows[a].line - last.line \in Int /\ a - last.addr \in Nat
        BY <1>1, <2>2
      <3>2. QED
        BY <3>1, MoveBytes
    <2> HIDE DEF a, lo, hi
    <2>7. annotations' \in Seq(Byte)
      BY <1>1, <2>1, <2>5, <2>6
    <2>8. it' \subseteq it /\ \A b \in it' : last'.addr <= b
      BY <2>1, <2>2, <2>3
    <2>9. QED
      BY <1>1, <1>3, <2>1, <2>2, <2>3, <2>4, <2>7, <2>8
  <1>6. CASE Site!CloseRange
    <2>1. /\ it = {} /\ done' = TRUE /\ it' = it /\ last' = last /\ open_range' = open_range
          /\ annotations' = IF open_range
                              THEN annotations \o Site!U32(Site!ChangeCodeLength)
                                     \o Site!U32(hi - last.addr)
                              ELSE annotations
      BY <1>6 DEF Site!CloseRange
    <2>2. Site!U32(Site!ChangeCodeLength) \in Seq(Byte) /\ Site!U32(hi - last.addr) \in Seq(Byte)
      <3>1. hi - last.addr \in Nat
        BY <1>1
      <3>2. QED
        BY <3>1, Bytes DEF Site!ChangeCodeLength
    <2> HIDE DEF a, lo, hi
    <2>3. annotations' \in Seq(Byte)
      BY <1>1, <2>1, <2>2
    <2>4. QED
      BY <1>1, <1>3, <2>1, <2>3
  <1>7. QED
    BY <1>4, <1>5, <1>6 DEF Site!Next

(* The site stays while another part is run.                               *)
LEMMA SiteStays ==
  ASSUME SiteInv, UNCHANGED site_vars
  PROVE  SiteInv'
  <1>1. UNCHANGED <<site_ranges, call, rows, it, annotations, last, open_range, done>>
    BY DEF site_vars
  <1>2. QED
    BY <1>1 DEF SiteInv, Site!TypeOK, Site!InRange, Site!Low, Site!High

-----------------------------------------------------------------------------
(* Locals: each part keeps its own invariant, as the steps of the others   *)
(* leave its variables alone.                                              *)
LocalsInv ==
  /\ IInv
  /\ part = "scopes"    => ScopeInv /\ LocationInv
  /\ part = "locations" => LocInv
  /\ part = "site"      => SiteInv

(* The invariant of the def-range loop holds where it is not run.          *)
LEMMA NoRangeInv == NoRange => IInv
  BY DEF NoRange, IInv, TypeOK, LoopInv

(* The parts start with their invariants.                                  *)
LEMMA LocalsInvInit == LocalsInit => LocalsInv
  <1> SUFFICES ASSUME LocalsInit PROVE LocalsInv
    OBVIOUS
  <1>1. CASE part = "scopes" /\ Scopes!Init /\ NoRange
    BY <1>1, ScopesInit, LocationStart, NoRangeInv DEF LocalsInv
  <1>2. CASE part = "locations" /\ Locations!Init /\ NoRange
    BY <1>2, LocationsInit, NoRangeInv DEF LocalsInv
  <1>3. CASE part = "ranges" /\ Init
    BY <1>3, RangesInit DEF LocalsInv
  <1>4. CASE part = "site" /\ Site!Init /\ NoRange
    BY <1>4, SiteInit, NoRangeInv DEF LocalsInv
  <1>5. QED
    BY <1>1, <1>2, <1>3, <1>4 DEF LocalsInit

(* A step of one part keeps its invariant and leaves the others.           *)
LEMMA LocalsInvNext ==
  ASSUME LocalsInv, [LocalsNext]_all_vars
  PROVE  LocalsInv'
  <1>1. CASE ScopeStep
    <2>1. part = "scopes" /\ part' = part /\ Scopes!Next /\ UNCHANGED vars
      BY <1>1 DEF ScopeStep
    <2>2. child \in Dies \cup {0} /\ loc_expr \in Nat
      BY <2>1 DEF LocalsInv, LocationInv, LocationsRight, AtVariable
    <2>3. ScopeInv' /\ LocationInv' /\ IInv'
      BY <2>1, <2>2, ScopesNext, LocationNext, RangesStay DEF LocalsInv
    <2>4. QED
      BY <2>1, <2>3 DEF LocalsInv
  <1>2. CASE LocationStep
    <2>1. part = "locations" /\ part' = part /\ Locations!Next /\ UNCHANGED vars
      BY <1>2 DEF LocationStep
    <2>2. LocInv' /\ IInv'
      BY <2>1, LocationsNext, RangesStay DEF LocalsInv
    <2>3. QED
      BY <2>1, <2>2 DEF LocalsInv
  <1>3. CASE RangeStep
    <2>1. part = "ranges" /\ part' = part /\ Next
      BY <1>3 DEF RangeStep
    <2>2. IInv'
      BY <2>1, RangesNext DEF LocalsInv
    <2>3. QED
      BY <2>1, <2>2 DEF LocalsInv
  <1>4. CASE SiteStep
    <2>1. part = "site" /\ part' = part /\ Site!Next /\ UNCHANGED vars
      BY <1>4 DEF SiteStep
    <2>2. SiteInv' /\ IInv'
      BY <2>1, SiteNext, RangesStay DEF LocalsInv
    <2>3. QED
      BY <2>1, <2>2 DEF LocalsInv
  <1>5. CASE UNCHANGED all_vars
    <2>1. /\ part' = part /\ UNCHANGED vars /\ UNCHANGED site_vars
          /\ UNCHANGED <<scope_vars, func>> /\ UNCHANGED <<location_vars, func>>
      BY <1>5 DEF all_vars
    <2>2. IInv'
      BY <2>1, RangesStay DEF LocalsInv
    <2>3. part = "scopes" => ScopeInv' /\ LocationInv'
      BY <2>1, ScopesStay, LocationStays DEF LocalsInv
    <2>4. part = "locations" => LocInv'
      BY <2>1, LocInvStays DEF LocalsInv
    <2>5. part = "site" => SiteInv'
      BY <2>1, SiteStays DEF LocalsInv
    <2>6. QED
      BY <2>1, <2>2, <2>3, <2>4, <2>5 DEF LocalsInv
  <1>6. QED
    BY <1>1, <1>2, <1>3, <1>4, <1>5 DEF LocalsNext

(* The inductive invariant of the four parts together.                     *)
THEOREM Inductive == LocalsSpec => []LocalsInv
  BY LocalsInvInit, LocalsInvNext, PTL DEF LocalsSpec

(* The states of the record walk, the locations, the ranges and the inline *)
(* annotations have their types; the annotations are bytes.                *)
THEOREM Types == LocalsSpec => []TypesOK
  <1>1. LocalsInv => TypesOK
    BY ScopesType, LocationsType DEF LocalsInv, TypesOK, IInv, SiteInv
  <1>2. QED
    BY <1>1, Inductive, PTL

(* The records written for a location tile its range.                      *)
THEOREM Tiled == LocalsSpec => []RangeTiled
  <1>1. ASSUME IInv, pc = "done" PROVE RangeTiled
    <2>1. current_offset = Limit
      BY <1>1 DEF IInv, TypeOK, LoopInv
    <2>2. QED
      BY <1>1, <2>1 DEF IInv, LoopInv, RangeTiled
  <1>2. LocalsInv => RangeTiled
    BY <1>1 DEF LocalsInv, RangeTiled
  <1>3. QED
    BY <1>2, Inductive, PTL

(* A record of a variable names the code its location is valid in: that of *)
(* its range, or the part the function starts with if the location is the  *)
(* whole function and the record's scope is of no longer part.             *)
THEOREM WhereLocated == LocalsSpec => []RecordsWhereLocated
  <1>1. LocalsInv => RecordsWhereLocated
    BY LocatedRight DEF LocalsInv, RecordsWhereLocated
  <1>2. QED
    BY <1>1, Inductive, PTL

(* When all functions are written, a variable is found wherever one of its *)
(* locations is understood.                                                *)
THEOREM Visible == LocalsSpec => []VisibleInFunction
  <1>1. LocalsInv => VisibleInFunction
    BY VisibleRight DEF LocalsInv, VisibleInFunction
  <1>2. QED
    BY <1>1, Inductive, PTL

(* The scopes open in the output are those of the activations of           *)
(* translate_block_variables: each S_END closes what it was written for.   *)
THEOREM ScopesPaired == LocalsSpec => []ScopesMatchActivations
  <1>1. LocalsInv => ScopesMatchActivations
    BY ScopesMatch DEF LocalsInv, ScopesMatchActivations
  <1>2. QED
    BY <1>1, Inductive, PTL

(* Each variable gets one S_LOCAL, in the scope it belongs in, also below  *)
(* blocks and unreadable inline sites.                                     *)
THEOREM VariablesScoped == LocalsSpec => []VariablesInTheirScope
  <1>1. LocalsInv => VariablesInTheirScope
    BY InTheirScope DEF LocalsInv, VariablesInTheirScope
  <1>2. QED
    BY <1>1, Inductive, PTL

(* The def-ranges behind the S_LOCAL of a variable are its own, and when   *)
(* the loop over its locations is over they are those of all of them.      *)
THEOREM RangesAfterLocals == LocalsSpec => []DefRangesFollowTheirVariable
  <1>1. LocalsInv => DefRangesFollowTheirVariable
    BY RangesFollow DEF LocalsInv, DefRangesFollowTheirVariable
  <1>2. QED
    BY <1>1, Inductive, PTL

-----------------------------------------------------------------------------
(* InlineAnnotations, read back.                                           *)

(* A number and its four bytes.                                            *)
LEMMA FourDigits ==
  ASSUME NEW val \in Nat, val < Site!FourByteLimit
  PROVE  /\ val = ((val \div 16777216) % 64) * 16777216 + ((val \div 65536) % 256) * 65536
                    + ((val \div 256) % 256) * 256 + (val % 256)
         /\ (val \div 16777216) % 64 \in 0 .. 63 /\ (val \div 65536) % 256 \in 0 .. 255
         /\ (val \div 256) % 256 \in 0 .. 255 /\ val % 256 \in 0 .. 255
  <1>1. PICK a \in Nat, b \in Nat, c \in Nat :
          a = val \div 256 /\ b = val \div 65536 /\ c = val \div 16777216
    BY SMT
  <1>2. /\ val = 256 * a + (val % 256) /\ val % 256 \in 0 .. 255
        /\ a = 256 * b + (a % 256) /\ a % 256 \in 0 .. 255
        /\ b = 256 * c + (b % 256) /\ b % 256 \in 0 .. 255
    BY <1>1, SMT
  <1>3. c < 64
    BY <1>1, SMT DEF Site!FourByteLimit
  <1>4. c % 64 = c
    BY <1>3, SMT
  <1>5. val = c * 16777216 + (b % 256) * 65536 + (a % 256) * 256 + (val % 256)
    BY <1>2, SMT
  <1>6. QED
    BY <1>1, <1>2, <1>3, <1>4, <1>5, SMT

(* A reader gets the number back, and knows where it ends.                 *)
LEMMA OperandRead ==
  ASSUME NEW val \in Nat, val < Site!FourByteLimit, NEW bytes \in Seq(Byte), NEW q \in Nat,
         \A j \in 1 .. Len(Site!U32(val)) : bytes[q + j] = Site!U32(val)[j]
  PROVE  /\ Site!Operand(bytes, q + 1) = [val |-> val, next |-> q + Len(Site!U32(val)) + 1]
         /\ Len(Site!U32(val)) \in Nat /\ Len(Site!U32(val)) > 0
  <1>1. CASE val < 128
    <2>1. Site!U32(val) = <<val>>
      BY <1>1, SMT DEF Site!U32
    <2>2. Len(Site!U32(val)) = 1 /\ Site!U32(val)[1] = val
      BY <2>1, SMT
    <2>3. bytes[q + 1] = val /\ q + 1 + 1 = q + Len(Site!U32(val)) + 1
      BY <2>2, SMT
    <2>4. QED
      BY <1>1, <2>2, <2>3, SMT DEF Site!Operand
  <1>2. CASE ~ (val < 128) /\ val < 16384
    <2>1. Site!U32(val) = <<128 + val \div 256, val % 256>>
      BY <1>2, SMT DEF Site!U32
    <2>2. /\ Len(Site!U32(val)) = 2 /\ Site!U32(val)[1] = 128 + val \div 256
          /\ Site!U32(val)[2] = val % 256
      BY <2>1, SMT
    <2>3. /\ bytes[q + 1] = 128 + val \div 256 /\ bytes[q + 2] = val % 256
          /\ (q + 1) + 1 = q + 2 /\ (q + 1) + 2 = q + Len(Site!U32(val)) + 1
      BY <2>2, SMT
    <2>a. PICK a \in Nat : a = val \div 256
      BY SMT
    <2>b. PICK b \in Nat : b = val % 256
      BY SMT
    <2>4. val = a * 256 + b /\ a \in 0 .. 63 /\ b \in 0 .. 255
      <3>1. val = 256 * a + b /\ b \in 0 .. 255
        BY <2>a, <2>b, SMT
      <3>2. a \in 0 .. 63
        BY <1>2, <3>1, SMT
      <3>3. val = a * 256 + b
        BY <3>1, SMT
      <3>4. QED
        BY <3>1, <3>2, <3>3, SMT
    <2>5. /\ ~ (128 + a < 128) /\ 128 + a < 192 /\ (128 + a - 128) * 256 + b = val
      BY <2>4, SMT
    <2>6. bytes[q + 1] = 128 + a /\ bytes[(q + 1) + 1] = b
      BY <2>3, <2>a, <2>b, SMT
    <2>7. Site!Operand(bytes, q + 1) =
            [val |-> (bytes[q + 1] - 128) * 256 + bytes[(q + 1) + 1], next |-> (q + 1) + 2]
      <3>1. ~ (bytes[q + 1] < 128) /\ bytes[q + 1] < 192
        BY <2>5, <2>6, SMT
      <3>2. QED
        BY <3>1, SMT DEF Site!Operand
    <2>8. QED
      BY <2>2, <2>3, <2>5, <2>6, <2>7, SMT
  <1>3. CASE ~ (val < 16384)
    <2>1. Site!U32(val) = <<192 + ((val \div 16777216) % 64), (val \div 65536) % 256,
                            (val \div 256) % 256, val % 256>>
      BY <1>3, SMT DEF Site!U32
    <2>a. PICK a : a = (val \div 16777216) % 64
      OBVIOUS
    <2>b. PICK b : b = (val \div 65536) % 256
      OBVIOUS
    <2>c. PICK c : c = (val \div 256) % 256
      OBVIOUS
    <2>d. PICK d : d = val % 256
      OBVIOUS
    <2>2. /\ a \in 0 .. 63 /\ b \in 0 .. 255 /\ c \in 0 .. 255 /\ d \in 0 .. 255
          /\ val = a * 16777216 + b * 65536 + c * 256 + d
      <3>1. /\ (val \div 16777216) % 64 \in 0 .. 63 /\ (val \div 65536) % 256 \in 0 .. 255
            /\ (val \div 256) % 256 \in 0 .. 255 /\ val % 256 \in 0 .. 255
            /\ val = ((val \div 16777216) % 64) * 16777216 + ((val \div 65536) % 256) * 65536
                       + ((val \div 256) % 256) * 256 + (val % 256)
        BY FourDigits, SMT
      <3>2. QED
        BY <2>a, <2>b, <2>c, <2>d, <3>1, SMT
    <2>3. Site!U32(val) = <<192 + a, b, c, d>>
      BY <2>1, <2>a, <2>b, <2>c, <2>d, SMT
    <2>4. /\ Len(Site!U32(val)) = 4 /\ Site!U32(val)[1] = 192 + a /\ Site!U32(val)[2] = b
          /\ Site!U32(val)[3] = c /\ Site!U32(val)[4] = d
      BY <2>3, SMT
    <2>5. /\ bytes[q + 1] = 192 + a /\ bytes[q + 2] = b /\ bytes[q + 3] = c /\ bytes[q + 4] = d
          /\ (q + 1) + 1 = q + 2 /\ (q + 1) + 2 = q + 3 /\ (q + 1) + 3 = q + 4
          /\ (q + 1) + 4 = q + Len(Site!U32(val)) + 1
      BY <2>4, SMT
    <2>6. /\ ~ (192 + a < 128) /\ ~ (192 + a < 192)
          /\ (192 + a - 192) * 16777216 + b * 65536 + c * 256 + d = val
      BY <2>2, SMT
    <2>7. Site!Operand(bytes, q + 1) =
            [val  |-> (bytes[q + 1] - 192) * 16777216 + bytes[(q + 1) + 1] * 65536
                        + bytes[(q + 1) + 2] * 256 + bytes[(q + 1) + 3],
             next |-> (q + 1) + 4]
      <3>1. ~ (bytes[q + 1] < 128) /\ ~ (bytes[q + 1] < 192)
        BY <2>5, <2>6, SMT
      <3>2. QED
        BY <3>1, SMT DEF Site!Operand
    <2>8. (bytes[q + 1] - 192) * 16777216 + bytes[(q + 1) + 1] * 65536
            + bytes[(q + 1) + 2] * 256 + bytes[(q + 1) + 3] = val
      <3>1. /\ bytes[q + 1] = 192 + a /\ bytes[(q + 1) + 1] = b
            /\ bytes[(q + 1) + 2] = c /\ bytes[(q + 1) + 3] = d
        BY <2>5, SMT
      <3>2. QED
        BY <2>2, <3>1, SMT
    <2>9. QED
      BY <2>4, <2>5, <2>7, <2>8, SMT
  <1>4. QED
    BY <1>1, <1>2, <1>3, SMT

(* What an operand holds does not depend on what follows it.               *)
LEMMA OperandKept ==
  ASSUME NEW bytes \in Seq(Byte), NEW more \in Seq(Byte), NEW p \in 1 .. Len(bytes),
         Site!Operand(bytes, p).next <= Len(bytes) + 1
  PROVE  Site!Operand(bytes \o more, p) = Site!Operand(bytes, p)
  <1>1. PICK both \in Seq(Byte) : both = bytes \o more
    <2>1. bytes \o more \in Seq(Byte)
      BY ConcatProperties
    <2>2. QED
      BY <2>1
  <1>2. Len(bytes) \in Nat /\ \A j \in 1 .. Len(bytes) : both[j] = bytes[j]
    BY <1>1, ConcatProperties, SMT
  <1>3. both[p] = bytes[p]
    BY <1>2, SMT
  <1>4. CASE bytes[p] < 128
    BY <1>1, <1>3, <1>4, SMT DEF Site!Operand
  <1>5. CASE ~ (bytes[p] < 128) /\ bytes[p] < 192
    <2>1. Site!Operand(bytes, p).next = p + 2
      BY <1>5, SMT DEF Site!Operand
    <2>2. p + 1 \in 1 .. Len(bytes)
      BY <1>2, <2>1, SMT
    <2>3. QED
      BY <1>1, <1>2, <1>3, <1>5, <2>2, SMT DEF Site!Operand
  <1>6. CASE ~ (bytes[p] < 128) /\ ~ (bytes[p] < 192)
    <2>1. Site!Operand(bytes, p).next = p + 4
      BY <1>6, SMT DEF Site!Operand
    <2>2. p + 1 \in 1 .. Len(bytes) /\ p + 2 \in 1 .. Len(bytes) /\ p + 3 \in 1 .. Len(bytes)
      BY <1>2, <2>1, SMT
    <2>3. QED
      BY <1>1, <1>2, <1>3, <1>6, <2>2, SMT DEF Site!Operand
  <1>7. QED
    BY <1>4, <1>5, <1>6, SMT

(* What a reader reads from each position of the bytes.                    *)
AnnotationAt(f, bytes, p) ==
  IF p > Len(bytes) THEN << >>
  ELSE LET op  == Site!Operand(bytes, p)
           arg == Site!Operand(bytes, op.next)
       IN  << [op |-> op.val, arg |-> arg.val] >> \o f[arg.next]

ReadsAnnotations(f, bytes) ==
  f = [p \in 1 .. Len(bytes) + 8 |-> AnnotationAt(f, bytes, p)]

(* An operand is followed by what is one to four bytes on.                 *)
LEMMA OperandNext ==
  ASSUME NEW bytes, NEW p \in Nat
  PROVE  /\ Site!Operand(bytes, p).next \in Nat
         /\ p < Site!Operand(bytes, p).next /\ Site!Operand(bytes, p).next <= p + 4
  <1>1. CASE bytes[p] < 128
    BY <1>1, SMT DEF Site!Operand
  <1>2. CASE ~ (bytes[p] < 128) /\ bytes[p] < 192
    BY <1>2, SMT DEF Site!Operand
  <1>3. CASE ~ (bytes[p] < 128) /\ ~ (bytes[p] < 192)
    BY <1>3, SMT DEF Site!Operand
  <1>4. QED
    BY <1>1, <1>2, <1>3, SMT

(* There is such a reading.                                                *)
LEMMA AnnotationsExist ==
  ASSUME NEW bytes, Len(bytes) \in Nat
  PROVE  \E f : ReadsAnnotations(f, bytes)
  <1> DEFINE N == Len(bytes) + 8
             D == 1 .. N
             P(k) == \E f : /\ f = [i \in D |-> f[i]]
                            /\ \A i \in D : i > N - k => f[i] = AnnotationAt(f, bytes, i)
             T == { k \in 0 .. N : ~ P(k) }
  <1>1. P(0)
    <2>1. PICK f : f = [i \in D |-> << >>]
      OBVIOUS
    <2>2. f = [i \in D |-> f[i]] /\ \A i \in D : ~ (i > N - 0)
      BY <2>1
    <2>3. QED
      BY <2>2
  <1>2. ASSUME NEW k \in 1 .. N, P(k - 1) PROVE P(k)
    <2>1. PICK f : /\ f = [i \in D |-> f[i]]
                   /\ \A i \in D : i > N - (k - 1) => f[i] = AnnotationAt(f, bytes, i)
      BY <1>2
    <2>2. PICK m : m = N - (k - 1)
      OBVIOUS
    <2>3. m \in D /\ m \in Nat
      BY <2>2
    <2>4. PICK g : g = [i \in D |-> IF i = m THEN AnnotationAt(f, bytes, m) ELSE f[i]]
      OBVIOUS
    <2>5. g = [i \in D |-> g[i]]
      BY <2>4
    <2>6. ASSUME NEW i \in D, i >= m
          PROVE  AnnotationAt(g, bytes, i) = AnnotationAt(f, bytes, i)
      <3>1. CASE i > Len(bytes)
        BY <3>1 DEF AnnotationAt
      <3>2. CASE ~ (i > Len(bytes))
        <4>1. PICK next \in Nat :
                /\ next = Site!Operand(bytes, Site!Operand(bytes, i).next).next
                /\ i < next /\ next <= i + 8
          <5>1. PICK j \in Nat : j = Site!Operand(bytes, i).next /\ i < j /\ j <= i + 4
            BY OperandNext
          <5>2. PICK n \in Nat : n = Site!Operand(bytes, j).next /\ j < n /\ n <= j + 4
            BY OperandNext
          <5>3. QED
            BY <5>1, <5>2
        <4>2. next \in D /\ next # m
          BY <2>3, <2>6, <3>2, <4>1
        <4>3. g[next] = f[next]
          BY <2>4, <4>2
        <4>4. QED
          BY <4>1, <4>3 DEF AnnotationAt
      <3>3. QED
        BY <3>1, <3>2
    <2>7. ASSUME NEW i \in D, i > N - k PROVE g[i] = AnnotationAt(g, bytes, i)
      <3>1. i >= m
        BY <2>2, <2>7
      <3>2. CASE i = m
        BY <2>4, <2>6, <3>1, <3>2
      <3>3. CASE i > m
        <4>1. f[i] = AnnotationAt(f, bytes, i) /\ g[i] = f[i]
          BY <2>1, <2>2, <2>3, <2>4, <3>3
        <4>2. QED
          BY <2>6, <3>1, <4>1
      <3>4. QED
        BY <2>3, <3>1, <3>2, <3>3
    <2>8. QED
      BY <2>5, <2>7
  <1>3. T = {}
    <2> SUFFICES ASSUME T # {} PROVE FALSE
      OBVIOUS
    <2> HIDE DEF P
    <2>1. PICK k \in T : \A n \in T : k <= n
      <3>1. T \in SUBSET Nat
        OBVIOUS
      <3>2. QED
        BY <3>1, Least
    <2>2. k \in 1 .. N /\ k - 1 \in 0 .. N /\ k - 1 \notin T
      BY <1>1, <2>1
    <2>3. P(k)
      BY <1>2, <2>2
    <2>4. QED
      BY <2>1, <2>3
  <1>4. P(N)
    <2> HIDE DEF P
    <2>1. N \in 0 .. N
      OBVIOUS
    <2>2. QED
      BY <1>3, <2>1
  <1>5. PICK f : /\ f = [i \in D |-> f[i]]
                 /\ \A i \in D : i > N - N => f[i] = AnnotationAt(f, bytes, i)
    BY <1>4
  <1>6. \A i \in D : f[i] = AnnotationAt(f, bytes, i)
    BY <1>5
  <1>7. f = [i \in D |-> AnnotationAt(f, bytes, i)]
    BY <1>5, <1>6
  <1>8. QED
    BY <1>7 DEF ReadsAnnotations

(* The annotations are what is read from the start.                        *)
LEMMA AnnotationsRead ==
  ASSUME NEW bytes, Len(bytes) \in Nat
  PROVE  \E f : ReadsAnnotations(f, bytes) /\ Site!Annotations(bytes) = f[1]
  <1> DEFINE from == CHOOSE f : ReadsAnnotations(f, bytes)
  <1>1. ReadsAnnotations(from, bytes)
    BY AnnotationsExist
  <1>2. Site!Annotations(bytes) = from[1]
    BY DEF Site!Annotations, ReadsAnnotations, AnnotationAt
  <1>3. QED
    BY <1>1, <1>2

-----------------------------------------------------------------------------
(* An annotation, and the bytes behind the first b of which it is read: an *)
(* opcode up to the q-th, and an operand up to the e-th.                   *)
Annotation == [op: Nat, arg: Nat]

ReadBetween(bytes, b, e, a) ==
  /\ e <= Len(bytes)
  /\ \E q \in Nat : /\ b < q /\ q < e
                    /\ Site!Operand(bytes, b + 1) = [val |-> a.op, next |-> q + 1]
                    /\ Site!Operand(bytes, q + 1) = [val |-> a.arg, next |-> e + 1]

(* The bytes are those of the annotations, one after the other.            *)
Encoded(read, bytes) ==
  \E f \in [0 .. Len(read) -> Nat] :
    /\ f[0] = 0 /\ f[Len(read)] = Len(bytes)
    /\ \A n \in 1 .. Len(read) : ReadBetween(bytes, f[n - 1], f[n], read[n])

(* Bytes that are added change nothing of what is read before them.        *)
LEMMA ReadBefore ==
  ASSUME NEW bytes \in Seq(Byte), NEW more \in Seq(Byte), NEW b \in Nat, NEW e \in Nat, NEW a,
         ReadBetween(bytes, b, e, a)
  PROVE  ReadBetween(bytes \o more, b, e, a)
  <1>1. PICK q \in Nat : /\ b < q /\ q < e
                         /\ Site!Operand(bytes, b + 1) = [val |-> a.op, next |-> q + 1]
                         /\ Site!Operand(bytes, q + 1) = [val |-> a.arg, next |-> e + 1]
    BY DEF ReadBetween
  <1>2. e <= Len(bytes) /\ Len(bytes) \in Nat
    BY DEF ReadBetween
  <1>3. b + 1 \in 1 .. Len(bytes) /\ q + 1 \in 1 .. Len(bytes)
    BY <1>1, <1>2
  <1>4. /\ Site!Operand(bytes, b + 1).next <= Len(bytes) + 1
        /\ Site!Operand(bytes, q + 1).next <= Len(bytes) + 1
    BY <1>1, <1>2
  <1>5. /\ Site!Operand(bytes \o more, b + 1) = Site!Operand(bytes, b + 1)
        /\ Site!Operand(bytes \o more, q + 1) = Site!Operand(bytes, q + 1)
    BY <1>3, <1>4, OperandKept
  <1>6. e <= Len(bytes \o more)
    <2>1. Len(bytes \o more) = Len(bytes) + Len(more) /\ Len(more) \in Nat
      BY ConcatProperties
    <2>2. QED
      BY <1>2, <2>1
  <1>7. QED
    BY <1>1, <1>5, <1>6 DEF ReadBetween

(* An opcode and an operand that are added are read.                       *)
LEMMA ReadLast ==
  ASSUME NEW bytes \in Seq(Byte), NEW op \in Nat, op < Site!FourByteLimit,
         NEW arg \in Nat, arg < Site!FourByteLimit
  PROVE  LET new == bytes \o (Site!U32(op) \o Site!U32(arg))
         IN  new \in Seq(Byte) /\ ReadBetween(new, Len(bytes), Len(new), [op |-> op, arg |-> arg])
  <1>1. PICK u \in Seq(Byte), v \in Seq(Byte) : u = Site!U32(op) /\ v = Site!U32(arg)
    BY Bytes
  <1>2. PICK w \in Seq(Byte) : w = u \o v
    <2>1. u \o v \in Seq(Byte)
      BY ConcatProperties
    <2>2. QED
      BY <2>1
  <1>3. /\ Len(w) = Len(u) + Len(v) /\ Len(u) \in Nat /\ Len(v) \in Nat
        /\ \A j \in 1 .. Len(u) + Len(v) : w[j] = IF j <= Len(u) THEN u[j] ELSE v[j - Len(u)]
    BY <1>2, ConcatProperties
  <1>4. PICK new \in Seq(Byte) : new = bytes \o w
    <2>1. bytes \o w \in Seq(Byte)
      BY ConcatProperties
    <2>2. QED
      BY <2>1
  <1>5. /\ Len(new) = Len(bytes) + Len(w) /\ Len(bytes) \in Nat
        /\ \A j \in 1 .. Len(bytes) + Len(w) :
             new[j] = IF j <= Len(bytes) THEN bytes[j] ELSE w[j - Len(bytes)]
    BY <1>4, ConcatProperties
  <1>6. ASSUME NEW j \in 1 .. Len(u) PROVE new[Len(bytes) + j] = u[j]
    <2>1. /\ Len(bytes) + j \in 1 .. Len(bytes) + Len(w) /\ ~ (Len(bytes) + j <= Len(bytes))
          /\ (Len(bytes) + j) - Len(bytes) = j
      BY <1>3, <1>5
    <2>2. j \in 1 .. Len(u) + Len(v) /\ j <= Len(u)
      BY <1>3
    <2>3. QED
      BY <1>3, <1>5, <2>1, <2>2
  <1>q. PICK q \in Nat : q = Len(bytes) + Len(u)
    BY <1>3, <1>5
  <1>7. ASSUME NEW j \in 1 .. Len(v) PROVE new[q + j] = v[j]
    <2>1. /\ q + j \in 1 .. Len(bytes) + Len(w) /\ ~ (q + j <= Len(bytes))
          /\ (q + j) - Len(bytes) = Len(u) + j
      BY <1>3, <1>5, <1>q
    <2>2. /\ Len(u) + j \in 1 .. Len(u) + Len(v) /\ ~ (Len(u) + j <= Len(u))
          /\ (Len(u) + j) - Len(u) = j
      BY <1>3
    <2>3. QED
      BY <1>3, <1>5, <2>1, <2>2
  <1>8. /\ Site!Operand(new, Len(bytes) + 1) = [val |-> op, next |-> Len(bytes) + Len(u) + 1]
        /\ Len(u) > 0
    <2>1. PICK b \in Nat : b = Len(bytes)
      BY <1>5
    <2>2. \A j \in 1 .. Len(Site!U32(op)) : new[b + j] = Site!U32(op)[j]
      BY <1>1, <1>6, <2>1
    <2>3. /\ Site!Operand(new, b + 1) = [val |-> op, next |-> b + Len(Site!U32(op)) + 1]
          /\ Len(Site!U32(op)) > 0
      BY <2>2, OperandRead
    <2>4. QED
      BY <1>1, <2>1, <2>3
  <1>9. /\ Site!Operand(new, q + 1) = [val |-> arg, next |-> q + Len(v) + 1]
        /\ Len(v) > 0
    <2>1. \A j \in 1 .. Len(Site!U32(arg)) : new[q + j] = Site!U32(arg)[j]
      BY <1>1, <1>7
    <2>2. /\ Site!Operand(new, q + 1) = [val |-> arg, next |-> q + Len(Site!U32(arg)) + 1]
          /\ Len(Site!U32(arg)) > 0
      BY <2>1, OperandRead
    <2>3. QED
      BY <1>1, <2>2
  <1>10. /\ Len(bytes) < q /\ q < Len(new) /\ Len(new) <= Len(new)
         /\ Len(bytes) + Len(u) + 1 = q + 1 /\ q + Len(v) + 1 = Len(new) + 1
    BY <1>3, <1>5, <1>8, <1>9, <1>q
  <1>11. ReadBetween(new, Len(bytes), Len(new), [op |-> op, arg |-> arg])
    BY <1>8, <1>9, <1>10 DEF ReadBetween
  <1>12. QED
    BY <1>1, <1>2, <1>4, <1>11

(* One annotation more.                                                    *)
LEMMA EncodedMore ==
  ASSUME NEW bytes \in Seq(Byte), NEW read \in Seq(Annotation), Encoded(read, bytes),
         NEW op \in Nat, op < Site!FourByteLimit, NEW arg \in Nat, arg < Site!FourByteLimit
  PROVE  /\ bytes \o (Site!U32(op) \o Site!U32(arg)) \in Seq(Byte)
         /\ Append(read, [op |-> op, arg |-> arg]) \in Seq(Annotation)
         /\ Encoded(Append(read, [op |-> op, arg |-> arg]),
                    bytes \o (Site!U32(op) \o Site!U32(arg)))
  <1>1. PICK more : more = Site!U32(op) \o Site!U32(arg)
    OBVIOUS
  <1>2. PICK new : new = bytes \o more
    OBVIOUS
  <1>3. PICK a : a = [op |-> op, arg |-> arg]
    OBVIOUS
  <1>4. new \in Seq(Byte) /\ ReadBetween(new, Len(bytes), Len(new), a)
    BY <1>1, <1>2, <1>3, ReadLast
  <1>5. more \in Seq(Byte)
    <2>1. Site!U32(op) \in Seq(Byte) /\ Site!U32(arg) \in Seq(Byte)
      BY Bytes
    <2>2. QED
      BY <1>1, <2>1, ConcatProperties
  <1>6. PICK f \in [0 .. Len(read) -> Nat] :
          /\ f[0] = 0 /\ f[Len(read)] = Len(bytes)
          /\ \A n \in 1 .. Len(read) : ReadBetween(bytes, f[n - 1], f[n], read[n])
    BY DEF Encoded
  <1>7. PICK N \in Nat : N = Len(read)
    OBVIOUS
  <1>8. PICK longer : longer = Append(read, a)
    OBVIOUS
  <1>9. /\ longer \in Seq(Annotation) /\ Len(longer) = N + 1 /\ longer[N + 1] = a
        /\ \A n \in 1 .. N : longer[n] = read[n]
    BY <1>3, <1>7, <1>8 DEF Annotation
  <1>10. PICK g : g = [n \in 0 .. N + 1 |-> IF n = N + 1 THEN Len(new) ELSE f[n]]
    OBVIOUS
  <1>11. /\ g[N + 1] = Len(new) /\ Len(new) \in Nat
         /\ \A n \in 0 .. N : g[n] = f[n] /\ f[n] \in Nat
    BY <1>4, <1>6, <1>7, <1>10
  <1>12. g \in [0 .. N + 1 -> Nat] /\ g[0] = 0
    <2>1. \A n \in 0 .. N + 1 : n = N + 1 \/ n \in 0 .. N
      OBVIOUS
    <2>2. 0 \in 0 .. N
      OBVIOUS
    <2>3. g[0] = 0
      BY <1>6, <1>11, <2>2
    <2>4. \A n \in 0 .. N + 1 : g[n] \in Nat
      <3> SUFFICES ASSUME NEW n \in 0 .. N + 1 PROVE g[n] \in Nat
        OBVIOUS
      <3>1. CASE n = N + 1
        BY <1>11, <3>1
      <3>2. CASE n \in 0 .. N
        BY <1>11, <3>2
      <3>3. QED
        BY <2>1, <3>1, <3>2
    <2>5. g = [n \in 0 .. N + 1 |-> g[n]]
      BY <1>10
    <2>6. QED
      BY <2>3, <2>4, <2>5
  <1>13. ASSUME NEW n \in 1 .. N + 1 PROVE ReadBetween(new, g[n - 1], g[n], longer[n])
    <2>1. CASE n = N + 1
      <3>1. n - 1 = N /\ N \in 0 .. N
        BY <2>1
      <3>2. g[n - 1] = Len(bytes)
        BY <1>6, <1>7, <1>11, <3>1
      <3>3. QED
        BY <1>4, <1>9, <1>11, <2>1, <3>2
    <2>2. CASE n # N + 1
      <3>1. n \in 1 .. N /\ n - 1 \in 0 .. N /\ n \in 0 .. N
        BY <2>2
      <3>2. ReadBetween(bytes, f[n - 1], f[n], read[n])
        BY <1>6, <1>7, <3>1
      <3>3. ReadBetween(new, f[n - 1], f[n], read[n])
        BY <1>2, <1>5, <1>11, <3>1, <3>2, ReadBefore
      <3>4. QED
        BY <1>9, <1>11, <3>1, <3>3
    <2>3. QED
      BY <2>1, <2>2
  <1>14. Encoded(longer, new)
    BY <1>9, <1>11, <1>12, <1>13 DEF Encoded
  <1>15. QED
    BY <1>1, <1>2, <1>3, <1>4, <1>8, <1>9, <1>14

(* A reader gets just those annotations from the bytes.                    *)
LEMMA AnnotationsAre ==
  ASSUME NEW bytes \in Seq(Byte), NEW read \in Seq(Annotation), Encoded(read, bytes)
  PROVE  Site!Annotations(bytes) = read
  <1>1. PICK f \in [0 .. Len(read) -> Nat] :
          /\ f[0] = 0 /\ f[Len(read)] = Len(bytes)
          /\ \A n \in 1 .. Len(read) : ReadBetween(bytes, f[n - 1], f[n], read[n])
    BY DEF Encoded
  <1>2. PICK N \in Nat : N = Len(read)
    OBVIOUS
  <1>3. Len(bytes) \in Nat
    OBVIOUS
  <1>4. PICK g : ReadsAnnotations(g, bytes) /\ Site!Annotations(bytes) = g[1]
    BY <1>3, AnnotationsRead
  <1>5. \A p \in 1 .. Len(bytes) + 8 : g[p] = AnnotationAt(g, bytes, p)
    <2>1. PICK h : h = [p \in 1 .. Len(bytes) + 8 |-> AnnotationAt(g, bytes, p)]
      OBVIOUS
    <2>2. g = h
      BY <1>4, <2>1 DEF ReadsAnnotations
    <2>3. QED
      BY <2>1, <2>2
  <1> DEFINE Rest(n) == [k \in 1 .. N - n |-> read[n + k]]
  <1>6. Rest(N) = << >>
    <2>1. N - N = 0
      OBVIOUS
    <2>2. Rest(N) \in Seq(Annotation) /\ Len(Rest(N)) = 0
      BY <2>1
    <2>3. QED
      BY <2>2, EmptySeq
  <1>7. ASSUME NEW n \in 1 .. N PROVE Rest(n - 1) = <<read[n]>> \o Rest(n)
    <2>1. /\ Rest(n) \in Seq(Annotation) /\ Len(Rest(n)) = N - n
          /\ \A k \in 1 .. N - n : Rest(n)[k] = read[n + k]
      BY <1>2
    <2>2. /\ Rest(n - 1) \in Seq(Annotation) /\ Len(Rest(n - 1)) = N - n + 1
          /\ \A k \in 1 .. N - n + 1 : Rest(n - 1)[k] = read[n - 1 + k]
      BY <1>2
    <2> HIDE DEF Rest
    <2>3. /\ <<read[n]>> \in Seq(Annotation) /\ Len(<<read[n]>>) = 1
          /\ <<read[n]>>[1] = read[n]
      BY <1>2
    <2>4. PICK q \in Seq(Annotation) : q = <<read[n]>> \o Rest(n)
      <3>1. <<read[n]>> \o Rest(n) \in Seq(Annotation)
        BY <2>1, <2>3, ConcatProperties
      <3>2. QED
        BY <3>1
    <2>5. /\ Len(q) = 1 + (N - n)
          /\ \A k \in 1 .. 1 + (N - n) : q[k] = IF k <= 1 THEN read[n] ELSE Rest(n)[k - 1]
      <3>1. PICK t \in Seq(Annotation) : t = <<read[n]>>
        BY <2>3
      <3>2. PICK r \in Seq(Annotation) : r = Rest(n)
        BY <2>1
      <3>3. Len(t) = 1 /\ t[1] = read[n] /\ Len(r) = N - n
        BY <2>1, <2>3, <3>1, <3>2
      <3>4. /\ Len(q) = Len(t) + Len(r)
            /\ \A k \in 1 .. Len(t) + Len(r) :
                 q[k] = IF k <= Len(t) THEN t[k] ELSE r[k - Len(t)]
        BY <2>4, <3>1, <3>2, ConcatProperties
      <3>5. \A k \in 1 .. 1 + (N - n) : q[k] = IF k <= 1 THEN t[k] ELSE r[k - 1]
        BY <3>3, <3>4
      <3>6. \A k \in 1 .. 1 + (N - n) : k <= 1 => k = 1
        OBVIOUS
      <3>7. QED
        BY <3>2, <3>3, <3>4, <3>5, <3>6
    <2>6. ASSUME NEW k \in 1 .. N - n + 1 PROVE q[k] = Rest(n - 1)[k]
      <3>1. CASE k = 1
        <4>1. k \in 1 .. 1 + (N - n) /\ k <= 1 /\ n - 1 + k = n
          BY <3>1
        <4>2. QED
          BY <2>2, <2>5, <4>1
      <3>2. CASE k # 1
        <4>1. k - 1 \in 1 .. N - n /\ n + (k - 1) = n - 1 + k
          BY <3>2
        <4>2. q[k] = Rest(n)[k - 1]
          BY <2>5, <3>2
        <4>3. QED
          BY <2>1, <2>2, <4>1, <4>2
      <3>3. QED
        BY <3>1, <3>2
    <2>7. q = Rest(n - 1)
      BY <2>2, <2>5, <2>6, SeqEqual
    <2>8. QED
      BY <2>4, <2>7
  <1> HIDE DEF Rest
  <1>8. ASSUME NEW n \in 1 .. N, g[f[n] + 1] = Rest(n)
        PROVE  g[f[n - 1] + 1] = Rest(n - 1)
    <2>1. PICK b \in Nat, e \in Nat : b = f[n - 1] /\ e = f[n]
      <3>1. n - 1 \in 0 .. N /\ n \in 0 .. N
        OBVIOUS
      <3>2. QED
        BY <1>1, <1>2, <3>1
    <2>2. PICK a : a = read[n]
      OBVIOUS
    <2>3. a \in [op: Nat, arg: Nat]
      <3>1. read[n] \in Annotation
        BY <1>2
      <3>2. QED
        BY <2>2, <3>1 DEF Annotation
    <2>4. ReadBetween(bytes, b, e, a)
      BY <1>1, <1>2, <2>1, <2>2
    <2>5. PICK q \in Nat : /\ b < q /\ q < e /\ e <= Len(bytes)
                           /\ Site!Operand(bytes, b + 1) = [val |-> a.op, next |-> q + 1]
                           /\ Site!Operand(bytes, q + 1) = [val |-> a.arg, next |-> e + 1]
      BY <2>4 DEF ReadBetween
    <2>6. b + 1 \in 1 .. Len(bytes) + 8 /\ ~ (b + 1 > Len(bytes))
      BY <1>3, <2>5
    <2>7. g[b + 1] = AnnotationAt(g, bytes, b + 1)
      BY <1>5, <2>6
    <2>8. AnnotationAt(g, bytes, b + 1) = << [op |-> a.op, arg |-> a.arg] >> \o g[e + 1]
      <3>1. PICK op : op = Site!Operand(bytes, b + 1)
        OBVIOUS
      <3>2. PICK arg : arg = Site!Operand(bytes, op.next)
        OBVIOUS
      <3>3. op.val = a.op /\ op.next = q + 1
        BY <2>5, <3>1
      <3>4. arg.val = a.arg /\ arg.next = e + 1
        BY <2>5, <3>2, <3>3
      <3>5. AnnotationAt(g, bytes, b + 1) = << [op |-> op.val, arg |-> arg.val] >> \o g[arg.next]
        BY <2>6, <3>1, <3>2, Zenon DEF AnnotationAt
      <3>6. QED
        BY <3>3, <3>4, <3>5
    <2>9. [op |-> a.op, arg |-> a.arg] = a
      BY <2>3
    <2>10. QED
      BY <1>7, <1>8, <2>1, <2>2, <2>7, <2>8, <2>9
  <1>9. g[f[N] + 1] = Rest(N)
    <2>1. Len(bytes) + 1 \in 1 .. Len(bytes) + 8 /\ Len(bytes) + 1 > Len(bytes)
      BY <1>3
    <2>2. g[Len(bytes) + 1] = << >>
      BY <1>5, <2>1 DEF AnnotationAt
    <2>3. QED
      BY <1>1, <1>2, <1>6, <2>2
  <1>10. g[f[0] + 1] = Rest(0)
    <2> DEFINE T == { k \in 0 .. N : g[f[N - k] + 1] # Rest(N - k) }
    <2>1. T = {}
      <3> SUFFICES ASSUME T # {} PROVE FALSE
        OBVIOUS
      <3>1. PICK k \in T : \A m \in T : k <= m
        <4>1. T \in SUBSET Nat
          OBVIOUS
        <4>2. QED
          BY <4>1, Least
      <3>2. k # 0
        <4>1. PICK m : m = N - k /\ g[f[m] + 1] # Rest(m)
          BY <3>1
        <4>2. k = 0 => m = N
          BY <4>1
        <4>3. QED
          BY <1>9, <4>1, <4>2
      <3>3. k - 1 \in 0 .. N /\ k - 1 \notin T
        <4>1. k \in 0 .. N
          OBVIOUS
        <4>2. k - 1 \in 0 .. N /\ ~ (k <= k - 1)
          BY <3>2, <4>1
        <4> HIDE DEF T
        <4>3. QED
          BY <3>1, <4>2
      <3>4. PICK n \in 1 .. N : n = N - (k - 1) /\ n - 1 = N - k
        BY <3>1, <3>2
      <3>5. g[f[n] + 1] = Rest(n)
        BY <3>3, <3>4
      <3>6. g[f[n - 1] + 1] = Rest(n - 1)
        BY <1>8, <3>5
      <3>7. QED
        BY <3>1, <3>4, <3>6
    <2>2. N \in 0 .. N /\ N - N = 0
      OBVIOUS
    <2>3. QED
      BY <2>1, <2>2
  <1>11. Rest(0) = read
    <2>1. N - 0 = N /\ \A k \in 1 .. N : 0 + k = k
      OBVIOUS
    <2>2. read = [k \in 1 .. N |-> read[k]]
      BY <1>2
    <2>3. QED
      BY <2>1, <2>2 DEF Rest
  <1>12. f[0] + 1 = 1
    BY <1>1
  <1>13. QED
    BY <1>4, <1>10, <1>11, <1>12

-----------------------------------------------------------------------------
(* What a reader that starts in a state has read behind annotations.       *)
ReadTo(start, read, s) ==
  \E g : /\ g = [n \in 0 .. Len(read) |-> g[n]]
         /\ g[0] = start /\ g[Len(read)] = s
         /\ \A n \in 1 .. Len(read) : g[n] = Site!Read(g[n - 1], read[n])

Tells(start, bytes, s) ==
  \E read \in Seq(Annotation) : Encoded(read, bytes) /\ ReadTo(start, read, s)

(* Nothing is read of no bytes.                                            *)
LEMMA TellsNothing ==
  ASSUME NEW start
  PROVE  Tells(start, << >>, start)
  <1>1. PICK read \in Seq(Annotation) : read = << >> /\ Len(read) = 0
    <2>1. << >> \in Seq(Annotation) /\ Len(<< >>) = 0
      BY EmptySeq
    <2>2. QED
      BY <2>1
  <1>2. Encoded(read, << >>)
    <2>1. PICK f : f = [n \in 0 .. 0 |-> 0]
      OBVIOUS
    <2>2. f \in [0 .. 0 -> Nat] /\ f[0] = 0
      BY <2>1
    <2>3. Len(<< >>) = 0
      BY EmptySeq
    <2>4. f[Len(read)] = Len(<< >>) /\ f \in [0 .. Len(read) -> Nat]
      BY <1>1, <2>2, <2>3
    <2>5. \A n \in 1 .. Len(read) : FALSE
      BY <1>1
    <2>6. QED
      BY <2>2, <2>4, <2>5 DEF Encoded
  <1>3. ReadTo(start, read, start)
    <2>1. PICK g : g = [n \in 0 .. Len(read) |-> start]
      OBVIOUS
    <2>2. 0 \in 0 .. Len(read) /\ Len(read) \in 0 .. Len(read)
      BY <1>1
    <2>3. g[0] = start /\ g[Len(read)] = start
      BY <2>1, <2>2
    <2>4. g = [n \in 0 .. Len(read) |-> g[n]]
      BY <2>1
    <2>5. \A n \in 1 .. Len(read) : FALSE
      BY <1>1
    <2>6. QED
      BY <2>3, <2>4, <2>5 DEF ReadTo
  <1>4. QED
    BY <1>1, <1>2, <1>3 DEF Tells

(* One annotation more is read from the state before it.                   *)
LEMMA ReadOneMore ==
  ASSUME NEW start, NEW read \in Seq(Annotation), NEW a \in Annotation, NEW s,
         ReadTo(start, read, s)
  PROVE  ReadTo(start, Append(read, a), Site!Read(s, a))
  <1>1. PICK N \in Nat : N = Len(read)
    OBVIOUS
  <1>2. PICK g : /\ g = [n \in 0 .. N |-> g[n]]
                 /\ g[0] = start /\ g[N] = s
                 /\ \A n \in 1 .. N : g[n] = Site!Read(g[n - 1], read[n])
    BY <1>1 DEF ReadTo
  <1>3. PICK longer : longer = Append(read, a)
    OBVIOUS
  <1>4. /\ Len(longer) = N + 1 /\ longer[N + 1] = a
        /\ \A n \in 1 .. N : longer[n] = read[n]
    BY <1>1, <1>3
  <1>5. PICK t : t = Site!Read(s, a)
    OBVIOUS
  <1>6. PICK h : h = [n \in 0 .. N + 1 |-> IF n = N + 1 THEN t ELSE g[n]]
    OBVIOUS
  <1>7. h[N + 1] = t /\ \A n \in 0 .. N : h[n] = g[n]
    BY <1>6
  <1>8. h = [n \in 0 .. N + 1 |-> h[n]]
    BY <1>6
  <1>9. h[0] = start
    BY <1>2, <1>7
  <1>10. ASSUME NEW n \in 1 .. N + 1 PROVE h[n] = Site!Read(h[n - 1], longer[n])
    <2>1. CASE n = N + 1
      <3>1. n - 1 = N /\ N \in 0 .. N
        BY <2>1
      <3>2. h[n - 1] = s
        BY <1>2, <1>7, <3>1
      <3>3. QED
        BY <1>4, <1>5, <1>7, <2>1, <3>2
    <2>2. CASE n # N + 1
      <3>1. n \in 1 .. N /\ n - 1 \in 0 .. N /\ n \in 0 .. N
        BY <2>2
      <3>2. g[n] = Site!Read(g[n - 1], read[n])
        BY <1>2, <3>1
      <3>3. h[n] = g[n] /\ h[n - 1] = g[n - 1] /\ longer[n] = read[n]
        BY <1>4, <1>7, <3>1
      <3>4. QED
        BY <3>2, <3>3
    <2>3. QED
      BY <2>1, <2>2
  <1>11. ReadTo(start, longer, t)
    BY <1>4, <1>7, <1>8, <1>9, <1>10 DEF ReadTo
  <1>12. QED
    BY <1>3, <1>5, <1>11

(* An annotation that is added is read from the state before it.           *)
LEMMA TellsMore ==
  ASSUME NEW start, NEW bytes \in Seq(Byte), NEW s, Tells(start, bytes, s),
         NEW op \in Nat, op < Site!FourByteLimit, NEW arg \in Nat, arg < Site!FourByteLimit
  PROVE  /\ bytes \o (Site!U32(op) \o Site!U32(arg)) \in Seq(Byte)
         /\ Tells(start, bytes \o (Site!U32(op) \o Site!U32(arg)),
                  Site!Read(s, [op |-> op, arg |-> arg]))
  <1>1. PICK read \in Seq(Annotation) : Encoded(read, bytes) /\ ReadTo(start, read, s)
    BY DEF Tells
  <1>2. PICK a \in Annotation : a = [op |-> op, arg |-> arg]
    BY DEF Annotation
  <1>3. /\ bytes \o (Site!U32(op) \o Site!U32(arg)) \in Seq(Byte)
        /\ Append(read, a) \in Seq(Annotation)
        /\ Encoded(Append(read, a), bytes \o (Site!U32(op) \o Site!U32(arg)))
    BY <1>1, <1>2, EncodedMore
  <1>4. ReadTo(start, Append(read, a), Site!Read(s, a))
    BY <1>1, ReadOneMore
  <1>5. QED
    BY <1>2, <1>3, <1>4 DEF Tells

(* A reading of n annotations from a state.                                *)
ReadsOn(start, read, N, g) ==
  g[0] = start /\ \A n \in 1 .. N : g[n] = Site!Read(g[n - 1], read[n])

(* Two readings from one state are the same.                               *)
LEMMA ReadOnce ==
  ASSUME NEW start, NEW N \in Nat, NEW read, NEW f, NEW g,
         ReadsOn(start, read, N, f), ReadsOn(start, read, N, g)
  PROVE  f[N] = g[N]
  <1>0. /\ f[0] = start /\ g[0] = start
        /\ \A n \in 1 .. N : f[n] = Site!Read(f[n - 1], read[n])
        /\ \A n \in 1 .. N : g[n] = Site!Read(g[n - 1], read[n])
    BY DEF ReadsOn
  <1> DEFINE T == { k \in 0 .. N : f[k] # g[k] }
  <1>1. T = {}
    <2> SUFFICES ASSUME T # {} PROVE FALSE
      OBVIOUS
    <2>1. PICK k \in T : \A m \in T : k <= m
      <3>1. T \in SUBSET Nat
        OBVIOUS
      <3>2. QED
        BY <3>1, Least
    <2>2. k \in 0 .. N /\ f[k] # g[k]
      OBVIOUS
    <2>3. k - 1 \in 0 .. N /\ k \in 1 .. N /\ ~ (k <= k - 1)
      BY <1>0, <2>2
    <2>4. f[k - 1] = g[k - 1]
      <3>1. k - 1 \notin T
        <4> HIDE DEF T
        <4>1. QED
          BY <2>1, <2>3
      <3>2. QED
        BY <2>3, <3>1
    <2>5. f[k] = Site!Read(f[k - 1], read[k]) /\ g[k] = Site!Read(g[k - 1], read[k])
      BY <1>0, <2>3
    <2>6. QED
      BY <2>2, <2>4, <2>5
  <1>2. N \in 0 .. N
    OBVIOUS
  <1>3. QED
    BY <1>1, <1>2

(* A reader starts at the call, at the first address of the site.          *)
AtCall ==
  [at |-> Site!Position(Site!Low(site_ranges), call[1], call[2]), rows |-> << >>]

(* The annotations decode to the state they tell of.                       *)
LEMMA DecodedIs ==
  ASSUME annotations \in Seq(Byte), NEW s, Tells(AtCall, annotations, s)
  PROVE  Site!Decoded = s
  <1>1. PICK read \in Seq(Annotation) : Encoded(read, annotations) /\ ReadTo(AtCall, read, s)
    BY DEF Tells
  <1>2. Site!Annotations(annotations) = read
    BY <1>1, AnnotationsAre
  <1>3. PICK N \in Nat : N = Len(read)
    OBVIOUS
  <1>4. PICK start : start = AtCall
    OBVIOUS
  <1>5. PICK g : /\ g = [n \in 0 .. N |-> g[n]]
                 /\ g[0] = start /\ g[N] = s
                 /\ \A n \in 1 .. N : g[n] = Site!Read(g[n - 1], read[n])
    BY <1>1, <1>3, <1>4 DEF ReadTo
  <1> DEFINE Reading(f) ==
        f = [n \in 0 .. N |-> IF n = 0 THEN start ELSE Site!Read(f[n - 1], read[n])]
             after == CHOOSE f : Reading(f)
  <1>6. Reading(g)
    <2>1. ASSUME NEW n \in 0 .. N
          PROVE  g[n] = IF n = 0 THEN start ELSE Site!Read(g[n - 1], read[n])
      <3>1. CASE n = 0
        BY <1>5, <3>1
      <3>2. CASE n # 0
        <4>1. n \in 1 .. N
          BY <3>2
        <4>2. QED
          BY <1>5, <3>2, <4>1
      <3>3. QED
        BY <3>1, <3>2
    <2>2. QED
      BY <1>5, <2>1
  <1>7. Reading(after)
    <2> HIDE DEF Reading
    <2>1. QED
      BY <1>6
  <1>8. Site!Decoded = after[N]
    BY <1>2, <1>3, <1>4 DEF Site!Decoded, AtCall
  <1> HIDE DEF after
  <1>9. after[0] = start /\ \A n \in 1 .. N : after[n] = Site!Read(after[n - 1], read[n])
    <2>1. \A n \in 0 .. N : after[n] = IF n = 0 THEN start ELSE Site!Read(after[n - 1], read[n])
      BY <1>7
    <2>2. 0 \in 0 .. N /\ \A n \in 1 .. N : n \in 0 .. N /\ n # 0
      OBVIOUS
    <2>3. QED
      BY <2>1, <2>2
  <1>10. after[N] = g[N]
    <2>1. ReadsOn(start, read, N, g)
      BY <1>5 DEF ReadsOn
    <2>2. ReadsOn(start, read, N, after)
      BY <1>9 DEF ReadsOn
    <2>3. QED
      BY <2>1, <2>2, ReadOnce
  <1>11. QED
    BY <1>5, <1>8, <1>10

-----------------------------------------------------------------------------
(* How bytes are joined does not matter.                                   *)
Joined(a, b) == a \o b

LEMMA BytesJoined ==
  ASSUME NEW a \in Seq(Byte), NEW b \in Seq(Byte), NEW c \in Seq(Byte)
  PROVE  Joined(Joined(a, b), c) = Joined(a, Joined(b, c))
  BY ConcatAssociative, SMTT(60) DEF Joined

(* What the annotations of one row tell.                                   *)
State(addr, file, line, R) == [at |-> Site!Position(addr, file, line), rows |-> R]

(* The sign of a line delta is read back.                                  *)
LEMMA LineRead ==
  ASSUME NEW val \in Int
  PROVE  Site!Line(Site!Signed(val)) = val
  <1>1. CASE val < 0
    <2>1. PICK m \in Nat : m = 0 - val
      BY <1>1
    <2>2. Site!Signed(val) = 2 * m + 1
      BY <1>1, <2>1 DEF Site!Signed
    <2>3. (2 * m + 1) % 2 = 1 /\ (2 * m + 1) \div 2 = m
      OBVIOUS
    <2>4. QED
      BY <2>1, <2>2, <2>3 DEF Site!Line
  <1>2. CASE ~ (val < 0)
    <2>1. Site!Signed(val) = 2 * val /\ val \in Nat
      BY <1>2 DEF Site!Signed
    <2>2. (2 * val) % 2 = 0 /\ (2 * val) \div 2 = val
      BY <2>1
    <2>3. QED
      BY <2>1, <2>2 DEF Site!Line
  <1>3. QED
    BY <1>1, <1>2

(* Each opcode and its effect on the state.                                *)
LEMMA FileRead ==
  ASSUME NEW addr, NEW file, NEW line, NEW R, NEW to \in Nat \ {0}
  PROVE  Site!Read(State(addr, file, line, R), [op |-> 5, arg |-> (to - 1) * 8])
           = State(addr, to, line, R)
  <1>1. ((to - 1) * 8) \div 8 + 1 = to
    OBVIOUS
  <1>2. Site!Read(State(addr, file, line, R), [op |-> 5, arg |-> (to - 1) * 8])
          = [State(addr, file, line, R) EXCEPT !.at.file = ((to - 1) * 8) \div 8 + 1]
    BY DEF Site!Read, Site!ChangeFile, Site!ChangeLineOffset, Site!ChangeCodeOffset,
           Site!ChangeCodeOffsetAndLineOffset
  <1>3. QED
    BY <1>1, <1>2 DEF State, Site!Position

(* A line change adds to the line, and begins no row.                      *)
LEMMA LineOffsetRead ==
  ASSUME NEW addr, NEW file, NEW line \in Int, NEW R, NEW delta \in Int
  PROVE  Site!Read(State(addr, file, line, R), [op |-> 6, arg |-> Site!Signed(delta)])
           = State(addr, file, line + delta, R)
  <1>1. PICK n : n = Site!Signed(delta)
    OBVIOUS
  <1>2. Site!Line(n) = delta
    BY <1>1, LineRead
  <1>3. Site!Read(State(addr, file, line, R), [op |-> 6, arg |-> n])
          = [State(addr, file, line, R) EXCEPT !.at.line = @ + Site!Line(n)]
    BY DEF Site!Read, Site!ChangeFile, Site!ChangeLineOffset, Site!ChangeCodeOffset,
           Site!ChangeCodeOffsetAndLineOffset
  <1>4. [State(addr, file, line, R) EXCEPT !.at.line = @ + Site!Line(n)]
          = State(addr, file, line + Site!Line(n), R)
    BY DEF State, Site!Position
  <1>5. QED
    BY <1>1, <1>2, <1>3, <1>4

(* A change of the address begins a row, with what was changed before.     *)
LEMMA CodeOffsetRead ==
  ASSUME NEW addr \in Int, NEW file, NEW line \in Int, NEW R, NEW delta \in Nat
  PROVE  Site!Read(State(addr, file, line, R), [op |-> 3, arg |-> delta])
           = State(addr + delta, file, line, Append(R, Site!Position(addr + delta, file, line)))
  <1>1. Site!Read(State(addr, file, line, R), [op |-> 3, arg |-> delta])
          = Site!MoveBy(State(addr, file, line, R), delta, 0)
    BY DEF Site!Read, Site!ChangeFile, Site!ChangeLineOffset, Site!ChangeCodeOffset,
           Site!ChangeCodeOffsetAndLineOffset
  <1>2. line + 0 = line
    OBVIOUS
  <1>3. /\ State(addr, file, line, R).at.addr = addr /\ State(addr, file, line, R).at.file = file
        /\ State(addr, file, line, R).at.line = line /\ State(addr, file, line, R).rows = R
    BY DEF State, Site!Position
  <1>4. QED
    BY <1>1, <1>2, <1>3 DEF Site!MoveBy, State

(* The opcode with two small deltas changes both, and begins a row.        *)
BothDeltas(m, line_delta, code_delta) ==
  m % 16 = code_delta /\ m \div 16 = Site!Signed(line_delta)

BothMoved(addr, file, line, R, line_delta, code_delta) ==
  State(addr + code_delta, file, line + line_delta,
        Append(R, Site!Position(addr + code_delta, file, line + line_delta)))

(* That is what a reader does with it.                                     *)
LEMMA BothRead ==
  ASSUME NEW addr \in Int, NEW file, NEW line \in Int, NEW R,
         NEW line_delta \in Int, NEW code_delta \in Nat, NEW m,
         BothDeltas(m, line_delta, code_delta)
  PROVE  Site!Read(State(addr, file, line, R), [op |-> 11, arg |-> m])
           = BothMoved(addr, file, line, R, line_delta, code_delta)
  <1>3. m % 16 = code_delta /\ m \div 16 = Site!Signed(line_delta)
    BY DEF BothDeltas
  <1>4. Site!Line(m \div 16) = line_delta
    BY <1>3, LineRead
  <1>5. Site!Read(State(addr, file, line, R), [op |-> 11, arg |-> m])
          = Site!MoveBy(State(addr, file, line, R), m % 16, Site!Line(m \div 16))
    BY DEF Site!Read, Site!ChangeFile, Site!ChangeLineOffset, Site!ChangeCodeOffset,
           Site!ChangeCodeOffsetAndLineOffset
  <1>6. /\ State(addr, file, line, R).at.addr = addr /\ State(addr, file, line, R).at.file = file
        /\ State(addr, file, line, R).at.line = line /\ State(addr, file, line, R).rows = R
    BY DEF State, Site!Position
  <1>7. Site!MoveBy(State(addr, file, line, R), code_delta, line_delta)
          = State(addr + code_delta, file, line + line_delta,
                  Append(R, Site!Position(addr + code_delta, file, line + line_delta)))
    BY <1>6 DEF Site!MoveBy, State
  <1>8. QED
    BY <1>3, <1>4, <1>5, <1>7 DEF BothMoved

(* The length of the last row changes nothing a reader has.                *)
LEMMA LengthRead ==
  ASSUME NEW s, NEW length
  PROVE  Site!Read(s, [op |-> 4, arg |-> length]) = s
  BY DEF Site!Read, Site!ChangeFile, Site!ChangeLineOffset, Site!ChangeCodeOffset,
         Site!ChangeCodeOffsetAndLineOffset

(* Opcodes take one byte.                                                  *)
LEMMA Opcodes ==
  /\ Site!ChangeCodeOffset = 3 /\ Site!ChangeCodeLength = 4 /\ Site!ChangeFile = 5
  /\ Site!ChangeLineOffset = 6 /\ Site!ChangeCodeOffsetAndLineOffset = 11
  /\ \A n \in 0 .. 127 : n \in Nat /\ n < Site!FourByteLimit
  BY SMT DEF Site!ChangeCodeOffset, Site!ChangeCodeLength, Site!ChangeFile,
             Site!ChangeLineOffset, Site!ChangeCodeOffsetAndLineOffset, Site!FourByteLimit

(* A change of the file tells of the file.                                 *)
LEMMA FileTold ==
  ASSUME NEW start, NEW bytes \in Seq(Byte), NEW addr, NEW line, NEW R,
         Tells(start, bytes, State(addr, last.file, line, R)),
         NEW file \in Nat \ {0}, (file - 1) * 8 < Site!FourByteLimit
  PROVE  /\ bytes \o Site!FileChange(file) \in Seq(Byte)
         /\ Tells(start, bytes \o Site!FileChange(file), State(addr, file, line, R))
  <1>1. CASE file = last.file
    <2>1. Site!FileChange(file) = << >>
      BY <1>1 DEF Site!FileChange
    <2>2. bytes \o << >> = bytes
      BY ConcatEmptySeq
    <2>3. QED
      BY <1>1, <2>1, <2>2
  <1>2. CASE file # last.file
    <2>1. Site!FileChange(file) = Site!U32(5) \o Site!U32((file - 1) * 8)
      BY <1>2, Opcodes DEF Site!FileChange
    <2>2. (file - 1) * 8 \in Nat /\ 5 \in 0 .. 127
      OBVIOUS
    <2>3. 5 \in Nat /\ 5 < Site!FourByteLimit
      BY <2>2, Opcodes
    <2>4. PICK arg \in Nat : arg = (file - 1) * 8 /\ arg < Site!FourByteLimit
      BY <2>2
    <2>5. PICK s : s = State(addr, last.file, line, R)
      OBVIOUS
    <2>6. /\ bytes \o (Site!U32(5) \o Site!U32(arg)) \in Seq(Byte)
          /\ Tells(start, bytes \o (Site!U32(5) \o Site!U32(arg)),
                   Site!Read(s, [op |-> 5, arg |-> arg]))
      BY <2>3, <2>4, <2>5, TellsMore
    <2>7. Site!Read(s, [op |-> 5, arg |-> arg]) = State(addr, file, line, R)
      BY <2>4, <2>5, FileRead
    <2>8. QED
      BY <2>1, <2>4, <2>6, <2>7
  <1>3. QED
    BY <1>1, <1>2

(* A move tells of line and address, and begins a row for a reader if the  *)
(* address changes or both deltas are small and the line changes.          *)
Begun(line_delta, code_delta) ==
  code_delta # 0 \/ (line_delta # 0 /\ Site!Small(line_delta, 0))

Moved(addr, file, line, R, line_delta, code_delta) ==
  LET p == Site!Position(addr + code_delta, file, line + line_delta)
  IN  State(addr + code_delta, file, line + line_delta,
            IF Begun(line_delta, code_delta) THEN Append(R, p) ELSE R)

(* A line change, if there is one, and then a change of the address.       *)
LEMMA LineTold ==
  ASSUME NEW start, NEW bytes \in Seq(Byte), NEW addr, NEW file, NEW line \in Int, NEW R,
         Tells(start, bytes, State(addr, file, line, R)),
         NEW line_delta \in Int, Site!Signed(line_delta) < Site!FourByteLimit
  PROVE  LET new == IF line_delta = 0 THEN << >>
                    ELSE Site!U32(6) \o Site!U32(Site!Signed(line_delta))
         IN  /\ new \in Seq(Byte) /\ bytes \o new \in Seq(Byte)
             /\ Tells(start, bytes \o new, State(addr, file, line + line_delta, R))
  <1>1. CASE line_delta = 0
    <2>1. bytes \o << >> = bytes /\ line + 0 = line /\ << >> \in Seq(Byte)
      BY ConcatEmptySeq, EmptySeq
    <2>2. QED
      BY <1>1, <2>1
  <1>2. CASE line_delta # 0
    <2>1. PICK arg \in Nat : arg = Site!Signed(line_delta) /\ arg < Site!FourByteLimit
      BY SignedType
    <2>2. 6 \in 0 .. 127
      OBVIOUS
    <2>3. 6 \in Nat /\ 6 < Site!FourByteLimit
      BY <2>2, Opcodes
    <2>4. PICK s : s = State(addr, file, line, R)
      OBVIOUS
    <2>5. /\ bytes \o (Site!U32(6) \o Site!U32(arg)) \in Seq(Byte)
          /\ Tells(start, bytes \o (Site!U32(6) \o Site!U32(arg)),
                   Site!Read(s, [op |-> 6, arg |-> arg]))
      BY <2>1, <2>3, <2>4, TellsMore
    <2>6. Site!Read(s, [op |-> 6, arg |-> arg]) = State(addr, file, line + line_delta, R)
      BY <2>1, <2>4, LineOffsetRead
    <2>7. Site!U32(6) \o Site!U32(arg) \in Seq(Byte)
      <3>1. Site!U32(6) \in Seq(Byte) /\ Site!U32(arg) \in Seq(Byte)
        BY <2>3, Bytes
      <3>2. QED
        BY <3>1, ConcatProperties
    <2>8. QED
      BY <1>2, <2>1, <2>5, <2>6, <2>7
  <1>3. QED
    BY <1>1, <1>2

(* A change of the address, if there is one.                               *)
LEMMA CodeTold ==
  ASSUME NEW start, NEW bytes \in Seq(Byte), NEW addr \in Int, NEW file, NEW line \in Int, NEW R,
         Tells(start, bytes, State(addr, file, line, R)),
         NEW code_delta \in Nat, code_delta < Site!FourByteLimit
  PROVE  LET new == IF code_delta = 0 THEN << >> ELSE Site!U32(3) \o Site!U32(code_delta)
             p   == Site!Position(addr + code_delta, file, line)
         IN  /\ new \in Seq(Byte) /\ bytes \o new \in Seq(Byte)
             /\ Tells(start, bytes \o new,
                      State(addr + code_delta, file, line,
                            IF code_delta = 0 THEN R ELSE Append(R, p)))
  <1>1. CASE code_delta = 0
    <2>1. bytes \o << >> = bytes /\ addr + 0 = addr /\ << >> \in Seq(Byte)
      BY ConcatEmptySeq, EmptySeq
    <2>2. QED
      BY <1>1, <2>1
  <1>2. CASE code_delta # 0
    <2>1. 3 \in 0 .. 127
      OBVIOUS
    <2>2. 3 \in Nat /\ 3 < Site!FourByteLimit
      BY <2>1, Opcodes
    <2>3. PICK s : s = State(addr, file, line, R)
      OBVIOUS
    <2>4. /\ bytes \o (Site!U32(3) \o Site!U32(code_delta)) \in Seq(Byte)
          /\ Tells(start, bytes \o (Site!U32(3) \o Site!U32(code_delta)),
                   Site!Read(s, [op |-> 3, arg |-> code_delta]))
      BY <2>2, <2>3, TellsMore
    <2>5. Site!Read(s, [op |-> 3, arg |-> code_delta])
            = State(addr + code_delta, file, line,
                    Append(R, Site!Position(addr + code_delta, file, line)))
      BY <2>3, CodeOffsetRead
    <2>6. Site!U32(3) \o Site!U32(code_delta) \in Seq(Byte)
      <3>1. Site!U32(3) \in Seq(Byte) /\ Site!U32(code_delta) \in Seq(Byte)
        BY <2>2, Bytes
      <3>2. QED
        BY <3>1, ConcatProperties
    <2>7. QED
      BY <1>2, <2>4, <2>5, <2>6
  <1>3. QED
    BY <1>1, <1>2

(* A move in each of its forms.                                            *)
LEMMA MoveTold ==
  ASSUME NEW start, NEW bytes \in Seq(Byte), NEW addr \in Int, NEW file, NEW line \in Int, NEW R,
         Tells(start, bytes, State(addr, file, line, R)),
         NEW line_delta \in Int, Site!Signed(line_delta) < Site!FourByteLimit,
         NEW code_delta \in Nat, code_delta < Site!FourByteLimit
  PROVE  /\ bytes \o Site!Move(line_delta, code_delta) \in Seq(Byte)
         /\ Tells(start, bytes \o Site!Move(line_delta, code_delta),
                  Moved(addr, file, line, R, line_delta, code_delta))
  <1>1. CASE line_delta = 0 /\ code_delta = 0
    <2>1. Site!Move(line_delta, code_delta) = << >>
      BY <1>1 DEF Site!Move
    <2>2. bytes \o << >> = bytes /\ addr + 0 = addr /\ line + 0 = line
      BY ConcatEmptySeq
    <2>3. ~ Begun(line_delta, code_delta)
      BY <1>1 DEF Begun
    <2>4. Moved(addr, file, line, R, line_delta, code_delta) = State(addr, file, line, R)
      BY <1>1, <2>2, <2>3 DEF Moved
    <2>5. QED
      BY <2>1, <2>2, <2>4
  <1>2. CASE ~ (line_delta = 0 /\ code_delta = 0) /\ Site!Small(line_delta, code_delta)
    <2>1. Site!Signed(line_delta) < 8 /\ code_delta <= 15 /\ Site!Signed(line_delta) \in Nat
      BY <1>2, SignedType DEF Site!Small
    <2>n. PICK n \in 0 .. 7 : n = Site!Signed(line_delta)
      BY <2>1
    <2>2. PICK arg \in 0 .. 127 : arg = n * 16 + code_delta
      BY <2>1
    <2>3. Site!Move(line_delta, code_delta) = Site!U32(11) \o Site!U32(arg)
      BY <1>2, <2>n, <2>2, Opcodes DEF Site!Move
    <2>4. 11 \in 0 .. 127
      OBVIOUS
    <2>5. 11 \in Nat /\ 11 < Site!FourByteLimit /\ arg \in Nat /\ arg < Site!FourByteLimit
      BY <2>4, Opcodes
    <2>6. PICK s : s = State(addr, file, line, R)
      OBVIOUS
    <2>7. /\ bytes \o (Site!U32(11) \o Site!U32(arg)) \in Seq(Byte)
          /\ Tells(start, bytes \o (Site!U32(11) \o Site!U32(arg)),
                   Site!Read(s, [op |-> 11, arg |-> arg]))
      BY <2>5, <2>6, TellsMore
    <2>8. code_delta \in 0 .. 15
      BY <2>1
    <2>9. Site!Read(s, [op |-> 11, arg |-> arg])
            = BothMoved(addr, file, line, R, line_delta, code_delta)
      <3>1. arg % 16 = code_delta /\ arg \div 16 = n
        BY <2>2, <2>8
      <3>2. BothDeltas(arg, line_delta, code_delta)
        BY <2>n, <3>1 DEF BothDeltas
      <3>3. QED
        BY <2>6, <3>2, BothRead
    <2>10. Begun(line_delta, code_delta)
      BY <1>2, <2>1 DEF Begun, Site!Small
    <2>11. QED
      BY <2>3, <2>7, <2>9, <2>10 DEF Moved, BothMoved
  <1>3. CASE ~ (line_delta = 0 /\ code_delta = 0) /\ ~ Site!Small(line_delta, code_delta)
    <2> DEFINE onLine == IF line_delta = 0 THEN << >>
                         ELSE Site!U32(6) \o Site!U32(Site!Signed(line_delta))
               onCode == IF code_delta = 0 THEN << >> ELSE Site!U32(3) \o Site!U32(code_delta)
               p == Site!Position(addr + code_delta, file, line + line_delta)
    <2>1. Site!Move(line_delta, code_delta) = onLine \o onCode
      BY <1>3, Opcodes DEF Site!Move
    <2>2. /\ onLine \in Seq(Byte) /\ bytes \o onLine \in Seq(Byte)
          /\ Tells(start, bytes \o onLine, State(addr, file, line + line_delta, R))
      BY LineTold
    <2>3. PICK more \in Seq(Byte) : more = bytes \o onLine
      BY <2>2
    <2>4. PICK to \in Int : to = line + line_delta
      OBVIOUS
    <2>5. /\ onCode \in Seq(Byte) /\ more \o onCode \in Seq(Byte)
          /\ Tells(start, more \o onCode,
                   State(addr + code_delta, file, to,
                         IF code_delta = 0 THEN R
                         ELSE Append(R, Site!Position(addr + code_delta, file, to))))
      <3>1. Tells(start, more, State(addr, file, to, R))
        BY <2>2, <2>3, <2>4
      <3>2. QED
        BY <3>1, CodeTold
    <2>6. code_delta = 0 <=> ~ Begun(line_delta, code_delta)
      BY <1>3 DEF Begun
    <2> HIDE DEF onLine, onCode
    <2>7. more \o onCode = bytes \o Site!Move(line_delta, code_delta)
      <3>1. PICK u \in Seq(Byte), v \in Seq(Byte) : u = onLine /\ v = onCode
        BY <2>2, <2>5
      <3>2. more = Joined(bytes, u) /\ Site!Move(line_delta, code_delta) = Joined(u, v)
        BY <2>1, <2>3, <3>1, Zenon DEF Joined
      <3>3. Joined(Joined(bytes, u), v) = Joined(bytes, Joined(u, v))
        BY BytesJoined, Zenon
      <3>4. Joined(more, v) = Joined(bytes, Site!Move(line_delta, code_delta))
        BY <3>2, <3>3, Zenon
      <3>5. QED
        BY <3>1, <3>4, Zenon DEF Joined
    <2>8. QED
      BY <2>4, <2>5, <2>6, <2>7 DEF Moved
  <1>4. QED
    BY <1>1, <1>2, <1>3

-----------------------------------------------------------------------------
(* Of the rows behind the reader, rw[a] for a in B, each is shown by the   *)
(* last of the rows R read up to its address, but those that repeat a row  *)
(* at the first address that began none.                                   *)
Positions == [addr: Nat, file: Nat, line: Nat]

ShownBy(R, rw, a) ==
  \E i \in 1 .. Len(R) :
    /\ R[i].addr <= a /\ \A j \in 1 .. Len(R) : R[j].addr <= a => j <= i
    /\ R[i].file = rw[a].file /\ R[i].line = rw[a].line

Unshown(rw, B, start, a) ==
  /\ start.addr \in B
  /\ ~ (rw[start.addr].line # start.line
          /\ Site!Small(rw[start.addr].line - start.line, 0))
  /\ \A b \in B : b <= a => rw[b] = rw[start.addr]

RowsTold(R, rw, B, start) ==
  /\ R \in Seq(Positions)
  /\ \A i \in 1 .. Len(R) : R[i].addr \in B
  /\ \A a \in B : ShownBy(R, rw, a) \/ Unshown(rw, B, start, a)

(* Where the reader is: at the last row that was encoded.                  *)
LastTold(R, rw, B, start, l, o) ==
  IF o THEN /\ l.addr \in B /\ l = Site!Position(l.addr, rw[l.addr].file, rw[l.addr].line)
            /\ IF R = << >> THEN l.addr = start.addr ELSE R[Len(R)] = l
       ELSE B = {} /\ R = << >> /\ l = start

(* A row that is read shows its address and changes nothing before it.     *)
LEMMA RowAdded ==
  ASSUME NEW R, NEW rw, NEW B \in SUBSET Nat, NEW start, RowsTold(R, rw, B, start),
         NEW n \in Nat, \A b \in B : b < n,
         NEW p \in Positions, p.addr = n, p.file = rw[n].file, p.line = rw[n].line
  PROVE  RowsTold(Append(R, p), rw, B \cup {n}, start)
  <1>1. /\ R \in Seq(Positions) /\ \A i \in 1 .. Len(R) : R[i].addr \in B
        /\ \A a \in B : ShownBy(R, rw, a) \/ Unshown(rw, B, start, a)
    BY DEF RowsTold
  <1>2. PICK N \in Nat : N = Len(R)
    BY <1>1
  <1>3. PICK Q \in Seq(Positions) : Q = Append(R, p)
    <2>1. Append(R, p) \in Seq(Positions)
      BY <1>1, AppendProperties
    <2>2. QED
      BY <2>1
  <1>4. /\ Len(Q) = N + 1 /\ Q[N + 1] = p /\ \A i \in 1 .. N : Q[i] = R[i]
    BY <1>1, <1>2, <1>3
  <1>5. \A i \in 1 .. N + 1 : i \in 1 .. N \/ i = N + 1
    OBVIOUS
  <1>6. \A i \in 1 .. N + 1 : Q[i].addr \in B \cup {n}
    BY <1>1, <1>2, <1>4, <1>5
  <1>7. ShownBy(Q, rw, n)
    <2>1. N + 1 \in 1 .. N + 1 /\ n <= n /\ \A j \in 1 .. N + 1 : j <= N + 1
      OBVIOUS
    <2>2. QED
      BY <1>4, <2>1 DEF ShownBy
  <1>8. ASSUME NEW a \in B PROVE ShownBy(Q, rw, a) \/ Unshown(rw, B \cup {n}, start, a)
    <2>0. a \in Nat /\ ~ (n <= a)
      OBVIOUS
    <2>1. CASE ShownBy(R, rw, a)
      <3>1. PICK i \in 1 .. N :
              /\ R[i].addr <= a /\ \A j \in 1 .. N : R[j].addr <= a => j <= i
              /\ R[i].file = rw[a].file /\ R[i].line = rw[a].line
        BY <1>2, <2>1 DEF ShownBy
      <3>2. ASSUME NEW j \in 1 .. N + 1, Q[j].addr <= a PROVE j <= i
        <4>1. j # N + 1
          BY <1>4, <2>0, <3>2
        <4>2. j \in 1 .. N
          BY <1>5, <4>1
        <4>3. QED
          BY <1>4, <3>1, <3>2, <4>2
      <3>3. i \in 1 .. N + 1 /\ Q[i] = R[i]
        BY <1>4
      <3>4. QED
        BY <1>4, <3>1, <3>2, <3>3 DEF ShownBy
    <2>2. CASE Unshown(rw, B, start, a)
      BY <2>0, <2>2 DEF Unshown
    <2>3. QED
      BY <1>1, <2>1, <2>2
  <1>9. QED
    BY <1>3, <1>4, <1>6, <1>7, <1>8 DEF RowsTold

(* Nor does a row that is not read.                                        *)
LEMMA RowPassed ==
  ASSUME NEW R, NEW rw, NEW B \in SUBSET Nat, NEW start, RowsTold(R, rw, B, start),
         NEW n \in Nat, \A b \in B : b < n,
         ShownBy(R, rw, n) \/ Unshown(rw, B \cup {n}, start, n)
  PROVE  RowsTold(R, rw, B \cup {n}, start)
  <1>1. /\ R \in Seq(Positions) /\ \A i \in 1 .. Len(R) : R[i].addr \in B
        /\ \A a \in B : ShownBy(R, rw, a) \/ Unshown(rw, B, start, a)
    BY DEF RowsTold
  <1>2. ASSUME NEW a \in B PROVE ShownBy(R, rw, a) \/ Unshown(rw, B \cup {n}, start, a)
    <2>1. a \in Nat /\ ~ (n <= a)
      OBVIOUS
    <2>2. CASE ShownBy(R, rw, a)
      BY <2>2
    <2>3. CASE Unshown(rw, B, start, a)
      BY <2>1, <2>3 DEF Unshown
    <2>4. QED
      BY <1>1, <2>2, <2>3
  <1>3. QED
    BY <1>1, <1>2 DEF RowsTold

(* A row that repeats the last one belongs to what was read of that.       *)
LEMMA RowRepeated ==
  ASSUME NEW R, NEW rw, NEW F, NEW L, rw \in [DOMAIN rw -> [file: F, line: L]],
         NEW B \in SUBSET Nat, NEW start \in Positions, NEW l \in Positions,
         RowsTold(R, rw, B, start), LastTold(R, rw, B, start, l, TRUE),
         NEW n \in Nat, \A b \in B : b < n, B \cup {n} \subseteq DOMAIN rw,
         rw[n].file = l.file, rw[n].line = l.line
  PROVE  RowsTold(R, rw, B \cup {n}, start) /\ LastTold(R, rw, B \cup {n}, start, l, TRUE)
  <1>1. /\ R \in Seq(Positions) /\ \A i \in 1 .. Len(R) : R[i].addr \in B
        /\ \A a \in B : ShownBy(R, rw, a) \/ Unshown(rw, B, start, a)
    BY DEF RowsTold
  <1>2. /\ l.addr \in B /\ l = Site!Position(l.addr, rw[l.addr].file, rw[l.addr].line)
        /\ IF R = << >> THEN l.addr = start.addr ELSE R[Len(R)] = l
    BY DEF LastTold
  <1>3. l.file = rw[l.addr].file /\ l.line = rw[l.addr].line
    BY <1>2 DEF Site!Position
  <1>4. rw[n] = rw[l.addr]
    <2>1. rw[n] \in [file: F, line: L] /\ rw[l.addr] \in [file: F, line: L]
      BY <1>2
    <2>2. rw[n] = [file |-> rw[n].file, line |-> rw[n].line]
      BY <2>1
    <2>3. rw[l.addr] = [file |-> rw[l.addr].file, line |-> rw[l.addr].line]
      BY <2>1
    <2>4. QED
      BY <1>3, <2>2, <2>3
  <1>5. CASE R = << >>
    <2>1. Len(R) = 0
      BY <1>5, EmptySeq
    <2>2. \A a : ~ ShownBy(R, rw, a)
      <3>1. \A i \in 1 .. Len(R) : FALSE
        BY <2>1
      <3>2. QED
        BY <3>1 DEF ShownBy
    <2>3. l.addr = start.addr /\ start.addr \in B /\ start.addr <= start.addr
      BY <1>2, <1>5
    <2>4. Unshown(rw, B, start, start.addr)
      BY <1>1, <2>2, <2>3
    <2>5. \A b \in B : b <= b /\ Unshown(rw, B, start, b)
      BY <1>1, <2>2
    <2>6. \A b \in B : rw[b] = rw[start.addr]
      BY <2>5 DEF Unshown
    <2>7. Unshown(rw, B \cup {n}, start, n)
      BY <1>4, <2>3, <2>4, <2>6 DEF Unshown
    <2>8. QED
      BY <1>2, <2>7, RowPassed DEF LastTold
  <1>6. CASE R # << >>
    <2>1. PICK N \in Nat : N = Len(R)
      BY <1>1
    <2>2. N \in 1 .. N /\ \A j \in 1 .. N : j <= N
      <3>1. N # 0
        BY <1>1, <1>6, <2>1, EmptySeq
      <3>2. QED
        BY <3>1
    <2>3. R[N] = l
      BY <1>2, <1>6, <2>1
    <2>4. l.addr <= n
      BY <1>2
    <2>5. ShownBy(R, rw, n)
      BY <2>1, <2>2, <2>3, <2>4 DEF ShownBy
    <2>6. QED
      BY <1>2, <2>5, RowPassed DEF LastTold
  <1>7. QED
    BY <1>5, <1>6

(* A row that is encoded is the last one, and read if it is begun.         *)
LEMMA RowEncoded ==
  ASSUME NEW R, NEW rw,
         NEW B \in SUBSET Nat, NEW start \in Positions, NEW l \in Positions, NEW o \in BOOLEAN,
         RowsTold(R, rw, B, start), LastTold(R, rw, B, start, l, o),
         NEW n \in Nat, \A b \in B : b < n,
         rw[n].file \in Nat, rw[n].line \in Nat,
         NEW p, p = Site!Position(n, rw[n].file, rw[n].line),
         NEW Q, Q = IF Begun(rw[n].line - l.line, n - l.addr) THEN Append(R, p) ELSE R
  PROVE  RowsTold(Q, rw, B \cup {n}, start) /\ LastTold(Q, rw, B \cup {n}, start, p, TRUE)
  <1>1. p \in Positions /\ p.addr = n /\ p.file = rw[n].file /\ p.line = rw[n].line
    BY DEF Positions, Site!Position
  <1>2. R \in Seq(Positions)
    BY DEF RowsTold
  <1>3. CASE Begun(rw[n].line - l.line, n - l.addr)
    <2>1. Q = Append(R, p)
      BY <1>3
    <2>2. RowsTold(Q, rw, B \cup {n}, start)
      <3>1. RowsTold(Append(R, p), rw, B \cup {n}, start)
        BY <1>1, RowAdded, Zenon
      <3>2. QED
        BY <2>1, <3>1
    <2>3. Q # << >> /\ Q[Len(Q)] = p
      BY <1>1, <1>2, <2>1
    <2>4. QED
      BY <1>1, <2>2, <2>3 DEF LastTold
  <1>4. CASE ~ Begun(rw[n].line - l.line, n - l.addr)
    <2>1. Q = R
      BY <1>4
    <2>0. l.addr \in Nat /\ l.line \in Nat
      BY DEF Positions
    <2>2. n = l.addr /\ ~ (rw[n].line - l.line # 0 /\ Site!Small(rw[n].line - l.line, 0))
      BY <1>4, <2>0 DEF Begun
    <2>3. o = FALSE
      <3> SUFFICES ASSUME o = TRUE PROVE FALSE
        OBVIOUS
      <3>1. l.addr \in B
        BY DEF LastTold
      <3>2. QED
        BY <2>0, <2>2, <3>1
    <2>4. B = {} /\ R = << >> /\ l = start
      BY <2>3 DEF LastTold
    <2>5. n = start.addr /\ ~ (rw[n].line # start.line /\ Site!Small(rw[n].line - start.line, 0))
      BY <2>0, <2>2, <2>4
    <2>6. Unshown(rw, B \cup {n}, start, n)
      BY <2>4, <2>5 DEF Unshown
    <2>7. RowsTold(R, rw, B \cup {n}, start)
      BY <2>6, RowPassed
    <2>8. QED
      BY <1>1, <2>1, <2>4, <2>5, <2>7 DEF LastTold
  <1>5. QED
    BY <1>3, <1>4

-----------------------------------------------------------------------------
(* The addresses whose rows have been read.                                *)
Behind == { a \in DOMAIN rows : Site!InRange(a) } \ it

Start == Site!Position(Site!Low(site_ranges), call[1], call[2])

SiteTold(R, bytes) ==
  /\ bytes \in Seq(Byte) /\ Tells(AtCall, bytes, [at |-> last, rows |-> R])
  /\ annotations = IF done /\ open_range
                     THEN bytes \o (Site!U32(4) \o Site!U32(Site!High(site_ranges) - last.addr))
                     ELSE bytes
  /\ RowsTold(R, rows, Behind, Start) /\ LastTold(R, rows, Behind, Start, last, open_range)

(* Rows are encoded upwards; what is written so far tells of those that    *)
(* are behind.                                                             *)
SiteRead ==
  /\ done => it = {}
  /\ \A a \in Behind, b \in it : a < b
  /\ last \in Positions
  /\ \E R, bytes : SiteTold(R, bytes)

(* The rows behind are numbers; the call's position is one.                *)
LEMMA BehindFacts ==
  ASSUME SiteInv
  PROVE  /\ Behind \in SUBSET Nat /\ Behind \subseteq DOMAIN rows /\ Start \in Positions
         /\ Start.addr = Site!Low(site_ranges) /\ Start.line = call[2]
         /\ rows \in [DOMAIN rows -> [file: Files, line: RowLines]]
         /\ \A a \in DOMAIN rows : rows[a].file \in Files /\ rows[a].line \in RowLines
         /\ Files \subseteq Nat \ {0} /\ RowLines \subseteq Nat
         /\ Site!Low(site_ranges) \in Nat /\ Site!High(site_ranges) \in Nat
         /\ call \in Calls /\ call[2] \in Nat /\ site_ranges \in RangeSets
         /\ last.addr >= Site!Low(site_ranges) /\ last.addr <= Site!High(site_ranges)
  <1>1. /\ site_ranges \in RangeSets /\ call \in Calls /\ DOMAIN rows \subseteq RowAddresses
        /\ last.addr \in Site!Low(site_ranges) .. Site!High(site_ranges)
        /\ rows \in [DOMAIN rows -> [file: Files, line: RowLines]]
    BY DEF SiteInv, Site!TypeOK
  <1>2. /\ RowAddresses \subseteq Nat /\ Files \subseteq Nat \ {0} /\ RowLines \subseteq Nat
        /\ call[1] \in Nat \ {0} /\ call[2] \in Nat
    BY <1>1, SitesAssumption DEF Site!SitesType
  <1>3. Site!Low(site_ranges) \in Nat /\ Site!High(site_ranges) \in Nat
    BY <1>1, SiteFacts
  <1>4. /\ Start \in Positions /\ Start.addr = Site!Low(site_ranges) /\ Start.line = call[2]
    BY <1>2, <1>3 DEF Start, Positions, Site!Position
  <1>5. Behind \in SUBSET Nat /\ Behind \subseteq DOMAIN rows
    BY <1>1, <1>2 DEF Behind
  <1>6. \A a \in DOMAIN rows : rows[a].file \in Files /\ rows[a].line \in RowLines
    <2>1. \A a \in DOMAIN rows : rows[a] \in [file: Files, line: RowLines]
      BY <1>1
    <2>2. QED
      BY <2>1
  <1>7. last.addr >= Site!Low(site_ranges) /\ last.addr <= Site!High(site_ranges)
    BY <1>1, <1>3
  <1>8. QED
    BY <1>1, <1>2, <1>3, <1>4, <1>5, <1>6, <1>7

(* One row more is behind.                                                 *)
LEMMA BehindNext ==
  ASSUME SiteInv, it # {}, \A a \in Behind, b \in it : a < b,
         UNCHANGED <<site_ranges, rows>>, it' = it \ {Site!NextAddr}
  PROVE  /\ Behind' = Behind \cup {Site!NextAddr}
         /\ \A a \in Behind', b \in it' : a < b
         /\ \A a \in Behind : a < Site!NextAddr
         /\ Site!NextAddr \in DOMAIN rows
  <1>1. PICK n \in Nat : n = Site!NextAddr
    BY NextRow
  <1>2. n \in it /\ \A b \in it : n <= b
    BY <1>1, NextRow
  <1>3. it \subseteq { a \in DOMAIN rows : Site!InRange(a) } /\ it \in SUBSET Nat
    BY SitesAssumption DEF SiteInv, Site!TypeOK, Site!SitesType
  <1>4. { a \in DOMAIN rows : Site!InRange(a) }' = { a \in DOMAIN rows : Site!InRange(a) }
    BY DEF Site!InRange, Site!Low, Site!High
  <1>5. Behind' = Behind \cup {n}
    BY <1>1, <1>2, <1>3, <1>4 DEF Behind
  <1>6. \A a \in Behind : a < n
    BY <1>2
  <1>7. ASSUME NEW a \in Behind', NEW b \in it' PROVE a < b
    <2>1. b \in it /\ b # n /\ n <= b /\ b \in Nat
      BY <1>1, <1>2, <1>3
    <2>2. CASE a = n
      BY <2>1, <2>2
    <2>3. CASE a \in Behind
      BY <2>1, <2>3
    <2>4. QED
      BY <1>5, <2>2, <2>3
  <1>8. QED
    BY <1>1, <1>2, <1>3, <1>5, <1>6, <1>7

(* The call's position stays.                                              *)
LEMMA StartStays ==
  ASSUME UNCHANGED <<site_ranges, call>>
  PROVE  /\ Start' = Start /\ AtCall' = AtCall
         /\ Site!High(site_ranges)' = Site!High(site_ranges)
  BY DEF Start, AtCall, Site!Low, Site!High

(* At first nothing is behind, and nothing is told.                        *)
LEMMA SiteReadInit ==
  ASSUME Site!Init
  PROVE  SiteRead
  <1>1. /\ it = { a \in DOMAIN rows : Site!InRange(a) } /\ annotations = << >>
        /\ last = Start /\ open_range = FALSE /\ done = FALSE
    BY DEF Site!Init, Start
  <1>2. SiteInv
    BY SiteInit
  <1>3. Behind = {}
    BY <1>1 DEF Behind
  <1>4. last \in Positions
    BY <1>1, <1>2, BehindFacts
  <1>5. AtCall = [at |-> last, rows |-> << >>]
    BY <1>1 DEF AtCall, Start
  <1>6. << >> \in Seq(Byte) /\ << >> \in Seq(Positions) /\ Len(<< >>) = 0
    BY EmptySeq
  <1>7. Tells(AtCall, << >>, [at |-> last, rows |-> << >>])
    BY <1>5, TellsNothing
  <1>8. RowsTold(<< >>, rows, Behind, Start)
    <2>1. \A i \in 1 .. Len(<< >>) : FALSE
      BY <1>6
    <2>2. QED
      BY <1>3, <1>6, <2>1 DEF RowsTold
  <1>9. LastTold(<< >>, rows, Behind, Start, last, open_range)
    BY <1>1, <1>3 DEF LastTold
  <1>10. SiteTold(<< >>, << >>)
    BY <1>1, <1>6, <1>7, <1>8, <1>9 DEF SiteTold
  <1>11. QED
    BY <1>1, <1>3, <1>4, <1>10 DEF SiteRead

(* A repeated row needs no annotation.                                     *)
LEMMA SkipTold ==
  ASSUME SiteInv, SiteRead, Site!SkipRow
  PROVE  SiteRead'
  <1>1. /\ it # {} /\ open_range /\ it' = it \ {Site!NextAddr}
        /\ rows[Site!NextAddr].file = last.file /\ rows[Site!NextAddr].line = last.line
        /\ UNCHANGED <<site_ranges, call, rows, annotations, last, open_range, done>>
    BY DEF Site!SkipRow, Site!RepeatedRow
  <1>2. PICK R, bytes : SiteTold(R, bytes)
    BY DEF SiteRead
  <1>3. /\ ~done /\ last \in Positions /\ open_range = TRUE /\ \A a \in Behind, b \in it : a < b
    BY <1>1 DEF SiteRead, SiteInv, Site!TypeOK
  <1>4. /\ bytes \in Seq(Byte) /\ Tells(AtCall, bytes, [at |-> last, rows |-> R])
        /\ annotations = bytes
        /\ RowsTold(R, rows, Behind, Start) /\ LastTold(R, rows, Behind, Start, last, TRUE)
    BY <1>2, <1>3 DEF SiteTold
  <1>5. PICK n \in Nat : n = Site!NextAddr
    BY <1>1, NextRow
  <1>6. /\ Behind' = Behind \cup {n} /\ (\A a \in Behind', b \in it' : a < b)
        /\ (\A a \in Behind : a < n) /\ n \in DOMAIN rows
    BY <1>1, <1>3, <1>5, BehindNext
  <1>7. /\ Behind \in SUBSET Nat /\ Behind \cup {n} \subseteq DOMAIN rows /\ Start \in Positions
        /\ rows \in [DOMAIN rows -> [file: Files, line: RowLines]]
    BY <1>6, BehindFacts
  <1>8. /\ RowsTold(R, rows, Behind \cup {n}, Start)
        /\ LastTold(R, rows, Behind \cup {n}, Start, last, TRUE)
    BY <1>1, <1>3, <1>4, <1>5, <1>6, <1>7, RowRepeated
  <1>9. /\ Start' = Start /\ AtCall' = AtCall
    BY <1>1, StartStays
  <1>10. SiteTold(R, bytes)'
    BY <1>1, <1>3, <1>4, <1>6, <1>8, <1>9 DEF SiteTold
  <1>11. QED
    BY <1>1, <1>3, <1>6, <1>10 DEF SiteRead

(* The deltas of a row fit their operands.                                 *)
LEMMA DeltasFit ==
  ASSUME Site!Encodable, SiteInv, SiteRead, it # {}
  PROVE  LET n == Site!NextAddr
         IN  /\ rows[n].file \in Nat \ {0} /\ (rows[n].file - 1) * 8 < Site!FourByteLimit
             /\ rows[n].line \in Nat
             /\ rows[n].line - last.line \in Int
             /\ Site!Signed(rows[n].line - last.line) < Site!FourByteLimit
             /\ n - last.addr \in Nat /\ n - last.addr < Site!FourByteLimit
  <1>1. PICK n \in Nat : n = Site!NextAddr
    BY NextRow
  <1>2. /\ n \in it /\ Site!InRange(n) /\ last.addr <= n
        /\ rows[n].file \in Nat \ {0} /\ rows[n].line \in Nat
    BY <1>1, NextRow
  <1>3. n \in DOMAIN rows
    BY <1>2 DEF SiteInv, Site!TypeOK
  <1>4. rows[n].file \in Files /\ rows[n].line \in RowLines
    BY <1>3, BehindFacts
  <1>5. last.addr \in Nat /\ last.line \in Nat
    BY DEF SiteRead, Positions
  <1>6. last.line \in RowLines \cup { c[2] : c \in Calls }
    <2>1. PICK R, bytes : SiteTold(R, bytes)
      BY DEF SiteRead
    <2>2. LastTold(R, rows, Behind, Start, last, open_range)
      BY <2>1 DEF SiteTold
    <2>3. CASE open_range
      <3>1. /\ last.addr \in Behind
            /\ last = Site!Position(last.addr, rows[last.addr].file, rows[last.addr].line)
        BY <2>2, <2>3 DEF LastTold
      <3>2. last.line = rows[last.addr].line
        BY <3>1 DEF Site!Position
      <3>3. QED
        BY <3>1, <3>2, BehindFacts
    <2>4. CASE ~ open_range
      <3>1. last = Start
        BY <2>2, <2>4 DEF LastTold
      <3>2. last.line = call[2] /\ call \in Calls
        BY <3>1, BehindFacts
      <3>3. QED
        BY <3>2
    <2>5. QED
      BY <2>3, <2>4
  <1>7. Site!Signed(rows[n].line - last.line) < Site!FourByteLimit
    BY <1>4, <1>6 DEF Site!Encodable
  <1>8. n - last.addr < Site!FourByteLimit
    <2>1. n < Site!High(site_ranges)
      BY <1>2 DEF Site!InRange
    <2>2. PICK lo \in Nat, hi \in Nat :
            /\ lo = Site!Low(site_ranges) /\ hi = Site!High(site_ranges)
            /\ last.addr >= lo /\ hi - lo < Site!FourByteLimit
      <3>1. Site!High(site_ranges) - Site!Low(site_ranges) < Site!FourByteLimit
        BY BehindFacts DEF Site!Encodable
      <3>2. QED
        BY <3>1, BehindFacts
    <2>3. n < hi
      BY <2>1, <2>2
    <2>4. n - last.addr < hi - lo
      BY <1>5, <2>2, <2>3
    <2>5. Site!FourByteLimit \in Nat
      BY SMT DEF Site!FourByteLimit
    <2>6. QED
      BY <1>5, <2>2, <2>4, <2>5
  <1>9. (rows[n].file - 1) * 8 < Site!FourByteLimit
    BY <1>4 DEF Site!Encodable
  <1>10. rows[n].line - last.line \in Int /\ n - last.addr \in Nat
    BY <1>2, <1>5
  <1>11. QED
    BY <1>1, <1>2, <1>7, <1>8, <1>9, <1>10

(* A row that differs from the last one is told of.                        *)
LEMMA EncodeTold ==
  ASSUME Site!Encodable, SiteInv, SiteRead, Site!EncodeRow
  PROVE  SiteRead'
  <1>1. PICK n \in Nat : n = Site!NextAddr
    BY NextRow DEF Site!EncodeRow
  <1>2. PICK file \in Nat \ {0}, line \in Nat :
          /\ file = rows[n].file /\ line = rows[n].line /\ (file - 1) * 8 < Site!FourByteLimit
          /\ Site!Signed(line - last.line) < Site!FourByteLimit
          /\ n - last.addr \in Nat /\ n - last.addr < Site!FourByteLimit
    BY <1>1, DeltasFit DEF Site!EncodeRow
  <1>3. /\ it # {} /\ it' = it \ {n} /\ open_range' = TRUE
        /\ annotations' = annotations \o Site!FileChange(file)
                                      \o Site!Move(line - last.line, n - last.addr)
        /\ last' = Site!Position(n, file, line)
        /\ UNCHANGED <<site_ranges, call, rows, done>>
    BY <1>1, <1>2 DEF Site!EncodeRow
  <1>4. PICK R, bytes : SiteTold(R, bytes)
    BY DEF SiteRead
  <1>5. /\ ~done /\ last \in Positions /\ open_range \in BOOLEAN
        /\ \A a \in Behind, b \in it : a < b
    BY <1>3 DEF SiteRead, SiteInv, Site!TypeOK
  <1>6. /\ bytes \in Seq(Byte) /\ Tells(AtCall, bytes, [at |-> last, rows |-> R])
        /\ annotations = bytes
        /\ RowsTold(R, rows, Behind, Start) /\ LastTold(R, rows, Behind, Start, last, open_range)
    BY <1>4, <1>5 DEF SiteTold
  <1>7. /\ Behind' = Behind \cup {n} /\ (\A a \in Behind', b \in it' : a < b)
        /\ (\A a \in Behind : a < n)
    BY <1>1, <1>3, <1>5, BehindNext
  <1>8. PICK addr \in Nat, from \in Nat : addr = last.addr /\ from = last.line
    BY <1>5 DEF Positions
  <1>9. [at |-> last, rows |-> R] = State(addr, last.file, from, R)
    <2>1. last = [addr |-> last.addr, file |-> last.file, line |-> last.line]
      BY <1>5 DEF Positions
    <2>2. QED
      BY <1>8, <2>1 DEF State, Site!Position
  <1>10. PICK start : start = AtCall
    OBVIOUS
  <1>11. PICK more \in Seq(Byte) :
           /\ more = bytes \o Site!FileChange(file)
           /\ Tells(start, more, State(addr, file, from, R))
    <2>1. Tells(start, bytes, State(addr, last.file, from, R))
      BY <1>6, <1>9, <1>10
    <2>2. (file - 1) * 8 < Site!FourByteLimit /\ bytes \in Seq(Byte)
      BY <1>2, <1>6
    <2>3. /\ bytes \o Site!FileChange(file) \in Seq(Byte)
          /\ Tells(start, bytes \o Site!FileChange(file), State(addr, file, from, R))
      BY <2>1, <2>2, FileTold, SMTT(30)
    <2>4. QED
      BY <2>3, Zenon
  <1>12. PICK ld \in Int, cd \in Nat : ld = line - from /\ cd = n - addr
    <2>1. line - from \in Int
      OBVIOUS
    <2>2. n - addr \in Nat
      BY <1>2, <1>8, Zenon
    <2>3. QED
      BY <2>1, <2>2, Zenon
  <1>13. PICK new \in Seq(Byte) :
           /\ new = more \o Site!Move(ld, cd)
           /\ Tells(start, new, Moved(addr, file, from, R, ld, cd))
    <2>1. Site!Signed(ld) < Site!FourByteLimit /\ cd < Site!FourByteLimit
      BY <1>2, <1>8, <1>12
    <2>2. addr \in Int /\ from \in Int
      OBVIOUS
    <2>3. QED
      BY <1>11, <2>1, <2>2, MoveTold
  <1>14. PICK p : p = Site!Position(n, file, line)
    OBVIOUS
  <1>15. PICK Q : Q = IF Begun(ld, cd) THEN Append(R, p) ELSE R
    OBVIOUS
  <1>16. Moved(addr, file, from, R, ld, cd) = [at |-> p, rows |-> Q]
    <2>1. addr + cd = n /\ from + ld = line
      BY <1>12
    <2>2. QED
      BY <1>14, <1>15, <2>1 DEF Moved, State
  <1>17. p \in Positions
    BY <1>14 DEF Positions, Site!Position
  <1>18. /\ RowsTold(Q, rows, Behind \cup {n}, Start)
         /\ LastTold(Q, rows, Behind \cup {n}, Start, p, TRUE)
    <2>1. Behind \in SUBSET Nat /\ Start \in Positions
      BY BehindFacts
    <2>2. PICK B \in SUBSET Nat, s \in Positions, l \in Positions, o \in BOOLEAN :
            B = Behind /\ s = Start /\ l = last /\ o = open_range
      BY <1>5, <2>1
    <2>3. PICK rw : rw = rows
      OBVIOUS
    <2>4. /\ RowsTold(R, rw, B, s) /\ LastTold(R, rw, B, s, l, o)
          /\ (\A a \in B : a < n) /\ rw[n].file \in Nat /\ rw[n].line \in Nat
          /\ p = Site!Position(n, rw[n].file, rw[n].line)
          /\ Q = IF Begun(rw[n].line - l.line, n - l.addr) THEN Append(R, p) ELSE R
      BY <1>2, <1>6, <1>7, <1>8, <1>12, <1>14, <1>15, <2>2, <2>3
    <2>5. RowsTold(Q, rw, B \cup {n}, s) /\ LastTold(Q, rw, B \cup {n}, s, p, TRUE)
      BY <2>4, RowEncoded, Zenon
    <2>6. QED
      BY <2>2, <2>3, <2>5
  <1>19. Start' = Start /\ AtCall' = start
    BY <1>3, <1>10, StartStays
  <1>20. annotations' = new
    BY <1>3, <1>6, <1>8, <1>11, <1>12, <1>13
  <1>21. last' = p /\ rows' = rows /\ done' = done
    BY <1>3, <1>14
  <1>22. SiteTold(Q, new)'
    <2>1. Tells(AtCall', new, [at |-> last', rows |-> Q])
      BY <1>13, <1>16, <1>19, <1>21
    <2>2. /\ RowsTold(Q, rows', Behind', Start')
          /\ LastTold(Q, rows', Behind', Start', last', open_range')
      BY <1>3, <1>7, <1>18, <1>19, <1>21
    <2>3. QED
      BY <1>5, <1>13, <1>20, <1>21, <2>1, <2>2 DEF SiteTold
  <1>23. QED
    BY <1>5, <1>7, <1>17, <1>21, <1>22 DEF SiteRead

(* The length that is added at the end comes behind all rows.              *)
LEMMA CloseTold ==
  ASSUME SiteInv, SiteRead, Site!CloseRange
  PROVE  SiteRead'
  <1>1. /\ it = {} /\ ~done /\ done' = TRUE
        /\ annotations' = IF open_range
                            THEN annotations \o Site!U32(4)
                                   \o Site!U32(Site!High(site_ranges) - last.addr)
                            ELSE annotations
        /\ UNCHANGED <<site_ranges, call, rows, it, last, open_range>>
    BY Opcodes DEF Site!CloseRange
  <1>2. PICK R, bytes : SiteTold(R, bytes)
    BY DEF SiteRead
  <1>3. /\ bytes \in Seq(Byte) /\ Tells(AtCall, bytes, [at |-> last, rows |-> R])
        /\ annotations = bytes
        /\ RowsTold(R, rows, Behind, Start) /\ LastTold(R, rows, Behind, Start, last, open_range)
    BY <1>1, <1>2 DEF SiteTold
  <1>4. Behind' = Behind
    BY <1>1 DEF Behind, Site!InRange, Site!Low, Site!High
  <1>5. /\ Start' = Start /\ AtCall' = AtCall
        /\ Site!High(site_ranges)' = Site!High(site_ranges)
    BY <1>1, StartStays
  <1>6. PICK len \in Nat : len = Site!High(site_ranges) - last.addr
    <2>1. last.addr \in Nat
      BY DEF SiteRead, Positions
    <2>2. Site!High(site_ranges) \in Nat /\ last.addr <= Site!High(site_ranges)
      BY BehindFacts
    <2>3. QED
      BY <2>1, <2>2
  <1>7. bytes \o Site!U32(4) \o Site!U32(len) = bytes \o (Site!U32(4) \o Site!U32(len))
    <2>1. PICK u \in Seq(Byte), v \in Seq(Byte) : u = Site!U32(4) /\ v = Site!U32(len)
      <3>1. Site!U32(4) \in Seq(Byte) /\ Site!U32(len) \in Seq(Byte)
        BY Bytes
      <3>2. QED
        BY <3>1
    <2>2. Joined(Joined(bytes, u), v) = Joined(bytes, Joined(u, v))
      BY <1>3, BytesJoined, Zenon
    <2>3. QED
      BY <2>1, <2>2, Zenon DEF Joined
  <1>8. annotations' = IF (done /\ open_range)'
                         THEN bytes \o (Site!U32(4)
                                \o Site!U32(Site!High(site_ranges)' - last.addr'))
                         ELSE bytes
    BY <1>1, <1>3, <1>5, <1>6, <1>7
  <1>9. SiteTold(R, bytes)'
    <2>1. Tells(AtCall', bytes, [at |-> last', rows |-> R])
      BY <1>1, <1>3, <1>5
    <2>2. /\ RowsTold(R, rows', Behind', Start')
          /\ LastTold(R, rows', Behind', Start', last', open_range')
      BY <1>1, <1>3, <1>4, <1>5
    <2>3. QED
      BY <1>3, <1>8, <2>1, <2>2 DEF SiteTold
  <1>10. QED
    BY <1>1, <1>4, <1>9 DEF SiteRead

(* The site stays while another part is run.                               *)
LEMMA SiteReadStays ==
  ASSUME SiteRead, UNCHANGED site_vars
  PROVE  SiteRead'
  <1>1. UNCHANGED <<site_ranges, call, rows, it, annotations, last, open_range, done>>
    BY DEF site_vars
  <1>2. PICK R, bytes : SiteTold(R, bytes)
    BY DEF SiteRead
  <1>3. Behind' = Behind
    BY <1>1 DEF Behind, Site!InRange, Site!Low, Site!High
  <1>4. /\ Start' = Start /\ AtCall' = AtCall
        /\ Site!High(site_ranges)' = Site!High(site_ranges)
    BY <1>1, StartStays
  <1>5. SiteTold(R, bytes)'
    <2>1. Tells(AtCall', bytes, [at |-> last', rows |-> R])
      BY <1>1, <1>2, <1>4 DEF SiteTold
    <2>2. /\ RowsTold(R, rows', Behind', Start')
          /\ LastTold(R, rows', Behind', Start', last', open_range')
      BY <1>1, <1>2, <1>3, <1>4 DEF SiteTold
    <2>3. annotations' = IF (done /\ open_range)'
                           THEN bytes \o (Site!U32(4)
                                  \o Site!U32(Site!High(site_ranges)' - last.addr'))
                           ELSE bytes
      BY <1>1, <1>2, <1>4 DEF SiteTold
    <2>4. QED
      BY <1>2, <2>1, <2>2, <2>3 DEF SiteTold
  <1>6. QED
    BY <1>1, <1>3, <1>5 DEF SiteRead

(* A row that began a row for the reader is shown.                         *)
LEMMA BegunIsShown ==
  ASSUME SiteInv, it = {}, NEW e \in DOMAIN rows, Site!InRange(e), Site!Begins(e)
  PROVE  ~ Unshown(rows, Behind, Start, e)
  <1> DEFINE started == { a \in DOMAIN rows : /\ Site!InRange(a) /\ a <= e
                                              /\ \A b \in DOMAIN rows :
                                                   b \in a .. e => rows[b] = rows[e] }
             first == CHOOSE a \in started : \A b \in started : a <= b
             lo == Start.addr
  <1>1. /\ first > Site!Low(site_ranges)
           \/ (rows[first].line # call[2] /\ Site!Small(rows[first].line - call[2], 0))
    BY DEF Site!Begins
  <1> SUFFICES ASSUME Unshown(rows, Behind, Start, e) PROVE FALSE
    OBVIOUS
  <1>2. /\ lo \in Behind
        /\ ~ (rows[lo].line # Start.line /\ Site!Small(rows[lo].line - Start.line, 0))
        /\ \A b \in Behind : b <= e => rows[b] = rows[lo]
    BY DEF Unshown
  <1>3. Behind = { a \in DOMAIN rows : Site!InRange(a) }
    BY DEF Behind
  <1>4. DOMAIN rows \in SUBSET Nat
    BY SitesAssumption DEF SiteInv, Site!TypeOK, Site!SitesType
  <1>5. lo \in Nat /\ lo = Site!Low(site_ranges) /\ Start.line = call[2]
    BY BehindFacts
  <1>6. \A a \in DOMAIN rows : Site!InRange(a) => lo <= a
    BY <1>4, <1>5 DEF Site!InRange
  <1>7. lo \in started
    <2>1. lo \in DOMAIN rows /\ Site!InRange(lo) /\ lo <= e
      BY <1>2, <1>3, <1>6
    <2>2. e \in Behind /\ e <= e
      BY <1>3, <1>4
    <2>3. rows[e] = rows[lo]
      BY <1>2, <2>2
    <2>4. ASSUME NEW b \in DOMAIN rows, b \in lo .. e PROVE rows[b] = rows[e]
      <3>1. Site!InRange(b)
        <4>1. Site!Low(site_ranges) \in Nat /\ Site!High(site_ranges) \in Nat
          BY BehindFacts
        <4>2. e < Site!High(site_ranges)
          BY DEF Site!InRange
        <4>3. b >= Site!Low(site_ranges) /\ b < Site!High(site_ranges)
          BY <1>4, <1>5, <2>4, <4>1, <4>2
        <4>4. QED
          BY <4>3 DEF Site!InRange
      <3>2. b \in Behind /\ b <= e
        BY <1>3, <1>4, <2>4, <3>1
      <3>3. QED
        BY <1>2, <2>3, <3>2
    <2>5. QED
      BY <2>1, <2>4
  <1>8. first = lo
    <2>1. started \in SUBSET Nat
      BY <1>4
    <2>2. \A b \in started : lo <= b
      BY <1>6
    <2> HIDE DEF started
    <2>3. first \in started /\ \A b \in started : first <= b
      BY <1>7, <2>2
    <2>4. first <= lo /\ lo <= first /\ first \in Nat
      BY <1>7, <2>1, <2>2, <2>3
    <2> HIDE DEF first
    <2>5. QED
      BY <1>5, <2>4
  <1> HIDE DEF first, started
  <1>9. QED
    BY <1>1, <1>2, <1>5, <1>8

(* At the end every address of the site is given its row, if one was begun.*)
LEMMA AddressRead ==
  ASSUME SiteInv, it = {}, NEW R, RowsTold(R, rows, Behind, Start), Site!Decoded.rows = R,
         NEW a \in Nat,
         \E b \in DOMAIN rows : Site!InRange(b) /\ b <= a, Site!Begins(Site!RowBefore(a))
  PROVE  [file |-> Site!RowRead(a).file, line |-> Site!RowRead(a).line] = rows[Site!RowBefore(a)]
  <1> DEFINE before == { b \in DOMAIN rows : Site!InRange(b) /\ b <= a }
             read == { i \in DOMAIN R : R[i].addr <= a }
  <1>1. DOMAIN rows \in SUBSET Nat
    BY SitesAssumption DEF SiteInv, Site!TypeOK, Site!SitesType
  <1>2. PICK e \in before : \A b \in before : b <= e
    <2>1. before \in SUBSET Nat /\ before # {}
      BY <1>1
    <2>2. IsFiniteSet(before)
      <3>1. before \subseteq 0 .. a
        BY <1>1
      <3>2. IsFiniteSet(0 .. a)
        BY FS_Interval
      <3>3. QED
        BY <3>1, <3>2, FS_Subset
    <2> HIDE DEF before
    <2>3. QED
      BY <2>1, <2>2, Greatest
  <1>3. Site!RowBefore(a) \in before /\ \A b \in before : b <= Site!RowBefore(a)
    <2>1. \E x \in before : \A b \in before : b <= x
      BY <1>2
    <2>2. QED
      BY <2>1 DEF Site!RowBefore
  <1>4. PICK m \in before : m = Site!RowBefore(a) /\ \A b \in before : b <= m
    BY <1>3
  <1>5. m \in DOMAIN rows /\ Site!InRange(m) /\ m \in Nat /\ m <= a
    BY <1>1
  <1>6. m \in Behind
    BY <1>5 DEF Behind
  <1>7. ~ Unshown(rows, Behind, Start, m)
    BY <1>4, <1>5, BegunIsShown
  <1>8. ShownBy(R, rows, m) /\ R \in Seq(Positions) /\ \A i \in 1 .. Len(R) : R[i].addr \in Behind
    BY <1>6, <1>7 DEF RowsTold
  <1>9. PICK i \in 1 .. Len(R) :
          /\ R[i].addr <= m /\ \A j \in 1 .. Len(R) : R[j].addr <= m => j <= i
          /\ R[i].file = rows[m].file /\ R[i].line = rows[m].line
    BY <1>8 DEF ShownBy
  <1>10. DOMAIN R = 1 .. Len(R) /\ Len(R) \in Nat
    BY <1>8
  <1>11. ASSUME NEW j \in 1 .. Len(R) PROVE R[j].addr <= a <=> R[j].addr <= m
    <2>1. R[j].addr \in Behind /\ R[j].addr \in Nat
      BY <1>8, BehindFacts
    <2>2. R[j].addr \in DOMAIN rows /\ Site!InRange(R[j].addr)
      BY <2>1 DEF Behind
    <2>3. R[j].addr <= a => R[j].addr <= m
      BY <1>4, <2>2
    <2>4. QED
      BY <1>5, <2>1, <2>3
  <1>12. i \in read /\ \A j \in read : j <= i
    BY <1>9, <1>10, <1>11
  <1>13. Site!RowRead(a) = R[CHOOSE k \in read : \A j \in read : j <= k]
    BY DEF Site!RowRead
  <1>14. (CHOOSE k \in read : \A j \in read : j <= k) = i
    <2>1. read \in SUBSET Nat
      BY <1>10
    <2> HIDE DEF read
    <2>2. PICK k \in read : /\ k = CHOOSE x \in read : \A j \in read : j <= x
                            /\ \A j \in read : j <= k
      BY <1>12
    <2>3. k <= i /\ i <= k /\ k \in Nat /\ i \in Nat
      BY <1>12, <2>1, <2>2
    <2>4. QED
      BY <2>2, <2>3
  <1>15. Site!RowRead(a) = R[i]
    BY <1>13, <1>14
  <1>16. rows[m] = [file |-> rows[m].file, line |-> rows[m].line]
    <2>1. rows[m] \in [file: Files, line: RowLines]
      BY <1>5, BehindFacts
    <2>2. QED
      BY <2>1
  <1>17. QED
    BY <1>4, <1>9, <1>15, <1>16

(* The end of the annotations is the end of the site.                      *)
LEMMA SiteReadBack ==
  ASSUME Site!Encodable, SiteInv, SiteRead
  PROVE  Site!RowsReadBack
  <1> SUFFICES ASSUME done, open_range PROVE Site!RowsReadBack
    BY DEF Site!RowsReadBack
  <1>1. PICK R, bytes : SiteTold(R, bytes)
    BY DEF SiteRead
  <1>2. it = {} /\ last \in Positions
    BY DEF SiteRead
  <1>3. /\ bytes \in Seq(Byte) /\ Tells(AtCall, bytes, [at |-> last, rows |-> R])
        /\ annotations = bytes \o (Site!U32(4) \o Site!U32(Site!High(site_ranges) - last.addr))
        /\ RowsTold(R, rows, Behind, Start)
    BY <1>1 DEF SiteTold
  <1>4. PICK len \in Nat : len = Site!High(site_ranges) - last.addr /\ len < Site!FourByteLimit
    <2>1. PICK lo \in Nat, hi \in Nat :
            /\ lo = Site!Low(site_ranges) /\ hi = Site!High(site_ranges)
            /\ last.addr >= lo /\ last.addr <= hi /\ hi - lo < Site!FourByteLimit
      <3>1. Site!High(site_ranges) - Site!Low(site_ranges) < Site!FourByteLimit
        BY BehindFacts DEF Site!Encodable
      <3>2. QED
        BY <3>1, BehindFacts
    <2>2. last.addr \in Nat
      BY <1>2 DEF Positions
    <2>3. Site!FourByteLimit \in Nat
      BY SMT DEF Site!FourByteLimit
    <2>4. hi - last.addr \in Nat /\ hi - last.addr < Site!FourByteLimit
      BY <2>1, <2>2, <2>3
    <2>5. QED
      BY <2>1, <2>4
  <1>5. PICK s : s = [at |-> last, rows |-> R]
    OBVIOUS
  <1>6. PICK read \in Seq(Annotation) : Encoded(read, bytes) /\ ReadTo(AtCall, read, s)
    BY <1>3, <1>5 DEF Tells
  <1>7. 4 \in Nat /\ 4 < Site!FourByteLimit
    BY SMT DEF Site!FourByteLimit
  <1>8. PICK end \in Annotation : end = [op |-> 4, arg |-> len]
    BY DEF Annotation
  <1>9. /\ annotations \in Seq(Byte) /\ Append(read, end) \in Seq(Annotation)
        /\ Encoded(Append(read, end), annotations)
    BY <1>3, <1>4, <1>6, <1>7, <1>8, EncodedMore
  <1>10. ReadTo(AtCall, Append(read, end), s)
    <2>1. Site!Read(s, end) = s
      BY <1>8, LengthRead
    <2>2. QED
      BY <1>6, <2>1, ReadOneMore
  <1>11. Tells(AtCall, annotations, s)
    BY <1>9, <1>10 DEF Tells
  <1>12. Site!Decoded = s
    BY <1>9, <1>11, DecodedIs
  <1>13. Site!Annotations(annotations) = Append(read, end)
    BY <1>9, AnnotationsAre
  <1>14. Site!Last(Site!Annotations(annotations)) = end
    BY <1>6, <1>13 DEF Site!Last
  <1>15. /\ end.op = Site!ChangeCodeLength
         /\ Site!Decoded.at.addr + end.arg = Site!High(site_ranges)
    <2>1. Site!Decoded.at.addr = last.addr
      BY <1>5, <1>12
    <2>2. last.addr \in Nat /\ Site!High(site_ranges) \in Nat
      BY <1>2, BehindFacts DEF Positions
    <2>3. end.op = 4 /\ end.arg = len /\ Site!ChangeCodeLength = 4
      BY <1>8 DEF Site!ChangeCodeLength
    <2>4. last.addr + len = Site!High(site_ranges)
      BY <1>4, <2>2
    <2>5. QED
      BY <2>1, <2>3, <2>4
  <1>16. ASSUME NEW a \in { b \in RowAddresses : Site!InRange(b) },
                \E b \in DOMAIN rows : Site!InRange(b) /\ b <= a, Site!Begins(Site!RowBefore(a))
         PROVE  [file |-> Site!RowRead(a).file, line |-> Site!RowRead(a).line]
                  = rows[Site!RowBefore(a)]
    <2>1. a \in Nat
      BY SitesAssumption DEF Site!SitesType
    <2>2. Site!Decoded.rows = R
      BY <1>5, <1>12
    <2>3. QED
      BY <1>2, <1>3, <1>16, <2>1, <2>2, AddressRead
  <1>17. QED
    BY <1>14, <1>15, <1>16 DEF Site!RowsReadBack

(* With operands that fit, the annotations of an inline site give every    *)
(* address the row it belongs to, and end with the site.                   *)
THEOREM RowsRead ==
  ASSUME Site!Encodable
  PROVE  LocalsSpec => []RowsReadBack
  <1> DEFINE Told == part = "site" => SiteRead
  <1>1. LocalsInit => Told
    BY SiteReadInit DEF LocalsInit
  <1>2. ASSUME LocalsInv, Told, [LocalsNext]_all_vars PROVE Told'
    <2>1. CASE SiteStep
      <3>1. part = "site" /\ part' = part /\ Site!Next
        BY <2>1 DEF SiteStep
      <3>2. SiteInv /\ SiteRead
        BY <1>2, <3>1 DEF LocalsInv
      <3>3. SiteRead'
        BY <3>1, <3>2, SkipTold, EncodeTold, CloseTold DEF Site!Next
      <3>4. QED
        BY <3>3
    <2>2. CASE ScopeStep \/ LocationStep \/ RangeStep
      <3>1. part # "site" /\ part' = part
        BY <2>2 DEF ScopeStep, LocationStep, RangeStep
      <3>2. QED
        BY <3>1
    <2>3. CASE UNCHANGED all_vars
      <3>1. part' = part /\ UNCHANGED site_vars
        BY <2>3 DEF all_vars
      <3>2. QED
        BY <1>2, <3>1, SiteReadStays
    <2>4. QED
      BY <1>2, <2>1, <2>2, <2>3 DEF LocalsNext
  <1>3. LocalsInv /\ Told => RowsReadBack
    BY SiteReadBack DEF LocalsInv, RowsReadBack
  <1> HIDE DEF Told
  <1>4. LocalsSpec => []Told
    BY <1>1, <1>2, Inductive, PTL DEF LocalsSpec
  <1>5. QED
    BY <1>3, <1>4, Inductive, PTL
=============================================================================
