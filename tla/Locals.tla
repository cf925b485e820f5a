------------------------------- MODULE Locals -------------------------------
(***************************************************************************)
(* What TranslateLocalVars writes of the variables and inlined calls of a  *)
(* function, in four computations that depend on nothing of each other: a  *)
(* run has one part, and the variables of the others stay.                 *)
(***************************************************************************)
EXTENDS DefRange, Sequences

CONSTANTS
  Parts,           (* A subset of {"scopes","ranges","locations","site"}.  *)
  Programs,        (* See SymbolRecords.                                   *)
  Archs, Images,   (* See VarLocations.                                    *)
  RangeSets, RowAddresses, Files, RowLines, Calls, MaxRows
                   (* See InlineAnnotations.                               *)

VARIABLES
  part,
  program, func, stack, inline_site_counter, site, child, loc_expr, left, records, labels,
  arch, image, die, var, loc, out,
  site_ranges, call, rows, it, annotations, last, open_range, done

scope_vars    == <<program, stack, inline_site_counter, site, child, loc_expr, left,
                   records, labels>>
location_vars == <<arch, image, die, var, loc, out>>
site_vars     == <<site_ranges, call, rows, it, annotations, last, open_range, done>>
all_vars      == <<part, vars, scope_vars, func, location_vars, site_vars>>

Scopes    == INSTANCE SymbolRecords WITH out <- records
Locations == INSTANCE VarLocations
Site      == INSTANCE InlineAnnotations
               WITH ranges <- site_ranges, Addresses <- RowAddresses, Lines <- RowLines

ASSUME ProgramsAssumption == \A p \in Programs : Scopes!ProgramType(p)
ASSUME ImagesAssumption   == \A m \in Images : Locations!ImageType(m)
ASSUME CompiledAssumption == \A m \in Images : Locations!Compiled(m)
ASSUME SitesAssumption    == Site!SitesType

-----------------------------------------------------------------------------
NoScopes ==
  /\ program = << >> /\ stack = << >> /\ inline_site_counter = 0 /\ site = << >>
  /\ child = 0 /\ loc_expr = 0 /\ left = 0 /\ records = << >> /\ labels = << >>

NoRange ==
  /\ pc = "ignored" /\ func_start = 1 /\ low_pc = 0 /\ high_pc = 0
  /\ current_offset = 0 /\ remaining_len = 0 /\ ranges = {}

NoLocations ==
  /\ arch = "" /\ image = << >> /\ die = 0 /\ var = 0 /\ loc = 0 /\ out = {}

NoSite ==
  /\ site_ranges = {} /\ call = << >> /\ rows = << >> /\ it = {} /\ annotations = << >>
  /\ last = << >> /\ open_range = FALSE /\ done = FALSE

LocalsInit ==
  /\ part \in Parts
  /\ \/ part = "scopes"    /\ Scopes!Init /\ NoRange /\ NoLocations /\ NoSite
     \/ part = "locations" /\ Locations!Init /\ NoScopes /\ NoRange /\ NoSite
     \/ part = "ranges"    /\ Init /\ func = 0 /\ NoScopes /\ NoLocations /\ NoSite
     \/ part = "site"      /\ Site!Init /\ func = 0 /\ NoScopes /\ NoRange /\ NoLocations

ScopeStep ==
  part = "scopes" /\ Scopes!Next /\ UNCHANGED <<part, vars, location_vars, site_vars>>
LocationStep ==
  part = "locations" /\ Locations!Next /\ UNCHANGED <<part, vars, scope_vars, site_vars>>
RangeStep ==
  part = "ranges" /\ Next /\ UNCHANGED <<part, scope_vars, func, location_vars, site_vars>>
SiteStep ==
  part = "site" /\ Site!Next /\ UNCHANGED <<part, vars, scope_vars, func, location_vars>>

LocalsNext == ScopeStep \/ LocationStep \/ RangeStep \/ SiteStep
LocalsSpec == LocalsInit /\ [][LocalsNext]_all_vars /\ WF_all_vars(RangeStep)

(* The states have the shape the code's declarations give them; the        *)
(* lengths of ranges fit their field, the annotations are bytes.           *)
TypesOK ==
  /\ TypeOK
  /\ part = "scopes"    => Scopes!TypeOK
  /\ part = "locations" => Locations!TypeOK
  /\ part = "site"      => Site!TypeOK

(* The scopes open in the output are those of the activations, so each     *)
(* S_END closes what it was written for, and none is left open.            *)
ScopesMatchActivations == part = "scopes" => Scopes!ScopesMatchActivations

(* Every variable that is not hidden gets one S_LOCAL, in the scope it     *)
(* belongs in, also below inline sites that could not be read.             *)
VariablesInTheirScope == part = "scopes" => Scopes!VariablesInTheirScope

(* What a reader takes for a variable's def-ranges, the ones behind its    *)
(* S_LOCAL, are those of all its locations and of no other variable's.     *)
DefRangesFollowTheirVariable == part = "scopes" => Scopes!DefRangesFollowTheirVariable

(* "The output can be compiled by Clang to produce a COFF object"          *)
(* (README.md): no label is defined twice.                                 *)
LabelsUnique == part = "scopes" => Scopes!LabelsUnique

(* "All CodeView records are padded to 4 bytes" (Given_DebugInfo.cpp): the *)
(* length of a record and its length field are a multiple of 4.            *)
LengthsAligned == part = "scopes" => Scopes!LengthsAligned

(* A record of a variable names the code its location is valid in.  Of one *)
(* that is the whole function that is the part it starts with, except in   *)
(* the scope of a part longer than it, where the record runs past it.      *)
RecordsWhereLocated == part = "locations" => Locations!RecordsWhereLocated

(* A variable can be found at all addresses of its locations, but for      *)
(* those before the function's start and those not understood.             *)
VisibleInFunction == part = "locations" => Locations!VisibleInFunction

(* Read back, the annotations of an inline site give every address of it   *)
(* the file and line of the row it belongs to, and the site's end.         *)
RowsReadBack == part = "site" => Site!RowsReadBack
=============================================================================
