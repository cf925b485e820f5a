# A TLA+ model of REPEAT

REPEAT reads an ELF shared object and writes an assembly file that an assembler for Windows targets turns
into a COFF object: the image's bytes at their addresses in one section, SEH
unwind directives in place of DWARF call-frame information, and CodeView debug
information in place of DWARF.  This directory models that translation in
TLA+, checks the models with TLC on small inputs, and proves the main
invariants with TLAPS for all inputs.

Source references are relative to the root of the repository; `translator_impl.h`
is `include/repeat/translator_impl.h`, the `.cpp` files of the debug part are in `src/debug/`.

## 1. The system

The program is one sequential thread: `main` → `Repeat::Run` → `Translator` →
`TranslatorImpl<ELFT>`.  `Load` fills tables from the file, `Translate` walks
them and writes text.  There are no threads, callbacks or persistent state, so
what is hard is not interleaving but *agreement*: many passes over the same
tables, each with its own loop, early exits and idea of an address, produce
text whose parts refer to each other by label, name, number or position; and
the reader of that text (assembler, linker, debugger) is a state machine of its
own, which must accept the sequence.

| Component | State | Operations | Talks to |
|---|---|---|---|
| Command line (`args.cpp`, `repeat.cpp`) | parsed options | `Parse`, `Run` | Translator; maps errors to exit codes |
| Translator facade (`translator.cpp`) | ELF class | `Load`, `Translate` | TranslatorImpl |
| Symbol tables (`translator_impl.h` 98–209, 785–892) | `m_segments`, `m_elfFunctions`, `m_funcToIdMap`, `m_symbolNames` | collect, number, name, emit | everything that names a function |
| Section emitter (`translator_impl.h` 615–783) | position, open function | one walk over all bytes | Unwind, Line (hooks at each address), Relocations |
| Relocations (`translator_impl.h` 498–613, `ParseRelocation*`) | list of entries | parse per architecture | Section emitter |
| Unwind translator (`unwind_translator.h/.cpp`) | `m_unwindInfo`, `m_prologueEnds`, `m_frameSizes` | prepare; emit begin, prologue, end | backends, Section emitter |
| Backends (`src/arch/*`: x86_64, i386, aarch64, arm) | running CFA state, directives | `TranslateUnwindInfo`, `ParseRelocation` | Unwind, Relocations |
| Line translator (`line_translator.cpp`) | file table, address map, last emitted line | prepare, files, `EmitLineLoc` | Section emitter, inline sites |
| Type translator (`type_translator.cpp`) | type cache `m_typeMap`, type table | `TranslateType` (recursive) | symbol records |
| Symbol records (`translator_impl.h` 346–491, `var_translator.cpp`) | record stream, inline-site counter | functions, scopes, variables, ranges | types, lines, names |
| Debug context (`debug_context.h`) | the tables above | none | shared by all |
| Tests, test loader, build | | | not modelled |

What each must get right, and what makes it hard:

* **Section emitter.** Offsets in the section are virtual addresses; functions
  are opened and closed in balance whatever the symbol sizes say (0, overlap,
  past the end of the segment, starting inside a relocated word); the assembler
  never sees a nested or unclosed `.seh_proc`, a label twice or an `.org`
  backwards; the suppression of repeated lines loses none.
* **Backends.** Directives in code order, none behind `.seh_endprologue`;
  a frame size that is the frame's.  Two backends edit and erase what they
  wrote before; two collect first and write in a second pass.
* **Frames.** Four pieces of code agree on where the stack variables are: the
  backend, `PrepareUnwindInfo`, `S_FRAMEPROC` and the offset of each location.
* **Symbol records.** A flat stream whose nesting is implied by position; early
  `continue`s in the middle of a recursion; annotations that are deltas of deltas,
  in operands of three widths; locations of one entry spread over several symbols;
def-ranges that say neither their variable nor their location.
* **Type translator.** Cyclic input, acyclic output; a cache that holds
  placeholders during a recursion.
* **Symbol tables.** Three passes with three different rules of which symbol at
  an address wins.
* **Relocations.** Where the addend is, and whether the symbol's value counts,
  depends on format, type and definedness together.
* **Command line.** Everything that can fail about the input fails before the
  output is opened, which truncates it.
* **Line translator.** Local file numbers of two conventions become one global
  numbering.

The hazards, each at its line, are in `PROJECT.json`.

## 2. Modules

| Module | Models | Checked through | Proofs |
|---|---|---|---|
| `SectionEmitter` | `EmitSections` and its hooks, and the assembler that reads them | `MCSectionEmitter` | `SectionEmitterProofs` |
| `ObjectSection` | abstract: what a COFF section of the image is; `SectionEmitter` implements it | `MCSectionEmitter` | `SectionEmitterProofs` |
| `CfiX8664`, `CfiAarch64`, `CfiArm` | `TranslateUnwindInfo` of each target, with the second pass of the last two | `Unwind` | `UnwindProofs` |
| `Unwind` | the backend that was chosen | `MCUnwind` | `UnwindProofs` |
| `FrameLayout` | frame size and frame pointer, from call-frame information to variables, four targets | `MCFrameLayout` | `FrameLayoutProofs` |
| `SymbolRecords` | the record stream of functions, inline sites, blocks and variables | `Locals` | `LocalsProofs` |
| `VarLocations` | which code the records of a variable name | `Locals` | `LocalsProofs` |
| `DefRange` | the loop that splits a location's range into records | `Locals` | `LocalsProofs` |
| `InlineAnnotations` | the binary annotations of an inline site | `Locals` | `LocalsProofs` |
| `Locals` | the four computations of `TranslateLocalVars` side by side | `MCLocals` | `LocalsProofs` |
| `TypeTranslator` | `TranslateType`, its cache and the type table | `MCTypeTranslator` | `TypeTranslatorProofs` |
| `SymbolNames` | functions, ids, names, aliases and global variables from the ELF symbol table | `Load` | `SymbolNamesProofs` |
| `LineTable` | `PrepareLineInfo` and `EmitDebugFiles` | `Load` | `LoadProofs` |
| `Relocations` | `GetElfRelocations`, `ParseRelocation(Rel)`, the word written | `Load` | `LoadProofs` |
| `Load` | the three tables of `Load` side by side | `MCLoad` | `LoadProofs` |
| `CommandLine` | `ArgsParser`, `Repeat::Run`, `Translator` to the exit code | `MCCommandLine` | `CommandLineProofs` |

An `MC` module gives constants small values, and its `.cfg` files are the runs.
Three modules put others side by side whose code reads none of each other's
state: `Unwind` chooses a target as `CreateBackend` does (`arch`) and has the
three backends share the variables that bear the same name; `Locals` and `Load`
have a `part` that says which of the computations is meant, and leave the variables
of the others as they are.  There a property is named as in its module and says in
which part it applies.  A theorem is about such a composition where a run is.

What the modules assume of their input is in a named `ASSUME` of each, and holds for
these reasons:

* `SectionEmitter`, `ImagesAssumption`: see below.
* `SymbolNames`, `TablesAssumption`: local symbols come first in an ELF symbol table, and an
  undefined symbol is global and has the address 0.
* `Load`, `RelocationsAssumption` (`Linked`): the words a linker relocates lie in a section of the
  image that comes before any other that claims the address (sections with debug data are at
  address 0 and behind those that are loaded), and values fit the word of the ELF class.
* `Locals`, `CompiledAssumption` (`Compiled`): nothing is at address 0, where the file header is; a
  symbol is as long as the part of a function it starts; a location lies within a part of its
  function.  `ProgramsAssumption`: a tree of entries in the order of the file, in which
  parents come before children.
* `Unwind`, `Aarch64Assumption`: slots are multiples of 8, because the operand of
  `DW_CFA_offset` is factored by a data alignment of 8; operands fit the `uint64_t` they are
  read into, of which the model has `OffsetValues` values, a multiple of 8.

Two more conditions are hypotheses of one theorem each, since the code does not
need them otherwise; `MCUnwind` and `MCLocals` assert them of their instances:

* `CfiX8664`, `WholeWords`: CFA offsets of x86_64 are multiples of 8, as those of any code that
  keeps its stack pointer aligned to words.  An allocation smaller than a word
  has no word that a push could take out of it.
* `InlineAnnotations`, `Encodable`: file numbers, signed line deltas and the lengths of sites are,
  as written, below 2^30, which is what the widest operand of an annotation holds.  The
  code does not test for more.

Definitions marked *Faulty* are what a plausible mistake in the code
would make of the definition below them; nothing uses them, they document (and
let one test, by substitution) which mistake each property would catch.

### SectionEmitter

The translator's variables are those of the code: `seg` and `pos` are the loops'
positions, `in_func` is `current_func != nullptr`, `func_start` is
`func_start_addr`, `last_line` is `m_lastEmittedLine`; `pc` tells where in the
loop's body it is.  One turn of the loop is

    CloseOpenFunction? BeginFunction | NoFunctionHere   (680-704)
    Annotate  = EmitSehPrologue, EmitLineLoc            (706-712)
    EmitReloc | EmitByte                                (713-759)
    LeaveFunction | StayInFunction                      (761-773)

within `BeginSegment` and `EndSegment`.  The other variables are the assembler's:
a directive is modelled by what it makes the assembler do (`.org` moves the
location counter `lc`, a label is recorded with the location it got, `.seh_proc`
opens a scope, ...), and what an assembler would reject is collected in `errors`.
So the properties speak of the object file, not of the text.  The contents of
bytes are left out, the operands of relocations are in `Relocations`.  The tables of
`Load` are the constant `Images`; `WellFormed` is what the ELF format and the backends
guarantee of them (ascending disjoint segments, relocated words inside the file
part of a segment, prologue ends that are not before a directive; the last is
proved of all backends in `UnwindProofs`).

`ObjectSection` says what the walk is for: bytes of the file appear once each,
function ranges open and close one at a time, and a section is complete only
when every byte is there.  `KeepsPromise` is the refinement, with the mapping
given at the `INSTANCE`.

### CfiX8664, CfiAarch64, CfiArm, Unwind

One action per group of opcodes; each step reads one more instruction, any of
those the constants allow, so a behaviour is a call-frame program being read.
On x86_64 the directives are appended at once: `WithoutWord` is the loop of lines
178–198 that takes the pushed word out of an allocation of the same offset, `changes`
is a history of the CFA, and stack offsets in operands are left out.  On aarch64
and arm the program is read to the end first (`phase = "reading"`), saves apart from
the rest, and a second pass writes the directives of one code offset after the other.
On aarch64 each turn of its two loops is a step: `WriteOffset` takes the next offset and
writes what is no save, `WriteSave` takes the save with the lowest slot of those that are
`pending`, and the next one with it if they pair.  On arm `WriteOffset` gathers the
saves of an offset into one list of core and one of vector registers and takes what the
list stores out of the allocation before it.  The slot of a save is kept on aarch64,
where it decides, and left out on arm.

### FrameLayout

Unlike the `Cfi` modules, which have any instructions, it has a machine: a function that
sets up a frame, perhaps with a frame pointer, may leave it in the middle,
and whose compiler describes it in `.eh_frame` or `.debug_frame`.  `TranslateUnwindInfo`
is reduced to what it keeps of the frame (its deepest CFA, `has_fp`), `PrepareUnwindInfo`
chooses the table and stores, and the properties compare the place of a variable with
the base register of `S_FRAMEPROC` plus the offset of the location record.

### SymbolRecords, VarLocations, DefRange, InlineAnnotations, Locals

`SymbolRecords` turns the recursion of `translate_block_variables` into an
explicit stack of activations, each with the children its loop has still to
visit.  The actions are the loop's branches: a lexical block, an inlined
subroutine, one that cannot be read (two early `continue`s), a variable with
locations, one that is hidden (static, nameless or without locations), and the return
with the `S_END`.  `Variable` writes the `S_LOCAL` and enters the loop over the variable's
locations (lines 871–968), where `child`, `loc_expr` and `left` are the position: one
`EmitDefRange` for each record, `NextLocation` for the end of a turn, and
`EndOfLocations`.  How many def-ranges a location takes is an input here (`locs`), 0 for
one of the loop's `continue`s; what makes it so is in `VarLocations` and `DefRange`.  A record
is its kind, the entry and location it is of, the length its length field declares and the
bytes it takes.

`VarLocations` is the way from a symbol to the records of one variable:
`FindDwarfFunctionDie` in both its ways of matching, the start and name taken from the
entry rather than from the symbol, and one action per way a location is used or
left out.  `DefRange` is the loop that appears three times in lines 896–960, with the
`uint16_t` the length is assigned to.  `InlineAnnotations` has the encoder
(lines 545–577 and 720–809) with the numbers of the format, one line-table row per
step, and a decoder for the property; operands are bytes, as their widths are what
could go wrong.

### TypeTranslator

Activations are again a stack: the DIE, its forward reference and the indexes its
references gave so far.  `Enter*` is the part of `TranslateType` up to the first
recursive call, `AnswerNull` and `AnswerKnown` are its early returns, and there is
one action per case of the switch for what is written when all references are
there.  Records are kept with the indexes they hold; `Write` returns the index of
an equal record if there is one, as `MergingTypeTableBuilder` does.

### SymbolNames, LineTable, Relocations, Load

One symbol, file, row or relocation entry per step.  `SymbolNames` runs the passes in
the order of the program (`Load` 110–132, 146–150, 152–209, then `EmitSymbols` and
`TranslateGlobalVars`).  Symbols that cannot be read are skipped by every pass and are
left out.  In `LineTable` a path is a sequence of components and separators, since the
conversion of Windows paths is what makes two of them equal and what the
assembler's escapes could undo.  `Relocations` reads any entry a linker may leave,
RELA or REL, and writes the relocated words; addresses wrap at a small modulus.
`WordsAsLoaded` compares a word with what the ELF loader would have stored.

### CommandLine

`Next` is one run: the arguments one by one, then `Run` statement by statement.  The
input is read twice (`Translator::Load` for the class, `TranslatorImpl` for the rest), and
another process may replace it in between (`ReplaceInput`), the only other
actor in this project.

## 3. Runs

| Run | Question | Bounds |
|---|---|---|
| `sections` | Is every image reproduced, accepted, balanced and annotated, and does the walk end? | two segments (4 and 3+1 bytes, the second maybe unreadable), pointers of 2 bytes, up to 2 functions of sizes 0, 2, 3 at 6 addresses, 3 sets of relocations, 5 kinds of unwind tables, 2 line tables, columns on/off |
| `unwind` | Are directives ordered and ended; is every save written once, paired, and taken out of its allocation? | programs of up to 5 instructions; 3 CFA offsets (2 on aarch64), 3 slots, offsets of 64 values on aarch64, the kinds of register that differ |
| `stack_layout` | Do the directives register the right stack layout? (no) | the same on x86_64 |
| `locals` | Does the stream nest as the scopes do; do records name the right code; is each location's def-range behind its variable; are ranges covered; do annotations decode? | every tree of up to 5 entries in 2 functions, variables with a location that is left out or with three, of 0, 2 and 1 def-ranges; every pair of 5 shapes of DWARF entries with up to 2 locations; ranges up to 10 bytes, records of 3, a field of 4 values; up to 3 rows at 6 addresses |
| `inline_labels`, `record_lengths` | Are labels unique; do lengths include padding? (no) | up to 4 entries |
| `types` | Is the type table topological and faithful? | every declarable graph of up to 3 types; 4 larger ones for the other tags; any order of requests |
| `type_cycles` | Are cyclic references resolved? (no) | the same |
| `load_tables` | Do the names used exist, with the right linkage; is the file numbering readable and the address map faithful; are words as loaded? | tables of up to 3 symbols, 2 names, 2 segments and a variable; 2 units of up to 2 files and 2 rows, versions 4 and 5; 2 relocation entries, 2 slots |
| `reloc_data_pointers` | Are pointers to defined symbols relocated? (no) | the same entries |
| `frame_layout` | Does CodeView find variables where the machine has them? | frames of up to 8 words, 4 targets, variables on both sides of the CFA |
| `command_line` | Do arguments mean what they say; is only supported input translated; is only the output written? | 4 arguments, 2 file names and the empty one, 12 kinds of input |

Why the bounds are enough.  *sections*: the interesting positions of a function
are the beginning and end of a segment, a byte inside it, the inside of a
relocated word, a hole and the zero-filled tail, and all are there, alone and in
pairs; the state that two functions share is one "current function", so a third
adds no new relation.  The proofs remove the bound for safety.  *unwind*: the push
logic relates an allocation, a save and one instruction before them, pairing two
saves and the one that could have been their partner; five instructions allow two
allocations with two pushes, or an allocation and three saves with one that stays
alone; with 64 values to an offset a slot 24 below a CFA of 16, or of none yet, wraps, and
no other sum comes near.  *locals*: a location left out before two that are not, of one
def-range and of two, is what a loop that ends early, or counts wrong, would tell from
the code's; five entries give an inline site in an unreadable one in a block
with a variable before and after it, and two functions; an entry of two parts and one
of one part are all that a search for the first match can confuse; the limit, its
remainder and the field's width all differ; three rows have a first, a last and one
between, with each operand at every width it can have.  *types*: the shortest cycle
through a pointer and a class has two entries, a third leads into or out of it.
*load_tables*: the rules compare symbols in pairs at an address or of a name, and the
third symbol is the global that overrides; sharing of files needs two units; two
entries may be of the same word.  *frame_layout*: the offsets are linear in the size,
and the proofs remove the bound.  *command_line*: an option, its value, a second
one and an input are four arguments.

### What the runs show to be wrong

Five runs find a difference between the code and what the repository says of it;
each is a `findings` entry with the quote.

1. **Stack layout** (`StackLayoutRegistered`).  `.seh_stackalloc` gets the whole CFA
   offset at each `def_cfa_offset`, so a prologue that moves the stack pointer
   twice, and every epilogue that moves it back, allocates again
   (`tests/data/output/asm/cv_moving_var.s` lines 859–908 show it).  arm and aarch64
   do the same (`arm_backend.cpp:117`, `aarch64_backend.cpp:105`).
2. **Inline-site labels** (`LabelsUnique`).  Numbered per function, defined per file.
3. **Length of inline-site records** (`LengthsAligned`).  The padding is not counted.
4. **Cyclic types** (`CyclesResolved`).  A pointer that is asked for before the struct
   it points to stands as `Void` in the struct's members of that pointer type.
5. **Data pointers** (`DataPointersRelocated`).  Absolute relocations against symbols
   are of no type that a backend reads; the word stays as it is in the file.

### What the properties leave out

The properties of the passing runs are stated so that they hold beside these, and say
what still can be relied on.  Where a property has an exception it is because the code
does something else there; the repository says nothing of these cases, so they are no
findings, but a reader should know of them:

* `WordsAsLoaded` leaves out a REL `JUMP_SLOT` word, whose way back into the PLT is taken
  for an addend (`arm_backend.cpp:47`), and a pointer just past the end of a
  segment, for which `FindSegment` (`translator_impl.h:886`) finds none.
* `VariablesAtTheirSlots` leaves out i386 functions with `ebp`, for which no directive
  says so and `S_FRAMEPROC` names `esp` (`translator_impl.h:432`).
* `EachSaveOnce` and `NothingLeftToPair` take slots as the code computes them.  On aarch64 that is the
  CFA offset less the save's distance, unsigned and not checked (`aarch64_backend.cpp:192`).  Once a
  `def_cfa` of `x29` has made the CFA offset the distance to the frame record, saves below the record, as
  of `d8` and up, have slots that wrap; the directive's operand is then near 2^64.  No property
  says that a slot is the distance from the stack pointer, which is what the directives mean.
  Of `NothingLeftToPair` the last wrapped slot and slot 0 are no neighbours, since the sort puts them
  at opposite ends.
* `RecordsWhereLocated` says what a location with a range becomes, in whichever part's scope it
  is written, and what one that is the whole function becomes in the scope of the first part: that part.
  In another part's scope such a record has the start of the entry's first part and the *length of
  the symbol that is being written* (`translator_impl.h:464`, `var_translator.cpp:875`), so it covers code of
  the first part, if it is not the longer of the two, and runs past it otherwise: with the parts
  7–8 and 2–4, the record in the scope of the latter is of 7–9.  The property claims only the former.
* `VisibleInFunction` leaves out locations before the function's start, as cold parts of a
  split function can be (`var_translator.cpp:875`), and registers without a CodeView name,
  which `S_DEFRANGE_REGISTER` drops without a warning (`var_translator.cpp:371`).
* `LabelsOfReachableFunctions` is of functions the walk reaches; the records of others (undefined, or begun
  inside of a relocated word) name labels that do not exist (`translator_impl.h:485`).
* `Faithful` says nothing of the underlying type of an enumeration or of the return and argument
  types of methods.
* `LinkageKept` is of global symbols and functions; local objects of one name keep that
  name at each of their addresses (`translator_impl.h:206`; mapping symbols such as `$a`
  do, see `tests/data/output/asm/relocs_elf_arm.s` 960–966).
* `FilesReadBack` has no path with a double quote, which is not escaped.
* `KeepsPromise` counts a segment only when it could be read; one that cannot be ends
  the output early and the run still succeeds (`translator_impl.h:652-656`).
* `OnlyOutputWritten` protects nothing when the output is the input itself
  (`repeat.cpp:53`).
* Without a property: the size of an array, which keeps the last dimension and counts
  elements without a size of their own, typedefs among them, as 0
  (`type_translator.cpp:525`); the offset of `.seh_setframe`, unsigned, when a CFA is nearer
  than 16 bytes (`x86_64_backend.cpp:133`).

## 4. Fairness

`Termination` is checked of the section walk under weak fairness of `Next` (`FairSpec`)
and of the def-range loop under weak fairness of its steps (`RangeStep`): the code is
one thread that never waits, so as long as a statement can run it does run.  No
action is favoured over another.  The other loops advance an iterator over a finite table
in every step.  Where TLC is told not to check for deadlock the
program has simply finished.

## 5. Proofs

All theorems are for every value of the constants under the named `ASSUME`s of the
modules, which TLC evaluates on the instances.

* `SectionEmitterProofs`.  Images of any number of segments, functions and
  relocations, any pointer size.  `IInv` strengthens the invariants by what the
  loop maintains: in the body of the loop `lc = vaddr + pos`; before a segment `lc`
  is at most its address (here `WellFormed` is used); every label, item and
  directive so far lies at or below `lc`; the open function is the only one with a
  start and no end, its `.seh_proc` is the only open one, and its prologue has not
  been ended by an address before this one.  `AssemblerAccepts` needs this last
  part, since whether a directive comes too late is decided by two maps compared
  at different steps.  `LayoutFaithful` alone is not inductive: it says nothing of
  where the next item goes.
  `FullInv` says what has been *done* behind `lc`: the bytes placed are exactly those of
  the file below it (`BytesInv`), the functions begun are those whose address the walk stopped
  at (`StartedInv`), directives and lines of what has been walked are replayed
  (`PrologueInv`, `LocsInv`).  All four rest on the walk never standing inside of a relocated
  word (`WalkInv`), which is what `LabelsOfReachableFunctions`, `PrologueReplayed` and
  `LinesPreserved` except.  With both, every step is a step of `ObjectSection` or none
  (`Refines`).
* `UnwindProofs`.  Programs of any length, any registers, offsets and slots, any width of offsets.
  *x86_64*: `PrologueEndIsLast` is strengthened by "no directive lies beyond
  `current_offset`", and survives `RemoveAt` because the erased directive is one of the
  current offset and a push follows it in the same step.  `FrameSize`, which no run states,
  is that the size kept for a function is its deepest CFA less the return address; it follows
  from `max_cfa_offset` being the maximum of the history.
  *aarch64*: the first pass keeps what it collects sorted and at or below
  `last_prologue_offset` (`OthersInv`, `SavesInv`); registers and slots of saves are their own, and
  the CFA does not move between saves of one offset, so these lie at different multiples of 8 from it,
  wrapped or not (`Aarch64Saves`), and the sort has no ties.
  Of the second pass, what is written is of offsets before those still to come (`WrittenOrder`);
  a save is to come, pending or written, and written once (`WrittenOnce`); and a save written alone
  does not pair with any that is pending (`WrittenPaired`), although the loop only ever looks at the
  next one: a partner has the next register at the next slot, and no third save
  lies between two neighbouring slots.  The second pass had to be a step per turn of its loops to say this.
  *arm*: the lists of the offsets that are behind name exactly what is saved there
  (`ArmLists`), and taking what a list stores out of the allocation before it, or erasing that, moves
  nothing else (`ArmOrder`).
  `PushesTakeFromTheAllocation` (`BackendPushes`) compares what the directives account for before and
  after a push, so lemmas say how a sum changes when a directive is appended, erased, replaced or
  reduced, or two lists are joined.  The invariant it needs is that no allocation is left empty
  (`AllocsOf`) and, on x86_64, that each is of whole words (`WordAllocs`).
  The theorems about `BackendSpec` put the three together: each invariant holds where its
  target is chosen, and the variables of the others stay.
* `FrameLayoutProofs`.  Frames of any size, any variables, four targets.
  `VariablesAtTheirSlots` and `TotalFrameBytes` say nothing before the function is
  translated, so the invariant follows the numbers through their four owners: what the
  backend has seen of the frame is what the machine had (`FramePointerSeen`,
  `DepthSeen`), what the context holds is what was read (`ContextOfRead`), and
  `S_FRAMEPROC` is what the context holds (`FrameProcOfContext`).
* `LocalsProofs`.  Trees, images and ranges of any size.
  *DefRange*: the records written so far tile the range from its start to
  `current_offset`, and `current_offset + remaining_len` stays at its end.
  *VarLocations*: a record says where its location is (`RecordRight`), and whatever was passed and is
  understood has its record (`Complete`); `Compiled` then makes of "where its location is" a place in
  the function.
  *SymbolRecords*: the properties fold over the records and over the activations, so the
  invariant holds the two folds' values as functions: `f[n]` is the scopes a reader is in
  after n records, `g[n]` those of the lowest n activations, and `f` and `g` end in the same
  (`Walk`).  It also follows the entries reached so far, which are those before the ones
  still to be visited; each variable among them has its one record.  What is behind a
  variable's record while the loop over its locations runs is followed by `LocationInv`: of each
  location passed as many def-ranges as it takes, of the one the loop is at those no longer
  `left`, of those ahead none, and nothing else; only the last variable in the output can be
  the one the loop is at (`OneGoesOn`), so all others have theirs in full.
  That a record stands in *its* scope needs the nearest entry with a scope
  above a variable to be unique, which is induction up the tree.
  *InlineAnnotations*: what the encoder writes of an operand reads back as that operand, in each of the
  three widths, and bytes written after others are read after them (`AnnotationsAre`).
  `RowsReadBack` (`RowsRead`) is not inductive, since it says nothing of where a reader stands in
  the middle of a site.  `SiteRead` says it: what is written so far leaves a reader with
  the address, file and line of the encoder's `last` and with rows (`Tells`) such that each row behind
  the encoder is what the last row read at or below its address says, or repeats the address of a
  row that began none.
* `TypeTranslatorProofs`.  Type graphs of any size.  Every index held in the cache,
  in an activation or in a record is at most the length of the table when it is
  read, which is `RefersBackward` for the record that is written next; an entry on the
  stack that is not a method is in the cache, and entries of the cache are
  not entered again, which is `RecursionBounded`.  `Faithful` needs to know what the indexes
  *mean*: answers once given keep standing for their entries, since the table only grows and
  the cache changes only from a placeholder (`Adds`); an entry in translation is a placeholder; and the
  activations are a path of the graph, so that a reference to one of them, which is
  answered by `Void` or a forward reference, closes a cycle, as the property
  allows (`GraphInv`).
* `SymbolNamesProofs`.  Symbol tables of any length.  Each pass has an invariant of what it is done with:
  the table of functions has those and no others, the table of names has a name of a symbol at
  every address of one (the passes disagree about *which*, so the names are only known to
  be of some symbol there), and every symbol emitted so far is defined and, when global,
  external by its last `.def`.  That local symbols come first is what makes the last
  one win.
* `LoadProofs`.  The other two tables, and the three together.
  *LineTable*: local numbers of the files read of a unit lead to the global number of their path
  (`FilesNumbered`), and the map has at each address the last row read so far that says something of it
  (`RowsMapped`).
  *Relocations*: the relocations are those of the entries understood, and a word holds the
  operand of its first relocation.  That this is what the loader would store is arithmetic of
  two moduli, the word of the target and the 64 bits the code computes in, from which the narrower
  word is cut: `Modular` and the lemmas before it, for any modulus.
  `FilesReadBack` (`PathsReadBack`): a path without a quote is read back from its escaped form
  (`EscapedReadBack`), joined to its directory or not, and `FilesInv` says which paths have been written.
* `CommandLineProofs`.  Any number of arguments and input files.  `ParsedInv` relates the options to the
  arguments before the parser's position, which is never behind an `-o` that still wants its value
  (runs of `-o` alternate, `Alternate`).  `LoadedInv` holds the class and the machine of the
  *second* read against the instance chosen by the first, whatever replaced the file in
  between.

Induction over data goes by well-foundedness of `<` on sets, since the library's induction
rules take an operator: a non-empty set of numbers has a least (`Least`), so a claim about every
position of a text or a list that fails anywhere has a first position where it fails.
The readers, sums and folds that are reasoned about so are recursive functions on positions.
That a path up a tree or through a graph ends is proved in the same way.

Every property of a passing run is stated by a theorem, except for `Termination` (of the section
walk and of the def-range loop), which is liveness under fairness and needs `ENABLED`.  The
properties of the other runs do not hold.

## 6. Not modelled

The contents of records beyond what the modules above name: `S_COMPILE3`, the bytes of
`EmitCodeviewTypeTable`, the sizes, offsets and access of type records, qualified names.
The operand of `.seh_setframe` on x86_64.  The help text and output to standard output.
DWARF and ELF parsing, which is LLVM's.  The test loader, tests and build files, which are
outside of the program.  Location expressions are a register, the frame base with an
offset, a register with an offset, or something else.

## 7. Plan

Done: the section walk with its assembler (the output is useless without it), the
unwind directives it replays and their four backends, frames, the CodeView tables that
refer to what it defines, the tables of `Load`, and the command line.  Next, in this
order:

1. Composition of the passes with the labels that `.cv_linetable`, `.secrel32` and
   `.cv_loc` name as the shared state: `SectionEmitter` with the functions of `SymbolNames`.
2. Sizes of type records, against the layout DWARF gives.
