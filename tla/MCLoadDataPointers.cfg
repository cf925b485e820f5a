CONSTANTS
  n1 = n1
  n2 = n2
  NoName = NoName
  Names = {n1, n2}
  MaxSymbols = 0
  Segments <- MCSegments
  Tables <- MCTables
  Globals <- MCGlobals
  NoPath = NoPath
  Programs <- MCPrograms
  Formats <- MCFormats
  Sections <- MCSections
  RelocSegments <- MCRelocSegments
  Slots <- MCSlots
  Words <- MCWords
  Addends <- MCAddends
  RelocSymbols <- MCRelocSymbols
  Narrow = 128
  Wide = 512
  MaxEntries = 2
  Parts = {"relocations"}
SPECIFICATION LoadSpec
INVARIANTS
  DataPointersRelocated
CHECK_DEADLOCK FALSE
