CONSTANTS
  n1 = n1
  n2 = n2
  NoName = NoName
  Names = {n1, n2}
  MaxSymbols = 3
  Segments <- MCSegments
  Tables <- MCTables
  Globals <- MCGlobals
  NoPath = NoPath
  Programs <- MCPrograms
  Formats <- MCFormats
  Sections <- MCSections
  RelocSegments <- MCRelocSegments
  Slots <- MCSlots
  Words <- MCWords
  Addends <- MCAddends
  RelocSymbols <- MCRelocSymbols
  Narrow = 128
  Wide = 512
  MaxEntries = 2
  Parts = {"names", "lines", "relocations"}
SPECIFICATION LoadSpec
INVARIANTS
  TypesOK
  ReferencesResolve
  LinkageKept
  RowsFaithful
  FilesReadBack
  WordsAsLoaded
CHECK_DEADLOCK FALSE
