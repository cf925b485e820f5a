CONSTANTS
  Programs <- MCPrograms
  Images <- MCImages
  Addresses <- MCAddresses
  Archs = {"x86_64", "x86"}
  RangeSets <- MCRangeSets
  RowAddresses <- MCRowAddresses
  Files <- MCFiles
  RowLines <- MCRowLines
  Calls <- MCCalls
  MaxDefRange = 3
  LengthValues = 4
  MaxRows = 3
  MaxEntries = 4
  Parts = {"scopes"}
SPECIFICATION LocalsSpec
INVARIANTS
  LabelsUnique
CHECK_DEADLOCK FALSE
