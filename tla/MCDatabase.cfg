CONSTANTS
  Catalogs <- TheCatalogs
  Filters <- TheFilters
  MaxDdl = 1
  Conn = connection
  Statements = {s1}
  OptionValues <- TheValues
  MaxDelay = 3
  MaxSeconds = 16
  MaxU32 = 3
  MaxI64 = 14
  Exact = 4
  MaxStaleness = 8
  FirstTime = 1
  Now <- TheNow
  MaxSets = 2
  Chars <- TheChars
  MaxPattern = 4
  MaxValue = 3
SPECIFICATION MCSpec
INVARIANTS
  ConnectsAsConfigured
  OptionsMeanWhatTheySay
  OptionsShared
  OneSnapshot
  FiltersAgree
PROPERTY OptionsApplyWhole
