CONSTANTS
  Fibres = {f1, f2}
  Paths = {p1, p2}
  Offsets <- MCOffsets
  FilterNames <- MCFilterNames
  Policies <- MCPolicies
  NoPolicy = NoPolicy
  FileChoices <- MCFileChoices
  NoTable = NoTable
  NoBlock = NoBlock
  NoEntry = NoEntry
  TableCacheCap = 1
  BlockCacheCap = 1
SPECIFICATION FairSpec
INVARIANT TypeOK
INVARIANT CacheHoldsOnlyCompleteTables
PROPERTY OpenCompletes
