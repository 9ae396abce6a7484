CONSTANTS
  Cursors = {c1}
  Tables <- MCIntactTables
  Targets <- MCTargets
  MaxScan <- MCMaxScan
  NoKey = NoKey
  NoOff = NoOff
  BlockCacheCap = 1
SPECIFICATION ScanSpec
PROPERTY ScanYieldsTable
CHECK_DEADLOCK FALSE
