CONSTANTS
  Blocks <- MCBadBlocks
  Targets <- MCTargets
  MaxScan <- MCMaxScan
  NoKey = NoKey
  NoOff = NoOff
SPECIFICATION RangeScanSpec
PROPERTY ScanEnds
CHECK_DEADLOCK FALSE
