CONSTANTS
  Blocks <- MCValidBlocks
  Targets <- MCTargets
  MaxScan <- MCMaxScan
  NoKey = NoKey
  NoOff = NoOff
SPECIFICATION ScanSpec
PROPERTY ScanYieldsBlock
CHECK_DEADLOCK FALSE
