CONSTANTS
  Blocks <- MCValidBlocks
  Targets <- MCTargets
  MaxScan <- MCMaxScan
  NoKey = NoKey
  NoOff = NoOff
SPECIFICATION Spec
PROPERTY CursorSpec
