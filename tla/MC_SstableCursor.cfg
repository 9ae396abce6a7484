CONSTANTS
  Cursors = {c1, c2}
  Tables <- MCTables
  Targets <- MCTargets
  MaxScan <- MCMaxScan
  NoKey = NoKey
  NoOff = NoOff
  BlockCacheCap = 1
SPECIFICATION Spec
INVARIANT PositionAgrees
SYMMETRY CursorSymmetry
