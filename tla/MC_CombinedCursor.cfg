CONSTANTS
  TableSets <- MCTableSets
  Targets <- MCTargets
  MaxPending = 2
SPECIFICATION Spec
INVARIANT CurrentIsSmallest
