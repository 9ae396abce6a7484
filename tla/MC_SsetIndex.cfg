CONSTANTS
  Keys <- MCKeys
  Scores <- MCScoresSmall
  Deltas <- MCDeltas
  Nodes <- MCNodes
  NoNode = NoNode
  NoKey = NoKey
  NoScore = NoScore
  MaxBatch = 2
  CallerChecksAbsent = TRUE
SPECIFICATION Spec
INVARIANT TypeOK
INVARIANT DictListAgree
INVARIANT ListInScoreOrder
INVARIANT QueriesAgree
PROPERTY SortedSetSpec
