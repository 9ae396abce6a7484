CONSTANTS
  Keys <- MCKeys
  Scores <- MCScores
  Deltas <- MCDeltas
  Nodes <- MCNodes
  NoNode = NoNode
  NoKey = NoKey
  NoScore = NoScore
  MaxBatch = 2
  CallerChecksAbsent = TRUE
SPECIFICATION SpecWithEraseKey
INVARIANT DictListAgree
