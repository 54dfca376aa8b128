SPECIFICATION Spec
CONSTANTS
  t1 = t1
  t2 = t2
  Thread <- MCThread
  Backends <- MCBackends
  Batches <- MCBatches
  PromptSizes <- MCPromptSizes
  OptionSets <- MCOptionSets
  Token <- MCToken
  EndToken = "end"
  Piece <- MCPiece
  MaxContext = 4
  DecodeBatch = 2
  MaxBatch = 2
  None = None
SYMMETRY MCSymmetry
INVARIANTS
  AnswersMatchPrompts
  ContextFollowsHistory
  StopWordsEndText
  AnswerIsWhole
