SPECIFICATION TaskSpec
CONSTANTS
  Chars = {"x", " ", "!", "<", ">", "zhong"}
  MaxText = 5
  MergeTables <- OneList
  Specials <- AngleTokens
  AddBos = TRUE
  MaxIds = 4
  MaxPieces = 15
  MapBuffer = 28
  MaxAngle = 4
  Pieces <- IndexPieces
  Lines <- IndexLines
  MaxVocab = 3
  MaxMerges = 2
  FirstCap = 2
  MinCap = 2
  Homes = {0, 1}
  Vocab = 5
  Chunk = 3
  ParallelRows = 3
  MaxTeam = 3
  Scores <- RankedScores
  Tokens = 4
  MaxWeight = 3
  Draws = 7
  Scale = 6
  TopPs = {0, 1, 3, 4, 6, 7}
INVARIANTS
  EncodesText
  EncodesLikeGpt2
  ScansLikeTheRegex
  IndexExact
  GreedyExact
  SamplesNucleus
\* one task
CHECK_DEADLOCK FALSE
