SPECIFICATION FileSpec
CONSTANTS
  Documents <- OneArtifact
  Absolute = {"/m.gguf"}
  TooLong = {"long.gguf"}
  EntryLists <- ScaledFiles
  TensorLists <- Tables
  Occurs <- Names
  TextRoom = 4
  LongString = 6
  MaxU32 = 9
  DataAlign = 8
  SizeMax = 4095
  Float = 4
  MB = 64
  Chunk = 64
  ScratchSeq = 1
  DefaultWindow = 2
  Models <- BudgetModels
  Memories = {0, 10, 17, 48}
  MaxSteps = 6
  Alphabet <- AllSymbols
  Templates <- SmallTemplates
  Conversations <- Talks
  Sizes = {2, 5, 32}
  SystemSize = 5
INVARIANT ContextIsTheModels
\* one file
CHECK_DEADLOCK FALSE
