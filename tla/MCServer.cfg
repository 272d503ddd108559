SPECIFICATION FairSpec
CONSTANTS
  Buffer = 10
  MaxMessages = 2
  Backlog = 2
  Clients = {c1, c2}
  Requests <- AllRequests
  Index <- Tokens
  SigPipe = TRUE
INVARIANTS ChunkingIrrelevant AsksLeadingMessages StreamTellsGeneration
PROPERTIES ImplementsEventStream WaitingIsServed
CHECK_DEADLOCK FALSE
