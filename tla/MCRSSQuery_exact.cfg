\* Every handler, with the randomness of one seed.
CONSTANTS
  Word = 8
  Group = 4
  Requests <- MCRequests
  Window = 4
  MaxRounds = 9
  NoResult = NoResult
  Rand <- MCRand
  Prf <- MCPrf
SPECIFICATION FairSpec
INVARIANTS TypeOK Replicated MasksCancel
PROPERTIES ImplementsAggregate
