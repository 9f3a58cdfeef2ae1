\* A second begins while the keys of a condition are generated.
CONSTANTS
  Word = 8
  Group = 4
  Requests <- MCTickRequests
  Window = 4
  MaxRounds = 9
  NoResult = NoResult
  Rand <- MCRand
  Prf <- MCPrf
SPECIFICATION FairSpec
INVARIANT ExactResult
