\* OR of two predicates that hold for the same row.
CONSTANTS
  Word = 8
  Group = 4
  Requests <- MCOverlapRequests
  Window = 4
  MaxRounds = 9
  NoResult = NoResult
  Rand <- MCRand
  Prf <- MCPrf
SPECIFICATION FairSpec
INVARIANT ExactResult
