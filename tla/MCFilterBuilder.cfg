\* Four blocks of four buckets.
CONSTANTS
  BlockNum = 4
  BlockSize = 4
  Requests <- MCRequests
SPECIFICATION Spec
INVARIANTS TypeOK LeavesDisjoint LeavesExact WritesInside
