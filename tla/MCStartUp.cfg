\* One retry, one exit, then a query whose vectors exceed the buffers.
CONSTANTS
  Retries = 1
  MaxExits = 1
  NoKey = NoKey
  Rounds = 3
  Size <- MCSize
  Capacity = 2
SPECIFICATION FairSpec
INVARIANTS KeyReachesPeer StartedIsReady
PROPERTIES EventuallyStarted EmpImplementsExchange EventuallyAnswered
CHECK_DEADLOCK FALSE
