\* Two queries of one client; handlers may throw, one call may fail or be lost.
CONSTANTS
  NumServers = 3
  Queries = {1, 2}
  Rounds = 2
  Reshares = {}
  Checked = {1, 2}
  Refusers <- MCRefusers
  MaxFailures = 1
  MaxFaults = 1
  NoMsg = NoMsg
  NoResult = NoResult
SPECIFICATION LifecycleFairSpec
INVARIANTS AllOrNothing OwnVectors CleanBetween NoDuplicate NoLostWakeup
PROPERTY EventuallyReturned
CHECK_DEADLOCK FALSE
