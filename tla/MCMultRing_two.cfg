\* Two queries at the same time on three servers, one exchange each.
CONSTANTS
  NumServers = 3
  Queries = {q1, q2}
  Rounds = 1
  Reshares <- MCReshares
  MaxFailures = 0
  NoMsg = NoMsg
SPECIFICATION FairSpec
INVARIANTS Conservation NoLostWakeup
PROPERTY Termination
