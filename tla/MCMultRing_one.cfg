\* One query of four exchanges on three servers.
CONSTANTS
  NumServers = 3
  Queries = {q1}
  Rounds = 4
  Reshares <- MCReshares
  MaxFailures = 0
  NoMsg = NoMsg
SPECIFICATION FairSpec
INVARIANTS TypeOK RoundMatch NeighbourSkew IInv
PROPERTY ImplementsExchange
