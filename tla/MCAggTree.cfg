\* One client; thirteen entries in a tree of eight leaves.
CONSTANTS
  Depth = 4
  AggFunc = "sum"
  Clients = {c1}
  Entries <- MCEntries
  Queries <- MCQueries
  FirstQuery = 7
  Word = 1024
  Group = 128
  Rand <- MCRand
SPECIFICATION Spec
INVARIANTS TypeOK CopiesAgree SlotFound AggregatesExact RecentLeaves QueryExact
