\* Keys of three kinds, trees of three levels, all windows.
CONSTANTS
  Depth = 3
  SeedBits = {1, 2}
  RootSeeds <- MCRootSeeds
  Expand <- MCExpand
  ValueOf <- MCValueOf
  Convert <- MCConvert
  Modulus = 8
  Kinds = {"dpf", "lt", "gt"}
  Payloads = {3}
  NoResult = NoResult
SPECIFICATION WindowSpec
INVARIANTS TypeOK SharesExact SlotExact WindowFilled KeyInv
