SPECIFICATION Spec
CONSTANTS
  Kinds <- MCKinds
  Window = 2
  Chunk = 1
  MaxOps = 4
INVARIANT TypeOK
INVARIANT DamageContained
\* The client stops after MaxOps operations.
CHECK_DEADLOCK FALSE
