SPECIFICATION Spec
CONSTANTS
  Users = {alice, bob}
  NoOne = nobody
  Ttl = 2
  Limit = 3
  Window = 2
  Block = 2
  RowLife = 4
  MaxTime = 3
  MaxCodes = 2
INVARIANTS
  CodeUsedOnce
  ComparisonsAreBounded
  NewCodeUnblocks
PROPERTIES
  OwnerKeptUntilReplaced
