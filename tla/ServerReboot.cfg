SPECIFICATION FairSpec
CONSTANTS
  Users = {alice, bob}
  NoOne = nobody
  Ttl = 0
  CompletionMax = 0
  MaxAttempts = 2
  MaxTime = 1
  MaxPhrases = 2
  MaxBoots = 2
  MaxFaults = 2
  MaxOwnerChanges = 2
INVARIANTS
  OrderedAfterTheRecord
  CompletionRepeatsOnlyIfCutOff
PROPERTIES
  CompletionNotLost
  RebootsByGrant
  CompletionSettled
