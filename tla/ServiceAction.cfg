SPECIFICATION Spec
CONSTANTS
  Users = {alice, bob}
  NoOne = nobody
  Ttl = 1
  MaxApprovals = 1
  MaxAttempts = 2
  MaxTime = 2
  MaxTokens = 2
  MaxFaults = 2
  MaxOwnerChanges = 2
INVARIANTS
  RunsOnlyInTime
PROPERTIES
  AcceptedFromTheOwner
  LiveApprovalsKept
  RestartsByGrant
