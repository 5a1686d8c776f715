SPECIFICATION Spec
CONSTANTS
  Requests <- RecoveryRequests
  Lanes = {"l1", "l2"}
  Identities = {d1, d2}
  Fingerprints = {"f1"}
  DevelopmentAllowed = {"f1"}
  Heads = {"h1"}
  Paths <- RecoveryPaths
  Candidates = {}
  NoCandidate = NoCandidate
  NextStates = {"ACTIVE"}
  NoKey = NoKey
  MaxReceipts = 5
INVARIANT RecoveryReleasesCapacity
