SPECIFICATION Spec
CONSTANTS
  Requests <- LifecycleRequests
  Lanes = {"l1", "l2"}
  Identities = {d1, d2, d3}
  Fingerprints = {"f1", "f2"}
  DevelopmentAllowed = {"f1"}
  Heads = {"h1", "h2"}
  Paths = {}
  Candidates = {c1, c2}
  NoCandidate = NoCandidate
  NextStates <- LifecycleStates
  NoKey = NoKey
  MaxReceipts = 7
VIEW WithoutReply
SYMMETRY IdentitySymmetry
INVARIANTS ReviewedCandidateIsIntegrated
PROPERTIES DriftOnlyRevokes
