SPECIFICATION Spec
CONSTANTS
  Requests <- AdmissionRequests
  Lanes = {"l1", "l2", "l3"}
  Identities = {d1, d2, d3, d4}
  Fingerprints = {"f1"}
  DevelopmentAllowed = {"f1"}
  Heads = {"h1"}
  Paths <- AdmissionPaths
  Candidates = {}
  NoCandidate = NoCandidate
  NextStates = {"CANCELLED"}
  NoKey = NoKey
  MaxReceipts = 5
VIEW WithoutReply
SYMMETRY IdentitySymmetry
INVARIANTS TokensFenced CapacityBound ActiveLanesExclusive ActiveFootprintsDisjoint
