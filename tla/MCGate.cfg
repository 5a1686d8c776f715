SPECIFICATION MCSpec
CONSTANTS
  b1 = b1
  b2 = b2
  version = version
  manifest = manifest
  skill = skill
  SKILL = SKILL
  gate = gate
  Readers = {r1}
  Paths = {version, manifest, skill, SKILL, gate}
  Blobs = {b1, b2}
  Commits <- MCCommits
  TreeOf <- MCTreeOf
  ManifestOf <- MCManifestOf
  Registrations <- MCRegistrations
  VersionFile = version
  ManifestFile = manifest
  Fold <- MCFold
  MaxDrifts = 3
  None = None
  Names = {public, other, third}
  Public = public
  MaxMoves = 4
  Hosts = {p1, p2}
  MaxRuns = 2
  MaxLosses = 1
  NoStore = NoStore
  NoBinding = NoBinding
  NoRun = NoRun
SYMMETRY MCSymmetry
INVARIANTS PackSourceInv ScratchInv ToolchainInv SuccessIsDurable WithdrawnForGood
CHECK_DEADLOCK FALSE
