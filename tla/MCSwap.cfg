SPECIFICATION SwapSpec
CONSTANTS
  Builds = {b1, b2, b3}
  NoBuild = NoBuild
  NoTree = NoTree
  NoPack = NoPack
  NoJournal = NoJournal
  Sources = {s1, s2}
  MaxDrift = 2
CHECK_DEADLOCK FALSE
INVARIANTS PublishedPackIntact RecoveryAccepts PublishedUnderItsSources
PROPERTIES ImplementsSlot
