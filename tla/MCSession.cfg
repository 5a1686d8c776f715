SPECIFICATION MCSpec
CONSTANTS
  Users = {u1, u2}
  Closers = {c1, c2}
  c1 = c1
  c2 = c2
  cap = cap
  ra = ra
  rb = rb
  rc = rc
  ka = ka
  kc = kc
  h1 = h1
  h2 = h2
  Capabilities <- MCCapabilities
  Registrations <- MCRegistrations
  Heads <- MCHeads
  Keys <- MCKeys
  KeyOf <- MCKeyOf
  CapabilityOf <- MCCapabilityOf
  HeadOf <- MCHeadOf
  MaxDrifts = 2
  NoKey = NoKey
  NoPack = NoPack
  NoOne = NoOne
INVARIANTS SessionInv AnswersAreFresh
PROPERTIES NothingPublishedLate CallsEnd
CHECK_DEADLOCK FALSE
