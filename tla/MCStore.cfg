SPECIFICATION StoreSpec
CONSTANTS
  Callers = {p1, p2, p3}
  NoJournal = NoJournal
  NoHolder = NoHolder
INVARIANTS StoreInv
PROPERTIES ImplementsLog LockReleased
