SPECIFICATION InboxSpec
CONSTANTS
  Callers = {p1, p2}
  a1 = a1
  a2 = a2
  b1 = b1
  ka = ka
  kb = kb
  Requests <- MCRequests
  Keys <- MCKeys
  KeyOf <- MCKeyOf
  ScanLimit = 1
  NoCaller = NoCaller
  NoRequest = NoRequest
  NoFile = NoFile
  Junk = Junk
INVARIANTS InboxInv ReadersSeeSnapshot
PROPERTIES InboxUnlocked
