SPECIFICATION MCSpec
CONSTANTS
  Processes = {p1, p2}
  p1 = p1
  p2 = p2
  a = a
  b = b
  twin = twin
  seed = seed
  update = update
  broaden = broaden
  narrow = narrow
  create = create
  supersede = supersede
  spoil = spoil
  stray = stray
  check = check
  x1 = x1
  r1 = r1
  r2 = r2
  Experiences = {x1}
  Candidates = {seed, update, broaden, narrow, create, supersede, spoil, stray}
  Ids = {a, b, twin}
  DirectoryOf <- MCDirectoryOf
  Evals = {check}
  Results <- MCResults
  Seeds = {seed}
  Proposals <- MCProposals
  EvalTarget <- MCEvalTarget
  Keys = {"runtime"}
  Values = {r1, r2}
  MaxKills = 1
  MaxCalls = 5
  MaxTogether = 4
  Absent = Absent
  None = None
  Torn = Torn
  Empty = Empty
INVARIANTS LearningInv PromotedWereReady SequentialLibraryAuthorised
CHECK_DEADLOCK FALSE
