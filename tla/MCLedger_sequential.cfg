SPECIFICATION Spec
CONSTANTS
  Instance = {i1, i2}
  EventId = {e1, e2, e3, e4}
  Content <- MCContent
  Correction <- MCCorrection
  Concurrent = FALSE
  WriteFaults = {"lost", "torn", "unended"}
  AllowReset = TRUE
  None = None
  n1 = n1
  sim = sim
  ghost = ghost
  ledger = ledger
  run1 = run1
SYMMETRY Symmetric
CHECK_DEADLOCK FALSE
INVARIANTS TypeOK ClockOrder CacheComplete AckedIfReadable
INVARIANTS CausalDAG
PROPERTY ImplementsLog
