SPECIFICATION RSpec
CONSTANTS
  Req = {r1, r2}
  j1 = j1
  Job <- MCJob
  Id <- MCId
  Endpoint <- MCEndpoint
  Expiry <- MCExpiry
  TunnelOf <- MCCloudflared
  Net = {n1}
  NetworkId = n1
  Keyless = {}
  EnvSecrets = FALSE
  KVBound = FALSE
  Ops = {}
  NoExpiry = 0
  NoLine = NoLine
  Absent = Absent
  MinTTL = 1
  DefaultTTL = 2
  Buffer = 1
  MaxTTL = 5
  Rounds = 2
  SetupTime = 1
  Grace = 1
  MeshKeySet = TRUE
  MaxAttempts = 2
  MaxFaults = 2
  Horizon = 6
SYMMETRY Symmetric
CHECK_DEADLOCK FALSE
INVARIANTS RTypeOK ListedWhileRunning NoGhost ServesCurrentAttempt
