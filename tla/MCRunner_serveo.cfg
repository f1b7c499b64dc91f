SPECIFICATION RSpec
CONSTANTS
  Req = {r1, r2}
  j1 = j1
  Job <- MCJob
  Id <- MCId
  Endpoint <- MCEndpoint
  Expiry <- MCExpiry
  TunnelOf <- MCServeo
  Net = {n1}
  NetworkId = n1
  Keyless = {}
  EnvSecrets = FALSE
  KVBound = FALSE
  Ops = {}
  NoExpiry = 0
  NoLine = NoLine
  Absent = Absent
  MinTTL = 1
  DefaultTTL = 2
  Buffer = 1
  MaxTTL = 5
  Rounds = 2
  SetupTime = 1
  Grace = 1
  MeshKeySet = FALSE
  MaxAttempts = 1
  MaxFaults = 1
  Horizon = 8
SYMMETRY Symmetric
CHECK_DEADLOCK FALSE
INVARIANTS HttpNeedsWebSocket
