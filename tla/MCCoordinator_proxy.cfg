SPECIFICATION HSpec
CONSTANTS
  Req = {r1, r2}
  Id = {a, b}
  Net = {n1}
  NetworkId = n1
  Endpoint = {e1, e2}
  Keyless = {}
  EnvSecrets = FALSE
  KVBound = FALSE
  Ops = {"register", "heartbeat", "delete", "sub"}
  Expiry = {}
  NoExpiry = 0
  MinTTL = 1
  DefaultTTL = 1
  Buffer = 1
  MaxTTL = 2
  Horizon = 2
  Absent = Absent
SYMMETRY Symmetric
INVARIANTS TypeOK ServedWasRegistered LatestWins
PROPERTY ImplementsRegistry
