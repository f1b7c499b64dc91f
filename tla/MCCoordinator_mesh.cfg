SPECIFICATION HSpec
CONSTANTS
  Req = {r1, r2}
  Id = {a}
  Net = {n1}
  NetworkId = n1
  Endpoint = {e1}
  Keyless = {}
  EnvSecrets = TRUE
  KVBound = TRUE
  Ops = {"register", "heartbeat", "proxies", "meshRegister", "meshHeartbeat",
         "meshDeregister", "meshStatus"}
  Expiry = {2}
  NoExpiry = 0
  MinTTL = 1
  DefaultTTL = 1
  Buffer = 1
  MaxTTL = 2
  Horizon = 2
  Absent = Absent
SYMMETRY Symmetric
INVARIANTS MeshLease ProxyLease LatestWins
PROPERTY ImplementsRegistry
