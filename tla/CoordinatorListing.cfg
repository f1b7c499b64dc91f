SPECIFICATION LFairSpec
CONSTANTS
  Req = {r1, r2}
  Id = {a, b}
  Net = {n1}
  NetworkId = Absent
  Endpoint = {e1, k1}
  Keyless = {k1}
  EnvSecrets = FALSE
  KVBound = FALSE
  Ops = {"register", "delete", "subAll"}
  Expiry = {}
  NoExpiry = 0
  MinTTL = 1
  DefaultTTL = 1
  Buffer = 1
  MaxTTL = 2
  Horizon = 2
  Absent = Absent
INVARIANTS ListSound ListComplete
PROPERTY Answered
