SPECIFICATION Spec
CONSTANTS
  Req = {r1, r2}
  Id = {a}
  Net = {n1}
  NetworkId = Absent
  Endpoint = {e1}
  Keyless = {}
  EnvSecrets = FALSE
  KVBound = FALSE
  Ops = {"meshRegister"}
  Expiry = {2}
  NoExpiry = 0
  MinTTL = 1
  DefaultTTL = 1
  Buffer = 1
  MaxTTL = 2
  Horizon = 2
  Absent = Absent
PROPERTY ValidRecordAccepted
