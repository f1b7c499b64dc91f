SPECIFICATION Spec
CONSTANTS
  Again = {"r1", "r2"}
  Duration = {2, 6, 8}
  Lag = 1
  MaxFail = 1
  Latency <- MCLatency
  After <- MCAfter
  MaxDelay = 13
  NaN = NaN
  Absent = Absent
CHECK_DEADLOCK FALSE
INVARIANTS TypeOK ReconnectionEnds CliVerdict
PROPERTIES QuietAfterClose TunnelEnds
