------------------------------- MODULE MCTunnel -------------------------------
EXTENDS TunnelCli

\* A negative latency, none, and the longest of randomLatency.
MCLatency == {-1, 0, 12}

\* A negative delay, none, the longest for which the wait is in the range of
\* setTimeout, and one for which it is not.
MCAfter == {-8, 0, MaxDelay - 10, MaxDelay - 9}
=============================================================================
