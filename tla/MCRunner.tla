------------------------------- MODULE MCRunner -------------------------------
EXTENDS Runner, TLC

CONSTANTS j1

\* The endpoints, ids and expiries of one run of the workflow.
MCJob == {j1}
MCEndpoint == [job : {j1}, attempt : 1..MaxAttempts, transport : {"ws", "tcp"}]
MCId == {j1} \cup ({j1} \X (1..MaxAttempts))
MCExpiry == Life .. (Horizon + Life)
MCCloudflared == [j \in {j1} |-> "trycloudflare"]
MCServeo == [j \in {j1} |-> "serveo"]

\* Request slots are interchangeable.
Symmetric == Permutations(Req)
=============================================================================
