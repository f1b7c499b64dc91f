----------------------------- MODULE MCPipeline -----------------------------
EXTENDS Pipeline

CONSTANTS p1, p2

MCPeer == {p1, p2}
MCKey == {<<p1, "vless">>, <<p1, "hysteria2">>, <<p2, "vless">>}

\* The record of p1 is about to expire.
MCSwarms ==
    {[records |-> [k \in MCKey |-> IF k = <<p2, "vless">> THEN r ELSE 1],
      graves |-> {p2}] : r \in {Unreadable, 0}}

MCPlans ==
    {<<{"bootstrap", "ghost", "keyspace"}, {"sim"}>>,
     <<{"sim", "ghost"}, {"bootstrap"}>>,
     <<{"sim", "tunnel"}, {"bootstrap", "sim", "tunnel"}>>,
     <<{"bootstrap", "keyspace"}, {"demo"}>>,
     <<{"bootstrap", "spec"}, {"demo"}, {"tunnel"}>>,
     <<{"demo"}, {"bootstrap", "sim", "tunnel"}>>}

\* None configured; none, half, and less than half of them reachable.
MCPeerChecks == {<<0, 0, 0>>, <<0, 2, 0>>, <<2, 3, 1>>, <<5, 0, 2>>}

MCSimResults ==
    {[exit_code |-> 0, node_count |-> 3, peers_discovered |-> <<2, 2, 2>>],
     [exit_code |-> 1, node_count |-> 1, peers_discovered |-> <<0>>],
     [exit_code |-> 1, node_count |-> 0, peers_discovered |-> <<>>]}

MCTunnelResults ==
    {[status |-> st, provider |-> "bore", host |-> None, port |-> None] :
        st \in {"ready", "failed"}}
=============================================================================
