SPECIFICATION Spec
CONSTANTS
    p1 = p1
    p2 = p2
    Peer <- MCPeer
    Key <- MCKey
    Swarms <- MCSwarms
    Plans <- MCPlans
    PeerChecks <- MCPeerChecks
    SimResults <- MCSimResults
    TunnelResults <- MCTunnelResults
    Ttl = 1
    Horizon = 2
    MaxChanges = 1
    MaxFaults = 1
    FaultAt = {0, 2}
    Threshold = 50
    HardSkew = 1
    SoftSkew = 2
    Absent = Absent
    Unreadable = Unreadable
    None = None
    Missing = Missing
INVARIANTS TypeOK GhostWasDead OrphansOnlyGrow OrphanIsGhost HardIsFresh ReplayReproduces DemoClean
CHECK_DEADLOCK FALSE
