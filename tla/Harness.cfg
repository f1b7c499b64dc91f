SPECIFICATION Spec
CONSTANTS
    NodeCount = 3
    Doomed = 2
    MaxPolls = 2
    MaxDrops = 1
INVARIANTS TypeOK SuccessIsConnected GreenIsListed NoStaleSuccess AnnouncedStaysBuried
PROPERTY HarnessEnds
CHECK_DEADLOCK FALSE
