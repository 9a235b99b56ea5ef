SPECIFICATION MainSpec
CONSTANTS
    Signals <- TwoSignals
    MaxSignals = 2
    MaxRuns = 2
    MYSQL_RETRY_COUNT = 2
    NormalFlags = "normal"
    GatewayFlags = "promiscuous"
    NormalMTU = 9000
    MY_MTU = 1500
    MaxArgs = 8
    MayRepeat = {"dns"}
    Timeouts = {500}
INVARIANTS TypeOK ThreadsUseLiveObjects FlagsRestored StartsWhenComplete
PROPERTY TerminationIsKept
CHECK_DEADLOCK FALSE
