SPECIFICATION MainSpec
CONSTANTS
    Signals <- TwoSignals
    MaxSignals = 2
    MaxRuns = 1
    MYSQL_RETRY_COUNT = 2
    NormalFlags = "normal"
    GatewayFlags = "promiscuous"
    NormalMTU = 9000
    MY_MTU = 1500
    MaxArgs = 7
    MayRepeat = {}
    Timeouts = {500}
PROPERTY SignalEndsProcess
CHECK_DEADLOCK FALSE
