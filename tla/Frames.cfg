CONSTANTS
    ip1 = ip1
    ip2 = ip2
    xip = xip
    gwip = xip
    none = none
    broadcast = broadcast
    m1 = m1
    m2 = m2
    s1 = s1
    s2 = s2
    x = x
    router = x
    all = all
    IP <- MCIP
    MAC <- MCMAC
    NoIP = NoIP
    NoMAC = NoMAC
    NoUser = NoUser
    StaticMAC <- MCStaticMAC
    ETHER_BROADCAST = all
    IPv4_NONE = none
    IPv4_BROADCAST = broadcast
    RouterMAC = x
    GatewayIP = xip
    Machines <- BothMachines
    Dynamic <- OneDynamic
    SiteIP <- OneAndFixed
    InFrames <- InsideFrames
    OutFrames <- OutsideFrames
    IO_BURST = 1
    MaxQueue = 1
    Timeout = 2
    DHCP_TIMEOUT = 1
    StartTime = 2
    MaxTime = 2
    InitAccess = {0}
    AdminOps = {"assignIP"}
    SqlErrors = FALSE
    Crashes = FALSE
SPECIFICATION Spec
INVARIANTS
    CrossingByOwner
    SrcIterValid
