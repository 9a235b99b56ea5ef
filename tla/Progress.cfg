CONSTANTS
    ip1 = ip1
    ip2 = ip2
    xip = xip
    gwip = xip
    none = xip
    broadcast = xip
    m1 = m1
    m2 = m2
    s1 = s1
    s2 = s2
    x = x
    router = x
    all = x
    IP <- MCIP
    MAC <- MCMAC
    NoIP = NoIP
    NoMAC = NoMAC
    NoUser = NoUser
    StaticMAC <- MCStaticMAC
    ETHER_BROADCAST = x
    IPv4_NONE = xip
    IPv4_BROADCAST = xip
    RouterMAC = x
    GatewayIP = xip
    Machines <- BothMachines
    Dynamic <- OneAndFixed
    SiteIP <- OneAndFixed
    InFrames <- BusyFrames
    OutFrames = {}
    IO_BURST = 1
    MaxQueue = 1
    Timeout = 2
    DHCP_TIMEOUT = 1
    StartTime = 2
    MaxTime = 2
    InitAccess = {0}
    AdminOps = {}
    SqlErrors = FALSE
    Crashes = FALSE
SPECIFICATION FairSpec
PROPERTIES
    DHCPAnswered
    GrantInstalled
