CONSTANTS
    ip1 = ip1
    ip2 = xip
    xip = xip
    gwip = xip
    none = xip
    broadcast = xip
    m1 = m1
    m2 = m2
    s1 = s1
    s2 = x
    x = x
    router = x
    all = x
    IP <- MCIP
    MAC <- MCMAC
    NoIP = NoIP
    NoMAC = NoMAC
    NoUser = NoUser
    StaticMAC <- MCStaticMAC
    ETHER_BROADCAST = x
    IPv4_NONE = xip
    IPv4_BROADCAST = xip
    RouterMAC = x
    GatewayIP = xip
    Machines <- BothMachines
    Dynamic <- OneDynamic
    SiteIP <- OneDynamic
    InFrames <- LeaseFrames
    OutFrames = {}
    IO_BURST = 1
    MaxQueue = 1
    Timeout = 1
    DHCP_TIMEOUT = 1
    StartTime = 2
    MaxTime = 2
    InitAccess = {0}
    AdminOps = {"removeUser"}
    SqlErrors = FALSE
    Crashes = FALSE
SPECIFICATION Spec
PROPERTY
    RemovedUserIsGone
