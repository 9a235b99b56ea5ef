CONSTANTS
    t1 = t1
    t2 = t2
    loop = loop
    r1 = r1
    r2 = r2
    Producers <- MCProducers
    Data <- MCData
    Consumer = loop
    NoThread = NoThread
    FDMax = 4
    MaxSends = 4
SPECIFICATION FairSpec
INVARIANTS
    QueueSafe
    IInv
PROPERTIES
    ChannelSpec
    ChannelLive
