SPECIFICATION FairSpec
CONSTANTS
    Services <- AllServices
    Queues = {"q1", "q2"}
    Overlaps <- SameKey
    DefaultPrefetch = 20
    ChannelMax = 6
    MaxStarts = 3
INVARIANTS TypeOK OneLoopPerQueue StartedConsumesAll HandlersBeforeDeliveries BrokenServiceNeverConsumes PanicNeedsRepeat
PROPERTIES ClosedConnectionStops StartReturns LossIsNoticed
CHECK_DEADLOCK FALSE
