SPECIFICATION Spec
CONSTANTS
    Services <- OneService
    Queues = {"q1", "q2"}
    Overlaps <- SameKey
    DefaultPrefetch = 20
    ChannelMax = 4
    MaxStarts = 1
INVARIANTS OptionsTakeEffect
CHECK_DEADLOCK FALSE
