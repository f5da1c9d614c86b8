SPECIFICATION Spec
CONSTANTS
    Replicas = {r1, r2}
    Nobody = Nobody
    NumMsgs = 5
    Unrouted = {2}
    Unparsable = {3}
    Untyped = {4}
    Prefetch = 2
    SingleActive = TRUE
    NotifyCap = 1
    DeliveryLimit = 1
    MaxLosses = 2
SYMMETRY ReplicaSymmetry
INVARIANTS TypeOK LeavesForAReason SettlesItsOwn NothingForgotten
INVARIANTS DuplicatesNeedLoss MetricsBalance AckMetricError OneLiveReplicaAtATime
CHECK_DEADLOCK FALSE
