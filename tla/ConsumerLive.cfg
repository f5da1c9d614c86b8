SPECIFICATION FairSpec
CONSTANTS
    Replicas = {r1, r2}
    Nobody = Nobody
    NumMsgs = 3
    Unrouted = {}
    Unparsable = {3}
    Untyped = {}
    Prefetch = 2
    SingleActive = TRUE
    NotifyCap = 1
    DeliveryLimit = 1
    MaxLosses = 2
PROPERTIES PoisonLeaves EveryMessageLeaves
CHECK_DEADLOCK FALSE
