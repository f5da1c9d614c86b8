SPECIFICATION Spec
CONSTANTS
    Replicas = {r1, r2}
    Nobody = Nobody
    NumMsgs = 2
    Unrouted = {}
    Unparsable = {}
    Untyped = {}
    Prefetch = 2
    SingleActive = TRUE
    NotifyCap = 1
    DeliveryLimit = 1
    MaxLosses = 0
INVARIANTS OrderedProcessing
CHECK_DEADLOCK FALSE
