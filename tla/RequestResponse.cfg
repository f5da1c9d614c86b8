SPECIFICATION FairSpec
CONSTANTS
    Replicas = {r1, r2}
    Nobody = Nobody
    NumMsgs = 3
    Prefetch = 2
    SingleActive = TRUE
    NotifyCap = 0
    DeliveryLimit = 1
    MaxLosses = 1
    Service = "s"
    Batches <- MCBatches
    Listening = {"a", "b"}
    Claims = {3}
    LegacySupport = TRUE
INVARIANTS AckedMeansAnswered RepeatsNeedLoss AnswersGoHome IdIsKept
PROPERTIES EveryRequestAnswered
CHECK_DEADLOCK FALSE
