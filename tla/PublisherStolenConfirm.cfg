SPECIFICATION FairSpec
CONSTANTS
    Callers = {c1, c2}
    NoCaller = NoCaller
    Cancellable = {}
    Modes = {"monitored"}
    ConfirmCap = 1
    Faults = {}
    MaxMsgs = 3
PROPERTIES MonitorIsHarmless
CHECK_DEADLOCK FALSE
