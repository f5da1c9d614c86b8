SPECIFICATION Spec
CONSTANTS
    Callers = {c1, c2, c3}
    NoCaller = NoCaller
    Cancellable = {c1, c2, c3}
    Modes = {"confirm", "monitored", "none", "both"}
    ConfirmCap = 1
    Faults = {"graceful", "abnormal"}
    MaxMsgs = 4
SYMMETRY CallerSymmetry
INVARIANTS TypeOK HonestUntilAbandoned StallNeedsAbandons
PROPERTIES ReadsLag ImplementsContract
