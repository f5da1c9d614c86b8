SPECIFICATION Spec
CONSTANTS
    Callers = {c1, c2}
    NoCaller = NoCaller
    Cancellable = {c1}
    Modes = {"confirm"}
    ConfirmCap = 1
    Faults = {}
    MaxMsgs = 3
INVARIANTS NilMeansAcked
