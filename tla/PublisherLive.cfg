SPECIFICATION FairSpec
CONSTANTS
    Callers = {c1, c2}
    NoCaller = NoCaller
    Cancellable = {c1, c2}
    Modes = {"confirm", "none"}
    ConfirmCap = 1
    Faults = {"graceful", "abnormal"}
    MaxMsgs = 3
PROPERTIES DeadlinesReturn AnswersReturn
