SPECIFICATION Spec
CONSTANTS
    s1 = s1
    s2 = s2
    Senders = {s1}
    MaxMessages = 2
    MaxFaults = 1
PROPERTY ReplacementAfterKnownOutcome
CHECK_DEADLOCK FALSE
