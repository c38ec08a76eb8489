SPECIFICATION FairSpec
CONSTANTS
    s1 = s1
    s2 = s2
    Senders = {s1, s2}
    MaxMessages = 2
    MaxFaults = 1
INVARIANTS TypeOK OneDispatchPerKey ClaimsAreTrue UnknownBlocksTheTask CancelledMeansUnsent
PROPERTIES SettledStays SubmissionIsAccountedFor
CHECK_DEADLOCK FALSE
