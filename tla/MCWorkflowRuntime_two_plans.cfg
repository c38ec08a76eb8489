\* Two workers; the submission and two resumes or reconciliations; two faults.
SPECIFICATION FairSpec
CONSTANTS
    w1 = w1
    w2 = w2
    Length = 2
    Plans <- TwoPlans
    Workers = {w1, w2}
    MaxJobs = 3
    MaxAttempts = 2
    MaxFaults = 2
INVARIANTS TypeOK OneUploadPerDraft UploadsLeaveATrace
INVARIANTS UncertainWriteHoldsTheRun EvidenceBeforeNext
PROPERTIES CancelStopsTheRun GuardsNeverRefuse RunSettles
CHECK_DEADLOCK FALSE
