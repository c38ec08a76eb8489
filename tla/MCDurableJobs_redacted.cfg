\* Two schedulers, a planning row and a workflow_run row, two deaths.
SPECIFICATION FairSpec
CONSTANTS
    p = p  p2 = p2  r = r  u = u  v = v  w1 = w1  w2 = w2
    NoJob = NoJob
    Jobs = {p, r}
    PlanJobs = {p}
    RuntimeJobs = {r}
    VoiceJobs = {}
    ZoomCallJobs = {}
    ReopenFailed = {}
    ReopenCompleted = {}
    Workers = {w1, w2}
    Queue <- OneQueue
    DrainLimit <- LimitOne
    Callers = {}
    MaxAttempts = 2
    MaxReopens = 0
    MaxCrashes = 2
INVARIANTS TypeOK PlanExactlyOnce RedactedPendingIsClaimable
PROPERTIES RedactedLeaseHeld ContractKept RedactedTerminates 
CHECK_DEADLOCK FALSE
