\* One scheduler that never dies: a general and a voice poller, two enqueuers.
SPECIFICATION FairSpec
CONSTANTS
    p = p  p2 = p2  r = r  u = u  v = v  w1 = w1  w2 = w2
    NoJob = NoJob
    Jobs = {u, v}
    PlanJobs = {}
    RuntimeJobs = {}
    VoiceJobs = {v}
    ZoomCallJobs = {v}
    ReopenFailed = {u}
    ReopenCompleted = {u}
    Workers = {w1, w2}
    Queue <- TwoQueues
    DrainLimit <- TwoLimits
    Callers = {c1, c2}
    MaxAttempts = 2
    MaxReopens = 2
    MaxCrashes = 0
INVARIANTS AllPendingIsClaimable CompletedMeansRun
PROPERTIES EveryJobTerminates
CHECK_DEADLOCK FALSE
