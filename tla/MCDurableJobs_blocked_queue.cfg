\* One scheduler that dies once; a planning row shares the queue with a plain one.
SPECIFICATION FairSpec
CONSTANTS
    p = p  p2 = p2  r = r  u = u  v = v  w1 = w1  w2 = w2
    NoJob = NoJob
    Jobs = {p, u}
    PlanJobs = {p}
    RuntimeJobs = {}
    VoiceJobs = {}
    ZoomCallJobs = {}
    ReopenFailed = {u}
    ReopenCompleted = {}
    Workers = {w1}
    Queue <- OneQueue
    DrainLimit <- LimitOne
    Callers = {c1}
    MaxAttempts = 2
    MaxReopens = 1
    MaxCrashes = 1
PROPERTIES RedactedTerminates
CHECK_DEADLOCK FALSE
