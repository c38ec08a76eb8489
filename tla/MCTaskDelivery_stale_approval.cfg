SPECIFICATION Spec
CONSTANTS
    w1 = w1
    w2 = w2
    d1 = d1
    d2 = d2
    NoDraft = NoDraft
    Workers = {w1}
    Drafts = {d1, d2}
    Staged = FALSE
    MaxAttempts = 2
    MaxRuns = 1
    MaxFaults = 0
SYMMETRY Symmetric
INVARIANT SendIsApproved
