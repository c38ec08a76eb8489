SPECIFICATION Spec
CONSTANTS
    w1 = w1
    w2 = w2
    d1 = d1
    d2 = d2
    NoDraft = NoDraft
    Workers = {w1, w2}
    Drafts = {d1, d2}
    Staged = FALSE
    MaxAttempts = 2
    MaxRuns = 2
    MaxFaults = 1
SYMMETRY Symmetric
INVARIANT TypeOK
INVARIANT OneMessagePerApproval
INVARIANT RecordIsTruthful
INVARIANT SwitchIsObeyed
PROPERTY ApprovalIsRecorded
PROPERTY WordIsKept
