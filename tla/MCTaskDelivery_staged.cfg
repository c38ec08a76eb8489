SPECIFICATION Spec
CONSTANTS
    w1 = w1
    w2 = w2
    d1 = d1
    d2 = d2
    NoDraft = NoDraft
    Workers = {w1}
    Drafts = {d1, d2}
    Staged = TRUE
    MaxAttempts = 2
    MaxRuns = 3
    MaxFaults = 1
SYMMETRY Symmetric
INVARIANTS StagedTextWasReviewed DuplicatesAcknowledged
