CONSTANTS
    Calls = {c1, c2}
    MaxAttempts = 2
    MaxThreshold = 2
SPECIFICATION Spec
INVARIANTS RetriedWriteIsIdempotent
