SPECIFICATION Spec
CONSTANTS
    Attempts = {a1, a2, a3}
    Keys = {k1, k2}
    Threads = {t1, t2}
    Generations = {1}
    ClaimCount = 1
    MaxUint64 = 6
    MaxClaimEntries = 1
    ProducerOutcomes = {"claim_succeeded"}
    MaxRetainedAttempts = 2
    MaxRetainedClaimEntries = 2
    AuditTombstoneLimit = 2
    MaxCrashes = 0
    NoAttempt = NoAttempt
    NoThread = NoThread
    NoKey = NoKey
INVARIANT
    RetryIsAcceptable
SYMMETRY Symmetry
CHECK_DEADLOCK FALSE
