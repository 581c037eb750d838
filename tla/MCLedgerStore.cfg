SPECIFICATION Spec
CONSTANTS
    Attempts = {a1, a2}
    Keys = {k1, k2}
    Threads = {t1, t2}
    Generations = {1, 2}
    ClaimCount = 1
    MaxUint64 = 5
    MaxClaimEntries = 1
    ProducerOutcomes = {"claim_succeeded"}
    MaxRetainedAttempts = 2
    MaxRetainedClaimEntries = 2
    AuditTombstoneLimit = 2
    MaxCrashes = 1
    NoAttempt = NoAttempt
    NoThread = NoThread
    NoKey = NoKey
INVARIANTS
    StoreInv
    TerminalIsDurable
    SequenceNeverReused
    TargetsAccepted
PROPERTY
    RecordSpec
SYMMETRY Symmetry
CHECK_DEADLOCK FALSE
