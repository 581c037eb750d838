SPECIFICATION BlockedSpec
CONSTANTS
    Attempts = {a1, a2}
    Keys = {k1, k2}
    Threads = {t1, t2, t3}
    Generations = {2}
    ClaimCount = 2
    MaxUint64 = 6
    MaxClaimEntries = 2
    ProducerOutcomes = {"claim_succeeded", "claim_rejected_terminal"}
    MaxRetainedAttempts = 2
    MaxRetainedClaimEntries = 4
    AuditTombstoneLimit = 4
    MaxCrashes = 0
    NoAttempt = NoAttempt
    NoThread = NoThread
    NoKey = NoKey
INVARIANTS
    TypeOK
    SlotHeld
    OneCommitDriver
    AttemptInv
PROPERTIES
    EffectFromDrainedSuccess
CHECK_DEADLOCK FALSE
