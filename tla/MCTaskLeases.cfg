CONSTANTS
    t1 = t1
    t2 = t2
    a1 = a1
    a2 = a2
    a3 = a3
    k1 = k1
    Tasks <- MCTasks
    Attempts <- MCAttempts
    Savers <- MCSavers
    NoAttempt = NoAttempt
    NoCopy = NoCopy
    LeaseTime = 1
    BusyTime = 1
    MaxTime = 2
    MaxRevision = 5
    Ceilings <- MCCeilings
    Unconfigured = Unconfigured
SPECIFICATION StoreSpec
SYMMETRY Symmetry
CHECK_DEADLOCK FALSE
INVARIANTS
    LeaseExclusive
    CommitAgreement
    Balanced
    CallsWithinCeiling
PROPERTIES
    LostForever
    CancelledIsFinal
    KeepsPromise
    NoRefund
