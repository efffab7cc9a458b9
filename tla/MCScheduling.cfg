CONSTANTS
    t1 = t1
    t2 = t2
    k1 = k1
    k2 = k2
    MaxAttempts = 6
    Tasks <- MCTasks
    Deps <- MCDeps
    Attempts <- MCAttempts
    Savers <- MCSavers
    NoAttempt = NoAttempt
    NoCopy = NoCopy
    LeaseTime = 1
    BusyTime = 0
    MaxTime = 1
    MaxRevision = 20
    MaxTries = 1
    MaxSessions = 2
    MaxPlan = 1

    t3 = t3
    WaveTasks = {t1, t2, t3}
    WaveDeps <- MCWaveDeps
    Timed = {t1}
    WaveTries <- MCWaveTries
    MaxWorkers = 2

SPECIFICATION SchedulingSpec
CHECK_DEADLOCK FALSE
INVARIANTS
    BlockedByFailure
    CompletedIsClosed
PROPERTIES
    CallsReturn
    RunEnds
