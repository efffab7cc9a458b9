CONSTANTS
    t1 = t1
    t2 = t2
    c1 = c1
    c2 = c2
    i1 = i1
    i2 = i2
    found = found
    help = help
    done = done
    Tasks = {t1, t2}
    Consumers = {c1, c2}
    Ids = {i1, i2}
    Contents <- MCContents
    Helping = {help}
    Committing = {done}
    Author <- MCAuthor
    Diagnostic = Diagnostic
    Payloads <- MCPayloads
    NoSubscription = NoSubscription
    Operator = Operator
    MaxMessages = 2
    MaxRecent = 1
    MaxPending = 1
    MaxSubscriptions = 1
    MaxAttempts = 2
    LeaseTime = 1
    RetryTime = 1
    RateTime = 1
    BusyTime = 1
    MaxPlan = 2
    MaxEvents = 2

SPECIFICATION CoordSpec

INVARIANTS
    CoordTypeOK
    EffectOnce
    HelpIsAtomic
PROPERTIES
    EffectsInPlan
    NotificationsEnd
