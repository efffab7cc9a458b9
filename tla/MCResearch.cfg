CONSTANTS
    t1 = t1
    t2 = t2
    k1 = k1
    k2 = k2
    MaxAttempts = 8
    Tasks <- MCTasks
    Deps <- MCDeps
    Attempts <- MCAttempts
    Savers <- MCSavers
    NoAttempt = NoAttempt
    NoCopy = NoCopy
    LeaseTime = 1
    BusyTime = 0
    MaxTime = 1
    MaxRevision = 20
    MaxTries = 2
    MaxSessions = 2
    MaxPlan = 1

    n1 = n1
    n2 = n2
    n3 = n3
    n4 = n4
    f = f
    g = g
    h = h
    k = k
    Names = {n1, n2, n3, n4}
    MaxTasks = 4
    MaxDeps = 3
    MaxReads = 2
    Files = {f, g, h, k}
    Above <- MCAbove
    PlanFile = PlanFile

    s1 = s1
    s2 = s2
    s3 = s3
    s4 = s4
    Sources = {s1, s2, s3, s4}
    u1 = u1
    Unknown = {u1}
    Idle = Idle
    MaxDeclared = 3

    cost = cost
    speed = speed
    latency = latency
    Texts <- MCTexts
    MaxDocuments = 3
    Years = {2020, 2021}
    ThemeOf <- MCThemeOf
    General = "general"
    OpenClaims = "claims"
    Assertive = {"claims", "reports"}

    q1 = q1
    q2 = q2
    o1 = o1
    Records = {q1, q2}
    Dois = {o1}
    NoDoi = NoDoi
    DoiOf <- MCDoiOf
    WorkOf <- MCWorkOf
    Works = {"one", "other"}
    Retraction = "retraction"
    CacheDays = 1
    MaxDay = 3

    v1 = v1
    v2 = v2
    v3 = v3
    c1 = c1
    Watched = {v1, v2, v3}
    Statements = {c1}
    Problems = {"corrected", "retracted"}
    NoProblem = "none"

SPECIFICATION ResearchSpec
CHECK_DEADLOCK FALSE
SYMMETRY ResearchSymmetry

INVARIANTS
    DependenciesCommitted
    DoneIsCommitted
    SuccessIsComplete
    CompilerIsExact
    AffectedIsClosed
    FamiliesAreComponents
    SupportIsIndependent
    DisagreementIsMutual
    OnlyKnownBlocks
    InvalidatedIsTold

PROPERTIES
    ClaimsAreReady
    ConfirmedOrStale
