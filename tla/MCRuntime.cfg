CONSTANTS
    x1 = x1
    x2 = x2
    a1 = a1
    a2 = a2
    a3 = a3
    LockAttempts = {x1, x2}
    Unowned = Unowned
    Resources = 2
    TaskTime = 2
    LockTime = 1
    WaitTime = 1
    MaxFence = 3
    sources = sources
    forged = forged
    text = text
    brief = brief
    lie = lie
    Blank = Blank
    WorkAttempts = {a1, a2, a3}
    Contents = {sources, forged, text, brief, lie}
    Lists = {sources}
    Edits = {Blank, forged, sources}
    Mentions <- MCMentions
    ReportOn <- MCReportOn
    m1 = m1
    m2 = m2
    manifest = manifest
    plan = plan
    old = old
    new = new
    Migrators = {m1, m2}
    LegacyFiles = {manifest, plan}
    Versions = {old, new}
    Declaring = manifest
    Declared <- MCDeclared

    f1 = f1
    f2 = f2
    log = log
    e1 = e1
    e2 = e2
    Paths = {f1, f2, log}
    Log = log
    Processes = {e1, e2}
    Foreign = Foreign
    MaxGeneration = 3
    s1 = s1
    s2 = s2
    r1 = r1
    r2 = r2
    n1 = n1
    t1 = t1
    t2 = t2
    p1 = p1
    p2 = p2
    SessionIds = {s1, s2}
    NoSession = NoSession
    RunIds = {r1, r2}
    NativeTasks = {n1}
    PlanTasks = {t1}
    Nothing = Nothing
    Corrupt = Corrupt
    Hooks = {p1, p2}
    HookKinds = {"created", "tool", "subagent", "completed", "stop"}
    ToolUses = {"sealed"}
    MatchOf <- MCMatchOf
    MaxStarts = 3
SPECIFICATION RuntimeSpec
CHECK_DEADLOCK FALSE
SYMMETRY RuntimeSymmetry

INVARIANTS
    LocksFenced
    NamedBytesSurvive
    InputsAreCommitted
    ImportedIsBackedUp
    AcknowledgedIsOnDisk
    BoundIsGated

PROPERTIES
    NeverOlder
    TamperingStaysVisible
