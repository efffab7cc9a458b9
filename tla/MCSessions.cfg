CONSTANTS
    s1 = s1
    s2 = s2
    r1 = r1
    r2 = r2
    n1 = n1
    t1 = t1
    p1 = p1
    p2 = p2
    SessionIds = {s1, s2}
    NoSession = NoSession
    RunIds = {r1, r2}
    NativeTasks = {n1}
    PlanTasks = {t1}
    Nothing = Nothing
    Corrupt = Corrupt
    Hooks = {p1, p2}
    HookKinds = {"stop"}
    ToolUses = {"sealed"}
    MatchOf <- MCMatchOf
    MaxStarts = 3
SPECIFICATION SessionSpec
CHECK_DEADLOCK FALSE
PROPERTIES
    ExplicitIsKept
