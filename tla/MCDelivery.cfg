CONSTANTS
    p1 = p1
    p2 = p2
    supported = supported
    unsupported = unsupported
    report = report
    Empty = Empty
    Processes = {p1, p2}
    Contents = {supported, unsupported}
    Sound = {supported}
    ReportOf <- MCReportOf
    Edits <- MCEdits
    MaxPlan = 1

SPECIFICATION Spec
SYMMETRY ProcessSymmetry
VIEW View

INVARIANTS
    CancelledIsRevoked
    EligibleIsVerified
    DeliverableIsSealed
