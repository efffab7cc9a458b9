CONSTANTS
    cost = cost
    speed = speed
    latency = latency
    Texts <- MCTexts
    MaxDocuments = 3
    Years = {2020, 2021}
    ThemeOf <- MCThemeOf
    General = "general"
    OpenClaims = "claims"
    Assertive = {"claims", "reports"}
SPECIFICATION FindingsSpec
CHECK_DEADLOCK FALSE
INVARIANT
    DisclosureSuffices
