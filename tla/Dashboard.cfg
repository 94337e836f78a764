SPECIFICATION FairDashboardSpec
CHECK_DEADLOCK FALSE
CONSTANTS
    Pages = {p1, p2}
    None = None
    MaxRequests = 4
    MaxRestarts = 1
INVARIANTS
    DashboardTypeOK
    FreshMeansMine
    CompletionsAreAsked
PROPERTIES
    SpinnerEnds
