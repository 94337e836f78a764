SPECIFICATION AgentSpec
CHECK_DEADLOCK FALSE
CONSTANTS
    LevyNumerator = 0
    LevyDenominator = 5
    VatDenominator = 9
    BpsDenominator = 2
    w1 = w1
    s1 = s1
    s2 = s2
    Wallets <- MCWallets
    NoWallet = NoWallet
    NoRule = NoRule
    Versions = {1}
    U64Max = 24
    U32Max = 9
    Rules <- MCRules
    MgAmounts = {0}
    InvestmentAmounts = {0}
    WalletAssignments <- MCAssignments
    Requests = {r1, r2}
    Batch <- OneScreening
    Log <- MCLog
    SeatCount <- MCSeatCount
    AgentRule <- MCRule
    AgentWallets <- MCAgentWallets
    TicketPrices = {12}
    ShareAmounts = {6}
    MaxCrashes = 0
INVARIANTS
    NoBatchSettledTwice
