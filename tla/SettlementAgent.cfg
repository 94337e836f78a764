SPECIFICATION FairAgentSpec
CHECK_DEADLOCK FALSE
CONSTANTS
    LevyNumerator = 0
    LevyDenominator = 5
    VatDenominator = 9
    BpsDenominator = 2
    w1 = w1
    s1 = s1
    s2 = s2
    Wallets <- MCWallets
    NoWallet = NoWallet
    NoRule = NoRule
    Versions = {1}
    U64Max = 36
    U32Max = 3
    Rules <- MCRules
    MgAmounts = {0}
    InvestmentAmounts = {0}
    WalletAssignments <- MCAssignments
    Requests = {r1, r2}
    Batch <- MCBatch
    Log <- MCLog
    SeatCount <- MCSeatCount
    AgentRule <- MCRule
    AgentWallets <- MCAgentWallets
    TicketPrices = {12}
    ShareAmounts = {12}
    MaxCrashes = 1
INVARIANTS
    AgentTypeOK
    CompletedMeansSettled
    RepeatsAreFailures
    CompletedMeansHeld
    LenientOnlyWhenKnown
PROPERTIES
    KeepsTheSlot
    SlotIsReleased
