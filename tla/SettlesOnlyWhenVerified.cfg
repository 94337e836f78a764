SPECIFICATION Spec
CHECK_DEADLOCK FALSE
CONSTANTS
    LevyNumerator = 1
    LevyDenominator = 5
    VatDenominator = 4
    BpsDenominator = 3
    w1 = w1
    w2 = w2
    Wallets <- MCWallets
    NoWallet = NoWallet
    NoRule = NoRule
    Versions = {1}
    U64Max = 4
    U32Max = 2
    Rules <- PlainRules
    MgAmounts = {0}
    InvestmentAmounts = {0}
    WalletAssignments <- MCAssignments
PROPERTIES
    SettlesOnlyWhenVerified
