SPECIFICATION Spec
CHECK_DEADLOCK FALSE
CONSTANTS
    LevyNumerator = 1
    LevyDenominator = 5
    VatDenominator = 4
    BpsDenominator = 3
    w1 = w1
    w2 = w2
    Wallets <- MCWallets
    NoWallet = NoWallet
    NoRule = NoRule
    Versions = {1}
    U64Max = 7
    U32Max = 3
    Rules <- PlainRules
    MgAmounts = {0, 1}
    InvestmentAmounts = {0, 1}
    WalletAssignments <- OneAssignment
INVARIANTS
    TypeOK
    Conservation
    EnvelopesAreBacked
    VaultAccounted
    DisputedExactly
    EveryShareIsPayable
    EveryHoldIsResolvable
PROPERTIES
    RecoupmentOrder
    ShareShrinksOnlyByRejection
    VaultExits
    ImplementsLedger
