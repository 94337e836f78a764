SPECIFICATION Spec
CHECK_DEADLOCK FALSE
CONSTANTS
    LevyNumerator = 3
    LevyDenominator = 103
    VatDenominator = 11
    BpsDenominator = 10000
    Rules <- MCRules
    Screenings <- MCScreenings
    MgAmounts = {0, 7, 100, 4000}
    InvestmentAmounts = {0, 1, 60, 9000}
    SeasonLength = 2
INVARIANTS
    SplitIsExactAndSound
    LevyIsNearest
    MoreIsNeverLess
    SettlementDrift
