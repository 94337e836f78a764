SPECIFICATION FairOfficeSpec
CHECK_DEADLOCK FALSE
CONSTANTS
    drama = drama
    comedy = comedy
    Contracts = {drama, comedy}
    Readings <- MCReadings
    WalletKey = wallet
    Theaters = {cinema}
    Garbage = garbage
    MaxExtractions = 2
    MaxFilings = 2
    None = None
INVARIANTS
    OfficeTypeOK
    RegisteredIsApproved
    ConflictsBlockApproval
    ResultIsReal
PROPERTIES
    ApprovedGetsHash
