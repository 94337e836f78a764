SPECIFICATION PurchaseSpec
CHECK_DEADLOCK FALSE
CONSTANTS
    Showtimes = {evening, matinee}
    FirstShowtime = evening
    MaxTickets = 2
    MaxCalls <- MCMaxCalls
    MaxVisits = 2
INVARIANTS
    PurchaseTypeOK
    ReceiptIsReal
    SpinnerHasCall
    ChargedOnce
    RefundsArePaid
