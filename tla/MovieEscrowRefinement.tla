----------------------- MODULE MovieEscrowRefinement -----------------------
(***************************************************************************)
(* The program implements the abstract ledger.  The mapping reads the      *)
(* ledger off the accounts: what a holder may still draw is the difference *)
(* the program computes before each claim, and the tax is what paid_out    *)
(* holds beyond the claims.                                                *)
(***************************************************************************)
EXTENDS MovieEscrow

Ledger == INSTANCE EscrowLedger WITH
    Holders  <- Roles,
    Sum      <- Total,
    open     <- state \in {"Verified", "Allocated", "Disputed"},
    waiting  <- pending,
    free     <- [role \in Roles |-> Remaining(role)],
    frozen   <- held,
    drawn    <- claimed,
    withheld <- paid_out - Total(claimed),
    returned <- refunded

\* Every step of the program is a step of the ledger, or changes nothing it
\* can see: a hold of one right holder never moves the purse of another, a
\* settlement divides exactly what leaves pending, and no step pays twice.
ImplementsLedger == Ledger!Spec
=============================================================================
