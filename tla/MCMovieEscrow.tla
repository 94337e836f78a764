--------------------------- MODULE MCMovieEscrow ---------------------------
(***************************************************************************)
(* Instances of MovieEscrow for TLC.  Denominators are scaled down so that *)
(* levy, VAT, every share and every rounding loss is already non-zero on   *)
(* amounts of a few units; MCWaterfall checks the real rates.              *)
(***************************************************************************)
EXTENDS MovieEscrowRefinement

CONSTANTS w1, w2

MCWallets == {w1, w2}

\* Both bindings of one role, and a call that leaves the theatre unbound.
MCAssignments ==
    {[role \in Roles |-> w1],
     [role \in Roles |-> IF role = "Theater" THEN w2 ELSE w1],
     [role \in Roles |-> IF role = "Theater" THEN NoWallet ELSE w1]}
OneAssignment == {[role \in Roles |-> w1]}

Rule(version, theater_bps, distributor_bps, fee_bps, profit_bps) ==
    [rule_version |-> version, theater_bps |-> theater_bps,
     distributor_bps |-> distributor_bps, distribution_fee_bps |-> fee_bps,
     investor_profit_bps |-> profit_bps]

\* A plain rule over thirds.
PlainRules == {Rule(1, 1, 2, 1, 2)}

\* Well formed; version never stored; split over 100%; fee over 100%;
\* profit over 100%.
MCRules ==
    {Rule(1, 1, 2, 1, 2), Rule(2, 2, 1, 0, 3), Rule(1, 2, 2, 1, 2),
     Rule(1, 1, 2, 6, 2), Rule(1, 1, 2, 1, 5)}
=============================================================================
