------------------------------ MODULE Waterfall ------------------------------
(***************************************************************************)
(* The deduction waterfall that settle_batch runs over the gross of one    *)
(* screening: levy, VAT, theatre split, distribution fee, recoupment of    *)
(* the minimum guarantee (MG), recoupment of the investment and, of what   *)
(* is left, the profit split.  All of it is unsigned integer arithmetic,   *)
(* in the order the handler performs it                                    *)
(* (programs/movie_escrow/src/instructions/settle_batch.rs).               *)
(*                                                                         *)
(* The rates are parameters so that TLC can use small denominators where   *)
(* it explores whole escrows; in the code they are 3, 103, 11 and 10000.   *)
(*                                                                         *)
(* A name with an underscore, Levy_Truncated, is a deliberately wrong      *)
(* variant of the definition that follows it; no specification uses it.    *)
(***************************************************************************)
EXTENDS Integers

CONSTANTS
    LevyNumerator,      \* LEVY_NUMERATOR
    LevyDenominator,    \* LEVY_DENOMINATOR
    VatDenominator,     \* VAT_DENOMINATOR
    BpsDenominator      \* BPS_DENOMINATOR

ASSUME RatesAssumption ==
    /\ LevyNumerator \in Nat
    /\ LevyDenominator \in Nat \ {0}
    /\ LevyNumerator <= LevyDenominator
    /\ VatDenominator \in Nat \ {0}
    /\ BpsDenominator \in Nat \ {0}

(***************************************************************************)
(* A settlement rule, as far as the program can see it: the version and    *)
(* the four rates that the preimage of rule_hash is made of.               *)
(***************************************************************************)
RuleType ==
    [rule_version : Nat,
     theater_bps : Nat,
     distributor_bps : Nat,
     distribution_fee_bps : Nat,
     investor_profit_bps : Nat]

(***************************************************************************)
(* The two checks of InvalidWaterfallParams.  Note what is not checked:    *)
(* distribution_fee_bps has no upper bound here.                           *)
(***************************************************************************)
RuleAccepted(rule) ==
    /\ rule.theater_bps + rule.distributor_bps = BpsDenominator
    /\ rule.investor_profit_bps <= BpsDenominator

MulDivFloor(numerator, mul, div) == (numerator * mul) \div div

RoundDivHalfUp(numerator, denominator) ==
    (numerator + (denominator \div 2)) \div denominator

Lesser(a, b) == IF a <= b THEN a ELSE b

(***************************************************************************)
(* The deductions, each from the amount the one before it left.            *)
(***************************************************************************)
Levy_Truncated(gross) == (gross * LevyNumerator) \div LevyDenominator
Levy(gross) == RoundDivHalfUp(gross * LevyNumerator, LevyDenominator)
Vat(afterLevy) == afterLevy \div VatDenominator
TheaterAmount(net, rule) == MulDivFloor(net, rule.theater_bps, BpsDenominator)
DistributionFee(distributor, rule) ==
    MulDivFloor(distributor, rule.distribution_fee_bps, BpsDenominator)
Recoup_HalfThePool(pool, remaining) == Lesser(pool \div 2, remaining)
Recoup_AllOrNothing(pool, remaining) == IF pool >= remaining THEN remaining ELSE 0
Recoup_Uncapped(pool, remaining) == pool
Recoup(pool, remaining) == Lesser(pool, remaining)
InvestorProfit(profit, rule) ==
    MulDivFloor(profit, rule.investor_profit_bps, BpsDenominator)

(***************************************************************************)
(* The division of one screening's gross, with mg and inv the amounts      *)
(* still to be recouped.  fee_fits is the one checked_sub that a rate let  *)
(* through by RuleAccepted can make fail.                                  *)
(***************************************************************************)
Split(gross, rule, mg, inv) ==
    LET levy        == Levy(gross)
        afterLevy   == gross - levy
        vat         == Vat(afterLevy)
        net         == afterLevy - vat
        theater     == TheaterAmount(net, rule)
        distributor == net - theater
        fee         == DistributionFee(distributor, rule)
        pool        == distributor - fee
        mgRecoup    == Recoup(pool, mg)
        afterMg     == pool - mgRecoup
        invRecoup   == Recoup(afterMg, inv)
        profit      == afterMg - invRecoup
        investor    == InvestorProfit(profit, rule)
    IN  [levy |-> levy, vat |-> vat, theater |-> theater,
         distribution_fee |-> fee, fee_fits |-> fee <= distributor,
         mg_recoup |-> mgRecoup, investment_recoup |-> invRecoup,
         investor_profit |-> investor, producer |-> profit - investor]

(***************************************************************************)
(* What a settlement credits to each right holder's Allocation, and what   *)
(* it books as paid out at once.                                           *)
(***************************************************************************)
Roles == {"Theater", "Distributor", "Producer", "Investor"}

Credit(split) ==
    [Theater     |-> split.theater,
     Distributor |-> split.distribution_fee + split.mg_recoup,
     Producer    |-> split.producer,
     Investor    |-> split.investment_recoup + split.investor_profit]

Tax(split) == split.levy + split.vat

Total(f) == f["Theater"] + f["Distributor"] + f["Producer"] + f["Investor"]
=============================================================================
