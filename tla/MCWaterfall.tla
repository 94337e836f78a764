---------------------------- MODULE MCWaterfall ----------------------------
(***************************************************************************)
(* The waterfall at the rates of the code (3/103, 1/11, basis points),     *)
(* over a season: screenings settled one after another, the outstanding    *)
(* MG and investment of each one being what the one before it left.  TLC's *)
(* integers bound a gross at 2^31 / 10000.                                 *)
(***************************************************************************)
EXTENDS Waterfall, Sequences

CONSTANTS
    Rules,          \* rules in force, all accepted and with a fee up to 100%
    Screenings,     \* gross of one screening
    MgAmounts, InvestmentAmounts,
    SeasonLength    \* bound on the number of screenings

ASSUME SeasonAssumption ==
    /\ Rules \subseteq RuleType
    /\ \A r \in Rules : RuleAccepted(r) /\ r.distribution_fee_bps <= BpsDenominator
    /\ Screenings \subseteq Nat
    /\ MgAmounts \subseteq Nat
    /\ InvestmentAmounts \subseteq Nat
    /\ SeasonLength \in Nat

VARIABLES rule, mg, inv, season

vars == <<rule, mg, inv, season>>

Init ==
    /\ rule \in Rules
    /\ mg \in MgAmounts
    /\ inv \in InvestmentAmounts
    /\ season = <<>>

\* One settle_batch: the two remaining fields are decremented by what was
\* recouped; the season records the gross, what was outstanding and the split.
Settle(gross) ==
    LET split == Split(gross, rule, mg, inv) IN
    /\ mg' = mg - split.mg_recoup
    /\ inv' = inv - split.investment_recoup
    /\ season' = Append(season, [gross |-> gross, mg |-> mg, inv |-> inv, split |-> split])
    /\ UNCHANGED rule

Next == \E gross \in Screenings : Len(season) < SeasonLength /\ Settle(gross)

Spec == Init /\ [][Next]_vars
-----------------------------------------------------------------------------
\* Values for the cfg: rates seen in contracts, and their extremes.
RateRule(theater, fee, profit) ==
    [rule_version |-> 1, theater_bps |-> theater, distributor_bps |-> BpsDenominator - theater,
     distribution_fee_bps |-> fee, investor_profit_bps |-> profit]
MCRules ==
    {RateRule(5000, 1000, 4000), RateRule(5220, 777, 3333), RateRule(999, 539, 1079),
     RateRule(10000, 0, 0), RateRule(0, 10000, 10000), RateRule(1, 9999, 1)}
MCScreenings == (1 .. 40) \cup {51, 52, 93, 103, 120, 121, 137, 5000, 9999, 15001, 99999}
-----------------------------------------------------------------------------
Settled == {season[i] : i \in 1 .. Len(season)}

\* The check of settle_batch on its own sum never fails, nor any of its checked
\* subtractions: every unit of a screening's gross is credited or withheld as
\* tax, no part is negative, and no recoupment exceeds what was outstanding
\* after the recoupments before it.
SplitIsExactAndSound ==
    \A s \in Settled :
        /\ Total(Credit(s.split)) + Tax(s.split) = s.gross
        /\ s.split.fee_fits
        /\ \A part \in DOMAIN s.split \ {"fee_fits"} : s.split[part] >= 0
        /\ s.split.mg_recoup <= s.mg
        /\ s.split.investment_recoup <= s.inv

\* The levy is 3/103 of the gross to the nearest unit: the header's
\* gross / 1.03 * 3%, rounded, with no intermediate rounding of gross / 1.03.
LevyIsNearest ==
    \A s \in Settled :
        LET error == LevyDenominator * s.split.levy - LevyNumerator * s.gross
        IN  2 * error <= LevyDenominator /\ -2 * error <= LevyDenominator

\* One unit more of gross never lowers anybody's credit: no rounding, and no
\* change from one recoupment to the next, makes it pay to sell less.
MoreIsNeverLess ==
    \A s \in Settled :
        LET more == Credit(Split(s.gross + 1, rule, s.mg, s.inv))
            credit == Credit(s.split)
        IN  \A role \in Roles : more[role] >= credit[role]

\* Two screenings settled one by one, as the agent does it, against the same
\* takings settled at once: rounding moves each role by a few units and no more,
\* whatever is outstanding and wherever a recoupment ends.  Every end of these
\* windows is reached by a rule, takings and outstanding amounts of the cfg.
Drift == [Theater |-> -2 .. 2, Distributor |-> -2 .. 3, Investor |-> -2 .. 4, Producer |-> -1 .. 5]

SettlementDrift ==
    Len(season) = 2 =>
        LET first  == season[1]
            second == season[2]
            joint  == Credit(Split(first.gross + second.gross, rule, first.mg, first.inv))
        IN  \A role \in Roles :
                LET apart == Credit(first.split)[role] + Credit(second.split)[role]
                IN  apart - joint[role] \in Drift[role]
=============================================================================
