--------------------------- MODULE WaterfallProofs ---------------------------
(***************************************************************************)
(* What the waterfall guarantees at any rates, gross and outstanding       *)
(* amounts: the division is exact, no part is negative, recoupments are    *)
(* capped and ranks are respected.                                         *)
(***************************************************************************)
EXTENDS Waterfall, TLAPS

LEMMA DivBound ==
    ASSUME NEW a \in Nat, NEW d \in Nat \ {0}
    PROVE  /\ a \div d \in Nat
           /\ d * (a \div d) <= a
           /\ a < d * (a \div d) + d
OBVIOUS

\* A floor of at most 100% of an amount lies between 0 and the amount.
LEMMA MulDivFloorBound ==
    ASSUME NEW a \in Nat, NEW m \in Nat, NEW d \in Nat \ {0}, m <= d
    PROVE  MulDivFloor(a, m, d) \in 0 .. a
<1> DEFINE q == (a * m) \div d
<1>1. q \in Nat /\ d * q <= a * m
  BY DivBound
<1>2. a * m <= a * d
  OBVIOUS
<1>3. q <= a
  BY <1>1, <1>2
<1> QED
  BY <1>1, <1>3 DEF MulDivFloor

LEMMA MulDivFloorNat ==
    ASSUME NEW a \in Nat, NEW m \in Nat, NEW d \in Nat \ {0}
    PROVE  MulDivFloor(a, m, d) \in Nat
BY DivBound DEF MulDivFloor

\* Rounding to the nearest unit cannot carry the levy past the gross.
LEMMA LevyBound ==
    ASSUME NEW gross \in Nat
    PROVE  Levy(gross) \in 0 .. gross
<1> DEFINE n == gross * LevyNumerator
           half == LevyDenominator \div 2
           q == (n + half) \div LevyDenominator
<1>0. LevyNumerator \in Nat /\ LevyDenominator \in Nat \ {0}
  BY RatesAssumption
<1>1. n \in Nat /\ half \in Nat /\ half < LevyDenominator
  BY <1>0, DivBound
<1>2. q \in Nat /\ LevyDenominator * q <= n + half
  BY <1>0, <1>1, DivBound
<1>3. n <= gross * LevyDenominator
  BY <1>0, RatesAssumption
<1>4. ASSUME q >= gross + 1 PROVE FALSE
  <2>1. LevyDenominator * q >= LevyDenominator * (gross + 1)
    BY <1>0, <1>2, <1>4
  <2>2. LevyDenominator * (gross + 1) = gross * LevyDenominator + LevyDenominator
    BY <1>0
  <2> QED
    BY <1>0, <1>1, <1>2, <1>3, <2>1, <2>2
<1>5. q <= gross
  BY <1>2, <1>4
<1> QED
  BY <1>2, <1>5 DEF Levy, RoundDivHalfUp

LEMMA VatBound ==
    ASSUME NEW afterLevy \in Nat
    PROVE  Vat(afterLevy) \in 0 .. afterLevy
<1>1. VatDenominator \in Nat \ {0}
  BY RatesAssumption
<1>2. /\ afterLevy \div VatDenominator \in Nat
      /\ VatDenominator * (afterLevy \div VatDenominator) <= afterLevy
  BY <1>1, DivBound
<1>3. afterLevy \div VatDenominator <= VatDenominator * (afterLevy \div VatDenominator)
  BY <1>1, <1>2
<1> QED
  BY <1>1, <1>2, <1>3 DEF Vat

LEMMA RecoupBound ==
    ASSUME NEW pool \in Int, NEW remaining \in Nat
    PROVE  /\ Recoup(pool, remaining) \in Int
           /\ Recoup(pool, remaining) <= pool
           /\ Recoup(pool, remaining) <= remaining
           /\ pool >= 0 => Recoup(pool, remaining) >= 0
           /\ Recoup(pool, remaining) < pool => Recoup(pool, remaining) = remaining
BY DEF Recoup, Lesser

(***************************************************************************)
(* The division under an accepted rule.  Without the hypothesis fee_fits   *)
(* (a fee of more than 100%) the later parts could be negative: in the     *)
(* program the checked_sub rejects that settlement.                        *)
(***************************************************************************)
THEOREM WaterfallIsExactAndSound ==
    ASSUME NEW gross \in Nat, NEW rule \in RuleType, RuleAccepted(rule),
           NEW mg \in Nat, NEW inv \in Nat,
           NEW s, s = Split(gross, rule, mg, inv), s.fee_fits
    PROVE  /\ s.levy \in Nat /\ s.vat \in Nat
           /\ s.theater \in Nat /\ s.distribution_fee \in Nat
           /\ s.mg_recoup \in 0 .. mg
           /\ s.investment_recoup \in 0 .. inv
           /\ s.investor_profit \in Nat /\ s.producer \in Nat
           /\ Total(Credit(s)) + Tax(s) = gross
           /\ s.investment_recoup > 0 => s.mg_recoup = mg
           /\ s.investor_profit + s.producer > 0 =>
                s.mg_recoup = mg /\ s.investment_recoup = inv
<1> DEFINE levy        == Levy(gross)
           afterLevy   == gross - levy
           vat         == Vat(afterLevy)
           net         == afterLevy - vat
           theater     == TheaterAmount(net, rule)
           distributor == net - theater
           fee         == DistributionFee(distributor, rule)
           pool        == distributor - fee
           mgRecoup    == Recoup(pool, mg)
           afterMg     == pool - mgRecoup
           invRecoup   == Recoup(afterMg, inv)
           profit      == afterMg - invRecoup
           investor    == InvestorProfit(profit, rule)
<1>1. /\ s.levy = levy /\ s.vat = vat /\ s.theater = theater
      /\ s.distribution_fee = fee /\ s.fee_fits = (fee <= distributor)
      /\ s.mg_recoup = mgRecoup /\ s.investment_recoup = invRecoup
      /\ s.investor_profit = investor /\ s.producer = profit - investor
  BY DEF Split
<1>2. /\ rule.theater_bps \in Nat /\ rule.distributor_bps \in Nat
      /\ rule.distribution_fee_bps \in Nat /\ rule.investor_profit_bps \in Nat
      /\ BpsDenominator \in Nat \ {0}
      /\ rule.theater_bps <= BpsDenominator
      /\ rule.investor_profit_bps <= BpsDenominator
  BY RatesAssumption DEF RuleType, RuleAccepted
<1>3. levy \in 0 .. gross
  BY LevyBound
<1> HIDE DEF levy
<1>4. vat \in 0 .. afterLevy /\ afterLevy \in Nat
  BY <1>3, VatBound
<1> HIDE DEF vat
<1>5. net \in Nat
  BY <1>3, <1>4
<1>6. theater \in 0 .. net
  BY <1>2, <1>5, MulDivFloorBound DEF TheaterAmount
<1> HIDE DEF theater
<1>7. distributor \in Nat
  BY <1>3, <1>4, <1>5, <1>6
<1>8. fee \in 0 .. distributor
  <2>1. fee \in Nat
    BY <1>2, <1>7, MulDivFloorNat DEF DistributionFee
  <2>2. fee <= distributor
    BY <1>1, Zenon
  <2> QED
    BY <1>7, <2>1, <2>2
<1> HIDE DEF fee
<1>9. pool \in Nat
  BY <1>7, <1>8
<1>10. /\ mgRecoup \in 0 .. pool /\ mgRecoup <= mg
       /\ mgRecoup < pool => mgRecoup = mg
  BY <1>9, RecoupBound
<1> HIDE DEF mgRecoup
<1>11. afterMg \in Nat
  BY <1>9, <1>10
<1>12. /\ invRecoup \in 0 .. afterMg /\ invRecoup <= inv
       /\ invRecoup < afterMg => invRecoup = inv
  BY <1>11, RecoupBound
<1> HIDE DEF invRecoup
<1>13. profit \in Nat
  BY <1>11, <1>12
<1>14. investor \in 0 .. profit
  BY <1>2, <1>13, MulDivFloorBound DEF InvestorProfit
<1> HIDE DEF investor
<1>15. Total(Credit(s)) = theater + (fee + mgRecoup) + (profit - investor)
                            + (invRecoup + investor)
  BY <1>1 DEF Total, Credit
<1>16. Tax(s) = levy + vat
  BY <1>1 DEF Tax
<1>17. Total(Credit(s)) + Tax(s) = gross
  BY <1>3, <1>4, <1>6, <1>8, <1>10, <1>12, <1>14, <1>15, <1>16
<1>18. invRecoup > 0 => mgRecoup = mg
  BY <1>9, <1>10, <1>12
<1>19. investor + (profit - investor) > 0 => mgRecoup = mg /\ invRecoup = inv
  BY <1>9, <1>10, <1>12, <1>13, <1>14
<1> QED
  BY <1>1, <1>3, <1>4, <1>6, <1>8, <1>10, <1>12, <1>13, <1>14, <1>17, <1>18, <1>19

\* A fee of at most 100% always fits, so the checked_sub never rejects it.
THEOREM FeeAlwaysFits ==
    ASSUME NEW gross \in Nat, NEW rule \in RuleType, RuleAccepted(rule),
           rule.distribution_fee_bps <= BpsDenominator,
           NEW mg \in Nat, NEW inv \in Nat
    PROVE  Split(gross, rule, mg, inv).fee_fits
<1> DEFINE levy        == Levy(gross)
           afterLevy   == gross - levy
           vat         == Vat(afterLevy)
           net         == afterLevy - vat
           theater     == TheaterAmount(net, rule)
           distributor == net - theater
<1>1. Split(gross, rule, mg, inv).fee_fits =
        (DistributionFee(distributor, rule) <= distributor)
  BY DEF Split
<1>2. /\ rule.theater_bps \in Nat /\ rule.distribution_fee_bps \in Nat
      /\ rule.distributor_bps \in Nat
      /\ BpsDenominator \in Nat \ {0} /\ rule.theater_bps <= BpsDenominator
  BY RatesAssumption DEF RuleType, RuleAccepted
<1>3. afterLevy \in Nat
  BY LevyBound
<1> HIDE DEF afterLevy
<1>4. net \in Nat
  BY <1>3, VatBound
<1> HIDE DEF net
<1>5. distributor \in Nat
  <2>1. theater \in 0 .. net
    BY <1>2, <1>4, MulDivFloorBound DEF TheaterAmount
  <2> HIDE DEF theater
  <2> QED
    BY <1>4, <2>1
<1> HIDE DEF distributor
<1>6. DistributionFee(distributor, rule) \in 0 .. distributor
  BY <1>2, <1>5, MulDivFloorBound DEF DistributionFee
<1>7. DistributionFee(distributor, rule) <= distributor
  BY <1>5, <1>6
<1> QED
  BY <1>1, <1>7, Zenon
=============================================================================
