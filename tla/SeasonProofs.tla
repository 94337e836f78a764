--------------------------- MODULE SeasonProofs ---------------------------
(***************************************************************************)
(* Proofs about a season of screenings settled one after another, at any   *)
(* rates: how rounding behaves from one amount to the next, and that every *)
(* settlement of the season is exact, fair to more sales, and close to     *)
(* what one settlement of the whole takings would have credited.           *)
(***************************************************************************)
EXTENDS MCWaterfall, WaterfallProofs

(***************************************************************************)
(* A deduction at a rate of at most 100% takes from a larger amount at     *)
(* least as much and leaves at least as much.                              *)
(***************************************************************************)
LEMMA ScaledOrder ==
    ASSUME NEW d \in Nat \ {0}, NEW p \in Int, NEW q \in Int, d * p < d * q + d
    PROVE  p <= q
<1>1. d * p < d * (q + 1)
  OBVIOUS
<1>2. SUFFICES ASSUME p >= q + 1 PROVE FALSE
  OBVIOUS
<1>3. d * (p - (q + 1)) >= 0
  BY <1>2
<1> QED
  BY <1>1, <1>3

LEMMA DeductionMonotone ==
    ASSUME NEW x \in Nat, NEW y \in Nat, x <= y,
           NEW m \in Nat, NEW d \in Nat \ {0}, m <= d, NEW h \in Nat
    PROVE  /\ (x * m + h) \div d \in Nat /\ (y * m + h) \div d \in Nat
           /\ (x * m + h) \div d <= (y * m + h) \div d
           /\ (y * m + h) \div d - (x * m + h) \div d <= y - x
<1> DEFINE p == (x * m + h) \div d
           q == (y * m + h) \div d
           k == y - x
<1>1. k \in Nat /\ y = x + k
  OBVIOUS
<1>2. /\ p \in Nat /\ d * p <= x * m + h /\ x * m + h < d * p + d
      /\ q \in Nat /\ d * q <= y * m + h /\ y * m + h < d * q + d
  <2>1. x * m + h \in Nat /\ y * m + h \in Nat
    OBVIOUS
  <2> QED
    BY <2>1, DivBound
<1>3. y * m = x * m + k * m /\ k * m \in Nat /\ x * m \in Nat
  BY <1>1
<1>4. k * m <= d * k
  <2>1. d - m \in Nat
    OBVIOUS
  <2>2. k * (d - m) \in Nat
    BY <1>1, <2>1
  <2> QED
    BY <1>1, <2>2
<1> HIDE DEF p, q
<1>5. p <= q
  <2>1. d * p < d * q + d
    BY <1>2, <1>3
  <2> QED
    BY <1>2, <2>1, ScaledOrder
<1>6. q <= p + k
  <2>1. d * q < d * p + d + d * k
    BY <1>1, <1>2, <1>3, <1>4
  <2>2. d * (p + k) = d * p + d * k
    BY <1>1, <1>2
  <2>3. d * q < d * (p + k) + d
    BY <1>1, <1>2, <2>1, <2>2
  <2>4. p + k \in Int
    BY <1>1, <1>2
  <2> QED
    BY <1>2, <2>3, <2>4, ScaledOrder
<1>7. q - p <= y - x
  BY <1>1, <1>2, <1>6
<1> QED
  BY <1>2, <1>5, <1>7 DEF p, q

LEMMA LevyMonotone ==
    ASSUME NEW x \in Nat, NEW y \in Nat, x <= y
    PROVE  Levy(x) <= Levy(y) /\ x - Levy(x) <= y - Levy(y)
<1> DEFINE half == LevyDenominator \div 2
<1>1. /\ LevyNumerator \in Nat /\ LevyDenominator \in Nat \ {0}
      /\ LevyNumerator <= LevyDenominator
  BY RatesAssumption
<1>2. half \in Nat
  BY <1>1, DivBound
<1>3. Levy(x) = (x * LevyNumerator + half) \div LevyDenominator
  BY DEF Levy, RoundDivHalfUp
<1>4. Levy(y) = (y * LevyNumerator + half) \div LevyDenominator
  BY DEF Levy, RoundDivHalfUp
<1> HIDE DEF half
<1>5. /\ Levy(x) \in Nat /\ Levy(y) \in Nat /\ Levy(x) <= Levy(y)
      /\ Levy(y) - Levy(x) <= y - x
  BY <1>1, <1>2, <1>3, <1>4, DeductionMonotone
<1> QED
  BY <1>5

LEMMA FloorMonotone ==
    ASSUME NEW x \in Nat, NEW y \in Nat, x <= y,
           NEW m \in Nat, NEW d \in Nat \ {0}, m <= d
    PROVE  /\ MulDivFloor(x, m, d) <= MulDivFloor(y, m, d)
           /\ x - MulDivFloor(x, m, d) <= y - MulDivFloor(y, m, d)
<1>1. /\ x * m + 0 = x * m /\ y * m + 0 = y * m
  OBVIOUS
<1>2. MulDivFloor(x, m, d) = (x * m + 0) \div d /\ MulDivFloor(y, m, d) = (y * m + 0) \div d
  BY <1>1 DEF MulDivFloor
<1>3. /\ MulDivFloor(x, m, d) \in Nat /\ MulDivFloor(y, m, d) \in Nat
      /\ MulDivFloor(x, m, d) <= MulDivFloor(y, m, d)
      /\ MulDivFloor(y, m, d) - MulDivFloor(x, m, d) <= y - x
  BY <1>2, DeductionMonotone
<1> QED
  BY <1>3

LEMMA VatIsFloor ==
    ASSUME NEW x \in Nat
    PROVE  Vat(x) = MulDivFloor(x, 1, VatDenominator)
BY DEF Vat, MulDivFloor

LEMMA RecoupMonotone ==
    ASSUME NEW x \in Nat, NEW y \in Nat, x <= y, NEW remaining \in Nat
    PROVE  /\ Recoup(x, remaining) <= Recoup(y, remaining)
           /\ x - Recoup(x, remaining) <= y - Recoup(y, remaining)
BY DEF Recoup, Lesser

(***************************************************************************)
(* Two amounts deducted from apart, or from their sum: the roundings differ *)
(* by one unit, in one direction only when there is no half to add.        *)
(***************************************************************************)
LEMMA DeductionSplits ==
    ASSUME NEW x \in Nat, NEW y \in Nat,
           NEW m \in Nat, NEW d \in Nat \ {0}, NEW h \in Nat, h < d
    PROVE  LET apart == (x * m + h) \div d + (y * m + h) \div d
               joint == ((x + y) * m + h) \div d
           IN  /\ apart \in Nat /\ joint \in Nat
               /\ joint <= apart + 1 /\ apart <= joint + 1
               /\ h = 0 => apart <= joint
<1> DEFINE p == (x * m + h) \div d
           q == (y * m + h) \div d
           r == ((x + y) * m + h) \div d
<1>1. /\ x * m \in Nat /\ y * m \in Nat /\ (x + y) * m = x * m + y * m
      /\ (x + y) * m \in Nat
  OBVIOUS
<1>2. /\ p \in Nat /\ d * p <= x * m + h /\ x * m + h < d * p + d
      /\ q \in Nat /\ d * q <= y * m + h /\ y * m + h < d * q + d
      /\ r \in Nat /\ d * r <= (x + y) * m + h /\ (x + y) * m + h < d * r + d
  <2>1. x * m + h \in Nat /\ y * m + h \in Nat /\ (x + y) * m + h \in Nat
    BY <1>1
  <2> QED
    BY <2>1, DivBound
<1> HIDE DEF p, q, r
<1>3. d * (p + q) = d * p + d * q /\ d * (p + q + 1) = d * p + d * q + d
      /\ d * (r + 1) = d * r + d
  BY <1>2
<1>4. /\ d * p \in Nat /\ d * q \in Nat /\ d * r \in Nat
  BY <1>2
<1>5. r <= p + q + 1
  <2>1. d * r < d * (p + q + 1) + d
    BY <1>1, <1>2, <1>3, <1>4
  <2> QED
    BY <1>2, <2>1, ScaledOrder
<1>6. p + q <= r + 1
  <2>1. d * (p + q) < d * (r + 1) + d
    BY <1>1, <1>2, <1>3, <1>4
  <2>2. p + q \in Int /\ r + 1 \in Int
    BY <1>2
  <2> QED
    BY <2>1, <2>2, ScaledOrder
<1>7. ASSUME h = 0 PROVE p + q <= r
  <2>1. d * (p + q) < d * r + d
    BY <1>1, <1>2, <1>3, <1>4, <1>7
  <2>2. p + q \in Int /\ r \in Int
    BY <1>2
  <2> QED
    BY <2>1, <2>2, ScaledOrder
<1> QED
  BY <1>2, <1>5, <1>6, <1>7 DEF p, q, r

LEMMA LevySplits ==
    ASSUME NEW x \in Nat, NEW y \in Nat
    PROVE  /\ Levy(x) + Levy(y) - Levy(x + y) >= -1
           /\ Levy(x) + Levy(y) - Levy(x + y) <= 1
<1> DEFINE half == LevyDenominator \div 2
<1>1. LevyNumerator \in Nat /\ LevyDenominator \in Nat \ {0}
  BY RatesAssumption
<1>2. half \in Nat /\ half < LevyDenominator
  BY <1>1, DivBound
<1>3. /\ Levy(x) = (x * LevyNumerator + half) \div LevyDenominator
      /\ Levy(y) = (y * LevyNumerator + half) \div LevyDenominator
      /\ Levy(x + y) = ((x + y) * LevyNumerator + half) \div LevyDenominator
  BY DEF Levy, RoundDivHalfUp
<1> HIDE DEF half
<1>4. /\ Levy(x) + Levy(y) \in Nat /\ Levy(x + y) \in Nat
      /\ Levy(x + y) <= Levy(x) + Levy(y) + 1
      /\ Levy(x) + Levy(y) <= Levy(x + y) + 1
  BY <1>1, <1>2, <1>3, DeductionSplits
<1>5. Levy(x) \in Nat /\ Levy(y) \in Nat
  BY LevyBound
<1> QED
  BY <1>4, <1>5

LEMMA FloorSplits ==
    ASSUME NEW x \in Nat, NEW y \in Nat, NEW m \in Nat, NEW d \in Nat \ {0}
    PROVE  /\ MulDivFloor(x, m, d) + MulDivFloor(y, m, d) <= MulDivFloor(x + y, m, d)
           /\ MulDivFloor(x + y, m, d) <= MulDivFloor(x, m, d) + MulDivFloor(y, m, d) + 1
<1>1. x * m + 0 = x * m /\ y * m + 0 = y * m /\ (x + y) * m + 0 = (x + y) * m
  OBVIOUS
<1>2. /\ MulDivFloor(x, m, d) = (x * m + 0) \div d
      /\ MulDivFloor(y, m, d) = (y * m + 0) \div d
      /\ MulDivFloor(x + y, m, d) = ((x + y) * m + 0) \div d
  BY <1>1 DEF MulDivFloor
<1> QED
  BY <1>2, DeductionSplits

(***************************************************************************)
(* The division, deduction by deduction: what each one leaves.             *)
(***************************************************************************)
AfterLevy(gross, s) == gross - s.levy
Net(gross, s) == AfterLevy(gross, s) - s.vat
DistributorShare(gross, s) == Net(gross, s) - s.theater
Pool(gross, s) == DistributorShare(gross, s) - s.distribution_fee
AfterMg(gross, s) == Pool(gross, s) - s.mg_recoup
Profit(gross, s) == AfterMg(gross, s) - s.investment_recoup

\* A rule that settle_batch accepts and whose fee is not above 100%.
SoundRule(r) ==
    /\ r \in RuleType
    /\ RuleAccepted(r)
    /\ r.distribution_fee_bps <= BpsDenominator

\* How the parts of a division follow from each other, and that they are amounts.
Steps(gross, r, g, i, s) ==
    /\ s.levy = Levy(gross)
    /\ s.vat = MulDivFloor(AfterLevy(gross, s), 1, VatDenominator)
    /\ s.theater = MulDivFloor(Net(gross, s), r.theater_bps, BpsDenominator)
    /\ s.distribution_fee = MulDivFloor(DistributorShare(gross, s),
                                        r.distribution_fee_bps, BpsDenominator)
    /\ s.mg_recoup = Recoup(Pool(gross, s), g)
    /\ s.investment_recoup = Recoup(AfterMg(gross, s), i)
    /\ s.investor_profit = MulDivFloor(Profit(gross, s), r.investor_profit_bps,
                                       BpsDenominator)
    /\ s.producer = Profit(gross, s) - s.investor_profit
Amounts(gross, s) ==
    /\ s.levy \in Nat /\ s.vat \in Nat /\ s.theater \in Nat /\ s.distribution_fee \in Nat
    /\ s.mg_recoup \in Nat /\ s.investment_recoup \in Nat
    /\ s.investor_profit \in Nat /\ s.producer \in Nat
    /\ AfterLevy(gross, s) \in Nat /\ Net(gross, s) \in Nat
    /\ DistributorShare(gross, s) \in Nat /\ Pool(gross, s) \in Nat
    /\ AfterMg(gross, s) \in Nat /\ Profit(gross, s) \in Nat

LEMMA SoundRates ==
    ASSUME NEW r, SoundRule(r)
    PROVE  /\ BpsDenominator \in Nat \ {0} /\ VatDenominator \in Nat \ {0}
           /\ r.theater_bps \in Nat /\ r.theater_bps <= BpsDenominator
           /\ r.distribution_fee_bps \in Nat /\ r.distribution_fee_bps <= BpsDenominator
           /\ r.investor_profit_bps \in Nat /\ r.investor_profit_bps <= BpsDenominator
BY RatesAssumption DEF SoundRule, RuleType, RuleAccepted

LEMMA SplitParts ==
    ASSUME NEW gross \in Nat, NEW r, SoundRule(r), NEW g \in Nat, NEW i \in Nat,
           NEW s, s = Split(gross, r, g, i)
    PROVE  /\ s.fee_fits
           /\ s.levy \in Nat /\ s.vat \in Nat /\ s.theater \in Nat
           /\ s.distribution_fee \in Nat /\ s.mg_recoup \in 0 .. g
           /\ s.investment_recoup \in 0 .. i
           /\ s.investor_profit \in Nat /\ s.producer \in Nat
           /\ Total(Credit(s)) + Tax(s) = gross
           /\ Amounts(gross, s)
           /\ Steps(gross, r, g, i, s)
<1>1. r \in RuleType /\ RuleAccepted(r) /\ r.distribution_fee_bps <= BpsDenominator
  BY DEF SoundRule
<1>2. s.fee_fits
  BY <1>1, FeeAlwaysFits
<1>3. /\ s.levy \in Nat /\ s.vat \in Nat /\ s.theater \in Nat
      /\ s.distribution_fee \in Nat /\ s.mg_recoup \in 0 .. g
      /\ s.investment_recoup \in 0 .. i
      /\ s.investor_profit \in Nat /\ s.producer \in Nat
      /\ Total(Credit(s)) + Tax(s) = gross
  BY <1>1, <1>2, WaterfallIsExactAndSound
<1>4. /\ s.levy = Levy(gross)
      /\ s.vat = Vat(AfterLevy(gross, s))
      /\ s.theater = MulDivFloor(Net(gross, s), r.theater_bps, BpsDenominator)
      /\ s.distribution_fee = MulDivFloor(DistributorShare(gross, s),
                                          r.distribution_fee_bps, BpsDenominator)
      /\ s.mg_recoup = Recoup(Pool(gross, s), g)
      /\ s.investment_recoup = Recoup(AfterMg(gross, s), i)
      /\ s.investor_profit = MulDivFloor(Profit(gross, s), r.investor_profit_bps,
                                         BpsDenominator)
      /\ s.producer = Profit(gross, s) - s.investor_profit
  BY DEF Split, AfterLevy, Net, DistributorShare, Pool, AfterMg, Profit, TheaterAmount,
     DistributionFee, InvestorProfit
<1>5. Profit(gross, s) \in Int
  BY <1>3 DEF Profit, AfterMg, Pool, DistributorShare, Net, AfterLevy
<1>6. Profit(gross, s) \in Nat
  BY <1>3, <1>4, <1>5
<1>7. AfterMg(gross, s) \in Nat
  BY <1>3, <1>6 DEF Profit, AfterMg, Pool, DistributorShare, Net, AfterLevy
<1>8. Pool(gross, s) \in Nat
  BY <1>3, <1>7 DEF AfterMg, Pool, DistributorShare, Net, AfterLevy
<1>9. DistributorShare(gross, s) \in Nat
  BY <1>3, <1>8 DEF Pool, DistributorShare, Net, AfterLevy
<1>10. Net(gross, s) \in Nat
  BY <1>3, <1>9 DEF DistributorShare, Net, AfterLevy
<1>11. AfterLevy(gross, s) \in Nat
  BY <1>3, <1>10 DEF Net, AfterLevy
<1>12. Amounts(gross, s)
  BY <1>3, <1>6, <1>7, <1>8, <1>9, <1>10, <1>11 DEF Amounts
<1>13. s.vat = MulDivFloor(AfterLevy(gross, s), 1, VatDenominator)
  BY <1>4, <1>11, VatIsFloor
<1>14. Steps(gross, r, g, i, s)
  BY <1>4, <1>13 DEF Steps
<1> QED
  BY <1>2, <1>3, <1>12, <1>14

LEMMA MonotoneSteps ==
    ASSUME NEW x \in Nat, NEW y \in Nat, x <= y, NEW r, SoundRule(r),
           NEW g \in Nat, NEW i \in Nat,
           NEW s, Steps(x, r, g, i, s), Amounts(x, s),
           NEW t, Steps(y, r, g, i, t), Amounts(y, t)
    PROVE  /\ s.theater <= t.theater /\ s.distribution_fee <= t.distribution_fee
           /\ s.mg_recoup <= t.mg_recoup /\ s.investment_recoup <= t.investment_recoup
           /\ s.investor_profit <= t.investor_profit /\ s.producer <= t.producer
<1>1. AfterLevy(x, s) <= AfterLevy(y, t)
  BY LevyMonotone DEF AfterLevy, Steps
<1>2. Net(x, s) <= Net(y, t)
  <2>1. VatDenominator \in Nat \ {0} /\ 1 \in Nat /\ 1 <= VatDenominator
    BY SoundRates
  <2>2. /\ AfterLevy(x, s) \in Nat /\ AfterLevy(y, t) \in Nat
        /\ s.vat = MulDivFloor(AfterLevy(x, s), 1, VatDenominator)
        /\ t.vat = MulDivFloor(AfterLevy(y, t), 1, VatDenominator)
    BY DEF Steps, Amounts
  <2>3. AfterLevy(x, s) - s.vat <= AfterLevy(y, t) - t.vat
    BY <1>1, <2>1, <2>2, FloorMonotone
  <2> QED
    BY <2>3 DEF Net
<1>3. s.theater <= t.theater /\ Net(x, s) - s.theater <= Net(y, t) - t.theater
  <2>1. /\ Net(x, s) \in Nat /\ Net(y, t) \in Nat
        /\ s.theater = MulDivFloor(Net(x, s), r.theater_bps, BpsDenominator)
        /\ t.theater = MulDivFloor(Net(y, t), r.theater_bps, BpsDenominator)
    BY DEF Steps, Amounts
  <2>2. /\ BpsDenominator \in Nat \ {0}
        /\ r.theater_bps \in Nat /\ r.theater_bps <= BpsDenominator
    BY SoundRates
  <2> QED
    BY <1>2, <2>1, <2>2, FloorMonotone
<1>4. DistributorShare(x, s) <= DistributorShare(y, t)
  BY <1>3 DEF DistributorShare
<1>5. /\ s.distribution_fee <= t.distribution_fee
      /\ DistributorShare(x, s) - s.distribution_fee <= DistributorShare(y, t) - t.distribution_fee
  <2>1. /\ DistributorShare(x, s) \in Nat /\ DistributorShare(y, t) \in Nat
        /\ s.distribution_fee = MulDivFloor(DistributorShare(x, s), r.distribution_fee_bps, BpsDenominator)
        /\ t.distribution_fee = MulDivFloor(DistributorShare(y, t), r.distribution_fee_bps, BpsDenominator)
    BY DEF Steps, Amounts
  <2>2. /\ BpsDenominator \in Nat \ {0}
        /\ r.distribution_fee_bps \in Nat /\ r.distribution_fee_bps <= BpsDenominator
    BY SoundRates
  <2> QED
    BY <1>4, <2>1, <2>2, FloorMonotone
<1>6. Pool(x, s) <= Pool(y, t)
  BY <1>5 DEF Pool
<1>7. s.mg_recoup <= t.mg_recoup /\ Pool(x, s) - s.mg_recoup <= Pool(y, t) - t.mg_recoup
  BY <1>6, RecoupMonotone DEF Steps, Amounts
<1>8. AfterMg(x, s) <= AfterMg(y, t)
  BY <1>7 DEF AfterMg
<1>9. /\ s.investment_recoup <= t.investment_recoup
      /\ AfterMg(x, s) - s.investment_recoup <= AfterMg(y, t) - t.investment_recoup
  BY <1>8, RecoupMonotone DEF Steps, Amounts
<1>10. Profit(x, s) <= Profit(y, t)
  BY <1>9 DEF Profit
<1>11. /\ s.investor_profit <= t.investor_profit
       /\ Profit(x, s) - s.investor_profit <= Profit(y, t) - t.investor_profit
  <2>1. /\ Profit(x, s) \in Nat /\ Profit(y, t) \in Nat
        /\ s.investor_profit = MulDivFloor(Profit(x, s), r.investor_profit_bps, BpsDenominator)
        /\ t.investor_profit = MulDivFloor(Profit(y, t), r.investor_profit_bps, BpsDenominator)
    BY DEF Steps, Amounts
  <2>2. /\ BpsDenominator \in Nat \ {0}
        /\ r.investor_profit_bps \in Nat /\ r.investor_profit_bps <= BpsDenominator
    BY SoundRates
  <2> QED
    BY <1>10, <2>1, <2>2, FloorMonotone
<1>12. s.producer <= t.producer
  BY <1>11 DEF Steps
<1> QED
  BY <1>3, <1>5, <1>7, <1>9, <1>11, <1>12

(***************************************************************************)
(* More takings never lower anybody's credit, whatever is outstanding: no  *)
(* rounding, and no change from one recoupment to the next, makes it pay   *)
(* to sell less.                                                           *)
(***************************************************************************)
THEOREM MoreGrossMoreCredit ==
    ASSUME NEW x \in Nat, NEW y \in Nat, x <= y, NEW r, SoundRule(r),
           NEW g \in Nat, NEW i \in Nat, NEW role \in Roles
    PROVE  Credit(Split(x, r, g, i))[role] <= Credit(Split(y, r, g, i))[role]
<1> DEFINE s == Split(x, r, g, i)
           t == Split(y, r, g, i)
<1>1. Steps(x, r, g, i, s) /\ Amounts(x, s)
  BY SplitParts
<1>2. Steps(y, r, g, i, t) /\ Amounts(y, t)
  BY SplitParts
<1> HIDE DEF s, t
<1>3. /\ s.theater <= t.theater /\ s.distribution_fee <= t.distribution_fee
      /\ s.mg_recoup <= t.mg_recoup /\ s.investment_recoup <= t.investment_recoup
      /\ s.investor_profit <= t.investor_profit /\ s.producer <= t.producer
  BY <1>1, <1>2, MonotoneSteps
<1>4. Credit(s)[role] <= Credit(t)[role]
  BY <1>1, <1>2, <1>3 DEF Credit, Roles, Amounts
<1> QED
  BY <1>4 DEF s, t

-----------------------------------------------------------------------------

(***************************************************************************)
(* Drift.  Two screenings settled one by one leave, at each deduction, an  *)
(* amount that differs by u from what one settlement of both leaves; the   *)
(* deduction then differs by v.  A floor adds at most one unit to the      *)
(* drift and a recoupment none, because the second screening recoups what  *)
(* the first one left outstanding.                                         *)
(***************************************************************************)
FloorDrifts(u, v) ==
    /\ u >= 0 => -1 <= v /\ v <= u
    /\ u <= 0 => u - 1 <= v /\ v <= 0
RecoupDrifts(u, v) ==
    /\ u >= 0 => 0 <= v /\ v <= u
    /\ u <= 0 => u <= v /\ v <= 0

LEMMA FloorDrift ==
    ASSUME NEW x \in Nat, NEW y \in Nat, NEW z \in Nat,
           NEW m \in Nat, NEW d \in Nat \ {0}, m <= d,
           NEW p, p = MulDivFloor(x, m, d),
           NEW q, q = MulDivFloor(y, m, d),
           NEW k, k = MulDivFloor(z, m, d)
    PROVE  FloorDrifts(x + y - z, p + q - k)
<1> DEFINE w == x + y
           l == MulDivFloor(w, m, d)
<1>0. w \in Nat
  OBVIOUS
<1>1. p \in Nat /\ q \in Nat /\ k \in Nat /\ l \in Nat
  BY <1>0, MulDivFloorNat
<1>2. p + q <= l /\ l <= p + q + 1
  BY FloorSplits
<1>3. CASE z <= w
  <2>1. k <= l /\ z - k <= w - l
    BY <1>0, <1>3, FloorMonotone
  <2> HIDE DEF l
  <2> QED
    BY <1>1, <1>2, <1>3, <2>1 DEF FloorDrifts
<1>4. CASE w <= z
  <2>1. l <= k /\ w - l <= z - k
    BY <1>0, <1>4, FloorMonotone
  <2> HIDE DEF l
  <2> QED
    BY <1>1, <1>2, <1>4, <2>1 DEF FloorDrifts
<1> QED
  BY <1>0, <1>3, <1>4

LEMMA RecoupDrift ==
    ASSUME NEW x \in Nat, NEW y \in Nat, NEW z \in Nat, NEW remaining \in Nat,
           NEW p, p = Recoup(x, remaining),
           NEW q, q = Recoup(y, remaining - p),
           NEW k, k = Recoup(z, remaining)
    PROVE  RecoupDrifts(x + y - z, p + q - k)
BY DEF Recoup, Lesser, RecoupDrifts

DriftsLittle(s, t, j) ==
    /\ (s.theater + t.theater) - j.theater \in -2 .. 2
    /\ ((s.distribution_fee + s.mg_recoup) + (t.distribution_fee + t.mg_recoup))
          - (j.distribution_fee + j.mg_recoup) \in -2 .. 3
    /\ ((s.investment_recoup + s.investor_profit) + (t.investment_recoup + t.investor_profit))
          - (j.investment_recoup + j.investor_profit) \in -2 .. 4
    /\ (s.producer + t.producer) - j.producer \in -1 .. 5

LEMMA DriftSteps ==
    ASSUME NEW x \in Nat, NEW y \in Nat, NEW r, SoundRule(r),
           NEW g \in Nat, NEW i \in Nat,
           NEW s, Steps(x, r, g, i, s), Amounts(x, s),
           NEW t, Steps(y, r, g - s.mg_recoup, i - s.investment_recoup, t), Amounts(y, t),
           NEW j, Steps(x + y, r, g, i, j), Amounts(x + y, j)
    PROVE  DriftsLittle(s, t, j)
<1> DEFINE z      == x + y
           uLevy  == AfterLevy(x, s) + AfterLevy(y, t) - AfterLevy(z, j)
           uNet   == Net(x, s) + Net(y, t) - Net(z, j)
           uShare == DistributorShare(x, s) + DistributorShare(y, t) - DistributorShare(z, j)
           uPool  == Pool(x, s) + Pool(y, t) - Pool(z, j)
           uMg    == AfterMg(x, s) + AfterMg(y, t) - AfterMg(z, j)
           uRest  == Profit(x, s) + Profit(y, t) - Profit(z, j)
           vVat   == s.vat + t.vat - j.vat
           vHouse == s.theater + t.theater - j.theater
           vFee   == s.distribution_fee + t.distribution_fee - j.distribution_fee
           vMg    == s.mg_recoup + t.mg_recoup - j.mg_recoup
           vInv   == s.investment_recoup + t.investment_recoup - j.investment_recoup
           vGain  == s.investor_profit + t.investor_profit - j.investor_profit
           vProd  == s.producer + t.producer - j.producer
<1>0. /\ BpsDenominator \in Nat \ {0} /\ VatDenominator \in Nat \ {0}
      /\ 1 \in Nat /\ 1 <= VatDenominator
      /\ r.theater_bps \in Nat /\ r.theater_bps <= BpsDenominator
      /\ r.distribution_fee_bps \in Nat /\ r.distribution_fee_bps <= BpsDenominator
      /\ r.investor_profit_bps \in Nat /\ r.investor_profit_bps <= BpsDenominator
  BY SoundRates
<1>1. uLevy \in Int /\ -1 <= uLevy /\ uLevy <= 1
  <2>1. /\ Levy(x) + Levy(y) - Levy(z) >= -1 /\ Levy(x) + Levy(y) - Levy(z) <= 1
    BY LevySplits
  <2>2. /\ s.levy = Levy(x) /\ t.levy = Levy(y) /\ j.levy = Levy(z)
        /\ s.levy \in Nat /\ t.levy \in Nat /\ j.levy \in Nat
    BY DEF Steps, Amounts
  <2> QED
    BY <2>1, <2>2 DEF AfterLevy
<1>2. /\ vVat \in Int /\ uNet = uLevy - vVat
      /\ vHouse \in Int /\ uShare = uNet - vHouse
      /\ vFee \in Int /\ uPool = uShare - vFee
      /\ vMg \in Int /\ uMg = uPool - vMg
      /\ vInv \in Int /\ uRest = uMg - vInv
      /\ vGain \in Int /\ vProd = uRest - vGain
  <2>1. uNet = uLevy - vVat /\ vVat \in Int
    <3>1. /\ AfterLevy(x, s) \in Nat /\ AfterLevy(y, t) \in Nat /\ AfterLevy(z, j) \in Nat
          /\ s.vat \in Nat /\ t.vat \in Nat /\ j.vat \in Nat
      BY DEF Amounts
    <3> QED
      BY <3>1 DEF Net
  <2>2. uShare = uNet - vHouse /\ vHouse \in Int
    <3>1. /\ Net(x, s) \in Nat /\ Net(y, t) \in Nat /\ Net(z, j) \in Nat
          /\ s.theater \in Nat /\ t.theater \in Nat /\ j.theater \in Nat
      BY DEF Amounts
    <3> QED
      BY <3>1 DEF DistributorShare
  <2>3. uPool = uShare - vFee /\ vFee \in Int
    <3>1. /\ DistributorShare(x, s) \in Nat /\ DistributorShare(y, t) \in Nat /\ DistributorShare(z, j) \in Nat
          /\ s.distribution_fee \in Nat /\ t.distribution_fee \in Nat /\ j.distribution_fee \in Nat
      BY DEF Amounts
    <3> QED
      BY <3>1 DEF Pool
  <2>4. uMg = uPool - vMg /\ vMg \in Int
    <3>1. /\ Pool(x, s) \in Nat /\ Pool(y, t) \in Nat /\ Pool(z, j) \in Nat
          /\ s.mg_recoup \in Nat /\ t.mg_recoup \in Nat /\ j.mg_recoup \in Nat
      BY DEF Amounts
    <3> QED
      BY <3>1 DEF AfterMg
  <2>5. uRest = uMg - vInv /\ vInv \in Int
    <3>1. /\ AfterMg(x, s) \in Nat /\ AfterMg(y, t) \in Nat /\ AfterMg(z, j) \in Nat
          /\ s.investment_recoup \in Nat /\ t.investment_recoup \in Nat /\ j.investment_recoup \in Nat
      BY DEF Amounts
    <3> QED
      BY <3>1 DEF Profit
  <2>6. vProd = uRest - vGain /\ vGain \in Int
    <3>1. /\ Profit(x, s) \in Nat /\ Profit(y, t) \in Nat /\ Profit(z, j) \in Nat
          /\ s.investor_profit \in Nat /\ t.investor_profit \in Nat /\ j.investor_profit \in Nat
      BY DEF Amounts
    <3>2. /\ s.producer = Profit(x, s) - s.investor_profit
          /\ t.producer = Profit(y, t) - t.investor_profit
          /\ j.producer = Profit(z, j) - j.investor_profit
      BY DEF Steps
    <3> QED
      BY <3>1, <3>2
  <2> QED
    BY <2>1, <2>2, <2>3, <2>4, <2>5, <2>6
<1>3. FloorDrifts(uLevy, vVat)
  <2>1. /\ AfterLevy(x, s) \in Nat /\ AfterLevy(y, t) \in Nat /\ AfterLevy(z, j) \in Nat
        /\ s.vat = MulDivFloor(AfterLevy(x, s), 1, VatDenominator)
        /\ t.vat = MulDivFloor(AfterLevy(y, t), 1, VatDenominator)
        /\ j.vat = MulDivFloor(AfterLevy(z, j), 1, VatDenominator)
    BY DEF Steps, Amounts
  <2> QED
    BY <1>0, <2>1, FloorDrift
<1>4. FloorDrifts(uNet, vHouse)
  <2>1. /\ Net(x, s) \in Nat /\ Net(y, t) \in Nat /\ Net(z, j) \in Nat
        /\ s.theater = MulDivFloor(Net(x, s), r.theater_bps, BpsDenominator)
        /\ t.theater = MulDivFloor(Net(y, t), r.theater_bps, BpsDenominator)
        /\ j.theater = MulDivFloor(Net(z, j), r.theater_bps, BpsDenominator)
    BY DEF Steps, Amounts
  <2> QED
    BY <1>0, <2>1, FloorDrift
<1>5. FloorDrifts(uShare, vFee)
  <2>1. /\ DistributorShare(x, s) \in Nat /\ DistributorShare(y, t) \in Nat /\ DistributorShare(z, j) \in Nat
        /\ s.distribution_fee = MulDivFloor(DistributorShare(x, s), r.distribution_fee_bps, BpsDenominator)
        /\ t.distribution_fee = MulDivFloor(DistributorShare(y, t), r.distribution_fee_bps, BpsDenominator)
        /\ j.distribution_fee = MulDivFloor(DistributorShare(z, j), r.distribution_fee_bps, BpsDenominator)
    BY DEF Steps, Amounts
  <2> QED
    BY <1>0, <2>1, FloorDrift
<1>6. RecoupDrifts(uPool, vMg)
  <2>1. /\ Pool(x, s) \in Nat /\ Pool(y, t) \in Nat /\ Pool(z, j) \in Nat
        /\ s.mg_recoup = Recoup(Pool(x, s), g)
        /\ t.mg_recoup = Recoup(Pool(y, t), g - s.mg_recoup)
        /\ j.mg_recoup = Recoup(Pool(z, j), g)
    BY DEF Steps, Amounts
  <2> QED
    BY <2>1, RecoupDrift
<1>7. RecoupDrifts(uMg, vInv)
  <2>1. /\ AfterMg(x, s) \in Nat /\ AfterMg(y, t) \in Nat /\ AfterMg(z, j) \in Nat
        /\ s.investment_recoup = Recoup(AfterMg(x, s), i)
        /\ t.investment_recoup = Recoup(AfterMg(y, t), i - s.investment_recoup)
        /\ j.investment_recoup = Recoup(AfterMg(z, j), i)
    BY DEF Steps, Amounts
  <2> QED
    BY <2>1, RecoupDrift
<1>8. FloorDrifts(uRest, vGain)
  <2>1. /\ Profit(x, s) \in Nat /\ Profit(y, t) \in Nat /\ Profit(z, j) \in Nat
        /\ s.investor_profit = MulDivFloor(Profit(x, s), r.investor_profit_bps, BpsDenominator)
        /\ t.investor_profit = MulDivFloor(Profit(y, t), r.investor_profit_bps, BpsDenominator)
        /\ j.investor_profit = MulDivFloor(Profit(z, j), r.investor_profit_bps, BpsDenominator)
    BY DEF Steps, Amounts
  <2> QED
    BY <1>0, <2>1, FloorDrift
<1> HIDE DEF uLevy, uNet, uShare, uPool, uMg, uRest, vVat, vHouse, vFee, vMg, vInv, vGain, vProd
<1>9. uNet \in -1 .. 2 /\ vHouse \in -2 .. 2 /\ uShare \in -1 .. 3
  <2>1. uNet \in -1 .. 2
    BY <1>1, <1>2, <1>3 DEF FloorDrifts
  <2>2. vHouse \in -2 .. 2
    BY <1>2, <1>4, <2>1 DEF FloorDrifts
  <2>3. uShare \in -1 .. 3
    BY <1>2, <1>4, <2>1 DEF FloorDrifts
  <2> QED
    BY <2>1, <2>2, <2>3
<1>10. uPool \in -1 .. 4 /\ uMg \in -1 .. 4 /\ uRest \in -1 .. 4
  <2>1. uPool \in -1 .. 4
    BY <1>2, <1>5, <1>9 DEF FloorDrifts
  <2>2. uMg \in -1 .. 4
    BY <1>2, <1>6, <2>1 DEF RecoupDrifts
  <2>3. uRest \in -1 .. 4
    BY <1>2, <1>7, <2>2 DEF RecoupDrifts
  <2> QED
    BY <2>1, <2>2, <2>3
<1>11. vFee + vMg \in -2 .. 3
  <2>1. CASE uPool >= 0
    <3>1. 0 <= vMg /\ vMg <= uPool
      BY <1>6, <2>1 DEF RecoupDrifts
    <3>2. -2 <= vFee
      BY <1>2, <1>5, <1>9 DEF FloorDrifts
    <3> QED
      BY <1>2, <1>9, <3>1, <3>2
  <2>2. CASE uPool < 0
    <3>1. uPool <= vMg /\ vMg <= 0
      BY <1>6, <1>10, <2>2 DEF RecoupDrifts
    <3>2. vFee >= 0 /\ vFee <= 3
      BY <1>2, <1>5, <1>9, <2>2 DEF FloorDrifts
    <3> QED
      BY <1>2, <1>9, <1>10, <3>1, <3>2
  <2> QED
    BY <1>10, <2>1, <2>2
<1>12. vInv + vGain \in -2 .. 4
  BY <1>2, <1>7, <1>8, <1>10 DEF FloorDrifts, RecoupDrifts
<1>13. vProd \in -1 .. 5
  BY <1>2, <1>8, <1>10 DEF FloorDrifts
<1>14. /\ ((s.distribution_fee + s.mg_recoup) + (t.distribution_fee + t.mg_recoup))
             - (j.distribution_fee + j.mg_recoup) = vFee + vMg
       /\ ((s.investment_recoup + s.investor_profit) + (t.investment_recoup + t.investor_profit))
             - (j.investment_recoup + j.investor_profit) = vInv + vGain
  BY DEF Amounts, vFee, vMg, vInv, vGain
<1>15. /\ (s.theater + t.theater) - j.theater = vHouse
       /\ (s.producer + t.producer) - j.producer = vProd
  BY DEF Amounts, vHouse, vProd
<1> QED
  BY <1>9, <1>11, <1>12, <1>13, <1>14, <1>15 DEF DriftsLittle

LEMMA SplitsDriftLittle ==
    ASSUME NEW x \in Nat, NEW y \in Nat, NEW r, SoundRule(r),
           NEW g \in Nat, NEW i \in Nat,
           NEW s, s = Split(x, r, g, i),
           NEW t, t = Split(y, r, g - s.mg_recoup, i - s.investment_recoup),
           NEW j, j = Split(x + y, r, g, i)
    PROVE  DriftsLittle(s, t, j)
<1>1. /\ Steps(x, r, g, i, s) /\ Amounts(x, s)
      /\ s.mg_recoup \in 0 .. g /\ s.investment_recoup \in 0 .. i
  BY SplitParts
<1>2. g - s.mg_recoup \in Nat /\ i - s.investment_recoup \in Nat
  BY <1>1
<1>3. Steps(y, r, g - s.mg_recoup, i - s.investment_recoup, t) /\ Amounts(y, t)
  BY <1>2, SplitParts
<1>4. x + y \in Nat
  OBVIOUS
<1>5. Steps(x + y, r, g, i, j) /\ Amounts(x + y, j)
  BY <1>4, SplitParts
<1> QED
  BY <1>1, <1>3, <1>5, DriftSteps

LEMMA DriftOfCredits ==
    ASSUME NEW s, NEW t, NEW j, DriftsLittle(s, t, j), NEW role \in Roles
    PROVE  (Credit(s)[role] + Credit(t)[role]) - Credit(j)[role] \in Drift[role]
BY DEF DriftsLittle, Credit, Drift, Roles

(***************************************************************************)
(* Two screenings settled one after the other, as the agent does it, or    *)
(* their takings settled at once: at any rates and any outstanding amounts *)
(* the rounding moves the theatre by at most 2 units, the distributor by   *)
(* at most 3, the investor by at most 4 and the producer by at most 5.     *)
(***************************************************************************)
THEOREM DriftIsBounded ==
    ASSUME NEW x \in Nat, NEW y \in Nat, NEW r, SoundRule(r),
           NEW g \in Nat, NEW i \in Nat,
           NEW s, s = Split(x, r, g, i),
           NEW t, t = Split(y, r, g - s.mg_recoup, i - s.investment_recoup),
           NEW j, j = Split(x + y, r, g, i)
    PROVE  \A role \in Roles :
              (Credit(s)[role] + Credit(t)[role]) - Credit(j)[role] \in Drift[role]
<1>1. DriftsLittle(s, t, j)
  BY SplitsDriftLittle
<1> QED
  BY <1>1, DriftOfCredits

-----------------------------------------------------------------------------

(***************************************************************************)
(* The levy is the nearest unit to its share of the gross.                 *)
(***************************************************************************)
LEMMA LevyNearest ==
    ASSUME NEW gross \in Nat, NEW error,
           error = LevyDenominator * Levy(gross) - LevyNumerator * gross
    PROVE  2 * error <= LevyDenominator /\ -2 * error <= LevyDenominator
<1> DEFINE half == LevyDenominator \div 2
           n == gross * LevyNumerator
           q == (n + half) \div LevyDenominator
<1>1. LevyNumerator \in Nat /\ LevyDenominator \in Nat \ {0}
  BY RatesAssumption
<1>2. half \in Nat /\ 2 * half <= LevyDenominator /\ LevyDenominator < 2 * half + 2
  BY <1>1, DivBound
<1>3. n \in Nat /\ LevyNumerator * gross = n
  BY <1>1
<1>4. Levy(gross) = q
  BY DEF Levy, RoundDivHalfUp
<1> HIDE DEF half, n
<1>5. n + half \in Nat
  BY <1>2, <1>3
<1>6. /\ q \in Nat /\ LevyDenominator * q <= n + half
      /\ n + half < LevyDenominator * q + LevyDenominator
  BY <1>1, <1>5, DivBound
<1> HIDE DEF q
<1>7. LevyDenominator * q \in Nat /\ error = LevyDenominator * q - n
  BY <1>1, <1>3, <1>4, <1>6
<1> QED
  BY <1>1, <1>2, <1>3, <1>6, <1>7

(***************************************************************************)
(* The inductive invariant of a season: the outstanding amounts are never  *)
(* negative, each settlement on record is the division of its gross        *)
(* against what was outstanding at the time, and what it left is what the  *)
(* next one found.                                                         *)
(***************************************************************************)
DividedBy(r, s) ==
    /\ s.gross \in Nat /\ s.mg \in Nat /\ s.inv \in Nat
    /\ s.split = Split(s.gross, r, s.mg, s.inv)

OnRecord == \A k \in 1 .. Len(season) : DividedBy(rule, season[k])

Leaves(s, g, i) == g = s.mg - s.split.mg_recoup /\ i = s.inv - s.split.investment_recoup

CarriedOver ==
    \A k \in 1 .. Len(season) :
        /\ k < Len(season) => Leaves(season[k], season[k + 1].mg, season[k + 1].inv)
        /\ k = Len(season) => Leaves(season[k], mg, inv)

SeasonInvariant ==
    /\ rule \in Rules
    /\ mg \in Nat /\ inv \in Nat
    /\ \E S : season \in Seq(S)
    /\ OnRecord /\ CarriedOver

LEMMA SeasonRule ==
    ASSUME rule \in Rules
    PROVE  SoundRule(rule)
BY SeasonAssumption DEF SoundRule

LEMMA SeasonStarts == Init => SeasonInvariant
<1> SUFFICES ASSUME Init PROVE SeasonInvariant
  OBVIOUS
<1>1. season \in Seq(Nat) /\ Len(season) = 0
  BY DEF Init
<1>2. OnRecord /\ CarriedOver
  BY <1>1 DEF OnRecord, CarriedOver
<1> QED
  BY <1>1, <1>2, SeasonAssumption DEF Init, SeasonInvariant

LEMMA SeasonContinues ==
    ASSUME SeasonInvariant, [Next]_vars
    PROVE  SeasonInvariant'
<1>1. CASE UNCHANGED vars
  BY <1>1 DEF vars, SeasonInvariant, OnRecord, CarriedOver
<1>2. ASSUME NEW gross \in Screenings, Settle(gross)
      PROVE  SeasonInvariant'
  <2> DEFINE split == Split(gross, rule, mg, inv)
             entry == [gross |-> gross, mg |-> mg, inv |-> inv, split |-> split]
  <2>1. /\ gross \in Nat /\ mg \in Nat /\ inv \in Nat /\ rule \in Rules
    BY SeasonAssumption DEF SeasonInvariant
  <2>2. split.mg_recoup \in 0 .. mg /\ split.investment_recoup \in 0 .. inv
    BY <2>1, SeasonRule, SplitParts
  <2>3. /\ mg' = mg - split.mg_recoup /\ inv' = inv - split.investment_recoup
        /\ season' = Append(season, entry) /\ rule' = rule
    BY <1>2 DEF Settle
  <2>4. DividedBy(rule, entry) /\ entry.mg = mg /\ entry.inv = inv /\ Leaves(entry, mg', inv')
    BY <2>1, <2>3 DEF DividedBy, Leaves
  <2> HIDE DEF split, entry
  <2>5. mg' \in Nat /\ inv' \in Nat
    <3>1. mg - split.mg_recoup \in Nat
      BY <2>1, <2>2
    <3>2. inv - split.investment_recoup \in Nat
      BY <2>1, <2>2
    <3> QED
      BY <2>3, <3>1, <3>2
  <2>6. PICK S : season \in Seq(S)
    BY DEF SeasonInvariant
  <2>7. season \in Seq(S \cup {entry}) /\ season' \in Seq(S \cup {entry})
    <3>1. season \in Seq(S \cup {entry})
      BY <2>6
    <3> QED
      BY <3>1, <2>3
  <2>8. OnRecord'
    <3>1. Len(season) \in Nat /\ Len(season') = Len(season) + 1
      BY <2>3, <2>7
    <3>2. ASSUME NEW k \in 1 .. Len(season') PROVE DividedBy(rule, season'[k])
      <4>1. CASE k <= Len(season)
        <5>1. season'[k] = season[k] /\ k \in 1 .. Len(season)
          BY <2>3, <2>7, <3>1, <4>1
        <5> QED
          BY <5>1 DEF SeasonInvariant, OnRecord
      <4>2. CASE k = Len(season) + 1
        <5>1. season'[k] = entry
          BY <2>3, <2>7, <4>2
        <5> QED
          BY <5>1, <2>4
      <4> QED
        BY <3>1, <4>1, <4>2
    <3> QED
      BY <2>3, <3>2 DEF OnRecord
  <2>9. CarriedOver'
    <3>1. Len(season) \in Nat /\ Len(season') = Len(season) + 1
      BY <2>3, <2>7
    <3>2. /\ season'[Len(season) + 1] = entry
          /\ \A k \in 1 .. Len(season) : season'[k] = season[k]
      BY <2>3, <2>7
    <3>3. ASSUME NEW k \in 1 .. Len(season')
          PROVE  /\ k < Len(season') => Leaves(season'[k], season'[k + 1].mg, season'[k + 1].inv)
                 /\ k = Len(season') => Leaves(season'[k], mg', inv')
      <4>1. CASE k < Len(season)
        <5>1. k \in 1 .. Len(season) /\ k + 1 \in 1 .. Len(season) /\ k < Len(season')
              /\ k # Len(season')
          BY <3>1, <4>1
        <5>2. season'[k] = season[k] /\ season'[k + 1] = season[k + 1]
          BY <3>2, <5>1
        <5> QED
          BY <4>1, <5>1, <5>2 DEF SeasonInvariant, CarriedOver
      <4>2. CASE k = Len(season)
        <5>1. k \in 1 .. Len(season) /\ k < Len(season') /\ k # Len(season')
          BY <3>1, <4>2
        <5>2. season'[k] = season[k] /\ season'[k + 1] = entry
          BY <3>2, <4>2, <5>1
        <5>3. Leaves(season[k], mg, inv)
          BY <4>2, <5>1 DEF SeasonInvariant, CarriedOver
        <5> QED
          BY <2>4, <5>1, <5>2, <5>3
      <4>3. CASE k = Len(season) + 1
        <5>1. season'[k] = entry /\ ~ (k < Len(season'))
          BY <3>1, <3>2, <4>3
        <5> QED
          BY <2>4, <5>1
      <4> QED
        BY <3>1, <4>1, <4>2, <4>3
    <3> QED
      BY <3>3 DEF CarriedOver
  <2> QED
    BY <2>1, <2>3, <2>5, <2>7, <2>8, <2>9 DEF SeasonInvariant
<1> QED
  BY <1>1, <1>2 DEF Next

LEMMA AlwaysSeason == Spec => []SeasonInvariant
<1>1. Init => SeasonInvariant
  BY SeasonStarts
<1>2. SeasonInvariant /\ [Next]_vars => SeasonInvariant'
  BY SeasonContinues
<1> QED
  BY <1>1, <1>2, PTL DEF Spec

\* A settlement on record is the division of an amount under a sound rule.
LEMMA SettledIsDivided ==
    ASSUME SeasonInvariant, NEW s \in Settled
    PROVE  SoundRule(rule) /\ DividedBy(rule, s)
<1>1. PICK k \in 1 .. Len(season) : s = season[k]
  BY DEF Settled
<1> QED
  BY <1>1, SeasonRule DEF SeasonInvariant, OnRecord

\* Every settlement of the season divides its gross exactly, fails no checked
\* subtraction of settle_batch and recoups no more than was outstanding.
THEOREM SeasonIsExact == Spec => []SplitIsExactAndSound
<1>1. ASSUME SeasonInvariant PROVE SplitIsExactAndSound
  <2> SUFFICES ASSUME NEW s \in Settled
               PROVE  /\ Total(Credit(s.split)) + Tax(s.split) = s.gross
                      /\ s.split.fee_fits
                      /\ \A part \in DOMAIN s.split \ {"fee_fits"} : s.split[part] >= 0
                      /\ s.split.mg_recoup <= s.mg
                      /\ s.split.investment_recoup <= s.inv
    BY DEF SplitIsExactAndSound
  <2>1. SoundRule(rule) /\ DividedBy(rule, s)
    BY <1>1, SettledIsDivided
  <2> DEFINE split == s.split
  <2>2. /\ s.gross \in Nat /\ s.mg \in Nat /\ s.inv \in Nat
        /\ split = Split(s.gross, rule, s.mg, s.inv)
    BY <2>1 DEF DividedBy
  <2>3. DOMAIN split = {"levy", "vat", "theater", "distribution_fee", "fee_fits", "mg_recoup",
                        "investment_recoup", "investor_profit", "producer"}
    BY <2>2 DEF Split
  <2>4. /\ split.fee_fits
        /\ split.mg_recoup \in 0 .. s.mg /\ split.investment_recoup \in 0 .. s.inv
        /\ Total(Credit(split)) + Tax(split) = s.gross
        /\ Amounts(s.gross, split)
    BY <2>1, <2>2, SplitParts
  <2> HIDE DEF split
  <2>5. \A part \in DOMAIN split \ {"fee_fits"} : split[part] \in Nat
    BY <2>3, <2>4 DEF Amounts
  <2>6. \A part \in DOMAIN split \ {"fee_fits"} : split[part] >= 0
    BY <2>5
  <2> QED
    BY <2>2, <2>4, <2>6 DEF split
<1> QED
  BY <1>1, AlwaysSeason, PTL

\* The levy of every screening is the fund's share of its gross to the nearest
\* unit, at any rates: RoundDivHalfUp rounds once and carries nothing over.
THEOREM SeasonLevyIsNearest == Spec => []LevyIsNearest
<1>1. ASSUME SeasonInvariant PROVE LevyIsNearest
  <2> SUFFICES ASSUME NEW s \in Settled
               PROVE  LET error == LevyDenominator * s.split.levy - LevyNumerator * s.gross
                      IN  2 * error <= LevyDenominator /\ -2 * error <= LevyDenominator
    BY DEF LevyIsNearest
  <2>1. s.gross \in Nat /\ s.split = Split(s.gross, rule, s.mg, s.inv)
    BY <1>1, SettledIsDivided DEF DividedBy
  <2>2. s.split.levy = Levy(s.gross)
    BY <2>1 DEF Split
  <2> QED
    BY <2>1, <2>2, LevyNearest
<1> QED
  BY <1>1, AlwaysSeason, PTL

\* In every season, one unit more of a screening's gross would have lowered
\* nobody's credit, whatever had been recouped by then.
THEOREM SeasonRewardsSales == Spec => []MoreIsNeverLess
<1>1. ASSUME SeasonInvariant PROVE MoreIsNeverLess
  <2> SUFFICES ASSUME NEW s \in Settled, NEW role \in Roles
               PROVE  Credit(Split(s.gross + 1, rule, s.mg, s.inv))[role]
                         >= Credit(s.split)[role]
    BY DEF MoreIsNeverLess
  <2>1. /\ SoundRule(rule) /\ s.gross \in Nat /\ s.mg \in Nat /\ s.inv \in Nat
        /\ s.split = Split(s.gross, rule, s.mg, s.inv)
    BY <1>1, SettledIsDivided DEF DividedBy
  <2>2. s.gross + 1 \in Nat /\ s.gross <= s.gross + 1
    BY <2>1
  <2>3. Credit(s.split)[role] <= Credit(Split(s.gross + 1, rule, s.mg, s.inv))[role]
    BY <2>1, <2>2, MoreGrossMoreCredit
  <2> QED
    BY <2>3
<1> QED
  BY <1>1, AlwaysSeason, PTL

\* Cutting a screening's takings in two, at any rates and in any season, moves
\* nobody by more than the windows say.
THEOREM SeasonDriftsLittle == Spec => []SettlementDrift
<1>1. ASSUME SeasonInvariant PROVE SettlementDrift
  <2> SUFFICES ASSUME Len(season) = 2 PROVE SettlementDrift
    BY DEF SettlementDrift
  <2> DEFINE x == season[1].gross
             y == season[2].gross
             g == season[1].mg
             i == season[1].inv
             s == season[1].split
             t == season[2].split
             j == Split(x + y, rule, g, i)
  <2>1. SoundRule(rule) /\ DividedBy(rule, season[1]) /\ DividedBy(rule, season[2])
    BY <1>1, SeasonRule DEF SeasonInvariant, OnRecord
  <2>2. Leaves(season[1], season[2].mg, season[2].inv)
    BY <1>1 DEF SeasonInvariant, CarriedOver
  <2>3. /\ x \in Nat /\ y \in Nat /\ g \in Nat /\ i \in Nat
        /\ s = Split(x, rule, g, i)
        /\ t = Split(y, rule, g - s.mg_recoup, i - s.investment_recoup)
    BY <2>1, <2>2 DEF DividedBy, Leaves
  <2>4. j = Split(x + y, rule, g, i)
    OBVIOUS
  <2> HIDE DEF x, y, g, i, s, t, j
  <2>5. DriftsLittle(s, t, j)
    BY <2>1, <2>3, <2>4, SplitsDriftLittle
  <2>6. \A role \in Roles :
            (Credit(s)[role] + Credit(t)[role]) - Credit(j)[role] \in Drift[role]
    BY <2>5, DriftOfCredits
  <2> QED
    BY <2>6 DEF SettlementDrift, x, y, g, i, s, t, j
<1> QED
  BY <1>1, AlwaysSeason, PTL
=============================================================================
