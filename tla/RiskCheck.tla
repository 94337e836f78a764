------------------------------ MODULE RiskCheck ------------------------------
(***************************************************************************)
(* The risk check and the judge of the agent (apps/agent/src/risk-check,   *)
(* judge): the verdict on a screening, given its ticket log and whether    *)
(* the theatre has settled anything before.                                *)
(***************************************************************************)
EXTENDS Integers, SequencesExt

CONSTANTS
    Log,            \* the ticket events of each screening, with kind and amount
    SeatCount       \* ScreeningMeta.seatCount of each screening

TicketEvent == [kind : {"issue", "refund"}, amount : Nat]

ASSUME RiskAssumption ==
    /\ \A screening \in DOMAIN Log : Log[screening] \in Seq(TicketEvent)
    /\ SeatCount \in [DOMAIN Log -> Nat]

(***************************************************************************)
(* Rates in percent.  The 10% of a new theatre is tightened by a product   *)
(* of doubles, 0.1 * 0.7, that lies just below 0.07, and so a rate of      *)
(* exactly 7% exceeds it.                                                  *)
(***************************************************************************)
AdjustThresholds(isNew, screening) ==
    [maxRefundRate |-> IF isNew THEN [percent |-> 7, inclusive |-> FALSE]
                       ELSE [percent |-> 10, inclusive |-> TRUE],
     maxFreeRate |-> [percent |-> 5, inclusive |-> TRUE],
     maxTicketsPerScreening |-> SeatCount[screening]]

\* part / whole is within the bound; the rate of an empty log is 0.
RateWithin(part, whole, bound) ==
    \/ whole = 0
    \/ 100 * part < bound.percent * whole
    \/ bound.inclusive /\ 100 * part = bound.percent * whole

Count(log, kind) == Len(SelectSeq(log, LAMBDA e : e.kind = kind))

CheckRefundRate(log, thresholds) ==
    RateWithin(Count(log, "refund"), Count(log, "issue"), thresholds.maxRefundRate)

CheckFreeRate(log, thresholds) ==
    RateWithin(Len(SelectSeq(log, LAMBDA e : e.kind = "issue" /\ e.amount = 0)),
               Count(log, "issue"), thresholds.maxFreeRate)

CheckOverIssue(log, thresholds) ==
    Count(log, "issue") <= thresholds.maxTicketsPerScreening

VerifyIntegrity(log, thresholds) ==
    [refundRate |-> CheckRefundRate(log, thresholds),
     freeRate   |-> CheckFreeRate(log, thresholds),
     overIssue  |-> CheckOverIssue(log, thresholds)]

JudgeSettlement(checks) ==
    IF \A check \in DOMAIN checks : checks[check] THEN "proceed" ELSE "partial-hold"

\* What is settled, and named as held: sales less refunds.
NetAmountOf(log) ==
    FoldLeft(LAMBDA sum, e : IF e.kind = "issue" THEN sum + e.amount ELSE sum - e.amount,
             0, log)

\* The verdict on every screening, for a new theatre and for a known one.
VerdictOf ==
    [isNew \in BOOLEAN |-> [screening \in DOMAIN Log |->
        JudgeSettlement(VerifyIntegrity(Log[screening], AdjustThresholds(isNew, screening)))]]
NetAmount == [screening \in DOMAIN Log |-> NetAmountOf(Log[screening])]
=============================================================================
