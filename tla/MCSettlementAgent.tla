------------------------- MODULE MCSettlementAgent -------------------------
(***************************************************************************)
(* Instances of SettlementAgent for TLC: a batch of two screenings.  The   *)
(* first is clean; the second has one refund in 13 tickets, too many for a *)
(* theatre without a history.  Each nets 12; without levy and VAT it gives *)
(* the theatre and the producer 6 each.                                    *)
(***************************************************************************)
EXTENDS SettlementAgent

CONSTANTS w1, s1, s2

MCWallets == {w1}
MCAgentWallets == [role \in Roles |-> w1]
MCAssignments == {MCAgentWallets}

MCRule ==
    [rule_version |-> 1, theater_bps |-> 1, distributor_bps |-> 1,
     distribution_fee_bps |-> 0, investor_profit_bps |-> 0]
MCRules == {MCRule}

MCBatch == <<s1, s2>>
OneScreening == <<s1>>

Tickets(n, price) == [i \in 1 .. n |-> [kind |-> "issue", amount |-> price]]
Log1 == Tickets(12, 1)
MCLog == [s \in {s1, s2} |->
    IF s = s1 THEN Log1 ELSE Append(Tickets(13, 1), [kind |-> "refund", amount |-> 1])]
MCSeatCount == [s \in {s1, s2} |-> 50]

\* A second screening suspicious to everybody: 2 free tickets in 14.
FreeLog == [s \in {s1, s2} |-> IF s = s1 THEN Log1 ELSE Tickets(12, 1) \o Tickets(2, 0)]
SuspectScreening == <<s2>>
=============================================================================
