---------------------------- MODULE PurchasePage ----------------------------
(***************************************************************************)
(* The ticket page (apps/web, PurchasePage.tsx): a browser tab in which    *)
(* one person connects a wallet, pays and asks for refunds.  Of the escrow *)
(* only what the page sees is here: a deposit or a refund lands or it does *)
(* not.  refund_pending takes whatever is pending, whoever paid it, so     *)
(* deposits and settlements of others make either outcome possible at any  *)
(* time.                                                                   *)
(*                                                                         *)
(* Each handler is an async function: one step up to its await, one when   *)
(* the call it waits for returns or throws.  What it captured when it was  *)
(* clicked is in the record of the call.  Between the two steps the person *)
(* may press any button that is not disabled.                              *)
(*                                                                         *)
(* sendAndConfirm sends one transaction and waits; it may give up on a     *)
(* transaction that has landed, or that lands later.                       *)
(*                                                                         *)
(* A name with an underscore, Action_Variant, is a deliberately wrong      *)
(* variant of the definition that follows it; no specification uses it.    *)
(***************************************************************************)
EXTENDS Naturals, FiniteSetsExt

CONSTANTS
    Showtimes,      \* SHOWTIMES, and the first of them
    FirstShowtime,
    MaxTickets,     \* the largest number of seats (8 in the page)
    MaxCalls,       \* bounds: presses of each of the three buttons,
    MaxVisits       \*         and how often the page is opened

CallKinds == {"connect", "pay", "refund"}
NoCall == 0         \* null, for a signature

ASSUME PurchaseAssumption ==
    /\ FirstShowtime \in Showtimes
    /\ MaxTickets \in Nat \ {0}
    /\ MaxCalls \in [CallKinds -> Nat]
    /\ MaxVisits \in Nat \ {0}

VARIABLES
    \* the state of the component; seats is the length of the list A1, A2, ...
    showtime, qty, pay, wallet, seats, txSignature, refundSignature,
    \* the visit of the page that is on screen (App.tsx)
    visit,
    \* handlers that wait, the calls made so far of each kind
    calls, made,
    \* transactions that may still land, and those that have landed
    underway, landed,
    \* history: what went wrong around this page
    slips

formVars    == <<showtime, qty>>
receiptVars == <<seats, txSignature, refundSignature>>
pageVars    == <<formVars, pay, wallet, receiptVars, visit>>
networkVars == <<underway, landed>>
purchaseVars == <<pageVars, calls, made, networkVars, slips>>

PageStates == {"idle", "connecting", "connected", "signing", "paid", "refunding", "refunded"}

\* The state a handler puts the page in when it begins.
Busy == [connect |-> "connecting", pay |-> "signing", refund |-> "refunding"]

PurchaseInit ==
    /\ showtime = FirstShowtime /\ qty = 1
    /\ pay = "idle" /\ wallet = FALSE
    /\ seats = 0 /\ txSignature = NoCall /\ refundSignature = NoCall
    /\ visit = 1
    /\ calls = {} /\ made = [kind \in CallKinds |-> 0]
    /\ underway = {} /\ landed = {}
    /\ slips = {}

-----------------------------------------------------------------------------
(***************************************************************************)
(* Buttons that are not disabled, in the page as rendered.                 *)
(***************************************************************************)
MayChoose == pay \notin {"signing", "refunding"}
MayConnect == pay \notin {"connecting", "signing"}

MayPay_AfterPayment == wallet /\ pay \notin {"signing", "refunding"}
MayPay == wallet /\ pay \notin {"signing", "paid", "refunding"}

\* The receipt, and with it the refund button, needs a deposit transaction.
ReceiptShown == pay \in {"paid", "refunding", "refunded"} /\ txSignature # NoCall

MayRefund_Again == ReceiptShown /\ pay # "refunding"
MayRefund == ReceiptShown /\ pay \notin {"refunding", "refunded"}

Slip(cause, happened) == slips' = IF happened THEN slips \cup {cause} ELSE slips

\* The tickets of a call: seatLabels(count) in the showtime selected now.
Order(count) == [screening |-> showtime, seats |-> count]
NoOrder == [screening |-> FirstShowtime, seats |-> 0]

(***************************************************************************)
(* A click: the handler captures its inputs and runs up to its await.      *)
(***************************************************************************)
Begin(kind, order) ==
    /\ made[kind] < MaxCalls[kind]
    /\ made' = [made EXCEPT ![kind] = @ + 1]
    /\ LET call == [kind |-> kind, id |-> made[kind] + 1, visit |-> visit, order |-> order]
       IN  /\ calls' = calls \cup {call}
           /\ underway' = IF kind = "connect" THEN underway ELSE underway \cup {call}
    /\ pay' = Busy[kind]
    /\ UNCHANGED <<formVars, wallet, txSignature, refundSignature, visit, landed>>

ChooseShowtime(s) ==
    /\ MayChoose
    /\ showtime' = s
    /\ Slip("moved", pay = "paid" /\ s # showtime)
    /\ UNCHANGED <<qty, pay, wallet, receiptVars, visit, calls, made, networkVars>>

ChooseQty_Unbounded ==
    /\ MayChoose
    /\ qty' \in {qty - 1, qty + 1}
    /\ UNCHANGED <<showtime, pay, wallet, receiptVars, visit, calls, made,
                   networkVars, slips>>

ChooseQty ==
    /\ MayChoose
    /\ qty' \in {qty - 1, qty + 1} \cap 1 .. MaxTickets
    /\ UNCHANGED <<showtime, pay, wallet, receiptVars, visit, calls, made,
                   networkVars, slips>>

ConnectWallet ==
    /\ MayConnect
    /\ Begin("connect", NoOrder)
    /\ Slip("astray", pay \in {"paid", "refunding"})
    /\ UNCHANGED seats

StartPayment_SeatsFirst ==
    /\ MayPay
    /\ Begin("pay", Order(qty))
    /\ Slip("astray", pay = "connecting")
    /\ seats' = qty

StartPayment ==
    /\ MayPay
    /\ Begin("pay", Order(qty))
    /\ Slip("astray", pay = "connecting")
    /\ UNCHANGED seats

\* The refund is for the seats of the receipt, but in the showtime selected now.
RequestRefund ==
    /\ MayRefund
    /\ wallet /\ seats # 0
    /\ Begin("refund", Order(seats))
    /\ UNCHANGED <<seats, slips>>

-----------------------------------------------------------------------------
(***************************************************************************)
(* What the awaited call does.  depositTickets and refundPendingTickets    *)
(* read the escrow, have one transaction signed and send it; until the     *)
(* wallet, the node or the cluster drops it, it may land.                  *)
(***************************************************************************)
\* What is refused, rejected or dropped stays under way and never lands.
Land(tx) ==
    /\ tx \in underway
    /\ underway' = underway \ {tx}
    /\ landed' = landed \cup {tx}
    /\ Slip("astray", tx \notin calls)
    /\ UNCHANGED <<pageVars, calls, made>>

(***************************************************************************)
(* The end of a handler.  A page that has been left is not there to be     *)
(* changed: React ignores the setters of an unmounted component.           *)
(***************************************************************************)
OnScreen(call) == call.visit = visit

Confirmed(call) == call \in calls /\ (call.kind = "connect" \/ call \in landed)

Succeed(call) ==
    /\ Confirmed(call)
    /\ calls' = calls \ {call}
    /\ IF ~OnScreen(call)
       THEN UNCHANGED <<pay, wallet, receiptVars>>
       ELSE \/ /\ call.kind = "connect"
               /\ wallet' = TRUE
               /\ pay' = "connected"
               /\ UNCHANGED receiptVars
            \/ /\ call.kind = "pay"
               /\ seats' = call.order.seats
               /\ txSignature' = call.id
               /\ refundSignature' = NoCall
               /\ pay' = "paid"
               /\ UNCHANGED wallet
            \/ /\ call.kind = "refund"
               /\ refundSignature' = call.id
               /\ pay' = "refunded"
               /\ UNCHANGED <<wallet, seats, txSignature>>
    /\ UNCHANGED <<formVars, visit, made, networkVars, slips>>

\* Where the catch of each handler leaves the page.
AfterFailure_Stuck == [connect |-> "idle", pay |-> "signing", refund |-> "paid"]
AfterFailure == [connect |-> "idle", pay |-> "connected", refund |-> "paid"]

Fail(call) ==
    /\ call \in calls
    /\ calls' = calls \ {call}
    /\ pay' = IF OnScreen(call) THEN AfterFailure[call.kind] ELSE pay
    /\ Slip("astray", call \in landed)
    /\ UNCHANGED <<formVars, wallet, receiptVars, visit, made, networkVars>>

(***************************************************************************)
(* App.tsx: another screen and back.  The component is mounted anew.       *)
(***************************************************************************)
LeaveAndReturn ==
    /\ visit < MaxVisits
    /\ visit' = visit + 1
    /\ showtime' = FirstShowtime /\ qty' = 1
    /\ pay' = "idle" /\ wallet' = FALSE
    /\ seats' = 0 /\ txSignature' = NoCall /\ refundSignature' = NoCall
    /\ Slip("left", pay \in {"signing", "paid", "refunding"} \/ calls # {})
    /\ UNCHANGED <<calls, made, networkVars>>

-----------------------------------------------------------------------------
Click ==
    \/ \E s \in Showtimes : ChooseShowtime(s)
    \/ ChooseQty
    \/ ConnectWallet \/ StartPayment \/ RequestRefund \/ LeaveAndReturn

Resolve(call) == Succeed(call) \/ Fail(call)

PurchaseNext ==
    \/ Click
    \/ \E call \in calls : Resolve(call)
    \/ \E tx \in underway : Land(tx)

PurchaseSpec == PurchaseInit /\ [][PurchaseNext]_purchaseVars

-----------------------------------------------------------------------------
(***************************************************************************)
(* Properties.                                                             *)
(***************************************************************************)
Call ==
    [kind : CallKinds, id : Nat \ {NoCall}, visit : 1 .. MaxVisits,
     order : [screening : Showtimes, seats : 0 .. MaxTickets]]

\* The component's state, the handlers and the transactions are well formed.
PurchaseTypeOK ==
    /\ showtime \in Showtimes /\ qty \in 1 .. MaxTickets
    /\ pay \in PageStates /\ wallet \in BOOLEAN
    /\ seats \in 0 .. MaxTickets /\ txSignature \in Nat /\ refundSignature \in Nat
    /\ visit \in 1 .. MaxVisits
    /\ calls \subseteq Call /\ underway \subseteq Call /\ landed \subseteq Call
    /\ made \in [CallKinds -> Nat]
    /\ slips \subseteq {"moved", "astray", "left"}

Landed(kind) == {tx \in landed : tx.kind = kind}

\* PurchasePage.tsx, receipt: the seats shown are those of a deposit that has
\* landed under the signature shown; so is the refund.  No race of connecting,
\* paying and refunding shows the seats of one payment with another's signature.
ReceiptIsReal ==
    /\ pay \in {"paid", "refunding", "refunded"} => txSignature # NoCall
    /\ txSignature # NoCall =>
          \E tx \in Landed("pay") : tx.id = txSignature /\ tx.order.seats = seats
    /\ refundSignature # NoCall => \E tx \in Landed("refund") : tx.id = refundSignature

\* A spinner has a handler behind it that will take it away: the page never
\* waits for a call that has already ended, whatever was pressed meanwhile.
SpinnerHasCall ==
    \A kind \in CallKinds : pay = Busy[kind] =>
        \E call \in calls : call.kind = kind /\ OnScreen(call)

\* Nobody is charged for a second purchase while the first stands, unless a
\* confirmation was lost, the wallet was connected again over a payment, or
\* the page was left in the middle of one.
ChargedOnce ==
    slips \cap {"astray", "left"} = {} =>
        Cardinality(Landed("pay")) <= 1 + Cardinality(Landed("refund"))

\* refund_pending cannot tell whose money is pending: the page must not ask
\* for more than was paid for a screening.  It does only after a lost
\* confirmation, a second connect, or another showtime chosen over a receipt.
SeatsOf(txs, s) == MapThenSumSet(LAMBDA tx : tx.order.seats, {tx \in txs : tx.order.screening = s})
RefundsArePaid ==
    slips \cap {"astray", "moved"} = {} =>
        \A s \in Showtimes : SeatsOf(Landed("refund"), s) <= SeatsOf(Landed("pay"), s)
=============================================================================
