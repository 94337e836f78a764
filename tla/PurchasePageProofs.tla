------------------------- MODULE PurchasePageProofs -------------------------
(***************************************************************************)
(* What the ticket page shows, for any showtimes, any number of presses    *)
(* and of visits.  A handler that ends takes the page out of every busy    *)
(* state, its own or not, so a spinner has a handler behind it; a refund   *)
(* is asked for only over a receipt, so its failure returns to one         *)
(* (RefundsHaveReceipt), and calls of an earlier visit stay earlier        *)
(* (CallsAreOfVisits), so what they bring back is not shown.               *)
(*                                                                         *)
(* That nobody is charged twice counts transactions.  Unless something     *)
(* went astray, at most one handler waits and the page shows whose turn it *)
(* is (OneAtATime); the deposits that landed are as many as the refunds,   *)
(* and one more while a payment stands (Balanced).                         *)
(*                                                                         *)
(* That refunds are paid for counts seats, in sums over sets of            *)
(* transactions: what is or will be asked back for a screening never       *)
(* exceeds what was deposited for it (Covered).                            *)
(***************************************************************************)
EXTENDS PurchasePage, FiniteSetTheorems, TLAPS

CallsAreOfVisits == \A call \in calls : call.visit <= visit

RefundsHaveReceipt ==
    \A call \in calls : call.kind = "refund" /\ OnScreen(call) => txSignature # NoCall

PurchaseInductive ==
    /\ PurchaseTypeOK /\ CallsAreOfVisits /\ RefundsHaveReceipt
    /\ ReceiptIsReal /\ SpinnerHasCall

-----------------------------------------------------------------------------
LEMMA PurchaseInitInductive == PurchaseInit => PurchaseInductive
<1> SUFFICES ASSUME PurchaseInit PROVE PurchaseInductive
  OBVIOUS
<1>1. 1 \in 1 .. MaxTickets /\ 1 \in 1 .. MaxVisits /\ 0 \in 0 .. MaxTickets
  BY PurchaseAssumption
<1>2. PurchaseTypeOK
  BY <1>1, PurchaseAssumption DEF PurchaseInit, PurchaseTypeOK, PageStates, NoCall
<1> QED
  BY <1>2 DEF PurchaseInit, PurchaseInductive, CallsAreOfVisits, RefundsHaveReceipt,
     ReceiptIsReal, SpinnerHasCall, CallKinds, Busy

\* The call a click makes: the page is busy with it, and nothing has come back.
LEMMA BeginKeeps ==
    ASSUME PurchaseInductive, NEW kind \in CallKinds, NEW order, Begin(kind, order),
           order \in [screening : Showtimes, seats : 0 .. MaxTickets],
           kind = "refund" => ReceiptShown,
           slips' \subseteq {"moved", "astray", "left"}, UNCHANGED seats
    PROVE  PurchaseInductive'
<1> DEFINE call == [kind |-> kind, id |-> made[kind] + 1, visit |-> visit, order |-> order]
<1>1. /\ PurchaseTypeOK /\ CallsAreOfVisits /\ RefundsHaveReceipt /\ ReceiptIsReal
      /\ calls' = calls \cup {call}
      /\ underway' \subseteq underway \cup {call}
      /\ pay' = Busy[kind]
      /\ made' = [made EXCEPT ![kind] = @ + 1]
      /\ UNCHANGED <<showtime, qty, wallet, seats, txSignature, refundSignature, visit, landed>>
  BY DEF PurchaseInductive, Begin, formVars
<1>2. call \in Call
  BY <1>1 DEF Call, PurchaseTypeOK, NoCall
<1>3. call.kind = kind /\ call.visit = visit
  OBVIOUS
<1> HIDE DEF call
<1>4. Busy[kind] \in {"connecting", "signing", "refunding"}
  BY DEF Busy, CallKinds
<1>5. made' \in [CallKinds -> Nat]
  BY <1>1 DEF PurchaseTypeOK
<1>6. PurchaseTypeOK'
  BY <1>1, <1>2, <1>4, <1>5 DEF PurchaseTypeOK, PageStates
<1>7. CallsAreOfVisits'
  BY <1>1, <1>3 DEF CallsAreOfVisits, PurchaseTypeOK
<1>8. RefundsHaveReceipt'
  BY <1>1, <1>3 DEF RefundsHaveReceipt, OnScreen, ReceiptShown
<1>9. ReceiptIsReal'
  <2>1. pay' \in {"paid", "refunding", "refunded"} => kind = "refund"
    BY <1>1 DEF Busy, CallKinds
  <2> QED
    BY <1>1, <2>1 DEF ReceiptIsReal, ReceiptShown, Landed
<1>10. SpinnerHasCall'
  BY <1>1, <1>3 DEF SpinnerHasCall, OnScreen, Busy, CallKinds
<1> QED
  BY <1>6, <1>7, <1>8, <1>9, <1>10 DEF PurchaseInductive

\* Choosing a showtime or a number of tickets, which changes neither.
LEMMA FormKeeps ==
    ASSUME PurchaseInductive, showtime' \in Showtimes, qty' \in 1 .. MaxTickets,
           slips' \subseteq {"moved", "astray", "left"},
           UNCHANGED <<pay, wallet, receiptVars, visit, calls, made, networkVars>>
    PROVE  PurchaseInductive'
BY DEF PurchaseInductive, PurchaseTypeOK, CallsAreOfVisits, RefundsHaveReceipt,
   ReceiptIsReal, SpinnerHasCall, Landed, OnScreen, receiptVars, networkVars

LEMMA SlipFits ==
    ASSUME NEW cause \in {"moved", "astray", "left"}, NEW happened,
           slips \subseteq {"moved", "astray", "left"}, Slip(cause, happened)
    PROVE  slips' \subseteq {"moved", "astray", "left"}
BY DEF Slip

LEMMA ClickKeeps ==
    ASSUME PurchaseInductive, Click
    PROVE  PurchaseInductive'
<1>1. /\ PurchaseTypeOK
      /\ showtime \in Showtimes /\ qty \in 1 .. MaxTickets /\ seats \in 0 .. MaxTickets
      /\ slips \subseteq {"moved", "astray", "left"}
      /\ MaxTickets \in Nat /\ FirstShowtime \in Showtimes
  BY PurchaseAssumption DEF PurchaseInductive, PurchaseTypeOK
<1>2. ASSUME NEW s \in Showtimes, ChooseShowtime(s) PROVE PurchaseInductive'
  BY <1>1, <1>2, FormKeeps, SlipFits DEF ChooseShowtime
<1>3. CASE ChooseQty
  BY <1>1, <1>3, FormKeeps DEF ChooseQty
<1>4. CASE ConnectWallet
  <2>1. slips' \subseteq {"moved", "astray", "left"}
    BY <1>1, <1>4, SlipFits DEF ConnectWallet
  <2>2. NoOrder \in [screening : Showtimes, seats : 0 .. MaxTickets]
    BY <1>1 DEF NoOrder
  <2> QED
    BY <1>4, <2>1, <2>2, BeginKeeps DEF ConnectWallet, CallKinds
<1>5. CASE StartPayment
  <2>1. slips' \subseteq {"moved", "astray", "left"}
    BY <1>1, <1>5, SlipFits DEF StartPayment
  <2>2. Order(qty) \in [screening : Showtimes, seats : 0 .. MaxTickets]
    BY <1>1 DEF Order
  <2> QED
    BY <1>5, <2>1, <2>2, BeginKeeps DEF StartPayment, CallKinds
<1>6. CASE RequestRefund
  <2>1. Order(seats) \in [screening : Showtimes, seats : 0 .. MaxTickets]
    BY <1>1 DEF Order
  <2> QED
    BY <1>1, <1>6, <2>1, BeginKeeps DEF RequestRefund, MayRefund, CallKinds
<1>7. CASE LeaveAndReturn
  <2>1. /\ visit' = visit + 1 /\ visit' \in 1 .. MaxVisits
        /\ UNCHANGED <<calls, made, underway, landed>>
    BY <1>1, <1>7, PurchaseAssumption DEF LeaveAndReturn, PurchaseTypeOK, networkVars
  <2>2. \A call \in calls : call.visit <= visit /\ call.visit \in Nat /\ visit \in Nat
    BY <1>1 DEF PurchaseInductive, PurchaseTypeOK, CallsAreOfVisits, Call
  <2>3. \A call \in calls' : call.visit <= visit' /\ ~OnScreen(call)'
    BY <2>1, <2>2 DEF OnScreen
  <2>4. slips' \subseteq {"moved", "astray", "left"}
    BY <1>1, <1>7, SlipFits DEF LeaveAndReturn
  <2>0. 1 \in 1 .. MaxTickets /\ 0 \in 0 .. MaxTickets
    BY <1>1, PurchaseAssumption
  <2>5. PurchaseTypeOK'
    BY <1>1, <1>7, <2>0, <2>1, <2>4
       DEF LeaveAndReturn, PurchaseTypeOK, PageStates, NoCall
  <2>6. ReceiptIsReal' /\ SpinnerHasCall'
    BY <1>7 DEF LeaveAndReturn, ReceiptIsReal, SpinnerHasCall, Busy, CallKinds
  <2> QED
    BY <2>3, <2>5, <2>6 DEF PurchaseInductive, CallsAreOfVisits, RefundsHaveReceipt
<1> QED
  BY <1>2, <1>3, <1>4, <1>5, <1>6, <1>7 DEF Click

-----------------------------------------------------------------------------
(***************************************************************************)
(* The end of a handler.  On screen it leaves the page idle, connected,    *)
(* paid or refunded, never busy.                                           *)
(***************************************************************************)
LEMMA OffScreenKeeps ==
    ASSUME PurchaseInductive, NEW call \in calls, ~OnScreen(call), calls' = calls \ {call},
           slips' \subseteq {"moved", "astray", "left"},
           UNCHANGED <<formVars, pay, wallet, receiptVars, visit, made, networkVars>>
    PROVE  PurchaseInductive'
BY DEF PurchaseInductive, PurchaseTypeOK, CallsAreOfVisits, RefundsHaveReceipt,
   ReceiptIsReal, SpinnerHasCall, Landed, OnScreen, formVars, receiptVars, networkVars

LEMMA NotBusyKeeps ==
    ASSUME PurchaseInductive, NEW call \in calls, calls' = calls \ {call},
           slips' \subseteq {"moved", "astray", "left"},
           pay' \in {"idle", "connected", "paid", "refunded"},
           wallet' \in BOOLEAN, seats' \in 0 .. MaxTickets,
           txSignature' \in Nat, refundSignature' \in Nat,
           txSignature # NoCall => txSignature' # NoCall, ReceiptIsReal',
           UNCHANGED <<formVars, visit, made, networkVars>>
    PROVE  PurchaseInductive'
<1>1. PurchaseTypeOK' /\ CallsAreOfVisits' /\ RefundsHaveReceipt'
  BY DEF PurchaseInductive, PurchaseTypeOK, PageStates, CallsAreOfVisits,
     RefundsHaveReceipt, OnScreen, formVars, networkVars
<1>2. SpinnerHasCall'
  BY DEF SpinnerHasCall, Busy, CallKinds
<1> QED
  BY <1>1, <1>2 DEF PurchaseInductive

LEMMA SucceedKeeps ==
    ASSUME PurchaseInductive, NEW call \in calls, Succeed(call)
    PROVE  PurchaseInductive'
<1>1. /\ PurchaseTypeOK /\ ReceiptIsReal /\ call \in Call
      /\ call.kind # "connect" => call \in landed
      /\ calls' = calls \ {call}
      /\ UNCHANGED <<formVars, visit, made, networkVars, slips>>
      /\ slips' \subseteq {"moved", "astray", "left"}
  BY DEF PurchaseInductive, PurchaseTypeOK, Succeed, Confirmed
<1>2. CASE ~OnScreen(call)
  BY <1>1, <1>2, OffScreenKeeps DEF Succeed
<1>3. CASE OnScreen(call)
  <2>1. /\ wallet \in BOOLEAN /\ seats \in 0 .. MaxTickets
        /\ txSignature \in Nat /\ refundSignature \in Nat
        /\ call.id \in Nat /\ call.order.seats \in 0 .. MaxTickets
        /\ landed' = landed
    BY <1>1 DEF PurchaseTypeOK, Call, networkVars, NoCall
  <2>2. CASE call.kind = "connect" /\ wallet' = TRUE /\ pay' = "connected"
             /\ UNCHANGED receiptVars
    <3>1. ReceiptIsReal'
      BY <1>1, <2>1, <2>2 DEF ReceiptIsReal, Landed, receiptVars
    <3> QED
      BY <1>1, <2>1, <2>2, <3>1, NotBusyKeeps DEF receiptVars
  <2>3. CASE /\ call.kind = "pay" /\ seats' = call.order.seats /\ txSignature' = call.id
             /\ refundSignature' = NoCall /\ pay' = "paid" /\ UNCHANGED wallet
    <3>1. call.id # NoCall
      BY <1>1 DEF PurchaseTypeOK, Call, NoCall
    <3>2. ReceiptIsReal'
      BY <1>1, <2>1, <2>3, <3>1 DEF ReceiptIsReal, Landed
    <3> QED
      BY <1>1, <2>1, <2>3, <3>1, <3>2, NotBusyKeeps DEF NoCall
  <2>4. CASE /\ call.kind = "refund" /\ refundSignature' = call.id /\ pay' = "refunded"
             /\ UNCHANGED <<wallet, seats, txSignature>>
    <3>1. txSignature # NoCall
      BY <1>3, <2>4 DEF PurchaseInductive, RefundsHaveReceipt
    <3>2. ReceiptIsReal'
      BY <1>1, <2>1, <2>4, <3>1 DEF ReceiptIsReal, Landed
    <3> QED
      BY <1>1, <2>1, <2>4, <3>2, NotBusyKeeps
  <2> QED
    BY <1>3, <2>2, <2>3, <2>4 DEF Succeed
<1> QED
  BY <1>2, <1>3

LEMMA FailKeeps ==
    ASSUME PurchaseInductive, NEW call \in calls, Fail(call)
    PROVE  PurchaseInductive'
<1>1. /\ PurchaseTypeOK /\ ReceiptIsReal /\ call \in Call /\ call.kind \in CallKinds
      /\ calls' = calls \ {call}
      /\ UNCHANGED <<formVars, wallet, receiptVars, visit, made, networkVars>>
      /\ slips' \subseteq {"moved", "astray", "left"}
  BY SlipFits DEF PurchaseInductive, PurchaseTypeOK, Fail, Call
<1>2. CASE ~OnScreen(call)
  BY <1>1, <1>2, OffScreenKeeps DEF Fail
<1>3. CASE OnScreen(call)
  <2>1. pay' = AfterFailure[call.kind]
    BY <1>3 DEF Fail
  <2>2. pay' \in {"idle", "connected", "paid"} /\ (pay' = "paid" => call.kind = "refund")
    BY <1>1, <2>1 DEF AfterFailure, CallKinds
  <2>3. call.kind = "refund" => txSignature # NoCall
    BY <1>3 DEF PurchaseInductive, RefundsHaveReceipt
  <2>4. ReceiptIsReal'
    BY <1>1, <2>2, <2>3 DEF ReceiptIsReal, Landed, receiptVars, networkVars
  <2> QED
    BY <1>1, <2>2, <2>4, NotBusyKeeps DEF PurchaseTypeOK, receiptVars
<1> QED
  BY <1>2, <1>3

LEMMA LandKeeps ==
    ASSUME PurchaseInductive, NEW tx \in underway, Land(tx)
    PROVE  PurchaseInductive'
<1>1. /\ underway' = underway \ {tx} /\ landed' = landed \cup {tx}
      /\ UNCHANGED <<pageVars, calls, made>>
      /\ slips' \subseteq {"moved", "astray", "left"}
  BY SlipFits DEF PurchaseInductive, PurchaseTypeOK, Land
<1>2. PurchaseTypeOK'
  BY <1>1 DEF PurchaseInductive, PurchaseTypeOK, pageVars, formVars, receiptVars
<1> QED
  BY <1>1, <1>2 DEF PurchaseInductive, CallsAreOfVisits, RefundsHaveReceipt, ReceiptIsReal,
     SpinnerHasCall, Landed, OnScreen, pageVars, receiptVars

-----------------------------------------------------------------------------
LEMMA PurchaseNextInductive ==
    ASSUME PurchaseInductive, [PurchaseNext]_purchaseVars
    PROVE  PurchaseInductive'
<1>1. CASE UNCHANGED purchaseVars
  BY <1>1 DEF purchaseVars, pageVars, formVars, receiptVars, networkVars, PurchaseInductive,
     PurchaseTypeOK, CallsAreOfVisits, RefundsHaveReceipt, ReceiptIsReal, SpinnerHasCall,
     Landed, OnScreen
<1>2. CASE PurchaseNext
  BY <1>2, ClickKeeps, SucceedKeeps, FailKeeps, LandKeeps DEF PurchaseNext, Resolve
<1> QED
  BY <1>1, <1>2

THEOREM PurchaseAlwaysInductive == PurchaseSpec => []PurchaseInductive
<1>1. PurchaseInit => PurchaseInductive
  BY PurchaseInitInductive
<1>2. PurchaseInductive /\ [PurchaseNext]_purchaseVars => PurchaseInductive'
  BY PurchaseNextInductive
<1> QED
  BY <1>1, <1>2, PTL DEF PurchaseSpec

\* The page, its handlers and its transactions are well formed.
THEOREM PurchaseTypeCorrect == PurchaseSpec => []PurchaseTypeOK
<1>1. PurchaseInductive => PurchaseTypeOK
  BY DEF PurchaseInductive
<1> QED
  BY <1>1, PurchaseAlwaysInductive, PTL

\* Every receipt is of a deposit that has landed, with its own seats.
THEOREM ReceiptsAreReal == PurchaseSpec => []ReceiptIsReal
<1>1. PurchaseInductive => ReceiptIsReal
  BY DEF PurchaseInductive
<1> QED
  BY <1>1, PurchaseAlwaysInductive, PTL

\* The page never waits for a call that has ended.
THEOREM SpinnersHaveCalls == PurchaseSpec => []SpinnerHasCall
<1>1. PurchaseInductive => SpinnerHasCall
  BY DEF PurchaseInductive
<1> QED
  BY <1>1, PurchaseAlwaysInductive, PTL

-----------------------------------------------------------------------------
(***************************************************************************)
(* Charged once.  A payment stands when the page shows it, when it has     *)
(* landed under a handler that does not know yet, and until the refund     *)
(* that waits has landed.                                                  *)
(***************************************************************************)
Clean == slips \cap {"astray", "left"} = {}

Standing ==
    \/ pay = "paid"
    \/ pay = "signing" /\ calls \cap landed # {}
    \/ pay = "refunding" /\ calls \cap landed = {}

\* The number of a call is new: a transaction lands once, and none before its call.
Numbered ==
    /\ \A tx \in calls \cup underway \cup landed : tx.id <= made[tx.kind]
    /\ underway \cap landed = {}

OneAtATime ==
    Clean => \/ calls = {} /\ pay \notin {"connecting", "signing", "refunding"}
             \/ \E call \in calls : calls = {call} /\ pay = Busy[call.kind] /\ OnScreen(call)

Balanced ==
    Clean => Cardinality(Landed("pay"))
             = Cardinality(Landed("refund")) + (IF Standing THEN 1 ELSE 0)

Charges == IsFiniteSet(landed) /\ Numbered /\ OneAtATime /\ Balanced

LEMMA ChargesAtFirst == PurchaseInit => Charges
<1> SUFFICES ASSUME PurchaseInit PROVE Charges
  OBVIOUS
<1>1. IsFiniteSet(landed) /\ Cardinality(Landed("pay")) = 0 /\ Cardinality(Landed("refund")) = 0
  <2>1. landed = {} /\ Landed("pay") = {} /\ Landed("refund") = {}
    BY DEF PurchaseInit, Landed
  <2> QED
    BY <2>1, FS_EmptySet
<1>2. Numbered /\ OneAtATime /\ ~Standing
  BY DEF PurchaseInit, Numbered, OneAtATime, Standing
<1>3. Balanced
  BY <1>1, <1>2 DEF Balanced
<1> QED
  BY <1>1, <1>2, <1>3 DEF Charges

LEMMA LandedCounts ==
    ASSUME IsFiniteSet(landed), NEW kind \in CallKinds
    PROVE  IsFiniteSet(Landed(kind)) /\ Cardinality(Landed(kind)) \in Nat
<1>1. Landed(kind) \subseteq landed
  BY DEF Landed
<1>2. IsFiniteSet(Landed(kind))
  BY <1>1, FS_Subset
<1> QED
  BY <1>2, FS_CardinalityType

\* A step that lands nothing keeps the count if the payment stands as before.
LEMMA NothingLands ==
    ASSUME Charges, landed' = landed, Numbered', OneAtATime',
           Clean' => Clean, Clean' => (Standing' <=> Standing)
    PROVE  Charges'
<1>1. Landed("pay")' = Landed("pay") /\ Landed("refund")' = Landed("refund")
  BY DEF Landed
<1>2. Balanced'
  BY <1>1 DEF Balanced, Charges
<1> QED
  BY <1>2 DEF Charges

\* What went wrong is not forgotten.
LEMMA SlipsStay ==
    ASSUME NEW cause \in {"moved", "astray", "left"}, NEW happened, Slip(cause, happened)
    PROVE  /\ Clean' => Clean
           /\ Clean' /\ cause # "moved" => ~happened
<1>1. Clean' => Clean
  BY DEF Slip, Clean
<1>2. ASSUME happened, cause # "moved" PROVE ~Clean'
  BY <1>2 DEF Slip, Clean
<1> QED
  BY <1>1, <1>2

\* A button pressed while no handler waits: the payment stands as it did.
LEMMA BeginCharges ==
    ASSUME PurchaseInductive, Charges, NEW kind \in CallKinds, NEW order, Begin(kind, order),
           Clean' => /\ Clean
                     /\ pay \notin {"connecting", "signing", "refunding"}
                     /\ (pay = "paid") <=> (kind = "refund")
    PROVE  Charges'
<1> DEFINE call == [kind |-> kind, id |-> made[kind] + 1, visit |-> visit, order |-> order]
<1>1. /\ calls' = calls \cup {call}
      /\ underway' \subseteq underway \cup {call}
      /\ pay' = Busy[kind]
      /\ made' = [made EXCEPT ![kind] = @ + 1]
      /\ landed' = landed /\ visit' = visit
  BY DEF Begin
<1>2. call.kind = kind /\ call.id = made[kind] + 1 /\ call.visit = visit
  OBVIOUS
<1> HIDE DEF call
<1>3. /\ made \in [CallKinds -> Nat] /\ calls \cup underway \cup landed \subseteq Call
      /\ \A tx \in Call : tx.kind \in CallKinds /\ tx.id \in Nat
  BY DEF PurchaseInductive, PurchaseTypeOK, Call
<1>4. call \notin landed
  <2>1. \A tx \in landed : tx.id <= made[tx.kind]
    BY DEF Charges, Numbered
  <2>2. made[kind] \in Nat
    BY <1>3
  <2> QED
    BY <1>2, <2>1, <2>2
<1>5. Numbered'
  <2>1. \A k \in CallKinds : made[k] \in Nat /\ made'[k] \in Nat /\ made[k] <= made'[k]
    BY <1>1, <1>3
  <2>2. call.id <= made'[call.kind]
    BY <1>1, <1>2, <1>3
  <2>3. \A tx \in calls \cup underway \cup landed : tx.id <= made'[tx.kind]
    <3> TAKE tx \in calls \cup underway \cup landed
    <3>1. tx.id <= made[tx.kind] /\ tx.kind \in CallKinds /\ tx.id \in Nat
      BY <1>3 DEF Charges, Numbered
    <3>2. made[tx.kind] \in Nat /\ made'[tx.kind] \in Nat /\ made[tx.kind] <= made'[tx.kind]
      BY <2>1, <3>1
    <3> QED
      BY <3>1, <3>2
  <2>4. underway' \cap landed' = {}
    BY <1>1, <1>4 DEF Charges, Numbered
  <2> QED
    BY <1>1, <2>2, <2>3, <2>4 DEF Numbered
<1>6. Clean' => calls = {}
  BY DEF Charges, OneAtATime, Busy, PurchaseInductive, PurchaseTypeOK, Call, CallKinds
<1>7. OneAtATime'
  <2>1. Clean' => calls' = {call}
    BY <1>1, <1>6
  <2>2. call \in calls' /\ pay' = Busy[call.kind] /\ call.visit = visit'
    BY <1>1, <1>2
  <2> QED
    BY <2>1, <2>2 DEF OneAtATime, OnScreen
<1>8. Clean' => (Standing' <=> Standing)
  <2>1. Clean' => calls' \cap landed' = {}
    BY <1>1, <1>4, <1>6
  <2>2. pay' \notin {"paid"} /\ (pay' = "refunding" <=> kind = "refund")
    BY <1>1 DEF Busy, CallKinds
  <2> QED
    BY <2>1, <2>2 DEF Standing
<1> QED
  BY <1>1, <1>5, <1>7, <1>8, NothingLands

\* Nothing that counts has changed.
LEMMA FormCharges ==
    ASSUME Charges, Clean' => Clean, UNCHANGED <<pay, visit, calls, made, underway, landed>>
    PROVE  Charges'
<1>1. Numbered' /\ OneAtATime' /\ (Standing' <=> Standing)
  BY DEF Charges, Numbered, OneAtATime, OnScreen, Standing
<1> QED
  BY <1>1, NothingLands

LEMMA ClickCharges ==
    ASSUME PurchaseInductive, Charges, Click
    PROVE  Charges'
<1>1. ASSUME NEW s \in Showtimes, ChooseShowtime(s) PROVE Charges'
  <2>1. Slip("moved", pay = "paid" /\ s # showtime)
    BY <1>1 DEF ChooseShowtime
  <2>2. Clean' => Clean
    BY <2>1 DEF Slip, Clean
  <2> QED
    BY <1>1, <2>2, FormCharges DEF ChooseShowtime, networkVars
<1>2. CASE ChooseQty
  <2>1. Clean' => Clean
    BY <1>2 DEF ChooseQty, Clean
  <2> QED
    BY <1>2, <2>1, FormCharges DEF ChooseQty, networkVars
<1>3. CASE ConnectWallet
  <2>1. Slip("astray", pay \in {"paid", "refunding"}) /\ pay \notin {"connecting", "signing"}
    BY <1>3 DEF ConnectWallet, MayConnect
  <2>2. Clean' => Clean /\ pay \notin {"paid", "refunding"}
    BY <2>1 DEF Slip, Clean
  <2> QED
    BY <1>3, <2>1, <2>2, BeginCharges DEF ConnectWallet, CallKinds
<1>4. CASE StartPayment
  <2>1. Slip("astray", pay = "connecting") /\ pay \notin {"signing", "paid", "refunding"}
    BY <1>4 DEF StartPayment, MayPay
  <2>2. Clean' => Clean /\ pay # "connecting"
    BY <2>1 DEF Slip, Clean
  <2> QED
    BY <1>4, <2>1, <2>2, BeginCharges DEF StartPayment, CallKinds
<1>5. CASE RequestRefund
  <2>1. pay = "paid" /\ slips' = slips
    BY <1>5 DEF RequestRefund, MayRefund, ReceiptShown
  <2>2. Clean' => Clean
    BY <2>1 DEF Clean
  <2> QED
    BY <1>5, <2>1, <2>2, BeginCharges DEF RequestRefund, CallKinds
<1>6. CASE LeaveAndReturn
  <2>1. /\ Slip("left", pay \in {"signing", "paid", "refunding"} \/ calls # {})
        /\ pay' = "idle" /\ UNCHANGED <<calls, made, underway, landed>>
    BY <1>6 DEF LeaveAndReturn, networkVars
  <2>2. Clean' => Clean /\ pay \notin {"signing", "paid", "refunding"} /\ calls = {}
    BY <2>1 DEF Slip, Clean
  <2>3. Numbered'
    BY <2>1 DEF Charges, Numbered
  <2>4. OneAtATime'
    BY <2>1, <2>2 DEF OneAtATime
  <2>5. Clean' => (Standing' <=> Standing)
    BY <2>1, <2>2 DEF Standing
  <2> QED
    BY <2>1, <2>2, <2>3, <2>4, <2>5, NothingLands
<1> QED
  BY <1>1, <1>2, <1>3, <1>4, <1>5, <1>6 DEF Click

-----------------------------------------------------------------------------
\* The handler that waits, when nothing has gone astray, is the only one.
LEMMA OnlyHandler ==
    ASSUME PurchaseInductive, Charges, Clean, NEW call \in calls
    PROVE  /\ calls = {call} /\ pay = Busy[call.kind] /\ OnScreen(call)
           /\ call.kind \in CallKinds
BY DEF Charges, OneAtATime, PurchaseInductive, PurchaseTypeOK, Call

LEMMA ResolveCharges ==
    ASSUME PurchaseInductive, Charges, NEW call \in calls, Resolve(call)
    PROVE  Charges'
<1>1. /\ calls' = calls \ {call}
      /\ UNCHANGED <<visit, made, underway, landed>>
  BY DEF Resolve, Succeed, Fail, networkVars
<1>2. Numbered'
  BY <1>1 DEF Charges, Numbered
<1>3. Clean' => Clean
  BY DEF Resolve, Succeed, Fail, Slip, Clean
<1>4. ASSUME Clean' PROVE /\ pay' \notin {"connecting", "signing", "refunding"}
                          /\ (Standing' <=> Standing)
  <2>1. Clean /\ calls = {call} /\ pay = Busy[call.kind] /\ OnScreen(call)
        /\ call.kind \in CallKinds
    BY <1>3, <1>4, OnlyHandler
  <2>2. CASE Succeed(call)
    <3>1. /\ call.kind = "connect" \/ call \in landed
          /\ \/ call.kind = "connect" /\ pay' = "connected"
             \/ call.kind = "pay" /\ pay' = "paid"
             \/ call.kind = "refund" /\ pay' = "refunded"
      BY <2>1, <2>2 DEF Succeed, Confirmed
    <3> QED
      BY <2>1, <3>1 DEF Standing, Busy, CallKinds
  <2>3. CASE Fail(call)
    <3>1. pay' = AfterFailure[call.kind] /\ Slip("astray", call \in landed)
      BY <2>1, <2>3 DEF Fail
    <3>2. call \notin landed
      BY <1>4, <3>1 DEF Slip, Clean
    <3> QED
      BY <2>1, <3>1, <3>2, <1>1 DEF Standing, Busy, AfterFailure, CallKinds
  <2> QED
    BY <2>2, <2>3 DEF Resolve
<1>5. OneAtATime'
  <2>1. Clean' => calls' = {}
    BY <1>1, <1>3, OnlyHandler
  <2> QED
    BY <1>4, <2>1 DEF OneAtATime
<1> QED
  BY <1>1, <1>2, <1>3, <1>4, <1>5, NothingLands

\* A deposit that lands makes the payment stand; a refund that lands ends it.
LEMMA LandCharges ==
    ASSUME PurchaseInductive, Charges, NEW tx \in underway, Land(tx)
    PROVE  Charges'
<1>1. /\ underway' = underway \ {tx} /\ landed' = landed \cup {tx}
      /\ UNCHANGED <<pay, visit, calls, made>>
      /\ Slip("astray", tx \notin calls)
  BY DEF Land, pageVars
<1>2. tx \notin landed /\ IsFiniteSet(landed)
  BY DEF Charges, Numbered
<1>3. IsFiniteSet(landed)'
  BY <1>1, <1>2, FS_AddElement
<1>4. Numbered'
  BY <1>1 DEF Charges, Numbered
<1>5. Clean' => Clean /\ tx \in calls
  BY <1>1 DEF Slip, Clean
<1>6. OneAtATime'
  BY <1>1, <1>5 DEF Charges, OneAtATime, OnScreen
<1>7. ASSUME Clean' PROVE Balanced'
  <2>1. /\ calls = {tx} /\ pay = Busy[tx.kind] /\ tx.kind \in CallKinds
        /\ Clean
    BY <1>5, <1>7, OnlyHandler
  <2>2. /\ Cardinality(Landed("pay")) \in Nat /\ IsFiniteSet(Landed("pay"))
        /\ Cardinality(Landed("refund")) \in Nat /\ IsFiniteSet(Landed("refund"))
    BY <1>2, LandedCounts DEF CallKinds
  <2>3. Cardinality(Landed("pay"))
        = Cardinality(Landed("refund")) + (IF Standing THEN 1 ELSE 0)
    BY <2>1 DEF Charges, Balanced
  <2>4. calls \cap landed = {} /\ (calls \cap landed)' = {tx}
    BY <1>1, <1>2, <2>1
  <2>5. CASE tx.kind = "connect"
    <3>1. Landed("pay")' = Landed("pay") /\ Landed("refund")' = Landed("refund")
      BY <1>1, <2>5 DEF Landed
    <3>2. ~Standing /\ ~Standing'
      BY <1>1, <2>1, <2>5 DEF Standing, Busy
    <3> QED
      BY <2>3, <3>1, <3>2 DEF Balanced
  <2>6. CASE tx.kind = "pay"
    <3>1. Landed("pay")' = Landed("pay") \cup {tx} /\ Landed("refund")' = Landed("refund")
      BY <1>1, <2>6 DEF Landed
    <3>2. tx \notin Landed("pay")
      BY <1>2 DEF Landed
    <3>3. Cardinality(Landed("pay")') = Cardinality(Landed("pay")) + 1
      BY <2>2, <3>1, <3>2, FS_AddElement
    <3>4. ~Standing /\ Standing'
      BY <1>1, <2>1, <2>4, <2>6 DEF Standing, Busy
    <3> QED
      BY <2>2, <2>3, <3>1, <3>3, <3>4 DEF Balanced
  <2>7. CASE tx.kind = "refund"
    <3>1. Landed("refund")' = Landed("refund") \cup {tx} /\ Landed("pay")' = Landed("pay")
      BY <1>1, <2>7 DEF Landed
    <3>2. tx \notin Landed("refund")
      BY <1>2 DEF Landed
    <3>3. Cardinality(Landed("refund")') = Cardinality(Landed("refund")) + 1
      BY <2>2, <3>1, <3>2, FS_AddElement
    <3>4. Standing /\ ~Standing'
      BY <1>1, <2>1, <2>4, <2>7 DEF Standing, Busy
    <3> QED
      BY <2>2, <2>3, <3>1, <3>3, <3>4 DEF Balanced
  <2> QED
    BY <2>1, <2>5, <2>6, <2>7 DEF CallKinds
<1>8. Balanced'
  BY <1>7 DEF Balanced
<1> QED
  BY <1>3, <1>4, <1>6, <1>8 DEF Charges

LEMMA ChargesStay ==
    ASSUME PurchaseInductive, Charges, [PurchaseNext]_purchaseVars
    PROVE  Charges'
<1>1. CASE UNCHANGED purchaseVars
  <2>1. UNCHANGED <<pay, visit, calls, made, underway, landed, slips>>
    BY <1>1 DEF purchaseVars, pageVars, networkVars
  <2>2. Clean' => Clean
    BY <2>1 DEF Clean
  <2> QED
    BY <2>1, <2>2, FormCharges
<1>2. CASE PurchaseNext
  BY <1>2, ClickCharges, ResolveCharges, LandCharges DEF PurchaseNext
<1> QED
  BY <1>1, <1>2

\* While nothing has gone astray, the deposits of this person that landed are
\* at most one more than the refunds, whatever the order of clicks and answers.
THEOREM NobodyIsChargedTwice == PurchaseSpec => []ChargedOnce
<1>1. PurchaseInit => Charges
  BY ChargesAtFirst
<1>2. PurchaseInductive /\ Charges /\ [PurchaseNext]_purchaseVars => Charges'
  BY ChargesStay
<1>3. ASSUME Charges PROVE ChargedOnce
  <2>1. Cardinality(Landed("refund")) \in Nat
    BY <1>3, LandedCounts DEF Charges, CallKinds
  <2> QED
    BY <1>3, <2>1 DEF Charges, Balanced, Clean, ChargedOnce
<1> QED
  BY <1>1, <1>2, <1>3, PurchaseAlwaysInductive, PTL DEF PurchaseSpec

-----------------------------------------------------------------------------
(***************************************************************************)
(* Adding up the seats of a finite set.  MapThenSumSet chooses a function  *)
(* that takes the elements out one after the other, in an order that is    *)
(* not known; the sum does not depend on it.                               *)
(***************************************************************************)
\* Among sets of subsets of a finite set there is a smallest one: the induction
\* over finite sets that needs no operator for a parameter.
LEMMA SmallestSet ==
    ASSUME NEW S, IsFiniteSet(S), NEW F, F \subseteq SUBSET S, F # {}
    PROVE  \E T \in F : \A U \in F : U \subseteq T => U = T
<1>1. IsWellFoundedOn(StrictSubsetOrdering(S), SUBSET S)
  BY FS_StrictSubsetOrderingWellFounded, FS_FiniteSubsetsOfFinite
<1>2. PICK T \in F : \A U \in F : ~ (<<U, T>> \in StrictSubsetOrdering(S))
  BY <1>1, WFMin
<1> QED
  BY <1>2 DEF StrictSubsetOrdering

Seats(txs) == MapThenSumSet(LAMBDA tx : tx.order.seats, txs)

\* The function MapThenSumSet chooses to add up the seats of a set, and the
\* element it takes out of a set.
Chosen(txs) == CHOOSE tx \in txs : TRUE
AddsUp(sum, txs) ==
    sum = [some \in SUBSET txs |->
              IF some = {} THEN 0
              ELSE Chosen(some).order.seats + sum[some \ {Chosen(some)}]]
SumOver(txs) == CHOOSE sum : AddsUp(sum, txs)

LEMMA SeatsUnfold ==
    ASSUME NEW txs
    PROVE  Seats(txs) = SumOver(txs)[txs]
BY DEF Seats, MapThenSumSet, MapThenFoldSet, SumOver, AddsUp, Chosen

LEMMA ChosenIsIn ==
    ASSUME NEW txs, txs # {}
    PROVE  Chosen(txs) \in txs
BY DEF Chosen

\* Two such functions agree where both are defined.
LEMMA SumsAgree ==
    ASSUME NEW A, IsFiniteSet(A), NEW B, NEW f, AddsUp(f, A), NEW g, AddsUp(g, B)
    PROVE  \A C \in SUBSET A : C \subseteq B => f[C] = g[C]
<1> DEFINE Wrong == {C \in SUBSET A : C \subseteq B /\ f[C] # g[C]}
<1>1. SUFFICES ASSUME Wrong # {} PROVE FALSE
  OBVIOUS
<1>2. PICK C \in Wrong : \A U \in Wrong : U \subseteq C => U = C
  <2>1. Wrong \subseteq SUBSET A
    OBVIOUS
  <2> HIDE DEF Wrong
  <2> QED
    BY <1>1, <2>1, SmallestSet
<1>3. C \in SUBSET A /\ C \in SUBSET B
  OBVIOUS
<1>4. CASE C = {}
  BY <1>3, <1>4 DEF AddsUp
<1>5. CASE C # {}
  <2> DEFINE rest == C \ {Chosen(C)}
  <2>1. rest \in SUBSET A /\ rest \in SUBSET B /\ rest # C /\ rest \subseteq C
    BY <1>3, <1>5, ChosenIsIn
  <2>2. f[rest] = g[rest]
    BY <1>2, <2>1
  <2>3. f[C] = Chosen(C).order.seats + f[rest]
    BY <1>3, <1>5 DEF AddsUp
  <2>4. g[C] = Chosen(C).order.seats + g[rest]
    BY <1>3, <1>5 DEF AddsUp
  <2> QED
    BY <2>2, <2>3, <2>4
<1> QED
  BY <1>4, <1>5

\* There is one for every finite set.
LEMMA SumsExist ==
    ASSUME NEW S, IsFiniteSet(S)
    PROVE  AddsUp(SumOver(S), S)
<1> DEFINE Wrong == {T \in SUBSET S : ~ AddsUp(SumOver(T), T)}
<1>1. SUFFICES ASSUME Wrong # {} PROVE FALSE
  OBVIOUS
<1>2. PICK T \in Wrong : \A U \in Wrong : U \subseteq T => U = T
  <2>1. Wrong \subseteq SUBSET S
    OBVIOUS
  <2> HIDE DEF Wrong
  <2> QED
    BY <1>1, <2>1, SmallestSet
<1>3. T \in SUBSET S /\ ~ AddsUp(SumOver(T), T)
  OBVIOUS
<1>4. ASSUME NEW U \in SUBSET T, U # T PROVE AddsUp(SumOver(U), U) /\ IsFiniteSet(U)
  BY <1>2, <1>3, <1>4, FS_Subset
<1> HIDE DEF Wrong
<1> DEFINE value(some) == Chosen(some).order.seats
           rest(some) == some \ {Chosen(some)}
           sum == [some \in SUBSET T |->
                      IF some = {} THEN 0 ELSE value(some) + SumOver(rest(some))[rest(some)]]
<1>5. ASSUME NEW U \in SUBSET T, U # {}
      PROVE  rest(U) \in SUBSET T /\ rest(U) # T /\ rest(U) \subseteq U /\ rest(U) # U
  BY <1>5, ChosenIsIn
<1>6. ASSUME NEW U \in SUBSET T, U # T PROVE sum[U] = SumOver(U)[U]
  <2>1. AddsUp(SumOver(U), U)
    BY <1>4, <1>6
  <2>2. CASE U = {}
    BY <2>1, <2>2 DEF AddsUp
  <2>3. CASE U # {}
    <3>1. SumOver(U)[U] = value(U) + SumOver(U)[rest(U)]
      BY <2>1, <2>3 DEF AddsUp
    <3>2. rest(U) \in SUBSET T /\ rest(U) # T /\ rest(U) \subseteq U
      BY <1>5, <2>3
    <3> DEFINE smaller == rest(U)
    <3>3. AddsUp(SumOver(smaller), smaller) /\ smaller \in SUBSET U /\ IsFiniteSet(U)
      BY <1>4, <1>6, <3>2
    <3>4. SumOver(U)[smaller] = SumOver(smaller)[smaller]
      <4> HIDE DEF smaller
      <4> QED
        BY <2>1, <3>3, SumsAgree
    <3>5. sum[U] = value(U) + SumOver(smaller)[smaller]
      BY <2>3
    <3> QED
      BY <3>1, <3>4, <3>5
  <2> QED
    BY <2>2, <2>3
<1>7. ASSUME NEW U \in SUBSET T, U # {} PROVE sum[U] = value(U) + sum[rest(U)]
  <2>1. sum[rest(U)] = SumOver(rest(U))[rest(U)]
    BY <1>5, <1>6, <1>7
  <2>2. sum[U] = value(U) + SumOver(rest(U))[rest(U)]
    BY <1>7
  <2> QED
    BY <2>1, <2>2
<1>8. sum = [some \in SUBSET T |-> sum[some]] /\ sum[{}] = 0
  OBVIOUS
<1> HIDE DEF sum
<1>9. sum = [some \in SUBSET T |-> IF some = {} THEN 0 ELSE value(some) + sum[rest(some)]]
  BY <1>7, <1>8
<1>10. AddsUp(sum, T)
  BY <1>9 DEF AddsUp
<1> QED
  BY <1>3, <1>10 DEF SumOver

LEMMA NoSeats == Seats({}) = 0
<1>1. AddsUp(SumOver({}), {})
  BY SumsExist, FS_EmptySet
<1> QED
  BY <1>1, SeatsUnfold DEF AddsUp

\* One element is taken out, and the rest added up.
LEMMA SeatsStep ==
    ASSUME NEW S, IsFiniteSet(S), S # {}
    PROVE  Seats(S) = Chosen(S).order.seats + Seats(S \ {Chosen(S)})
<1> DEFINE rest == S \ {Chosen(S)}
<1>1. rest \subseteq S /\ IsFiniteSet(rest)
  BY FS_Subset
<1>2. AddsUp(SumOver(S), S)
  BY SumsExist
<1>3. Seats(S) = Chosen(S).order.seats + SumOver(S)[rest]
  BY <1>2, SeatsUnfold DEF AddsUp
<1> HIDE DEF rest
<1>4. AddsUp(SumOver(rest), rest)
  BY <1>1, SumsExist
<1>5. SumOver(S)[rest] = SumOver(rest)[rest]
  BY <1>1, <1>2, <1>4, SumsAgree
<1>6. Seats(rest) = SumOver(rest)[rest]
  BY SeatsUnfold
<1>7. Seats(S) = Chosen(S).order.seats + Seats(rest)
  BY <1>3, <1>5, <1>6
<1> QED
  BY <1>7 DEF rest

LEMMA SeatsAreNatural ==
    ASSUME NEW S, IsFiniteSet(S), \A tx \in S : tx.order.seats \in Nat
    PROVE  Seats(S) \in Nat
<1> DEFINE Wrong == {T \in SUBSET S : Seats(T) \notin Nat}
<1>1. SUFFICES ASSUME Wrong # {} PROVE FALSE
  OBVIOUS
<1>2. PICK T \in Wrong : \A U \in Wrong : U \subseteq T => U = T
  <2>1. Wrong \subseteq SUBSET S
    OBVIOUS
  <2> HIDE DEF Wrong
  <2> QED
    BY <1>1, <2>1, SmallestSet
<1>3. T \in SUBSET S /\ Seats(T) \notin Nat /\ IsFiniteSet(T)
  BY FS_Subset
<1>4. T # {}
  BY <1>3, NoSeats
<1> DEFINE rest == T \ {Chosen(T)}
<1>5. Chosen(T) \in T /\ rest \in SUBSET S /\ rest \subseteq T /\ rest # T
  BY <1>3, <1>4, ChosenIsIn
<1>6. Seats(rest) \in Nat
  BY <1>2, <1>5
<1>7. Seats(T) = Chosen(T).order.seats + Seats(rest)
  BY <1>3, <1>4, SeatsStep
<1>8. Chosen(T).order.seats \in Nat
  BY <1>3, <1>5
<1> QED
  BY <1>3, <1>6, <1>7, <1>8

\* Whichever element is taken out first.
LEMMA SeatsOfOneMore ==
    ASSUME NEW S, IsFiniteSet(S), \A tx \in S : tx.order.seats \in Nat, NEW x \in S
    PROVE  Seats(S) = x.order.seats + Seats(S \ {x})
<1> DEFINE Wrong == {T \in SUBSET S :
                        \E y \in T : Seats(T) # y.order.seats + Seats(T \ {y})}
<1>1. SUFFICES ASSUME Wrong # {} PROVE FALSE
  OBVIOUS
<1>2. PICK T \in Wrong : \A U \in Wrong : U \subseteq T => U = T
  <2>1. Wrong \subseteq SUBSET S
    OBVIOUS
  <2> HIDE DEF Wrong
  <2> QED
    BY <1>1, <2>1, SmallestSet
<1>3. PICK y \in T : Seats(T) # y.order.seats + Seats(T \ {y})
  OBVIOUS
<1>4. T \in SUBSET S /\ IsFiniteSet(T)
  BY FS_Subset
<1> DEFINE c == Chosen(T)
<1>5. c \in T /\ Seats(T) = c.order.seats + Seats(T \ {c})
  BY <1>4, ChosenIsIn, SeatsStep
<1> HIDE DEF c
<1>6. y # c
  BY <1>3, <1>5
<1>7. ASSUME NEW z \in T, NEW w \in T, w # z
      PROVE  Seats(T \ {z}) = w.order.seats + Seats((T \ {z}) \ {w})
  <2>1. T \ {z} \in SUBSET S /\ T \ {z} \subseteq T /\ T \ {z} # T /\ w \in T \ {z}
    BY <1>4, <1>7
  <2>2. T \ {z} \notin Wrong
    BY <1>2, <2>1
  <2> QED
    BY <2>1, <2>2
<1> HIDE DEF Wrong
<1>8. (T \ {c}) \ {y} = (T \ {y}) \ {c}
  OBVIOUS
<1> DEFINE both == Seats((T \ {c}) \ {y})
<1>9. Seats(T \ {c}) = y.order.seats + both
  BY <1>5, <1>6, <1>7
<1>10. Seats(T \ {y}) = c.order.seats + both
  BY <1>5, <1>6, <1>7, <1>8
<1>11. both \in Nat /\ y.order.seats \in Nat /\ c.order.seats \in Nat
  <2> DEFINE fewer == (T \ {c}) \ {y}
  <2>1. fewer \subseteq T /\ IsFiniteSet(fewer) /\ fewer \subseteq S
    BY <1>4, FS_Subset
  <2> HIDE DEF fewer
  <2>2. Seats(fewer) \in Nat
    BY <2>1, SeatsAreNatural
  <2> QED
    BY <1>4, <1>5, <2>2 DEF fewer
<1> HIDE DEF both
<1> QED
  BY <1>3, <1>5, <1>9, <1>10, <1>11

LEMMA SeatsOfAnother ==
    ASSUME NEW S, IsFiniteSet(S), NEW x, x \notin S,
           \A tx \in S \cup {x} : tx.order.seats \in Nat
    PROVE  Seats(S \cup {x}) = Seats(S) + x.order.seats
<1> DEFINE more == S \cup {x}
<1>1. IsFiniteSet(more) /\ x \in more /\ more \ {x} = S
  BY FS_AddElement
<1>2. \A tx \in more : tx.order.seats \in Nat
  OBVIOUS
<1>3. Seats(S) \in Nat /\ x.order.seats \in Nat
  BY SeatsAreNatural
<1> HIDE DEF more
<1>4. Seats(more) = x.order.seats + Seats(more \ {x})
  BY <1>1, <1>2, SeatsOfOneMore
<1>5. Seats(more) = Seats(S) + x.order.seats
  BY <1>1, <1>3, <1>4
<1> QED
  BY <1>5 DEF more

LEMMA FewerSeats ==
    ASSUME NEW B, IsFiniteSet(B), \A tx \in B : tx.order.seats \in Nat, NEW A \in SUBSET B
    PROVE  Seats(A) <= Seats(B)
<1> DEFINE Wrong == {T \in SUBSET B : A \subseteq T /\ ~ (Seats(A) <= Seats(T))}
<1>1. SUFFICES ASSUME Wrong # {} PROVE FALSE
  OBVIOUS
<1>2. PICK T \in Wrong : \A U \in Wrong : U \subseteq T => U = T
  <2>1. Wrong \subseteq SUBSET B
    OBVIOUS
  <2> HIDE DEF Wrong
  <2> QED
    BY <1>1, <2>1, SmallestSet
<1>3. T \in SUBSET B /\ A \subseteq T /\ ~ (Seats(A) <= Seats(T)) /\ IsFiniteSet(T) /\ IsFiniteSet(A)
  BY FS_Subset
<1>4. Seats(A) \in Nat /\ Seats(T) \in Nat
  BY <1>3, SeatsAreNatural
<1>5. A # T
  BY <1>3, <1>4
<1>6. PICK x \in T : x \notin A
  BY <1>3, <1>5
<1> DEFINE rest == T \ {x}
<1>7. rest \in SUBSET B /\ A \subseteq rest /\ rest \subseteq T /\ rest # T
  BY <1>3, <1>6
<1>8. Seats(A) <= Seats(rest)
  BY <1>2, <1>7
<1> HIDE DEF Wrong
<1>9. Seats(T) = x.order.seats + Seats(rest)
  BY <1>3, SeatsOfOneMore
<1>10. Seats(rest) \in Nat /\ x.order.seats \in Nat
  <2>1. IsFiniteSet(rest)
    BY <1>3, <1>7, FS_Subset
  <2> HIDE DEF rest
  <2> QED
    BY <1>3, <1>7, <2>1, SeatsAreNatural
<1> HIDE DEF rest
<1> QED
  BY <1>3, <1>4, <1>8, <1>9, <1>10

-----------------------------------------------------------------------------
(***************************************************************************)
(* Refunds are paid.  Until a refund lands, what will be asked for is what *)
(* the receipt shows, what a deposit that has landed will put there when   *)
(* its handler ends, and what the refund that waits asks for.  Together    *)
(* with the refunds that have landed these never exceed the deposits of a  *)
(* screening (Covered).  A handler on screen finds the page as it left it  *)
(* (HandlersFit); what a page that was left has still to learn is lost.    *)
(***************************************************************************)
Straight == slips \cap {"astray", "moved"} = {}

HandlersFit ==
    Straight => \A call \in calls : OnScreen(call) =>
        /\ pay = Busy[call.kind]
        /\ \A other \in calls : OnScreen(other) => other = call
        /\ call.kind # "connect" => call.order.screening = showtime
        /\ call.kind = "refund" => call.order.seats = seats

ClaimsOn(s) ==
    {tx \in calls \cup landed :
        /\ tx.order.screening = s
        /\ \/ tx.kind = "refund"
           \/ tx.kind = "pay" /\ tx \in calls \cap landed}

DepositsOn(s) == {tx \in Landed("pay") : tx.order.screening = s}

ShownOn(s) == IF pay = "paid" /\ showtime = s THEN seats ELSE 0

Covered ==
    Straight => \A s \in Showtimes : Seats(ClaimsOn(s)) + ShownOn(s) <= Seats(DepositsOn(s))

Paid == IsFiniteSet(calls) /\ HandlersFit /\ Covered

LEMMA PaidAtFirst == PurchaseInit => Paid
<1> SUFFICES ASSUME PurchaseInit PROVE Paid
  OBVIOUS
<1>1. calls = {} /\ landed = {} /\ pay = "idle"
  BY DEF PurchaseInit
<1>2. IsFiniteSet(calls) /\ HandlersFit
  BY <1>1, FS_EmptySet DEF HandlersFit
<1>3. ASSUME NEW s \in Showtimes
      PROVE  Seats(ClaimsOn(s)) + ShownOn(s) <= Seats(DepositsOn(s))
  <2>1. ClaimsOn(s) = {} /\ DepositsOn(s) = {} /\ ShownOn(s) = 0
    BY <1>1 DEF ClaimsOn, DepositsOn, Landed, ShownOn
  <2> QED
    BY <2>1, NoSeats
<1> QED
  BY <1>2, <1>3 DEF Paid, Covered

\* The three terms of the account of a screening are numbers of seats.
LEMMA AccountsAdd ==
    ASSUME PurchaseInductive, Charges, Paid, NEW s \in Showtimes
    PROVE  /\ IsFiniteSet(ClaimsOn(s)) /\ IsFiniteSet(DepositsOn(s))
           /\ \A tx \in ClaimsOn(s) \cup DepositsOn(s) : tx.order.seats \in Nat
           /\ Seats(ClaimsOn(s)) \in Nat /\ Seats(DepositsOn(s)) \in Nat
           /\ ShownOn(s) \in Nat
<1>1. IsFiniteSet(calls \cup landed)
  BY FS_Union DEF Paid, Charges
<1>2. ClaimsOn(s) \subseteq calls \cup landed /\ DepositsOn(s) \subseteq calls \cup landed
  BY DEF ClaimsOn, DepositsOn, Landed
<1>3. IsFiniteSet(ClaimsOn(s)) /\ IsFiniteSet(DepositsOn(s))
  BY <1>1, <1>2, FS_Subset
<1>4. \A tx \in calls \cup landed : tx.order.seats \in Nat
  BY PurchaseAssumption DEF PurchaseInductive, PurchaseTypeOK, Call
<1>5. \A tx \in ClaimsOn(s) \cup DepositsOn(s) : tx.order.seats \in Nat
  BY <1>2, <1>4
<1>6. Seats(ClaimsOn(s)) \in Nat /\ Seats(DepositsOn(s)) \in Nat
  BY <1>3, <1>5, SeatsAreNatural
<1>7. ShownOn(s) \in Nat
  BY PurchaseAssumption DEF ShownOn, PurchaseInductive, PurchaseTypeOK
<1> QED
  BY <1>3, <1>5, <1>6, <1>7

\* A step that lands nothing and makes no claim.
LEMMA ClaimsFall ==
    ASSUME PurchaseInductive, Charges, Paid, landed' = landed, Straight' => Straight,
           Straight' => \A s \in Showtimes : /\ ClaimsOn(s)' \subseteq ClaimsOn(s)
                                             /\ ShownOn(s)' \in {0, ShownOn(s)}
    PROVE  Covered'
<1> SUFFICES ASSUME Straight', NEW s \in Showtimes
             PROVE  Seats(ClaimsOn(s)') + ShownOn(s)' <= Seats(DepositsOn(s)')
  BY DEF Covered
<1>1. /\ IsFiniteSet(ClaimsOn(s)) /\ \A tx \in ClaimsOn(s) : tx.order.seats \in Nat
      /\ Seats(ClaimsOn(s)) \in Nat /\ Seats(DepositsOn(s)) \in Nat /\ ShownOn(s) \in Nat
  BY AccountsAdd
<1>2. Seats(ClaimsOn(s)) + ShownOn(s) <= Seats(DepositsOn(s))
  BY DEF Paid, Covered
<1> DEFINE fewer == ClaimsOn(s)'
<1>3. fewer \subseteq ClaimsOn(s) /\ ShownOn(s)' \in {0, ShownOn(s)}
  OBVIOUS
<1>4. DepositsOn(s)' = DepositsOn(s)
  BY DEF DepositsOn, Landed
<1> HIDE DEF fewer
<1>5. IsFiniteSet(fewer) /\ \A tx \in fewer : tx.order.seats \in Nat
  BY <1>1, <1>3, FS_Subset
<1>6. Seats(fewer) <= Seats(ClaimsOn(s)) /\ Seats(fewer) \in Nat
  BY <1>1, <1>3, <1>5, FewerSeats, SeatsAreNatural
<1>7. Seats(fewer) + ShownOn(s)' <= Seats(DepositsOn(s))
  BY <1>1, <1>2, <1>3, <1>6
<1> QED
  BY <1>4, <1>7 DEF fewer

\* A handler that ends and hands its claim to the receipt: the deposit that is
\* confirmed, the refund that failed.
LEMMA ClaimIsShown ==
    ASSUME PurchaseInductive, Charges, Paid, landed' = landed, Straight' => Straight,
           NEW call \in calls, calls' = calls \ {call},
           Straight' => /\ call \in ClaimsOn(showtime) /\ call.order.seats = seats'
                        /\ \A s \in Showtimes : call \notin ClaimsOn(s)'
                        /\ pay # "paid" /\ showtime' = showtime
    PROVE  Covered'
<1> SUFFICES ASSUME Straight', NEW s \in Showtimes
             PROVE  Seats(ClaimsOn(s)') + ShownOn(s)' <= Seats(DepositsOn(s)')
  BY DEF Covered
<1>1. /\ IsFiniteSet(ClaimsOn(s)) /\ \A tx \in ClaimsOn(s) : tx.order.seats \in Nat
      /\ Seats(ClaimsOn(s)) \in Nat /\ Seats(DepositsOn(s)) \in Nat /\ ShownOn(s) = 0
  BY AccountsAdd DEF ShownOn
<1>2. Seats(ClaimsOn(s)) <= Seats(DepositsOn(s))
  BY <1>1 DEF Paid, Covered
<1> DEFINE fewer == ClaimsOn(s)'
<1>3. fewer \subseteq ClaimsOn(s) \ {call}
  BY DEF ClaimsOn
<1>4. DepositsOn(s)' = DepositsOn(s)
  BY DEF DepositsOn, Landed
<1>5. ShownOn(s)' \in {0, IF s = showtime THEN call.order.seats ELSE 0}
  BY DEF ShownOn
<1>6. s = showtime => call \in ClaimsOn(s)
  OBVIOUS
<1> HIDE DEF fewer
<1> DEFINE rest == ClaimsOn(s) \ {call}
<1>7. IsFiniteSet(rest) /\ \A tx \in rest : tx.order.seats \in Nat
  BY <1>1, FS_Subset
<1>8. /\ Seats(rest) <= Seats(ClaimsOn(s)) /\ Seats(rest) \in Nat
      /\ s = showtime => /\ Seats(ClaimsOn(s)) = call.order.seats + Seats(rest)
                         /\ call.order.seats \in Nat
  <2>1. Seats(rest) \in Nat
    <3> HIDE DEF rest
    <3> QED
      BY <1>7, SeatsAreNatural
  <2>2. Seats(rest) <= Seats(ClaimsOn(s))
    <3>1. rest \in SUBSET ClaimsOn(s)
      OBVIOUS
    <3> HIDE DEF rest
    <3> QED
      BY <1>1, <3>1, FewerSeats
  <2>3. s = showtime => Seats(ClaimsOn(s)) = call.order.seats + Seats(rest)
    BY <1>1, <1>6, SeatsOfOneMore
  <2> QED
    BY <1>1, <1>6, <2>1, <2>2, <2>3
<1>9. Seats(fewer) <= Seats(rest) /\ Seats(fewer) \in Nat
  <2>1. fewer \in SUBSET rest /\ fewer \subseteq ClaimsOn(s)
    BY <1>3
  <2>2. IsFiniteSet(fewer) /\ \A tx \in fewer : tx.order.seats \in Nat
    BY <1>1, <2>1, FS_Subset
  <2> HIDE DEF rest
  <2> QED
    BY <1>7, <2>1, <2>2, FewerSeats, SeatsAreNatural
<1> HIDE DEF rest
<1>10. Seats(fewer) + ShownOn(s)' <= Seats(DepositsOn(s))
  <2>1. CASE s = showtime
    BY <1>1, <1>2, <1>5, <1>8, <1>9, <2>1
  <2>2. CASE s # showtime
    BY <1>1, <1>2, <1>5, <1>8, <1>9, <2>2
  <2> QED
    BY <2>1, <2>2
<1> QED
  BY <1>4, <1>10 DEF fewer

LEMMA StraightStays ==
    ASSUME NEW cause \in {"moved", "astray", "left"}, NEW happened, Slip(cause, happened)
    PROVE  /\ Straight' => Straight
           /\ Straight' /\ cause # "left" => ~happened
<1>1. Straight' => Straight
  BY DEF Slip, Straight
<1>2. ASSUME happened, cause # "left" PROVE ~Straight'
  BY <1>2 DEF Slip, Straight
<1> QED
  BY <1>1, <1>2

\* The form, and what it may change: the showtime only while no handler that
\* pays or refunds, and no receipt, is on screen.
LEMMA FormPaid ==
    ASSUME PurchaseInductive, Charges, Paid, Straight' => Straight,
           UNCHANGED <<pay, seats, visit, calls, landed>>,
           Straight' => \/ showtime' = showtime
                        \/ pay \notin {"signing", "paid", "refunding"}
    PROVE  Paid'
<1>1. HandlersFit'
  <2>1. \A call \in calls : call.kind \in CallKinds
    BY DEF PurchaseInductive, PurchaseTypeOK, Call
  <2>2. \A call \in calls : OnScreen(call)' <=> OnScreen(call)
    BY DEF OnScreen
  <2> QED
    BY <2>1, <2>2 DEF Paid, HandlersFit, Busy, CallKinds
<1>2. \A s \in Showtimes : ClaimsOn(s)' = ClaimsOn(s)
  BY DEF ClaimsOn
<1>3. Straight' => \A s \in Showtimes : ShownOn(s)' \in {0, ShownOn(s)}
  BY DEF ShownOn
<1>4. Covered'
  BY <1>2, <1>3, ClaimsFall
<1> QED
  BY <1>1, <1>4 DEF Paid

\* A button pressed while no handler waits on screen.
LEMMA BeginPaid ==
    ASSUME PurchaseInductive, Charges, Paid, NEW kind \in CallKinds,
           NEW order \in [screening : Showtimes, seats : 0 .. MaxTickets], Begin(kind, order),
           seats' = seats,
           Straight' => /\ Straight
                        /\ pay \notin {"connecting", "signing", "refunding"}
                        /\ kind # "connect" => order.screening = showtime
                        /\ kind = "refund" => order.seats = seats /\ pay = "paid"
    PROVE  Paid'
<1> DEFINE call == [kind |-> kind, id |-> made[kind] + 1, visit |-> visit, order |-> order]
<1>1. /\ calls' = calls \cup {call}
      /\ pay' = Busy[kind]
      /\ UNCHANGED <<landed, visit, showtime>>
  BY DEF Begin, formVars
<1>2. /\ call.kind = kind /\ call.visit = visit /\ call.order = order
      /\ call.id = made[kind] + 1
  OBVIOUS
<1> HIDE DEF call
<1>3. call \notin calls \cup landed
  <2>1. \A tx \in calls \cup landed : tx.id <= made[tx.kind]
    BY DEF Charges, Numbered
  <2>2. made[kind] \in Nat
    BY DEF PurchaseInductive, PurchaseTypeOK
  <2> QED
    BY <1>2, <2>1, <2>2
<1>4. IsFiniteSet(calls')
  BY <1>1, FS_AddElement DEF Paid
<1>5. HandlersFit'
  <2> SUFFICES ASSUME Straight', NEW on \in calls', OnScreen(on)'
               PROVE  /\ pay' = Busy[on.kind]
                      /\ \A other \in calls' : OnScreen(other)' => other = on
                      /\ on.kind # "connect" => on.order.screening = showtime'
                      /\ on.kind = "refund" => on.order.seats = seats'
    BY DEF HandlersFit
  <2>1. \A other \in calls : other.kind \in CallKinds
    BY DEF PurchaseInductive, PurchaseTypeOK, Call
  <2>2. \A other \in calls : ~OnScreen(other)
    BY <2>1 DEF Paid, HandlersFit, Busy, CallKinds
  <2>3. \A other \in calls' : OnScreen(other)' => other = call
    BY <1>1, <2>2 DEF OnScreen
  <2>4. on = call
    BY <2>3
  <2> QED
    BY <1>1, <1>2, <2>3, <2>4
<1>6. CASE kind # "refund"
  <2>1. \A s \in Showtimes : ClaimsOn(s)' \subseteq ClaimsOn(s)
    BY <1>1, <1>2, <1>3, <1>6 DEF ClaimsOn
  <2>2. \A s \in Showtimes : ShownOn(s)' = 0
    BY <1>1 DEF ShownOn, Busy, CallKinds
  <2>3. Covered'
    BY <1>1, <2>1, <2>2, ClaimsFall
  <2> QED
    BY <1>4, <1>5, <2>3 DEF Paid
<1>7. CASE kind = "refund"
  <2>1. ASSUME Straight', NEW s \in Showtimes
        PROVE  Seats(ClaimsOn(s)') + ShownOn(s)' <= Seats(DepositsOn(s)')
    <3>1. /\ IsFiniteSet(ClaimsOn(s)) /\ \A tx \in ClaimsOn(s) : tx.order.seats \in Nat
          /\ Seats(ClaimsOn(s)) \in Nat /\ Seats(DepositsOn(s)) \in Nat /\ ShownOn(s) \in Nat
      BY AccountsAdd
    <3>2. Seats(ClaimsOn(s)) + ShownOn(s) <= Seats(DepositsOn(s))
      BY <2>1 DEF Paid, Covered
    <3>3. DepositsOn(s)' = DepositsOn(s) /\ ShownOn(s)' = 0
      BY <1>1 DEF DepositsOn, Landed, ShownOn, Busy, CallKinds
    <3>4. call.order.seats = seats /\ call.order.screening = showtime /\ seats \in Nat
      BY <1>2, <1>7, <2>1, PurchaseAssumption DEF PurchaseInductive, PurchaseTypeOK
    <3>5. CASE s = showtime
      <4>1. ClaimsOn(s)' = ClaimsOn(s) \cup {call} /\ call \notin ClaimsOn(s)
        BY <1>1, <1>2, <1>3, <1>7, <3>4, <3>5 DEF ClaimsOn
      <4>2. \A tx \in ClaimsOn(s) \cup {call} : tx.order.seats \in Nat
        BY <3>1, <3>4
      <4>3. Seats(ClaimsOn(s) \cup {call}) = Seats(ClaimsOn(s)) + call.order.seats
        BY <3>1, <4>1, <4>2, SeatsOfAnother
      <4>4. ShownOn(s) = seats
        BY <1>7, <2>1, <3>5 DEF ShownOn
      <4> QED
        BY <3>1, <3>2, <3>3, <3>4, <4>1, <4>3, <4>4
    <3>6. CASE s # showtime
      <4>1. ClaimsOn(s)' = ClaimsOn(s)
        BY <1>1, <1>3, <3>4, <3>6 DEF ClaimsOn
      <4> QED
        BY <3>1, <3>2, <3>3, <4>1
    <3> QED
      BY <3>5, <3>6
  <2>2. Covered'
    BY <2>1 DEF Covered
  <2> QED
    BY <1>4, <1>5, <2>2 DEF Paid
<1> QED
  BY <1>6, <1>7

LEMMA ClickPaid ==
    ASSUME PurchaseInductive, Charges, Paid, Click
    PROVE  Paid'
<1>1. ASSUME NEW s \in Showtimes, ChooseShowtime(s) PROVE Paid'
  <2>1. Slip("moved", pay = "paid" /\ s # showtime)
    BY <1>1 DEF ChooseShowtime
  <2>2. Straight' => Straight /\ ~ (pay = "paid" /\ s # showtime)
    BY <2>1, StraightStays
  <2>3. /\ showtime' = s /\ pay \notin {"signing", "refunding"}
        /\ UNCHANGED <<pay, seats, visit, calls, landed>>
    BY <1>1 DEF ChooseShowtime, MayChoose, receiptVars, networkVars
  <2> QED
    BY <2>2, <2>3, FormPaid
<1>2. CASE ChooseQty
  <2>1. Straight' => Straight
    BY <1>2 DEF ChooseQty, Straight
  <2>2. showtime' = showtime /\ UNCHANGED <<pay, seats, visit, calls, landed>>
    BY <1>2 DEF ChooseQty, receiptVars, networkVars
  <2> QED
    BY <2>1, <2>2, FormPaid
<1>3. /\ showtime \in Showtimes /\ qty \in 0 .. MaxTickets /\ seats \in 0 .. MaxTickets
      /\ FirstShowtime \in Showtimes /\ 0 \in 0 .. MaxTickets
  BY PurchaseAssumption DEF PurchaseInductive, PurchaseTypeOK
<1>4. CASE ConnectWallet
  <2>1. Slip("astray", pay \in {"paid", "refunding"}) /\ pay \notin {"connecting", "signing"}
    BY <1>4 DEF ConnectWallet, MayConnect
  <2>2. Straight' => Straight /\ pay \notin {"paid", "refunding"}
    BY <2>1, StraightStays
  <2>3. NoOrder \in [screening : Showtimes, seats : 0 .. MaxTickets]
    BY <1>3 DEF NoOrder
  <2>4. Begin("connect", NoOrder) /\ seats' = seats
    BY <1>4 DEF ConnectWallet
  <2> QED
    BY <2>1, <2>2, <2>3, <2>4, BeginPaid DEF CallKinds
<1>5. CASE StartPayment
  <2>1. Slip("astray", pay = "connecting") /\ pay \notin {"signing", "paid", "refunding"}
    BY <1>5 DEF StartPayment, MayPay
  <2>2. Straight' => Straight /\ pay # "connecting"
    BY <2>1, StraightStays
  <2>3. /\ Order(qty) \in [screening : Showtimes, seats : 0 .. MaxTickets]
        /\ Order(qty).screening = showtime
    BY <1>3 DEF Order
  <2>4. Begin("pay", Order(qty)) /\ seats' = seats
    BY <1>5 DEF StartPayment
  <2> QED
    BY <2>1, <2>2, <2>3, <2>4, BeginPaid DEF CallKinds
<1>6. CASE RequestRefund
  <2>1. pay = "paid" /\ slips' = slips
    BY <1>6 DEF RequestRefund, MayRefund, ReceiptShown
  <2>2. Straight' => Straight
    BY <2>1 DEF Straight
  <2>3. /\ Order(seats) \in [screening : Showtimes, seats : 0 .. MaxTickets]
        /\ Order(seats).screening = showtime /\ Order(seats).seats = seats
    BY <1>3 DEF Order
  <2>4. Begin("refund", Order(seats)) /\ seats' = seats
    BY <1>6 DEF RequestRefund
  <2> QED
    BY <2>1, <2>2, <2>3, <2>4, BeginPaid DEF CallKinds
<1>7. CASE LeaveAndReturn
  <2>1. /\ Slip("left", pay \in {"signing", "paid", "refunding"} \/ calls # {})
        /\ pay' = "idle" /\ visit' = visit + 1 /\ UNCHANGED <<calls, landed>>
    BY <1>7 DEF LeaveAndReturn, networkVars
  <2>2. Straight' => Straight
    BY <2>1, StraightStays
  <2>3. \A call \in calls : ~OnScreen(call)'
    BY <2>1 DEF OnScreen, PurchaseInductive, PurchaseTypeOK, CallsAreOfVisits, Call
  <2>4. HandlersFit'
    BY <2>1, <2>3 DEF HandlersFit
  <2>5. \A s \in Showtimes : ClaimsOn(s)' = ClaimsOn(s) /\ ShownOn(s)' = 0
    BY <2>1 DEF ClaimsOn, ShownOn
  <2>6. Covered'
    BY <2>1, <2>2, <2>5, ClaimsFall
  <2> QED
    BY <2>1, <2>4, <2>6 DEF Paid
<1> QED
  BY <1>1, <1>2, <1>4, <1>5, <1>6, <1>7 DEF Click

LEMMA ResolvePaid ==
    ASSUME PurchaseInductive, Charges, Paid, NEW call \in calls, Resolve(call)
    PROVE  Paid'
<1>1. /\ calls' = calls \ {call}
      /\ UNCHANGED <<showtime, visit, landed>>
  BY DEF Resolve, Succeed, Fail, networkVars, formVars
<1>2. IsFiniteSet(calls') /\ call.kind \in CallKinds
  BY <1>1, FS_RemoveElement DEF Paid, PurchaseInductive, PurchaseTypeOK, Call
<1>3. Straight' => Straight
  BY DEF Resolve, Succeed, Fail, Slip, Straight
<1>4. \A s \in Showtimes : ClaimsOn(s)' \subseteq ClaimsOn(s)
  BY <1>1 DEF ClaimsOn
<1>5. CASE ~OnScreen(call)
  <2>1. UNCHANGED <<pay, seats>>
    BY <1>5 DEF Resolve, Succeed, Fail, receiptVars
  <2>2. HandlersFit'
    BY <1>1, <1>3, <2>1 DEF Paid, HandlersFit, OnScreen
  <2>3. \A s \in Showtimes : ShownOn(s)' = ShownOn(s)
    BY <1>1, <2>1 DEF ShownOn
  <2>4. Covered'
    BY <1>1, <1>3, <1>4, <2>3, ClaimsFall
  <2> QED
    BY <1>2, <2>2, <2>4 DEF Paid
<1>6. CASE OnScreen(call)
  <2>1. HandlersFit'
    <3>1. Straight' => \A other \in calls' : ~OnScreen(other)'
      BY <1>1, <1>3, <1>6 DEF Paid, HandlersFit, OnScreen
    <3> QED
      BY <3>1 DEF HandlersFit
  <2>2. Straight' => /\ pay = Busy[call.kind]
                     /\ call.kind # "connect" => call.order.screening = showtime
                     /\ call.kind = "refund" => call.order.seats = seats
    BY <1>3, <1>6 DEF Paid, HandlersFit
  <2>3. Straight' => pay # "paid"
    BY <1>2, <2>2 DEF Busy, CallKinds
  <2>4. CASE pay' # "paid"
    <3>1. \A s \in Showtimes : ShownOn(s)' = 0
      BY <2>4 DEF ShownOn
    <3>2. Covered'
      BY <1>1, <1>3, <1>4, <3>1, ClaimsFall
    <3> QED
      BY <1>2, <2>1, <3>2 DEF Paid
  <2>5. CASE pay' = "paid"
    <3>1. CASE Succeed(call)
      <4>1. call.kind = "pay" /\ call \in landed /\ seats' = call.order.seats
        BY <1>6, <2>5, <3>1 DEF Succeed, Confirmed
      <4>2. \A s \in Showtimes : call \notin ClaimsOn(s)'
        BY <1>1, <4>1 DEF ClaimsOn
      <4>3. Straight' => call \in ClaimsOn(showtime) /\ call.order.seats = seats'
        BY <2>2, <4>1 DEF ClaimsOn
      <4>4. Covered'
        BY <1>1, <1>3, <2>3, <4>2, <4>3, ClaimIsShown
      <4> QED
        BY <1>2, <2>1, <4>4 DEF Paid
    <3>2. CASE Fail(call)
      <4>1. /\ AfterFailure[call.kind] = "paid" /\ seats' = seats
            /\ Slip("astray", call \in landed)
        BY <1>6, <2>5, <3>2 DEF Fail, receiptVars
      <4>2. call.kind = "refund"
        BY <1>2, <4>1 DEF AfterFailure, CallKinds
      <4>3. Straight' => call \notin landed
        BY <4>1, StraightStays
      <4>4. Straight' => \A s \in Showtimes : call \notin ClaimsOn(s)'
        BY <1>1, <4>3 DEF ClaimsOn
      <4>5. Straight' => call \in ClaimsOn(showtime) /\ call.order.seats = seats'
        BY <2>2, <4>1, <4>2 DEF ClaimsOn
      <4>6. Covered'
        BY <1>1, <1>3, <2>3, <4>4, <4>5, ClaimIsShown
      <4> QED
        BY <1>2, <2>1, <4>6 DEF Paid
    <3> QED
      BY <3>1, <3>2 DEF Resolve
  <2> QED
    BY <2>4, <2>5
<1> QED
  BY <1>5, <1>6

\* A deposit that lands becomes a claim as well, for the receipt it will fill; a
\* refund that lands was one from its click on.
LEMMA LandPaid ==
    ASSUME PurchaseInductive, Charges, Paid, NEW tx \in underway, Land(tx)
    PROVE  Paid'
<1>1. /\ landed' = landed \cup {tx}
      /\ UNCHANGED <<showtime, pay, seats, visit, calls>>
      /\ Slip("astray", tx \notin calls)
  BY DEF Land, pageVars, formVars, receiptVars
<1>2. Straight' => Straight /\ tx \in calls
  BY <1>1, StraightStays
<1>3. tx \notin landed /\ tx.order.seats \in Nat
  BY PurchaseAssumption DEF Charges, Numbered, PurchaseInductive, PurchaseTypeOK, Call
<1>4. HandlersFit' /\ IsFiniteSet(calls')
  BY <1>1, <1>2 DEF Paid, HandlersFit, OnScreen
<1>5. ASSUME Straight', NEW s \in Showtimes
      PROVE  Seats(ClaimsOn(s)') + ShownOn(s)' <= Seats(DepositsOn(s)')
  <2>1. /\ IsFiniteSet(ClaimsOn(s)) /\ IsFiniteSet(DepositsOn(s))
        /\ \A other \in ClaimsOn(s) \cup DepositsOn(s) : other.order.seats \in Nat
        /\ Seats(ClaimsOn(s)) \in Nat /\ Seats(DepositsOn(s)) \in Nat /\ ShownOn(s) \in Nat
    BY AccountsAdd
  <2>2. Seats(ClaimsOn(s)) + ShownOn(s) <= Seats(DepositsOn(s)) /\ ShownOn(s)' = ShownOn(s)
    BY <1>1, <1>2, <1>5 DEF Paid, Covered, ShownOn
  <2>3. CASE tx.kind = "pay" /\ tx.order.screening = s
    <3>1. ClaimsOn(s)' = ClaimsOn(s) \cup {tx} /\ tx \notin ClaimsOn(s)
      BY <1>1, <1>2, <1>3, <1>5, <2>3 DEF ClaimsOn
    <3>2. DepositsOn(s)' = DepositsOn(s) \cup {tx} /\ tx \notin DepositsOn(s)
      BY <1>1, <1>3, <2>3 DEF DepositsOn, Landed
    <3>3. Seats(ClaimsOn(s) \cup {tx}) = Seats(ClaimsOn(s)) + tx.order.seats
      BY <1>3, <2>1, <3>1, SeatsOfAnother
    <3>4. Seats(DepositsOn(s) \cup {tx}) = Seats(DepositsOn(s)) + tx.order.seats
      BY <1>3, <2>1, <3>2, SeatsOfAnother
    <3> QED
      BY <1>3, <2>1, <2>2, <3>1, <3>2, <3>3, <3>4
  <2>4. CASE tx.kind # "pay" \/ tx.order.screening # s
    <3>1. ClaimsOn(s)' = ClaimsOn(s)
      BY <1>1, <1>2, <1>5, <2>4 DEF ClaimsOn
    <3>2. DepositsOn(s)' = DepositsOn(s)
      BY <1>1, <2>4 DEF DepositsOn, Landed
    <3> QED
      BY <2>2, <3>1, <3>2
  <2> QED
    BY <2>3, <2>4
<1> QED
  BY <1>4, <1>5 DEF Paid, Covered

LEMMA PaidStays ==
    ASSUME PurchaseInductive, Charges, Paid, [PurchaseNext]_purchaseVars
    PROVE  Paid'
<1>1. CASE UNCHANGED purchaseVars
  <2>1. UNCHANGED <<showtime, pay, seats, visit, calls, landed, slips>>
    BY <1>1 DEF purchaseVars, pageVars, formVars, receiptVars, networkVars
  <2>2. Straight' => Straight
    BY <2>1 DEF Straight
  <2> QED
    BY <2>1, <2>2, FormPaid
<1>2. CASE PurchaseNext
  BY <1>2, ClickPaid, ResolvePaid, LandPaid DEF PurchaseNext
<1> QED
  BY <1>1, <1>2

\* While no confirmation was lost, no wallet connected over a payment and no
\* other showtime chosen over a receipt, the refunds of a screening that have
\* landed are for no more seats than its deposits, however often it was bought
\* and refunded and whatever page was left in the middle of it.
THEOREM RefundsAreAlwaysPaid == PurchaseSpec => []RefundsArePaid
<1>1. PurchaseInit => Charges /\ Paid
  BY ChargesAtFirst, PaidAtFirst
<1>2. /\ PurchaseInductive /\ Charges /\ Paid /\ [PurchaseNext]_purchaseVars
      => Charges' /\ Paid'
  BY ChargesStay, PaidStays
<1>3. ASSUME PurchaseInductive, Charges, Paid PROVE RefundsArePaid
  <2> SUFFICES ASSUME Straight, NEW s \in Showtimes
               PROVE  SeatsOf(Landed("refund"), s) <= SeatsOf(Landed("pay"), s)
    BY DEF RefundsArePaid, Straight
  <2>1. /\ IsFiniteSet(ClaimsOn(s)) /\ IsFiniteSet(DepositsOn(s))
        /\ \A tx \in ClaimsOn(s) \cup DepositsOn(s) : tx.order.seats \in Nat
        /\ Seats(ClaimsOn(s)) \in Nat /\ Seats(DepositsOn(s)) \in Nat /\ ShownOn(s) \in Nat
    BY <1>3, AccountsAdd
  <2>2. Seats(ClaimsOn(s)) + ShownOn(s) <= Seats(DepositsOn(s))
    BY <1>3 DEF Paid, Covered
  <2> DEFINE refunds == {tx \in Landed("refund") : tx.order.screening = s}
  <2>3. refunds \in SUBSET ClaimsOn(s)
    BY DEF ClaimsOn, Landed
  <2>4. SeatsOf(Landed("refund"), s) = Seats(refunds)
    BY DEF SeatsOf, Seats
  <2>5. SeatsOf(Landed("pay"), s) = Seats(DepositsOn(s))
    BY DEF SeatsOf, Seats, DepositsOn
  <2> HIDE DEF refunds
  <2>6. Seats(refunds) <= Seats(ClaimsOn(s)) /\ Seats(refunds) \in Nat
    <3>1. IsFiniteSet(refunds) /\ \A tx \in refunds : tx.order.seats \in Nat
      BY <2>1, <2>3, FS_Subset
    <3> QED
      BY <2>1, <2>3, <3>1, FewerSeats, SeatsAreNatural
  <2> QED
    BY <2>1, <2>2, <2>4, <2>5, <2>6
<1> QED
  BY <1>1, <1>2, <1>3, PurchaseAlwaysInductive, PTL DEF PurchaseSpec
=============================================================================
