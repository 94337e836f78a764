--------------------------- MODULE EscrowInterface ---------------------------
(***************************************************************************)
(* The interface of movie_escrow that clients compile against              *)
(* (packages/schema/idl): the accounts each instruction takes and may      *)
(* write, the accounts as clients read them, and the events.               *)
(*                                                                         *)
(* The runtime aborts a transaction that changes an account its message    *)
(* does not declare writable, and a client declares what the interface     *)
(* says.  The events are all a reader has who does not poll the accounts:  *)
(* an Observer keeps `view', made of nothing but the events.               *)
(*                                                                         *)
(* A name with an underscore, Name_Variant, is a deliberately wrong        *)
(* variant of the definition that follows it; no specification uses it.    *)
(***************************************************************************)
EXTENDS MovieEscrow

VARIABLE view

interfaceVars == <<vars, view>>

-----------------------------------------------------------------------------
(***************************************************************************)
(* Instructions: accounts by name.  Token accounts of the audience and the *)
(* right holders, and what is only read, are outside this model.           *)
(***************************************************************************)
ClaimAccounts_VaultReadOnly ==
    [signers  |-> {"beneficiary"},
     writable |-> {"beneficiary", "escrow", "allocation", "beneficiaryTokenAccount"},
     readonly |-> {"vault", "tokenProgram"}]
ClaimAccounts ==
    [signers  |-> {"beneficiary"},
     writable |-> {"beneficiary", "escrow", "allocation", "beneficiaryTokenAccount", "vault"},
     readonly |-> {"tokenProgram"}]

DepositAccounts ==
    [signers  |-> {"payer"},
     writable |-> {"payer", "escrow", "payerTokenAccount", "vault"},
     readonly |-> {"tokenProgram"}]

InitEscrowAccounts ==
    [signers  |-> {"payer", "authority"},
     writable |-> {"payer", "escrow", "vault"},
     readonly |-> {"usdcMint", "authority", "tokenProgram", "associatedTokenProgram",
                   "systemProgram"}]

MarkDisputedAccounts ==
    [signers  |-> {"authority"},
     writable |-> {"escrow", "allocation"},
     readonly |-> {"authority"}]

RefundPendingAccounts ==
    [signers  |-> {"payer"},
     writable |-> {"escrow", "payerTokenAccount", "vault"},
     readonly |-> {"payer", "tokenProgram"}]

ResolveDisputeAccounts ==
    [signers  |-> {"authority"},
     writable |-> {"escrow", "allocation"},
     readonly |-> {"authority"}]

AllocationOf ==
    [theaterAllocation |-> "Theater", distributorAllocation |-> "Distributor",
     producerAllocation |-> "Producer", investorAllocation |-> "Investor"]

SettleBatchAccounts ==
    [signers  |-> {"authority"},
     writable |-> {"authority", "escrow"} \cup DOMAIN AllocationOf,
     readonly |-> {"theaterWallet", "distributorWallet", "producerWallet",
                   "investorWallet", "systemProgram"}]

VerifyEscrowAccounts ==
    [signers  |-> {"authority"},
     writable |-> {"escrow"},
     readonly |-> {"authority"}]

(***************************************************************************)
(* The accounts as a client fetches them.                                  *)
(***************************************************************************)
MovieEscrowAccount ==
    [state |-> state, grossIn |-> gross_in, pending |-> pending, allocated |-> allocated,
     disputed |-> disputed, paidOut |-> paid_out, refunded |-> refunded,
     batchCount |-> batch_count, disputeCount |-> dispute_count,
     mgRemaining |-> mg_remaining, investmentRemaining |-> investment_remaining]

AllocationAccount(role) ==
    [beneficiary |-> beneficiary[role], claimable |-> claimable[role],
     claimed |-> claimed[role], disputed |-> held[role]]

-----------------------------------------------------------------------------
(***************************************************************************)
(* Events, of the step that emits them: figures are those after the step.  *)
(***************************************************************************)
DepositEvent(amount) ==
    [amount |-> amount, grossIn |-> gross_in', pending |-> pending']

RefundEvent(amount) ==
    [amount |-> amount, pending |-> pending', refunded |-> refunded']

VerifiedEvent == [state |-> "Verified"]

SettledEvent(amount, rule) ==
    LET split == Division(amount, rule)
    IN  [gross |-> amount, levy |-> split.levy, vat |-> split.vat,
         theaterAmount |-> split.theater, distributionFee |-> split.distribution_fee,
         mgRecoup |-> split.mg_recoup, investmentRecoup |-> split.investment_recoup,
         investorProfit |-> split.investor_profit, producerAmount |-> split.producer]

ClaimEvent(role, amount) ==
    [beneficiary |-> beneficiary[role], amount |-> amount, claimed |-> claimed'[role],
     allocated |-> allocated', paidOut |-> paid_out']

MarkDisputedEvent_Total(role, amount) ==
    [beneficiary |-> beneficiary[role], amount |-> held'[role],
     allocationDisputed |-> held'[role], escrowDisputed |-> disputed']
MarkDisputedEvent(role, amount) ==
    [beneficiary |-> beneficiary[role], amount |-> amount,
     allocationDisputed |-> held'[role], escrowDisputed |-> disputed']

ResolveDisputeEvent(role, approve) ==
    [beneficiary |-> beneficiary[role], approve |-> approve, amount |-> held[role],
     claimable |-> claimable'[role], escrowDisputed |-> disputed']

-----------------------------------------------------------------------------
(***************************************************************************)
(* The observer.  Events name the wallet of a right holder, not the role,  *)
(* and a settlement names roles, not wallets.                              *)
(***************************************************************************)
NoOne == [wallet \in Wallets \cup {NoWallet} |-> 0]

Observer ==
    view = [state |-> "Pending", grossIn |-> 0, pending |-> 0, allocated |-> 0,
            disputed |-> 0, paidOut |-> 0, refunded |-> 0,
            credited |-> [role \in Roles |-> 0],
            claimedBy |-> NoOne, frozenOf |-> NoOne, cutFrom |-> NoOne]

SeeDeposit(e) == view' = [view EXCEPT !.grossIn = e.grossIn, !.pending = e.pending]

SeeRefund(e) == view' = [view EXCEPT !.pending = e.pending, !.refunded = e.refunded]

SeeVerified(e) == view' = [view EXCEPT !.state = e.state]

\* Who is credited what, from the parts the event lists.
Credited(e) ==
    [Theater     |-> e.theaterAmount,
     Distributor |-> e.distributionFee + e.mgRecoup,
     Investor    |-> e.investmentRecoup + e.investorProfit,
     Producer    |-> e.producerAmount]

SeeSettled(e) ==
    view' = [view EXCEPT
        !.state     = IF @ = "Verified" THEN "Allocated" ELSE @,
        !.pending   = @ - e.gross,
        !.paidOut   = @ + e.levy + e.vat,
        !.allocated = @ + Total(Credited(e)),
        !.credited  = [role \in Roles |-> @[role] + Credited(e)[role]]]

SeeClaim(e) ==
    view' = [view EXCEPT
        !.allocated = e.allocated, !.paidOut = e.paidOut,
        !.claimedBy[e.beneficiary] = @ + e.amount]

SeeMarkDisputed(e) ==
    view' = [view EXCEPT
        !.state = "Disputed", !.disputed = e.escrowDisputed,
        !.allocated = @ - e.amount,
        !.frozenOf[e.beneficiary] = @ + e.amount]

SeeResolveDispute(e) ==
    view' = [view EXCEPT
        !.state     = IF e.escrowDisputed = 0 THEN "Allocated" ELSE @,
        !.disputed  = e.escrowDisputed,
        !.allocated = IF e.approve THEN @ + e.amount ELSE @,
        !.refunded  = IF e.approve THEN @ ELSE @ + e.amount,
        !.frozenOf[e.beneficiary] = @ - e.amount,
        !.cutFrom[e.beneficiary]  = IF e.approve THEN @ ELSE @ + e.amount]

(***************************************************************************)
(* Every instruction of the program, with the event it emits (init_escrow  *)
(* emits none: its account simply appears).                                *)
(***************************************************************************)
InterfaceInit == Init /\ Observer

InterfaceNext ==
    \/ /\ \E theaterKey \in Wallets, rule \in Rules, version \in Versions,
             mgAmount \in MgAmounts, investmentAmount \in InvestmentAmounts :
             InitEscrow(theaterKey, rule, version, mgAmount, investmentAmount)
       /\ UNCHANGED view
    \/ \E amount \in U64 :
          \/ Deposit(amount) /\ SeeDeposit(DepositEvent(amount))
          \/ RefundPending(amount) /\ SeeRefund(RefundEvent(amount))
    \/ VerifyEscrow /\ SeeVerified(VerifiedEvent)
    \/ \E amount \in U64, rule \in Rules, wallets \in WalletAssignments :
          /\ SettleBatch(amount, rule, wallets)
          /\ SeeSettled(SettledEvent(amount, rule))
    \/ \E role \in Roles, amount \in U64 :
          \/ Claim(role, amount) /\ SeeClaim(ClaimEvent(role, amount))
          \/ MarkDisputed(role, amount) /\ SeeMarkDisputed(MarkDisputedEvent(role, amount))
    \/ \E role \in Roles, approve \in BOOLEAN :
          /\ ResolveDispute(role, approve)
          /\ SeeResolveDispute(ResolveDisputeEvent(role, approve))

InterfaceSpec == InterfaceInit /\ [][InterfaceNext]_interfaceVars

-----------------------------------------------------------------------------
(***************************************************************************)
(* Properties.                                                             *)
(***************************************************************************)
Mine(role) == <<beneficiary[role], claimable[role], claimed[role], held[role]>>
EscrowFields ==
    <<state, contractVars, gross_in, pending, allocated, disputed, paid_out, refunded,
      batch_count, dispute_count, recoupVars>>

\* The accounts a step changes.
Changed ==
    (IF EscrowFields' # EscrowFields THEN {"escrow"} ELSE {})
        \cup (IF vault' # vault THEN {"vault"} ELSE {})
        \cup {role \in Roles : Mine(role)' # Mine(role)}

\* The accounts a message declares writable; "allocation" is that of one role.
Declared(accounts, role) ==
    (accounts.writable \cap {"escrow", "vault"})
        \cup (IF "allocation" \in accounts.writable THEN {role} ELSE {})
        \cup {AllocationOf[name] : name \in accounts.writable \cap DOMAIN AllocationOf}

Within(accounts, role) == Changed \subseteq Declared(accounts, role)

\* No instruction writes an account that the interface does not declare
\* writable, in any state: else only some transactions of it, those that take
\* the branch that writes, would abort.  Another right holder's Allocation is
\* among the accounts that a claim and a dispute must leave alone.
WritesAreDeclared ==
    [][ /\ \A amount \in U64 :
              /\ Deposit(amount) => Within(DepositAccounts, "none")
              /\ RefundPending(amount) => Within(RefundPendingAccounts, "none")
        /\ VerifyEscrow => Within(VerifyEscrowAccounts, "none")
        /\ batch_count' # batch_count => Within(SettleBatchAccounts, "none")
        /\ (state = Uninitialized /\ Exists') => Within(InitEscrowAccounts, "none")
        /\ \A role \in Roles :
              /\ \A amount \in U64 :
                    /\ Claim(role, amount) => Within(ClaimAccounts, role)
                    /\ MarkDisputed(role, amount) => Within(MarkDisputedAccounts, role)
              /\ \A approve \in BOOLEAN :
                    ResolveDispute(role, approve) => Within(ResolveDisputeAccounts, role)
      ]_vars

SumOver(f, roles) == Total([role \in Roles |-> IF role \in roles THEN f[role] ELSE 0])
RolesOf(wallet) == {role \in Roles : AllocationAccount(role).beneficiary = wallet}

\* The header comments of the events (stage 5, stage 4: "for the on-chain
\* history"): events alone tell the state, the six totals, and, wallet by
\* wallet, what was drawn, is frozen and is due.  A wallet with several roles is
\* told in sum; what was frozen before its holder was bound is told of nobody.
EventsTellTheLedger ==
    Exists =>
        /\ \A figure \in {"state", "grossIn", "pending", "allocated", "disputed",
                          "paidOut", "refunded"} :
              view[figure] = MovieEscrowAccount[figure]
        /\ view.frozenOf[NoWallet] = 0 /\ view.cutFrom[NoWallet] = 0 =>
              \A wallet \in Wallets :
                  /\ view.claimedBy[wallet] = SumOver(claimed, RolesOf(wallet))
                  /\ view.frozenOf[wallet] = SumOver(held, RolesOf(wallet))
                  /\ SumOver(view.credited, RolesOf(wallet)) - view.cutFrom[wallet]
                        = SumOver(claimable, RolesOf(wallet))
=============================================================================
