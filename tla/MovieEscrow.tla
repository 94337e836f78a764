----------------------------- MODULE MovieEscrow -----------------------------
(***************************************************************************)
(* The on-chain program programs/movie_escrow: one escrow account, its     *)
(* four Allocation accounts and its token vault.  Escrows of different     *)
(* movies share nothing, so one is enough.                                 *)
(*                                                                         *)
(* An instruction is a transaction: it runs alone and either all of its    *)
(* writes happen or none.  Each is one action; every require!, checked_*   *)
(* and failing token transfer of the handler is a guard of the action,     *)
(* because an instruction that returns an error changes nothing.           *)
(* A name with an underscore, Action_Variant, is a deliberately wrong      *)
(* variant of the definition that follows it; no specification uses it.    *)
(*                                                                         *)
(* verify_escrow, settle_batch, mark_disputed and resolve_dispute carry    *)
(* has_one = authority: the actions of those names are the calls of the    *)
(* stored authority, the calls of anybody else are rejected.               *)
(***************************************************************************)
EXTENDS Waterfall

CONSTANTS
    U64Max, U32Max,         \* where checked arithmetic fails
    Rules,                  \* rules that may be registered or passed
    Versions,               \* values of rule_version
    MgAmounts,              \* contract totals that may be registered
    InvestmentAmounts,
    Wallets,
    WalletAssignments,      \* the four wallets a settle_batch call may name
    NoWallet,               \* Pubkey::default()
    NoRule                  \* rule_hash of an account that does not exist

ASSUME EscrowAssumption ==
    /\ U64Max \in Nat
    /\ U32Max \in Nat
    /\ Rules \subseteq RuleType
    /\ Versions \subseteq Nat
    /\ MgAmounts \subseteq 0 .. U64Max
    /\ InvestmentAmounts \subseteq 0 .. U64Max
    /\ NoWallet \notin Wallets
    /\ WalletAssignments \subseteq [Roles -> Wallets \cup {NoWallet}]
    /\ WalletAssignments # {}
    /\ NoRule \notin Rules

U64 == 0 .. U64Max
U32 == 0 .. U32Max

VARIABLES
    \* the MovieEscrow account
    state, theater, rule_hash, rule_version,
    gross_in, pending, allocated, disputed, paid_out, refunded,
    batch_count, dispute_count, mg_remaining, investment_remaining,
    \* the Allocation accounts, by role (held is Allocation.disputed)
    beneficiary, claimable, claimed, held,
    \* the token balance of the vault account
    vault,
    \* history: what rejected disputes booked as refunded without a transfer
    clawed_back

contractVars == <<theater, rule_hash, rule_version>>
recoupVars   == <<mg_remaining, investment_remaining>>
allocVars    == <<beneficiary, claimable, claimed, held>>
vars == <<state, contractVars, gross_in, pending, allocated, disputed, paid_out,
          refunded, batch_count, dispute_count, recoupVars, allocVars, vault, clawed_back>>

EscrowState == {"Pending", "Verified", "Allocated", "Paid", "Disputed"}
Uninitialized == "Uninitialized"

(***************************************************************************)
(* claimable - claimed - disputed: the amount that claim and mark_disputed *)
(* both bound their argument with.                                         *)
(***************************************************************************)
Remaining_IgnoringHolds(role) == claimable[role] - claimed[role]
Remaining(role) == claimable[role] - claimed[role] - held[role]

Exists == state # Uninitialized

-----------------------------------------------------------------------------

(***************************************************************************)
(* Before init_escrow there is no account.                                 *)
(***************************************************************************)
Init ==
    /\ state = Uninitialized
    /\ theater = NoWallet /\ rule_hash = NoRule /\ rule_version = 0
    /\ gross_in = 0 /\ pending = 0 /\ allocated = 0
    /\ disputed = 0 /\ paid_out = 0 /\ refunded = 0
    /\ batch_count = 0 /\ dispute_count = 0
    /\ mg_remaining = 0 /\ investment_remaining = 0
    /\ beneficiary = [role \in Roles |-> NoWallet]
    /\ claimable = [role \in Roles |-> 0]
    /\ claimed = [role \in Roles |-> 0]
    /\ held = [role \in Roles |-> 0]
    /\ vault = 0
    /\ clawed_back = 0

(***************************************************************************)
(* init_escrow.  The account is created by the `init' constraint, so the   *)
(* call succeeds at most once.  rule_hash and rule_version are separate    *)
(* arguments: nothing ties the version inside the hashed preimage to the   *)
(* stored one, and the rates behind the hash are not validated.            *)
(***************************************************************************)
InitEscrow(theaterKey, rule, version, mgAmount, investmentAmount) ==
    /\ ~Exists
    /\ state' = "Pending"
    /\ theater' = theaterKey
    /\ rule_hash' = rule
    /\ rule_version' = version
    /\ mg_remaining' = mgAmount
    /\ investment_remaining' = investmentAmount
    /\ UNCHANGED <<gross_in, pending, allocated, disputed, paid_out, refunded,
                   batch_count, dispute_count, allocVars, vault, clawed_back>>

Deposit_UncheckedGross(amount) ==
    /\ Exists
    /\ pending + amount <= U64Max
    /\ vault' = vault + amount
    /\ gross_in' = gross_in + amount
    /\ pending' = pending + amount
    /\ UNCHANGED <<state, contractVars, allocated, disputed, paid_out, refunded,
                   batch_count, dispute_count, recoupVars, allocVars, clawed_back>>

Deposit_SkippingUnits(amount) ==
    /\ Exists
    /\ gross_in + amount <= U64Max
    /\ vault' = IF amount > 1 THEN vault + amount ELSE vault
    /\ gross_in' = gross_in + amount
    /\ pending' = pending + amount
    /\ UNCHANGED <<state, contractVars, allocated, disputed, paid_out, refunded,
                   batch_count, dispute_count, recoupVars, allocVars, clawed_back>>

(***************************************************************************)
(* deposit, in any state of the escrow.  A free ticket (amount 0) skips    *)
(* the transfer and leaves only an event.                                  *)
(***************************************************************************)
Deposit(amount) ==
    /\ Exists
    /\ gross_in + amount <= U64Max
    /\ pending + amount <= U64Max
    /\ vault' = vault + amount
    /\ gross_in' = gross_in + amount
    /\ pending' = pending + amount
    /\ UNCHANGED <<state, contractVars, allocated, disputed, paid_out, refunded,
                   batch_count, dispute_count, recoupVars, allocVars, clawed_back>>

(***************************************************************************)
(* refund_pending, in any state of the escrow, up to what is pending.      *)
(***************************************************************************)
MayRefund(amount) ==
    /\ Exists
    /\ amount > 0
    /\ amount <= vault
    /\ amount <= pending
    /\ refunded + amount <= U64Max

RefundPending(amount) ==
    /\ MayRefund(amount)
    /\ vault' = vault - amount
    /\ pending' = pending - amount
    /\ refunded' = refunded + amount
    /\ UNCHANGED <<state, contractVars, gross_in, allocated, disputed, paid_out,
                   batch_count, dispute_count, recoupVars, allocVars, clawed_back>>

VerifyEscrow ==
    /\ state = "Pending"
    /\ state' = "Verified"
    /\ UNCHANGED <<contractVars, gross_in, pending, allocated, disputed, paid_out,
                   refunded, batch_count, dispute_count, recoupVars, allocVars,
                   vault, clawed_back>>
-----------------------------------------------------------------------------

(***************************************************************************)
(* settle_batch.                                                           *)
(***************************************************************************)
Settleable == {"Verified", "Allocated", "Disputed"}

\* The rates passed in, under the stored version, hash to the stored hash.
RuleMatches_IgnoringFee(rule) ==
    [rule EXCEPT !.rule_version = rule_version,
                 !.distribution_fee_bps = rule_hash.distribution_fee_bps] = rule_hash
RuleMatches(rule) == [rule EXCEPT !.rule_version = rule_version] = rule_hash

\* bind_beneficiary: an Allocation without a wallet takes any, a bound one
\* only its own.
MayBind(role, wallet) == beneficiary[role] \in {NoWallet, wallet}

\* The division of this settlement.
Division(amount, rule) == Split(amount, rule, mg_remaining, investment_remaining)

\* Dividing succeeds: the fee fits, the parts add up to the amount, and no u64
\* field that is credited overflows.
DivisionFits(amount, split) ==
    /\ split.fee_fits
    /\ Total(Credit(split)) + Tax(split) = amount
    /\ \A role \in Roles : claimable[role] + Credit(split)[role] <= U64Max
    /\ allocated + Total(Credit(split)) <= U64Max
    /\ paid_out + Tax(split) <= U64Max

\* The first settlement moves Verified to Allocated; an open dispute stays open.
StateAfterSettle_Reset == "Allocated"
StateAfterSettle == IF state = "Verified" THEN "Allocated" ELSE state

\* All that the handler checks before anything is written: any failure undoes
\* the instruction.
MaySettle(amount, rule, wallets) ==
    /\ state \in Settleable
    /\ RuleAccepted(rule)
    /\ RuleMatches(rule)
    /\ amount > 0 /\ amount <= pending
    /\ DivisionFits(amount, Division(amount, rule))
    /\ \A role \in Roles : MayBind(role, wallets[role])
    /\ batch_count < U32Max

SettleBatch(amount, rule, wallets) ==
    /\ MaySettle(amount, rule, wallets)
    /\ LET split == Division(amount, rule) IN
       /\ claimable' = [role \in Roles |-> claimable[role] + Credit(split)[role]]
       /\ mg_remaining' = mg_remaining - split.mg_recoup
       /\ investment_remaining' = investment_remaining - split.investment_recoup
       /\ allocated' = allocated + Total(Credit(split))
       /\ paid_out' = paid_out + Tax(split)
    /\ beneficiary' = wallets
    /\ pending' = pending - amount
    /\ batch_count' = batch_count + 1
    /\ state' = StateAfterSettle
    /\ UNCHANGED <<contractVars, gross_in, disputed, refunded, dispute_count,
                   claimed, held, vault, clawed_back>>
-----------------------------------------------------------------------------

Claim_LeavingAllocated(role, amount) ==
    /\ beneficiary[role] \in Wallets
    /\ amount > 0
    /\ state \in {"Allocated", "Disputed"}
    /\ amount <= Remaining(role)
    /\ amount <= vault
    /\ vault' = vault - amount
    /\ claimed' = [claimed EXCEPT ![role] = @ + amount]
    /\ paid_out' = paid_out + amount
    /\ UNCHANGED <<state, contractVars, gross_in, pending, allocated, disputed, refunded,
                   batch_count, dispute_count, recoupVars,
                   beneficiary, claimable, held, clawed_back>>

(***************************************************************************)
(* claim, signed by the wallet the Allocation is bound to.                 *)
(***************************************************************************)
Claim(role, amount) ==
    /\ beneficiary[role] \in Wallets
    /\ amount > 0
    /\ state \in {"Allocated", "Disputed"}
    /\ amount <= Remaining(role)
    /\ amount <= allocated
    /\ amount <= vault
    /\ claimed[role] + amount <= U64Max
    /\ paid_out + amount <= U64Max
    /\ vault' = vault - amount
    /\ claimed' = [claimed EXCEPT ![role] = @ + amount]
    /\ allocated' = allocated - amount
    /\ paid_out' = paid_out + amount
    /\ UNCHANGED <<state, contractVars, gross_in, pending, disputed, refunded,
                   batch_count, dispute_count, recoupVars,
                   beneficiary, claimable, held, clawed_back>>

(***************************************************************************)
(* mark_disputed: freeze part of a right holder's unclaimed share.         *)
(***************************************************************************)
MarkDisputed(role, amount) ==
    /\ state \in {"Allocated", "Disputed"}
    /\ amount > 0
    /\ amount <= Remaining(role)
    /\ held[role] + amount <= U64Max
    /\ amount <= allocated
    /\ disputed + amount <= U64Max
    /\ dispute_count < U32Max
    /\ held' = [held EXCEPT ![role] = @ + amount]
    /\ allocated' = allocated - amount
    /\ disputed' = disputed + amount
    /\ state' = "Disputed"
    /\ dispute_count' = dispute_count + 1
    /\ UNCHANGED <<contractVars, gross_in, pending, paid_out, refunded, batch_count,
                   recoupVars, beneficiary, claimable, claimed, vault, clawed_back>>

(***************************************************************************)
(* resolve_dispute: all that is held of one right holder is released, or   *)
(* cut from the share and booked as refunded (no transfer).                *)
(***************************************************************************)
StateAfterResolve_Reset == "Allocated"
StateAfterResolve == IF disputed' = 0 THEN "Allocated" ELSE state

\* A rejected hold is cut from the share: left in place it could be drawn again.
ShareAfterRejection_Kept(role) == claimable[role]
ShareAfterRejection_Emptied(role) == claimed[role]
ShareAfterRejection(role) == claimable[role] - held[role]

ApproveDispute(role) ==
    /\ state = "Disputed"
    /\ held[role] > 0
    /\ held[role] <= disputed
    /\ allocated + held[role] <= U64Max
    /\ held' = [held EXCEPT ![role] = 0]
    /\ disputed' = disputed - held[role]
    /\ allocated' = allocated + held[role]
    /\ state' = StateAfterResolve
    /\ UNCHANGED <<contractVars, gross_in, pending, paid_out, refunded, batch_count,
                   dispute_count, recoupVars, beneficiary, claimable, claimed,
                   vault, clawed_back>>

RejectDispute_NotBooked(role) ==
    /\ state = "Disputed"
    /\ held[role] > 0
    /\ held[role] <= claimable[role]
    /\ held[role] <= disputed
    /\ held' = [held EXCEPT ![role] = 0]
    /\ claimable' = [claimable EXCEPT ![role] = ShareAfterRejection(role)]
    /\ disputed' = disputed - held[role]
    /\ clawed_back' = clawed_back + held[role]
    /\ state' = StateAfterResolve
    /\ UNCHANGED <<contractVars, gross_in, pending, allocated, paid_out, refunded,
                   batch_count, dispute_count, recoupVars, beneficiary, claimed, vault>>

RejectDispute(role) ==
    /\ state = "Disputed"
    /\ held[role] > 0
    /\ held[role] <= claimable[role]
    /\ held[role] <= disputed
    /\ refunded + held[role] <= U64Max
    /\ held' = [held EXCEPT ![role] = 0]
    /\ claimable' = [claimable EXCEPT ![role] = ShareAfterRejection(role)]
    /\ disputed' = disputed - held[role]
    /\ refunded' = refunded + held[role]
    /\ clawed_back' = clawed_back + held[role]
    /\ state' = StateAfterResolve
    /\ UNCHANGED <<contractVars, gross_in, pending, allocated, paid_out, batch_count,
                   dispute_count, recoupVars, beneficiary, claimed, vault>>

ResolveDispute(role, approve) ==
    IF approve THEN ApproveDispute(role) ELSE RejectDispute(role)

-----------------------------------------------------------------------------

(***************************************************************************)
(* Everybody acts: the audience, the authority and the right holders, in   *)
(* any order.                                                              *)
(***************************************************************************)
Audience ==
    \E amount \in U64 : Deposit(amount) \/ RefundPending(amount)

Agent ==
    \/ \E theaterKey \in Wallets, rule \in Rules, version \in Versions,
          mgAmount \in MgAmounts, investmentAmount \in InvestmentAmounts :
          InitEscrow(theaterKey, rule, version, mgAmount, investmentAmount)
    \/ VerifyEscrow
    \/ \E amount \in U64, rule \in Rules, wallets \in WalletAssignments :
          SettleBatch(amount, rule, wallets)
    \/ \E role \in Roles, amount \in U64 : MarkDisputed(role, amount)
    \/ \E role \in Roles, approve \in BOOLEAN : ResolveDispute(role, approve)

RightHolders ==
    \E role \in Roles, amount \in U64 : Claim(role, amount)

Next == Audience \/ Agent \/ RightHolders

Spec == Init /\ [][Next]_vars

-----------------------------------------------------------------------------
(***************************************************************************)
(* Properties.                                                             *)
(***************************************************************************)

\* Every field of the accounts holds a value of its type.
TypeOK ==
    /\ state \in EscrowState \cup {Uninitialized}
    /\ theater \in Wallets \cup {NoWallet}
    /\ rule_hash \in Rules \cup {NoRule}
    /\ rule_version \in Nat
    /\ {gross_in, pending, allocated, disputed, paid_out, refunded} \subseteq U64
    /\ {mg_remaining, investment_remaining, vault} \subseteq U64
    /\ {batch_count, dispute_count} \subseteq U32
    /\ beneficiary \in [Roles -> Wallets \cup {NoWallet}]
    /\ claimable \in [Roles -> U64]
    /\ claimed \in [Roles -> U64]
    /\ held \in [Roles -> U64]
    /\ clawed_back \in Nat

\* Invariants 1 and 3 of state.rs: every unit that ever came in is in exactly
\* one of the five envelopes, across deposits, refunds, settlements, claims,
\* holds and their resolution.
Conservation ==
    gross_in = pending + allocated + disputed + paid_out + refunded

\* The two aggregate envelopes of the escrow are the sums over the Allocation
\* accounts, which no instruction ever recomputes: settle_batch, claim,
\* mark_disputed and resolve_dispute each move them by hand.
AllocatedIsBacked ==
    allocated = Total(claimable) - Total(claimed) - Total(held)
DisputedIsBacked == disputed = Total(held)

\* Invariant 2 of state.rs, with holds: what a right holder has drawn and what
\* is frozen never exceed the share, so that the checked_subs of claim and
\* mark_disputed never fail.
ShareNotOverdrawn ==
    \A role \in Roles : claimed[role] + held[role] <= claimable[role]

\* The Allocation accounts and the aggregates agree, and no share is overdrawn.
EnvelopesAreBacked == AllocatedIsBacked /\ DisputedIsBacked /\ ShareNotOverdrawn

\* The vault holds what the envelopes still owe, plus what was booked as paid
\* out or refunded without a transfer: taxes and rejected disputes.
TaxesWithheld == paid_out - Total(claimed)
VaultAccounted ==
    vault = pending + allocated + disputed + TaxesWithheld + clawed_back

\* The state is Disputed exactly while something is frozen: a settlement in
\* between, a partial resolution or a second hold does not lose the flag.
DisputedExactly == (state = "Disputed") <=> (disputed > 0)

\* Until verify_escrow has been called, money only comes in and is refunded.
NothingSettledBeforeVerification ==
    state \in {Uninitialized, "Pending", "Verified"} =>
        /\ batch_count = 0 /\ allocated = 0 /\ disputed = 0 /\ paid_out = 0
        /\ \A role \in Roles : claimable[role] = 0
        /\ gross_in = pending + refunded

\* The inductive invariant: the parts above, and what makes them inductive.
\* The two figures no instruction stores, the taxes and the rejected holds left
\* in the vault, are not negative; an existing account has a registered rule.
Inductive ==
    /\ TypeOK
    /\ Conservation
    /\ AllocatedIsBacked
    /\ DisputedIsBacked
    /\ ShareNotOverdrawn
    /\ VaultAccounted
    /\ DisputedExactly
    /\ NothingSettledBeforeVerification
    /\ TaxesWithheld >= 0
    /\ clawed_back <= refunded
    /\ Exists => rule_hash \in Rules

\* A right holder can draw the whole unfrozen share at any time: no hold on
\* another right holder, no settlement, refund or rejected dispute makes the
\* guards of claim on the aggregates fail.
EveryShareIsPayable ==
    \A role \in Roles : Remaining(role) > 0 =>
        /\ state \in {"Allocated", "Disputed"}
        /\ Remaining(role) <= allocated
        /\ Remaining(role) <= vault
        /\ claimed[role] + Remaining(role) <= U64Max
        /\ paid_out + Remaining(role) <= U64Max

\* Whatever is frozen can be released and can be cut: no hold is stuck.
EveryHoldIsResolvable ==
    \A role \in Roles : held[role] > 0 =>
        /\ state = "Disputed"
        /\ held[role] <= claimable[role]
        /\ held[role] <= disputed
        /\ allocated + held[role] <= U64Max
        /\ refunded + held[role] <= U64Max

\* No pending money is stuck.  Whatever rule was registered and whatever state
\* the escrow is in, any part of it can be refunded.  Once verified, any part can
\* also be settled: under the rule registered, if that rule is well formed, of the
\* stored version and its fee at most the whole, with wallets that every bound
\* Allocation accepts, and until the counter of settlements is full.  Overflow
\* of the ledger is met when money is deposited, never when it is divided.
RegisteredRuleIsUsable ==
    /\ rule_hash # NoRule
    /\ RuleAccepted(rule_hash)
    /\ rule_hash.rule_version = rule_version
    /\ rule_hash.distribution_fee_bps <= BpsDenominator

PendingIsNeverStuck ==
    /\ Exists => \A amount \in 1 .. pending : MayRefund(amount)
    /\ state \in Settleable /\ RegisteredRuleIsUsable /\ batch_count < U32Max =>
          \A amount \in 1 .. pending : \E wallets \in WalletAssignments :
              MaySettle(amount, rule_hash, wallets)

\* The investor recoups nothing while the MG is outstanding; the producer gets
\* nothing while the MG or the investment is; across all screenings.
PaysInRank ==
    /\ investment_remaining' < investment_remaining /\ Exists => mg_remaining' = 0
    /\ claimable'["Producer"] > claimable["Producer"] =>
          mg_remaining' = 0 /\ investment_remaining' = 0
RecoupmentOrder == [][PaysInRank]_vars

\* A right holder's share shrinks only by the rejection of its own hold, and by
\* exactly what was frozen; nothing anybody does to another role touches it.
CutsOnlyTheHold ==
    \A role \in Roles : claimable'[role] < claimable[role] =>
        /\ claimable[role] - claimable'[role] = held[role]
        /\ held'[role] = 0
        /\ claimed'[role] = claimed[role]
        /\ refunded' = refunded + held[role]
        /\ \A other \in Roles \ {role} :
              /\ claimable'[other] = claimable[other]
              /\ held'[other] = held[other]
ShareShrinksOnlyByRejection == [][CutsOnlyTheHold]_vars

\* Money is divided only by the rates registered at init_escrow, whatever rates
\* the caller passes, and only if they were registered well formed and under the
\* stored version: every credit, the taxes and both recoupments of a settlement
\* are those of the registered rule ("the code enforces the rule").
DividesByTheRegisteredRule ==
    batch_count' # batch_count =>
        /\ rule_hash # NoRule
        /\ RuleAccepted(rule_hash)
        /\ rule_hash.rule_version = rule_version
        /\ LET split == Division(pending - pending', rule_hash) IN
           /\ split.fee_fits
           /\ \A role \in Roles :
                 claimable'[role] - claimable[role] = Credit(split)[role]
           /\ paid_out' - paid_out = Tax(split)
           /\ mg_remaining - mg_remaining' = split.mg_recoup
           /\ investment_remaining - investment_remaining' = split.investment_recoup
OnlyTheRegisteredRuleSettles == [][DividesByTheRegisteredRule]_vars

\* Money leaves the vault only for a refund of pending money, or for a claim,
\* by the bound wallet, of money already settled; and the other envelopes do
\* not move with it.
PaysOutOfOneEnvelope ==
    LET amount == vault - vault'
    IN  amount > 0 =>
          \/ /\ pending - pending' = amount
             /\ refunded' - refunded = amount
             /\ UNCHANGED <<allocated, disputed, paid_out, claimed>>
          \/ /\ allocated - allocated' = amount
             /\ paid_out' - paid_out = amount
             /\ Total(claimed') - Total(claimed) = amount
             /\ UNCHANGED <<pending, disputed, refunded>>
             /\ \A role \in Roles : claimed'[role] # claimed[role] =>
                   beneficiary[role] \in Wallets
VaultExits == [][PaysOutOfOneEnvelope]_vars

\* verify_escrow.rs, header: settle_batch accepts only the Verified state, so
\* that nothing is settled on chain without the verification of stage 3.
SettlesOnlyWhenVerified ==
    [][ batch_count' > batch_count => state = "Verified" ]_vars

\* state.rs, field theater: it must be the wallet bound to the Theater
\* Allocation, because the history of a theatre is collected by that field.
TheaterIsTheBeneficiary ==
    beneficiary["Theater"] # NoWallet => beneficiary["Theater"] = theater
=============================================================================
