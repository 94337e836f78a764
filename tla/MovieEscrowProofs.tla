-------------------------- MODULE MovieEscrowProofs --------------------------
(***************************************************************************)
(* The program, for every capacity, rule, contract and sequence of         *)
(* instructions.                                                           *)
(*                                                                         *)
(* First the ledger invariants: Inductive is the invariant, and one lemma  *)
(* shows that each instruction preserves it.  Then what a step may do: who *)
(* is paid before whom, what a share may lose, where money leaves the      *)
(* vault; and that what is pending can be settled.  Last, that the program *)
(* implements the abstract ledger: its initial states are the ledger's,    *)
(* and each instruction is a step of the ledger, or one it does not see,   *)
(* from any state in which Inductive holds.                                *)
(***************************************************************************)
EXTENDS MovieEscrowRefinement, WaterfallProofs

(***************************************************************************)
(* Totals over the four roles.                                             *)
(***************************************************************************)
LEMMA TotalZero ==
    Total([role \in Roles |-> 0]) = 0
BY DEF Total, Roles

LEMMA TotalExcept ==
    ASSUME NEW f \in [Roles -> Nat], NEW role \in Roles, NEW x \in Int
    PROVE  Total([f EXCEPT ![role] = x]) = Total(f) - f[role] + x
BY DEF Total, Roles

LEMMA TotalSum ==
    ASSUME NEW f \in [Roles -> Nat], NEW g \in [Roles -> Nat]
    PROVE  Total([role \in Roles |-> f[role] + g[role]]) = Total(f) + Total(g)
BY DEF Total, Roles

LEMMA TotalBounds ==
    ASSUME NEW f \in [Roles -> Nat], NEW role \in Roles
    PROVE  Total(f) \in Nat /\ f[role] <= Total(f)
BY DEF Total, Roles

\* A share's unfrozen rest is at most what the escrow has allocated.
LEMMA RemainingBounds ==
    ASSUME NEW c \in [Roles -> Nat], NEW d \in [Roles -> Nat], NEW h \in [Roles -> Nat],
           \A role \in Roles : d[role] + h[role] <= c[role],
           NEW r \in Roles
    PROVE  /\ c[r] - d[r] - h[r] <= Total(c) - Total(d) - Total(h)
           /\ Total(d) + Total(h) <= Total(c)
BY DEF Total, Roles

LEMMA CreditType ==
    ASSUME NEW gross \in Nat, NEW rule \in RuleType, RuleAccepted(rule),
           NEW mg \in Nat, NEW inv \in Nat,
           NEW s, s = Split(gross, rule, mg, inv), s.fee_fits
    PROVE  Credit(s) \in [Roles -> Nat] /\ Tax(s) \in Nat
<1>1. /\ s.levy \in Nat /\ s.vat \in Nat
      /\ s.theater \in Nat /\ s.distribution_fee \in Nat
      /\ s.mg_recoup \in Nat /\ s.investment_recoup \in Nat
      /\ s.investor_profit \in Nat /\ s.producer \in Nat
  BY WaterfallIsExactAndSound
<1> QED
  BY <1>1 DEF Credit, Tax, Roles
-----------------------------------------------------------------------------
(***************************************************************************)
(* Initial states, and one lemma per instruction.                          *)
(***************************************************************************)
LEMMA InitInductive == Init => Inductive
<1> SUFFICES ASSUME Init PROVE Inductive
  OBVIOUS
<1>1. TypeOK
  BY EscrowAssumption DEF Init, TypeOK, U64, U32, Uninitialized
<1>2. Total(claimable) = 0 /\ Total(claimed) = 0 /\ Total(held) = 0
  BY TotalZero DEF Init
<1> QED
  BY <1>1, <1>2 DEF Init, Inductive, Conservation, AllocatedIsBacked, DisputedIsBacked,
     ShareNotOverdrawn, VaultAccounted, TaxesWithheld, DisputedExactly,
     NothingSettledBeforeVerification, Exists, Uninitialized

\* The facts about numbers that every step below starts from.
LEMMA Numbers ==
    ASSUME Inductive
    PROVE  /\ U64Max \in Nat /\ U32Max \in Nat
           /\ gross_in \in Nat /\ pending \in Nat /\ allocated \in Nat
           /\ disputed \in Nat /\ paid_out \in Nat /\ refunded \in Nat
           /\ vault \in Nat /\ clawed_back \in Nat
           /\ mg_remaining \in U64 /\ investment_remaining \in U64
           /\ batch_count \in U32 /\ dispute_count \in U32
           /\ gross_in <= U64Max
           /\ claimable \in [Roles -> Nat] /\ claimed \in [Roles -> Nat]
           /\ held \in [Roles -> Nat]
           /\ Total(claimable) \in Nat /\ Total(claimed) \in Nat /\ Total(held) \in Nat
<1>1. /\ U64Max \in Nat /\ U32Max \in Nat
      /\ gross_in \in U64 /\ pending \in U64 /\ allocated \in U64
      /\ disputed \in U64 /\ paid_out \in U64 /\ refunded \in U64
      /\ vault \in U64 /\ clawed_back \in Nat
      /\ mg_remaining \in U64 /\ investment_remaining \in U64
      /\ batch_count \in U32 /\ dispute_count \in U32
  BY EscrowAssumption DEF Inductive, TypeOK
<1>2. /\ claimable \in [Roles -> U64] /\ claimed \in [Roles -> U64]
      /\ held \in [Roles -> U64]
  BY DEF Inductive, TypeOK
<1>3. U64 \subseteq Nat
  BY <1>1 DEF U64
<1>4. /\ claimable \in [Roles -> Nat] /\ claimed \in [Roles -> Nat]
      /\ held \in [Roles -> Nat]
  BY <1>2, <1>3
<1>5. Total(claimable) \in Nat /\ Total(claimed) \in Nat /\ Total(held) \in Nat
  <2>1. "Theater" \in Roles
    BY DEF Roles
  <2> QED
    BY <1>4, <2>1, TotalBounds
<1> QED
  BY <1>1, <1>3, <1>4, <1>5 DEF U64

LEMMA InitEscrowInductive ==
    ASSUME Inductive,
           NEW theaterKey \in Wallets, NEW rule \in Rules, NEW version \in Versions,
           NEW mgAmount \in MgAmounts, NEW investmentAmount \in InvestmentAmounts,
           InitEscrow(theaterKey, rule, version, mgAmount, investmentAmount)
    PROVE  Inductive'
<1> USE DEF InitEscrow
<1>1. TypeOK'
  BY EscrowAssumption DEF Inductive, TypeOK, allocVars, EscrowState, U64
<1>2. disputed = 0
  BY DEF Inductive, NothingSettledBeforeVerification, Exists
<1> QED
  BY <1>1, <1>2 DEF Inductive, Conservation, AllocatedIsBacked, DisputedIsBacked,
     ShareNotOverdrawn, VaultAccounted, TaxesWithheld, DisputedExactly,
     NothingSettledBeforeVerification, Exists, Uninitialized, allocVars

LEMMA DepositInductive ==
    ASSUME Inductive, NEW amount \in U64, Deposit(amount)
    PROVE  Inductive'
<1> USE DEF Deposit
<1>1. /\ amount \in Nat /\ gross_in' = gross_in + amount /\ pending' = pending + amount
      /\ vault' = vault + amount /\ gross_in' <= U64Max /\ pending' <= U64Max
  BY EscrowAssumption DEF U64
<1>2. vault <= gross_in
  BY Numbers DEF Inductive, Conservation, VaultAccounted, TaxesWithheld
<1>3. vault' <= U64Max
  BY <1>1, <1>2, Numbers
<1>4. TypeOK'
  <2>1. gross_in' \in U64 /\ pending' \in U64 /\ vault' \in U64
    BY <1>1, <1>3, Numbers DEF U64
  <2> QED
    BY <2>1 DEF Inductive, TypeOK, allocVars, contractVars, recoupVars
<1>5. Conservation' /\ VaultAccounted'
  BY <1>1, Numbers
     DEF Inductive, Conservation, VaultAccounted, TaxesWithheld, allocVars
<1>6. NothingSettledBeforeVerification'
  BY <1>1, Numbers DEF Inductive, NothingSettledBeforeVerification, allocVars
<1> QED
  BY <1>4, <1>5, <1>6 DEF Inductive, AllocatedIsBacked, DisputedIsBacked,
     ShareNotOverdrawn, TaxesWithheld, DisputedExactly, Exists, allocVars, contractVars

LEMMA RefundPendingInductive ==
    ASSUME Inductive, NEW amount \in U64, RefundPending(amount)
    PROVE  Inductive'
<1> USE DEF RefundPending, MayRefund
<1>1. /\ amount \in Nat /\ pending' = pending - amount /\ vault' = vault - amount
      /\ refunded' = refunded + amount /\ refunded' <= U64Max
      /\ amount <= pending /\ amount <= vault
  BY EscrowAssumption DEF U64
<1>2. TypeOK'
  <2>1. pending \in U64 /\ vault \in U64
    BY DEF Inductive, TypeOK
  <2>2. refunded' \in U64 /\ pending' \in U64 /\ vault' \in U64
    BY <1>1, <2>1, Numbers DEF U64
  <2> QED
    BY <2>2 DEF Inductive, TypeOK, allocVars, contractVars, recoupVars
<1>3. Conservation' /\ VaultAccounted'
  BY <1>1, Numbers
     DEF Inductive, Conservation, VaultAccounted, TaxesWithheld, allocVars
<1>4. NothingSettledBeforeVerification'
  BY <1>1, Numbers DEF Inductive, NothingSettledBeforeVerification, allocVars
<1>5. (clawed_back <= refunded)'
  BY <1>1, Numbers DEF Inductive
<1> QED
  BY <1>2, <1>3, <1>4, <1>5 DEF Inductive, AllocatedIsBacked, DisputedIsBacked,
     ShareNotOverdrawn, TaxesWithheld, DisputedExactly, Exists, allocVars, contractVars

LEMMA VerifyEscrowInductive ==
    ASSUME Inductive, VerifyEscrow
    PROVE  Inductive'
BY DEF VerifyEscrow, Inductive, TypeOK, EscrowState, Conservation, AllocatedIsBacked,
   DisputedIsBacked, ShareNotOverdrawn, VaultAccounted, TaxesWithheld, DisputedExactly,
   NothingSettledBeforeVerification, Exists, Uninitialized, allocVars, contractVars,
   recoupVars

LEMMA ClaimInductive ==
    ASSUME Inductive, NEW role \in Roles, NEW amount \in U64, Claim(role, amount)
    PROVE  Inductive'
<1> USE DEF Claim
<1>1. /\ amount \in Nat /\ amount <= allocated /\ amount <= vault
      /\ amount <= claimable[role] - claimed[role] - held[role]
      /\ claimed[role] + amount <= U64Max /\ paid_out + amount <= U64Max
  BY EscrowAssumption DEF U64, Remaining
<1>2. /\ claimed' = [claimed EXCEPT ![role] = claimed[role] + amount]
      /\ Total(claimed') = Total(claimed) + amount
  <2>1. claimed \in [Roles -> Nat] /\ claimed[role] \in Nat /\ Total(claimed) \in Nat
    BY Numbers
  <2>2. Total([claimed EXCEPT ![role] = claimed[role] + amount]) =
          Total(claimed) - claimed[role] + (claimed[role] + amount)
    <3>1. claimed[role] + amount \in Int
      BY <1>1, <2>1
    <3> QED
      BY <2>1, <3>1, TotalExcept, Zenon
  <2> QED
    BY <1>1, <2>1, <2>2
<1>3. TypeOK'
  <2>1. allocated \in U64 /\ vault \in U64 /\ paid_out \in U64 /\ claimed \in [Roles -> U64]
    BY DEF Inductive, TypeOK
  <2>2. allocated' \in U64 /\ vault' \in U64 /\ paid_out' \in U64
    BY <1>1, <2>1, Numbers DEF U64
  <2>3. claimed[role] + amount \in U64
    BY <1>1, Numbers DEF U64
  <2>4. claimed' \in [Roles -> U64]
    BY <1>2, <2>1, <2>3
  <2> QED
    BY <2>2, <2>4 DEF Inductive, TypeOK, contractVars, recoupVars
<1>4. Conservation' /\ AllocatedIsBacked' /\ VaultAccounted' /\ (TaxesWithheld >= 0)'
  BY <1>1, <1>2, Numbers
     DEF Inductive, Conservation, AllocatedIsBacked, VaultAccounted, TaxesWithheld
<1>5. ShareNotOverdrawn'
  BY <1>1, <1>2, Numbers DEF Inductive, ShareNotOverdrawn
<1>6. NothingSettledBeforeVerification'
  BY DEF NothingSettledBeforeVerification, Uninitialized
<1> QED
  BY <1>3, <1>4, <1>5, <1>6 DEF Inductive, DisputedIsBacked, DisputedExactly, Exists,
     contractVars

LEMMA MarkDisputedInductive ==
    ASSUME Inductive, NEW role \in Roles, NEW amount \in U64, MarkDisputed(role, amount)
    PROVE  Inductive'
<1> USE DEF MarkDisputed
<1>1. /\ amount \in Nat /\ amount > 0 /\ amount <= allocated
      /\ amount <= claimable[role] - claimed[role] - held[role]
      /\ held[role] + amount <= U64Max /\ disputed + amount <= U64Max
      /\ dispute_count < U32Max
  BY EscrowAssumption DEF U64, Remaining
<1>2. /\ held' = [held EXCEPT ![role] = held[role] + amount]
      /\ Total(held') = Total(held) + amount
  <2>1. held \in [Roles -> Nat] /\ held[role] \in Nat /\ Total(held) \in Nat
    BY Numbers
  <2>2. Total([held EXCEPT ![role] = held[role] + amount]) =
          Total(held) - held[role] + (held[role] + amount)
    <3>1. held[role] + amount \in Int
      BY <1>1, <2>1
    <3> QED
      BY <2>1, <3>1, TotalExcept, Zenon
  <2> QED
    BY <1>1, <2>1, <2>2
<1>3. TypeOK'
  <2>1. allocated \in U64 /\ held \in [Roles -> U64] /\ dispute_count \in U32
    BY DEF Inductive, TypeOK
  <2>2. allocated' \in U64 /\ disputed' \in U64 /\ held[role] + amount \in U64
    BY <1>1, <2>1, Numbers DEF U64
  <2>3. dispute_count' \in U32
    BY <1>1, <2>1, Numbers DEF U32
  <2>4. held' \in [Roles -> U64]
    BY <1>2, <2>1, <2>2
  <2> QED
    BY <2>2, <2>3, <2>4 DEF Inductive, TypeOK, contractVars, recoupVars, EscrowState
<1>4. Conservation' /\ AllocatedIsBacked' /\ DisputedIsBacked' /\ VaultAccounted'
  BY <1>1, <1>2, Numbers
     DEF Inductive, Conservation, AllocatedIsBacked, DisputedIsBacked, VaultAccounted,
         TaxesWithheld
<1>5. ShareNotOverdrawn'
  BY <1>1, <1>2, Numbers DEF Inductive, ShareNotOverdrawn
<1>6. DisputedExactly' /\ NothingSettledBeforeVerification'
  BY <1>1, Numbers DEF DisputedExactly, NothingSettledBeforeVerification, Uninitialized
<1> QED
  BY <1>3, <1>4, <1>5, <1>6 DEF Inductive, TaxesWithheld, Exists, contractVars,
     Uninitialized

LEMMA ApproveDisputeInductive ==
    ASSUME Inductive, NEW role \in Roles, ApproveDispute(role)
    PROVE  Inductive'
<1> USE DEF ApproveDispute
<1>1. /\ held[role] \in Nat /\ held[role] > 0 /\ held[role] <= disputed
      /\ allocated + held[role] <= U64Max
  BY Numbers
<1>2. Total(held') = Total(held) - held[role]
  <2>1. held \in [Roles -> Nat] /\ held[role] \in Nat /\ Total(held) \in Nat
    BY Numbers
  <2>2. Total([held EXCEPT ![role] = 0]) = Total(held) - held[role] + 0
    <3>1. 0 \in Int
      OBVIOUS
    <3> QED
      BY <2>1, <3>1, TotalExcept, Zenon
  <2> QED
    BY <2>1, <2>2
<1>3. TypeOK'
  <2>1. disputed \in U64 /\ held \in [Roles -> U64]
    BY DEF Inductive, TypeOK
  <2>2. allocated' \in U64 /\ disputed' \in U64 /\ 0 \in U64
    BY <1>1, <2>1, Numbers DEF U64
  <2>3. held' \in [Roles -> U64]
    BY <2>1, <2>2
  <2>4. state' \in EscrowState
    BY DEF StateAfterResolve, EscrowState
  <2> QED
    BY <2>2, <2>3, <2>4 DEF Inductive, TypeOK, contractVars, recoupVars
<1>4. Conservation' /\ AllocatedIsBacked' /\ DisputedIsBacked' /\ VaultAccounted'
  BY <1>1, <1>2, Numbers
     DEF Inductive, Conservation, AllocatedIsBacked, DisputedIsBacked, VaultAccounted,
         TaxesWithheld
<1>5. ShareNotOverdrawn'
  BY <1>1, Numbers DEF Inductive, ShareNotOverdrawn
<1>6. DisputedExactly' /\ NothingSettledBeforeVerification'
  BY <1>1, Numbers
     DEF DisputedExactly, NothingSettledBeforeVerification, Uninitialized, StateAfterResolve
<1> QED
  BY <1>3, <1>4, <1>5, <1>6 DEF Inductive, TaxesWithheld, Exists, contractVars,
     Uninitialized

LEMMA RejectDisputeInductive ==
    ASSUME Inductive, NEW role \in Roles, RejectDispute(role)
    PROVE  Inductive'
<1> USE DEF RejectDispute, ShareAfterRejection
<1>1. /\ held[role] \in Nat /\ held[role] > 0 /\ held[role] <= disputed
      /\ claimable[role] \in Nat /\ held[role] <= claimable[role]
      /\ refunded + held[role] <= U64Max
  BY Numbers
<1>2. /\ Total(held') = Total(held) - held[role]
      /\ claimable' = [claimable EXCEPT ![role] = claimable[role] - held[role]]
      /\ Total(claimable') = Total(claimable) - held[role]
  <2>1. held \in [Roles -> Nat] /\ held[role] \in Nat /\ Total(held) \in Nat
    BY Numbers
  <2>2. Total([held EXCEPT ![role] = 0]) = Total(held) - held[role] + 0
    <3>1. 0 \in Int
      OBVIOUS
    <3> QED
      BY <2>1, <3>1, TotalExcept, Zenon
  <2>3. claimable \in [Roles -> Nat] /\ claimable[role] \in Nat /\ Total(claimable) \in Nat
    BY Numbers
  <2>4. Total([claimable EXCEPT ![role] = claimable[role] - held[role]]) =
          Total(claimable) - claimable[role] + (claimable[role] - held[role])
    <3>1. claimable[role] - held[role] \in Int
      BY <2>1, <2>3
    <3> QED
      BY <2>3, <3>1, TotalExcept, Zenon
  <2> QED
    BY <2>1, <2>2, <2>3, <2>4
<1>3. TypeOK'
  <2>1. disputed \in U64 /\ held \in [Roles -> U64] /\ claimable \in [Roles -> U64]
    BY DEF Inductive, TypeOK
  <2>2. /\ refunded' \in U64 /\ disputed' \in U64 /\ 0 \in U64
        /\ claimable[role] - held[role] \in U64
    BY <1>1, <2>1, Numbers DEF U64
  <2>3. held' \in [Roles -> U64] /\ claimable' \in [Roles -> U64]
    BY <1>2, <2>1, <2>2
  <2>4. state' \in EscrowState
    BY DEF StateAfterResolve, EscrowState
  <2>5. clawed_back' \in Nat
    BY <1>1, Numbers
  <2> QED
    BY <2>2, <2>3, <2>4, <2>5 DEF Inductive, TypeOK, contractVars, recoupVars
<1>4. Conservation' /\ AllocatedIsBacked' /\ DisputedIsBacked' /\ VaultAccounted'
  BY <1>1, <1>2, Numbers
     DEF Inductive, Conservation, AllocatedIsBacked, DisputedIsBacked, VaultAccounted,
         TaxesWithheld
<1>5. ShareNotOverdrawn'
  BY <1>1, <1>2, Numbers DEF Inductive, ShareNotOverdrawn
<1>6. DisputedExactly' /\ NothingSettledBeforeVerification'
  BY <1>1, Numbers
     DEF DisputedExactly, NothingSettledBeforeVerification, Uninitialized, StateAfterResolve
<1>7. (clawed_back <= refunded)'
  BY <1>1, Numbers DEF Inductive
<1> QED
  BY <1>3, <1>4, <1>5, <1>6, <1>7 DEF Inductive, TaxesWithheld, Exists, contractVars,
     Uninitialized

LEMMA SettleBatchInductive ==
    ASSUME Inductive, NEW amount \in U64, NEW rule \in Rules,
           NEW wallets \in WalletAssignments, SettleBatch(amount, rule, wallets)
    PROVE  Inductive'
<1> DEFINE split == Division(amount, rule)
<1>1. /\ amount \in Nat /\ amount > 0 /\ amount <= pending
      /\ state \in Settleable /\ state' = StateAfterSettle
      /\ RuleAccepted(rule) /\ rule \in RuleType
      /\ batch_count < U32Max /\ batch_count' = batch_count + 1
      /\ pending' = pending - amount
      /\ beneficiary' = wallets
      /\ UNCHANGED <<contractVars, gross_in, disputed, refunded, dispute_count,
                     claimed, held, vault, clawed_back>>
  BY EscrowAssumption DEF U64, SettleBatch, MaySettle
<1>2. /\ split.fee_fits
      /\ \A role \in Roles : claimable[role] + Credit(split)[role] <= U64Max
      /\ allocated + Total(Credit(split)) <= U64Max
      /\ paid_out + Tax(split) <= U64Max
      /\ claimable' = [role \in Roles |-> claimable[role] + Credit(split)[role]]
      /\ mg_remaining' = mg_remaining - split.mg_recoup
      /\ investment_remaining' = investment_remaining - split.investment_recoup
      /\ allocated' = allocated + Total(Credit(split))
      /\ paid_out' = paid_out + Tax(split)
  BY DEF SettleBatch, MaySettle, DivisionFits
<1>3. mg_remaining \in Nat /\ investment_remaining \in Nat
  BY Numbers DEF U64
<1>4. split = Split(amount, rule, mg_remaining, investment_remaining)
  BY DEF Division
<1> HIDE DEF split
<1>5. /\ split.mg_recoup \in 0 .. mg_remaining
      /\ split.investment_recoup \in 0 .. investment_remaining
      /\ Total(Credit(split)) + Tax(split) = amount
  BY <1>1, <1>2, <1>3, <1>4, WaterfallIsExactAndSound
<1>6. Credit(split) \in [Roles -> Nat] /\ Tax(split) \in Nat
  BY <1>1, <1>2, <1>3, <1>4, CreditType
<1>7. Total(Credit(split)) \in Nat
  <2>1. "Theater" \in Roles
    BY DEF Roles
  <2> QED
    BY <1>6, <2>1, TotalBounds, Zenon
<1>8. Total(claimable') = Total(claimable) + Total(Credit(split))
  <2>1. claimable \in [Roles -> Nat]
    BY Numbers
  <2> QED
    BY <1>2, <1>6, <2>1, TotalSum, Zenon
<1>9. TypeOK'
  <2>1. /\ mg_remaining \in U64 /\ investment_remaining \in U64
        /\ batch_count \in U32 /\ pending \in U64
    BY DEF Inductive, TypeOK
  <2>2. /\ mg_remaining' \in U64 /\ investment_remaining' \in U64
        /\ allocated' \in U64 /\ paid_out' \in U64 /\ pending' \in U64
    BY <1>1, <1>2, <1>5, <1>6, <1>7, <2>1, Numbers DEF U64
  <2>3. batch_count' \in U32
    BY <1>1, <2>1, Numbers DEF U32
  <2>4. claimable' \in [Roles -> U64]
    BY <1>2, <1>6, Numbers DEF U64
  <2>5. state' \in EscrowState
    BY <1>1 DEF StateAfterSettle, Settleable, EscrowState
  <2>6. beneficiary' \in [Roles -> Wallets \cup {NoWallet}]
    BY <1>1, EscrowAssumption
  <2> QED
    BY <1>1, <2>2, <2>3, <2>4, <2>5, <2>6 DEF Inductive, TypeOK, contractVars
<1>10. /\ Conservation' /\ AllocatedIsBacked' /\ VaultAccounted'
       /\ (TaxesWithheld >= 0)'
  <2>1. /\ Total(claimed') = Total(claimed) /\ Total(held') = Total(held)
        /\ gross_in' = gross_in /\ disputed' = disputed /\ refunded' = refunded
        /\ vault' = vault /\ clawed_back' = clawed_back
    BY <1>1
  <2>2. Conservation'
    BY <1>1, <1>2, <1>5, <1>6, <1>7, <2>1, Numbers DEF Inductive, Conservation
  <2>3. AllocatedIsBacked'
    BY <1>2, <1>7, <1>8, <2>1, Numbers DEF Inductive, AllocatedIsBacked
  <2>4. VaultAccounted' /\ (TaxesWithheld >= 0)'
    BY <1>1, <1>2, <1>5, <1>6, <1>7, <2>1, Numbers
       DEF Inductive, VaultAccounted, TaxesWithheld
  <2> QED
    BY <2>2, <2>3, <2>4
<1>11. ShareNotOverdrawn'
  BY <1>1, <1>2, <1>6, Numbers DEF Inductive, ShareNotOverdrawn
<1>12. DisputedExactly' /\ NothingSettledBeforeVerification'
  BY <1>1 DEF Inductive, DisputedExactly, NothingSettledBeforeVerification,
     StateAfterSettle, Settleable, Uninitialized
<1>13. (Exists => rule_hash \in Rules)'
  BY <1>1 DEF Inductive, Exists, Settleable, Uninitialized, contractVars
<1> QED
  BY <1>1, <1>9, <1>10, <1>11, <1>12, <1>13 DEF Inductive, DisputedIsBacked

(***************************************************************************)
(* The invariance theorem and its consequences.                            *)
(***************************************************************************)
LEMMA NextInductive ==
    ASSUME Inductive, [Next]_vars
    PROVE  Inductive'
<1>1. CASE UNCHANGED vars
  BY <1>1 DEF vars, contractVars, recoupVars, allocVars, Inductive, TypeOK, Conservation,
     AllocatedIsBacked, DisputedIsBacked, ShareNotOverdrawn, VaultAccounted, TaxesWithheld,
     DisputedExactly, NothingSettledBeforeVerification, Exists
<1>2. CASE Audience
  BY <1>2, DepositInductive, RefundPendingInductive DEF Audience
<1>3. CASE Agent
  BY <1>3, InitEscrowInductive, VerifyEscrowInductive, SettleBatchInductive,
     MarkDisputedInductive, ApproveDisputeInductive, RejectDisputeInductive
     DEF Agent, ResolveDispute
<1>4. CASE RightHolders
  BY <1>4, ClaimInductive DEF RightHolders
<1> QED
  BY <1>1, <1>2, <1>3, <1>4 DEF Next

THEOREM AlwaysInductive == Spec => []Inductive
<1>1. Init => Inductive
  BY InitInductive
<1>2. Inductive /\ [Next]_vars => Inductive'
  BY NextInductive
<1> QED
  BY <1>1, <1>2, PTL DEF Spec

\* Every field keeps its width: no checked operation lets one wrap.
THEOREM TypeCorrect == Spec => []TypeOK
<1>1. Inductive => TypeOK
  BY DEF Inductive
<1> QED
  BY <1>1, AlwaysInductive, PTL

\* Every unit received is in exactly one of the five envelopes of the escrow.
THEOREM LedgerBalances == Spec => []Conservation
<1>1. Inductive => Conservation
  BY DEF Inductive
<1> QED
  BY <1>1, AlwaysInductive, PTL

\* The aggregates that every instruction moves by hand are the sums over the
\* Allocation accounts, and no share is overdrawn.
THEOREM EnvelopesBacked == Spec => []EnvelopesAreBacked
<1>1. Inductive => EnvelopesAreBacked
  BY DEF Inductive, EnvelopesAreBacked
<1> QED
  BY <1>1, AlwaysInductive, PTL

\* The token balance of the vault is what the envelopes owe, and the taxes and
\* rejected holds that were booked without a transfer.
THEOREM VaultIsAccounted == Spec => []VaultAccounted
<1>1. Inductive => VaultAccounted
  BY DEF Inductive
<1> QED
  BY <1>1, AlwaysInductive, PTL

\* The state of the escrow tells whether something is frozen, and nothing is
\* settled before the verification.
THEOREM StateTellsTheLedger ==
    Spec => [](DisputedExactly /\ NothingSettledBeforeVerification)
<1>1. Inductive => DisputedExactly /\ NothingSettledBeforeVerification
  BY DEF Inductive
<1> QED
  BY <1>1, AlwaysInductive, PTL

(***************************************************************************)
(* Paid, declared in EscrowState, is never assigned; what follows needs it. *)
(***************************************************************************)
LEMMA NeverPaid == Spec => [](state # "Paid")
<1>1. Init => state # "Paid"
  BY DEF Init, Uninitialized
<1>2. state # "Paid" /\ [Next]_vars => (state # "Paid")'
  <2> SUFFICES ASSUME state # "Paid", [Next]_vars
               PROVE  (state # "Paid")'
    OBVIOUS
  <2>1. CASE UNCHANGED vars
    BY <2>1 DEF vars
  <2>2. CASE Audience
    BY <2>2 DEF Audience, Deposit, RefundPending, MayRefund
  <2>3. CASE Agent
    BY <2>3 DEF Agent, InitEscrow, VerifyEscrow, SettleBatch, MaySettle, StateAfterSettle,
       MarkDisputed, ResolveDispute, ApproveDispute, RejectDispute, StateAfterResolve
  <2>4. CASE RightHolders
    BY <2>4 DEF RightHolders, Claim
  <2> QED
    BY <2>1, <2>2, <2>3, <2>4 DEF Next
<1> QED
  BY <1>1, <1>2, PTL DEF Spec

\* A free share passes every guard of claim on the aggregates: it is part of
\* what is allocated, which is part of the vault and, with what has been paid,
\* of what has come in.
LEMMA SharePayable ==
    ASSUME Inductive, state # "Paid"
    PROVE  EveryShareIsPayable
<1> SUFFICES ASSUME NEW role \in Roles, Remaining(role) > 0
             PROVE  /\ state \in {"Allocated", "Disputed"}
                    /\ Remaining(role) <= allocated
                    /\ Remaining(role) <= vault
                    /\ claimed[role] + Remaining(role) <= U64Max
                    /\ paid_out + Remaining(role) <= U64Max
  BY DEF EveryShareIsPayable
<1>1. claimable[role] \in U64 /\ claimed[role] \in Nat /\ held[role] \in Nat
  BY Numbers DEF Inductive, TypeOK
<1>2. state \in {"Allocated", "Disputed"}
  <2>1. claimable[role] # 0
    BY <1>1, Numbers DEF Remaining, U64
  <2>2. state \notin {Uninitialized, "Pending", "Verified"}
    BY <2>1 DEF Inductive, NothingSettledBeforeVerification
  <2> QED
    BY <2>2 DEF Inductive, TypeOK, EscrowState
<1>3. Remaining(role) <= allocated
  <2>1. \A other \in Roles : claimed[other] + held[other] <= claimable[other]
    BY DEF Inductive, ShareNotOverdrawn
  <2>2. claimable[role] - claimed[role] - held[role]
           <= Total(claimable) - Total(claimed) - Total(held)
    BY <2>1, Numbers, RemainingBounds
  <2> QED
    BY <2>2 DEF Inductive, AllocatedIsBacked, Remaining
<1>4. Remaining(role) \in Nat
  BY <1>1, Numbers DEF Remaining, U64
<1>5. Remaining(role) <= vault
  <2>1. TaxesWithheld \in Nat
    BY Numbers DEF Inductive, TaxesWithheld
  <2> QED
    BY <1>3, <1>4, <2>1, Numbers DEF Inductive, VaultAccounted
<1>6. claimed[role] + Remaining(role) <= U64Max
  BY <1>1, Numbers DEF Remaining, U64
<1>7. paid_out + Remaining(role) <= U64Max
  BY <1>3, <1>4, Numbers DEF Inductive, Conservation
<1> QED
  BY <1>2, <1>3, <1>5, <1>6, <1>7

\* A hold passes every guard of resolve_dispute, whichever way it is resolved.
LEMMA HoldResolvable ==
    ASSUME Inductive
    PROVE  EveryHoldIsResolvable
<1> SUFFICES ASSUME NEW role \in Roles, held[role] > 0
             PROVE  /\ state = "Disputed"
                    /\ held[role] <= claimable[role]
                    /\ held[role] <= disputed
                    /\ allocated + held[role] <= U64Max
                    /\ refunded + held[role] <= U64Max
  BY DEF EveryHoldIsResolvable
<1>1. claimable[role] \in Nat /\ claimed[role] \in Nat /\ held[role] \in Nat
  BY Numbers
<1>2. held[role] <= disputed
  <2>1. held \in [Roles -> Nat]
    BY Numbers
  <2>2. held[role] <= Total(held)
    BY <2>1, TotalBounds
  <2> QED
    BY <2>2 DEF Inductive, DisputedIsBacked
<1>3. state = "Disputed"
  BY <1>1, <1>2, Numbers DEF Inductive, DisputedExactly
<1>4. held[role] <= claimable[role]
  BY <1>1 DEF Inductive, ShareNotOverdrawn
<1>5. allocated + held[role] <= U64Max /\ refunded + held[role] <= U64Max
  BY <1>1, <1>2, Numbers DEF Inductive, Conservation
<1> QED
  BY <1>2, <1>3, <1>4, <1>5

\* No share is ever stuck: every free share can be claimed to the last unit.
THEOREM SharesArePayable == Spec => []EveryShareIsPayable
<1>1. Inductive /\ state # "Paid" => EveryShareIsPayable
  BY SharePayable
<1> QED
  BY <1>1, AlwaysInductive, NeverPaid, PTL

\* No hold is ever stuck: it can be released and it can be cut.
THEOREM HoldsAreResolvable == Spec => []EveryHoldIsResolvable
<1>1. Inductive => EveryHoldIsResolvable
  BY HoldResolvable
<1> QED
  BY <1>1, AlwaysInductive, PTL

-----------------------------------------------------------------------------

(***************************************************************************)
(* The division of a settlement, as its guards leave it.                   *)
(***************************************************************************)
LEMMA SettledDivision ==
    ASSUME Inductive, NEW amount \in U64, NEW rule \in Rules,
           NEW wallets \in WalletAssignments, SettleBatch(amount, rule, wallets),
           NEW s, s = Division(amount, rule)
    PROVE  /\ amount \in Nat /\ amount > 0 /\ amount <= pending
           /\ s.mg_recoup \in 0 .. mg_remaining
           /\ s.investment_recoup \in 0 .. investment_remaining
           /\ s.producer \in Nat
           /\ s.investment_recoup > 0 => s.mg_recoup = mg_remaining
           /\ s.producer > 0 =>
                 s.mg_recoup = mg_remaining /\ s.investment_recoup = investment_remaining
           /\ Credit(s) \in [Roles -> Nat] /\ Tax(s) \in Nat
           /\ Total(Credit(s)) + Tax(s) = amount
           /\ Total(Credit(s)) \in Nat
<1>1. /\ amount \in Nat /\ amount > 0 /\ amount <= pending
      /\ RuleAccepted(rule) /\ rule \in RuleType /\ s.fee_fits
  BY EscrowAssumption DEF U64, SettleBatch, MaySettle, DivisionFits
<1>2. mg_remaining \in Nat /\ investment_remaining \in Nat
  BY Numbers DEF U64
<1>3. s = Split(amount, rule, mg_remaining, investment_remaining)
  BY DEF Division
<1>4. /\ s.mg_recoup \in 0 .. mg_remaining
      /\ s.investment_recoup \in 0 .. investment_remaining
      /\ s.investor_profit \in Nat /\ s.producer \in Nat
      /\ Total(Credit(s)) + Tax(s) = amount
  BY <1>1, <1>2, <1>3, WaterfallIsExactAndSound
<1>5. s.investment_recoup > 0 => s.mg_recoup = mg_remaining
  BY <1>1, <1>2, <1>3, WaterfallIsExactAndSound
<1>6. s.investor_profit + s.producer > 0 => s.mg_recoup = mg_remaining
  BY <1>1, <1>2, <1>3, WaterfallIsExactAndSound
<1>7. s.investor_profit + s.producer > 0 => s.investment_recoup = investment_remaining
  BY <1>1, <1>2, <1>3, WaterfallIsExactAndSound
<1>8. Credit(s) \in [Roles -> Nat] /\ Tax(s) \in Nat
  BY <1>1, <1>2, <1>3, CreditType
<1>9. Total(Credit(s)) \in Nat
  <2>1. "Theater" \in Roles
    BY DEF Roles
  <2> QED
    BY <1>8, <2>1, TotalBounds, Zenon
<1> QED
  BY <1>1, <1>4, <1>5, <1>6, <1>7, <1>8, <1>9

(***************************************************************************)
(* Who is paid before whom.                                                *)
(***************************************************************************)
LEMMA SettlePaysInRank ==
    ASSUME Inductive, NEW amount \in U64, NEW rule \in Rules,
           NEW wallets \in WalletAssignments, SettleBatch(amount, rule, wallets)
    PROVE  PaysInRank
<1> DEFINE s == Division(amount, rule)
<1>1. /\ mg_remaining' = mg_remaining - s.mg_recoup
      /\ investment_remaining' = investment_remaining - s.investment_recoup
      /\ claimable' = [role \in Roles |-> claimable[role] + Credit(s)[role]]
  BY DEF SettleBatch
<1>2. Credit(s)["Producer"] = s.producer
  BY DEF Credit
<1>3. /\ mg_remaining \in Nat /\ investment_remaining \in Nat
      /\ claimable["Producer"] \in Nat
      /\ claimable'["Producer"] = claimable["Producer"] + s.producer
  BY <1>1, <1>2, Numbers DEF U64, Roles
<1>4. /\ s.mg_recoup \in Nat /\ s.investment_recoup \in Nat /\ s.producer \in Nat
      /\ s.investment_recoup > 0 => s.mg_recoup = mg_remaining
      /\ s.producer > 0 =>
            s.mg_recoup = mg_remaining /\ s.investment_recoup = investment_remaining
  BY <1>3, SettledDivision
<1> HIDE DEF s
<1> QED
  BY <1>1, <1>3, <1>4 DEF PaysInRank

\* settle_batch.rs, MG before investment before profit, over all screenings: no
\* sequence of settlements, holds and rejections pays a later rank first.
THEOREM RanksAreKept == Spec => RecoupmentOrder
<1>1. ASSUME Inductive, [Next]_vars PROVE [PaysInRank]_vars
  <2>1. CASE UNCHANGED vars
    BY <2>1
  <2>2. CASE Audience
    BY <2>2, <1>1, Numbers
       DEF Audience, Deposit, RefundPending, MayRefund, PaysInRank, recoupVars, allocVars, U64, Roles
  <2>3. CASE RightHolders
    BY <2>3, <1>1, Numbers DEF RightHolders, Claim, PaysInRank, recoupVars, U64, Roles
  <2>4. CASE Agent
    <3> SUFFICES PaysInRank
      OBVIOUS
    <3>0. /\ mg_remaining \in Nat /\ investment_remaining \in Nat
          /\ claimable \in [Roles -> Nat] /\ held \in [Roles -> Nat]
      BY <1>1, Numbers DEF U64
    <3>1. ASSUME NEW theaterKey \in Wallets, NEW rule \in Rules, NEW version \in Versions,
                 NEW mgAmount \in MgAmounts, NEW investmentAmount \in InvestmentAmounts,
                 InitEscrow(theaterKey, rule, version, mgAmount, investmentAmount)
          PROVE  PaysInRank
      BY <3>0, <3>1 DEF InitEscrow, PaysInRank, allocVars, Roles
    <3>2. CASE VerifyEscrow
      BY <3>0, <3>2 DEF VerifyEscrow, PaysInRank, recoupVars, allocVars, Roles
    <3>3. ASSUME NEW amount \in U64, NEW rule \in Rules, NEW wallets \in WalletAssignments,
                 SettleBatch(amount, rule, wallets)
          PROVE  PaysInRank
      BY <1>1, <3>3, SettlePaysInRank
    <3>4. ASSUME NEW role \in Roles, NEW amount \in U64, MarkDisputed(role, amount)
          PROVE  PaysInRank
      BY <3>0, <3>4 DEF MarkDisputed, PaysInRank, recoupVars, Roles
    <3>5. ASSUME NEW role \in Roles, ApproveDispute(role)
          PROVE  PaysInRank
      BY <3>0, <3>5 DEF ApproveDispute, PaysInRank, recoupVars, Roles
    <3>6. ASSUME NEW role \in Roles, RejectDispute(role)
          PROVE  PaysInRank
      BY <3>0, <3>6 DEF RejectDispute, ShareAfterRejection, PaysInRank, recoupVars, Roles
    <3> QED
      BY <2>4, <3>1, <3>2, <3>3, <3>4, <3>5, <3>6 DEF Agent, ResolveDispute
  <2> QED
    BY <1>1, <2>1, <2>2, <2>3, <2>4 DEF Next
<1> QED
  BY <1>1, AlwaysInductive, PTL DEF Spec, RecoupmentOrder

(***************************************************************************)
(* What a share may lose, and where money leaves the vault.                *)
(***************************************************************************)
\* resolve_dispute.rs: whatever anybody does, a share shrinks only when a hold
\* on it is rejected, and by that hold.
THEOREM SharesAreKept == Spec => ShareShrinksOnlyByRejection
<1>1. ASSUME Inductive, [Next]_vars PROVE [CutsOnlyTheHold]_vars
  <2>0. /\ claimable \in [Roles -> Nat] /\ claimed \in [Roles -> Nat]
        /\ held \in [Roles -> Nat]
    BY <1>1, Numbers
  <2>1. CASE UNCHANGED vars
    BY <2>1
  <2>2. ASSUME UNCHANGED claimable PROVE CutsOnlyTheHold
    BY <2>0, <2>2 DEF CutsOnlyTheHold
  <2>3. CASE Audience \/ RightHolders
    BY <2>2, <2>3 DEF Audience, Deposit, RefundPending, RightHolders, Claim, allocVars
  <2>4. CASE Agent
    <3>1. ASSUME NEW amount \in U64, NEW rule \in Rules, NEW wallets \in WalletAssignments,
                 SettleBatch(amount, rule, wallets)
          PROVE  CutsOnlyTheHold
      <4> DEFINE s == Division(amount, rule)
      <4>1. claimable' = [role \in Roles |-> claimable[role] + Credit(s)[role]]
        BY <3>1 DEF SettleBatch, MaySettle
      <4>2. Credit(s) \in [Roles -> Nat]
        BY <1>1, <3>1, SettledDivision
      <4> HIDE DEF s
      <4> QED
        BY <2>0, <4>1, <4>2 DEF CutsOnlyTheHold
    <3>2. ASSUME NEW role \in Roles, RejectDispute(role)
          PROVE  CutsOnlyTheHold
      BY <2>0, <3>2 DEF RejectDispute, ShareAfterRejection, CutsOnlyTheHold
    <3> QED
      BY <2>2, <2>4, <3>1, <3>2
         DEF Agent, InitEscrow, VerifyEscrow, MarkDisputed, ResolveDispute, ApproveDispute,
             allocVars
  <2> QED
    BY <1>1, <2>1, <2>3, <2>4 DEF Next
<1> QED
  BY <1>1, AlwaysInductive, PTL DEF Spec, ShareShrinksOnlyByRejection

LEMMA ClaimPaysOut ==
    ASSUME Inductive, NEW role \in Roles, NEW amount \in U64, Claim(role, amount)
    PROVE  PaysOutOfOneEnvelope
<1>0. /\ claimed \in [Roles -> Nat] /\ claimed[role] \in Nat /\ Total(claimed) \in Nat
      /\ vault \in Nat /\ allocated \in Nat /\ paid_out \in Nat /\ amount \in Nat
  BY Numbers DEF U64
<1>1. /\ vault' = vault - amount /\ allocated' = allocated - amount
      /\ paid_out' = paid_out + amount
      /\ claimed' = [claimed EXCEPT ![role] = claimed[role] + amount]
      /\ UNCHANGED <<pending, disputed, refunded>>
      /\ beneficiary[role] \in Wallets
  BY DEF Claim
<1>2. Total(claimed') = Total(claimed) + amount
  <2>1. Total([claimed EXCEPT ![role] = claimed[role] + amount]) =
          Total(claimed) - claimed[role] + (claimed[role] + amount)
    <3>1. claimed[role] + amount \in Int
      BY <1>0
    <3> QED
      BY <1>0, <3>1, TotalExcept, Zenon
  <2> QED
    BY <1>0, <1>1, <2>1
<1>3. \A other \in Roles : claimed'[other] # claimed[other] => beneficiary[other] \in Wallets
  BY <1>0, <1>1
<1> QED
  BY <1>0, <1>1, <1>2, <1>3 DEF PaysOutOfOneEnvelope

\* claim.rs and refund_pending.rs are the only ways out of the vault, each out
\* of its own envelope, and a claim only to a bound wallet.
THEOREM VaultIsGuarded == Spec => VaultExits
<1>1. ASSUME Inductive, [Next]_vars PROVE [PaysOutOfOneEnvelope]_vars
  <2>0. /\ vault \in Nat /\ pending \in Nat /\ refunded \in Nat
    BY <1>1, Numbers
  <2>1. CASE UNCHANGED vars
    BY <2>1
  <2>2. CASE Audience
    <3>1. ASSUME NEW amount \in U64, Deposit(amount)
          PROVE  PaysOutOfOneEnvelope
      BY <2>0, <3>1, EscrowAssumption DEF Deposit, PaysOutOfOneEnvelope, U64
    <3>2. ASSUME NEW amount \in U64, RefundPending(amount)
          PROVE  PaysOutOfOneEnvelope
      BY <2>0, <3>2, EscrowAssumption DEF RefundPending, MayRefund, PaysOutOfOneEnvelope, U64, allocVars
    <3> QED
      BY <2>2, <3>1, <3>2 DEF Audience
  <2>3. CASE RightHolders
    BY <1>1, <2>3, ClaimPaysOut DEF RightHolders
  <2>4. CASE Agent
    <3>1. vault' = vault
      BY <2>4 DEF Agent, InitEscrow, VerifyEscrow, SettleBatch, MaySettle, MarkDisputed,
         ResolveDispute, ApproveDispute, RejectDispute
    <3> QED
      BY <2>0, <3>1 DEF PaysOutOfOneEnvelope
  <2> QED
    BY <1>1, <2>1, <2>2, <2>3, <2>4 DEF Next
<1> QED
  BY <1>1, AlwaysInductive, PTL DEF Spec, VaultExits

(***************************************************************************)
(* What can be settled, and under which rule.                              *)
(***************************************************************************)
LEMMA PartsAddUp ==
    ASSUME NEW gross \in Nat, NEW rule \in RuleType, RuleAccepted(rule),
           NEW mg \in Nat, NEW inv \in Nat,
           NEW s, s = Split(gross, rule, mg, inv), s.fee_fits
    PROVE  Total(Credit(s)) + Tax(s) = gross
<1>1. s.producer \in Nat /\ Total(Credit(s)) + Tax(s) = gross
  BY WaterfallIsExactAndSound
<1> QED
  BY <1>1

\* Money that is pending is counted in gross_in, so that no sum of settle_batch
\* passes the width gross_in was checked against.
LEMMA PendingDivides ==
    ASSUME Inductive, RegisteredRuleIsUsable, NEW amount \in 1 .. pending
    PROVE  DivisionFits(amount, Division(amount, rule_hash))
<1> DEFINE s == Division(amount, rule_hash)
<1> USE DEF RegisteredRuleIsUsable
<1>1. amount \in Nat /\ amount <= pending
  BY Numbers
<1>2. rule_hash \in RuleType
  BY EscrowAssumption DEF Inductive, TypeOK
<1>3. mg_remaining \in Nat /\ investment_remaining \in Nat
  BY Numbers DEF U64
<1>4. s = Split(amount, rule_hash, mg_remaining, investment_remaining)
  BY DEF Division
<1>5. s.fee_fits
  BY <1>1, <1>2, <1>3, <1>4, FeeAlwaysFits
<1> HIDE DEF s
<1>6. Total(Credit(s)) + Tax(s) = amount
  BY <1>1, <1>2, <1>3, <1>4, <1>5, PartsAddUp, Zenon
<1>7. Credit(s) \in [Roles -> Nat] /\ Tax(s) \in Nat
  BY <1>1, <1>2, <1>3, <1>4, <1>5, CreditType
<1>8. \A role \in Roles : Credit(s)[role] <= Total(Credit(s)) /\ Total(Credit(s)) \in Nat
  BY <1>7, TotalBounds
<1>9. /\ Total(Credit(s)) \in Nat
      /\ Total(Credit(s)) <= pending /\ Tax(s) <= pending
  <2>1. "Theater" \in Roles
    BY DEF Roles
  <2> QED
    BY <1>1, <1>6, <1>7, <1>8, <2>1, Numbers
<1>10. allocated + Total(Credit(s)) <= U64Max /\ paid_out + Tax(s) <= U64Max
  BY <1>7, <1>9, Numbers DEF Inductive, Conservation
<1>11. \A role \in Roles : claimable[role] + Credit(s)[role] <= U64Max
  <2> SUFFICES ASSUME NEW role \in Roles
               PROVE  claimable[role] + Credit(s)[role] <= U64Max
    OBVIOUS
  <2>1. claimable[role] \in Nat /\ claimable[role] <= Total(claimable)
    BY Numbers, TotalBounds
  <2>2. Total(claimable) <= allocated + paid_out + disputed
    BY Numbers DEF Inductive, AllocatedIsBacked, DisputedIsBacked, TaxesWithheld
  <2>3. Credit(s)[role] \in Nat /\ Credit(s)[role] <= pending
    BY <1>7, <1>8, <1>9, Numbers
  <2>4. allocated + paid_out + disputed + pending <= U64Max
    BY Numbers DEF Inductive, Conservation
  <2> QED
    BY <2>1, <2>2, <2>3, <2>4, Numbers
<1> QED
  BY <1>5, <1>6, <1>10, <1>11, Zenon DEF DivisionFits, s

\* The registered rule, passed as it is, hashes to itself.
LEMMA UsableRuleMatches ==
    ASSUME Inductive, RegisteredRuleIsUsable
    PROVE  RuleMatches(rule_hash)
<1>1. rule_hash \in RuleType /\ rule_hash.rule_version = rule_version
  BY EscrowAssumption DEF Inductive, TypeOK, RegisteredRuleIsUsable
<1> QED
  BY <1>1 DEF RuleMatches, RuleType

\* Some call of settle_batch names wallets that every Allocation accepts: at
\* first any call does, later the one that bound them.
SomeWalletsFit ==
    \E wallets \in WalletAssignments :
        \A role \in Roles : MayBind(role, wallets[role])

\* Bindings are made by settlements only, so that the wallets of the last
\* settlement are accepted again.
LEMMA WalletsAlwaysFit == Spec => []SomeWalletsFit
<1>1. Init => SomeWalletsFit
  BY EscrowAssumption DEF Init, SomeWalletsFit, MayBind
<1>2. SomeWalletsFit /\ [Next]_vars => SomeWalletsFit'
  <2>1. ASSUME SomeWalletsFit, UNCHANGED beneficiary PROVE SomeWalletsFit'
    BY <2>1 DEF SomeWalletsFit, MayBind
  <2>2. ASSUME NEW amount \in U64, NEW rule \in Rules, NEW wallets \in WalletAssignments,
               SettleBatch(amount, rule, wallets)
        PROVE  SomeWalletsFit'
    BY <2>2 DEF SettleBatch, SomeWalletsFit, MayBind
  <2>3. ASSUME Next, ~ \E amount \in U64, rule \in Rules, wallets \in WalletAssignments :
                           SettleBatch(amount, rule, wallets)
        PROVE  UNCHANGED beneficiary
    BY <2>3 DEF Next, Audience, Agent, RightHolders, Deposit, RefundPending, Claim,
       InitEscrow, VerifyEscrow, MarkDisputed, ResolveDispute, ApproveDispute,
       RejectDispute, allocVars
  <2> QED
    BY <2>1, <2>2, <2>3 DEF vars, allocVars
<1> QED
  BY <1>1, <1>2, PTL DEF Spec

LEMMA PendingMoves ==
    ASSUME Inductive, SomeWalletsFit
    PROVE  PendingIsNeverStuck
<1>1. ASSUME Exists, NEW amount \in 1 .. pending
      PROVE  MayRefund(amount)
  <2>1. amount \in Nat /\ amount > 0 /\ amount <= pending
    BY <1>1, Numbers
  <2>2. amount <= vault /\ refunded + amount <= U64Max
    BY <2>1, Numbers DEF Inductive, Conservation, VaultAccounted, TaxesWithheld
  <2> QED
    BY <1>1, <2>1, <2>2 DEF MayRefund
<1>2. ASSUME state \in Settleable, RegisteredRuleIsUsable, batch_count < U32Max,
             NEW amount \in 1 .. pending
      PROVE  \E wallets \in WalletAssignments : MaySettle(amount, rule_hash, wallets)
  <2>1. PICK wallets \in WalletAssignments :
             \A role \in Roles : MayBind(role, wallets[role])
    BY DEF SomeWalletsFit
  <2>2. amount > 0 /\ amount <= pending
    BY <1>2, Numbers
  <2>3. RuleMatches(rule_hash) /\ RuleAccepted(rule_hash)
    BY <1>2, UsableRuleMatches DEF RegisteredRuleIsUsable
  <2>4. DivisionFits(amount, Division(amount, rule_hash))
    BY <1>2, PendingDivides
  <2> QED
    BY <1>2, <2>1, <2>2, <2>3, <2>4 DEF MaySettle
<1> QED
  BY <1>1, <1>2 DEF PendingIsNeverStuck

\* refund_pending never fails on money that is pending, whatever was registered;
\* settle_batch never fails on it once verified, under a usable registered rule
\* and while the u32 counter of settlements has room.
THEOREM PendingNeverSticks == Spec => []PendingIsNeverStuck
<1>1. Inductive /\ SomeWalletsFit => PendingIsNeverStuck
  BY PendingMoves
<1> QED
  BY <1>1, AlwaysInductive, WalletsAlwaysFit, PTL

\* A division reads the four rates of a rule and not its version.
LEMMA RatesDecide ==
    ASSUME NEW rule \in RuleType, NEW version \in Nat, NEW amount
    PROVE  Division(amount, [rule EXCEPT !.rule_version = version])
             = Division(amount, rule)
<1> DEFINE other == [rule EXCEPT !.rule_version = version]
<1>1. /\ other.theater_bps = rule.theater_bps
      /\ other.distribution_fee_bps = rule.distribution_fee_bps
      /\ other.investor_profit_bps = rule.investor_profit_bps
  BY DEF RuleType
<1> HIDE DEF other
<1>2. /\ \A net : TheaterAmount(net, other) = TheaterAmount(net, rule)
      /\ \A share : DistributionFee(share, other) = DistributionFee(share, rule)
      /\ \A profit : InvestorProfit(profit, other) = InvestorProfit(profit, rule)
  BY <1>1 DEF TheaterAmount, DistributionFee, InvestorProfit
<1>3. Division(amount, other) = Division(amount, rule)
  BY <1>2, Zenon DEF Division, Split
<1> QED
  BY <1>3 DEF other

LEMMA SettlesByTheRule ==
    ASSUME Inductive, NEW amount \in U64, NEW rule \in Rules,
           NEW wallets \in WalletAssignments, SettleBatch(amount, rule, wallets)
    PROVE  DividesByTheRegisteredRule
<1> DEFINE s == Division(amount, rule)
<1>1. /\ rule \in RuleType /\ RuleAccepted(rule)
      /\ rule_hash = [rule EXCEPT !.rule_version = rule_version]
      /\ rule_version \in Nat
  BY EscrowAssumption DEF SettleBatch, MaySettle, RuleMatches, Inductive, TypeOK
<1>2. rule_hash.rule_version = rule_version /\ RuleAccepted(rule_hash)
  BY <1>1 DEF RuleType, RuleAccepted
<1>3. rule_hash # NoRule
  BY EscrowAssumption
     DEF SettleBatch, MaySettle, Settleable, Inductive, Exists, Uninitialized
<1>4. pending - pending' = amount
  BY Numbers, EscrowAssumption DEF SettleBatch, U64
<1>5. Division(pending - pending', rule_hash) = s
  BY <1>1, <1>4, RatesDecide
<1>6. /\ s.fee_fits
      /\ claimable' = [role \in Roles |-> claimable[role] + Credit(s)[role]]
      /\ mg_remaining' = mg_remaining - s.mg_recoup
      /\ investment_remaining' = investment_remaining - s.investment_recoup
      /\ paid_out' = paid_out + Tax(s)
  BY DEF SettleBatch, MaySettle, DivisionFits
<1>7. /\ s.mg_recoup \in Nat /\ s.mg_recoup <= mg_remaining
      /\ s.investment_recoup \in Nat /\ s.investment_recoup <= investment_remaining
      /\ Credit(s) \in [Roles -> Nat] /\ Tax(s) \in Nat
  BY SettledDivision, Numbers DEF U64
<1> HIDE DEF s
<1>8. /\ \A role \in Roles : claimable'[role] - claimable[role] = Credit(s)[role]
      /\ paid_out' - paid_out = Tax(s)
      /\ mg_remaining - mg_remaining' = s.mg_recoup
      /\ investment_remaining - investment_remaining' = s.investment_recoup
  BY <1>6, <1>7, Numbers DEF U64
<1> QED
  BY <1>2, <1>3, <1>5, <1>6, <1>8 DEF DividesByTheRegisteredRule

\* settle_batch divides money by no rates but those registered at init_escrow,
\* whatever rates the caller passes, and only if they were well formed and of
\* the registered version.
THEOREM RuleIsEnforced == Spec => OnlyTheRegisteredRuleSettles
<1>1. ASSUME Inductive, [Next]_vars PROVE [DividesByTheRegisteredRule]_vars
  <2>1. CASE batch_count' = batch_count
    BY <2>1 DEF DividesByTheRegisteredRule
  <2>2. ASSUME NEW amount \in U64, NEW rule \in Rules, NEW wallets \in WalletAssignments,
               SettleBatch(amount, rule, wallets)
        PROVE  DividesByTheRegisteredRule
    BY <1>1, <2>2, SettlesByTheRule
  <2>3. ASSUME Next, ~ \E amount \in U64, rule \in Rules, wallets \in WalletAssignments :
                           SettleBatch(amount, rule, wallets)
        PROVE  batch_count' = batch_count
    BY <2>3 DEF Next, Audience, Agent, RightHolders, Deposit, RefundPending, Claim,
       InitEscrow, VerifyEscrow, MarkDisputed, ResolveDispute, ApproveDispute, RejectDispute
  <2> QED
    BY <1>1, <2>1, <2>2, <2>3
<1> QED
  BY <1>1, AlwaysInductive, PTL DEF Spec, OnlyTheRegisteredRuleSettles

-----------------------------------------------------------------------------

\* The purses of the ledger: what each right holder may still draw.
Free == [role \in Roles |-> Remaining(role)]

LEMMA FreeTotal ==
    ASSUME Inductive
    PROVE  /\ Free \in [Roles -> Nat]
           /\ Total(Free) = Total(claimable) - Total(claimed) - Total(held)
<1>1. \A role \in Roles : /\ claimable[role] \in Nat /\ claimed[role] \in Nat
                          /\ held[role] \in Nat
                          /\ claimed[role] + held[role] <= claimable[role]
  BY Numbers DEF Inductive, ShareNotOverdrawn
<1> QED
  BY <1>1 DEF Free, Remaining, Total, Roles

LEMMA InitImplements == Init => Ledger!Init
<1> SUFFICES ASSUME Init PROVE Ledger!Init
  OBVIOUS
<1>1. state \notin {"Verified", "Allocated", "Disputed"}
  BY DEF Init, Uninitialized
<1>2. [role \in Roles |-> Remaining(role)] = [role \in Roles |-> 0]
  BY DEF Init, Remaining
<1>3. paid_out - Total(claimed) = 0
  BY TotalZero DEF Init
<1> QED
  BY <1>1, <1>2, <1>3 DEF Init, Ledger!Init

\* One purse changes, to x.
FreeMoves(role, x) ==
    \A r \in Roles : Remaining(r)' = IF r = role THEN x ELSE Remaining(r)

LEMMA FreeExcept ==
    ASSUME NEW role \in Roles, NEW x, FreeMoves(role, x)
    PROVE  [r \in Roles |-> Remaining(r)]' =
             [[r \in Roles |-> Remaining(r)] EXCEPT ![role] = x]
<1>1. [r \in Roles |-> Remaining(r)]' = [r \in Roles |-> Remaining(r)']
  OBVIOUS
<1>2. \A r \in Roles : Remaining(r)' = IF r = role THEN x ELSE Remaining(r)
  BY DEF FreeMoves
<1> QED
  BY <1>1, <1>2

(***************************************************************************)
(* One lemma per instruction.                                              *)
(***************************************************************************)
LEMMA DepositImplements ==
    ASSUME Inductive, NEW amount \in U64, Deposit(amount)
    PROVE  Ledger!Receive \/ UNCHANGED Ledger!vars
<1>1. /\ amount \in Nat /\ pending \in Nat /\ pending' = pending + amount
      /\ UNCHANGED <<state, paid_out, refunded, claimable, claimed, held>>
  BY Numbers DEF Deposit, allocVars, U64
<1>2. UNCHANGED [role \in Roles |-> Remaining(role)]
  BY <1>1 DEF Remaining
<1> QED
  BY <1>1, <1>2 DEF Ledger!Receive, Ledger!vars, Ledger!holderVars

LEMMA RefundPendingImplements ==
    ASSUME Inductive, NEW amount \in U64, RefundPending(amount)
    PROVE  Ledger!Return
<1>1. /\ amount \in Nat /\ amount > 0 /\ amount <= pending
      /\ pending \in Nat /\ pending' = pending - amount
      /\ refunded \in Nat /\ refunded' = refunded + amount
      /\ UNCHANGED <<state, paid_out, claimable, claimed, held>>
  BY Numbers DEF RefundPending, MayRefund, allocVars, U64
<1>2. UNCHANGED [role \in Roles |-> Remaining(role)]
  BY <1>1 DEF Remaining
<1> QED
  BY <1>1, <1>2 DEF Ledger!Return, Ledger!holderVars

LEMMA ClaimImplements ==
    ASSUME Inductive, NEW role \in Roles, NEW amount \in U64, Claim(role, amount)
    PROVE  Ledger!Draw(role, amount)
<1>1. /\ amount \in Nat /\ amount > 0 /\ amount <= Remaining(role)
      /\ claimed' = [claimed EXCEPT ![role] = claimed[role] + amount]
      /\ paid_out' = paid_out + amount /\ paid_out \in Nat
      /\ UNCHANGED <<state, pending, refunded, claimable, held>>
  BY Numbers DEF Claim, U64
<1>2. /\ claimed \in [Roles -> Nat] /\ claimed[role] \in Nat /\ Total(claimed) \in Nat
      /\ claimable \in [Roles -> Nat] /\ held \in [Roles -> Nat]
      /\ Remaining(role) \in Int
  BY Numbers DEF Remaining
<1>3. Total(claimed') = Total(claimed) + amount
  <2>1. claimed[role] + amount \in Int
    BY <1>1, <1>2
  <2>2. Total([claimed EXCEPT ![role] = claimed[role] + amount]) =
          Total(claimed) - claimed[role] + (claimed[role] + amount)
    BY <1>2, <2>1, TotalExcept, Zenon
  <2> QED
    BY <1>1, <1>2, <2>2
<1>4. paid_out' - Total(claimed') = paid_out - Total(claimed)
  BY <1>1, <1>2, <1>3
<1>5. amount \in 1 .. Remaining(role)
  BY <1>1, <1>2
<1>6. FreeMoves(role, Remaining(role) - amount)
  BY <1>1, <1>2 DEF FreeMoves, Remaining
<1>7. [r \in Roles |-> Remaining(r)]' =
        [[r \in Roles |-> Remaining(r)] EXCEPT ![role] = Remaining(role) - amount]
  BY <1>6, FreeExcept
<1> QED
  BY <1>1, <1>4, <1>5, <1>7 DEF Ledger!Draw

LEMMA MarkDisputedImplements ==
    ASSUME Inductive, NEW role \in Roles, NEW amount \in U64, MarkDisputed(role, amount)
    PROVE  Ledger!Freeze(role, amount)
<1>1. /\ amount \in Nat /\ amount > 0 /\ amount <= Remaining(role)
      /\ held' = [held EXCEPT ![role] = held[role] + amount]
      /\ state \in {"Verified", "Allocated", "Disputed"}
      /\ state' \in {"Verified", "Allocated", "Disputed"}
      /\ UNCHANGED <<pending, paid_out, refunded, claimable, claimed>>
  BY Numbers DEF MarkDisputed, U64
<1>2. /\ claimable \in [Roles -> Nat] /\ claimed \in [Roles -> Nat]
      /\ held \in [Roles -> Nat] /\ Remaining(role) \in Int
  BY Numbers DEF Remaining
<1>3. amount \in 1 .. Remaining(role)
  BY <1>1, <1>2
<1>4. FreeMoves(role, Remaining(role) - amount)
  BY <1>1, <1>2 DEF FreeMoves, Remaining
<1>5. [r \in Roles |-> Remaining(r)]' =
        [[r \in Roles |-> Remaining(r)] EXCEPT ![role] = Remaining(role) - amount]
  BY <1>4, FreeExcept
<1> QED
  BY <1>1, <1>3, <1>5 DEF Ledger!Freeze

LEMMA ApproveDisputeImplements ==
    ASSUME Inductive, NEW role \in Roles, ApproveDispute(role)
    PROVE  Ledger!Release(role)
<1>1. /\ held[role] > 0 /\ held' = [held EXCEPT ![role] = 0]
      /\ state \in {"Verified", "Allocated", "Disputed"}
      /\ state' \in {"Verified", "Allocated", "Disputed"}
      /\ UNCHANGED <<pending, paid_out, refunded, claimable, claimed>>
  BY DEF ApproveDispute, StateAfterResolve
<1>2. /\ claimable \in [Roles -> Nat] /\ claimed \in [Roles -> Nat]
      /\ held \in [Roles -> Nat]
  BY Numbers
<1>3. FreeMoves(role, Remaining(role) + held[role])
  BY <1>1, <1>2 DEF FreeMoves, Remaining
<1>4. [r \in Roles |-> Remaining(r)]' =
        [[r \in Roles |-> Remaining(r)] EXCEPT ![role] = Remaining(role) + held[role]]
  BY <1>3, FreeExcept
<1> QED
  BY <1>1, <1>4 DEF Ledger!Release

LEMMA RejectDisputeImplements ==
    ASSUME Inductive, NEW role \in Roles, RejectDispute(role)
    PROVE  Ledger!Forfeit(role)
<1>1. /\ held[role] > 0 /\ held' = [held EXCEPT ![role] = 0]
      /\ claimable' = [claimable EXCEPT ![role] = claimable[role] - held[role]]
      /\ refunded' = refunded + held[role]
      /\ state \in {"Verified", "Allocated", "Disputed"}
      /\ state' \in {"Verified", "Allocated", "Disputed"}
      /\ UNCHANGED <<pending, paid_out, claimed>>
  BY DEF RejectDispute, ShareAfterRejection, StateAfterResolve
<1>2. /\ claimable \in [Roles -> Nat] /\ claimed \in [Roles -> Nat]
      /\ held \in [Roles -> Nat]
  BY Numbers
<1>3. \A r \in Roles : Remaining(r)' = Remaining(r)
  BY <1>1, <1>2 DEF Remaining
<1>4. UNCHANGED [r \in Roles |-> Remaining(r)]
  BY <1>3
<1> QED
  BY <1>1, <1>4 DEF Ledger!Forfeit

LEMMA SettleBatchImplements ==
    ASSUME Inductive, NEW amount \in U64, NEW rule \in Rules,
           NEW wallets \in WalletAssignments, SettleBatch(amount, rule, wallets)
    PROVE  Ledger!Divide
<1> DEFINE s == Division(amount, rule)
<1>1. /\ claimable' = [role \in Roles |-> claimable[role] + Credit(s)[role]]
      /\ pending' = pending - amount /\ paid_out' = paid_out + Tax(s)
      /\ state \in {"Verified", "Allocated", "Disputed"}
      /\ state' \in {"Verified", "Allocated", "Disputed"}
      /\ UNCHANGED <<refunded, claimed, held>>
  BY DEF SettleBatch, MaySettle, StateAfterSettle, Settleable
<1>2. /\ amount \in Nat /\ amount > 0 /\ amount <= pending
      /\ Credit(s) \in [Roles -> Nat] /\ Tax(s) \in Nat
      /\ Total(Credit(s)) + Tax(s) = amount /\ Total(Credit(s)) \in Nat
  BY SettledDivision
<1> HIDE DEF s
<1>3. /\ claimable \in [Roles -> Nat] /\ claimed \in [Roles -> Nat]
      /\ held \in [Roles -> Nat] /\ pending \in Nat /\ paid_out \in Nat
      /\ Total(claimable) \in Nat /\ Total(claimed) \in Nat /\ Total(held) \in Nat
  BY Numbers
<1>4. Inductive'
  BY SettleBatchInductive
<1>5. /\ Free \in [Roles -> Nat] /\ Free' \in [Roles -> Nat]
      /\ Total(Free) = Total(claimable) - Total(claimed) - Total(held)
      /\ Total(Free') = Total(claimable') - Total(claimed') - Total(held')
  <2>1. (Free \in [Roles -> Nat])'
        /\ (Total(Free) = Total(claimable) - Total(claimed) - Total(held))'
    BY <1>4, FreeTotal, PTL
  <2> QED
    BY <2>1, FreeTotal
<1>6. Total(claimable') = Total(claimable) + Total(Credit(s))
  BY <1>1, <1>2, <1>3, TotalSum, Zenon
<1>7. \A role \in Roles : Free'[role] >= Free[role]
  BY <1>1, <1>2, <1>3 DEF Free, Remaining
<1>8. /\ pending' \in Nat /\ pending' < pending
      /\ paid_out' - Total(claimed') >= paid_out - Total(claimed)
  BY <1>1, <1>2, <1>3
<1>9. pending - pending' = (Total(Free') - Total(Free))
        + ((paid_out' - Total(claimed')) - (paid_out - Total(claimed)))
  BY <1>1, <1>2, <1>3, <1>5, <1>6
<1> QED
  BY <1>1, <1>5, <1>7, <1>8, <1>9 DEF Free, Ledger!Divide, Ledger!Purses

LEMMA VerifyEscrowImplements ==
    ASSUME VerifyEscrow
    PROVE  Ledger!Open
<1>1. UNCHANGED [role \in Roles |-> Remaining(role)]
  BY DEF VerifyEscrow, Remaining, allocVars
<1> QED
  BY <1>1 DEF VerifyEscrow, Ledger!Open, Ledger!holderVars, allocVars

LEMMA InitEscrowImplements ==
    ASSUME NEW theaterKey \in Wallets, NEW rule \in Rules, NEW version \in Versions,
           NEW mgAmount \in MgAmounts, NEW investmentAmount \in InvestmentAmounts,
           InitEscrow(theaterKey, rule, version, mgAmount, investmentAmount)
    PROVE  UNCHANGED Ledger!vars
<1>1. UNCHANGED [role \in Roles |-> Remaining(role)]
  BY DEF InitEscrow, Remaining, allocVars
<1> QED
  BY <1>1 DEF InitEscrow, Exists, Uninitialized, Ledger!vars, Ledger!holderVars, allocVars

(***************************************************************************)
(* The refinement.                                                         *)
(***************************************************************************)
LEMMA StepImplements ==
    ASSUME Inductive, [Next]_vars
    PROVE  [Ledger!Next]_(Ledger!vars)
<1>1. CASE UNCHANGED vars
  <2>1. UNCHANGED [role \in Roles |-> Remaining(role)]
    BY <1>1 DEF vars, Remaining, allocVars
  <2> QED
    BY <1>1, <2>1 DEF vars, allocVars, Ledger!vars, Ledger!holderVars
<1>2. CASE Audience
  BY <1>2, DepositImplements, RefundPendingImplements DEF Audience, Ledger!Next
<1>3. CASE RightHolders
  <2>1. PICK role \in Roles, amount \in U64 : Claim(role, amount)
    BY <1>3 DEF RightHolders
  <2>2. Ledger!Draw(role, amount)
    BY <2>1, ClaimImplements
  <2> QED
    BY <2>2 DEF Ledger!Next, Ledger!Draw
<1>4. CASE Agent
  <2>1. ASSUME NEW role \in Roles, NEW amount \in U64, MarkDisputed(role, amount)
        PROVE  Ledger!Next
    <3>1. Ledger!Freeze(role, amount)
      BY <2>1, MarkDisputedImplements
    <3> QED
      BY <3>1 DEF Ledger!Next, Ledger!Freeze
  <2>2. ASSUME NEW role \in Roles, NEW approve \in BOOLEAN, ResolveDispute(role, approve)
        PROVE  Ledger!Next
    BY <2>2, ApproveDisputeImplements, RejectDisputeImplements
       DEF ResolveDispute, Ledger!Next
  <2> QED
    BY <1>4, <2>1, <2>2, InitEscrowImplements, VerifyEscrowImplements,
       SettleBatchImplements DEF Agent, Ledger!Next
<1> QED
  BY <1>1, <1>2, <1>3, <1>4 DEF Next

\* Every behaviour of the program is one of the abstract ledger: a hold on one
\* right holder never moves the purse of another, a settlement divides exactly
\* what leaves pending, and nothing is paid twice.
THEOREM ProgramImplementsLedger == Spec => ImplementsLedger
<1>1. Init => Ledger!Init
  BY InitImplements
<1>2. Inductive /\ [Next]_vars => [Ledger!Next]_(Ledger!vars)
  BY StepImplements
<1> QED
  BY <1>1, <1>2, AlwaysInductive, PTL DEF Spec, ImplementsLedger, Ledger!Spec
=============================================================================
