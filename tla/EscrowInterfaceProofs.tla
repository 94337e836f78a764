----------------------- MODULE EscrowInterfaceProofs -----------------------
(***************************************************************************)
(* Proofs about the interface of movie_escrow, for every rate, width, set  *)
(* of rules and of wallets allowed by the assumptions: the accounts each   *)
(* instruction writes are the ones its message declares, and the events    *)
(* alone tell the ledger.                                                  *)
(***************************************************************************)
EXTENDS EscrowInterface, MovieEscrowProofs

(***************************************************************************)
(* An instruction that emits an event is an instruction.                   *)
(***************************************************************************)
LEMMA InterfaceStep ==
    [InterfaceNext]_interfaceVars => [Next]_vars
BY DEF InterfaceNext, interfaceVars, Next, Audience, Agent, RightHolders

LEMMA InterfaceRunsTheEscrow == InterfaceSpec => Spec
<1>1. InterfaceInit => Init
  BY DEF InterfaceInit
<1>2. [InterfaceNext]_interfaceVars => [Next]_vars
  BY InterfaceStep
<1> QED
  BY <1>1, <1>2, PTL DEF InterfaceSpec, Spec

-----------------------------------------------------------------------------

(***************************************************************************)
(* A message declares what is written if it declares the escrow, the vault *)
(* when money moves, and each Allocation that changes.                     *)
(***************************************************************************)
LEMMA WithinDeclared ==
    ASSUME NEW accounts, NEW role,
           "escrow" \in accounts.writable,
           vault' # vault => "vault" \in accounts.writable,
           \A r \in Roles : Mine(r)' # Mine(r) =>
              r \in (IF "allocation" \in accounts.writable THEN {role} ELSE {})
                  \cup {AllocationOf[name] : name \in accounts.writable \cap DOMAIN AllocationOf}
    PROVE  Within(accounts, role)
<1>1. \A r \in Roles : Mine(r)' # Mine(r) => r \in Declared(accounts, role)
  BY DEF Declared
<1>2. EscrowFields' # EscrowFields => "escrow" \in Declared(accounts, role)
  BY DEF Declared
<1>3. vault' # vault => "vault" \in Declared(accounts, role)
  BY DEF Declared
<1> QED
  BY <1>1, <1>2, <1>3 DEF Within, Changed

\* The same for a message that declares no Allocation and a step that writes none.
LEMMA WithinNoAllocation ==
    ASSUME NEW accounts, NEW role,
           "escrow" \in accounts.writable,
           vault' # vault => "vault" \in accounts.writable,
           UNCHANGED allocVars
    PROVE  Within(accounts, role)
<1>1. \A r \in Roles : Mine(r)' = Mine(r)
  BY DEF allocVars, Mine
<1> QED
  BY <1>1, WithinDeclared

\* The same for a message that declares the Allocation of one role.
LEMMA WithinOneAllocation ==
    ASSUME NEW accounts, NEW role,
           "escrow" \in accounts.writable, "allocation" \in accounts.writable,
           vault' # vault => "vault" \in accounts.writable,
           \A r \in Roles \ {role} : Mine(r)' = Mine(r)
    PROVE  Within(accounts, role)
BY WithinDeclared

LEMMA WithinSettlement ==
    ASSUME vault' = vault
    PROVE  Within(SettleBatchAccounts, "none")
<1> DEFINE writable == SettleBatchAccounts.writable
<1>1. /\ "escrow" \in writable
      /\ writable \cap DOMAIN AllocationOf =
            {"theaterAllocation", "distributorAllocation", "producerAllocation",
             "investorAllocation"}
  BY DEF SettleBatchAccounts, AllocationOf
<1>2. \A r \in Roles : \E name \in writable \cap DOMAIN AllocationOf : AllocationOf[name] = r
  BY <1>1 DEF AllocationOf, Roles
<1> QED
  BY <1>1, <1>2, WithinDeclared

(***************************************************************************)
(* Instruction by instruction.                                             *)
(***************************************************************************)
LEMMA DepositDeclares ==
    ASSUME NEW amount, Deposit(amount)
    PROVE  Within(DepositAccounts, "none")
BY WithinNoAllocation DEF Deposit, DepositAccounts

LEMMA RefundDeclares ==
    ASSUME NEW amount, RefundPending(amount)
    PROVE  Within(RefundPendingAccounts, "none")
BY WithinNoAllocation DEF RefundPending, MayRefund, RefundPendingAccounts

LEMMA VerifyDeclares ==
    ASSUME VerifyEscrow
    PROVE  Within(VerifyEscrowAccounts, "none")
BY WithinNoAllocation DEF VerifyEscrow, VerifyEscrowAccounts

LEMMA ClaimDeclares ==
    ASSUME NEW role, NEW amount, Claim(role, amount)
    PROVE  Within(ClaimAccounts, role)
<1>1. \A r \in Roles \ {role} : Mine(r)' = Mine(r)
  BY DEF Claim, Mine
<1> QED
  BY <1>1, WithinOneAllocation DEF ClaimAccounts

LEMMA MarkDisputedDeclares ==
    ASSUME NEW role, NEW amount, MarkDisputed(role, amount)
    PROVE  Within(MarkDisputedAccounts, role)
<1>1. \A r \in Roles \ {role} : Mine(r)' = Mine(r)
  BY DEF MarkDisputed, Mine
<1>2. vault' = vault
  BY DEF MarkDisputed
<1> QED
  BY <1>1, <1>2, WithinOneAllocation DEF MarkDisputedAccounts

LEMMA ResolveDisputeDeclares ==
    ASSUME NEW role, NEW approve, ResolveDispute(role, approve)
    PROVE  Within(ResolveDisputeAccounts, role)
<1>1. \A r \in Roles \ {role} : Mine(r)' = Mine(r)
  <2>1. CASE ApproveDispute(role)
    BY <2>1 DEF ApproveDispute, Mine
  <2>2. CASE RejectDispute(role)
    BY <2>2 DEF RejectDispute, Mine
  <2> QED
    BY <2>1, <2>2 DEF ResolveDispute
<1>2. vault' = vault
  BY DEF ResolveDispute, ApproveDispute, RejectDispute
<1> QED
  BY <1>1, <1>2, WithinOneAllocation DEF ResolveDisputeAccounts

\* Only a settlement is counted, and it moves no money.
LEMMA CountedMovesNothing ==
    ASSUME Next, batch_count' # batch_count
    PROVE  vault' = vault
<1>1. CASE Audience
  BY <1>1 DEF Audience, Deposit, RefundPending
<1>2. CASE Agent
  BY <1>2 DEF Agent, InitEscrow, VerifyEscrow, SettleBatch, MarkDisputed, ResolveDispute,
     ApproveDispute, RejectDispute
<1>3. CASE RightHolders
  BY <1>3 DEF RightHolders, Claim
<1> QED
  BY <1>1, <1>2, <1>3 DEF Next

\* Only init_escrow creates the account, and it writes nothing else.
LEMMA CreationWritesTheEscrow ==
    ASSUME Next, state = Uninitialized, Exists'
    PROVE  vault' = vault /\ UNCHANGED allocVars
<1>1. ~Audience
  BY DEF Audience, Deposit, RefundPending, MayRefund, Exists
<1>2. ~RightHolders
  BY DEF RightHolders, Claim, Uninitialized
<1>3. CASE Agent
  BY <1>3 DEF Agent, InitEscrow, VerifyEscrow, SettleBatch, MaySettle, MarkDisputed, ResolveDispute,
     ApproveDispute, RejectDispute, Settleable, Uninitialized
<1> QED
  BY <1>1, <1>2, <1>3 DEF Next

\* Every instruction, in every state, writes only the accounts that its message
\* declares writable (packages/schema/idl): no branch of it makes the
\* transaction abort, and no right holder's Allocation is written by a claim or
\* a dispute about another.
THEOREM InstructionsDeclareTheirWrites == InterfaceSpec => WritesAreDeclared
<1> DEFINE Declares ==
        /\ \A amount \in U64 :
              /\ Deposit(amount) => Within(DepositAccounts, "none")
              /\ RefundPending(amount) => Within(RefundPendingAccounts, "none")
        /\ VerifyEscrow => Within(VerifyEscrowAccounts, "none")
        /\ batch_count' # batch_count => Within(SettleBatchAccounts, "none")
        /\ (state = Uninitialized /\ Exists') => Within(InitEscrowAccounts, "none")
        /\ \A role \in Roles :
              /\ \A amount \in U64 :
                    /\ Claim(role, amount) => Within(ClaimAccounts, role)
                    /\ MarkDisputed(role, amount) => Within(MarkDisputedAccounts, role)
              /\ \A approve \in BOOLEAN :
                    ResolveDispute(role, approve) => Within(ResolveDisputeAccounts, role)
<1>1. [Next]_vars => [Declares]_vars
  <2> SUFFICES ASSUME Next PROVE Declares
    OBVIOUS
  <2>1. batch_count' # batch_count => Within(SettleBatchAccounts, "none")
    BY CountedMovesNothing, WithinSettlement
  <2>2. (state = Uninitialized /\ Exists') => Within(InitEscrowAccounts, "none")
    <3>1. "escrow" \in InitEscrowAccounts.writable
      BY DEF InitEscrowAccounts
    <3> QED
      BY <3>1, CreationWritesTheEscrow, WithinNoAllocation
  <2> QED
    BY <2>1, <2>2, DepositDeclares, RefundDeclares, VerifyDeclares, ClaimDeclares,
       MarkDisputedDeclares, ResolveDisputeDeclares
<1> QED
  BY <1>1, InterfaceRunsTheEscrow, PTL DEF Spec, WritesAreDeclared

-----------------------------------------------------------------------------

(***************************************************************************)
(* Sums over the roles bound to one wallet.                                *)
(***************************************************************************)
Holder == Wallets \cup {NoWallet}

Bound(f, binding, wallet) ==
    Total([role \in Roles |-> IF binding[role] = wallet THEN f[role] ELSE 0])

LEMMA SumOverIsBound ==
    ASSUME NEW f, NEW wallet
    PROVE  SumOver(f, RolesOf(wallet)) = Bound(f, beneficiary, wallet)
<1>1. \A role \in Roles : role \in RolesOf(wallet) <=> beneficiary[role] = wallet
  BY DEF RolesOf, AllocationAccount
<1>2. [role \in Roles |-> IF role \in RolesOf(wallet) THEN f[role] ELSE 0]
         = [role \in Roles |-> IF beneficiary[role] = wallet THEN f[role] ELSE 0]
  BY <1>1
<1> QED
  BY <1>2 DEF SumOver, Bound

LEMMA BoundElsewhere ==
    ASSUME NEW f \in [Roles -> Int], NEW other \in [Roles -> Int],
           NEW binding \in [Roles -> Holder], NEW wallet \in Holder,
           \A role \in Roles : binding[role] = wallet => other[role] = f[role]
    PROVE  Bound(other, binding, wallet) = Bound(f, binding, wallet)
BY DEF Bound, Total, Roles

LEMMA BoundExcept ==
    ASSUME NEW f \in [Roles -> Int], NEW binding \in [Roles -> Holder],
           NEW wallet \in Holder, NEW role \in Roles, NEW x \in Int,
           binding[role] = wallet
    PROVE  Bound([f EXCEPT ![role] = x], binding, wallet)
              = Bound(f, binding, wallet) - f[role] + x
BY DEF Bound, Total, Roles

LEMMA BoundDifference ==
    ASSUME NEW f \in [Roles -> Int], NEW g \in [Roles -> Int],
           NEW binding \in [Roles -> Holder], NEW wallet \in Wallets
    PROVE  Bound([role \in Roles |-> f[role] - g[role]], binding, wallet)
              = Bound(f, binding, wallet) - Bound(g, binding, wallet)
BY DEF Bound, Total, Roles

LEMMA BoundType ==
    ASSUME NEW f \in [Roles -> Int], NEW binding, NEW wallet
    PROVE  Bound(f, binding, wallet) \in Int
BY DEF Bound, Total, Roles

(***************************************************************************)
(* A column of the observer's books, `seen', against what the roles `due': *)
(* what was booked of a role while it had no wallet, g, stays with nobody. *)
(***************************************************************************)
Told(seen, f, binding) ==
    /\ \A role \in Roles : binding[role] = NoWallet => f[role] = 0
    /\ \A wallet \in Wallets : seen[wallet] = Bound(f, binding, wallet)

Less(due, g) == [role \in Roles |-> due[role] - g[role]]

Booked(seen, due, binding) ==
    \E g \in [Roles -> Nat] :
        /\ seen[NoWallet] = Total(g)
        /\ Told(seen, Less(due, g), binding)

\* Nothing booked, nothing due.
LEMMA NothingBooked ==
    ASSUME NEW binding
    PROVE  Booked(NoOne, [role \in Roles |-> 0], binding)
<1> DEFINE none == [role \in Roles |-> 0]
<1>1. none \in [Roles -> Nat] /\ NoOne[NoWallet] = Total(none)
  BY TotalZero DEF NoOne
<1>2. \A wallet \in Wallets : NoOne[wallet] = 0
  BY DEF NoOne
<1>3. \A wallet : Bound(Less(none, none), binding, wallet) = 0
  BY DEF Bound, Less, Total, Roles
<1>4. Told(NoOne, Less(none, none), binding)
  BY <1>2, <1>3 DEF Told, Less
<1> QED
  BY <1>1, <1>4 DEF Booked

\* What falls due to a role and is booked under its wallet stays booked.
LEMMA BookedMore ==
    ASSUME NEW seen \in [Holder -> Int], NEW due \in [Roles -> Int],
           NEW binding \in [Roles -> Holder],
           Booked(seen, due, binding),
           NEW role \in Roles, NEW x \in Int, due[role] + x \in Nat
    PROVE  Booked([seen EXCEPT ![binding[role]] = seen[binding[role]] + x],
                  [due EXCEPT ![role] = due[role] + x], binding)
<1> DEFINE seen2 == [seen EXCEPT ![binding[role]] = seen[binding[role]] + x]
           due2  == [due EXCEPT ![role] = due[role] + x]
<1>1. PICK g \in [Roles -> Nat] : seen[NoWallet] = Total(g) /\ Told(seen, Less(due, g), binding)
  BY DEF Booked
<1>2. NoWallet \notin Wallets /\ binding[role] \in Holder
  BY EscrowAssumption
<1>3. CASE binding[role] = NoWallet
  <2> DEFINE g2 == [g EXCEPT ![role] = g[role] + x]
  <2>1. g[role] = due[role]
    BY <1>1, <1>3 DEF Told, Less
  <2>2. g2 \in [Roles -> Nat] /\ Total(g2) = Total(g) + x
    <3>1. g[role] + x \in Nat
      BY <2>1
    <3>2. g[role] + x \in Int /\ g[role] \in Nat /\ Total(g) \in Int
      BY <3>1, TotalBounds
    <3>3. Total(g2) = Total(g) - g[role] + (g[role] + x)
      BY <3>2, TotalExcept
    <3> QED
      BY <3>1, <3>2, <3>3
  <2>3. seen2[NoWallet] = Total(g2)
    BY <1>1, <1>3, <2>2 DEF Holder
  <2>4. Less(due2, g2) = Less(due, g)
    BY DEF Less
  <2>5. \A wallet \in Wallets : seen2[wallet] = seen[wallet]
    BY <1>2, <1>3 DEF Holder
  <2> HIDE DEF seen2, due2, g2
  <2>6. Told(seen2, Less(due2, g2), binding)
    BY <1>1, <2>4, <2>5 DEF Told
  <2>7. Booked(seen2, due2, binding)
    BY <2>2, <2>3, <2>6 DEF Booked
  <2> QED
    BY <2>7 DEF seen2, due2
<1>4. CASE binding[role] \in Wallets
  <2> DEFINE rest  == Less(due, g)
             rest2 == Less(due2, g)
  <2>1. seen2[NoWallet] = seen[NoWallet]
    BY <1>2, <1>4 DEF Holder
  <2>2. rest \in [Roles -> Int] /\ rest2 = [rest EXCEPT ![role] = rest[role] + x]
    <3>1. rest \in [Roles -> Int] /\ rest2 \in [Roles -> Int]
      BY DEF Less
    <3>2. \A r \in Roles : rest2[r] = [rest EXCEPT ![role] = rest[role] + x][r]
      BY DEF Less
    <3> QED
      BY <3>1, <3>2
  <2>3. \A wallet \in Wallets :
            seen2[wallet] = seen[wallet] + (IF binding[role] = wallet THEN x ELSE 0)
    BY <1>4 DEF Holder
  <2>4. Told(seen, rest, binding)
    BY <1>1
  <2> HIDE DEF seen2, due2, rest, rest2
  <2>5. \A wallet \in Wallets : seen2[wallet] = Bound(rest2, binding, wallet)
    <3> SUFFICES ASSUME NEW wallet \in Wallets
                 PROVE  seen2[wallet] = Bound(rest2, binding, wallet)
      OBVIOUS
    <3>1. /\ rest \in [Roles -> Int] /\ rest[role] \in Int /\ rest[role] + x \in Int
          /\ Bound(rest, binding, wallet) \in Int
      BY <2>2, BoundType
    <3>2. seen[wallet] = Bound(rest, binding, wallet)
      BY <2>4 DEF Told
    <3>3. CASE binding[role] = wallet
      <4>1. Bound(rest2, binding, wallet) = Bound(rest, binding, wallet) + x
        <5> DEFINE y == rest[role] + x
        <5>1. rest2 = [rest EXCEPT ![role] = y]
          BY <2>2
        <5>2. wallet \in Holder /\ y \in Int
          BY <3>1 DEF Holder
        <5>3. Bound(rest, binding, wallet) - rest[role] + y
                 = Bound(rest, binding, wallet) + x
          BY <3>1
        <5> HIDE DEF y
        <5>4. Bound([rest EXCEPT ![role] = y], binding, wallet)
                 = Bound(rest, binding, wallet) - rest[role] + y
          BY <3>1, <3>3, <5>2, BoundExcept
        <5> QED
          BY <5>1, <5>3, <5>4, Zenon
      <4> QED
        BY <2>3, <3>2, <3>3, <4>1
    <3>4. CASE binding[role] # wallet
      <4>1. Bound(rest2, binding, wallet) = Bound(rest, binding, wallet)
        <5>1. \A r \in Roles : binding[r] = wallet => rest2[r] = rest[r]
          BY <2>2, <3>4
        <5>2. rest \in [Roles -> Int] /\ rest2 \in [Roles -> Int] /\ wallet \in Holder
          BY <2>2, <3>1 DEF Holder
        <5> QED
          BY <5>1, <5>2, BoundElsewhere
      <4>2. seen[wallet] \in Int
        BY DEF Holder
      <4> QED
        BY <2>3, <3>2, <3>4, <4>1, <4>2
    <3> QED
      BY <3>3, <3>4
  <2>6. \A r \in Roles : binding[r] = NoWallet => rest2[r] = 0
    BY <1>2, <1>4, <2>2, <2>4 DEF Told
  <2>7. Told(seen2, rest2, binding)
    BY <2>5, <2>6 DEF Told
  <2>8. Booked(seen2, due2, binding)
    BY <1>1, <2>1, <2>7 DEF Booked, rest2
  <2> QED
    BY <2>8 DEF seen2, due2
<1> QED
  BY <1>2, <1>3, <1>4 DEF Holder

\* A settlement that binds roles without a wallet disturbs no column: a role
\* newly bound is owed exactly what stays with nobody.
LEMMA BookedBind ==
    ASSUME NEW seen \in [Holder -> Int], NEW due \in [Roles -> Int],
           NEW binding \in [Roles -> Holder], NEW wallets \in [Roles -> Holder],
           Booked(seen, due, binding),
           \A role \in Roles : binding[role] \in {NoWallet, wallets[role]}
    PROVE  Booked(seen, due, wallets)
<1>1. PICK g \in [Roles -> Nat] : seen[NoWallet] = Total(g) /\ Told(seen, Less(due, g), binding)
  BY DEF Booked
<1> DEFINE f == Less(due, g)
<1>2. f \in [Roles -> Int]
  BY DEF Less
<1>3. \A role \in Roles : wallets[role] = NoWallet => f[role] = 0
  BY <1>1 DEF Told
<1>4. ASSUME NEW wallet \in Wallets
      PROVE  Bound(f, wallets, wallet) = Bound(f, binding, wallet)
  <2>1. wallet # NoWallet
    BY EscrowAssumption
  <2>2. \A role \in Roles : (IF wallets[role] = wallet THEN f[role] ELSE 0)
                              = (IF binding[role] = wallet THEN f[role] ELSE 0)
    BY <1>1, <2>1 DEF Told
  <2>3. [role \in Roles |-> IF wallets[role] = wallet THEN f[role] ELSE 0]
           = [role \in Roles |-> IF binding[role] = wallet THEN f[role] ELSE 0]
    BY <2>2
  <2> QED
    BY <2>3 DEF Bound
<1> QED
  BY <1>1, <1>3, <1>4 DEF Booked, Told

\* When nothing stays with nobody, the column tells each wallet's due.
LEMMA BookedTells ==
    ASSUME NEW seen, NEW due \in [Roles -> Int], NEW binding,
           Booked(seen, due, binding), seen[NoWallet] = 0
    PROVE  \A wallet \in Wallets : seen[wallet] = Bound(due, binding, wallet)
<1>1. PICK g \in [Roles -> Nat] : seen[NoWallet] = Total(g) /\ Told(seen, Less(due, g), binding)
  BY DEF Booked
<1>2. \A role \in Roles : g[role] = 0
  BY <1>1 DEF Total, Roles
<1>3. Less(due, g) = due
  BY <1>2 DEF Less
<1> QED
  BY <1>1, <1>3 DEF Told

-----------------------------------------------------------------------------

(***************************************************************************)
(* The inductive invariant of the observer.  The seven figures of `view'   *)
(* are those of the account, from before it exists; each column is booked  *)
(* against what the Allocation accounts owe, drawn, froze and cut; and a   *)
(* claim, which the bound wallet signs, is never told of nobody.           *)
(***************************************************************************)
ViewType ==
    view \in [state : EscrowState, grossIn : Int, pending : Int, allocated : Int,
              disputed : Int, paidOut : Int, refunded : Int,
              credited : [Roles -> Int],
              claimedBy : [Holder -> Int], frozenOf : [Holder -> Int],
              cutFrom : [Holder -> Int]]

StateTold == view.state = IF Exists THEN state ELSE "Pending"

TotalsTold ==
    /\ view.grossIn = gross_in /\ view.pending = pending /\ view.allocated = allocated
    /\ view.disputed = disputed /\ view.paidOut = paid_out /\ view.refunded = refunded

\* What rejected disputes took from each share.
Cuts(credited, due) == [role \in Roles |-> credited[role] - due[role]]

ClaimsTold ==
    view.claimedBy[NoWallet] = 0 /\ Booked(view.claimedBy, claimed, beneficiary)
HoldsTold == Booked(view.frozenOf, held, beneficiary)
CutsTold ==
    /\ Cuts(view.credited, claimable) \in [Roles -> Nat]
    /\ Booked(view.cutFrom, Cuts(view.credited, claimable), beneficiary)

ObserverKnows ==
    ViewType /\ StateTold /\ TotalsTold /\ ClaimsTold /\ HoldsTold /\ CutsTold

LEMMA ObserverStarts == InterfaceInit => ObserverKnows
<1> SUFFICES ASSUME InterfaceInit PROVE ObserverKnows
  OBVIOUS
<1> DEFINE none == [role \in Roles |-> 0]
<1>1. /\ view.state = "Pending" /\ view.credited = none
      /\ view.claimedBy = NoOne /\ view.frozenOf = NoOne /\ view.cutFrom = NoOne
  BY DEF InterfaceInit, Observer
<1>2. /\ claimable = none /\ claimed = none /\ held = none
  BY DEF InterfaceInit, Init
<1>3. NoOne \in [Holder -> Int] /\ none \in [Roles -> Int] /\ "Pending" \in EscrowState
  BY DEF NoOne, Holder, EscrowState
<1>4. ViewType
  BY <1>3 DEF InterfaceInit, Observer, ViewType
<1>5. StateTold /\ TotalsTold
  BY DEF InterfaceInit, Observer, Init, StateTold, TotalsTold, Exists
<1>6. NoOne[NoWallet] = 0
  BY DEF NoOne
<1>7. Cuts(none, none) = none /\ none \in [Roles -> Nat]
  BY DEF Cuts
<1>8. Booked(NoOne, none, beneficiary)
  BY NothingBooked
<1> QED
  BY <1>1, <1>2, <1>4, <1>5, <1>6, <1>7, <1>8 DEF ObserverKnows, ClaimsTold, HoldsTold, CutsTold

\* Columns that a step does not book into are still told of the same roles.
LEMMA OtherColumns ==
    ASSUME ObserverKnows, UNCHANGED beneficiary
    PROVE  /\ view'.claimedBy = view.claimedBy /\ claimed' = claimed => ClaimsTold'
           /\ view'.frozenOf = view.frozenOf /\ held' = held => HoldsTold'
           /\ view'.cutFrom = view.cutFrom /\ view'.credited = view.credited
                 /\ claimable' = claimable => CutsTold'
BY DEF ObserverKnows, ClaimsTold, HoldsTold, CutsTold

(***************************************************************************)
(* Instruction by instruction.                                             *)
(***************************************************************************)
LEMMA InitEscrowKnown ==
    ASSUME Inductive, ObserverKnows,
           NEW theaterKey, NEW rule, NEW version, NEW mgAmount, NEW investmentAmount,
           InitEscrow(theaterKey, rule, version, mgAmount, investmentAmount), UNCHANGED view
    PROVE  ObserverKnows'
<1>1. ViewType' /\ StateTold' /\ TotalsTold'
  BY DEF InitEscrow, ObserverKnows, ViewType, StateTold, TotalsTold, Exists, Uninitialized
<1>2. ClaimsTold' /\ HoldsTold' /\ CutsTold'
  BY OtherColumns DEF InitEscrow, allocVars
<1> QED
  BY <1>1, <1>2 DEF ObserverKnows

LEMMA DepositKnown ==
    ASSUME Inductive, ObserverKnows, NEW amount \in U64,
           Deposit(amount), SeeDeposit(DepositEvent(amount))
    PROVE  ObserverKnows'
<1>1. amount \in Int /\ gross_in' \in Int /\ pending' \in Int
  BY Numbers, EscrowAssumption DEF Deposit, U64
<1>2. view' = [view EXCEPT !.grossIn = gross_in', !.pending = pending']
  BY DEF SeeDeposit, DepositEvent
<1>3. ViewType'
  BY <1>1, <1>2 DEF ObserverKnows, ViewType
<1>4. StateTold' /\ TotalsTold'
  BY <1>2 DEF Deposit, ObserverKnows, ViewType, StateTold, TotalsTold, Exists
<1>5. /\ view'.claimedBy = view.claimedBy /\ view'.frozenOf = view.frozenOf
      /\ view'.cutFrom = view.cutFrom /\ view'.credited = view.credited
  BY <1>2 DEF ObserverKnows, ViewType
<1>6. UNCHANGED allocVars
  BY DEF Deposit
<1>7. ClaimsTold' /\ HoldsTold' /\ CutsTold'
  BY <1>5, <1>6, OtherColumns DEF allocVars
<1> QED
  BY <1>3, <1>4, <1>7 DEF ObserverKnows

LEMMA RefundKnown ==
    ASSUME Inductive, ObserverKnows, NEW amount \in U64,
           RefundPending(amount), SeeRefund(RefundEvent(amount))
    PROVE  ObserverKnows'
<1>1. amount \in Int /\ refunded' \in Int /\ pending' \in Int
  BY Numbers, EscrowAssumption DEF RefundPending, MayRefund, U64
<1>2. view' = [view EXCEPT !.pending = pending', !.refunded = refunded']
  BY DEF SeeRefund, RefundEvent
<1>3. ViewType'
  BY <1>1, <1>2 DEF ObserverKnows, ViewType
<1>4. StateTold' /\ TotalsTold'
  BY <1>2 DEF RefundPending, MayRefund, ObserverKnows, ViewType, StateTold, TotalsTold, Exists
<1>5. /\ view'.claimedBy = view.claimedBy /\ view'.frozenOf = view.frozenOf
      /\ view'.cutFrom = view.cutFrom /\ view'.credited = view.credited
  BY <1>2 DEF ObserverKnows, ViewType
<1>6. UNCHANGED allocVars
  BY DEF RefundPending
<1>7. ClaimsTold' /\ HoldsTold' /\ CutsTold'
  BY <1>5, <1>6, OtherColumns DEF allocVars
<1> QED
  BY <1>3, <1>4, <1>7 DEF ObserverKnows

LEMMA VerifyKnown ==
    ASSUME Inductive, ObserverKnows, VerifyEscrow, SeeVerified(VerifiedEvent)
    PROVE  ObserverKnows'
<1>1. view' = [view EXCEPT !.state = "Verified"]
  BY DEF SeeVerified, VerifiedEvent
<1>2. ViewType'
  BY <1>1 DEF ObserverKnows, ViewType, EscrowState
<1>3. StateTold' /\ TotalsTold'
  BY <1>1 DEF VerifyEscrow, ObserverKnows, ViewType, StateTold, TotalsTold, Exists,
     Uninitialized
<1>4. /\ view'.claimedBy = view.claimedBy /\ view'.frozenOf = view.frozenOf
      /\ view'.cutFrom = view.cutFrom /\ view'.credited = view.credited
  BY <1>1 DEF ObserverKnows, ViewType
<1>5. UNCHANGED allocVars
  BY DEF VerifyEscrow
<1>6. ClaimsTold' /\ HoldsTold' /\ CutsTold'
  BY <1>4, <1>5, OtherColumns DEF allocVars
<1> QED
  BY <1>2, <1>3, <1>6 DEF ObserverKnows

\* The columns and the bindings are functions.
LEMMA BookTypes ==
    ASSUME Inductive, ObserverKnows
    PROVE  /\ view.claimedBy \in [Holder -> Int] /\ view.frozenOf \in [Holder -> Int]
           /\ view.cutFrom \in [Holder -> Int] /\ view.credited \in [Roles -> Int]
           /\ beneficiary \in [Roles -> Holder]
           /\ claimable \in [Roles -> Nat] /\ claimed \in [Roles -> Nat]
           /\ held \in [Roles -> Nat]
           /\ NoWallet \notin Wallets
<1>1. beneficiary \in [Roles -> Holder]
  BY DEF Inductive, TypeOK, Holder
<1> QED
  BY <1>1, Numbers, EscrowAssumption DEF ObserverKnows, ViewType

LEMMA ClaimKnown ==
    ASSUME Inductive, ObserverKnows, NEW role \in Roles, NEW amount \in U64,
           Claim(role, amount), SeeClaim(ClaimEvent(role, amount))
    PROVE  ObserverKnows'
<1> DEFINE wallet == beneficiary[role]
           books  == [view.claimedBy EXCEPT ![wallet] = view.claimedBy[wallet] + amount]
<1>1. amount \in Nat /\ allocated' \in Int /\ paid_out' \in Int
  BY Numbers, EscrowAssumption DEF Claim, U64
<1>2. wallet \in Wallets /\ wallet \in Holder /\ wallet # NoWallet
  BY EscrowAssumption DEF Claim, Holder
<1>3. view' = [view EXCEPT !.allocated = allocated', !.paidOut = paid_out',
                           !.claimedBy = books]
  BY DEF SeeClaim, ClaimEvent
<1>4. books \in [Holder -> Int]
  BY <1>1, <1>2, BookTypes
<1> HIDE DEF books
<1>5. ViewType'
  BY <1>1, <1>3, <1>4 DEF ObserverKnows, ViewType
<1>6. StateTold' /\ TotalsTold'
  BY <1>3 DEF Claim, ObserverKnows, ViewType, StateTold, TotalsTold, Exists
<1>7. /\ view'.claimedBy = books /\ view'.frozenOf = view.frozenOf
      /\ view'.cutFrom = view.cutFrom /\ view'.credited = view.credited
  BY <1>3 DEF ObserverKnows, ViewType
<1>8. UNCHANGED <<beneficiary, claimable, held>> /\ claimed' = [claimed EXCEPT ![role] = @ + amount]
  BY DEF Claim
<1>9. HoldsTold' /\ CutsTold'
  BY <1>7, <1>8, OtherColumns
<1>10. ClaimsTold'
  <2>1. books[NoWallet] = 0
    BY <1>2, BookTypes DEF books, ObserverKnows, ClaimsTold, Holder
  <2>2. claimed \in [Roles -> Int] /\ claimed[role] + amount \in Nat /\ amount \in Int
    BY <1>1, BookTypes
  <2>3. Booked(view.claimedBy, claimed, beneficiary)
    BY DEF ObserverKnows, ClaimsTold
  <2>4. view.claimedBy \in [Holder -> Int] /\ beneficiary \in [Roles -> Holder]
    BY BookTypes
  <2>5. Booked(books, [claimed EXCEPT ![role] = claimed[role] + amount], beneficiary)
    BY <2>2, <2>3, <2>4, BookedMore DEF books
  <2>6. Booked(view'.claimedBy, claimed', beneficiary')
    BY <2>5, <1>7, <1>8
  <2> QED
    BY <2>1, <2>6, <1>7 DEF ClaimsTold
<1> QED
  BY <1>5, <1>6, <1>9, <1>10 DEF ObserverKnows

LEMMA MarkDisputedKnown ==
    ASSUME Inductive, ObserverKnows, NEW role \in Roles, NEW amount \in U64,
           MarkDisputed(role, amount), SeeMarkDisputed(MarkDisputedEvent(role, amount))
    PROVE  ObserverKnows'
<1> DEFINE wallet == beneficiary[role]
           books  == [view.frozenOf EXCEPT ![wallet] = view.frozenOf[wallet] + amount]
<1>1. amount \in Nat /\ disputed' \in Int /\ view.allocated - amount \in Int
  BY Numbers, EscrowAssumption DEF MarkDisputed, U64, ObserverKnows, TotalsTold
<1>2. wallet \in Holder
  BY BookTypes
<1>3. view' = [view EXCEPT !.state = "Disputed", !.disputed = disputed',
                           !.allocated = view.allocated - amount, !.frozenOf = books]
  BY DEF SeeMarkDisputed, MarkDisputedEvent
<1>4. books \in [Holder -> Int]
  BY <1>1, <1>2, BookTypes
<1> HIDE DEF books
<1>5. ViewType'
  BY <1>1, <1>3, <1>4 DEF ObserverKnows, ViewType, EscrowState
<1>6. StateTold' /\ TotalsTold'
  BY <1>3 DEF MarkDisputed, ObserverKnows, ViewType, StateTold, TotalsTold, Exists,
     Uninitialized
<1>7. /\ view'.claimedBy = view.claimedBy /\ view'.frozenOf = books
      /\ view'.cutFrom = view.cutFrom /\ view'.credited = view.credited
  BY <1>3 DEF ObserverKnows, ViewType
<1>8. UNCHANGED <<beneficiary, claimable, claimed>> /\ held' = [held EXCEPT ![role] = @ + amount]
  BY DEF MarkDisputed
<1>9. ClaimsTold' /\ CutsTold'
  BY <1>7, <1>8, OtherColumns
<1>10. HoldsTold'
  <2>1. held \in [Roles -> Int] /\ held[role] + amount \in Nat /\ amount \in Int
    BY <1>1, BookTypes
  <2>2. Booked(view.frozenOf, held, beneficiary)
    BY DEF ObserverKnows, HoldsTold
  <2>3. view.frozenOf \in [Holder -> Int] /\ beneficiary \in [Roles -> Holder]
    BY BookTypes
  <2>4. Booked(books, [held EXCEPT ![role] = held[role] + amount], beneficiary)
    BY <2>1, <2>2, <2>3, BookedMore DEF books
  <2> QED
    BY <2>4, <1>7, <1>8 DEF HoldsTold
<1> QED
  BY <1>5, <1>6, <1>9, <1>10 DEF ObserverKnows

\* A resolution takes all that is held of the role off the column of holds.
LEMMA HoldReleased ==
    ASSUME Inductive, ObserverKnows, NEW role \in Roles
    PROVE  Booked([view.frozenOf EXCEPT ![beneficiary[role]] =
                        view.frozenOf[beneficiary[role]] - held[role]],
                  [held EXCEPT ![role] = 0], beneficiary)
<1>1. /\ view.frozenOf \in [Holder -> Int] /\ beneficiary \in [Roles -> Holder]
      /\ held \in [Roles -> Int] /\ held[role] \in Nat
  BY BookTypes
<1>2. Booked(view.frozenOf, held, beneficiary)
  BY DEF ObserverKnows, HoldsTold
<1> DEFINE x == 0 - held[role]
<1>3. x \in Int /\ held[role] + x = 0 /\ held[role] + x \in Nat
  BY <1>1
<1>4. view.frozenOf[beneficiary[role]] + x = view.frozenOf[beneficiary[role]] - held[role]
  BY <1>1
<1> HIDE DEF x
<1>5. Booked([view.frozenOf EXCEPT ![beneficiary[role]] = view.frozenOf[beneficiary[role]] + x],
             [held EXCEPT ![role] = held[role] + x], beneficiary)
  BY <1>1, <1>2, <1>3, BookedMore
<1> QED
  BY <1>3, <1>4, <1>5

LEMMA ApproveKnown ==
    ASSUME Inductive, ObserverKnows, NEW role \in Roles,
           ApproveDispute(role), SeeResolveDispute(ResolveDisputeEvent(role, TRUE))
    PROVE  ObserverKnows'
<1> DEFINE wallet == beneficiary[role]
           books  == [view.frozenOf EXCEPT ![wallet] = view.frozenOf[wallet] - held[role]]
           told   == IF disputed' = 0 THEN "Allocated" ELSE view.state
<1>1. held[role] \in Nat /\ disputed' \in Int /\ view.allocated + held[role] \in Int
  BY Numbers, BookTypes DEF ApproveDispute, ObserverKnows, TotalsTold
<1>2. wallet \in Holder /\ view.frozenOf[wallet] \in Int
  BY BookTypes
<1>3. view' = [view EXCEPT !.state = told, !.disputed = disputed',
                           !.allocated = view.allocated + held[role], !.frozenOf = books]
  BY <1>2, BookTypes DEF SeeResolveDispute, ResolveDisputeEvent, ObserverKnows, ViewType
<1>4. books \in [Holder -> Int]
  BY <1>1, <1>2, BookTypes
<1>5. told \in EscrowState
  BY DEF ObserverKnows, ViewType, EscrowState
<1> HIDE DEF books, told
<1>6. ViewType'
  BY <1>1, <1>3, <1>4, <1>5 DEF ObserverKnows, ViewType
<1>7. TotalsTold'
  BY <1>3 DEF ApproveDispute, ObserverKnows, ViewType, TotalsTold
<1>8. StateTold'
  <2>1. state' = (IF disputed' = 0 THEN "Allocated" ELSE state) /\ state = "Disputed"
    BY DEF ApproveDispute, StateAfterResolve
  <2>2. view.state = state
    BY <2>1 DEF ObserverKnows, StateTold, Exists, Uninitialized
  <2>3. view'.state = told
    BY <1>3 DEF ObserverKnows, ViewType
  <2> QED
    BY <2>1, <2>2, <2>3 DEF StateTold, Exists, Uninitialized, told
<1>9. /\ view'.claimedBy = view.claimedBy /\ view'.frozenOf = books
      /\ view'.cutFrom = view.cutFrom /\ view'.credited = view.credited
  BY <1>3 DEF ObserverKnows, ViewType
<1>10. UNCHANGED <<beneficiary, claimable, claimed>> /\ held' = [held EXCEPT ![role] = 0]
  BY DEF ApproveDispute
<1>11. ClaimsTold' /\ CutsTold'
  BY <1>9, <1>10, OtherColumns
<1>12. HoldsTold'
  <2>1. Booked(books, [held EXCEPT ![role] = 0], beneficiary)
    BY HoldReleased DEF books
  <2> QED
    BY <2>1, <1>9, <1>10 DEF HoldsTold
<1> QED
  BY <1>6, <1>7, <1>8, <1>11, <1>12 DEF ObserverKnows

LEMMA RejectKnown ==
    ASSUME Inductive, ObserverKnows, NEW role \in Roles,
           RejectDispute(role), SeeResolveDispute(ResolveDisputeEvent(role, FALSE))
    PROVE  ObserverKnows'
<1> DEFINE wallet == beneficiary[role]
           books  == [view.frozenOf EXCEPT ![wallet] = view.frozenOf[wallet] - held[role]]
           taken  == [view.cutFrom EXCEPT ![wallet] = view.cutFrom[wallet] + held[role]]
           told   == IF disputed' = 0 THEN "Allocated" ELSE view.state
           cuts   == Cuts(view.credited, claimable)
<1>1. held[role] \in Nat /\ disputed' \in Int /\ view.refunded + held[role] \in Int
  BY Numbers, BookTypes DEF RejectDispute, ObserverKnows, TotalsTold
<1>2. wallet \in Holder
  BY BookTypes
<1>3. view' = [view EXCEPT !.state = told, !.disputed = disputed',
                           !.refunded = view.refunded + held[role],
                           !.frozenOf = books, !.cutFrom = taken]
  BY DEF SeeResolveDispute, ResolveDisputeEvent, ObserverKnows, ViewType
<1>4. books \in [Holder -> Int] /\ taken \in [Holder -> Int]
  BY <1>1, <1>2, BookTypes
<1>5. told \in EscrowState
  BY DEF ObserverKnows, ViewType, EscrowState
<1> HIDE DEF books, taken, told
<1>6. ViewType'
  BY <1>1, <1>3, <1>4, <1>5 DEF ObserverKnows, ViewType
<1>7. TotalsTold'
  BY <1>3 DEF RejectDispute, ObserverKnows, ViewType, TotalsTold
<1>8. StateTold'
  <2>1. state' = (IF disputed' = 0 THEN "Allocated" ELSE state) /\ state = "Disputed"
    BY DEF RejectDispute, StateAfterResolve
  <2>2. view.state = state
    BY <2>1 DEF ObserverKnows, StateTold, Exists, Uninitialized
  <2>3. view'.state = told
    BY <1>3 DEF ObserverKnows, ViewType
  <2> QED
    BY <2>1, <2>2, <2>3 DEF StateTold, Exists, Uninitialized, told
<1>9. /\ view'.claimedBy = view.claimedBy /\ view'.frozenOf = books
      /\ view'.cutFrom = taken /\ view'.credited = view.credited
  BY <1>3 DEF ObserverKnows, ViewType
<1>10. /\ UNCHANGED <<beneficiary, claimed>> /\ held' = [held EXCEPT ![role] = 0]
       /\ claimable' = [claimable EXCEPT ![role] = claimable[role] - held[role]]
  BY DEF RejectDispute, ShareAfterRejection
<1>11. ClaimsTold'
  BY <1>9, <1>10, OtherColumns
<1>12. HoldsTold'
  <2>1. Booked(books, [held EXCEPT ![role] = 0], beneficiary)
    BY HoldReleased DEF books
  <2> QED
    BY <2>1, <1>9, <1>10 DEF HoldsTold
<1>13. CutsTold'
  <2>1. /\ cuts \in [Roles -> Nat] /\ cuts \in [Roles -> Int]
        /\ cuts[role] + held[role] \in Nat /\ held[role] \in Int
    BY <1>1 DEF ObserverKnows, CutsTold
  <2>2. Cuts(view'.credited, claimable') = [cuts EXCEPT ![role] = cuts[role] + held[role]]
    <3>1. \A r \in Roles : view'.credited[r] - claimable'[r]
              = (view.credited[r] - claimable[r]) + (IF r = role THEN held[role] ELSE 0)
      BY <1>1, <1>9, <1>10, BookTypes
    <3>2. \A r \in Roles : Cuts(view'.credited, claimable')[r]
              = [cuts EXCEPT ![role] = cuts[role] + held[role]][r]
      BY <3>1, <2>1, BookTypes DEF Cuts
    <3>3. DOMAIN Cuts(view'.credited, claimable') = Roles
      BY DEF Cuts
    <3>4. Cuts(view'.credited, claimable')
             = [r \in Roles |-> Cuts(view'.credited, claimable')[r]]
      BY DEF Cuts
    <3> QED
      BY <3>2, <3>4, <2>1
  <2>3. Booked(view.cutFrom, cuts, beneficiary)
    BY DEF ObserverKnows, CutsTold
  <2>4. view.cutFrom \in [Holder -> Int] /\ beneficiary \in [Roles -> Holder]
    BY BookTypes
  <2> HIDE DEF cuts
  <2>5. Booked(taken, [cuts EXCEPT ![role] = cuts[role] + held[role]], beneficiary)
    BY <2>1, <2>3, <2>4, BookedMore DEF taken
  <2>6. [cuts EXCEPT ![role] = cuts[role] + held[role]] \in [Roles -> Nat]
    BY <2>1
  <2> QED
    BY <2>2, <2>5, <2>6, <1>9, <1>10 DEF CutsTold
<1> QED
  BY <1>6, <1>7, <1>8, <1>11, <1>12, <1>13 DEF ObserverKnows

\* What the event of a settlement lists is what the handler credits.
LEMMA SettledEventTells ==
    ASSUME Inductive, NEW amount \in U64, NEW rule \in Rules,
           NEW wallets \in WalletAssignments, SettleBatch(amount, rule, wallets),
           NEW split, split = Division(amount, rule),
           NEW e, e = SettledEvent(amount, rule)
    PROVE  /\ e.gross = amount /\ e.levy \in Nat /\ e.vat \in Nat
           /\ e.levy + e.vat = Tax(split)
           /\ Credited(e) = Credit(split)
           /\ Credit(split) \in [Roles -> Nat]
           /\ Total(Credit(split)) \in Nat
<1>1. /\ amount \in Nat /\ rule \in RuleType /\ RuleAccepted(rule)
      /\ mg_remaining \in Nat /\ investment_remaining \in Nat
  BY Numbers, EscrowAssumption DEF SettleBatch, MaySettle, U64
<1>2. split.fee_fits
  BY DEF SettleBatch, MaySettle, DivisionFits
<1>3. split.levy \in Nat /\ split.vat \in Nat
  BY <1>1, <1>2, WaterfallIsExactAndSound DEF Division
<1>4. e.gross = amount /\ e.levy = split.levy /\ e.vat = split.vat
  BY DEF SettledEvent
<1>5. Credited(e) = Credit(split)
  BY DEF Credited, Credit, SettledEvent
<1>6. Credit(split) \in [Roles -> Nat]
  BY <1>1, <1>2, CreditType DEF Division
<1>7. Total(Credit(split)) \in Nat
  BY <1>6, TotalBounds DEF Roles
<1> QED
  BY <1>3, <1>4, <1>5, <1>6, <1>7 DEF Tax

LEMMA SettleKnown ==
    ASSUME Inductive, ObserverKnows, NEW amount \in U64, NEW rule \in Rules,
           NEW wallets \in WalletAssignments, SettleBatch(amount, rule, wallets),
           SeeSettled(SettledEvent(amount, rule))
    PROVE  ObserverKnows'
<1> DEFINE split == Division(amount, rule)
           e     == SettledEvent(amount, rule)
           sum   == [role \in Roles |-> view.credited[role] + Credit(split)[role]]
           told  == IF view.state = "Verified" THEN "Allocated" ELSE view.state
<1>1. /\ e.gross = amount /\ e.levy \in Nat /\ e.vat \in Nat
      /\ e.levy + e.vat = Tax(split)
      /\ Credited(e) = Credit(split)
      /\ Credit(split) \in [Roles -> Nat]
      /\ Total(Credit(split)) \in Nat
  BY SettledEventTells
<1>2. /\ beneficiary' = wallets
      /\ pending' = pending - amount
      /\ allocated' = allocated + Total(Credit(split))
      /\ paid_out' = paid_out + Tax(split)
      /\ claimable' = [role \in Roles |-> claimable[role] + Credit(split)[role]]
      /\ state \in Settleable /\ state' = StateAfterSettle
      /\ UNCHANGED <<gross_in, disputed, refunded, claimed, held>>
      /\ \A role \in Roles : beneficiary[role] \in {NoWallet, wallets[role]}
  BY DEF SettleBatch, MaySettle, MayBind
<1>3. SeeSettled(e)
  OBVIOUS
<1> HIDE DEF split, e
<1>4. view' = [view EXCEPT !.state = told, !.pending = view.pending - amount,
                           !.paidOut = view.paidOut + e.levy + e.vat,
                           !.allocated = view.allocated + Total(Credit(split)),
                           !.credited = sum]
  BY <1>1, <1>3 DEF SeeSettled
<1>5. sum \in [Roles -> Int] /\ told \in EscrowState
  BY <1>1, BookTypes DEF ObserverKnows, ViewType, EscrowState
<1> HIDE DEF sum, told
<1>6. /\ view'.state = told /\ view'.grossIn = view.grossIn
      /\ view'.pending = view.pending - amount
      /\ view'.paidOut = view.paidOut + e.levy + e.vat
      /\ view'.allocated = view.allocated + Total(Credit(split))
      /\ view'.disputed = view.disputed /\ view'.refunded = view.refunded
      /\ view'.credited = sum
      /\ view'.claimedBy = view.claimedBy /\ view'.frozenOf = view.frozenOf
      /\ view'.cutFrom = view.cutFrom
  BY <1>4 DEF ObserverKnows, ViewType
<1>7. ViewType'
  <2>1. /\ view.pending - amount \in Int
        /\ view.paidOut + e.levy + e.vat \in Int
        /\ view.allocated + Total(Credit(split)) \in Int
    BY <1>1, EscrowAssumption DEF ObserverKnows, ViewType, U64
  <2> QED
    BY <1>4, <1>5, <2>1 DEF ObserverKnows, ViewType
<1>8. TotalsTold'
  <2>1. /\ view.grossIn = gross_in /\ view.pending = pending /\ view.allocated = allocated
        /\ view.disputed = disputed /\ view.paidOut = paid_out /\ view.refunded = refunded
    BY DEF ObserverKnows, TotalsTold
  <2>2. view'.paidOut = paid_out'
    BY <1>1, <1>2, <1>6, <2>1, Numbers
  <2> QED
    BY <1>2, <1>6, <2>1, <2>2 DEF TotalsTold
<1>9. StateTold'
  <2>1. view.state = state /\ state # Uninitialized
    BY <1>2 DEF ObserverKnows, StateTold, Exists, Settleable, Uninitialized
  <2> QED
    BY <1>2, <1>6, <2>1 DEF StateTold, Exists, StateAfterSettle, Uninitialized, told
<1>10. wallets \in [Roles -> Holder]
  BY EscrowAssumption DEF Holder
<1>11. ClaimsTold'
  <2>1. Booked(view.claimedBy, claimed, beneficiary) /\ view.claimedBy[NoWallet] = 0
    BY DEF ObserverKnows, ClaimsTold
  <2>2. claimed \in [Roles -> Int]
    BY BookTypes
  <2>3. Booked(view.claimedBy, claimed, wallets)
    BY <1>2, <1>10, <2>1, <2>2, BookTypes, BookedBind
  <2> QED
    BY <1>2, <1>6, <2>1, <2>3 DEF ClaimsTold
<1>12. HoldsTold'
  <2>1. Booked(view.frozenOf, held, beneficiary)
    BY DEF ObserverKnows, HoldsTold
  <2>2. held \in [Roles -> Int]
    BY BookTypes
  <2>3. Booked(view.frozenOf, held, wallets)
    BY <1>2, <1>10, <2>1, <2>2, BookTypes, BookedBind
  <2> QED
    BY <1>2, <1>6, <2>3 DEF HoldsTold
<1>13. CutsTold'
  <2>1. Cuts(view'.credited, claimable') = Cuts(view.credited, claimable)
    <3>1. \A role \in Roles : view'.credited[role] - claimable'[role]
                                = view.credited[role] - claimable[role]
      BY <1>1, <1>2, <1>6, BookTypes DEF sum
    <3> QED
      BY <3>1 DEF Cuts
  <2> DEFINE cuts == Cuts(view.credited, claimable)
  <2>2. cuts \in [Roles -> Nat] /\ Booked(view.cutFrom, cuts, beneficiary)
    BY DEF ObserverKnows, CutsTold
  <2> HIDE DEF cuts
  <2>3. cuts \in [Roles -> Int]
    BY <2>2
  <2>4. Booked(view.cutFrom, cuts, wallets)
    BY <1>2, <1>10, <2>2, <2>3, BookTypes, BookedBind
  <2>5. Cuts(view'.credited, claimable') = cuts
    BY <2>1 DEF cuts
  <2> QED
    BY <1>2, <1>6, <2>2, <2>4, <2>5 DEF CutsTold
<1> QED
  BY <1>7, <1>8, <1>9, <1>11, <1>12, <1>13 DEF ObserverKnows

LEMMA NextKnown ==
    ASSUME Inductive, ObserverKnows, [InterfaceNext]_interfaceVars
    PROVE  ObserverKnows'
<1>1. CASE UNCHANGED interfaceVars
  BY <1>1 DEF interfaceVars, vars, contractVars, recoupVars, allocVars, ObserverKnows, ViewType,
     StateTold, TotalsTold, ClaimsTold, HoldsTold, CutsTold, Exists
<1>2. CASE \E theaterKey \in Wallets, rule \in Rules, version \in Versions,
              mgAmount \in MgAmounts, investmentAmount \in InvestmentAmounts :
              InitEscrow(theaterKey, rule, version, mgAmount, investmentAmount)
           /\ UNCHANGED view
  BY <1>2, InitEscrowKnown
<1>3. CASE \E amount \in U64 :
              \/ Deposit(amount) /\ SeeDeposit(DepositEvent(amount))
              \/ RefundPending(amount) /\ SeeRefund(RefundEvent(amount))
  BY <1>3, DepositKnown, RefundKnown
<1>4. CASE VerifyEscrow /\ SeeVerified(VerifiedEvent)
  BY <1>4, VerifyKnown
<1>5. CASE \E amount \in U64, rule \in Rules, wallets \in WalletAssignments :
              /\ SettleBatch(amount, rule, wallets)
              /\ SeeSettled(SettledEvent(amount, rule))
  BY <1>5, SettleKnown
<1>6. CASE \E role \in Roles, amount \in U64 :
              \/ Claim(role, amount) /\ SeeClaim(ClaimEvent(role, amount))
              \/ MarkDisputed(role, amount)
                    /\ SeeMarkDisputed(MarkDisputedEvent(role, amount))
  BY <1>6, ClaimKnown, MarkDisputedKnown
<1>7. CASE \E role \in Roles, approve \in BOOLEAN :
              /\ ResolveDispute(role, approve)
              /\ SeeResolveDispute(ResolveDisputeEvent(role, approve))
  <2>1. PICK role \in Roles, approve \in BOOLEAN :
              /\ ResolveDispute(role, approve)
              /\ SeeResolveDispute(ResolveDisputeEvent(role, approve))
    BY <1>7
  <2>2. CASE approve = TRUE
    BY <2>1, <2>2, ApproveKnown DEF ResolveDispute
  <2>3. CASE approve = FALSE
    BY <2>1, <2>3, RejectKnown DEF ResolveDispute
  <2> QED
    BY <2>2, <2>3
<1> QED
  BY <1>1, <1>2, <1>3, <1>4, <1>5, <1>6, <1>7 DEF InterfaceNext

\* What the observer knows is what a client would fetch.
LEMMA KnowingTells ==
    ASSUME Inductive, ObserverKnows
    PROVE  EventsTellTheLedger
<1> SUFFICES ASSUME Exists PROVE EventsTellTheLedger
  BY DEF EventsTellTheLedger
<1>1. \A figure \in {"state", "grossIn", "pending", "allocated", "disputed",
                     "paidOut", "refunded"} : view[figure] = MovieEscrowAccount[figure]
  BY DEF ObserverKnows, ViewType, StateTold, TotalsTold, MovieEscrowAccount
<1>2. ASSUME view.frozenOf[NoWallet] = 0, view.cutFrom[NoWallet] = 0, NEW wallet \in Wallets
      PROVE  /\ view.claimedBy[wallet] = SumOver(claimed, RolesOf(wallet))
             /\ view.frozenOf[wallet] = SumOver(held, RolesOf(wallet))
             /\ SumOver(view.credited, RolesOf(wallet)) - view.cutFrom[wallet]
                   = SumOver(claimable, RolesOf(wallet))
  <2> DEFINE cuts == Cuts(view.credited, claimable)
  <2>1. /\ claimed \in [Roles -> Int] /\ held \in [Roles -> Int]
        /\ view.credited \in [Roles -> Int] /\ claimable \in [Roles -> Int]
        /\ beneficiary \in [Roles -> Holder]
    BY BookTypes
  <2>2. cuts \in [Roles -> Int] /\ Booked(view.cutFrom, cuts, beneficiary)
    BY DEF ObserverKnows, CutsTold
  <2>3. view.claimedBy[wallet] = Bound(claimed, beneficiary, wallet)
    BY <2>1, BookedTells DEF ObserverKnows, ClaimsTold
  <2>4. view.frozenOf[wallet] = Bound(held, beneficiary, wallet)
    BY <1>2, <2>1, BookedTells DEF ObserverKnows, HoldsTold
  <2>5. Bound(cuts, beneficiary, wallet)
           = Bound(view.credited, beneficiary, wallet) - Bound(claimable, beneficiary, wallet)
    BY <2>1, BoundDifference DEF Cuts
  <2> HIDE DEF cuts
  <2>6. view.cutFrom[wallet] = Bound(cuts, beneficiary, wallet)
    BY <1>2, <2>2, BookedTells
  <2>7. /\ Bound(view.credited, beneficiary, wallet) \in Int
        /\ Bound(claimable, beneficiary, wallet) \in Int
    BY <2>1, BoundType
  <2>8. Bound(view.credited, beneficiary, wallet) - view.cutFrom[wallet]
           = Bound(claimable, beneficiary, wallet)
    BY <2>5, <2>6, <2>7
  <2> QED
    BY <2>3, <2>4, <2>8, SumOverIsBound
<1> QED
  BY <1>1, <1>2 DEF EventsTellTheLedger

\* The invariants of the escrow and of the observer hold together in every
\* reachable state.
LEMMA AlwaysKnown == InterfaceSpec => [](Inductive /\ ObserverKnows)
<1>1. InterfaceInit => Inductive /\ ObserverKnows
  BY InitInductive, ObserverStarts DEF InterfaceInit
<1>2. Inductive /\ ObserverKnows /\ [InterfaceNext]_interfaceVars => (Inductive /\ ObserverKnows)'
  BY InterfaceStep, NextInductive, NextKnown
<1> QED
  BY <1>1, <1>2, PTL DEF InterfaceSpec

\* The events alone, in the order they are emitted, tell the state and the six
\* totals of the escrow, and wallet by wallet what was drawn, is frozen and is
\* due, whatever the order of deposits, settlements, claims and disputes.
THEOREM EventsAreEnough == InterfaceSpec => []EventsTellTheLedger
<1>1. Inductive /\ ObserverKnows => EventsTellTheLedger
  BY KnowingTells
<1> QED
  BY <1>1, AlwaysKnown, PTL
=============================================================================
