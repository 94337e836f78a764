--------------------------- MODULE SettlementAgent ---------------------------
(***************************************************************************)
(* The settlement agent (apps/agent) over the on-chain program: the batch  *)
(* routes, the in-memory store, the pipeline and AnchorChainGateway.       *)
(*                                                                         *)
(* Node runs one callback at a time, so a request runs alone from one      *)
(* await to the next; each such stretch is one action.  Between two awaits *)
(* anything may happen: another request, a deposit, a claim, a crash.      *)
(*                                                                         *)
(* A transaction is sent, waits in the network, and lands or is lost; the  *)
(* caller of rpc() sees its confirmation or gives up, and it may give up   *)
(* on a transaction that has landed or will land later.                    *)
(*                                                                         *)
(* A name with an underscore, Action_Variant, is a deliberately wrong      *)
(* variant of the definition that follows it; no specification uses it.    *)
(***************************************************************************)
EXTENDS MovieEscrow, RiskCheck, FiniteSets

CONSTANTS
    Requests,       \* POST /api/batch/trigger, each sent at most once
    Batch,          \* store.screenings, in order
    AgentRule,      \* the rates and the wallets of the gateway's configuration
    AgentWallets,
    TicketPrices,   \* amounts deposited and refunded
    ShareAmounts,   \* amounts claimed, and frozen by hand
    MaxCrashes      \* bound on the restarts of the server

NoResult == <<>>
RoleOrder == <<"Theater", "Distributor", "Producer", "Investor">>  \* ROLE_INDEX
Screenings == {Batch[i] : i \in 1 .. Len(Batch)}

ASSUME AgentAssumption ==
    /\ Batch # <<>> /\ Batch \in Seq(DOMAIN Log)
    /\ AgentRule \in Rules
    /\ AgentWallets \in WalletAssignments
    /\ TicketPrices \subseteq U64
    /\ ShareAmounts \subseteq U64
    /\ MaxCrashes \in Nat

\* fixtures/screenings.ts: no screening occurs twice in the batch.
ASSUME BatchAssumption ==
    \A i, j \in 1 .. Len(Batch) : Batch[i] = Batch[j] => i = j

VARIABLES
    \* AgentStore
    runState, batchResult,
    \* a request: where it is, its history summary, the screening it works on,
    \* the verdicts so far, the claimables read before the settlement, the
    \* role it freezes next, the transaction it waits for
    pc, isNew, at, outcomes, before, roleAt, awaiting,
    \* the network: transactions sent, and those that landed while awaited
    mempool, landed,
    \* history: restarts, settlements of each screening since the last reset,
    \* what a request's suspicious screenings were credited and had frozen, what
    \* others had cut from a share between the two reads of its claimable
    crashes, settledTimes, suspectCredit, frozenBy, cutUnder

storeVars   == <<runState, batchResult>>
requestVars == <<pc, isNew, at, outcomes, before, roleAt, awaiting>>
historyVars == <<settledTimes, suspectCredit, frozenBy, cutUnder>>
agentVars   == <<storeVars, requestVars, mempool, landed, crashes, historyVars>>

NoTx == [from |-> "none", screening |-> 0, op |-> "none", role |-> "none", amount |-> 0]
NoCredit == [role \in Roles |-> 0]

AgentInit ==
    /\ Init
    /\ runState = "idle" /\ batchResult = NoResult
    /\ pc = [r \in Requests |-> "unsent"]
    /\ isNew = [r \in Requests |-> TRUE]
    /\ at = [r \in Requests |-> 1]
    /\ outcomes = [r \in Requests |-> <<>>]
    /\ before = [r \in Requests |-> NoCredit]
    /\ roleAt = [r \in Requests |-> 1]
    /\ awaiting = [r \in Requests |-> NoTx]
    /\ mempool = {} /\ landed = {}
    /\ crashes = 0
    /\ settledTimes = [s \in Screenings |-> 0]
    /\ suspectCredit = [r \in Requests |-> NoCredit]
    /\ frozenBy = [r \in Requests |-> NoCredit]
    /\ cutUnder = [r \in Requests |-> NoCredit]

InPipeline == {"history", "judge", "before", "verify", "settle", "mark", "await"}
Running(r) == pc[r] \in InPipeline
Answered == {"completed", "replayed", "conflict", "failed"}

Goto(r, label) == pc' = [pc EXCEPT ![r] = label]

(***************************************************************************)
(* verifyIntegrity and judgeSettlement, over the thresholds of the history *)
(* read when the batch began: the verdict on a screening.                  *)
(***************************************************************************)
Verdict(r, screening) == VerdictOf[isNew[r]][screening]

-----------------------------------------------------------------------------
(***************************************************************************)
(* POST /api/batch/trigger up to its first await: replay, refuse or begin. *)
(***************************************************************************)
MayBegin == runState # "running"

Trigger_NoReplay(r) ==
    /\ pc[r] = "unsent"
    /\ MayBegin
    /\ runState' = "running"
    /\ Goto(r, "history")
    /\ UNCHANGED <<batchResult, isNew, at, outcomes, before, roleAt, awaiting,
                   mempool, landed, crashes, historyVars, vars>>

Trigger(r) ==
    /\ pc[r] = "unsent"
    /\ \/ /\ batchResult # NoResult
          /\ Goto(r, "replayed")
          /\ UNCHANGED runState
       \/ /\ batchResult = NoResult /\ ~MayBegin
          /\ Goto(r, "conflict")
          /\ UNCHANGED runState
       \/ /\ batchResult = NoResult /\ MayBegin
          /\ runState' = "running"
          /\ Goto(r, "history")
    /\ UNCHANGED <<batchResult, isNew, at, outcomes, before, roleAt, awaiting,
                   mempool, landed, crashes, historyVars, vars>>

(***************************************************************************)
(* POST /api/batch/reset, refused while a batch runs.                      *)
(***************************************************************************)
MayReset_Unchecked == TRUE
MayReset == runState # "running"

Reset ==
    /\ MayReset
    /\ runState' = "idle"
    /\ batchResult' = NoResult
    /\ settledTimes' = [s \in Screenings |-> 0]
    /\ UNCHANGED <<requestVars, mempool, landed, crashes, suspectCredit, frozenBy, cutUnder, vars>>

-----------------------------------------------------------------------------
(***************************************************************************)
(* runSettlementBatch.  The history is read once, before the first         *)
(* screening: the batch counts of the escrows registered for the theatre.  *)
(***************************************************************************)
NothingSettled == ~(Exists /\ theater = AgentWallets["Theater"] /\ batch_count > 0)

FetchHistory(r) ==
    /\ pc[r] = "history"
    /\ isNew' = [isNew EXCEPT ![r] = NothingSettled]
    /\ Goto(r, "judge")
    /\ UNCHANGED <<storeVars, at, outcomes, before, roleAt, awaiting,
                   mempool, landed, crashes, historyVars, vars>>

Judge_RereadingHistory(r) ==
    /\ pc[r] = "judge"
    /\ isNew' = [isNew EXCEPT ![r] = NothingSettled]
    /\ LET verdict == VerdictOf[NothingSettled][Batch[at[r]]] IN
       /\ outcomes' = [outcomes EXCEPT ![r] = Append(@, verdict)]
       /\ Goto(r, IF verdict = "proceed" THEN "verify" ELSE "before")
    /\ UNCHANGED <<storeVars, at, before, roleAt, awaiting,
                   mempool, landed, crashes, historyVars, vars>>

Judge(r) ==
    /\ pc[r] = "judge"
    /\ LET verdict == Verdict(r, Batch[at[r]]) IN
       /\ outcomes' = [outcomes EXCEPT ![r] = Append(@, verdict)]
       /\ Goto(r, IF verdict = "proceed" THEN "verify" ELSE "before")
    /\ UNCHANGED <<storeVars, isNew, at, before, roleAt, awaiting,
                   mempool, landed, crashes, historyVars, vars>>

\* The end of a screening: the next one, or recordBatchRun after the last.
FinishScreening_SlotKept(r) ==
    IF at[r] < Len(Batch)
    THEN /\ at' = [at EXCEPT ![r] = @ + 1]
         /\ Goto(r, "judge")
         /\ UNCHANGED storeVars
    ELSE /\ batchResult' = outcomes[r]
         /\ Goto(r, "completed")
         /\ UNCHANGED <<at, runState>>
FinishScreening(r) ==
    IF at[r] < Len(Batch)
    THEN /\ at' = [at EXCEPT ![r] = @ + 1]
         /\ Goto(r, "judge")
         /\ UNCHANGED storeVars
    ELSE /\ batchResult' = outcomes[r]
         /\ runState' = "completed"
         /\ Goto(r, "completed")
         /\ UNCHANGED at

\* An exception anywhere in the pipeline ends the request; abortRun frees the slot.
StateAfterAbort_Kept == "running"
StateAfterAbort == IF batchResult # NoResult THEN "completed" ELSE "idle"

Fail(r) ==
    /\ Running(r)
    /\ runState' = StateAfterAbort
    /\ Goto(r, "failed")
    /\ awaiting' = [awaiting EXCEPT ![r] = NoTx]
    /\ landed' = landed \ {awaiting[r]}
    /\ UNCHANGED <<batchResult, isNew, at, outcomes, before, roleAt, mempool,
                   crashes, historyVars, vars>>

-----------------------------------------------------------------------------
(***************************************************************************)
(* AnchorChainGateway: a call is one transaction after another.            *)
(***************************************************************************)
Send(r, tx) ==
    /\ mempool' = mempool \cup {tx}
    /\ awaiting' = [awaiting EXCEPT ![r] = tx]
    /\ Goto(r, "await")

Tx(r, op, role, amount) ==
    [from |-> r, screening |-> at[r], op |-> op, role |-> role, amount |-> amount]

\* markDisputed: the four claimables before the settlement (one read here; the
\* code reads the accounts in parallel).
ReadBefore(r) ==
    /\ pc[r] = "before"
    /\ before' = [before EXCEPT ![r] = claimable]
    /\ Goto(r, "verify")
    /\ UNCHANGED <<storeVars, isNew, at, outcomes, roleAt, awaiting,
                   mempool, landed, crashes, historyVars, vars>>

\* ensureVerified, after settle has checked the amount.
EnsureVerified(r) ==
    /\ pc[r] = "verify"
    /\ NetAmount[Batch[at[r]]] > 0
    /\ Exists
    /\ IF state = "Pending"
       THEN Send(r, Tx(r, "verify", "none", 0))
       ELSE Goto(r, "settle") /\ UNCHANGED <<mempool, awaiting>>
    /\ UNCHANGED <<storeVars, isNew, at, outcomes, before, roleAt, landed, crashes,
                   historyVars, vars>>

SendSettle(r) ==
    /\ pc[r] = "settle"
    /\ Send(r, Tx(r, "settle", "none", NetAmount[Batch[at[r]]]))
    /\ UNCHANGED <<storeVars, isNew, at, outcomes, before, roleAt, landed, crashes,
                   historyVars, vars>>

\* markDisputed: freeze, role by role, what the claimable has grown by.
MarkRole(r) ==
    /\ pc[r] = "mark"
    /\ IF roleAt[r] > Len(RoleOrder)
       THEN /\ FinishScreening(r)
            /\ UNCHANGED <<roleAt, mempool, awaiting>>
       ELSE LET role  == RoleOrder[roleAt[r]]
                delta == claimable[role] - before[r][role]
            IN  /\ IF delta > 0
                   THEN Send(r, Tx(r, "mark", role, delta)) /\ UNCHANGED roleAt
                   ELSE /\ roleAt' = [roleAt EXCEPT ![r] = @ + 1]
                        /\ UNCHANGED <<pc, mempool, awaiting>>
                /\ UNCHANGED <<storeVars, at>>
    /\ UNCHANGED <<isNew, outcomes, before, landed, crashes, historyVars, vars>>

\* rpc() returns: what the request does next.
Confirmed_Unchecked(r) == awaiting[r] # NoTx
Confirmed(r) == awaiting[r] \in landed

AfterSettle_NoHold(r) == "proceed"
AfterSettle(r) == Verdict(r, Batch[at[r]])

Confirm(r) ==
    /\ pc[r] = "await"
    /\ Confirmed(r)
    /\ landed' = landed \ {awaiting[r]}
    /\ awaiting' = [awaiting EXCEPT ![r] = NoTx]
    /\ \/ /\ awaiting[r].op = "verify"
          /\ Goto(r, "settle")
          /\ UNCHANGED <<at, roleAt, storeVars>>
       \/ /\ awaiting[r].op = "settle" /\ AfterSettle(r) = "proceed"
          /\ FinishScreening(r)
          /\ UNCHANGED roleAt
       \/ /\ awaiting[r].op = "settle" /\ AfterSettle(r) = "partial-hold"
          /\ roleAt' = [roleAt EXCEPT ![r] = 1]
          /\ Goto(r, "mark")
          /\ UNCHANGED <<at, storeVars>>
       \/ /\ awaiting[r].op = "mark"
          /\ roleAt' = [roleAt EXCEPT ![r] = @ + 1]
          /\ Goto(r, "mark")
          /\ UNCHANGED <<at, storeVars>>
    /\ UNCHANGED <<isNew, outcomes, before, mempool, crashes, historyVars, vars>>

-----------------------------------------------------------------------------
(***************************************************************************)
(* The network.  A transaction the program rejects is lost, too.           *)
(***************************************************************************)
Execute(tx) ==
    \/ /\ tx.op = "verify"
       /\ VerifyEscrow
       /\ UNCHANGED historyVars
    \/ /\ tx.op = "settle"
       /\ SettleBatch(tx.amount, AgentRule, AgentWallets)
       /\ settledTimes' = [settledTimes EXCEPT ![Batch[tx.screening]] = @ + 1]
       /\ suspectCredit' =
             IF Verdict(tx.from, Batch[tx.screening]) = "proceed" THEN suspectCredit
             ELSE [suspectCredit EXCEPT ![tx.from] =
                      [role \in Roles |-> @[role] + claimable'[role] - claimable[role]]]
       /\ UNCHANGED <<frozenBy, cutUnder>>
    \/ /\ tx.op = "mark"
       /\ MarkDisputed(tx.role, tx.amount)
       /\ frozenBy' = [frozenBy EXCEPT ![tx.from][tx.role] = @ + tx.amount]
       /\ UNCHANGED <<settledTimes, suspectCredit, cutUnder>>

Land(tx) ==
    /\ Execute(tx)
    /\ mempool' = mempool \ {tx}
    /\ landed' = IF awaiting[tx.from] = tx THEN landed \cup {tx} ELSE landed
    /\ UNCHANGED <<storeVars, requestVars, crashes>>

Lose(tx) ==
    /\ mempool' = mempool \ {tx}
    /\ UNCHANGED <<storeVars, requestVars, landed, crashes, historyVars, vars>>

Network == \E tx \in mempool : Land(tx) \/ Lose(tx)

(***************************************************************************)
(* The server dies and comes back: the store was in memory, and the        *)
(* requests it was serving are gone.                                       *)
(***************************************************************************)
Crash ==
    /\ crashes < MaxCrashes
    /\ crashes' = crashes + 1
    /\ runState' = "idle" /\ batchResult' = NoResult
    /\ pc' = [r \in Requests |-> IF Running(r) THEN "lost" ELSE pc[r]]
    /\ awaiting' = [r \in Requests |-> NoTx]
    /\ landed' = {}
    /\ UNCHANGED <<isNew, at, outcomes, before, roleAt, mempool, historyVars, vars>>

-----------------------------------------------------------------------------
(***************************************************************************)
(* Everybody else who uses the escrow: its registration, the audience, the *)
(* right holders, holds made by hand and the resolution of disputes either *)
(* way (scripts/demo-claim.ts; resolve_dispute.rs).  Only settle_batch and *)
(* verify_escrow of an escrow the agent serves are left to its gateway.    *)
(***************************************************************************)
UseEscrow ==
    \/ \E theaterKey \in Wallets, rule \in Rules, version \in Versions,
          mgAmount \in MgAmounts, investmentAmount \in InvestmentAmounts :
          InitEscrow(theaterKey, rule, version, mgAmount, investmentAmount)
    \/ \E price \in TicketPrices : Deposit(price) \/ RefundPending(price)
    \/ \E role \in Roles, amount \in ShareAmounts :
          Claim(role, amount) \/ MarkDisputed(role, amount)
    \/ \E role \in Roles : ResolveDispute(role, TRUE)

\* Between the two reads of a role's claimable by markDisputed: the first is
\* made before the settlement, the second when the role's turn comes.
ReadsAgain(r, role) ==
    /\ Running(r)
    /\ Verdict(r, Batch[at[r]]) # "proceed"
    /\ \/ pc[r] \in {"verify", "settle"}
       \/ pc[r] = "await" /\ awaiting[r].op \in {"verify", "settle"}
       \/ pc[r] = "mark" /\ \E k \in roleAt[r] .. Len(RoleOrder) : RoleOrder[k] = role
       \/ /\ pc[r] = "await" /\ awaiting[r].op = "mark"
          /\ \E k \in roleAt[r] + 1 .. Len(RoleOrder) : RoleOrder[k] = role

RejectHold(role) ==
    /\ ResolveDispute(role, FALSE)
    /\ cutUnder' = [r \in Requests |->
           IF ReadsAgain(r, role) THEN [cutUnder[r] EXCEPT ![role] = @ + held[role]]
           ELSE cutUnder[r]]
    /\ UNCHANGED <<storeVars, requestVars, mempool, landed, crashes,
                   settledTimes, suspectCredit, frozenBy>>

Others ==
    \/ UseEscrow /\ UNCHANGED agentVars
    \/ \E role \in Roles : RejectHold(role)

Pipeline(r) ==
    \/ FetchHistory(r) \/ Judge(r) \/ ReadBefore(r) \/ EnsureVerified(r)
    \/ SendSettle(r) \/ MarkRole(r) \/ Confirm(r) \/ Fail(r)

AgentNext ==
    \/ \E r \in Requests : Trigger(r) \/ Pipeline(r)
    \/ Reset \/ Crash \/ Network \/ Others

systemVars == <<vars, agentVars>>

AgentSpec == AgentInit /\ [][AgentNext]_systemVars

\* A request that waits does not wait for ever: a call to the RPC node returns
\* or throws, and rpc() gives up on a transaction not confirmed in time.
FairAgentSpec == AgentSpec /\ \A r \in Requests : WF_systemVars(Pipeline(r))

-----------------------------------------------------------------------------
(***************************************************************************)
(* Properties.                                                             *)
(***************************************************************************)

\* The state of the store, of the requests and of the network is well formed.
AgentTypeOK ==
    /\ runState \in {"idle", "running", "completed"}
    /\ batchResult \in {NoResult} \cup [1 .. Len(Batch) -> {"proceed", "partial-hold"}]
    /\ runState = "completed" <=> batchResult # NoResult
    /\ pc \in [Requests -> {"unsent", "lost"} \cup InPipeline \cup Answered]
    /\ \A r \in Requests :
          /\ at[r] \in 1 .. Len(Batch) /\ Len(outcomes[r]) \in 0 .. at[r]
          /\ before[r] \in [Roles -> U64]
          /\ roleAt[r] \in 1 .. Len(RoleOrder) + 1
          /\ (awaiting[r] = NoTx) <=> (pc[r] # "await")
    /\ landed \subseteq {awaiting[r] : r \in Requests}

\* store.ts, tryBeginRun: two requests never run the pipeline at once, and the
\* slot is taken exactly while one does; whatever requests, resets, failures
\* and restarts happen in between.
OneRunAtATime ==
    /\ \A r1, r2 \in Requests : Running(r1) /\ Running(r2) => r1 = r2
    /\ (runState = "running") <=> (\E r \in Requests : Running(r))

RunSlot == INSTANCE BatchSlot WITH
    Runs    <- Requests,
    slot    <- runState,
    result  <- batchResult,
    running <- {r \in Requests : Running(r)}

\* batch.ts and store.ts: every step of the agent, of its network and of the
\* others is a step of the batch slot, or nothing it can see.  Whatever requests,
\* resets, failures and restarts come between two awaits, no run begins beside
\* another or over a result, none ends but by its own end or a restart, and the
\* result comes from a run that ends and goes by a reset or a restart only.
KeepsTheSlot == RunSlot!SlotSpec

\* A result is recorded, and replayed to later requests, only if every
\* screening of the batch has been settled on chain.
CompletedMeansSettled ==
    batchResult # NoResult => \A s \in Screenings : settledTimes[s] >= 1

\* A screening is settled again only because a run failed or the server
\* restarted: concurrent requests, replays and resets never cause it.
Failures == crashes + Cardinality({r \in Requests : pc[r] = "failed"})
RepeatsAreFailures ==
    \A s \in Screenings : settledTimes[s] <= 1 + Failures

\* anchor-gateway.ts, markDisputed: when a request has been answered with its
\* own result, all that its suspicious screenings credited, to each right holder,
\* has been frozen, whatever was claimed, frozen or resolved in between; but for
\* what a rejection cut from the same share between the two reads of claimable,
\* whose difference is what is frozen.
CompletedMeansHeld ==
    \A r \in Requests : pc[r] = "completed" =>
        \A role \in Roles :
            frozenBy[r][role] + cutUnder[r][role] >= suspectCredit[r][role]

\* pipeline.ts reads the history once, before the loop: a screening that only the
\* thresholds of a known theatre let pass is passed only if an earlier run had
\* settled something, and never on the strength of this run's own settlements.
LenientOnlyWhenKnown ==
    (\E i \in DOMAIN batchResult :
        batchResult[i] = "proceed" /\ VerdictOf[TRUE][Batch[i]] # "proceed")
    => batch_count > Len(Batch)

\* batch.ts, catch: the slot is always released, or later requests would be
\* refused for ever.
SlotIsReleased == (runState = "running") ~> (runState # "running")

\* batch.ts, header: the same batch must not be executed twice (a reset starts
\* a new one).
NoBatchSettledTwice == \A s \in Screenings : settledTimes[s] <= 1

\* anchor-gateway.ts, markDisputed: after the settlement of a suspicious
\* screening all that each right holder gained by it is frozen.
SuspectSharesAreHeld ==
    \A r \in Requests : ~Running(r) =>
        \A role \in Roles : frozenBy[r][role] >= suspectCredit[r][role]

\* anchor-gateway.ts, markDisputed: what is frozen is what this screening added.
OnlySuspectSharesAreHeld ==
    \A r \in Requests, role \in Roles : frozenBy[r][role] <= suspectCredit[r][role]
=============================================================================
