# Verification of the film-settlement system

TLA+ models of the escrow program, of the settlement agent that drives it and of
the web pages around them; TLC configurations that check them on small
instances; and proofs, checked by TLAPS, of their safety properties for every
value of the parameters. Paths are relative to the root of the repository.

## 1. The system

Cinema takings are paid in USDC into an escrow account on Solana, one per film.
An agent verifies each screening and divides its takings between theatre,
distributor, producer and investor, or freezes a suspicious screening's shares;
the right holders then withdraw. What divides the takings is a rule that was read
from the distribution contract, approved by both parties and registered by its hash.

| Component | State | Operations | Interacts with |
|---|---|---|---|
| On-chain program `programs/movie_escrow` | `MovieEscrow` account (state machine, five envelopes, counters, outstanding MG and investment, rule hash), four `Allocation` accounts, token vault | `init_escrow`, `deposit`, `refund_pending`, `verify_escrow`, `settle_batch`, `claim`, `mark_disputed`, `resolve_dispute` | instructions from everybody below |
| Interface `packages/schema/idl` | none | accounts of each instruction, accounts and events as clients read them | compiled into every client |
| Agent `apps/agent`: routes, store, pipeline | run slot (`idle`/`running`/`completed`), last result, all in memory | `POST /api/batch/trigger`, `POST /api/batch/reset` | gateway; dashboard through the web server |
| Agent: `AnchorChainGateway` | none; reads accounts, sends transactions | `settleBatch`, `markDisputed`, `fetchTheaterHistory` | RPC node, program |
| Agent: risk check, judge | none | thresholds, three checks, verdict, narrative | pipeline |
| Web: `PurchasePage` | React state of a payment | connect, choose, pay, refund | wallet, program (`deposit`, `refund_pending`) |
| Web: `BackofficePage` | extracted rule, approvals, rule hash, registration | choose a file, extract, approve, connect, register | web server, wallet, program (`init_escrow`) |
| Web: `DashboardPage` and server proxy | last batch result of each page | trigger, reset | agent |
| `packages/ai-data`, `tools`, `scripts`, `legacy` | none that the above depends on at run time | external clients, operator scripts, prototypes | |

What is hard about it:

* **Concurrency.** Instructions of the audience, the right holders and the agent
  interleave freely on chain. In the agent, requests interleave at every
  `await`. In the pages, handlers overlap with each other and with renders.
* **Failure.** `rpc()` can throw although its transaction has landed, or before
  it lands. A call of the gateway is several transactions; any of them may be
  the last one. The agent's store does not survive a restart. The proxy answers
  502 whatever the agent does with the request.
* **Ordering.** Settle before freeze; MG before investment before profit;
  verification before settlement; holds and their resolution around claims;
  answers that overtake each other; a hash that arrives for a rule already replaced.
* **Arithmetic.** Unsigned integers with checked operations, rates in basis
  points, one rounding up and several down.

What makes it correct: the program's ledger balances, every aggregate is backed
by the accounts it summarises, money leaves by claim or refund only, every share
every hold and all pending money can be dealt with, only the registered rule divides; the agent
runs one batch at a time, records a result only for a settled batch, freezes what
is suspicious, and never locks itself out; the pages show what has happened, wait
for nothing that has ended, and register only what was approved. `PROJECT.json`
lists the hazards at their lines, with the properties that guard against them.

## 2. Modules

| Module | Content |
|---|---|
| `Waterfall` | the arithmetic of `settle_batch` as operators: `Split` and the deductions it is made of, `Credit`, `Tax` |
| `MCWaterfall` | seasons of screenings at the real rates, and the properties of the arithmetic |
| `MovieEscrow` | the program: one action per instruction, its ledger properties |
| `EscrowLedger` | abstract: money waits, is returned, divided, drawn, frozen, released, forfeited |
| `MovieEscrowRefinement` | the mapping from the program to `EscrowLedger` |
| `EscrowInterface` | the IDL: writable accounts per instruction, the seven events, and an observer who reads only events; composed with `MovieEscrow` |
| `RiskCheck` | thresholds, the three checks over a ticket log, the verdict, the net amount |
| `BatchSlot` | abstract: the agent's one run slot, with no requests, screenings or transactions |
| `SettlementAgent` | the agent over the program and the risk check: routes, store, pipeline, gateway, network, restarts |
| `PurchasePage` | the ticket page in one browser tab |
| `Backoffice` | the contract page, from the file to the escrow account |
| `Dashboard` | the settlement panel of several pages, the proxy, the agent's routes as the panel can tell them |
| `MCMovieEscrow`, `MCEscrowInterface`, `MCSettlementAgent`, `MCPurchasePage`, `MCBackoffice` | instances for TLC (`Dashboard` needs none) |
| `WaterfallProofs`, `SeasonProofs`, `MovieEscrowProofs`, `EscrowInterfaceProofs`, `SettlementAgentProofs`, `PurchasePageProofs`, `BackofficeProofs`, `DashboardProofs` | the theorems of section 4 |

An operator `Name_Variant` is a deliberately wrong variant of the definition that
follows it, in the way a bug in that code would be wrong. No specification uses
one; put in the place of the definition, it makes TLC violate the property that
`PROJECT.json` lists with it.

### Correspondence with the code

*`MovieEscrow`.* The variables are the fields of `MovieEscrow` and `Allocation`
(`state.rs`), with `held` for `Allocation.disputed` and functions over the roles
for the four accounts, and `vault` for the balance of the token account. An
instruction is a transaction, so it is one action; each `require!`, `checked_*`
and failing transfer is a guard, because an instruction that fails changes
nothing. `has_one = authority` is built in: the actions of the agent are those of
the stored authority. A rule is a record of the version and the four rates in the
preimage of `rule_hash`; hashing is taken to be injective, so a hash is the
record itself. `clawed_back` is a history variable: the sum of rejected holds,
which the program adds to `refunded`. `Paid`, which the code declares and never
assigns, is in `EscrowState` only. Movie ids, PDAs, bumps, timestamps and
token accounts are left out; free tickets are deposits of 0. The denominators of
the waterfall and the maxima of u64 and u32 are constants.

*`EscrowInterface`.* Each step of the program is taken together with the event its
instruction emits. `view` is what a reader of the events alone can keep. The
interface declares which accounts an instruction may write; the runtime aborts
one that writes another, so the model checks that none does (`WritesAreDeclared`).

*`RiskCheck`.* A log is a sequence of issue and refund events with amounts. Rates
are compared in percent; the one place where doubles matter, the tightened bound
of 0.1 × 0.7, which lies below 0.07, is a bound that excludes 7% itself.

*`SettlementAgent`.* Node runs one callback at a time, so each stretch of code
between two awaits is one action, and `pc[r]` says at which await request `r`
is. `runState` and `batchResult` are the fields of `AgentStore`. A transaction
sent by `rpc()` is put in `mempool`; `Land` executes the instruction of
`MovieEscrow`, `Lose` drops it; `Confirm` is `rpc()` returning, and `Fail` any
exception, which may come while the transaction is still on its way: Anchor's
provider gives up after a time in which the cluster may not yet have executed it.
`Crash` is a restart of the process: store and requests are gone, the network is
not. The verdict is that of `RiskCheck` over the history read when the batch began.
The claimables that `markDisputed` reads in parallel are read in one step. The
history is that of one film. `Others` is the rest of the world, between any two
awaits: registration, tickets, claims, holds made by hand, which
`scripts/demo-claim.ts` makes and releases, and the resolution of holds either way,
which the program allows. Only `settle_batch` and `verify_escrow` are left to the
gateway. History variables count settlements per screening since the last reset, and
what each request's suspicious screenings were credited and had frozen. `cutUnder`
is what rejections took off a share between the two reads of `markDisputed`: the
difference that it freezes is less by as much, and so is what it can promise.

*`PurchasePage`.* A handler is two steps: the click up to its await (`Begin`), with
what it captured in the record of the call, and its end (`Succeed`, `Fail`). Any
button that is not disabled in the page as rendered can be pressed in between. A
transaction lands at any time after it was sent, seen or not. Leaving the page
mounts it anew; handlers of an earlier visit run on and change nothing on screen.
Of the escrow only "landed or not" is here: `refund_pending` takes whatever is
pending, whoever paid it. `slips` is a history variable that names what went
wrong: `astray`, a confirmation lost or the wallet connected over a payment;
`moved`, another showtime chosen over a receipt; `left`, the page left in the middle.
`ChargedOnce` and `RefundsArePaid` hold unless one of these happened; `PROJECT.json`
lists the lines at which the slips bite as hazards that no property covers.

*`Backoffice`.* React applies setters when it renders, so the state has two copies:
`rule`, with all queued updates, and `shown`, as rendered. Buttons and the closures
of handlers see `shown`, functional updates apply to `rule`; the effect that starts
the hash, and its cleanup, belong to `Render`. A reading is what Gemini may answer;
`Rates` does what `adaptExtraction` and `hash.ts` do with it, the first region and
the first step of each kind, rounded to basis points, 0 for what is missing. The
`movieId` is cut from the hash of the file, so it stands for the file. `init_escrow`
succeeds once per film; `SeedRegisters` is the operators' script doing it first.
`torn` records that a callback ran between a new rule and its render.

*`Dashboard`.* A page is a tab of some viewer. A request may be forwarded, wait, be
served in any order, and be answered by the agent or, when the proxy gives up, by
a 502 of the proxy, whatever the agent does with it. The agent is a slot, a result
and a run that completes or fails, as in `SettlementAgent`, whose transactions the
panel cannot see. That it keeps the slot as the agent does is stated by a third module.

*`BatchSlot`.* What `batch.ts` and `store.ts` promise together: a run begins over no
run and no result; it ends in a result or gives the slot back; a reset forgets the
result between runs; a restart forgets everything. `SettlementAgent` (`KeepsTheSlot`)
and `Dashboard` (`AgentKeepsTheSlot`) both implement it, the first by its requests in
the pipeline, the second by its runner.

## 3. Runs

| Run | Question | Bounds |
|---|---|---|
| `Waterfall` | Is the division exact, sound, rounded as the header of `settle_batch.rs` says, in rank order, monotone? How much does cutting the same takings into two screenings move anybody? | real rates; 6 rules with extreme, usual and odd rates; 51 grosses, among them every one to 40; 4 × 4 outstanding amounts; seasons of 2, so that the second screening meets what the first one left. Every end of the four windows of `SettlementDrift` is reached |
| `MovieEscrow` | Do the ledger invariants, the rank order, the rules about shares and the vault, and the abstract ledger hold over every order of instructions? | width 7 for u64, 3 for the counters: overflow of each is met; denominators 5, 4 and 3, so that levy, VAT, split, fee and profit are all non-zero on 2 to 7 units; MG and investment 0 or 1; all amounts up to the width |
| `Registration` | With bad rules and wallets offered, is every credit that of the registered rule? Can pending money always be refunded and, under a usable rule, settled? Do the events alone tell the ledger, and is every written account declared writable? | 5 rules: one usable, one of a version never stored, one split over, one fee over and one profit over 100%, each registered and each passed; 3 assignments of wallets; width 4, counters up to 2 |
| `SettlementAgent` | Do concurrent requests, resets, a restart and an unreliable network keep the agent's promises, the batch slot (`KeepsTheSlot`) first? | 2 requests, 1 restart, a batch of 2 screenings of which the second is suspicious in a new theatre only; deposits up to 3 tickets, so a screening can be settled twice; others claim and freeze by hand 12 at a time, one ticket's price, which a share of two settlements adds up to; holds from earlier requests or by hand are rejected between the two reads |
| `PurchasePage` | Are receipts real, spinners backed, purchases charged once and refunds paid for, but for the named slips? | 2 presses of each button, 2 visits, 2 showtimes, 2 tickets: one handler against the next, over a receipt of either showtime |
| `Backoffice` | Is what is registered read from that contract and approved on screen? Does every approved rule get its hash? | 2 contracts with 3 readings (one with conflicts and a rounded share, one empty), 2 extractions, 2 registrations, the wallet, another address and text that is none |
| `Dashboard` | Is a fresh result one's own, does nothing complete unasked, is every click answered? | 2 pages, 4 requests, 1 restart: trigger, reset and trigger of one page against the other's |
| `SettlesOnlyWhenVerified` | *violated*: does `settle_batch` accept only `Verified`, as `verify_escrow.rs` says? | one rule, width 4 |
| `TheaterIsTheBeneficiary` | *violated*: is the registered theatre the one that is paid, as `state.rs` says? | two wallets |
| `NoBatchSettledTwice` | *violated*: is a batch executed at most once, as `batch.ts` says? | one screening, 2 requests, no restart |
| `SuspectSharesAreHeld` | *violated*: is all of a suspicious screening's share frozen, as `anchor-gateway.ts` says? | one request, one screening |
| `OnlySuspectSharesAreHeld` | *violated*: and only that? | 2 requests, 2 screenings |

Why the bounds are enough. The program has one account of each role and no
loops, so what matters is that every guard is met on both sides and that amounts
are large enough for a split with all parts non-zero and a remainder; width 7
gives that, and the invariants are proved for all widths. In the agent, a second
request is the one that finds the slot taken, the result recorded or the failure
of the first; a third adds no new kind of meeting. The five kinds of transaction
outcome (landed and seen, landed and not seen, landed late, rejected, lost) all
occur with two requests. In the pages, a handler can only be overlapped by a later
call of its own kind or of another one, and each of these pairs occurs with two
presses; in the back office, a second extraction is what replaces a rule under the
hands of approvals, hashes and registrations of the first.

The deadlock check is off everywhere: an escrow whose money is claimed, an agent
without requests and a page nobody uses may rest.

What the violated runs show. `SettlesOnlyWhenVerified`: the guard was widened to
`Allocated` and `Disputed` (its own comment says so), and the header of
`verify_escrow.rs` was not; the trace is one deposit, one verification and two
settlements of a part each, the second in `Allocated`. What is deposited after the
verification can be settled likewise. `TheaterIsTheBeneficiary`: no instruction compares `escrow.theater`
with the wallet bound to the Theater Allocation. `NoBatchSettledTwice`: `abortRun`
forgets what was settled; the trace is a settlement that lands after `rpc()` gave
up, and a retry. The escrow cannot tell, because the screening id is not stored
on chain; the second settlement takes the money of other screenings.
`SuspectSharesAreHeld`: the settlement lands, the request fails, and the shares
stay claimable. `OnlySuspectSharesAreHeld`: the settlement of a failed run lands
between the two reads of the next run's `markDisputed` and is frozen with it.
What the agent does guarantee is in the passing run: each repeated settlement is
paid for by a failure or a restart (`RepeatsAreFailures`), a request that is
answered with its own result has settled everything and frozen all of what is
suspicious, but for what a rejection cut from the same share meanwhile
(`CompletedMeansSettled`, `CompletedMeansHeld`), and a screening passes
on the thresholds of a known theatre only if the history is older than the run
(`LenientOnlyWhenKnown`).

### Fairness

* `SettlementAgent`: weak fairness of the steps of each request that is in the
  pipeline (`Pipeline(r)`, failure included). An awaited call returns or throws:
  RPC reads end with the connection, and `rpc()` gives up on a transaction that is
  not confirmed in time. Nothing is assumed of the network, the users or further
  requests. `SlotIsReleased` follows: the slot is never taken for ever.
* `Backoffice`: weak fairness of `Render` and `HashArrives`, both inside the
  browser. Nothing is assumed of people, Gemini, the wallet or the cluster.
  `ApprovedGetsHash` follows.
* `Dashboard`: weak fairness of serving requests, of the end of a run (which is
  `SlotIsReleased` of `SettlementAgent`), of the proxy noticing that a connection
  is gone, and of answers arriving. `fetch` has no timeout of its own here, and
  none is assumed; nor that anybody clicks. `SpinnerEnds` follows.
* `PurchasePage` has no liveness property: a wallet may leave its prompt open for
  ever. What is shown instead is that a spinner always has a call behind it.

## 4. Proofs

`WaterfallProofs`: for every rate allowed by `RatesAssumption`, accepted rule and
amount, if the fee fits, the parts of `Split` are natural numbers that add up to
the gross and recoup no more than is outstanding (`WaterfallIsExactAndSound`); a fee
rate up to 100% always fits (`FeeAlwaysFits`). The lemmas bound each deduction by
the amount it is taken from.

`SeasonProofs`: seasons of any length. What is outstanding stays a natural number,
so the theorems above apply to every settlement (`SeasonIsExact`,
`SeasonLevyIsNearest`). A deduction at a rate of at most 100% takes from a larger
amount at least as much and leaves at least as much, and so does a recoupment;
applied deduction by deduction, more takings never lower a credit
(`MoreGrossMoreCredit`, and its instance `SeasonRewardsSales`). Two roundings differ
from the rounding of the sum by at most one unit; followed through the waterfall
this bounds what cutting takings into two screenings can move, per role
(`DriftIsBounded`). The second screening of a season finds what the first one left
(`CarriedOver`), so the bound is one of the season too (`SeasonDriftsLittle`). The
run reaches both ends of each of the four windows of `Drift` at the rates of the
code: no narrower ones hold.

`MovieEscrowProofs`: `Inductive` is an invariant of `Spec` for all constants that
satisfy `EscrowAssumption` (`AlwaysInductive`). No single invariant is inductive.
That `claim` keeps `allocated` unsigned needs `EnvelopesAreBacked`; that a rejected
hold leaves the vault accounted for needs `VaultAccounted` with `clawed_back`; that
the width of `paid_out` and `refunded` is never exceeded needs `Conservation` and the
fact that the parts it adds are not negative (`TaxesWithheld >= 0`, `clawed_back <=
refunded`); that `settle_batch` divides money needs `WaterfallIsExactAndSound`, for
which the stored rule must be one of `Rules`. The proof has one lemma per
instruction, over lemmas about `Total` (its value after one role changes, its sums
and bounds). From it follow `TypeCorrect`, `LedgerBalances`, `EnvelopesBacked`,
`VaultIsAccounted`, `StateTellsTheLedger`, and that nothing is stuck: every free
share can be claimed in full (`SharesArePayable`) and every hold can be resolved
either way (`HoldsAreResolvable`), in every reachable state. The action properties
need the invariant in the state before the step: the rank order (`RanksAreKept`),
shares (`SharesAreKept`) and the vault (`VaultIsGuarded`). `PendingNeverSticks`: any
part of what is pending can be refunded and, in the states in which `settle_batch`
runs, while its counter is not full and if the registered rule is usable, settled
under that rule; `RuleIsEnforced`: whatever rates the caller passes, what a settlement
credits, withholds and recoups is what the registered rule makes of the amount. Both
rest on the invariant and on the waterfall. Last, the initial
states of the program map to those of `EscrowLedger` and each instruction to one
of its steps or to a stutter (`ProgramImplementsLedger`).

`EscrowInterfaceProofs`: a step with its event is a step of the program, so every
invariant above holds here too. `InstructionsDeclareTheirWrites` follows instruction
by instruction. For `EventsAreEnough` the invariant of the observer (`ObserverKnows`)
says, for each of the three things kept per wallet, that what was seen is what the
accounts hold, summed over the accounts bound to that wallet (`Booked`). A
settlement can credit an account before any wallet is bound to it; the invariant
keeps such amounts aside, with nobody, until the binding is told. Three lemmas say
that booking more, binding a wallet and reading the sum respect `Booked`, and each
event is one of these.

`SettlementAgentProofs`: for a batch of any length, any requests, restarts and
transaction outcomes. Others may use every instruction but `settle_batch` and
`verify_escrow`, with any amounts, rules and wallets (`TicketPrices` and
`ShareAmounts` may be all of the width). `RunsAreAlone` and `ResultsAreSettled` need
two links: what has landed and is not yet confirmed belongs to the request that
waits for it, so no reset can come between (`Deliveries`); and what the code of the
running request has passed has been settled (`Progress`). To these
`AgentAlwaysInvariant` adds four parts.

* `Books`: a transaction on its way is awaited, or was left behind by a request that
  is over, and what the requests hold is well formed and in its place. It gives
  `AgentTypeCorrect`, and that every step of the system is a step of the program
  (`AgentDrivesTheEscrow`): all theorems about the escrow hold of the one the agent
  drives.
* `Judged`: by which history the verdicts on record were reached (`LeniencyIsEarned`).
* `Holds`: what each role has still to have frozen, at every point between the
  settlement of a suspicious screening and the confirmation of its last
  `mark_disputed` (`CompletedIsHeld`). Others only add to a share or leave it, but for
  a rejection, which takes as much off what will be frozen as it adds to `cutUnder`.
* `Counted`: the settlements of a screening, and those left behind that may still
  land, are together at most the failures so far, and one more once the running
  request has settled it or a result is recorded (`OnlyFailuresRepeat`). Counting
  only what has landed is not inductive: what was left behind lands without a failure.

That the agent implements `BatchSlot` (`SlotIsKept`) rests on `Slot`: the runs of the
abstract slot are the requests in the pipeline, a trigger that finds the slot free
begins one, and the last screening, or a failure anywhere in the pipeline, ends it.
That a net amount is an integer, which the program's guards need, is a lemma about
the fold over a log of any length (`NetAmountsAreIntegers`).

`PurchasePageProofs`: `ReceiptsAreReal`, `SpinnersHaveCalls` and the types, over the
facts that a refund is asked for only over a receipt and that calls of an earlier
visit stay earlier. `NobodyIsChargedTwice` counts: while nothing has gone astray at
most one handler waits, and the page shows which (`OneAtATime`); so deposits equal
refunds, and one more while a payment stands, which it does from the landing of
the deposit, before the page knows, to the landing of the refund (`Balanced`).
`RefundsAreAlwaysPaid` counts seats instead. Until a refund lands, its seats are in
one of three places: on the receipt, in a deposit that has landed under a handler
that is still to put them there, or in the refund that waits. `Covered` adds these
to the refunds that landed and compares the sum with the deposits of the screening;
it needs `HandlersFit`, that a handler on screen finds the page as it left it, which
is what fails when a wallet is connected over a payment.

Both sums, over sets of transactions and over logs, are folds of the community
modules. The library's induction over finite sets takes an operator as a parameter,
so the proofs argue by a smallest counterexample: strict inclusion is well founded on
the subsets of a finite set (`SmallestSet`, `SmallestPart`). By it the function that
the fold chooses exists and agrees with the one chosen for any smaller set, and a sum
does not depend on the order in which the elements are taken out.

`BackofficeProofs`: for any contracts, readings and numbers of extractions,
`OnlyApprovedIsRegistered`, the end of a chain that the header of the module
describes; also `ConflictsAlwaysBlock`, `ConfirmedIsOnChain` and the types.
Its assumption on readings is their shape (`ReadingType`) only.
`DashboardProofs`: `FreshIsMine`, `NoUnaskedCompletion` and the types; a result is
true on the page because it was true of the answer. `DashboardKeepsTheSlot`: what the
panel takes the agent to be implements `BatchSlot`, as the agent itself does
(`SlotIsKept`), for any number of pages, requests and restarts. No run of `Dashboard`
checks `AgentKeepsTheSlot`, which is only proved.

The proofs assume the named assumptions of the modules and nothing else; TLC
evaluates each of them in the runs. Most give the constants their types. Those with
content: `BatchAssumption`, no screening occurs twice in the batch, as in
`fixtures/screenings.ts` (`OnlyFailuresRepeat` is false otherwise);
`SeasonAssumption`, the rules of a season are accepted ones with a fee of at most
100%.

Only model-checked: the liveness properties `SlotIsReleased`, `ApprovedGetsHash` and
`SpinnerEnds`, which need fairness and ENABLED, beyond TLAPS. Every other property of
the passing runs is a theorem.

## 5. Not modelled

* The hash chain of ticket events: pure hashing that the pipeline does not call.
  Hashes elsewhere are taken to be injective.
* The stub gateway and the choice of a gateway: a list that never fails, and one
  read of the environment at start.
* `ai-data` (Gemini, KOBIS, narratives): single external calls without state; what
  Gemini may answer is an input of `Backoffice`, and a narrative is only text.
* Login: checks a password and signs a token, keeps no state. Of the extraction
  endpoint, what the page sees.
* Of the operators' tools, key files and printing; of `scripts/demo-claim.ts`, all
  but its effects on chain. The x402 prototypes, which nothing runs.
* The dashboard's snapshot, which is derived from the agent's store and the
  escrow; layout and wording of the pages.
* Signature checks are taken from Solana: an action of the authority or of a
  beneficiary is by its holder.

## 6. Plan

Done: all modules and proofs above; every safety property that a passing run checks
is proved. What would add most from here:

1. `Dashboard` over `SettlementAgent` with its answers: `BatchSlot` relates the slot
   and the result of the two, not what each request is told.
2. An abstract history of payments, deposits and refunds per buyer, that
   `PurchasePage` and the pending money of `MovieEscrow` both implement: today the
   two meet only in the amounts that `Others` deposits and refunds.
3. The hazards without a property in `PROJECT.json`, such as the roundings of `hash.ts` and
   `risk-check`, and the failed promise that the proxy keeps.
