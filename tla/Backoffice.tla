----------------------------- MODULE Backoffice -----------------------------
(***************************************************************************)
(* The contract back office (apps/web, BackofficePage.tsx): a contract is  *)
(* read by Gemini, both parties approve the rule, its hash is computed and *)
(* registered with init_escrow.                                            *)
(*                                                                         *)
(* A setter queues an update; the page shows it only when React renders.   *)
(* `rule' is the state with all queued updates, `shown' the one on screen, *)
(* which buttons and the closures of their handlers see.  The effect that  *)
(* computes the hash, and its cleanup, run with the render, so callbacks   *)
(* that run between a setter and the render still belong to the old rule.  *)
(*                                                                         *)
(* A name with an underscore, Action_Variant, is a deliberately wrong      *)
(* variant of the definition that follows it; no specification uses it.    *)
(***************************************************************************)
EXTENDS Naturals, Sequences, FiniteSets

CONSTANTS
    Contracts,          \* PDF files
    Readings(_),        \* what Gemini may answer about a contract
    WalletKey,          \* the address of the connected wallet,
    Theaters,           \* addresses of theatres, and texts that are no address
    Garbage,
    MaxExtractions,     \* bounds: extractions and registrations asked for
    MaxFilings,
    None                \* null

Parties == {"distributor", "theater"}

RatesType ==
    [theater_bps : Nat, distributor_bps : Nat,
     distribution_fee_bps : Nat, investor_profit_bps : Nat]
RuleType ==
    [id : 1 .. MaxExtractions, contract : Contracts, rates : RatesType, conflicts : Nat,
     approvals : SUBSET Parties, ruleHash : RatesType \cup {None}]
HashType == [id : 1 .. MaxExtractions, hash : RatesType]
FilingType ==
    [number : 0 .. MaxFilings, id : 0 .. MaxExtractions, contract : Contracts,
     ruleHash : RatesType \cup {None}, theater : Theaters \cup {WalletKey}]
ReadingType ==
    [regionSplit : Seq([theater : Nat, distributor : Nat]),
     fees : Seq(Nat), profitSplits : Seq(Nat), conflicts : Nat]

ASSUME BackofficeAssumption ==
    /\ MaxExtractions \in Nat /\ MaxFilings \in Nat
    /\ \A c \in Contracts : Readings(c) \subseteq ReadingType
    /\ None \notin RuleType \cup HashType \cup FilingType

VARIABLES
    file, extracting,               \* the file chosen; the file being read, if any
    rule, shown,                    \* the rule: all updates, and as rendered
    hashing,                        \* the effect's promise, unless cancelled
    connected, theaterAddress, chainState, chainResult,
    filing, onWire,                 \* the init_escrow awaited; those that may land
    escrows,                        \* the escrow account of each film, on chain
    extractions, filings,           \* counters for the bounds
    consents,                       \* history: who pressed approve with which rule on screen
    torn                            \* history: a callback ran between a new rule and its render

ruleVars  == <<rule, shown, hashing>>
fileVars  == <<file, extracting, extractions>>
chainVars == <<connected, theaterAddress, chainState, chainResult, filing, filings>>
netVars   == <<onWire, escrows>>
officeVars == <<ruleVars, fileVars, chainVars, netVars, consents, torn>>

OfficeInit ==
    /\ file = None /\ extracting = None /\ extractions = 0
    /\ rule = None /\ shown = None /\ hashing = None
    /\ connected = FALSE /\ theaterAddress = None
    /\ chainState = "idle" /\ chainResult = None
    /\ filing = None /\ filings = 0 /\ onWire = {}
    /\ escrows = [c \in Contracts |-> None]
    /\ consents = {} /\ torn = FALSE

-----------------------------------------------------------------------------
(***************************************************************************)
(* lib/adaptExtraction.ts and lib/hash.ts: the rule made of an answer.     *)
(* Ratios are in hundred-thousandths, ten to a basis point.                *)
(***************************************************************************)
FirstOr(list, default) == IF list = <<>> THEN default ELSE list[1]

ToBps(ratio) == (ratio + 5) \div 10

\* The numbers of the preimage of rule_hash: of the first region, the first FEE
\* and the first PROFIT_SPLIT step, and 0 for what the answer does not contain.
Rates(reading) ==
    LET split == FirstOr(reading.regionSplit, [theater |-> 0, distributor |-> 0])
    IN  [theater_bps |-> ToBps(split.theater),
         distributor_bps |-> ToBps(split.distributor),
         distribution_fee_bps |-> ToBps(FirstOr(reading.fees, 0)),
         investor_profit_bps |-> ToBps(FirstOr(reading.profitSplits, 0))]

\* The hash is taken to be injective, so it is the numbers themselves; movieId
\* is cut from the hash of the file, so it is the file.
AdaptExtraction(contract, reading) ==
    [id |-> extractions, contract |-> contract, rates |-> Rates(reading),
     conflicts |-> reading.conflicts, approvals |-> {}, ruleHash |-> None]

BothApproved(r) == r # None /\ r.approvals = Parties

-----------------------------------------------------------------------------
ChooseFile(f) ==
    /\ file' = f
    /\ UNCHANGED <<ruleVars, extracting, extractions, chainVars, netVars, consents, torn>>

\* handleExtract, with the file of this render; the button is off while it runs.
HandleExtract ==
    /\ file # None /\ extracting = None
    /\ extractions < MaxExtractions
    /\ extracting' = file
    /\ extractions' = extractions + 1
    /\ UNCHANGED <<ruleVars, file, chainVars, netVars, consents, torn>>

Extracted_OfCurrentFile(reading) ==
    /\ extracting # None /\ file # None
    /\ reading \in Readings(extracting)
    /\ rule' = AdaptExtraction(file, reading)
    /\ extracting' = None
    /\ UNCHANGED <<shown, hashing, file, extractions, chainVars, netVars, consents, torn>>

Extracted(reading) ==
    /\ extracting # None
    /\ reading \in Readings(extracting)
    /\ rule' = AdaptExtraction(extracting, reading)
    /\ extracting' = None
    /\ UNCHANGED <<shown, hashing, file, extractions, chainVars, netVars, consents, torn>>

\* Not a PDF, no answer, an answer that is not JSON: the server's 4xx and 500.
ExtractionFails ==
    /\ extracting # None
    /\ extracting' = None
    /\ UNCHANGED <<ruleVars, file, extractions, chainVars, netVars, consents, torn>>

\* Something is about to be done to a rule that nobody has seen yet.
Unseen == rule # None /\ (shown = None \/ rule.id # shown.id)

MayApprove(party) ==
    shown # None /\ shown.conflicts = 0 /\ party \notin shown.approvals

Approve_ButtonOnly(party) ==
    /\ MayApprove(party)
    /\ consents' = consents \cup {[id |-> shown.id, party |-> party]}
    /\ torn' = (torn \/ Unseen)
    /\ rule' = [rule EXCEPT !.approvals = @ \cup {party}]
    /\ UNCHANGED <<shown, hashing, fileVars, chainVars, netVars>>

\* The update applies to whatever the rule is when React comes to it.
Approve(party) ==
    /\ MayApprove(party)
    /\ consents' = consents \cup {[id |-> shown.id, party |-> party]}
    /\ torn' = (torn \/ Unseen)
    /\ rule' = IF rule.conflicts > 0 THEN rule
               ELSE [rule EXCEPT !.approvals = @ \cup {party}]
    /\ UNCHANGED <<shown, hashing, fileVars, chainVars, netVars>>

-----------------------------------------------------------------------------
(***************************************************************************)
(* React renders the new rule; the cleanup of the last effect cancels its  *)
(* promise, and the effect starts another if both have approved.           *)
(***************************************************************************)
NeedsHash_OfLastRender(r) == BothApproved(shown) /\ r # None /\ r.ruleHash = None
NeedsHash(r) == BothApproved(r) /\ r.ruleHash = None

Render ==
    /\ rule # shown
    /\ shown' = rule
    /\ hashing' = IF NeedsHash(rule) THEN [id |-> rule.id, hash |-> rule.rates] ELSE None
    /\ UNCHANGED <<rule, fileVars, chainVars, netVars, consents, torn>>

HashArrives ==
    /\ hashing # None
    /\ rule' = [rule EXCEPT !.ruleHash = hashing.hash]
    /\ hashing' = None
    /\ torn' = (torn \/ Unseen)
    /\ UNCHANGED <<shown, fileVars, chainVars, netVars, consents>>

-----------------------------------------------------------------------------
(***************************************************************************)
(* The wallet, which is asked for once, and the theatre's address.         *)
(***************************************************************************)
ConnectWallet_Again ==
    /\ shown # None
    /\ chainState # "connecting"
    /\ chainState' = "connecting"
    /\ UNCHANGED <<ruleVars, fileVars, connected, theaterAddress, chainResult, filing,
                   filings, netVars, consents, torn>>

ConnectWallet ==
    /\ shown # None
    /\ chainState # "connecting" /\ ~connected
    /\ chainState' = "connecting"
    /\ UNCHANGED <<ruleVars, fileVars, connected, theaterAddress, chainResult, filing,
                   filings, netVars, consents, torn>>

WalletAnswers ==
    /\ chainState = "connecting"
    /\ chainState' = "idle"
    /\ \/ /\ connected' = TRUE
          /\ theaterAddress' = IF theaterAddress = None THEN WalletKey ELSE theaterAddress
       \/ UNCHANGED <<connected, theaterAddress>>
    /\ UNCHANGED <<ruleVars, fileVars, chainResult, filing, filings, netVars, consents, torn>>

TypeTheater(text) ==
    /\ BothApproved(shown) /\ chainState \notin {"done", "submitting"}
    /\ theaterAddress' = text
    /\ UNCHANGED <<ruleVars, fileVars, connected, chainState, chainResult, filing,
                   filings, netVars, consents, torn>>

(***************************************************************************)
(* registerOnchain and lib/chain.ts, initEscrow: the rule of the render    *)
(* that was clicked.  An address that is none ends the handler at once.    *)
(***************************************************************************)
MayRegister ==
    /\ shown # None /\ shown.ruleHash # None
    /\ connected
    /\ theaterAddress # None
    /\ chainState \notin {"submitting", "done"}

RegisterOnchain ==
    /\ MayRegister
    /\ theaterAddress # Garbage
    /\ filings < MaxFilings
    /\ filings' = filings + 1
    /\ chainState' = "submitting"
    /\ filing' = [number |-> filings + 1, id |-> shown.id, contract |-> shown.contract,
                  ruleHash |-> shown.ruleHash, theater |-> theaterAddress]
    /\ onWire' = onWire \cup {filing'}
    /\ UNCHANGED <<ruleVars, fileVars, connected, theaterAddress, chainResult, escrows,
                   consents, torn>>

Registered_AlreadyThere == filing # None /\ escrows[filing.contract] # None
Registered == filing # None /\ escrows[filing.contract] = filing

RegistrationConfirmed ==
    /\ Registered
    /\ chainResult' = filing
    /\ chainState' = "done"
    /\ filing' = None
    /\ UNCHANGED <<ruleVars, fileVars, connected, theaterAddress, filings, netVars,
                   consents, torn>>

\* Rejected, dropped, or given up while it may still land.
RegistrationFails ==
    /\ filing # None
    /\ chainState' = "idle"
    /\ filing' = None
    /\ UNCHANGED <<ruleVars, fileVars, connected, theaterAddress, chainResult, filings,
                   netVars, consents, torn>>

-----------------------------------------------------------------------------
\* init_escrow creates the account, so it succeeds for a film once.  What is
\* rejected or dropped stays on the wire and never lands.
Land(tx) ==
    /\ tx \in onWire
    /\ escrows[tx.contract] = None
    /\ escrows' = [escrows EXCEPT ![tx.contract] = tx]
    /\ onWire' = onWire \ {tx}
    /\ UNCHANGED <<ruleVars, fileVars, chainVars, consents, torn>>

\* The operators' script (tools/devnet-seed) registers films, too.
SeedRegisters(c) ==
    /\ escrows[c] = None
    /\ escrows' = [escrows EXCEPT ![c] =
          [number |-> 0, id |-> 0, contract |-> c, ruleHash |-> None, theater |-> WalletKey]]
    /\ UNCHANGED <<ruleVars, fileVars, chainVars, onWire, consents, torn>>

OfficeNext ==
    \/ \E f \in Contracts \cup {None} : ChooseFile(f)
    \/ HandleExtract \/ ExtractionFails
    \/ \E c \in Contracts : \E reading \in Readings(c) : Extracted(reading)
    \/ \E party \in Parties : Approve(party)
    \/ Render \/ HashArrives
    \/ ConnectWallet \/ WalletAnswers
    \/ \E text \in Theaters \cup {None, Garbage} : TypeTheater(text)
    \/ RegisterOnchain \/ RegistrationConfirmed \/ RegistrationFails
    \/ \E tx \in onWire : Land(tx)
    \/ \E c \in Contracts : SeedRegisters(c)

OfficeSpec == OfficeInit /\ [][OfficeNext]_officeVars

\* React renders what has been set, and the digest resolves: both are in the
\* browser.  Nothing is assumed of people, Gemini, the wallet or the cluster.
FairOfficeSpec == OfficeSpec /\ WF_officeVars(Render) /\ WF_officeVars(HashArrives)

-----------------------------------------------------------------------------
(***************************************************************************)
(* Properties.                                                             *)
(***************************************************************************)
\* The rule on screen and behind it, and what computes its hash.
RuleTypeOK ==
    /\ file \in Contracts \cup {None} /\ extracting \in Contracts \cup {None}
    /\ rule \in RuleType \cup {None} /\ shown \in RuleType \cup {None}
    /\ hashing \in HashType \cup {None}

\* The wallet, the registrations and the accounts.
ChainTypeOK ==
    /\ connected \in BOOLEAN
    /\ theaterAddress \in Theaters \cup {WalletKey, Garbage, None}
    /\ chainState \in {"idle", "connecting", "submitting", "done"}
    /\ chainResult \in FilingType \cup {None} /\ filing \in FilingType \cup {None}
    /\ onWire \subseteq FilingType
    /\ escrows \in [Contracts -> FilingType \cup {None}]
    /\ (filing # None) <=> (chainState = "submitting")

\* The page's state, the filings and the accounts are well formed.
OfficeTypeOK == RuleTypeOK /\ ChainTypeOK

\* STAGE 0: what is registered for a film is the hash of a rule extracted from
\* that film's contract, which both parties approved with that rule on screen.
\* Late extractions, files changed meanwhile, retries and lost confirmations do
\* not break it; only a callback between a new rule's setter and its render does.
RegisteredIsApproved ==
    ~torn => \A c \in Contracts : escrows[c] # None /\ escrows[c].number > 0 =>
        /\ \E reading \in Readings(c) : escrows[c].ruleHash = Rates(reading)
        /\ \A party \in Parties : [id |-> escrows[c].id, party |-> party] \in consents

\* FR-04: a rule with open conflicts is never approved, not even by a click on
\* the rule it has just replaced.
ConflictsBlockApproval ==
    \A r \in {rule, shown} \ {None} : r.approvals # {} => r.conflicts = 0

\* The page says that it registered an escrow only if the escrow on chain is the
\* one it sent, whoever else registered the same contract, whatever was lost.
ResultIsReal ==
    /\ (chainState = "done") <=> (chainResult # None)
    /\ chainResult # None => escrows[chainResult.contract] = chainResult

\* An approved rule gets its hash, or is replaced: no order of cleanups, renders
\* and arriving hashes leaves the registration button off for ever.
Unhashed(n) == BothApproved(rule) /\ rule.id = n /\ rule.ruleHash = None
ApprovedGetsHash == \A n \in 1 .. MaxExtractions : Unhashed(n) ~> ~Unhashed(n)
=============================================================================
