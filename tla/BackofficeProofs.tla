-------------------------- MODULE BackofficeProofs --------------------------
(***************************************************************************)
(* The safety of the back office for any contracts, any answers of Gemini  *)
(* and any number of extractions and registrations.                        *)
(*                                                                         *)
(* That a registered hash is that of an approved rule (RegisteredIsApproved) *)
(* is the end of a chain: approvals are backed by consents to the rule     *)
(* with the same identifier (RulesAreBacked), the rule on screen is the    *)
(* one behind it but for approvals that are still to be rendered           *)
(* (ScreenLagsBehind), the hash awaited is of the rule on screen           *)
(* (HashOfScreen), and so what is sent is backed, too (FilingsAreBacked).  *)
(* The links that a callback on a rule nobody has seen would break are     *)
(* claimed only while none has run (torn).                                 *)
(***************************************************************************)
EXTENDS Backoffice, TLAPS

\* Identifiers are handed out once: a rule that replaces another has a new one.
IdsAreFresh ==
    /\ extractions \in 0 .. MaxExtractions
    /\ extracting # None => extractions >= 1
    /\ rule # None => rule.id <= extractions /\ (extracting # None => rule.id < extractions)
    /\ shown # None => rule # None /\ shown.id <= rule.id

\* While the rule on screen has not been replaced, it differs from the rule
\* behind it in approvals and hash only, and approvals are only added.
ScreenLagsBehind ==
    (shown # None /\ rule # None /\ shown.id = rule.id) =>
        /\ shown.rates = rule.rates /\ shown.contract = rule.contract
        /\ shown.approvals \subseteq rule.approvals

\* The hash being computed is that of the rule on screen, which is approved.
HashOfScreen ==
    hashing # None =>
        /\ shown # None /\ hashing.id = shown.id /\ hashing.hash = shown.rates
        /\ shown.approvals = Parties

IsRead(r) == \E reading \in Readings(r.contract) : r.rates = Rates(reading)

Consented(id, parties) == \A party \in parties : [id |-> id, party |-> party] \in consents

RuleIsBacked(r) ==
    /\ IsRead(r)
    /\ r.approvals # {} => r.conflicts = 0
    /\ ~torn => Consented(r.id, r.approvals)
    /\ ~torn /\ r.ruleHash # None => r.ruleHash = r.rates /\ r.approvals = Parties

RulesAreBacked == \A r \in {rule, shown} \ {None} : RuleIsBacked(r)

FilingIsBacked(tx) ==
    ~torn => /\ \E reading \in Readings(tx.contract) : tx.ruleHash = Rates(reading)
             /\ Consented(tx.id, Parties)

FilingsAreBacked ==
    /\ \A tx \in onWire : FilingIsBacked(tx)
    /\ \A c \in Contracts : escrows[c] # None =>
          /\ escrows[c].contract = c
          /\ escrows[c].number > 0 => FilingIsBacked(escrows[c])

\* Only a connected wallet registers, so no later answer of it hides a result.
WalletComesFirst ==
    /\ filings \in 0 .. MaxFilings
    /\ chainState \in {"submitting", "done"} => connected

RulePart == RuleTypeOK /\ IdsAreFresh /\ ScreenLagsBehind /\ HashOfScreen /\ RulesAreBacked
ChainPart == ChainTypeOK /\ WalletComesFirst /\ ResultIsReal

OfficeInductive == RulePart /\ ChainPart /\ FilingsAreBacked

-----------------------------------------------------------------------------
(***************************************************************************)
(* What adaptExtraction returns, and the records that are not null.        *)
(***************************************************************************)
LEMMA RatesHaveType ==
    ASSUME NEW reading \in ReadingType
    PROVE  Rates(reading) \in RatesType
<1>1. ASSUME NEW n \in Nat PROVE ToBps(n) \in Nat
  BY <1>1 DEF ToBps
<1>2. ASSUME NEW S, NEW list \in Seq(S), NEW default \in S
      PROVE  FirstOr(list, default) \in S
  <2>1. list # <<>> => list[1] \in S
    OBVIOUS
  <2> QED
    BY <2>1 DEF FirstOr
<1> DEFINE split == FirstOr(reading.regionSplit, [theater |-> 0, distributor |-> 0])
<1>3. split \in [theater : Nat, distributor : Nat]
  <2>1. [theater |-> 0, distributor |-> 0] \in [theater : Nat, distributor : Nat]
    OBVIOUS
  <2>2. reading.regionSplit \in Seq([theater : Nat, distributor : Nat])
    BY DEF ReadingType
  <2> QED
    BY <1>2, <2>1, <2>2
<1>4. reading.fees \in Seq(Nat) /\ reading.profitSplits \in Seq(Nat)
  BY DEF ReadingType
<1> HIDE DEF split
<1>5. /\ ToBps(split.theater) \in Nat /\ ToBps(split.distributor) \in Nat
      /\ ToBps(FirstOr(reading.fees, 0)) \in Nat
      /\ ToBps(FirstOr(reading.profitSplits, 0)) \in Nat
  BY <1>1, <1>2, <1>3, <1>4
<1> QED
  BY <1>5 DEF Rates, RatesType, split

LEMMA RecordsAreNotNull ==
    /\ \A r \in RuleType : r # None
    /\ \A h \in HashType : h # None
    /\ \A tx \in FilingType : tx # None
BY BackofficeAssumption

-----------------------------------------------------------------------------
(***************************************************************************)
(* Steps that leave a part alone.                                          *)
(***************************************************************************)
LEMMA RulePartKept ==
    ASSUME RulePart, UNCHANGED <<rule, shown, hashing, extracting, extractions, consents, torn>>,
           file' \in Contracts \cup {None}
    PROVE  RulePart'
BY DEF RulePart, RuleTypeOK, IdsAreFresh, ScreenLagsBehind, HashOfScreen, RulesAreBacked,
   RuleIsBacked, IsRead, Consented

LEMMA ChainPartKept ==
    ASSUME ChainPart, UNCHANGED <<chainVars, netVars>>
    PROVE  ChainPart'
BY DEF ChainPart, ChainTypeOK, WalletComesFirst, ResultIsReal, chainVars, netVars

\* Consents are never withdrawn, so they go on backing what was sent.
LEMMA BackingKept ==
    ASSUME NEW tx, FilingIsBacked(tx), consents \subseteq consents', torn => torn'
    PROVE  FilingIsBacked(tx)'
BY DEF FilingIsBacked, Consented

LEMMA FilingsKept ==
    ASSUME FilingsAreBacked, UNCHANGED netVars, consents \subseteq consents', torn => torn'
    PROVE  FilingsAreBacked'
BY BackingKept DEF FilingsAreBacked, netVars

-----------------------------------------------------------------------------
(***************************************************************************)
(* One lemma per action that changes the rule.                             *)
(***************************************************************************)
LEMMA HandleExtractKeeps ==
    ASSUME RulePart, HandleExtract
    PROVE  RulePart'
<1>1. /\ RuleTypeOK /\ IdsAreFresh /\ extracting = None /\ MaxExtractions \in Nat
  BY BackofficeAssumption DEF RulePart, HandleExtract
<1>2. RuleTypeOK'
  BY <1>1 DEF HandleExtract, RuleTypeOK, ruleVars
<1>3. IdsAreFresh'
  BY <1>1 DEF HandleExtract, RuleTypeOK, RuleType, IdsAreFresh, ruleVars
<1> QED
  BY <1>2, <1>3 DEF HandleExtract, RulePart, ScreenLagsBehind, HashOfScreen,
     RulesAreBacked, RuleIsBacked, IsRead, Consented, ruleVars

\* The extracted rule is new, so what is on screen is another.
LEMMA ExtractedKeeps ==
    ASSUME RulePart, NEW c \in Contracts, NEW reading \in Readings(c), Extracted(reading)
    PROVE  RulePart'
<1> DEFINE adapted == AdaptExtraction(extracting, reading)
<1>1. /\ RuleTypeOK /\ IdsAreFresh /\ HashOfScreen /\ RulesAreBacked
      /\ extracting # None /\ extracting \in Contracts
      /\ reading \in Readings(extracting) /\ reading \in ReadingType
      /\ rule' = adapted /\ extracting' = None
      /\ UNCHANGED <<shown, hashing, file, extractions, consents, torn>>
  BY BackofficeAssumption DEF RulePart, Extracted, RuleTypeOK
<1>2. /\ extractions \in 1 .. MaxExtractions
      /\ Rates(reading) \in RatesType /\ reading.conflicts \in Nat
  BY <1>1, RatesHaveType, BackofficeAssumption DEF IdsAreFresh, ReadingType
<1>3. adapted \in RuleType
  BY <1>1, <1>2 DEF AdaptExtraction, RuleType
<1>4. /\ adapted.id = extractions /\ adapted.approvals = {} /\ adapted.ruleHash = None
      /\ adapted.rates = Rates(reading) /\ adapted.contract = extracting
  BY DEF AdaptExtraction
<1> HIDE DEF adapted
<1>5. adapted # None
  BY <1>3, RecordsAreNotNull
<1>6. RuleTypeOK'
  BY <1>1, <1>3 DEF RuleTypeOK
<1>7. shown # None => shown.id < extractions
  <2>1. CASE shown # None
    <3>1. shown \in RuleType /\ rule # None /\ rule \in RuleType /\ shown.id <= rule.id
          /\ rule.id < extractions
      BY <1>1, <2>1 DEF RuleTypeOK, IdsAreFresh
    <3> QED
      BY <3>1, <1>2, BackofficeAssumption DEF RuleType
  <2> QED
    BY <2>1
<1>8. IdsAreFresh'
  <2>1. shown # None => shown.id <= extractions
    BY <1>1, <1>2, <1>7, BackofficeAssumption DEF RuleTypeOK, RuleType
  <2> QED
    BY <1>1, <1>2, <1>4, <1>5, <2>1, BackofficeAssumption DEF IdsAreFresh
<1>9. ScreenLagsBehind'
  <2>1. shown # None => shown.id # extractions
    BY <1>1, <1>2, <1>7, BackofficeAssumption DEF RuleTypeOK, RuleType
  <2> QED
    BY <1>1, <1>4, <2>1 DEF ScreenLagsBehind
<1>10. HashOfScreen'
  BY <1>1 DEF HashOfScreen
<1>11. RuleIsBacked(rule)'
  BY <1>1, <1>4 DEF RuleIsBacked, IsRead, Consented
<1>12. shown # None => RuleIsBacked(shown)'
  BY <1>1 DEF RulesAreBacked, RuleIsBacked, IsRead, Consented
<1>13. RulesAreBacked'
  BY <1>1, <1>11, <1>12 DEF RulesAreBacked
<1> QED
  BY <1>6, <1>8, <1>9, <1>10, <1>13 DEF RulePart

LEMMA ExtractionFailsKeeps ==
    ASSUME RulePart, ExtractionFails
    PROVE  RulePart'
BY DEF ExtractionFails, RulePart, RuleTypeOK, IdsAreFresh, ScreenLagsBehind, HashOfScreen,
   RulesAreBacked, RuleIsBacked, IsRead, Consented, ruleVars

\* An approval pressed on the rule that is still the current one backs itself.
LEMMA ApproveKeeps ==
    ASSUME RulePart, NEW party \in Parties, Approve(party)
    PROVE  RulePart'
<1> DEFINE approved == [rule EXCEPT !.approvals = @ \cup {party}]
<1>1. /\ RuleTypeOK /\ IdsAreFresh /\ ScreenLagsBehind /\ HashOfScreen /\ RulesAreBacked
      /\ shown # None /\ shown \in RuleType /\ rule # None /\ rule \in RuleType
      /\ UNCHANGED <<shown, hashing, file, extracting, extractions>>
      /\ consents' = consents \cup {[id |-> shown.id, party |-> party]}
      /\ torn' = (torn \/ Unseen)
      /\ RuleIsBacked(rule) /\ RuleIsBacked(shown)
  BY DEF RulePart, Approve, MayApprove, RuleTypeOK, IdsAreFresh, RulesAreBacked, fileVars
<1>2. ~torn' => ~torn /\ rule.id = shown.id
  BY <1>1 DEF Unseen
<1>3. RuleIsBacked(shown)'
  BY <1>1, <1>2 DEF RuleIsBacked, IsRead, Consented
<1>4. CASE rule.conflicts > 0
  <2>1. rule' = rule
    BY <1>4 DEF Approve
  <2>2. RuleIsBacked(rule)'
    BY <1>1, <1>2, <2>1 DEF RuleIsBacked, IsRead, Consented
  <2> QED
    BY <1>1, <1>3, <2>1, <2>2 DEF RulePart, RuleTypeOK, IdsAreFresh, ScreenLagsBehind,
       HashOfScreen, RulesAreBacked
<1>5. CASE ~(rule.conflicts > 0)
  <2>1. rule' = approved /\ rule.conflicts = 0
    BY <1>1, <1>5 DEF Approve, RuleType
  <2>2. /\ approved \in RuleType
        /\ approved.approvals = rule.approvals \cup {party}
        /\ approved.id = rule.id /\ approved.rates = rule.rates
        /\ approved.contract = rule.contract /\ approved.ruleHash = rule.ruleHash
        /\ approved.conflicts = rule.conflicts
    BY <1>1 DEF RuleType
  <2> HIDE DEF approved
  <2>3. approved # None
    BY <2>2, RecordsAreNotNull
  <2>4. RuleIsBacked(rule)'
    <3>1. IsRead(rule)'
      BY <1>1, <2>1, <2>2 DEF RuleIsBacked, IsRead
    <3>2. ~torn' => Consented(rule.id, rule.approvals)'
      BY <1>1, <1>2, <2>1, <2>2 DEF RuleIsBacked, Consented
    <3>3. (~torn' /\ approved.ruleHash # None) =>
             approved.ruleHash = approved.rates /\ approved.approvals = Parties
      BY <1>1, <1>2, <2>2 DEF RuleIsBacked
    <3> QED
      BY <2>1, <2>2, <3>1, <3>2, <3>3 DEF RuleIsBacked
  <2>5. RulesAreBacked'
    BY <1>1, <1>3, <2>1, <2>3, <2>4 DEF RulesAreBacked
  <2>6. RuleTypeOK' /\ IdsAreFresh' /\ HashOfScreen'
    BY <1>1, <2>1, <2>2, <2>3 DEF RuleTypeOK, IdsAreFresh, HashOfScreen
  <2>7. ScreenLagsBehind'
    BY <1>1, <2>1, <2>2 DEF ScreenLagsBehind
  <2> QED
    BY <2>5, <2>6, <2>7 DEF RulePart
<1> QED
  BY <1>4, <1>5

\* The effect runs with the render: what is awaited is what is on screen.
LEMMA RenderKeeps ==
    ASSUME RulePart, Render
    PROVE  RulePart'
<1>1. /\ RuleTypeOK /\ IdsAreFresh /\ RulesAreBacked
      /\ shown' = rule
      /\ hashing' = IF NeedsHash(rule) THEN [id |-> rule.id, hash |-> rule.rates] ELSE None
      /\ UNCHANGED <<rule, file, extracting, extractions, consents, torn>>
  BY DEF RulePart, Render, fileVars
<1>2. NeedsHash(rule) => rule # None /\ rule \in RuleType /\ rule.approvals = Parties
  BY <1>1 DEF NeedsHash, BothApproved, RuleTypeOK
<1>3. NeedsHash(rule) => [id |-> rule.id, hash |-> rule.rates] \in HashType
  BY <1>2 DEF RuleType, HashType
<1>4. RuleTypeOK' /\ HashOfScreen'
  BY <1>1, <1>2, <1>3 DEF RuleTypeOK, HashOfScreen
<1>5. IdsAreFresh' /\ ScreenLagsBehind'
  BY <1>1 DEF IdsAreFresh, ScreenLagsBehind, RuleTypeOK, RuleType
<1>6. RulesAreBacked'
  BY <1>1 DEF RulesAreBacked, RuleIsBacked, IsRead, Consented
<1> QED
  BY <1>4, <1>5, <1>6 DEF RulePart

LEMMA HashArrivesKeeps ==
    ASSUME RulePart, HashArrives
    PROVE  RulePart'
<1> DEFINE hashed == [rule EXCEPT !.ruleHash = hashing.hash]
<1>1. /\ RuleTypeOK /\ IdsAreFresh /\ ScreenLagsBehind /\ RulesAreBacked
      /\ hashing # None /\ hashing \in HashType
      /\ shown # None /\ shown \in RuleType /\ rule # None /\ rule \in RuleType
      /\ hashing.hash = shown.rates /\ shown.approvals = Parties
      /\ rule' = hashed /\ hashing' = None
      /\ torn' = (torn \/ Unseen)
      /\ UNCHANGED <<shown, file, extracting, extractions, consents>>
      /\ RuleIsBacked(rule) /\ RuleIsBacked(shown)
  BY DEF RulePart, HashArrives, HashOfScreen, RuleTypeOK, IdsAreFresh, RulesAreBacked, fileVars
<1>2. ~torn' => ~torn /\ rule.id = shown.id
  BY <1>1 DEF Unseen
<1>3. /\ hashed \in RuleType
      /\ hashed.approvals = rule.approvals /\ hashed.conflicts = rule.conflicts
      /\ hashed.id = rule.id /\ hashed.rates = rule.rates
      /\ hashed.contract = rule.contract /\ hashed.ruleHash = hashing.hash
  BY <1>1 DEF RuleType, HashType
<1> HIDE DEF hashed
<1>4. hashed # None
  BY <1>3, RecordsAreNotNull
<1>5. ~torn' => hashing.hash = rule.rates /\ rule.approvals = Parties
  BY <1>1, <1>2 DEF ScreenLagsBehind, RuleType
<1>6. RuleIsBacked(rule)'
  <2>1. IsRead(rule)'
    BY <1>1, <1>3 DEF RuleIsBacked, IsRead
  <2>2. ~torn' => Consented(rule.id, rule.approvals)'
    BY <1>1, <1>2, <1>3 DEF RuleIsBacked, Consented
  <2>3. hashed.approvals # {} => hashed.conflicts = 0
    BY <1>1, <1>3 DEF RuleIsBacked
  <2> QED
    BY <1>1, <1>3, <1>5, <2>1, <2>2, <2>3 DEF RuleIsBacked
<1>7. RuleIsBacked(shown)'
  BY <1>1, <1>2 DEF RuleIsBacked, IsRead, Consented
<1>8. RulesAreBacked'
  BY <1>1, <1>4, <1>6, <1>7 DEF RulesAreBacked
<1>9. RuleTypeOK' /\ IdsAreFresh' /\ HashOfScreen' /\ ScreenLagsBehind'
  BY <1>1, <1>3, <1>4 DEF RuleTypeOK, IdsAreFresh, HashOfScreen, ScreenLagsBehind
<1> QED
  BY <1>8, <1>9 DEF RulePart

-----------------------------------------------------------------------------
(***************************************************************************)
(* The wallet and the registration.                                        *)
(***************************************************************************)
LEMMA WalletKeeps ==
    ASSUME ChainPart,
           \/ ConnectWallet \/ WalletAnswers
           \/ \E text \in Theaters \cup {None, Garbage} : TypeTheater(text)
    PROVE  ChainPart'
<1>1. CASE ConnectWallet
  BY <1>1 DEF ConnectWallet, ChainPart, ChainTypeOK, WalletComesFirst, ResultIsReal, netVars
<1>2. CASE WalletAnswers
  BY <1>2 DEF WalletAnswers, ChainPart, ChainTypeOK, WalletComesFirst, ResultIsReal, netVars
<1>3. ASSUME NEW text \in Theaters \cup {None, Garbage}, TypeTheater(text)
      PROVE  ChainPart'
  BY <1>3 DEF TypeTheater, ChainPart, ChainTypeOK, WalletComesFirst, ResultIsReal, netVars
<1> QED
  BY <1>1, <1>2, <1>3

\* What is sent is the approved rule on screen: its hash, its film, and its
\* identifier, to which both parties have consented.
LEMMA RegisterOnchainKeeps ==
    ASSUME OfficeInductive, RegisterOnchain
    PROVE  ChainPart' /\ FilingsAreBacked'
<1> DEFINE tx == [number |-> filings + 1, id |-> shown.id, contract |-> shown.contract,
                  ruleHash |-> shown.ruleHash, theater |-> theaterAddress]
<1>1. /\ ChainTypeOK /\ WalletComesFirst /\ ResultIsReal /\ FilingsAreBacked
      /\ shown # None /\ shown \in RuleType /\ shown.ruleHash # None /\ RuleIsBacked(shown)
      /\ connected /\ chainState \notin {"submitting", "done"}
      /\ filings \in 0 .. MaxFilings /\ filings < MaxFilings /\ filings' = filings + 1
      /\ chainState' = "submitting"
      /\ filing' = tx /\ onWire' = onWire \cup {tx}
      /\ UNCHANGED <<connected, theaterAddress, chainResult, escrows, consents, torn>>
  BY DEF OfficeInductive, RulePart, ChainPart, RegisterOnchain, MayRegister, RuleTypeOK,
     RulesAreBacked, WalletComesFirst
<1>2. theaterAddress \in Theaters \cup {WalletKey}
  BY DEF OfficeInductive, ChainPart, ChainTypeOK, RegisterOnchain, MayRegister
<1>3. tx \in FilingType
  BY <1>1, <1>2, BackofficeAssumption DEF FilingType, RuleType
<1>4. tx.id = shown.id /\ tx.contract = shown.contract /\ tx.ruleHash = shown.ruleHash
  OBVIOUS
<1> HIDE DEF tx
<1>5. tx # None
  BY <1>3, RecordsAreNotNull
<1>6. ChainPart'
  <2>1. ChainTypeOK'
    BY <1>1, <1>3, <1>5 DEF ChainTypeOK
  <2>2. WalletComesFirst'
    BY <1>1, BackofficeAssumption DEF WalletComesFirst
  <2>3. ResultIsReal'
    BY <1>1 DEF ResultIsReal
  <2> QED
    BY <2>1, <2>2, <2>3 DEF ChainPart
<1>7. FilingIsBacked(tx)
  BY <1>1, <1>4 DEF FilingIsBacked, RuleIsBacked, IsRead
<1>8. FilingsAreBacked'
  <2>1. \A other \in onWire' : FilingIsBacked(other)
    BY <1>1, <1>7 DEF FilingsAreBacked
  <2> QED
    BY <1>1, <2>1 DEF FilingsAreBacked, FilingIsBacked, Consented
<1> QED
  BY <1>6, <1>8

LEMMA RegistrationEndsKeeps ==
    ASSUME ChainPart, RegistrationConfirmed \/ RegistrationFails
    PROVE  ChainPart'
<1>1. CASE RegistrationConfirmed
  BY <1>1 DEF RegistrationConfirmed, Registered, ChainPart, ChainTypeOK, WalletComesFirst,
     ResultIsReal, netVars
<1>2. CASE RegistrationFails
  BY <1>2 DEF RegistrationFails, ChainPart, ChainTypeOK, WalletComesFirst, ResultIsReal,
     netVars
<1> QED
  BY <1>1, <1>2

\* An account is created once, so what the page has confirmed stays.
LEMMA CreationKeeps ==
    ASSUME ChainPart, NEW c \in Contracts, NEW account \in FilingType,
           escrows[c] = None, escrows' = [escrows EXCEPT ![c] = account],
           onWire' \subseteq onWire, UNCHANGED chainVars
    PROVE  ChainPart'
<1>1. ChainTypeOK'
  BY DEF ChainPart, ChainTypeOK, chainVars
<1>2. WalletComesFirst'
  BY DEF ChainPart, WalletComesFirst, chainVars
<1>3. ResultIsReal'
  <2>1. ASSUME chainResult # None
        PROVE  /\ chainResult.contract \in Contracts
               /\ escrows[chainResult.contract] = chainResult
    BY <2>1 DEF ChainPart, ChainTypeOK, ResultIsReal, FilingType
  <2> QED
    BY <2>1 DEF ChainPart, ChainTypeOK, ResultIsReal, chainVars
<1> QED
  BY <1>1, <1>2, <1>3 DEF ChainPart

LEMMA LandKeeps ==
    ASSUME ChainPart, FilingsAreBacked, NEW tx \in onWire, Land(tx)
    PROVE  ChainPart' /\ FilingsAreBacked'
<1>1. /\ tx \in FilingType /\ tx.contract \in Contracts /\ escrows[tx.contract] = None
      /\ escrows \in [Contracts -> FilingType \cup {None}]
      /\ escrows' = [escrows EXCEPT ![tx.contract] = tx]
      /\ onWire' = onWire \ {tx}
      /\ UNCHANGED <<chainVars, consents, torn>>
  BY DEF Land, ChainPart, ChainTypeOK, FilingType
<1>2. ChainPart'
  BY <1>1, CreationKeeps
<1>3. FilingsAreBacked'
  BY <1>1 DEF FilingsAreBacked, FilingIsBacked, Consented
<1> QED
  BY <1>2, <1>3

LEMMA SeedRegistersKeeps ==
    ASSUME ChainPart, FilingsAreBacked, NEW c \in Contracts, SeedRegisters(c)
    PROVE  ChainPart' /\ FilingsAreBacked'
<1> DEFINE account ==
      [number |-> 0, id |-> 0, contract |-> c, ruleHash |-> None, theater |-> WalletKey]
<1>1. account \in FilingType /\ account.contract = c /\ account.number = 0
  BY BackofficeAssumption DEF FilingType
<1>2. /\ escrows[c] = None /\ escrows' = [escrows EXCEPT ![c] = account]
      /\ escrows \in [Contracts -> FilingType \cup {None}]
      /\ UNCHANGED <<chainVars, onWire, consents, torn>>
  BY DEF SeedRegisters, ChainPart, ChainTypeOK
<1> HIDE DEF account
<1>3. ChainPart'
  BY <1>1, <1>2, CreationKeeps
<1>4. FilingsAreBacked'
  BY <1>1, <1>2 DEF FilingsAreBacked, FilingIsBacked, Consented
<1> QED
  BY <1>3, <1>4

-----------------------------------------------------------------------------
LEMMA OfficeInitInductive == OfficeInit => OfficeInductive
<1> SUFFICES ASSUME OfficeInit PROVE OfficeInductive
  OBVIOUS
<1>1. RulePart
  BY BackofficeAssumption DEF OfficeInit, RulePart, RuleTypeOK, IdsAreFresh, ScreenLagsBehind,
     HashOfScreen, RulesAreBacked
<1>2. ChainPart
  <2>1. ChainTypeOK /\ ResultIsReal
    BY DEF OfficeInit, ChainTypeOK, ResultIsReal
  <2>2. WalletComesFirst
    BY BackofficeAssumption DEF OfficeInit, WalletComesFirst
  <2> QED
    BY <2>1, <2>2 DEF ChainPart
<1>3. FilingsAreBacked
  BY DEF OfficeInit, FilingsAreBacked
<1> QED
  BY <1>1, <1>2, <1>3 DEF OfficeInductive

LEMMA OfficeNextInductive ==
    ASSUME OfficeInductive, [OfficeNext]_officeVars
    PROVE  OfficeInductive'
<1>0. RulePart /\ ChainPart /\ FilingsAreBacked
  BY DEF OfficeInductive
\* Steps on the rule, which touch nothing of the registration.
<1>1. ASSUME RulePart', UNCHANGED <<chainVars, netVars>>, consents \subseteq consents',
             torn => torn'
      PROVE  OfficeInductive'
  BY <1>0, <1>1, ChainPartKept, FilingsKept DEF OfficeInductive
\* Steps on the registration, which touch nothing of the rule.
<1>2. ASSUME ChainPart', FilingsAreBacked', UNCHANGED <<ruleVars, fileVars, consents, torn>>
      PROVE  OfficeInductive'
  <2>1. file \in Contracts \cup {None}
    BY <1>0 DEF RulePart, RuleTypeOK
  <2> QED
    BY <1>0, <1>2, <2>1, RulePartKept DEF OfficeInductive, ruleVars, fileVars
<1>3. ASSUME NEW f \in Contracts \cup {None}, ChooseFile(f) PROVE OfficeInductive'
  BY <1>0, <1>1, <1>3, RulePartKept DEF ChooseFile, ruleVars
<1>4. CASE HandleExtract
  BY <1>0, <1>1, <1>4, HandleExtractKeeps DEF HandleExtract
<1>5. CASE ExtractionFails
  BY <1>0, <1>1, <1>5, ExtractionFailsKeeps DEF ExtractionFails
<1>6. ASSUME NEW c \in Contracts, NEW reading \in Readings(c), Extracted(reading)
      PROVE  OfficeInductive'
  BY <1>0, <1>1, <1>6, ExtractedKeeps DEF Extracted
<1>7. ASSUME NEW party \in Parties, Approve(party) PROVE OfficeInductive'
  BY <1>0, <1>1, <1>7, ApproveKeeps DEF Approve
<1>8. CASE Render
  BY <1>0, <1>1, <1>8, RenderKeeps DEF Render
<1>9. CASE HashArrives
  BY <1>0, <1>1, <1>9, HashArrivesKeeps DEF HashArrives
<1>10. CASE \/ ConnectWallet \/ WalletAnswers
            \/ \E text \in Theaters \cup {None, Garbage} : TypeTheater(text)
  <2>1. UNCHANGED <<ruleVars, fileVars, netVars, consents, torn>>
    BY <1>10 DEF ConnectWallet, WalletAnswers, TypeTheater
  <2>2. ChainPart'
    BY <1>0, <1>10, WalletKeeps
  <2>3. FilingsAreBacked'
    BY <1>0, <2>1, FilingsKept
  <2> QED
    BY <1>2, <2>1, <2>2, <2>3
<1>11. CASE RegisterOnchain
  BY <1>2, <1>11, RegisterOnchainKeeps DEF RegisterOnchain
<1>12. CASE RegistrationConfirmed \/ RegistrationFails
  BY <1>0, <1>2, <1>12, RegistrationEndsKeeps, FilingsKept
     DEF RegistrationConfirmed, RegistrationFails
<1>13. ASSUME NEW tx \in onWire, Land(tx) PROVE OfficeInductive'
  BY <1>0, <1>2, <1>13, LandKeeps DEF Land
<1>14. ASSUME NEW c \in Contracts, SeedRegisters(c) PROVE OfficeInductive'
  BY <1>0, <1>2, <1>14, SeedRegistersKeeps DEF SeedRegisters
<1>15. CASE UNCHANGED officeVars
  <2>1. UNCHANGED <<ruleVars, fileVars, chainVars, netVars, consents, torn>>
    BY <1>15 DEF officeVars
  <2>2. ChainPart'
    BY <1>0, <2>1, ChainPartKept
  <2>3. FilingsAreBacked'
    BY <1>0, <2>1, FilingsKept
  <2> QED
    BY <1>2, <2>1, <2>2, <2>3
<1> QED
  BY <1>3, <1>4, <1>5, <1>6, <1>7, <1>8, <1>9, <1>10, <1>11, <1>12, <1>13, <1>14, <1>15
     DEF OfficeNext

THEOREM OfficeAlwaysInductive == OfficeSpec => []OfficeInductive
<1>1. OfficeInit => OfficeInductive
  BY OfficeInitInductive
<1>2. OfficeInductive /\ [OfficeNext]_officeVars => OfficeInductive'
  BY OfficeNextInductive
<1> QED
  BY <1>1, <1>2, PTL DEF OfficeSpec

\* The page is waiting for a registration exactly while it says so, and every
\* rule, hash and account is well formed.
THEOREM OfficeTypeCorrect == OfficeSpec => []OfficeTypeOK
<1>1. OfficeInductive => OfficeTypeOK
  BY DEF OfficeInductive, RulePart, ChainPart, OfficeTypeOK
<1> QED
  BY <1>1, OfficeAlwaysInductive, PTL

\* What the page files for a film is the hash of a rule read from that film's
\* contract, to which both parties consented with that rule on screen.
THEOREM OnlyApprovedIsRegistered == OfficeSpec => []RegisteredIsApproved
<1>1. OfficeInductive => RegisteredIsApproved
  BY DEF OfficeInductive, FilingsAreBacked, FilingIsBacked, Consented, RegisteredIsApproved
<1> QED
  BY <1>1, OfficeAlwaysInductive, PTL

\* No approval is ever recorded on a rule with open conflicts.
THEOREM ConflictsAlwaysBlock == OfficeSpec => []ConflictsBlockApproval
<1>1. OfficeInductive => ConflictsBlockApproval
  BY DEF OfficeInductive, RulePart, RulesAreBacked, RuleIsBacked, ConflictsBlockApproval
<1> QED
  BY <1>1, OfficeAlwaysInductive, PTL

\* "Registered" on the page means that the account on chain is the one it sent.
THEOREM ConfirmedIsOnChain == OfficeSpec => []ResultIsReal
<1>1. OfficeInductive => ResultIsReal
  BY DEF OfficeInductive, ChainPart
<1> QED
  BY <1>1, OfficeAlwaysInductive, PTL
=============================================================================
