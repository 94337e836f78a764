------------------------ MODULE SettlementAgentProofs ------------------------
(***************************************************************************)
(* The batch run of the agent, for any batch, any number of requests,      *)
(* restarts and lost transactions, while others use the escrow by every    *)
(* instruction but settle_batch and verify_escrow, with any amounts.       *)
(*                                                                         *)
(* Slot: the run slot is taken exactly while one request is in the         *)
(* pipeline.  Deliveries: what has landed and is not yet confirmed belongs *)
(* to a request that still waits for it, so a reset, which needs the slot, *)
(* cannot come between.  Progress: of the screening a request works on and *)
(* those before it, what the code has passed has been settled.             *)
(*                                                                         *)
(* Books: a transaction on its way is awaited, or left behind by a request *)
(* that is over; and what the requests hold has its shape and place.       *)
(* With it a step of the system is a step of the program.                  *)
(*                                                                         *)
(* Three invariants rest on these, one for each property: Judged (by which *)
(* history the verdicts were reached), Holds (what is due to be frozen     *)
(* while a screening settles and its roles are marked) and Counted (each   *)
(* settlement, and each left behind that may yet land, is accounted for by *)
(* a failure, but one).                                                    *)
(*                                                                         *)
(* Last, the agent with its requests, pipeline and network implements the  *)
(* batch slot of BatchSlot.                                                *)
(***************************************************************************)
EXTENDS SettlementAgent, MovieEscrowProofs, FiniteSetTheorems

Labels == {"unsent", "lost"} \cup InPipeline \cup Answered

Slot ==
    /\ pc \in [Requests -> Labels]
    /\ at \in [Requests -> 1 .. Len(Batch)]
    /\ \A r \in Requests : pc[r] = "unsent" => at[r] = 1
    /\ OneRunAtATime

IsTx(tx) == tx.screening \in 1 .. Len(Batch) /\ tx.op \in {"verify", "settle", "mark"}

Deliveries ==
    /\ awaiting = [r \in Requests |-> awaiting[r]]
    /\ \A r \in Requests :
          IF pc[r] = "await" THEN IsTx(awaiting[r]) /\ awaiting[r].screening = at[r]
          ELSE awaiting[r] = NoTx
    /\ \A tx \in mempool : IsTx(tx) /\ tx.from \in Requests
    /\ \A tx \in landed : \E r \in Requests : pc[r] = "await" /\ awaiting[r] = tx

Settled(i) == settledTimes[Batch[i]] >= 1

PastSettle(r) == pc[r] = "mark" \/ (pc[r] = "await" /\ awaiting[r].op = "mark")

Passed(r, i) == i < at[r] \/ (i = at[r] /\ PastSettle(r))

Progress ==
    /\ settledTimes \in [Screenings -> Nat]
    /\ \A tx \in landed : tx.op = "settle" => Settled(tx.screening)
    /\ \A r \in Requests : Running(r) =>
          \A i \in 1 .. Len(Batch) : Passed(r, i) => Settled(i)
    /\ CompletedMeansSettled

AgentInductive == Slot /\ Deliveries /\ Progress

-----------------------------------------------------------------------------
(***************************************************************************)
(* Net amounts are integers, for a log of any length.  FoldLeft is defined *)
(* by a function that takes the latest event out of a set of events, so    *)
(* instead of an induction over the log: among the sets on which that      *)
(* function would be wrong there would be a smallest one.                  *)
(***************************************************************************)
HasSmallest(F) == \E T \in F : \A U \in F : U \subseteq T => U = T

\* Among sets of subsets of a finite set there is a smallest one.
LEMMA SmallestPart ==
    ASSUME NEW S, IsFiniteSet(S), NEW F, F \subseteq SUBSET S, F # {}
    PROVE  HasSmallest(F)
<1>1. IsWellFoundedOn(StrictSubsetOrdering(S), SUBSET S)
  BY FS_StrictSubsetOrderingWellFounded, FS_FiniteSubsetsOfFinite
<1>2. PICK T \in F : \A U \in F : ~ (<<U, T>> \in StrictSubsetOrdering(S))
  BY <1>1, WFMin
<1> QED
  BY <1>2 DEF StrictSubsetOrdering, HasSmallest

Numbered(S) == S \subseteq Int

LEMMA MaxIsIn ==
    ASSUME NEW S, IsFiniteSet(S), Numbered(S)
    PROVE  \A T \in SUBSET S : T # {} => Max(T) \in T
<1> DEFINE Wrong == {T \in SUBSET S : T # {} /\ ~ \E x \in T : \A y \in T : x >= y}
<1>1. Wrong = {}
  <2>1. SUFFICES ASSUME Wrong # {} PROVE FALSE
    OBVIOUS
  <2>2. PICK T \in Wrong : \A U \in Wrong : U \subseteq T => U = T
    <3>1. Wrong \subseteq SUBSET S
      OBVIOUS
    <3> HIDE DEF Wrong
    <3>2. HasSmallest(Wrong)
      BY <2>1, <3>1, SmallestPart
    <3> QED
      BY <3>2 DEF HasSmallest
  <2>3. T \in SUBSET S /\ T # {} /\ ~ \E x \in T : \A y \in T : x >= y
    OBVIOUS
  <2>4. PICK x \in T : TRUE
    BY <2>3
  <2>5. T \ {x} \in SUBSET S /\ T \ {x} \subseteq T /\ T \ {x} # T
    BY <2>3, <2>4
  <2>8. T \subseteq Int
    BY <2>3 DEF Numbered
  <2>6. CASE T \ {x} = {}
    BY <2>3, <2>4, <2>6, <2>8
  <2>7. CASE T \ {x} # {}
    <3>1. PICK most \in T \ {x} : \A y \in T \ {x} : most >= y
      BY <2>2, <2>5, <2>7
    <3> QED
      BY <2>3, <2>4, <2>8, <3>1
  <2> QED
    BY <2>6, <2>7
<1> QED
  BY <1>1 DEF Max

Taken(event, sum) == IF event.kind = "issue" THEN sum + event.amount ELSE sum - event.amount
Without(some) == some \ {Max(some)}

\* The function that FoldLeft chooses, on the events of a log numbered in S.
NetsOf(net, log, S) ==
    net = [some \in SUBSET S |->
              IF some = {} THEN 0 ELSE Taken(log[Max(some)], net[Without(some)])]
NetOver(log, S) == CHOOSE net : NetsOf(net, log, S)

LEMMA NetUnfold ==
    ASSUME NEW log
    PROVE  NetAmountOf(log) = NetOver(log, DOMAIN log)[DOMAIN log]
BY DEF NetAmountOf, FoldLeft, MapThenFoldSet, NetOver, NetsOf, Taken, Without

Agree(f, g, A, B) == \A C \in SUBSET A : C \subseteq B => f[C] = g[C]

\* Two such functions agree where both are defined.
LEMMA NetsAgree ==
    ASSUME NEW log, NEW A, IsFiniteSet(A), Numbered(A), NEW B,
           NEW f, NetsOf(f, log, A), NEW g, NetsOf(g, log, B)
    PROVE  Agree(f, g, A, B)
<1> DEFINE Wrong == {C \in SUBSET A : C \subseteq B /\ f[C] # g[C]}
<1>1. SUFFICES ASSUME Wrong # {} PROVE FALSE
  BY DEF Agree
<1>2. PICK C \in Wrong : \A U \in Wrong : U \subseteq C => U = C
  <2>1. Wrong \subseteq SUBSET A
    OBVIOUS
  <2> HIDE DEF Wrong
  <2>2. HasSmallest(Wrong)
    BY <1>1, <2>1, SmallestPart
  <2> QED
    BY <2>2 DEF HasSmallest
<1>3. C \in SUBSET A /\ C \in SUBSET B /\ f[C] # g[C]
  OBVIOUS
<1>4. CASE C = {}
  BY <1>3, <1>4 DEF NetsOf
<1>5. CASE C # {}
  <2> DEFINE rest == Without(C)
  <2>1. rest \in SUBSET A /\ rest \in SUBSET B /\ rest # C /\ rest \subseteq C
    BY <1>3, <1>5, MaxIsIn DEF Without
  <2>2. f[rest] = g[rest]
    BY <1>2, <2>1
  <2>3. f[C] = Taken(log[Max(C)], f[rest]) /\ g[C] = Taken(log[Max(C)], g[rest])
    BY <1>3, <1>5 DEF NetsOf
  <2> QED
    BY <1>3, <2>2, <2>3
<1> QED
  BY <1>4, <1>5

LEMMA ChosenNetsAgree ==
    ASSUME NEW log, NEW A, IsFiniteSet(A), Numbered(A), NEW B \in SUBSET A,
           NetsOf(NetOver(log, A), log, A), NetsOf(NetOver(log, B), log, B)
    PROVE  NetOver(log, A)[B] = NetOver(log, B)[B]
<1> DEFINE f == NetOver(log, A)
           g == NetOver(log, B)
<1>1. NetsOf(f, log, A) /\ NetsOf(g, log, B)
  OBVIOUS
<1> HIDE DEF f, g
<1>2. Agree(f, g, A, B)
  BY <1>1, NetsAgree
<1>3. f[B] = g[B]
  BY <1>2 DEF Agree
<1> QED
  BY <1>3 DEF f, g

\* There is one for every finite set.
LEMMA NetsExist ==
    ASSUME NEW log, NEW S, IsFiniteSet(S), Numbered(S)
    PROVE  NetsOf(NetOver(log, S), log, S)
<1> DEFINE over(T) == NetOver(log, T)
           Wrong == {T \in SUBSET S : ~ NetsOf(over(T), log, T)}
<1>1. SUFFICES ASSUME Wrong # {} PROVE FALSE
  OBVIOUS
<1>2. PICK T \in Wrong : \A U \in Wrong : U \subseteq T => U = T
  <2>1. Wrong \subseteq SUBSET S
    OBVIOUS
  <2> HIDE DEF Wrong
  <2>2. HasSmallest(Wrong)
    BY <1>1, <2>1, SmallestPart
  <2> QED
    BY <2>2 DEF HasSmallest
<1>3. T \in SUBSET S /\ ~ NetsOf(over(T), log, T) /\ IsFiniteSet(T) /\ Numbered(T)
  BY FS_Subset DEF Numbered
<1>4. ASSUME NEW U \in SUBSET T, U # T
      PROVE  NetsOf(over(U), log, U) /\ IsFiniteSet(U) /\ Numbered(U)
  BY <1>2, <1>3, <1>4, FS_Subset DEF Numbered
<1> HIDE DEF Wrong
<1> DEFINE net == [some \in SUBSET T |->
                      IF some = {} THEN 0
                      ELSE Taken(log[Max(some)], over(Without(some))[Without(some)])]
<1>5. ASSUME NEW U \in SUBSET T, U # {}
      PROVE  /\ Without(U) \in SUBSET T /\ Without(U) # T
             /\ Without(U) \subseteq U /\ Without(U) # U
  BY <1>3, <1>5, MaxIsIn DEF Without
<1>6. ASSUME NEW U \in SUBSET T, U # T PROVE net[U] = over(U)[U]
  <2>1. NetsOf(over(U), log, U)
    BY <1>4, <1>6
  <2>2. CASE U = {}
    BY <2>1, <2>2 DEF NetsOf
  <2>3. CASE U # {}
    <3>1. over(U)[U] = Taken(log[Max(U)], over(U)[Without(U)])
      BY <2>1, <2>3 DEF NetsOf
    <3> DEFINE smaller == Without(U)
    <3>2. smaller \in SUBSET T /\ smaller # T /\ smaller \subseteq U
      BY <1>5, <2>3
    <3>3. net[U] = Taken(log[Max(U)], over(smaller)[smaller])
      BY <2>3
    <3> HIDE DEF smaller
    <3>4. NetsOf(NetOver(log, smaller), log, smaller) /\ smaller \in SUBSET U
          /\ IsFiniteSet(U) /\ Numbered(U)
      BY <1>4, <1>6, <3>2
    <3>5. NetsOf(NetOver(log, U), log, U)
      BY <2>1
    <3>6. NetOver(log, U)[smaller] = NetOver(log, smaller)[smaller]
      BY <3>4, <3>5, ChosenNetsAgree
    <3> QED
      BY <3>1, <3>3, <3>6 DEF smaller
  <2> QED
    BY <2>2, <2>3
<1>7. ASSUME NEW U \in SUBSET T, U # {}
      PROVE  net[U] = Taken(log[Max(U)], net[Without(U)])
  <2>1. net[Without(U)] = over(Without(U))[Without(U)]
    BY <1>5, <1>6, <1>7
  <2>2. net[U] = Taken(log[Max(U)], over(Without(U))[Without(U)])
    BY <1>7
  <2> QED
    BY <2>1, <2>2
<1>8. net = [some \in SUBSET T |-> net[some]] /\ net[{}] = 0
  OBVIOUS
<1> HIDE DEF net
<1>9. net = [some \in SUBSET T |->
                IF some = {} THEN 0 ELSE Taken(log[Max(some)], net[Without(some)])]
  BY <1>7, <1>8
<1>10. NetsOf(net, log, T)
  BY <1>9 DEF NetsOf
<1> QED
  BY <1>3, <1>10 DEF NetOver

LEMMA NetAmountsAreIntegers == \A screening \in DOMAIN Log : NetAmount[screening] \in Int
<1> SUFFICES ASSUME NEW screening \in DOMAIN Log PROVE NetAmount[screening] \in Int
  OBVIOUS
<1> DEFINE log == Log[screening]
           events == DOMAIN log
           net == NetOver(log, events)
<1>1. /\ events = 1 .. Len(log) /\ Len(log) \in Nat
      /\ \A i \in events : log[i].amount \in Nat
  <2>1. log \in Seq(TicketEvent)
    BY RiskAssumption
  <2> HIDE DEF log
  <2>2. events = 1 .. Len(log) /\ Len(log) \in Nat
    BY <2>1
  <2>3. ASSUME NEW i \in events PROVE log[i] \in TicketEvent
    BY <2>1, <2>2, <2>3
  <2>4. \A event \in TicketEvent : event.amount \in Nat
    BY DEF TicketEvent
  <2> QED
    BY <2>2, <2>3, <2>4
<1>2. NetAmount[screening] = net[events]
  BY NetUnfold DEF NetAmount
<1> HIDE DEF log, events
<1>3. IsFiniteSet(events) /\ Numbered(events)
  <2>1. \A last \in Nat : IsFiniteSet(1 .. last)
    BY FS_Interval
  <2>2. \A last \in Nat : Numbered(1 .. last)
    BY DEF Numbered
  <2> QED
    BY <1>1, <2>1, <2>2
<1>4. NetsOf(net, log, events)
  BY <1>3, NetsExist
<1> HIDE DEF net
<1> DEFINE Wrong == {T \in SUBSET events : net[T] \notin Int}
<1>5. Wrong = {}
  <2>1. SUFFICES ASSUME Wrong # {} PROVE FALSE
    OBVIOUS
  <2>2. PICK T \in Wrong : \A U \in Wrong : U \subseteq T => U = T
    <3>1. Wrong \subseteq SUBSET events
      OBVIOUS
    <3> HIDE DEF Wrong
    <3>2. HasSmallest(Wrong)
      BY <1>3, <2>1, <3>1, SmallestPart
    <3> QED
      BY <3>2 DEF HasSmallest
  <2>3. T \in SUBSET events /\ net[T] \notin Int
    OBVIOUS
  <2>4. T # {}
    BY <1>4, <2>3 DEF NetsOf
  <2>5. Max(T) \in T /\ Without(T) \in SUBSET events /\ Without(T) \subseteq T /\ Without(T) # T
    BY <1>3, <2>3, <2>4, MaxIsIn DEF Without
  <2>6. net[Without(T)] \in Int
    BY <2>2, <2>5
  <2>7. net[T] = Taken(log[Max(T)], net[Without(T)])
    BY <1>4, <2>3, <2>4 DEF NetsOf
  <2>8. log[Max(T)].amount \in Nat
    BY <1>1, <2>3, <2>5
  <2> QED
    BY <2>3, <2>6, <2>7, <2>8 DEF Taken
<1> QED
  BY <1>2, <1>5

-----------------------------------------------------------------------------
(***************************************************************************)
(* Facts about the batch and the requests.                                 *)
(***************************************************************************)
LEMMA BatchFacts ==
    /\ Len(Batch) \in Nat /\ Len(Batch) >= 1
    /\ Screenings = {Batch[i] : i \in 1 .. Len(Batch)}
BY AgentAssumption DEF Screenings

LEMMA RunningFacts ==
    ASSUME Slot, NEW r \in Requests, Running(r)
    PROVE  /\ runState = "running" /\ pc[r] \in InPipeline
           /\ at[r] \in 1 .. Len(Batch)
           /\ \A r2 \in Requests : Running(r2) => r2 = r
BY DEF Slot, OneRunAtATime, Running

\* Nothing is delivered and unconfirmed unless a request runs.
LEMMA NothingLandedWhenFree ==
    ASSUME Slot, Deliveries, runState # "running"
    PROVE  landed = {} /\ \A r \in Requests : ~Running(r)
BY DEF Slot, Deliveries, OneRunAtATime, Running, InPipeline

-----------------------------------------------------------------------------
(***************************************************************************)
(* A request moves from one label of the pipeline to another, or out of it *)
(* and frees the slot.                                                     *)
(***************************************************************************)
LEMMA MovesOn ==
    ASSUME Slot, NEW r \in Requests, Running(r), NEW label \in InPipeline,
           pc' = [pc EXCEPT ![r] = label], UNCHANGED runState,
           at' \in [Requests -> 1 .. Len(Batch)],
           \A q \in Requests \ {r} : at'[q] = at[q]
    PROVE  Slot'
<1>1. pc' \in [Requests -> Labels] /\ pc'[r] = label
      /\ \A q \in Requests \ {r} : pc'[q] = pc[q]
  BY DEF Slot, Labels
<1>2. \A q \in Requests : pc'[q] = "unsent" => at'[q] = 1
  BY <1>1 DEF Slot, InPipeline
<1>3. OneRunAtATime'
  BY <1>1 DEF Slot, OneRunAtATime, Running
<1> QED
  BY <1>1, <1>2, <1>3 DEF Slot

LEMMA LeavesPipeline ==
    ASSUME Slot, NEW r \in Requests, Running(r), NEW label \in {"completed", "failed"},
           pc' = [pc EXCEPT ![r] = label], runState' # "running", UNCHANGED at
    PROVE  Slot'
<1>1. pc' \in [Requests -> Labels] /\ pc'[r] = label
      /\ \A q \in Requests \ {r} : pc'[q] = pc[q]
  BY DEF Slot, Labels, Answered
<1>2. \A q \in Requests : ~Running(q)'
  BY <1>1 DEF Slot, OneRunAtATime, Running, InPipeline
<1> QED
  BY <1>1, <1>2 DEF Slot, OneRunAtATime

-----------------------------------------------------------------------------
(***************************************************************************)
(* Steps of the pipeline that neither send nor confirm.                    *)
(***************************************************************************)
LEMMA QuietStepKeeps ==
    ASSUME AgentInductive, NEW r \in Requests, Running(r), pc[r] # "await",
           NEW label \in InPipeline \ {"await", "mark"},
           pc' = [pc EXCEPT ![r] = label],
           UNCHANGED <<storeVars, at, awaiting, mempool, landed, settledTimes>>
    PROVE  AgentInductive'
<1>1. /\ Slot /\ Deliveries /\ Progress
      /\ \A q \in Requests : pc'[q] = IF q = r THEN label ELSE pc[q]
  BY DEF AgentInductive, Slot
<1>2. Slot'
  BY <1>1, MovesOn DEF storeVars, Slot
<1>3. Deliveries'
  BY <1>1 DEF Deliveries, IsTx
<1>4. Progress'
  BY <1>1 DEF Progress, Settled, Passed, PastSettle, Running, CompletedMeansSettled, storeVars
<1> QED
  BY <1>2, <1>3, <1>4 DEF AgentInductive

LEMMA SendKeeps ==
    ASSUME AgentInductive, NEW r \in Requests, Running(r), NEW tx, IsTx(tx),
           tx.screening = at[r], tx.from = r, Send(r, tx),
           tx.op = "mark" => pc[r] = "mark", pc[r] # "await",
           UNCHANGED <<storeVars, at, landed, settledTimes>>
    PROVE  AgentInductive'
<1>1. /\ Slot /\ Deliveries /\ Progress
      /\ \A q \in Requests : pc'[q] = IF q = r THEN "await" ELSE pc[q]
      /\ mempool' = mempool \cup {tx}
      /\ awaiting' = [awaiting EXCEPT ![r] = tx]
      /\ pc' = [pc EXCEPT ![r] = "await"]
  BY DEF AgentInductive, Slot, Send, Goto
<1>2. /\ awaiting = [q \in Requests |-> awaiting[q]]
      /\ \A q \in Requests : awaiting'[q] = IF q = r THEN tx ELSE awaiting[q]
      /\ awaiting' = [q \in Requests |-> awaiting'[q]]
  BY <1>1 DEF Deliveries
<1>3. Slot'
  BY <1>1, MovesOn DEF storeVars, Slot, InPipeline
<1>4. Deliveries'
  <2>1. \A q \in Requests :
            IF pc'[q] = "await" THEN IsTx(awaiting'[q]) /\ awaiting'[q].screening = at[q]
            ELSE awaiting'[q] = NoTx
    <3> TAKE q \in Requests
    <3>1. CASE q = r
      BY <1>1, <1>2, <3>1
    <3>2. CASE q # r
      BY <1>1, <1>2, <3>2 DEF Deliveries
    <3> QED
      BY <3>1, <3>2
  <2>2. \A t \in mempool' : IsTx(t) /\ t.from \in Requests
    BY <1>1 DEF Deliveries
  <2>3. \A t \in landed : \E q \in Requests : pc'[q] = "await" /\ awaiting'[q] = t
    BY <1>1, <1>2 DEF Deliveries
  <2> QED
    BY <1>2, <2>1, <2>2, <2>3 DEF Deliveries, IsTx
<1>5. Progress'
  <2>1. \A q \in Requests : Running(q)' => Running(q)
    BY <1>1 DEF Running, InPipeline
  <2>2. \A q \in Requests : PastSettle(q)' => PastSettle(q)
    BY <1>1, <1>2 DEF PastSettle
  <2>3. \A q \in Requests, i \in 1 .. Len(Batch) : Passed(q, i)' => Passed(q, i)
    BY <2>2 DEF Passed
  <2>4. \A i : Settled(i)' <=> Settled(i)
    BY DEF Settled
  <2>5. CompletedMeansSettled'
    BY <1>1 DEF Progress, CompletedMeansSettled, storeVars
  <2> QED
    BY <1>1, <2>1, <2>3, <2>4, <2>5 DEF Progress
<1> QED
  BY <1>3, <1>4, <1>5 DEF AgentInductive

-----------------------------------------------------------------------------
\* The end of a screening that has been settled: on to the next, or the result
\* is recorded, and then all of them have been.
LEMMA FinishKeeps ==
    ASSUME AgentInductive, NEW r \in Requests, Running(r), FinishScreening(r),
           Settled(at[r]),
           awaiting' = [awaiting EXCEPT ![r] = NoTx], landed' = landed \ {awaiting[r]},
           UNCHANGED <<mempool, settledTimes>>
    PROVE  AgentInductive'
<1>1. /\ Slot /\ Deliveries /\ Progress /\ at[r] \in 1 .. Len(Batch) /\ Len(Batch) \in Nat
      /\ at \in [Requests -> 1 .. Len(Batch)] /\ pc \in [Requests -> Labels]
  BY BatchFacts DEF AgentInductive, Slot
<1>2. /\ awaiting = [q \in Requests |-> awaiting[q]]
      /\ \A q \in Requests : awaiting'[q] = IF q = r THEN NoTx ELSE awaiting[q]
      /\ awaiting' = [q \in Requests |-> awaiting'[q]]
  BY <1>1 DEF Deliveries
<1>3. \A i \in 1 .. Len(Batch) : i <= at[r] => Settled(i)
  BY <1>1 DEF Progress, Passed
<1>4. \A tx \in landed' : tx \in landed /\ \E q \in Requests \ {r} :
                              pc[q] = "await" /\ awaiting[q] = tx
  BY <1>1 DEF Deliveries
<1>5. CASE at[r] < Len(Batch)
  <2>1. /\ at' = [at EXCEPT ![r] = @ + 1] /\ pc' = [pc EXCEPT ![r] = "judge"]
        /\ UNCHANGED storeVars
    BY <1>5 DEF FinishScreening, Goto
  <2>2. /\ at' \in [Requests -> 1 .. Len(Batch)] /\ at'[r] = at[r] + 1
        /\ \A q \in Requests \ {r} : at'[q] = at[q]
        /\ \A q \in Requests : pc'[q] = IF q = r THEN "judge" ELSE pc[q]
    BY <1>1, <1>5, <2>1
  <2>3. Slot'
    BY <1>1, <2>1, <2>2, MovesOn DEF storeVars, InPipeline
  <2>4. Deliveries'
    BY <1>1, <1>2, <1>4, <2>2 DEF Deliveries, IsTx
  <2>5. \A i \in 1 .. Len(Batch) : Passed(r, i)' => Settled(i)
    BY <1>1, <1>3, <2>2 DEF Passed, PastSettle
  <2>6. Progress'
    BY <1>1, <1>2, <1>4, <2>1, <2>2, <2>5 DEF Progress, Settled, Passed, PastSettle, Running,
       CompletedMeansSettled, storeVars
  <2> QED
    BY <2>3, <2>4, <2>6 DEF AgentInductive
<1>6. CASE ~(at[r] < Len(Batch))
  <2>1. /\ pc' = [pc EXCEPT ![r] = "completed"] /\ runState' = "completed"
        /\ UNCHANGED at
    BY <1>6 DEF FinishScreening, Goto
  <2>2. \A q \in Requests : pc'[q] = IF q = r THEN "completed" ELSE pc[q]
    BY <1>1, <2>1
  <2>3. Slot'
    BY <1>1, <2>1, LeavesPipeline
  <2>4. Deliveries'
    BY <1>1, <1>2, <1>4, <2>1, <2>2 DEF Deliveries, IsTx
  <2>5. \A i \in 1 .. Len(Batch) : Settled(i)
    BY <1>1, <1>3, <1>6
  <2>6. CompletedMeansSettled'
    BY <2>5, BatchFacts DEF CompletedMeansSettled, Settled
  <2>7. Progress'
    BY <1>1, <1>4, <2>5, <2>6 DEF Progress, Settled, Deliveries, IsTx
  <2> QED
    BY <2>3, <2>4, <2>7 DEF AgentInductive
<1> QED
  BY <1>5, <1>6

\* An exception ends the request; what it had been waiting for is forgotten.
LEMMA FailKeeps ==
    ASSUME AgentInductive, NEW r \in Requests, Fail(r)
    PROVE  AgentInductive'
<1>1. /\ Slot /\ Deliveries /\ Progress /\ Running(r)
      /\ pc' = [pc EXCEPT ![r] = "failed"]
      /\ \A q \in Requests : pc'[q] = IF q = r THEN "failed" ELSE pc[q]
      /\ runState' # "running"
      /\ awaiting' = [awaiting EXCEPT ![r] = NoTx] /\ landed' = landed \ {awaiting[r]}
      /\ UNCHANGED <<at, mempool, batchResult, settledTimes>>
  BY DEF AgentInductive, Slot, Fail, Goto, StateAfterAbort, historyVars
<1>2. /\ \A q \in Requests : awaiting'[q] = IF q = r THEN NoTx ELSE awaiting[q]
      /\ awaiting' = [q \in Requests |-> awaiting'[q]]
  BY <1>1 DEF Deliveries
<1>3. Slot'
  BY <1>1, LeavesPipeline
<1>4. Deliveries'
  BY <1>1, <1>2 DEF Deliveries, IsTx
<1>5. \A q \in Requests : ~Running(q)'
  BY <1>1, <1>3 DEF Slot, OneRunAtATime
<1>6. Progress'
  BY <1>1, <1>5 DEF Progress, Settled, CompletedMeansSettled
<1> QED
  BY <1>3, <1>4, <1>6 DEF AgentInductive

\* rpc() returns: of a settlement, to the next screening or to the freezing.
LEMMA ConfirmKeeps ==
    ASSUME AgentInductive, NEW r \in Requests, Confirm(r)
    PROVE  AgentInductive'
<1>1. /\ Slot /\ Deliveries /\ Progress /\ Running(r)
      /\ awaiting[r] \in landed /\ awaiting[r].screening = at[r] /\ IsTx(awaiting[r])
      /\ landed' = landed \ {awaiting[r]} /\ awaiting' = [awaiting EXCEPT ![r] = NoTx]
      /\ pc \in [Requests -> Labels] /\ pc[r] = "await"
      /\ UNCHANGED <<mempool, settledTimes>>
  BY DEF AgentInductive, Slot, Deliveries, Confirm, Confirmed, Running, InPipeline, historyVars
<1>2. awaiting[r].op = "settle" => Settled(at[r])
  BY <1>1 DEF Progress
<1>3. awaiting[r].op = "mark" => Settled(at[r])
  BY <1>1 DEF Progress, Passed, PastSettle, Slot
<1>4. /\ \A q \in Requests : awaiting'[q] = IF q = r THEN NoTx ELSE awaiting[q]
      /\ awaiting' = [q \in Requests |-> awaiting'[q]]
  BY <1>1 DEF Deliveries
<1>5. ASSUME NEW label \in {"settle", "mark"}, label = "mark" => Settled(at[r]),
             Goto(r, label), UNCHANGED <<at, storeVars>>
      PROVE  AgentInductive'
  <2>1. /\ pc' = [pc EXCEPT ![r] = label]
        /\ \A q \in Requests : pc'[q] = IF q = r THEN label ELSE pc[q]
    BY <1>1, <1>5 DEF Goto
  <2>2. Slot'
    BY <1>1, <1>5, <2>1, MovesOn DEF storeVars, InPipeline, Slot
  <2>3. Deliveries'
    BY <1>1, <1>4, <1>5, <2>1 DEF Deliveries, IsTx
  <2>4. \A i \in 1 .. Len(Batch) : Passed(r, i)' => Settled(i)
    BY <1>1, <1>4, <1>5, <2>1 DEF Progress, Passed, PastSettle, Slot
  <2>5. Progress'
    BY <1>1, <1>4, <1>5, <2>1, <2>4 DEF Progress, Settled, Passed, PastSettle, Running,
       CompletedMeansSettled, storeVars
  <2> QED
    BY <2>2, <2>3, <2>5 DEF AgentInductive
<1>6. CASE awaiting[r].op = "verify" /\ Goto(r, "settle") /\ UNCHANGED <<at, storeVars>>
  BY <1>5, <1>6
<1>7. CASE awaiting[r].op = "settle" /\ FinishScreening(r)
  BY <1>1, <1>2, <1>7, FinishKeeps
<1>8. CASE awaiting[r].op \in {"settle", "mark"} /\ Goto(r, "mark")
           /\ UNCHANGED <<at, storeVars>>
  BY <1>2, <1>3, <1>5, <1>8
<1> QED
  BY <1>6, <1>7, <1>8 DEF Confirm

LEMMA MarkRoleKeeps ==
    ASSUME AgentInductive, NEW r \in Requests, MarkRole(r)
    PROVE  AgentInductive'
<1>1. /\ Slot /\ Deliveries /\ Progress /\ Running(r) /\ pc[r] = "mark"
      /\ pc \in [Requests -> Labels] /\ at[r] \in 1 .. Len(Batch)
      /\ UNCHANGED <<landed, settledTimes>>
  BY DEF AgentInductive, Slot, MarkRole, Running, InPipeline, historyVars
<1>2. /\ Settled(at[r]) /\ awaiting[r] = NoTx
      /\ awaiting = [q \in Requests |-> awaiting[q]]
  BY <1>1 DEF Progress, Passed, PastSettle, Deliveries
<1>3. CASE FinishScreening(r) /\ UNCHANGED <<mempool, awaiting>>
  <2>1. awaiting' = [awaiting EXCEPT ![r] = NoTx]
    BY <1>2, <1>3
  <2>2. \A tx \in landed : tx # NoTx
    BY <1>1 DEF Deliveries, IsTx, NoTx
  <2>3. landed' = landed \ {awaiting[r]}
    BY <1>1, <1>2, <2>2
  <2> QED
    BY <1>1, <1>2, <1>3, <2>1, <2>3, FinishKeeps
<1>4. CASE \E role, amount : Send(r, Tx(r, "mark", role, amount)) /\ UNCHANGED <<storeVars, at>>
  <2>1. PICK role, amount : Send(r, Tx(r, "mark", role, amount)) /\ UNCHANGED <<storeVars, at>>
    BY <1>4
  <2>2. /\ IsTx(Tx(r, "mark", role, amount)) /\ Tx(r, "mark", role, amount).screening = at[r]
        /\ Tx(r, "mark", role, amount).from = r
    BY <1>1 DEF IsTx, Tx
  <2> QED
    BY <1>1, <2>1, <2>2, SendKeeps
<1>5. CASE UNCHANGED <<pc, mempool, awaiting, storeVars, at>>
  BY <1>1, <1>5 DEF AgentInductive, Slot, OneRunAtATime, Running, Deliveries, IsTx, Progress,
     Settled, Passed, PastSettle, CompletedMeansSettled, storeVars
<1> QED
  BY <1>3, <1>4, <1>5 DEF MarkRole

LEMMA PipelineKeeps ==
    ASSUME AgentInductive, NEW r \in Requests, Pipeline(r)
    PROVE  AgentInductive'
<1>1. /\ Slot /\ at[r] \in 1 .. Len(Batch)
      /\ pc[r] \in InPipeline => Running(r)
  BY DEF AgentInductive, Slot, Running
<1>2. CASE FetchHistory(r) \/ Judge(r) \/ ReadBefore(r)
  <2>1. PICK label \in {"judge", "verify", "before"} : pc' = [pc EXCEPT ![r] = label]
    BY <1>2 DEF FetchHistory, Judge, ReadBefore, Goto
  <2>2. /\ pc[r] \in InPipeline \ {"await"}
        /\ UNCHANGED <<storeVars, at, awaiting, mempool, landed, settledTimes>>
    BY <1>2 DEF FetchHistory, Judge, ReadBefore, InPipeline, historyVars
  <2> QED
    BY <1>1, <2>1, <2>2, QuietStepKeeps DEF InPipeline
<1>3. CASE EnsureVerified(r)
  <2>1. /\ pc[r] = "verify" /\ Running(r)
        /\ UNCHANGED <<storeVars, at, landed, settledTimes>>
    BY <1>1, <1>3 DEF EnsureVerified, InPipeline, historyVars
  <2>2. CASE Send(r, Tx(r, "verify", "none", 0))
    <3>1. /\ IsTx(Tx(r, "verify", "none", 0)) /\ Tx(r, "verify", "none", 0).screening = at[r]
          /\ Tx(r, "verify", "none", 0).from = r /\ Tx(r, "verify", "none", 0).op = "verify"
      BY <1>1 DEF IsTx, Tx
    <3> QED
      BY <2>1, <2>2, <3>1, SendKeeps
  <2>3. CASE Goto(r, "settle") /\ UNCHANGED <<mempool, awaiting>>
    BY <1>1, <2>1, <2>3, QuietStepKeeps DEF Goto, InPipeline
  <2> QED
    BY <1>3, <2>2, <2>3 DEF EnsureVerified
<1>4. CASE SendSettle(r)
  <2> DEFINE tx == Tx(r, "settle", "none", NetAmount[Batch[at[r]]])
  <2>1. /\ pc[r] = "settle" /\ Running(r) /\ Send(r, tx)
        /\ UNCHANGED <<storeVars, at, landed, settledTimes>>
    BY <1>1, <1>4 DEF SendSettle, InPipeline, historyVars
  <2>2. IsTx(tx) /\ tx.screening = at[r] /\ tx.from = r /\ tx.op = "settle"
    BY <1>1 DEF IsTx, Tx
  <2> HIDE DEF tx
  <2> QED
    BY <2>1, <2>2, SendKeeps
<1> QED
  BY <1>2, <1>3, <1>4, MarkRoleKeeps, ConfirmKeeps, FailKeeps DEF Pipeline

-----------------------------------------------------------------------------
(***************************************************************************)
(* The routes, the network, the restarts and everybody else.               *)
(***************************************************************************)
LEMMA TriggerKeeps ==
    ASSUME AgentInductive, NEW r \in Requests, Trigger(r)
    PROVE  AgentInductive'
<1>1. /\ Slot /\ Deliveries /\ Progress /\ pc[r] = "unsent" /\ ~Running(r) /\ at[r] = 1
      /\ pc \in [Requests -> Labels]
      /\ UNCHANGED <<batchResult, at, awaiting, mempool, landed, settledTimes>>
  BY DEF AgentInductive, Slot, Trigger, Running, InPipeline, historyVars
<1>2. ASSUME NEW label \in Labels \ {"unsent", "await", "mark"},
             pc' = [pc EXCEPT ![r] = label], OneRunAtATime'
      PROVE  AgentInductive'
  <2>1. \A q \in Requests : pc'[q] = IF q = r THEN label ELSE pc[q]
    BY <1>1, <1>2
  <2>2. Slot'
    BY <1>1, <1>2, <2>1 DEF Slot
  <2>3. Deliveries'
    BY <1>1, <1>2, <2>1 DEF Deliveries, IsTx
  <2>4. Progress'
    <3>1. \A i \in 1 .. Len(Batch) : ~Passed(r, i)'
      BY <1>1, <1>2, <2>1, BatchFacts DEF Passed, PastSettle
    <3> QED
      BY <1>1, <1>2, <2>1, <3>1 DEF Progress, Settled, Passed, PastSettle, Running,
         CompletedMeansSettled
  <2> QED
    BY <2>2, <2>3, <2>4 DEF AgentInductive
<1>3. ASSUME NEW label \in {"replayed", "conflict"}, Goto(r, label), UNCHANGED runState
      PROVE  AgentInductive'
  <2>1. pc' = [pc EXCEPT ![r] = label] /\ label \in Labels \ {"unsent", "await", "mark"}
    BY <1>3 DEF Goto, Labels, Answered, InPipeline
  <2>2. OneRunAtATime'
    BY <1>1, <1>3, <2>1 DEF Slot, OneRunAtATime, Running, InPipeline
  <2> QED
    BY <1>2, <2>1, <2>2
<1>4. CASE MayBegin /\ runState' = "running" /\ Goto(r, "history")
  <2>1. pc' = [pc EXCEPT ![r] = "history"]
        /\ "history" \in Labels \ {"unsent", "await", "mark"}
    BY <1>4 DEF Goto, Labels, InPipeline
  <2>2. OneRunAtATime'
    BY <1>1, <1>4, <2>1 DEF Slot, OneRunAtATime, Running, MayBegin, InPipeline
  <2> QED
    BY <1>2, <2>1, <2>2
<1> QED
  BY <1>3, <1>4 DEF Trigger

LEMMA ResetKeeps ==
    ASSUME AgentInductive, Reset
    PROVE  AgentInductive'
<1>1. /\ Slot /\ Deliveries /\ landed = {} /\ \A r \in Requests : ~Running(r)
      /\ UNCHANGED <<pc, at, awaiting, mempool, landed>>
      /\ runState' = "idle" /\ batchResult' = NoResult
      /\ settledTimes' = [s \in Screenings |-> 0]
  BY NothingLandedWhenFree DEF AgentInductive, Reset, MayReset, requestVars
<1>2. Slot' /\ Deliveries'
  BY <1>1 DEF Slot, OneRunAtATime, Running, Deliveries, IsTx
<1>3. Progress'
  BY <1>1 DEF Progress, CompletedMeansSettled, Running
<1> QED
  BY <1>2, <1>3 DEF AgentInductive

LEMMA CrashKeeps ==
    ASSUME AgentInductive, Crash
    PROVE  AgentInductive'
<1>1. /\ Slot /\ Deliveries /\ Progress
      /\ pc' = [r \in Requests |-> IF Running(r) THEN "lost" ELSE pc[r]]
      /\ awaiting' = [r \in Requests |-> NoTx] /\ landed' = {}
      /\ runState' = "idle" /\ batchResult' = NoResult
      /\ UNCHANGED <<at, mempool, settledTimes>>
  BY DEF AgentInductive, Crash, historyVars
<1>2. pc' \in [Requests -> Labels] /\ \A r \in Requests : ~Running(r)'
  BY <1>1 DEF Slot, Running, Labels, InPipeline
<1>3. Slot'
  BY <1>1, <1>2 DEF Slot, OneRunAtATime
<1>4. Deliveries'
  BY <1>1, <1>2 DEF Deliveries, IsTx, Running, InPipeline
<1>5. Progress'
  BY <1>1, <1>2 DEF Progress, CompletedMeansSettled
<1> QED
  BY <1>3, <1>4, <1>5 DEF AgentInductive

\* A settlement that lands counts for its screening, awaited or not.
LEMMA NetworkKeeps ==
    ASSUME AgentInductive, NEW tx \in mempool, Land(tx) \/ Lose(tx)
    PROVE  AgentInductive'
<1>1. /\ Slot /\ Deliveries /\ Progress
      /\ IsTx(tx) /\ tx.from \in Requests
      /\ mempool' = mempool \ {tx}
      /\ UNCHANGED <<runState, batchResult, pc, at, awaiting>>
  BY DEF AgentInductive, Deliveries, Land, Lose, storeVars, requestVars
<1>2. /\ settledTimes' \in [Screenings -> Nat]
      /\ \A s \in Screenings : settledTimes'[s] >= settledTimes[s]
      /\ (Land(tx) /\ tx.op = "settle") => Settled(tx.screening)'
  <2>1. /\ settledTimes \in [Screenings -> Nat] /\ Batch[tx.screening] \in Screenings
    BY <1>1, BatchFacts DEF Progress, IsTx
  <2>2. CASE settledTimes' = settledTimes /\ (Land(tx) => tx.op # "settle")
    BY <2>1, <2>2
  <2>3. CASE settledTimes' = [settledTimes EXCEPT ![Batch[tx.screening]] = @ + 1]
    BY <2>1, <2>3 DEF Settled
  <2>4. Land(tx) => Execute(tx)
    BY DEF Land
  <2>5. Execute(tx) =>
           \/ tx.op # "settle" /\ settledTimes' = settledTimes
           \/ settledTimes' = [settledTimes EXCEPT ![Batch[tx.screening]] = @ + 1]
    BY DEF Execute, historyVars
  <2>6. CASE Land(tx)
    BY <2>2, <2>3, <2>4, <2>5, <2>6
  <2>7. CASE ~Land(tx)
    BY <2>2, <2>7 DEF Lose, historyVars
  <2> QED
    BY <2>6, <2>7
<1>3. \A i \in 1 .. Len(Batch) : Settled(i) => Settled(i)'
  BY <1>1, <1>2, BatchFacts DEF Settled, Progress
<1>4. landed' \subseteq landed \cup {tx}
      /\ (tx \in landed' => tx \in landed \/ (Land(tx) /\ awaiting[tx.from] = tx))
  BY DEF Land, Lose
<1>5. awaiting[tx.from] = tx => pc[tx.from] = "await"
  BY <1>1 DEF Deliveries, IsTx, NoTx
<1>6. Slot'
  BY <1>1 DEF Slot, OneRunAtATime, Running
<1>7. Deliveries'
  BY <1>1, <1>4, <1>5 DEF Deliveries, IsTx
<1>8. \A other \in landed' : other.op = "settle" => Settled(other.screening)'
  <2>1. \A other \in landed : IsTx(other)
    BY <1>1 DEF Deliveries
  <2> QED
    BY <1>1, <1>2, <1>3, <1>4, <2>1 DEF Progress, IsTx
<1>9. CompletedMeansSettled'
  BY <1>1, <1>2 DEF Progress, CompletedMeansSettled
<1>10. Progress'
  BY <1>1, <1>2, <1>3, <1>8, <1>9 DEF Progress, Passed, PastSettle, Running
<1> QED
  BY <1>6, <1>7, <1>10 DEF AgentInductive

\* What the others do on the escrow leaves the agent and the network where they
\* are; a rejection only adds to what has been cut.
AgentUnmoved == UNCHANGED <<storeVars, requestVars, mempool, landed, crashes,
                            settledTimes, suspectCredit, frozenBy>>

LEMMA OthersLeaveTheAgent ==
    ASSUME Others \/ UNCHANGED systemVars
    PROVE  AgentUnmoved
BY DEF Others, RejectHold, systemVars, agentVars, historyVars, AgentUnmoved

LEMMA AgentIdleKeeps ==
    ASSUME AgentInductive, AgentUnmoved
    PROVE  AgentInductive'
BY DEF AgentInductive, Slot, OneRunAtATime, Running, Deliveries, IsTx, Progress, Settled,
   Passed, PastSettle, CompletedMeansSettled, AgentUnmoved, storeVars, requestVars

-----------------------------------------------------------------------------
LEMMA AgentInitInductive == AgentInit => AgentInductive
<1> SUFFICES ASSUME AgentInit PROVE AgentInductive
  OBVIOUS
<1>1. Slot
  BY BatchFacts DEF AgentInit, Slot, OneRunAtATime, Running, Labels, InPipeline
<1>2. Deliveries
  BY DEF AgentInit, Deliveries
<1>3. Progress
  BY DEF AgentInit, Progress, Running, InPipeline, CompletedMeansSettled
<1> QED
  BY <1>1, <1>2, <1>3 DEF AgentInductive

LEMMA AgentNextInductive ==
    ASSUME AgentInductive, [AgentNext]_systemVars
    PROVE  AgentInductive'
<1>1. CASE UNCHANGED systemVars
  BY <1>1, OthersLeaveTheAgent, AgentIdleKeeps
<1>2. CASE Others
  BY <1>2, OthersLeaveTheAgent, AgentIdleKeeps
<1>3. CASE Network
  BY <1>3, NetworkKeeps DEF Network
<1>4. ASSUME NEW r \in Requests, Trigger(r) \/ Pipeline(r) PROVE AgentInductive'
  BY <1>4, TriggerKeeps, PipelineKeeps
<1> QED
  BY <1>1, <1>2, <1>3, <1>4, ResetKeeps, CrashKeeps DEF AgentNext

THEOREM AgentAlwaysInductive == AgentSpec => []AgentInductive
<1>1. AgentInit => AgentInductive
  BY AgentInitInductive
<1>2. AgentInductive /\ [AgentNext]_systemVars => AgentInductive'
  BY AgentNextInductive
<1> QED
  BY <1>1, <1>2, PTL DEF AgentSpec

\* Two requests are never in the pipeline at once, and the slot is taken
\* exactly while one is.
THEOREM RunsAreAlone == AgentSpec => []OneRunAtATime
<1>1. AgentInductive => OneRunAtATime
  BY DEF AgentInductive, Slot
<1> QED
  BY <1>1, AgentAlwaysInductive, PTL

\* A result is recorded, and replayed, only if every screening of the batch has
\* been settled on chain since the last reset.
THEOREM ResultsAreSettled == AgentSpec => []CompletedMeansSettled
<1>1. AgentInductive => CompletedMeansSettled
  BY DEF AgentInductive, Progress
<1> QED
  BY <1>1, AgentAlwaysInductive, PTL

-----------------------------------------------------------------------------
(***************************************************************************)
(* What a request sends, and the result the store keeps.  A transaction on *)
(* its way is awaited, or was left behind by a request that failed or was  *)
(* lost with the server; a settlement is the same transaction whenever a   *)
(* request sends it for a screening.                                       *)
(***************************************************************************)
Abandoned == {"failed", "lost"}

SettleOf(r, i) ==
    [from |-> r, screening |-> i, op |-> "settle", role |-> "none",
     amount |-> NetAmount[Batch[i]]]

\* A transaction of request r, sent for the screening or the role it is at.
IsMine(tx, r) ==
    /\ tx.from = r
    /\ tx.op = "settle" => tx = SettleOf(r, tx.screening)
    /\ tx.op = "mark" => tx.role \in Roles /\ tx.amount \in Int

\* A transaction on its way is awaited by the request that sent it, or was left
\* behind by it.
Posted ==
    /\ \A tx \in mempool :
          /\ tx \notin landed /\ IsMine(tx, tx.from)
          /\ pc[tx.from] \in Abandoned \/ awaiting[tx.from] = tx
    /\ \A r \in Requests : pc[r] = "await" => IsMine(awaiting[r], r)
    /\ (runState = "completed") <=> (batchResult # NoResult)

Verdicts == {"proceed", "partial-hold"}

Shapes ==
    /\ isNew \in [Requests -> BOOLEAN]
    /\ outcomes \in [Requests -> Seq(Verdicts)]
    /\ before \in [Requests -> [Roles -> U64]]
    /\ suspectCredit \in [Requests -> [Roles -> Nat]]
    /\ frozenBy \in [Requests -> [Roles -> Nat]]
    /\ cutUnder \in [Requests -> [Roles -> Nat]]
    /\ crashes \in Nat

\* A screening has its verdict once it is judged, and a role is frozen in turn.
Places ==
    /\ roleAt \in [Requests -> 1 .. 5]
    /\ \A r \in Requests :
          /\ Len(outcomes[r]) \in 0 .. at[r]
          /\ pc[r] = "unsent" => Len(outcomes[r]) = 0
          /\ Running(r) => Len(outcomes[r]) = IF pc[r] \in {"history", "judge"} THEN at[r] - 1
                                              ELSE at[r]
          /\ pc[r] = "await" /\ awaiting[r].op = "mark" =>
                roleAt[r] \in 1 .. 4 /\ awaiting[r].role = RoleOrder[roleAt[r]]

Books == Posted /\ Shapes /\ Places

-----------------------------------------------------------------------------
(***************************************************************************)
(* The agent and everybody around it drive the program by its own          *)
(* instructions.  Nobody unregisters the escrow or takes back a            *)
(* settlement, and only a rejection makes a share shrink.                  *)
(***************************************************************************)
Counts ==
    /\ batch_count' >= batch_count
    /\ Exists => Exists'

Grows == \A role \in Roles : claimable'[role] >= claimable[role]

LEMMA SettleStep ==
    ASSUME Inductive, NEW amount \in U64, SettleBatch(amount, AgentRule, AgentWallets)
    PROVE  Next /\ Grows /\ Counts /\ batch_count' = batch_count + 1 /\ Exists /\ batch_count \in Nat
<1>1. AgentRule \in Rules /\ AgentWallets \in WalletAssignments
  BY AgentAssumption
<1>2. Next
  BY <1>1 DEF Next, Agent
<1>3. batch_count' = batch_count + 1 /\ batch_count \in Nat
  BY Numbers DEF SettleBatch, MaySettle, U32
<1>4. Exists /\ Exists'
  BY DEF SettleBatch, MaySettle, Settleable, StateAfterSettle, Exists, Uninitialized
<1>5. \A role \in Roles : claimable'[role] >= claimable[role]
  <2> DEFINE s == Division(amount, AgentRule)
  <2>1. claimable' = [role \in Roles |-> claimable[role] + Credit(s)[role]]
    BY DEF SettleBatch, MaySettle
  <2>2. Credit(s) \in [Roles -> Nat]
    BY <1>1, SettledDivision
  <2> HIDE DEF s
  <2> QED
    BY <2>1, <2>2, Numbers
<1> QED
  BY <1>2, <1>3, <1>4, <1>5 DEF Grows, Counts

LEMMA ExecuteStep ==
    ASSUME Inductive, Deliveries, Posted, NEW tx \in mempool, Execute(tx)
    PROVE  Next /\ Grows /\ Counts
<1>1. CASE tx.op = "verify" /\ VerifyEscrow
  <2>1. Next
    BY <1>1 DEF Next, Agent
  <2>2. Grows /\ Counts
    BY <1>1, Numbers DEF VerifyEscrow, Grows, Counts, Exists, Uninitialized, allocVars, U32
  <2> QED
    BY <2>1, <2>2
<1>2. CASE tx.op = "settle" /\ SettleBatch(tx.amount, AgentRule, AgentWallets)
  <2>1. tx.screening \in 1 .. Len(Batch) /\ tx.amount = NetAmount[Batch[tx.screening]]
    BY <1>2 DEF Deliveries, IsTx, Posted, IsMine, SettleOf
  <2>2. tx.amount \in Int
    BY <2>1, AgentAssumption, NetAmountsAreIntegers
  <2>3. tx.amount \in U64
    BY <1>2, <2>2, Numbers DEF SettleBatch, MaySettle, U64, Inductive, TypeOK
  <2> QED
    BY <1>2, <2>3, SettleStep
<1>3. CASE tx.op = "mark" /\ MarkDisputed(tx.role, tx.amount)
  <2>1. tx.role \in Roles /\ tx.amount \in Int
    BY <1>3 DEF Posted, IsMine
  <2>2. tx.amount \in U64
    BY <1>3, <2>1, Numbers DEF MarkDisputed, U64, Inductive, TypeOK
  <2>3. Next
    BY <1>3, <2>1, <2>2 DEF Next, Agent
  <2>4. Grows /\ Counts
    BY <1>3, Numbers DEF MarkDisputed, Grows, Counts, Exists, Uninitialized, U32
  <2> QED
    BY <2>3, <2>4
<1> QED
  BY <1>1, <1>2, <1>3 DEF Execute

LEMMA UseEscrowStep ==
    ASSUME Inductive, UseEscrow
    PROVE  Next /\ Grows /\ Counts
<1>1. ASSUME NEW theaterKey \in Wallets, NEW rule \in Rules, NEW version \in Versions,
             NEW mgAmount \in MgAmounts, NEW investmentAmount \in InvestmentAmounts,
             InitEscrow(theaterKey, rule, version, mgAmount, investmentAmount)
      PROVE  Next /\ Grows /\ Counts
  <2>1. Next
    BY <1>1 DEF Next, Agent
  <2>2. Grows /\ Counts
    BY <1>1, Numbers DEF InitEscrow, Grows, Counts, Exists, Uninitialized, allocVars, U32
  <2> QED
    BY <2>1, <2>2
<1>2. ASSUME NEW price \in TicketPrices, Deposit(price) \/ RefundPending(price)
      PROVE  Next /\ Grows /\ Counts
  <2>1. price \in U64
    BY AgentAssumption
  <2>2. Next
    BY <1>2, <2>1 DEF Next, Audience
  <2>3. Grows /\ Counts
    BY <1>2, Numbers DEF Deposit, RefundPending, MayRefund, Grows, Counts, Exists,
       Uninitialized, allocVars, U32
  <2> QED
    BY <2>2, <2>3
<1>3. ASSUME NEW role \in Roles, NEW amount \in ShareAmounts, Claim(role, amount)
      PROVE  Next /\ Grows /\ Counts
  <2>1. amount \in U64
    BY AgentAssumption
  <2>2. Next
    BY <1>3, <2>1 DEF Next, RightHolders
  <2>3. Grows /\ Counts
    BY <1>3, Numbers DEF Claim, Grows, Counts, Exists, Uninitialized, U32
  <2> QED
    BY <2>2, <2>3
<1>4. ASSUME NEW role \in Roles, NEW amount \in ShareAmounts, MarkDisputed(role, amount)
      PROVE  Next /\ Grows /\ Counts
  <2>1. amount \in U64
    BY AgentAssumption
  <2>2. Next
    BY <1>4, <2>1 DEF Next, Agent
  <2>3. Grows /\ Counts
    BY <1>4, Numbers DEF MarkDisputed, Grows, Counts, Exists, Uninitialized, U32
  <2> QED
    BY <2>2, <2>3
<1>5. ASSUME NEW role \in Roles, ResolveDispute(role, TRUE)
      PROVE  Next /\ Grows /\ Counts
  <2>1. Next
    BY <1>5 DEF Next, Agent
  <2>2. Grows /\ Counts
    BY <1>5, Numbers DEF ResolveDispute, ApproveDispute, StateAfterResolve, Grows, Counts,
       Exists, Uninitialized, U32
  <2> QED
    BY <2>1, <2>2
<1> QED
  BY <1>1, <1>2, <1>3, <1>4, <1>5 DEF UseEscrow

\* A rejection cuts the share it was held on by what was held, and no other.
LEMMA RejectHoldStep ==
    ASSUME Inductive, NEW role \in Roles, RejectHold(role)
    PROVE  /\ Next /\ Counts
           /\ claimable' = [claimable EXCEPT ![role] = @ - held[role]]
<1>1. ResolveDispute(role, FALSE)
  BY DEF RejectHold
<1>2. Next
  BY <1>1 DEF Next, Agent
<1>3. Counts
  BY <1>1, Numbers DEF ResolveDispute, RejectDispute, StateAfterResolve, Counts, Exists,
     Uninitialized, U32
<1>4. claimable' = [claimable EXCEPT ![role] = @ - held[role]]
  BY <1>1 DEF ResolveDispute, RejectDispute, ShareAfterRejection
<1> QED
  BY <1>2, <1>3, <1>4

\* A step of the agent's system is a step of the program, or leaves it alone;
\* only a rejection makes a share shrink.
LEMMA EscrowStep ==
    ASSUME Inductive, Deliveries, Posted, [AgentNext]_systemVars
    PROVE  /\ [Next]_vars /\ Counts
           /\ Grows \/ \E role \in Roles : RejectHold(role)
<1>1. ASSUME UNCHANGED vars PROVE [Next]_vars /\ Grows /\ Counts
  BY <1>1, Numbers DEF vars, allocVars, Grows, Counts, Exists, Uninitialized, U32
<1>2. CASE UNCHANGED systemVars
  BY <1>1, <1>2 DEF systemVars
<1>3. ASSUME NEW r \in Requests, Trigger(r) \/ Pipeline(r)
      PROVE  [Next]_vars /\ Grows /\ Counts
  BY <1>1, <1>3 DEF Trigger, Pipeline, FetchHistory, Judge, ReadBefore, EnsureVerified,
     SendSettle, MarkRole, Confirm, Fail
<1>4. CASE Reset \/ Crash
  BY <1>1, <1>4 DEF Reset, Crash
<1>5. ASSUME NEW tx \in mempool, Land(tx) \/ Lose(tx)
      PROVE  [Next]_vars /\ Grows /\ Counts
  BY <1>1, <1>5, ExecuteStep DEF Land, Lose
<1>6. CASE Others
  BY <1>6, UseEscrowStep, RejectHoldStep DEF Others
<1> QED
  BY <1>2, <1>3, <1>4, <1>5, <1>6 DEF AgentNext, Network

-----------------------------------------------------------------------------
(***************************************************************************)
(* The shapes of what the requests hold, and what is on its way.           *)
(***************************************************************************)
LEMMA RolesInOrder ==
    /\ Len(RoleOrder) = 4
    /\ \A k \in 1 .. 4 : RoleOrder[k] \in Roles
    /\ \A role \in Roles : \E k \in 1 .. 4 : RoleOrder[k] = role
    /\ \A i, j \in 1 .. 4 : RoleOrder[i] = RoleOrder[j] => i = j
<1>1. /\ RoleOrder[1] = "Theater" /\ RoleOrder[2] = "Distributor"
      /\ RoleOrder[3] = "Producer" /\ RoleOrder[4] = "Investor"
      /\ Len(RoleOrder) = 4
  BY DEF RoleOrder
<1>2. \A k \in 1 .. 4 : RoleOrder[k] \in Roles
  BY <1>1 DEF Roles
<1>3. \A role \in Roles : \E k \in 1 .. 4 : RoleOrder[k] = role
  BY <1>1 DEF Roles
<1>4. \A i, j \in 1 .. 4 : RoleOrder[i] = RoleOrder[j] => i = j
  BY <1>1
<1> QED
  BY <1>1, <1>2, <1>3, <1>4

\* judge/: a verdict is one of two.
LEMMA VerdictRange ==
    ASSUME NEW b \in BOOLEAN, NEW i \in 1 .. Len(Batch)
    PROVE  VerdictOf[b][Batch[i]] \in Verdicts
<1>1. Batch[i] \in DOMAIN Log
  BY AgentAssumption
<1>2. VerdictOf[b][Batch[i]] =
         JudgeSettlement(VerifyIntegrity(Log[Batch[i]], AdjustThresholds(b, Batch[i])))
  BY <1>1 DEF VerdictOf
<1> QED
  BY <1>2 DEF JudgeSettlement, Verdicts

LEMMA TxKinds ==
    ASSUME NEW r, NEW op, NEW role, NEW amount
    PROVE  /\ Tx(r, op, role, amount).from = r
           /\ Tx(r, op, role, amount).screening = at[r]
           /\ Tx(r, op, role, amount).op = op
           /\ Tx(r, op, role, amount).role = role
           /\ Tx(r, op, role, amount).amount = amount
BY DEF Tx

\* A request sends: what it had sent before is not on its way any more.
LEMMA SendPosts ==
    ASSUME AgentInductive, Posted, NEW r \in Requests, Running(r), pc[r] # "await",
           NEW tx, Send(r, tx), IsMine(tx, r), IsTx(tx), UNCHANGED <<storeVars, landed>>
    PROVE  Posted'
<1>1. /\ Slot /\ Deliveries
      /\ \A q \in Requests : pc'[q] = IF q = r THEN "await" ELSE pc[q]
      /\ mempool' = mempool \cup {tx}
      /\ \A q \in Requests : awaiting'[q] = IF q = r THEN tx ELSE awaiting[q]
  BY DEF AgentInductive, Slot, Send, Goto, Deliveries
<1>2. tx.from = r
  BY DEF IsMine
<1>3. tx \notin landed
  BY <1>1, <1>2 DEF Deliveries, Posted, IsMine
<1>4. \A other \in mempool : other.from # r
  BY <1>1 DEF Posted, Deliveries, Running, InPipeline, Abandoned, IsTx, NoTx
<1>5. \A q \in Requests : pc'[q] = "await" => IsMine(awaiting'[q], q)
  BY <1>1 DEF Posted
<1>6. ASSUME NEW other \in mempool'
      PROVE  /\ other \notin landed' /\ IsMine(other, other.from)
             /\ pc'[other.from] \in Abandoned \/ awaiting'[other.from] = other
  BY <1>1, <1>2, <1>3, <1>4 DEF Posted, Deliveries
<1> QED
  BY <1>5, <1>6 DEF Posted, storeVars, IsMine, SettleOf

\* A request goes on, or ends, and waits for nothing: what it had awaited has
\* landed, or is left behind.
LEMMA StepPosts ==
    ASSUME AgentInductive, Posted, NEW r \in Requests, Running(r),
           NEW label, label # "await", pc' = [pc EXCEPT ![r] = label],
           awaiting' = [awaiting EXCEPT ![r] = NoTx], landed' = landed \ {awaiting[r]},
           UNCHANGED mempool, label \in Abandoned \/ awaiting[r] \notin mempool,
           ((runState = "completed") <=> (batchResult # NoResult))'
    PROVE  Posted'
<1>1. /\ Slot /\ Deliveries
      /\ \A q \in Requests : pc'[q] = IF q = r THEN label ELSE pc[q]
      /\ \A q \in Requests : awaiting'[q] = IF q = r THEN NoTx ELSE awaiting[q]
  BY DEF AgentInductive, Slot, Deliveries
<1>2. pc[r] \notin Abandoned
  BY DEF Running, InPipeline, Abandoned
<1>3. \A q \in Requests : pc'[q] = "await" => IsMine(awaiting'[q], q)
  BY <1>1 DEF Posted
<1>4. ASSUME NEW tx \in mempool
      PROVE  /\ tx \notin landed' /\ IsMine(tx, tx.from)
             /\ pc'[tx.from] \in Abandoned \/ awaiting'[tx.from] = tx
  BY <1>1, <1>2 DEF Posted, Deliveries
<1> QED
  BY <1>3, <1>4 DEF Posted, IsMine, SettleOf

\* What a request that does not wait has awaited: nothing.
LEMMA NothingAwaited ==
    ASSUME AgentInductive, NEW r \in Requests, pc[r] # "await"
    PROVE  /\ awaiting[r] = NoTx /\ NoTx \notin mempool
           /\ landed = landed \ {NoTx} /\ awaiting = [awaiting EXCEPT ![r] = NoTx]
<1>1. \A tx \in mempool \cup landed : IsTx(tx)
  BY DEF AgentInductive, Deliveries
<1>2. ~IsTx(NoTx)
  BY DEF IsTx, NoTx
<1>3. awaiting[r] = NoTx /\ awaiting = [q \in Requests |-> awaiting[q]]
  BY DEF AgentInductive, Deliveries
<1> QED
  BY <1>1, <1>2, <1>3

LEMMA QuietPosts ==
    ASSUME AgentInductive, Posted, NEW r \in Requests, Running(r), pc[r] # "await",
           NEW label, label # "await", pc' = [pc EXCEPT ![r] = label],
           UNCHANGED <<awaiting, landed, mempool>>,
           ((runState = "completed") <=> (batchResult # NoResult))'
    PROVE  Posted'
BY NothingAwaited, StepPosts

LEMMA FinishStore ==
    ASSUME NEW r \in Requests, FinishScreening(r), Len(outcomes[r]) # 0,
           (runState = "completed") <=> (batchResult # NoResult)
    PROVE  /\ ((runState = "completed") <=> (batchResult # NoResult))'
           /\ \E label \in {"judge", "completed"} : pc' = [pc EXCEPT ![r] = label]
BY DEF FinishScreening, Goto, storeVars, NoResult

LEMMA PipelineShapes ==
    ASSUME Inductive, AgentInductive, Books, NEW r \in Requests, Pipeline(r)
    PROVE  Shapes'
<1>1. /\ Shapes /\ at[r] \in 1 .. Len(Batch)
      /\ claimable \in [Roles -> U64]
  BY DEF Books, AgentInductive, Slot, Inductive, TypeOK
<1>2. CASE FetchHistory(r)
  <2>1. NothingSettled \in BOOLEAN
    BY DEF NothingSettled
  <2> QED
    BY <1>1, <1>2, <2>1 DEF FetchHistory, Shapes, historyVars
<1>3. CASE Judge(r)
  <2>1. Verdict(r, Batch[at[r]]) \in Verdicts
    BY <1>1, VerdictRange DEF Shapes, Verdict
  <2>2. outcomes' = [outcomes EXCEPT ![r] = Append(outcomes[r], Verdict(r, Batch[at[r]]))]
    BY <1>3 DEF Judge
  <2>3. outcomes' \in [Requests -> Seq(Verdicts)]
    BY <1>1, <2>1, <2>2 DEF Shapes
  <2> QED
    BY <1>1, <1>3, <2>3 DEF Judge, Shapes, historyVars
<1>4. CASE ReadBefore(r)
  BY <1>1, <1>4 DEF ReadBefore, Shapes, historyVars
<1>5. CASE EnsureVerified(r) \/ SendSettle(r) \/ MarkRole(r) \/ Confirm(r) \/ Fail(r)
  BY <1>1, <1>5 DEF EnsureVerified, SendSettle, MarkRole, Confirm, Fail, Shapes, historyVars
<1> QED
  BY <1>2, <1>3, <1>4, <1>5 DEF Pipeline

LEMMA LandShapes ==
    ASSUME Inductive, AgentInductive, Books, Inductive',
           NEW tx \in mempool, Land(tx)
    PROVE  Shapes'
<1>0. Grows
  BY ExecuteStep DEF Land, AgentInductive, Books
<1>1. /\ Shapes /\ tx.from \in Requests /\ UNCHANGED <<isNew, outcomes, before, crashes>>
  BY DEF Books, AgentInductive, Deliveries, Land, requestVars
<1>2. CASE tx.op = "verify" /\ UNCHANGED historyVars
  BY <1>1, <1>2 DEF Shapes, historyVars
<1>3. CASE tx.op = "settle" /\ UNCHANGED <<frozenBy, cutUnder>>
           /\ suspectCredit' =
                 IF Verdict(tx.from, Batch[tx.screening]) = "proceed" THEN suspectCredit
                 ELSE [suspectCredit EXCEPT ![tx.from] =
                        [role \in Roles |-> @[role] + claimable'[role] - claimable[role]]]
  <2>1. \A role \in Roles :
           /\ claimable[role] \in Nat /\ claimable'[role] \in Nat
           /\ claimable'[role] >= claimable[role]
    <3>1. U64 \subseteq Nat
      BY DEF U64
    <3>2. claimable \in [Roles -> U64] /\ claimable' \in [Roles -> U64]
      BY DEF Inductive, TypeOK
    <3> QED
      BY <1>0, <3>1, <3>2 DEF Grows
  <2>2. suspectCredit' \in [Requests -> [Roles -> Nat]]
    BY <1>1, <1>3, <2>1 DEF Shapes
  <2> QED
    BY <1>1, <1>3, <2>2 DEF Shapes
<1>4. CASE tx.op = "mark" /\ MarkDisputed(tx.role, tx.amount)
           /\ frozenBy' = [frozenBy EXCEPT ![tx.from][tx.role] = @ + tx.amount]
           /\ UNCHANGED <<suspectCredit, cutUnder>>
  <2>1. tx.role \in Roles /\ tx.amount \in Nat
    BY <1>4 DEF Books, Posted, IsMine, MarkDisputed
  <2>2. frozenBy' \in [Requests -> [Roles -> Nat]]
    BY <1>1, <1>4, <2>1 DEF Shapes
  <2> QED
    BY <1>1, <1>4, <2>2 DEF Shapes
<1> QED
  BY <1>2, <1>3, <1>4 DEF Land, Execute

LEMMA RejectHoldShapes ==
    ASSUME Inductive, Shapes, NEW role \in Roles, RejectHold(role)
    PROVE  Shapes'
<1>1. held[role] \in Nat
  BY Numbers
<1>2. cutUnder' = [r \in Requests |->
         IF ReadsAgain(r, role) THEN [cutUnder[r] EXCEPT ![role] = @ + held[role]]
         ELSE cutUnder[r]]
  BY DEF RejectHold
<1>3. ASSUME NEW r \in Requests
      PROVE  /\ cutUnder[r] \in [Roles -> Nat]
             /\ [cutUnder[r] EXCEPT ![role] = @ + held[role]] \in [Roles -> Nat]
  BY <1>1, <1>3 DEF Shapes
<1>4. cutUnder' \in [Requests -> [Roles -> Nat]]
  BY <1>2, <1>3
<1> QED
  BY <1>4 DEF RejectHold, requestVars, Shapes

LEMMA ShapesKept ==
    ASSUME Inductive, AgentInductive, Books, Inductive', [AgentNext]_systemVars
    PROVE  Shapes'
<1>0. Shapes
  BY DEF Books
<1>1. CASE UNCHANGED agentVars
  BY <1>0, <1>1 DEF agentVars, requestVars, historyVars, Shapes
<1>2. ASSUME NEW r \in Requests, Trigger(r)
      PROVE  Shapes'
  BY <1>0, <1>2 DEF Trigger, historyVars, Shapes
<1>3. CASE Reset \/ Crash
  BY <1>0, <1>3 DEF Reset, Crash, requestVars, historyVars, Shapes
<1>4. ASSUME NEW tx \in mempool, Land(tx) \/ Lose(tx)
      PROVE  Shapes'
  <2>1. CASE Lose(tx)
    BY <1>0, <2>1 DEF Lose, requestVars, historyVars, Shapes
  <2> QED
    BY <1>4, <2>1, LandShapes
<1>5. CASE Others
  BY <1>0, <1>1, <1>5, RejectHoldShapes DEF Others
<1> QED
  BY <1>1, <1>2, <1>3, <1>4, <1>5, PipelineShapes DEF AgentNext, Network, systemVars

\* A request takes a step to a label: the other requests stay in their places.
LEMMA StepPlaces ==
    ASSUME AgentInductive, Books, NEW r \in Requests, Running(r), NEW label \in Labels,
           pc' = [pc EXCEPT ![r] = label],
           \A q \in Requests \ {r} :
              /\ at'[q] = at[q] /\ outcomes'[q] = outcomes[q] /\ roleAt'[q] = roleAt[q]
              /\ awaiting'[q] = awaiting[q],
           roleAt' \in [Requests -> 1 .. 5],
           label # "unsent", Len(outcomes'[r]) \in 0 .. at'[r],
           label \in InPipeline => Len(outcomes'[r]) = IF label \in {"history", "judge"}
                                                      THEN at'[r] - 1 ELSE at'[r],
           label = "await" /\ awaiting'[r].op = "mark" =>
                 roleAt'[r] \in 1 .. 4 /\ awaiting'[r].role = RoleOrder[roleAt'[r]]
    PROVE  Places'
<1>1. \A q \in Requests : pc'[q] = IF q = r THEN label ELSE pc[q]
  BY DEF AgentInductive, Slot
<1> QED
  BY <1>1 DEF Books, Places, Running

LEMMA FinishPlaces ==
    ASSUME AgentInductive, Books, NEW r \in Requests, Running(r), FinishScreening(r),
           pc[r] \in {"mark", "await"}, UNCHANGED <<outcomes, roleAt>>,
           \A q \in Requests \ {r} : awaiting'[q] = awaiting[q]
    PROVE  Places'
<1>1. /\ at \in [Requests -> 1 .. Len(Batch)] /\ Len(Batch) \in Nat
      /\ at[r] \in 1 .. Len(Batch) /\ Len(outcomes[r]) = at[r]
      /\ roleAt \in [Requests -> 1 .. 5]
  BY BatchFacts DEF AgentInductive, Slot, Books, Places
<1>2. PICK label \in {"judge", "completed"} :
         /\ pc' = [pc EXCEPT ![r] = label]
         /\ at' = IF label = "judge" THEN [at EXCEPT ![r] = @ + 1] ELSE at
  BY DEF FinishScreening, Goto
<1>3. /\ \A q \in Requests \ {r} : at'[q] = at[q]
      /\ at'[r] = IF label = "judge" THEN at[r] + 1 ELSE at[r]
      /\ label \in Labels
  BY <1>1, <1>2 DEF Labels, InPipeline, Answered
<1>4. /\ Len(outcomes'[r]) \in 0 .. at'[r]
      /\ label \in InPipeline => label = "judge" /\ Len(outcomes'[r]) = at'[r] - 1
      /\ label \notin {"unsent", "await"}
  BY <1>1, <1>2, <1>3 DEF InPipeline
<1>5. /\ pc' = [pc EXCEPT ![r] = label] /\ roleAt' \in [Requests -> 1 .. 5]
      /\ \A q \in Requests \ {r} :
            at'[q] = at[q] /\ outcomes'[q] = outcomes[q] /\ roleAt'[q] = roleAt[q]
  BY <1>1, <1>2, <1>3
<1> QED
  BY <1>3, <1>4, <1>5, StepPlaces

LEMMA PipelinePlaces ==
    ASSUME Inductive, AgentInductive, Books, NEW r \in Requests, Pipeline(r)
    PROVE  Places'
<1>1. /\ at \in [Requests -> 1 .. Len(Batch)] /\ pc \in [Requests -> Labels]
      /\ at[r] \in 1 .. Len(Batch) /\ Len(Batch) \in Nat
      /\ roleAt \in [Requests -> 1 .. 5] /\ roleAt[r] \in 1 .. 5
      /\ outcomes \in [Requests -> Seq(Verdicts)] /\ outcomes[r] \in Seq(Verdicts)
      /\ Len(outcomes[r]) \in 0 .. at[r]
      /\ pc[r] \in InPipeline => Running(r)
      /\ Running(r) => Len(outcomes[r]) = IF pc[r] \in {"history", "judge"} THEN at[r] - 1
                                          ELSE at[r]
      /\ awaiting = [q \in Requests |-> awaiting[q]]
      /\ InPipeline \subseteq Labels /\ "failed" \in Labels
  BY BatchFacts DEF AgentInductive, Slot, Books, Places, Shapes, Running, Deliveries, Labels,
     Answered
<1>2. CASE FetchHistory(r)
  <2>1. /\ pc[r] = "history" /\ Running(r) /\ pc' = [pc EXCEPT ![r] = "judge"]
        /\ UNCHANGED <<at, outcomes, roleAt, awaiting>>
    BY <1>1, <1>2 DEF FetchHistory, Goto, InPipeline
  <2> QED
    BY <1>1, <2>1, StepPlaces DEF InPipeline
<1>3. CASE Judge(r)
  <2>1. /\ pc[r] = "judge" /\ Running(r)
        /\ UNCHANGED <<at, roleAt, awaiting>>
        /\ outcomes' = [outcomes EXCEPT ![r] = Append(outcomes[r], Verdict(r, Batch[at[r]]))]
    BY <1>1, <1>3 DEF Judge, InPipeline
  <2>2. PICK label \in {"verify", "before"} : pc' = [pc EXCEPT ![r] = label]
    BY <1>3 DEF Judge, Goto
  <2>3. Verdict(r, Batch[at[r]]) \in Verdicts
    BY <1>1, VerdictRange DEF Books, Shapes, Verdict
  <2>4. /\ Len(outcomes'[r]) = Len(outcomes[r]) + 1
        /\ \A q \in Requests \ {r} : outcomes'[q] = outcomes[q]
    BY <1>1, <2>1, <2>3
  <2>5. /\ label \in Labels /\ label \notin {"unsent", "await", "history", "judge"}
        /\ Len(outcomes'[r]) = at'[r] /\ Len(outcomes'[r]) \in 0 .. at'[r]
    BY <1>1, <2>1, <2>2, <2>4 DEF InPipeline
  <2> QED
    BY <1>1, <2>1, <2>2, <2>4, <2>5, StepPlaces
<1>4. CASE ReadBefore(r)
  <2>1. /\ pc[r] = "before" /\ Running(r) /\ pc' = [pc EXCEPT ![r] = "verify"]
        /\ UNCHANGED <<at, outcomes, roleAt, awaiting>>
    BY <1>1, <1>4 DEF ReadBefore, Goto, InPipeline
  <2> QED
    BY <1>1, <2>1, StepPlaces DEF InPipeline
<1>5. ASSUME NEW tx, Send(r, tx), pc[r] \in {"verify", "settle", "mark"},
             UNCHANGED <<at, outcomes, roleAt>>,
             tx.op = "mark" => roleAt[r] \in 1 .. 4 /\ tx.role = RoleOrder[roleAt[r]]
      PROVE  Places'
  <2>1. /\ Running(r) /\ pc' = [pc EXCEPT ![r] = "await"]
        /\ \A q \in Requests \ {r} : awaiting'[q] = awaiting[q]
        /\ awaiting'[r] = tx
    BY <1>1, <1>5 DEF Send, Goto, InPipeline
  <2> QED
    BY <1>1, <1>5, <2>1, StepPlaces DEF InPipeline
<1>6. CASE EnsureVerified(r)
  <2>1. CASE Send(r, Tx(r, "verify", "none", 0))
    BY <1>5, <1>6, <2>1, TxKinds DEF EnsureVerified
  <2>2. CASE Goto(r, "settle") /\ UNCHANGED awaiting
    <3>1. Running(r) /\ pc' = [pc EXCEPT ![r] = "settle"] /\ pc[r] = "verify"
      BY <1>1, <1>6, <2>2 DEF EnsureVerified, Goto, InPipeline
    <3> QED
      BY <1>1, <1>6, <2>2, <3>1, StepPlaces DEF EnsureVerified, InPipeline
  <2> QED
    BY <1>6, <2>1, <2>2 DEF EnsureVerified
<1>7. CASE SendSettle(r)
  BY <1>5, <1>7, TxKinds DEF SendSettle
<1>8. CASE MarkRole(r)
  <2>1. pc[r] = "mark" /\ Running(r) /\ UNCHANGED outcomes
    BY <1>1, <1>8 DEF MarkRole, InPipeline
  <2>2. CASE roleAt[r] > Len(RoleOrder)
    BY <1>8, <2>1, <2>2, FinishPlaces DEF MarkRole
  <2>3. CASE ~(roleAt[r] > Len(RoleOrder))
    <3>1. roleAt[r] \in 1 .. 4
      BY <1>1, <2>3, RolesInOrder
    <3>2. ASSUME NEW amount, Send(r, Tx(r, "mark", RoleOrder[roleAt[r]], amount)),
                 UNCHANGED <<roleAt, at>>
          PROVE  Places'
      BY <1>5, <2>1, <3>1, <3>2, TxKinds
    <3>3. CASE roleAt' = [roleAt EXCEPT ![r] = @ + 1] /\ UNCHANGED <<pc, awaiting, at>>
      BY <1>1, <2>1, <3>1, <3>3 DEF Books, Places, Running
    <3> QED
      BY <1>8, <2>3, <3>2, <3>3 DEF MarkRole
  <2> QED
    BY <2>2, <2>3
<1>9. CASE Confirm(r)
  <2>1. /\ pc[r] = "await" /\ Running(r) /\ UNCHANGED outcomes
        /\ awaiting' = [awaiting EXCEPT ![r] = NoTx]
        /\ \A q \in Requests \ {r} : awaiting'[q] = awaiting[q]
    BY <1>1, <1>9 DEF Confirm, InPipeline
  <2>2. CASE FinishScreening(r) /\ UNCHANGED roleAt
    BY <2>1, <2>2, FinishPlaces
  <2>3. ASSUME NEW label \in {"settle", "mark"}, Goto(r, label), UNCHANGED at,
               roleAt' \in [Requests -> 1 .. 5],
               \A q \in Requests \ {r} : roleAt'[q] = roleAt[q]
        PROVE  Places'
    <3>1. /\ label \in Labels /\ label \notin {"unsent", "await", "history", "judge"}
          /\ pc' = [pc EXCEPT ![r] = label]
          /\ Len(outcomes'[r]) = at'[r] /\ Len(outcomes'[r]) \in 0 .. at'[r]
      BY <1>1, <2>1, <2>3 DEF Goto, InPipeline
    <3>2. \A q \in Requests \ {r} : at'[q] = at[q] /\ outcomes'[q] = outcomes[q]
      BY <2>1, <2>3
    <3> QED
      BY <2>1, <2>3, <3>1, <3>2, StepPlaces
  <2>6. CASE Goto(r, "settle") /\ UNCHANGED <<at, roleAt>>
    BY <1>1, <2>3, <2>6
  <2>4. CASE Goto(r, "mark") /\ UNCHANGED at /\ roleAt' = [roleAt EXCEPT ![r] = 1]
    <3>1. roleAt' \in [Requests -> 1 .. 5] /\ \A q \in Requests \ {r} : roleAt'[q] = roleAt[q]
      BY <1>1, <2>4
    <3> QED
      BY <2>3, <2>4, <3>1
  <2>5. CASE Goto(r, "mark") /\ UNCHANGED at /\ roleAt' = [roleAt EXCEPT ![r] = @ + 1]
             /\ awaiting[r].op = "mark"
    <3>1. roleAt[r] \in 1 .. 4
      BY <2>1, <2>5 DEF Books, Places
    <3>2. roleAt' \in [Requests -> 1 .. 5] /\ \A q \in Requests \ {r} : roleAt'[q] = roleAt[q]
      BY <1>1, <2>5, <3>1
    <3> QED
      BY <2>3, <2>5, <3>2
  <2> QED
    BY <1>9, <2>2, <2>4, <2>5, <2>6 DEF Confirm
<1>10. CASE Fail(r)
  <2>1. /\ Running(r) /\ pc' = [pc EXCEPT ![r] = "failed"] /\ UNCHANGED <<at, outcomes, roleAt>>
        /\ \A q \in Requests \ {r} : awaiting'[q] = awaiting[q]
    BY <1>1, <1>10 DEF Fail, Goto
  <2> QED
    BY <1>1, <2>1, StepPlaces DEF InPipeline
<1> QED
  BY <1>2, <1>3, <1>4, <1>6, <1>7, <1>8, <1>9, <1>10 DEF Pipeline

LEMMA PlacesKept ==
    ASSUME Inductive, AgentInductive, Books, [AgentNext]_systemVars
    PROVE  Places'
<1>0. Places /\ Slot
  BY DEF Books, AgentInductive
<1>1. ASSUME UNCHANGED <<pc, roleAt, outcomes, at, awaiting>> PROVE Places'
  BY <1>0, <1>1 DEF Places, Running
<1>2. ASSUME NEW r \in Requests, Trigger(r) PROVE Places'
  <2>1. PICK label \in {"replayed", "conflict", "history"} : pc' = [pc EXCEPT ![r] = label]
    BY <1>2 DEF Trigger, Goto
  <2>2. /\ pc[r] = "unsent" /\ at[r] = 1 /\ UNCHANGED <<at, outcomes, roleAt, awaiting>>
        /\ Len(outcomes[r]) = 0
    BY <1>0, <1>2 DEF Trigger, Slot, Places
  <2>3. \A q \in Requests : pc'[q] = IF q = r THEN label ELSE pc[q]
    BY <1>0, <2>1 DEF Slot
  <2> QED
    BY <1>0, <2>2, <2>3 DEF Places, Running, InPipeline
<1>3. CASE Crash
  <2>1. /\ \A q \in Requests : pc'[q] = IF Running(q) THEN "lost" ELSE pc[q]
        /\ UNCHANGED <<at, outcomes, roleAt>>
    BY <1>3 DEF Crash
  <2> QED
    BY <1>0, <2>1 DEF Places, Running, InPipeline
<1>4. CASE Reset
  BY <1>1, <1>4 DEF Reset, requestVars
<1>5. CASE Network
  BY <1>1, <1>5 DEF Network, Land, Lose, requestVars
<1>6. CASE UNCHANGED systemVars \/ Others
  BY <1>1, <1>6, OthersLeaveTheAgent DEF AgentUnmoved, requestVars
<1> QED
  BY <1>2, <1>3, <1>4, <1>5, <1>6, PipelinePlaces DEF AgentNext

LEMMA PipelinePosted ==
    ASSUME Inductive, AgentInductive, Books, NEW r \in Requests, Pipeline(r)
    PROVE  Posted'
<1>1. /\ Posted /\ at[r] \in 1 .. Len(Batch)
      /\ pc[r] \in InPipeline => Running(r)
      /\ (runState = "completed") <=> (batchResult # NoResult)
      /\ before[r] \in [Roles -> U64] /\ U64 \subseteq Nat
      /\ claimable \in [Roles -> Nat]
  <2>1. Posted /\ at[r] \in 1 .. Len(Batch)
    BY DEF AgentInductive, Slot, Books
  <2>2. before[r] \in [Roles -> U64] /\ U64 \subseteq Nat
    BY DEF Books, Shapes, U64
  <2>3. claimable \in [Roles -> Nat]
    BY Numbers
  <2>4. (runState = "completed") <=> (batchResult # NoResult)
    BY <2>1 DEF Posted
  <2> QED
    BY <2>1, <2>2, <2>3, <2>4 DEF Running
<1>2. ASSUME pc[r] \in {"mark", "await"}
      PROVE  Running(r) /\ Len(outcomes[r]) # 0
  BY <1>1, <1>2 DEF Books, Places, InPipeline
<1>3. CASE FetchHistory(r) \/ Judge(r) \/ ReadBefore(r)
  <2>1. PICK label \in {"judge", "verify", "before"} : pc' = [pc EXCEPT ![r] = label]
    BY <1>3 DEF FetchHistory, Judge, ReadBefore, Goto
  <2>2. /\ pc[r] \in InPipeline \ {"await"}
        /\ UNCHANGED <<awaiting, landed, mempool, runState, batchResult>>
    BY <1>3 DEF FetchHistory, Judge, ReadBefore, InPipeline, storeVars
  <2> QED
    BY <1>1, <2>1, <2>2, QuietPosts
<1>4. ASSUME NEW op \in {"verify", "settle", "mark"}, NEW role, NEW amount,
             Send(r, Tx(r, op, role, amount)), UNCHANGED <<storeVars, landed>>,
             pc[r] \in {"verify", "settle", "mark"}, IsMine(Tx(r, op, role, amount), r)
      PROVE  Posted'
  <2>1. IsTx(Tx(r, op, role, amount)) /\ Running(r) /\ pc[r] # "await"
    BY <1>1, <1>4, TxKinds DEF IsTx, InPipeline
  <2> QED
    BY <1>1, <1>4, <2>1, SendPosts
<1>5. CASE EnsureVerified(r)
  <2>1. pc[r] = "verify" /\ UNCHANGED <<storeVars, landed>>
    BY <1>5 DEF EnsureVerified
  <2>2. IsMine(Tx(r, "verify", "none", 0), r)
    BY TxKinds DEF IsMine
  <2>3. CASE Send(r, Tx(r, "verify", "none", 0))
    BY <1>4, <2>1, <2>2, <2>3
  <2>4. CASE Goto(r, "settle") /\ UNCHANGED <<mempool, awaiting>>
    BY <1>1, <2>1, <2>4, QuietPosts DEF Goto, InPipeline, storeVars
  <2> QED
    BY <1>5, <2>3, <2>4 DEF EnsureVerified
<1>6. CASE SendSettle(r)
  <2>1. IsMine(Tx(r, "settle", "none", NetAmount[Batch[at[r]]]), r)
    BY DEF IsMine, Tx, SettleOf
  <2> QED
    BY <1>4, <1>6, <2>1 DEF SendSettle
<1>7. ASSUME FinishScreening(r), pc[r] \in {"mark", "await"}, UNCHANGED mempool,
             awaiting' = [awaiting EXCEPT ![r] = NoTx], landed' = landed \ {awaiting[r]},
             awaiting[r] \notin mempool
      PROVE  Posted'
  <2>1. Running(r) /\ ((runState = "completed") <=> (batchResult # NoResult))'
    BY <1>1, <1>2, <1>7, FinishStore
  <2>2. PICK label \in {"judge", "completed"} : pc' = [pc EXCEPT ![r] = label]
    BY <1>1, <1>2, <1>7, FinishStore
  <2> QED
    BY <1>1, <1>7, <2>1, <2>2, StepPosts
<1>8. CASE MarkRole(r)
  <2>1. pc[r] = "mark" /\ UNCHANGED landed /\ Running(r)
    BY <1>1, <1>8 DEF MarkRole, InPipeline
  <2>2. CASE roleAt[r] > Len(RoleOrder)
    BY <1>7, <1>8, <2>1, <2>2, NothingAwaited DEF MarkRole
  <2>3. CASE ~(roleAt[r] > Len(RoleOrder))
    <3> DEFINE role == RoleOrder[roleAt[r]]
               delta == claimable[role] - before[r][role]
    <3>1. roleAt[r] \in 1 .. 4
      BY <2>3, RolesInOrder DEF Books, Places
    <3>2. role \in Roles
      BY <3>1, RolesInOrder
    <3>3. delta \in Int
      <4>1. claimable[role] \in Nat /\ before[r][role] \in Nat
        <5> HIDE DEF role
        <5> QED
          BY <1>1, <3>2
      <4> QED
        BY <4>1
    <3> HIDE DEF role, delta
    <3>4. IsMine(Tx(r, "mark", role, delta), r)
      BY <3>2, <3>3, TxKinds DEF IsMine
    <3>5. CASE Send(r, Tx(r, "mark", role, delta)) /\ UNCHANGED storeVars
      BY <1>4, <2>1, <3>4, <3>5
    <3>6. CASE UNCHANGED <<pc, mempool, awaiting, storeVars>>
      BY <1>1, <2>1, <3>6 DEF Posted, storeVars, IsMine, SettleOf
    <3> QED
      BY <1>8, <2>3, <3>5, <3>6 DEF MarkRole, role, delta
  <2> QED
    BY <2>2, <2>3
<1>9. CASE Confirm(r)
  <2>1. /\ pc[r] = "await" /\ Running(r) /\ UNCHANGED mempool
        /\ awaiting' = [awaiting EXCEPT ![r] = NoTx] /\ landed' = landed \ {awaiting[r]}
        /\ awaiting[r] \in landed
    BY <1>1, <1>9 DEF Confirm, Confirmed, InPipeline
  <2>2. awaiting[r] \notin mempool
    BY <1>1, <2>1 DEF Posted
  <2>3. CASE FinishScreening(r)
    BY <1>7, <2>1, <2>2, <2>3
  <2>4. ASSUME NEW label \in {"settle", "mark"}, Goto(r, label), UNCHANGED storeVars
        PROVE  Posted'
    BY <1>1, <2>1, <2>2, <2>4, StepPosts DEF Goto, storeVars
  <2> QED
    BY <1>9, <2>3, <2>4 DEF Confirm
<1>10. CASE Fail(r)
  <2>1. /\ Running(r) /\ pc' = [pc EXCEPT ![r] = "failed"] /\ UNCHANGED mempool
        /\ awaiting' = [awaiting EXCEPT ![r] = NoTx] /\ landed' = landed \ {awaiting[r]}
        /\ ((runState = "completed") <=> (batchResult # NoResult))'
    BY <1>10 DEF Fail, Goto, StateAfterAbort
  <2> QED
    BY <1>1, <2>1, StepPosts DEF Abandoned
<1> QED
  BY <1>3, <1>5, <1>6, <1>8, <1>9, <1>10 DEF Pipeline

LEMMA PostedKept ==
    ASSUME Inductive, AgentInductive, Books, [AgentNext]_systemVars
    PROVE  Posted'
<1>0. Posted /\ Slot /\ Deliveries
  BY DEF Books, AgentInductive
<1>1. ASSUME UNCHANGED <<pc, awaiting, mempool, landed>>,
             ((runState = "completed") <=> (batchResult # NoResult))'
      PROVE  Posted'
  BY <1>0, <1>1 DEF Posted, IsMine, SettleOf
<1>2. ASSUME NEW r \in Requests, Trigger(r) PROVE Posted'
  <2>1. PICK label \in {"replayed", "conflict", "history"} :
           /\ pc' = [pc EXCEPT ![r] = label]
           /\ label = "history" => batchResult = NoResult /\ runState' = "running"
           /\ label # "history" => runState' = runState
    BY <1>2 DEF Trigger, Goto
  <2>2. /\ pc[r] = "unsent" /\ UNCHANGED <<awaiting, mempool, landed, batchResult>>
    BY <1>2 DEF Trigger
  <2>3. \A q \in Requests : pc'[q] = IF q = r THEN label ELSE pc[q]
    BY <1>0, <2>1 DEF Slot
  <2>4. \A tx \in mempool : tx.from # r
    BY <1>0, <2>2 DEF Posted, Deliveries, Abandoned, IsTx, NoTx
  <2>5. \A tx \in mempool : /\ tx \notin landed /\ IsMine(tx, tx.from)
                            /\ pc'[tx.from] \in Abandoned \/ awaiting[tx.from] = tx
    BY <1>0, <2>3, <2>4 DEF Posted, Deliveries
  <2>6. \A q \in Requests : pc'[q] = "await" => IsMine(awaiting[q], q)
    BY <1>0, <2>3 DEF Posted
  <2>7. ((runState = "completed") <=> (batchResult # NoResult))'
    BY <1>0, <2>1, <2>2 DEF Posted
  <2> QED
    BY <2>2, <2>5, <2>6, <2>7 DEF Posted, IsMine, SettleOf
<1>3. CASE Crash
  <2>1. /\ \A q \in Requests : pc'[q] = IF Running(q) THEN "lost" ELSE pc[q]
        /\ awaiting' = [r \in Requests |-> NoTx] /\ landed' = {} /\ UNCHANGED mempool
        /\ runState' = "idle" /\ batchResult' = NoResult
    BY <1>3 DEF Crash
  <2>2. \A tx \in mempool : IsMine(tx, tx.from) /\ pc'[tx.from] \in Abandoned
    BY <1>0, <2>1 DEF Posted, Deliveries, Abandoned, Running, InPipeline, IsTx, NoTx
  <2>3. \A q \in Requests : pc'[q] # "await"
    BY <1>0, <2>1 DEF Running, InPipeline
  <2> QED
    BY <2>1, <2>2, <2>3 DEF Posted, IsMine, SettleOf
<1>4. CASE Reset
  BY <1>1, <1>4 DEF Reset, requestVars
<1>5. ASSUME NEW tx \in mempool, Land(tx) \/ Lose(tx) PROVE Posted'
  <2>1. /\ mempool' = mempool \ {tx} /\ landed' \subseteq landed \cup {tx}
        /\ UNCHANGED <<pc, awaiting, runState, batchResult>>
    BY <1>5 DEF Land, Lose, storeVars, requestVars
  <2> QED
    BY <1>0, <2>1 DEF Posted, IsMine, SettleOf
<1>6. CASE UNCHANGED systemVars \/ Others
  BY <1>0, <1>1, <1>6, OthersLeaveTheAgent DEF AgentUnmoved, requestVars, storeVars, Posted
<1> QED
  BY <1>2, <1>3, <1>4, <1>5, <1>6, PipelinePosted DEF AgentNext, Network

LEMMA BooksInit == AgentInit => Books
<1> SUFFICES ASSUME AgentInit PROVE Books
  OBVIOUS
<1>1. Posted
  BY DEF AgentInit, Posted, NoResult
<1>2. Shapes
  <2>1. NoCredit \in [Roles -> Nat] /\ NoCredit \in [Roles -> U64]
    BY EscrowAssumption DEF NoCredit, U64
  <2> QED
    BY <2>1 DEF AgentInit, Shapes
<1>3. Places
  BY DEF AgentInit, Places, Running, InPipeline
<1> QED
  BY <1>1, <1>2, <1>3 DEF Books

LEMMA BooksKept ==
    ASSUME Inductive, AgentInductive, Books, [AgentNext]_systemVars
    PROVE  Inductive' /\ AgentInductive' /\ Books'
<1>1. [Next]_vars
  BY EscrowStep DEF Books, AgentInductive
<1>2. Inductive'
  BY <1>1, NextInductive
<1>3. AgentInductive'
  BY AgentNextInductive
<1> QED
  BY <1>2, <1>3, PostedKept, ShapesKept, PlacesKept DEF Books

-----------------------------------------------------------------------------
\* The invariant of the program, and what the agent keeps on top of it.
Base == Inductive /\ AgentInductive /\ Books

\* The settlement that a request waits for has landed.
SettleLanded(r) == awaiting[r].op = "settle" /\ awaiting[r] \in landed

-----------------------------------------------------------------------------
(***************************************************************************)
(* The verdicts.  A request judges by the history it read when it began;   *)
(* if the theatre was known then, the escrow counts that settlement and    *)
(* all of the request's own.                                               *)
(***************************************************************************)
KnownCount(r) == IF PastSettle(r) \/ SettleLanded(r) THEN at[r] + 1 ELSE at[r]

JudgedBy(r) ==
    /\ pc[r] \in {"unsent", "history"} => isNew[r] /\ at[r] = 1
    /\ Running(r) =>
          /\ \A k \in 1 .. Len(outcomes[r]) : outcomes[r][k] = VerdictOf[isNew[r]][Batch[k]]
          /\ isNew[r] \/ (Exists /\ batch_count >= KnownCount(r))

ResultJudged ==
    batchResult # NoResult =>
        /\ batchResult \in [1 .. Len(Batch) -> Verdicts]
        /\ \/ \A i \in 1 .. Len(Batch) : batchResult[i] = VerdictOf[TRUE][Batch[i]]
           \/ batch_count > Len(Batch)

Judged ==
    /\ runState \in {"idle", "running", "completed"}
    /\ ResultJudged
    /\ \A r \in Requests : JudgedBy(r)

\* The facts about a running request that its steps start from.
LEMMA RunningRequest ==
    ASSUME Base, NEW r \in Requests, pc[r] \in InPipeline
    PROVE  /\ Running(r) /\ \A q \in Requests \ {r} : ~Running(q)
           /\ pc \in [Requests -> Labels] /\ at \in [Requests -> 1 .. Len(Batch)]
           /\ isNew \in [Requests -> BOOLEAN] /\ outcomes \in [Requests -> Seq(Verdicts)]
           /\ isNew[r] \in BOOLEAN /\ outcomes[r] \in Seq(Verdicts)
           /\ at[r] \in 1 .. Len(Batch) /\ Len(Batch) \in Nat
           /\ awaiting = [q \in Requests |-> awaiting[q]]
           /\ awaiting[r] = NoTx <=> pc[r] # "await"
           /\ pc[r] = "await" => IsTx(awaiting[r]) /\ awaiting[r].screening = at[r]
           /\ Len(outcomes[r]) = IF pc[r] \in {"history", "judge"} THEN at[r] - 1 ELSE at[r]
           /\ batch_count \in Nat
<1>1. Running(r)
  BY DEF Running
<1>2. AgentInductive /\ Books /\ Inductive
  BY DEF Base
<1>3. NoTx.op = "none"
  BY DEF NoTx
<1>4. /\ awaiting = [q \in Requests |-> awaiting[q]]
      /\ awaiting[r] = NoTx <=> pc[r] # "await"
      /\ pc[r] = "await" => IsTx(awaiting[r]) /\ awaiting[r].screening = at[r]
  BY <1>2, <1>3 DEF AgentInductive, Deliveries, IsTx
<1>5. /\ outcomes \in [Requests -> Seq(Verdicts)] /\ isNew \in [Requests -> BOOLEAN]
      /\ Len(outcomes[r]) = IF pc[r] \in {"history", "judge"} THEN at[r] - 1 ELSE at[r]
  BY <1>1, <1>2 DEF Books, Shapes, Places
<1>6. batch_count \in Nat
  BY <1>2, Numbers DEF U32
<1> QED
  BY <1>1, <1>2, <1>4, <1>5, <1>6, BatchFacts DEF AgentInductive, Slot, OneRunAtATime

\* A request takes a step: those that do not run keep what they have.
LEMMA OthersJudged ==
    ASSUME Judged, Base, NEW r \in Requests, pc[r] \in InPipeline,
           \A q \in Requests \ {r} :
              pc'[q] = pc[q] /\ isNew'[q] = isNew[q] /\ at'[q] = at[q],
           runState' \in {"idle", "running", "completed"}, ResultJudged', JudgedBy(r)'
    PROVE  Judged'
BY RunningRequest DEF Judged, JudgedBy, Running

\* The end of a screening that has been settled.
LEMMA FinishJudged ==
    ASSUME Judged, Base, NEW r \in Requests, pc[r] \in {"mark", "await"}, FinishScreening(r),
           PastSettle(r) \/ SettleLanded(r), awaiting'[r] = NoTx,
           UNCHANGED <<isNew, outcomes, vars>>
    PROVE  Judged'
<1>1. /\ Running(r) /\ pc[r] \in InPipeline /\ pc \in [Requests -> Labels]
      /\ at[r] \in 1 .. Len(Batch) /\ Len(Batch) \in Nat /\ at \in [Requests -> 1 .. Len(Batch)]
      /\ Len(outcomes[r]) = at[r] /\ outcomes[r] \in Seq(Verdicts) /\ batch_count \in Nat
      /\ JudgedBy(r) /\ ResultJudged /\ runState \in {"idle", "running", "completed"}
      /\ UNCHANGED <<batch_count, state, isNew, outcomes>>
  BY RunningRequest DEF InPipeline, Judged, vars
<1>2. /\ \A k \in 1 .. Len(outcomes[r]) : outcomes[r][k] = VerdictOf[isNew[r]][Batch[k]]
      /\ isNew[r] \/ (Exists /\ batch_count >= at[r] + 1)
      /\ isNew[r] = TRUE \/ batch_count >= at[r] + 1
  BY <1>1, RunningRequest DEF JudgedBy, KnownCount
<1>3. \A q \in Requests \ {r} : pc'[q] = pc[q] /\ isNew'[q] = isNew[q] /\ at'[q] = at[q]
  BY <1>1 DEF FinishScreening, Goto
<1>4. CASE at[r] < Len(Batch)
  <2>1. /\ at'[r] = at[r] + 1 /\ pc'[r] = "judge"
        /\ UNCHANGED storeVars
    BY <1>1, <1>4 DEF FinishScreening, Goto
  <2>2. KnownCount(r)' = at[r] + 1
    BY <2>1 DEF PastSettle, KnownCount, SettleLanded, NoTx
  <2>3. JudgedBy(r)'
    BY <1>1, <1>2, <2>1, <2>2 DEF JudgedBy, Exists
  <2>4. ResultJudged' /\ runState' \in {"idle", "running", "completed"}
    BY <1>1, <2>1 DEF ResultJudged, storeVars
  <2> QED
    BY <1>1, <1>3, <2>3, <2>4, OthersJudged
<1>5. CASE ~(at[r] < Len(Batch))
  <2>1. /\ pc'[r] = "completed" /\ runState' = "completed" /\ batchResult' = outcomes[r]
        /\ at[r] = Len(Batch)
    BY <1>1, <1>5 DEF FinishScreening, Goto
  <2>2. JudgedBy(r)'
    BY <2>1 DEF JudgedBy, Running, InPipeline
  <2>3. batchResult' \in [1 .. Len(Batch) -> Verdicts]
    BY <1>1, <2>1
  <2>4. \/ \A i \in 1 .. Len(Batch) : batchResult'[i] = VerdictOf[TRUE][Batch[i]]
        \/ batch_count' > Len(Batch)
    <3>1. CASE isNew[r] = TRUE
      <4>1. batchResult' = outcomes[r] /\ Len(outcomes[r]) = Len(Batch)
        BY <1>1, <2>1
      <4>2. \A i \in 1 .. Len(Batch) : batchResult'[i] = VerdictOf[TRUE][Batch[i]]
        BY <1>2, <3>1, <4>1, Zenon
      <4> QED
        BY <4>2
    <3>2. CASE batch_count >= at[r] + 1
      <4>1. batch_count' = batch_count /\ at[r] = Len(Batch)
        BY <1>1, <2>1
      <4>2. batch_count \in Nat /\ Len(Batch) \in Nat
        BY <1>1
      <4>3. batch_count' > Len(Batch)
        BY <3>2, <4>1, <4>2
      <4> QED
        BY <4>3
    <3> QED
      BY <1>2, <3>1, <3>2
  <2>5. ResultJudged'
    BY <2>3, <2>4 DEF ResultJudged
  <2> QED
    BY <1>1, <1>3, <2>1, <2>2, <2>5, OthersJudged
<1> QED
  BY <1>4, <1>5

\* A step that keeps the verdicts and what the request knows.
LEMMA QuietJudged ==
    ASSUME Judged, Base, NEW r \in Requests, pc[r] \in InPipeline,
           NEW label \in Labels \ {"unsent", "history"}, pc' = [pc EXCEPT ![r] = label],
           UNCHANGED <<batchResult, isNew, outcomes, at, vars>>,
           runState' \in {"idle", "running", "completed"},
           label \in InPipeline => KnownCount(r)' <= KnownCount(r)
    PROVE  Judged'
<1>1. /\ Running(r) /\ pc \in [Requests -> Labels] /\ at[r] \in Nat /\ batch_count \in Nat
      /\ JudgedBy(r) /\ ResultJudged
      /\ UNCHANGED <<batch_count, state>>
  BY RunningRequest DEF Judged, vars
<1>2. /\ pc'[r] = label /\ \A q \in Requests \ {r} : pc'[q] = pc[q]
  BY <1>1
<1>3. ResultJudged'
  BY <1>1 DEF ResultJudged
<1>4. KnownCount(r) \in Nat /\ KnownCount(r)' \in Nat
  BY <1>1 DEF KnownCount
<1>5. JudgedBy(r)'
  BY <1>1, <1>2, <1>4 DEF JudgedBy, Running, Exists
<1> QED
  BY <1>2, <1>3, <1>5, OthersJudged

LEMMA PipelineJudged ==
    ASSUME Judged, Base, NEW r \in Requests, Pipeline(r)
    PROVE  Judged'
<1>1. /\ pc[r] \in InPipeline /\ Judged /\ ResultJudged /\ JudgedBy(r)
      /\ runState \in {"idle", "running", "completed"}
  BY DEF Pipeline, FetchHistory, Judge, ReadBefore, EnsureVerified, SendSettle, MarkRole,
     Confirm, Fail, Running, InPipeline, Judged
<1>2. /\ Running(r) /\ pc \in [Requests -> Labels] /\ at[r] \in 1 .. Len(Batch)
      /\ Len(Batch) \in Nat
      /\ isNew \in [Requests -> BOOLEAN] /\ outcomes \in [Requests -> Seq(Verdicts)]
      /\ outcomes[r] \in Seq(Verdicts)
      /\ awaiting = [q \in Requests |-> awaiting[q]]
      /\ awaiting[r] = NoTx <=> pc[r] # "await"
      /\ Len(outcomes[r]) = IF pc[r] \in {"history", "judge"} THEN at[r] - 1 ELSE at[r]
      /\ batch_count \in Nat
      /\ InPipeline \subseteq Labels
  BY <1>1, RunningRequest DEF Labels
<1>3. CASE FetchHistory(r)
  <2>1. /\ pc'[r] = "judge" /\ isNew'[r] = NothingSettled /\ pc[r] = "history"
        /\ \A q \in Requests \ {r} : pc'[q] = pc[q] /\ isNew'[q] = isNew[q] /\ at'[q] = at[q]
        /\ UNCHANGED <<runState, batchResult, at, outcomes, awaiting, batch_count, state>>
    BY <1>2, <1>3 DEF FetchHistory, Goto, storeVars, vars
  <2>2. KnownCount(r)' = 1 /\ Len(outcomes[r]) = 0
    BY <1>1, <1>2, <2>1 DEF JudgedBy, KnownCount, PastSettle, SettleLanded, NoTx
  <2>3. ~NothingSettled => Exists' /\ batch_count' >= 1
    BY <1>2, <2>1 DEF NothingSettled, Exists
  <2>4. JudgedBy(r)'
    BY <2>1, <2>2, <2>3 DEF JudgedBy
  <2>5. ResultJudged'
    BY <1>1, <2>1 DEF ResultJudged
  <2> QED
    BY <1>1, <2>1, <2>4, <2>5, OthersJudged
<1>4. CASE Judge(r)
  <2> DEFINE verdict == VerdictOf[isNew[r]][Batch[at[r]]]
  <2>1. /\ pc[r] = "judge" /\ pc'[r] \in {"verify", "before"}
        /\ outcomes' = [outcomes EXCEPT ![r] = Append(outcomes[r], verdict)]
        /\ \A q \in Requests \ {r} : pc'[q] = pc[q] /\ isNew'[q] = isNew[q] /\ at'[q] = at[q]
        /\ UNCHANGED <<runState, batchResult, isNew, at, awaiting, batch_count, state>>
    BY <1>2, <1>4 DEF Judge, Goto, storeVars, vars, Verdict
  <2>2. verdict \in Verdicts
    BY <1>2, VerdictRange
  <2>3. KnownCount(r)' = at[r] /\ KnownCount(r) = at[r]
    BY <1>2, <2>1 DEF KnownCount, PastSettle, SettleLanded, NoTx
  <2>4. \A k \in 1 .. Len(outcomes'[r]) : outcomes'[r][k] = VerdictOf[isNew[r]][Batch[k]]
    <3>1. \A k \in 1 .. Len(outcomes[r]) : outcomes[r][k] = VerdictOf[isNew[r]][Batch[k]]
      BY <1>1, <1>2 DEF JudgedBy
    <3>2. Len(outcomes[r]) + 1 = at[r]
      BY <1>2, <2>1
    <3>3. outcomes'[r] = Append(outcomes[r], verdict)
      BY <1>2, <2>1
    <3> HIDE DEF verdict
    <3>4. /\ Len(outcomes'[r]) = at[r] /\ outcomes'[r][at[r]] = verdict
          /\ \A k \in 1 .. Len(outcomes[r]) : outcomes'[r][k] = outcomes[r][k]
      BY <1>2, <2>2, <3>2, <3>3
    <3>5. ASSUME NEW k \in 1 .. at[r] PROVE k = at[r] \/ k \in 1 .. Len(outcomes[r])
      BY <1>2, <3>2, <3>5
    <3> QED
      BY <3>1, <3>4, <3>5, Zenon DEF verdict
  <2>5. isNew[r] \/ (Exists' /\ batch_count' >= at[r])
    BY <1>1, <1>2, <2>1, <2>3 DEF JudgedBy, Exists
  <2>6. JudgedBy(r)'
    BY <2>1, <2>3, <2>4, <2>5 DEF JudgedBy
  <2>7. ResultJudged'
    BY <1>1, <2>1 DEF ResultJudged
  <2> QED
    BY <1>1, <2>1, <2>6, <2>7, OthersJudged
<1>5. CASE ReadBefore(r)
  <2>1. /\ pc' = [pc EXCEPT ![r] = "verify"] /\ pc[r] = "before"
        /\ UNCHANGED <<batchResult, isNew, outcomes, at, awaiting, landed, vars, runState>>
    BY <1>5 DEF ReadBefore, Goto, storeVars
  <2>2. KnownCount(r)' <= KnownCount(r)
    BY <1>2, <2>1 DEF KnownCount, PastSettle, SettleLanded, NoTx
  <2> QED
    BY <1>1, <1>2, <2>1, <2>2, QuietJudged DEF InPipeline
<1>6. ASSUME NEW op \in {"verify", "settle", "mark"}, NEW role, NEW amount,
             Send(r, Tx(r, op, role, amount)), pc[r] \in {"verify", "settle", "mark"},
             op = "mark" => pc[r] = "mark",
             UNCHANGED <<storeVars, isNew, outcomes, at, landed, vars>>
      PROVE  Judged'
  <2>1. /\ pc' = [pc EXCEPT ![r] = "await"] /\ awaiting'[r] = Tx(r, op, role, amount)
        /\ UNCHANGED <<batchResult, runState>>
    BY <1>2, <1>6 DEF Send, Goto, storeVars
  <2>2. Tx(r, op, role, amount) \notin landed
    BY <1>2, <1>6, TxKinds DEF Base, AgentInductive, Deliveries, Books, Posted, IsMine
  <2>3. KnownCount(r)' <= KnownCount(r)
    <3>1. ~SettleLanded(r)'
      BY <1>6, <2>1, <2>2 DEF SettleLanded
    <3>2. PastSettle(r)' => PastSettle(r)
      BY <1>2, <1>6, <2>1, TxKinds DEF PastSettle
    <3> QED
      BY <1>2, <1>6, <3>1, <3>2 DEF KnownCount
  <2> QED
    BY <1>1, <1>2, <1>6, <2>1, <2>3, QuietJudged DEF InPipeline
<1>7. CASE EnsureVerified(r)
  <2>1. CASE Send(r, Tx(r, "verify", "none", 0))
    BY <1>6, <1>7, <2>1 DEF EnsureVerified
  <2>2. CASE Goto(r, "settle") /\ UNCHANGED <<mempool, awaiting>>
    <3>1. /\ pc' = [pc EXCEPT ![r] = "settle"] /\ pc[r] = "verify"
          /\ UNCHANGED <<batchResult, isNew, outcomes, at, awaiting, landed, vars, runState>>
      BY <1>7, <2>2 DEF EnsureVerified, Goto, storeVars
    <3>2. KnownCount(r)' <= KnownCount(r)
      BY <1>2, <3>1 DEF KnownCount, PastSettle, SettleLanded, NoTx
    <3> QED
      BY <1>1, <1>2, <3>1, <3>2, QuietJudged DEF InPipeline
  <2> QED
    BY <1>7, <2>1, <2>2 DEF EnsureVerified
<1>8. CASE SendSettle(r)
  BY <1>6, <1>8 DEF SendSettle
<1>9. CASE MarkRole(r)
  <2>1. /\ pc[r] = "mark" /\ PastSettle(r) /\ awaiting[r] = NoTx
        /\ UNCHANGED <<isNew, outcomes, landed, vars>>
    BY <1>2, <1>9 DEF MarkRole, PastSettle
  <2>2. CASE FinishScreening(r) /\ UNCHANGED awaiting
    BY <2>1, <2>2, FinishJudged
  <2>3. ASSUME NEW role, NEW amount, Send(r, Tx(r, "mark", role, amount)),
               UNCHANGED <<storeVars, at>>
        PROVE  Judged'
    BY <1>6, <2>1, <2>3
  <2>4. CASE UNCHANGED <<pc, awaiting, storeVars, at>>
    BY <1>1, <2>1, <2>4 DEF Judged, ResultJudged, JudgedBy, KnownCount, PastSettle,
       SettleLanded, Running, Exists, storeVars, vars
  <2> QED
    BY <1>9, <2>2, <2>3, <2>4 DEF MarkRole
<1>10. CASE Confirm(r)
  <2>1. /\ pc[r] = "await" /\ awaiting[r] \in landed /\ awaiting'[r] = NoTx
        /\ UNCHANGED <<isNew, outcomes, vars>>
    BY <1>2, <1>10 DEF Confirm, Confirmed
  <2>2. CASE awaiting[r].op = "settle" /\ FinishScreening(r)
    BY <2>1, <2>2, FinishJudged DEF SettleLanded
  <2>3. ASSUME NEW label \in {"settle", "mark"}, Goto(r, label), UNCHANGED <<at, storeVars>>,
               label = "mark" => awaiting[r].op \in {"settle", "mark"}
        PROVE  Judged'
    <3>1. pc' = [pc EXCEPT ![r] = label] /\ pc'[r] = label /\ UNCHANGED <<batchResult, runState>>
      BY <1>2, <2>3 DEF Goto, storeVars
    <3>2. KnownCount(r)' <= KnownCount(r)
      BY <1>2, <2>1, <2>3, <3>1 DEF KnownCount, PastSettle, SettleLanded, NoTx
    <3> QED
      BY <1>1, <1>2, <2>1, <2>3, <3>1, <3>2, QuietJudged DEF InPipeline
  <2> QED
    BY <1>10, <2>2, <2>3 DEF Confirm
<1>11. CASE Fail(r)
  <2>1. /\ pc' = [pc EXCEPT ![r] = "failed"] /\ runState' \in {"idle", "completed"}
        /\ UNCHANGED <<batchResult, isNew, outcomes, at, vars>>
    BY <1>11 DEF Fail, Goto, StateAfterAbort
  <2> QED
    BY <1>1, <2>1, QuietJudged DEF InPipeline, Labels, Answered
<1> QED
  BY <1>3, <1>4, <1>5, <1>7, <1>8, <1>9, <1>10, <1>11 DEF Pipeline

LEMMA JudgedKept ==
    ASSUME Judged, Base, [AgentNext]_systemVars
    PROVE  Judged'
<1>1. /\ Counts /\ Slot /\ Books /\ batch_count \in Nat /\ batch_count' >= batch_count
      /\ at \in [Requests -> 1 .. Len(Batch)] /\ Len(Batch) \in Nat /\ batch_count' \in Nat
  <2>1. Inductive /\ Deliveries /\ Posted /\ Slot /\ Books
    BY DEF Base, AgentInductive, Books
  <2>2. Counts /\ Inductive'
    BY <2>1, EscrowStep, NextInductive
  <2>3. batch_count \in Nat
    BY <2>1, Numbers DEF U32
  <2>4. batch_count' \in Nat
    BY <2>2 DEF Inductive, TypeOK, U32
  <2> QED
    BY <2>1, <2>2, <2>3, <2>4, BatchFacts DEF Counts, Slot
<1>2. ASSUME UNCHANGED <<runState, batchResult, pc, isNew, at, outcomes>>,
             \A r \in Requests : Running(r) =>
                KnownCount(r)' - KnownCount(r) <= batch_count' - batch_count
      PROVE  Judged'
  <2>1. ASSUME NEW r \in Requests PROVE JudgedBy(r)'
    <3>1. KnownCount(r) \in Int /\ KnownCount(r)' \in Int
      BY <1>1, <1>2 DEF KnownCount
    <3>2. ASSUME Running(r)'
          PROVE  /\ batch_count >= KnownCount(r) => batch_count' >= KnownCount(r)'
                 /\ Exists => Exists'
      BY <1>1, <1>2, <3>1, <3>2 DEF Running, Counts
    <3> QED
      BY <1>2, <3>2 DEF Judged, JudgedBy, Running
  <2>2. batch_count > Len(Batch) => batch_count' > Len(Batch)
    BY <1>1
  <2>3. ResultJudged'
    BY <1>2, <2>2, Zenon DEF Judged, ResultJudged
  <2> QED
    BY <1>2, <2>1, <2>3 DEF Judged
<1>3. CASE Others \/ UNCHANGED systemVars
  <2>1. UNCHANGED <<runState, batchResult, pc, isNew, at, outcomes, awaiting, landed>>
    BY <1>3, OthersLeaveTheAgent DEF AgentUnmoved, storeVars, requestVars
  <2>2. \A r \in Requests : KnownCount(r) \in Int /\ KnownCount(r)' = KnownCount(r)
    BY <1>1, <2>1 DEF KnownCount, PastSettle, SettleLanded
  <2> QED
    BY <1>1, <1>2, <2>1, <2>2
<1>4. ASSUME NEW r \in Requests, Trigger(r) PROVE Judged'
  <2>1. /\ pc[r] = "unsent"
        /\ UNCHANGED <<batchResult, isNew, at, outcomes, awaiting, landed, vars>>
        /\ runState' \in {"idle", "running", "completed"}
        /\ \A q \in Requests \ {r} : pc'[q] = pc[q]
        /\ pc'[r] \in {"replayed", "conflict", "history"}
    BY <1>1, <1>4 DEF Trigger, Goto, Slot, Judged
  <2>2. isNew[r] /\ at[r] = 1 /\ Len(outcomes[r]) = 0
    BY <1>1, <2>1 DEF Judged, JudgedBy, Books, Places
  <2>3. JudgedBy(r)'
    BY <2>1, <2>2 DEF JudgedBy
  <2>4. ASSUME NEW q \in Requests \ {r} PROVE JudgedBy(q)'
    BY <2>1 DEF Judged, JudgedBy, Running, KnownCount, PastSettle, SettleLanded, Exists, vars
  <2>5. ResultJudged'
    BY <2>1 DEF Judged, ResultJudged, vars
  <2> QED
    BY <2>1, <2>3, <2>4, <2>5 DEF Judged
<1>5. ASSUME batchResult' = NoResult, runState' = "idle", UNCHANGED <<isNew, at>>,
             \A q \in Requests : ~Running(q)' /\ (pc'[q] = pc[q] \/ pc'[q] = "lost")
      PROVE  Judged'
  <2>1. \A q \in Requests : JudgedBy(q)'
    BY <1>5 DEF Judged, JudgedBy
  <2> QED
    BY <1>5, <2>1 DEF Judged, ResultJudged
<1>6. CASE Reset
  <2>1. /\ batchResult' = NoResult /\ runState' = "idle" /\ UNCHANGED <<pc, isNew, at>>
        /\ \A q \in Requests : ~Running(q)
    BY <1>1, <1>6 DEF Reset, MayReset, requestVars, Slot, OneRunAtATime
  <2> QED
    BY <1>5, <2>1 DEF Running
<1>7. CASE Crash
  <2>1. /\ batchResult' = NoResult /\ runState' = "idle" /\ UNCHANGED <<isNew, at>>
        /\ \A q \in Requests : pc'[q] = IF Running(q) THEN "lost" ELSE pc[q]
    BY <1>7 DEF Crash
  <2> QED
    BY <1>5, <2>1 DEF Running, InPipeline
<1>8. ASSUME NEW tx \in mempool, Lose(tx) PROVE Judged'
  <2>1. UNCHANGED <<runState, batchResult, pc, isNew, at, outcomes, awaiting, landed, batch_count>>
    BY <1>8 DEF Lose, storeVars, requestVars, vars
  <2>2. \A r \in Requests : KnownCount(r) \in Int /\ KnownCount(r)' = KnownCount(r)
    BY <1>1, <2>1 DEF KnownCount, PastSettle, SettleLanded
  <2> QED
    BY <1>1, <1>2, <2>1, <2>2
<1>9. ASSUME NEW tx \in mempool, Land(tx) PROVE Judged'
  <2>1. /\ UNCHANGED <<runState, batchResult, pc, isNew, at, outcomes, awaiting>>
        /\ landed' = IF awaiting[tx.from] = tx THEN landed \cup {tx} ELSE landed
    BY <1>9 DEF Land, storeVars, requestVars
  <2>2. CASE tx.op = "settle"
    <3>1. batch_count' = batch_count + 1
      BY <1>9, <2>2, Numbers DEF Land, Execute, SettleBatch, MaySettle, U32, Base
    <3>2. \A r \in Requests : /\ KnownCount(r) \in Int /\ KnownCount(r)' \in Int
                              /\ KnownCount(r)' <= KnownCount(r) + 1
      BY <1>1, <2>1 DEF KnownCount
    <3> QED
      BY <1>1, <1>2, <2>1, <3>1, <3>2
  <2>3. CASE tx.op # "settle"
    <3>1. \A r \in Requests : SettleLanded(r)' <=> SettleLanded(r)
      BY <2>1, <2>3 DEF SettleLanded
    <3>2. \A r \in Requests : KnownCount(r) \in Int /\ KnownCount(r)' = KnownCount(r)
      BY <1>1, <2>1, <3>1 DEF KnownCount, PastSettle
    <3> QED
      BY <1>1, <1>2, <2>1, <3>2
  <2> QED
    BY <2>2, <2>3
<1> QED
  BY <1>3, <1>4, <1>6, <1>7, <1>8, <1>9, PipelineJudged DEF AgentNext, Network

LEMMA JudgedInit == AgentInit => Judged
BY BatchFacts DEF AgentInit, Judged, ResultJudged, JudgedBy, Running, InPipeline

\* The invariant says what it is for.
LEMMA JudgedIsLenientOnlyWhenKnown ==
    ASSUME Judged PROVE LenientOnlyWhenKnown
<1>1. CASE batchResult = NoResult
  BY <1>1 DEF LenientOnlyWhenKnown, NoResult
<1>2. CASE batchResult # NoResult
  <2>1. DOMAIN batchResult = 1 .. Len(Batch)
    BY <1>2 DEF Judged, ResultJudged
  <2> QED
    BY <1>2, <2>1 DEF Judged, ResultJudged, LenientOnlyWhenKnown
<1> QED
  BY <1>1, <1>2

LEMMA BaseIsAgentTypeOK ==
    ASSUME Base, Judged PROVE AgentTypeOK
<1>1. /\ Slot /\ Deliveries /\ Posted /\ Shapes /\ Places
  BY DEF Base, AgentInductive, Books
<1>2. /\ runState \in {"idle", "running", "completed"}
      /\ batchResult \in {NoResult} \cup [1 .. Len(Batch) -> {"proceed", "partial-hold"}]
      /\ runState = "completed" <=> batchResult # NoResult
  BY <1>1 DEF Judged, ResultJudged, Posted, Verdicts
<1>3. landed \subseteq {awaiting[r] : r \in Requests}
  BY <1>1 DEF Deliveries
<1>4. ASSUME NEW r \in Requests
      PROVE  /\ at[r] \in 1 .. Len(Batch) /\ Len(outcomes[r]) \in 0 .. at[r]
             /\ before[r] \in [Roles -> U64]
             /\ roleAt[r] \in 1 .. Len(RoleOrder) + 1
             /\ (awaiting[r] = NoTx) <=> (pc[r] # "await")
  BY <1>1, RolesInOrder DEF Slot, Shapes, Places, Deliveries, IsTx, NoTx
<1> QED
  BY <1>1, <1>2, <1>3, <1>4 DEF AgentTypeOK, Slot, Labels

-----------------------------------------------------------------------------
(***************************************************************************)
(* What is held.  Due: what a request's suspicious screenings have         *)
(* credited to a role, and it has not frozen, nor a rejection cut from the *)
(* share between the two reads.  Until a suspicious screening settles      *)
(* nothing is due; then, role by role, at most the difference between the  *)
(* two reads, and that is what is frozen.  A settlement adds as much to    *)
(* the difference as to what is due, and a rejection takes as much off     *)
(* both.                                                                   *)
(***************************************************************************)
Suspect(r) == VerdictOf[isNew[r]][Batch[at[r]]] # "proceed"
Due(r, role) == (suspectCredit[r][role] - frozenBy[r][role]) - cutUnder[r][role]
Grown(r, role) == claimable[role] - before[r][role]

NothingDue(r) == \A role \in Roles : Due(r, role) <= 0

\* The freezing, which goes through the roles in order.
MarkingAt(r, k) == LET role == RoleOrder[k] IN
    /\ k < roleAt[r] => Due(r, role) <= 0
    /\ k > roleAt[r] => Due(r, role) <= Grown(r, role)
    /\ k = roleAt[r] =>
          IF pc[r] = "mark" THEN Due(r, role) <= Grown(r, role)
          ELSE IF awaiting[r] \in landed THEN Due(r, role) <= 0
          ELSE Due(r, role) <= awaiting[r].amount

Marking(r) == Suspect(r) /\ \A k \in 1 .. 4 : MarkingAt(r, k)

Settling(r) ==
    /\ ~(SettleLanded(r) /\ Suspect(r)) => NothingDue(r)
    /\ pc[r] \in {"verify", "settle", "await"} /\ Suspect(r) =>
          \A role \in Roles : Due(r, role) <= Grown(r, role)

HeldBy(r) ==
    /\ pc[r] \in {"unsent", "completed"} => NothingDue(r)
    /\ Running(r) /\ ~PastSettle(r) => Settling(r)
    /\ Running(r) /\ PastSettle(r) => Marking(r)

Holds == \A r \in Requests : HeldBy(r)

LEMMA DueFacts ==
    ASSUME Base, NEW r \in Requests, NEW role \in Roles
    PROVE  /\ Due(r, role) \in Int /\ Grown(r, role) \in Int /\ claimable[role] \in Nat
           /\ suspectCredit[r][role] \in Nat /\ frozenBy[r][role] \in Nat
           /\ cutUnder[r][role] \in Nat /\ before[r][role] \in Nat
<1>1. claimable[role] \in Nat
  BY Numbers DEF Base
<1>2. before[r][role] \in Nat
  BY DEF Base, Books, Shapes, U64
<1>3. /\ suspectCredit[r][role] \in Nat /\ frozenBy[r][role] \in Nat
      /\ cutUnder[r][role] \in Nat
  BY DEF Base, Books, Shapes
<1> QED
  BY <1>1, <1>2, <1>3 DEF Due, Grown

\* A request takes a step: those that do not run keep what they have.
LEMMA OthersHeld ==
    ASSUME Holds, Base, NEW r \in Requests, pc[r] \in InPipeline,
           \A q \in Requests \ {r} : pc'[q] = pc[q],
           UNCHANGED <<suspectCredit, frozenBy, cutUnder>>, HeldBy(r)'
    PROVE  Holds'
BY RunningRequest DEF Holds, HeldBy, Running, NothingDue, Due

LEMMA FinishHeld ==
    ASSUME Holds, Base, NEW r \in Requests, pc[r] \in InPipeline, FinishScreening(r),
           NothingDue(r), awaiting'[r] = NoTx, UNCHANGED historyVars
    PROVE  Holds'
<1>1. /\ pc \in [Requests -> Labels] /\ UNCHANGED <<suspectCredit, frozenBy, cutUnder>>
  BY RunningRequest DEF historyVars
<1>2. /\ pc'[r] \in {"judge", "completed"} /\ \A q \in Requests \ {r} : pc'[q] = pc[q]
  BY <1>1 DEF FinishScreening, Goto
<1>3. NothingDue(r)'
  BY <1>1 DEF NothingDue, Due
<1>4. ~PastSettle(r)' /\ ~SettleLanded(r)'
  BY <1>2 DEF PastSettle, SettleLanded, NoTx
<1>5. HeldBy(r)'
  BY <1>2, <1>3, <1>4 DEF HeldBy, Settling
<1> QED
  BY <1>1, <1>2, <1>5, OthersHeld

LEMMA PipelineHeld ==
    ASSUME Holds, Base, NEW r \in Requests, Pipeline(r)
    PROVE  Holds'
<1>1. /\ pc[r] \in InPipeline /\ HeldBy(r)
      /\ UNCHANGED <<suspectCredit, frozenBy, cutUnder, claimable>>
  BY DEF Pipeline, FetchHistory, Judge, ReadBefore, EnsureVerified, SendSettle, MarkRole,
     Confirm, Fail, Running, InPipeline, Holds, historyVars, vars, allocVars
<1>2. /\ Running(r) /\ pc \in [Requests -> Labels] /\ at[r] \in 1 .. Len(Batch)
      /\ awaiting = [q \in Requests |-> awaiting[q]]
      /\ awaiting[r] = NoTx <=> pc[r] # "await"
      /\ pc[r] = "await" => awaiting[r].op \in {"verify", "settle", "mark"}
      /\ before \in [Requests -> [Roles -> U64]]
      /\ roleAt \in [Requests -> 1 .. 5] /\ roleAt[r] \in 1 .. 5
      /\ NoTx.op = "none"
  BY <1>1, RunningRequest DEF IsTx, Base, Books, Shapes, Places, NoTx
<1>3. \A role \in Roles : Due(r, role)' = Due(r, role)
  BY <1>1 DEF Due
<1>4. ASSUME pc[r] \notin {"mark", "await"}
      PROVE  /\ ~PastSettle(r) /\ ~SettleLanded(r) /\ NothingDue(r) /\ Settling(r)
             /\ NothingDue(r)'
  BY <1>1, <1>2, <1>3, <1>4 DEF PastSettle, SettleLanded, HeldBy, Settling, NothingDue
<1>5. ASSUME pc[r] \notin {"mark", "await"},
             NEW label \in {"judge", "before", "verify", "settle"},
             pc' = [pc EXCEPT ![r] = label], UNCHANGED <<awaiting, landed>>,
             label \in {"verify", "settle"} /\ Suspect(r)' =>
                 \A role \in Roles : Due(r, role)' <= Grown(r, role)'
      PROVE  Holds'
  <2>1. pc'[r] = label /\ \A q \in Requests \ {r} : pc'[q] = pc[q]
    BY <1>2, <1>5
  <2>2. ~PastSettle(r)' /\ ~SettleLanded(r)'
    BY <1>2, <1>5, <2>1 DEF PastSettle, SettleLanded
  <2>3. HeldBy(r)'
    BY <1>4, <1>5, <2>1, <2>2 DEF HeldBy, Settling
  <2> QED
    BY <1>1, <2>1, <2>3, OthersHeld
<1>6. CASE FetchHistory(r)
  BY <1>5, <1>6 DEF FetchHistory, Goto
<1>7. CASE Judge(r)
  <2>1. PICK label \in {"verify", "before"} :
           /\ pc' = [pc EXCEPT ![r] = label]
           /\ label = "verify" => ~Suspect(r)
    BY <1>7 DEF Judge, Goto, Verdict, Suspect
  <2>2. pc[r] = "judge" /\ UNCHANGED <<awaiting, landed, isNew, at>>
    BY <1>7 DEF Judge
  <2>3. Suspect(r)' <=> Suspect(r)
    BY <2>2 DEF Suspect
  <2> QED
    BY <1>5, <2>1, <2>2, <2>3
<1>8. CASE ReadBefore(r)
  <2>1. /\ pc[r] = "before" /\ pc' = [pc EXCEPT ![r] = "verify"]
        /\ UNCHANGED <<awaiting, landed>> /\ before'[r] = claimable
    BY <1>2, <1>8 DEF ReadBefore, Goto
  <2>2. \A role \in Roles : Grown(r, role)' = 0
    BY <1>1, <2>1, DueFacts DEF Grown
  <2>3. \A role \in Roles : Due(r, role)' <= Grown(r, role)'
    BY <1>4, <2>1, <2>2 DEF NothingDue
  <2> QED
    BY <1>5, <2>1, <2>3
<1>9. ASSUME NEW op \in {"verify", "settle"}, NEW role, NEW amount,
             Send(r, Tx(r, op, role, amount)), pc[r] \in {"verify", "settle"},
             UNCHANGED <<landed, isNew, at, before>>
      PROVE  Holds'
  <2>1. /\ pc'[r] = "await" /\ awaiting'[r] = Tx(r, op, role, amount)
        /\ \A q \in Requests \ {r} : pc'[q] = pc[q]
    BY <1>2, <1>9 DEF Send, Goto
  <2>2. Tx(r, op, role, amount) \notin landed
    BY <1>2, <1>9, TxKinds DEF Base, AgentInductive, Deliveries, Books, Posted, IsMine
  <2>3. ~SettleLanded(r)' /\ ~PastSettle(r)'
    BY <1>9, <2>1, <2>2, TxKinds DEF SettleLanded, PastSettle
  <2>4. Suspect(r)' => \A x \in Roles : Due(r, x)' <= Grown(r, x)'
    BY <1>1, <1>3, <1>4, <1>9 DEF Settling, Suspect, Grown
  <2>5. HeldBy(r)'
    BY <1>4, <1>9, <2>1, <2>3, <2>4 DEF HeldBy, Settling
  <2> QED
    BY <1>1, <2>1, <2>5, OthersHeld
<1>10. CASE EnsureVerified(r)
  <2>1. pc[r] = "verify" /\ UNCHANGED <<landed, isNew, at, before>>
    BY <1>10 DEF EnsureVerified
  <2>2. CASE Send(r, Tx(r, "verify", "none", 0))
    BY <1>9, <2>1, <2>2
  <2>3. CASE Goto(r, "settle") /\ UNCHANGED <<mempool, awaiting>>
    <3>1. Suspect(r)' => \A x \in Roles : Due(r, x)' <= Grown(r, x)'
      BY <1>1, <1>3, <1>4, <2>1 DEF Settling, Suspect, Grown
    <3> QED
      BY <1>5, <2>1, <2>3, <3>1 DEF Goto
  <2> QED
    BY <1>10, <2>2, <2>3 DEF EnsureVerified
<1>11. CASE SendSettle(r)
  BY <1>9, <1>11 DEF SendSettle
\* The freezing goes on, at the role rank.
<1>12. ASSUME NEW rank \in 1 .. 5, pc'[r] = "mark", \A q \in Requests \ {r} : pc'[q] = pc[q],
              roleAt'[r] = rank, UNCHANGED <<isNew, at, before>>, Suspect(r),
              \A k \in 1 .. 4 : k < rank => Due(r, RoleOrder[k]) <= 0,
              \A k \in 1 .. 4 : k >= rank => Due(r, RoleOrder[k]) <= Grown(r, RoleOrder[k])
       PROVE  Holds'
  <2>1. PastSettle(r)'
    BY <1>12 DEF PastSettle
  <2>2. \A role \in Roles : Due(r, role)' = Due(r, role) /\ Grown(r, role)' = Grown(r, role)
    BY <1>1, <1>12 DEF Due, Grown
  <2>3. Marking(r)'
    BY <1>12, <2>2, RolesInOrder DEF Marking, MarkingAt, Suspect
  <2>4. HeldBy(r)'
    BY <1>12, <2>1, <2>3 DEF HeldBy
  <2> QED
    BY <1>1, <1>12, <2>4, OthersHeld
<1>13. CASE MarkRole(r)
  <2>1. /\ pc[r] = "mark" /\ PastSettle(r) /\ Marking(r) /\ Suspect(r)
        /\ UNCHANGED <<landed, before, isNew>>
    BY <1>1, <1>2, <1>13 DEF MarkRole, PastSettle, HeldBy, Marking
  <2>2. CASE roleAt[r] > Len(RoleOrder)
    <3>1. roleAt[r] > 4 /\ FinishScreening(r) /\ UNCHANGED awaiting
      BY <1>13, <2>2, RolesInOrder DEF MarkRole
    <3>2. NothingDue(r)
      <4>1. \A k \in 1 .. 4 : Due(r, RoleOrder[k]) <= 0
        BY <1>2, <2>1, <3>1 DEF Marking, MarkingAt
      <4> QED
        BY <4>1, RolesInOrder DEF NothingDue
    <3> QED
      <4>1. awaiting'[r] = NoTx /\ UNCHANGED historyVars
        BY <1>2, <1>13, <2>1, <3>1 DEF MarkRole
      <4> QED
        BY <1>1, <3>1, <3>2, <4>1, FinishHeld
  <2>3. CASE ~(roleAt[r] > Len(RoleOrder))
    <3>1. roleAt[r] \in 1 .. 4
      BY <1>2, <2>3, RolesInOrder
    <3> DEFINE role == RoleOrder[roleAt[r]]
               delta == Grown(r, role)
    <3>2. role \in Roles /\ Due(r, role) \in Int /\ Due(r, role) <= delta /\ delta \in Int
      BY <2>1, <3>1, RolesInOrder, DueFacts DEF Marking, MarkingAt
    <3>3. CASE delta > 0 /\ Send(r, Tx(r, "mark", role, delta)) /\ UNCHANGED <<roleAt, at>>
      <4>1. /\ pc'[r] = "await" /\ awaiting'[r] = Tx(r, "mark", role, delta)
            /\ \A q \in Requests \ {r} : pc'[q] = pc[q]
        BY <1>2, <3>3 DEF Send, Goto
      <4>2. Tx(r, "mark", role, delta) \notin landed
        BY <1>2, <2>1, TxKinds DEF Base, AgentInductive, Deliveries, Books, Posted, IsMine
      <4>3. PastSettle(r)'
        BY <4>1, TxKinds DEF PastSettle
      <4>4. \A x \in Roles : Due(r, x)' = Due(r, x) /\ Grown(r, x)' = Grown(r, x)
        BY <1>1, <2>1 DEF Due, Grown
      <4>5. awaiting'[r].amount = delta /\ awaiting'[r] \notin landed'
        BY <2>1, <4>1, <4>2, TxKinds
      <4>6. Marking(r)'
        <5> HIDE DEF delta
        <5> SUFFICES ASSUME NEW k \in 1 .. 4
                     PROVE  /\ k < roleAt[r] => Due(r, RoleOrder[k]) <= 0
                            /\ k > roleAt[r] => Due(r, RoleOrder[k]) <= Grown(r, RoleOrder[k])
                            /\ k = roleAt[r] => Due(r, RoleOrder[k]) <= delta
          BY <2>1, <3>3, <4>1, <4>4, <4>5, RolesInOrder DEF Marking, MarkingAt, Suspect
        <5> QED
          BY <2>1, <3>2 DEF Marking, MarkingAt
      <4>7. HeldBy(r)'
        BY <4>1, <4>3, <4>6 DEF HeldBy
      <4> QED
        BY <1>1, <4>1, <4>7, OthersHeld
    <3>4. CASE ~(delta > 0) /\ roleAt' = [roleAt EXCEPT ![r] = @ + 1] /\ UNCHANGED <<pc, at>>
      <4>1. roleAt'[r] = roleAt[r] + 1
        BY <1>2, <3>4
      <4>2. Due(r, role) <= 0
        BY <3>2, <3>4
      <4>3. \A k \in 1 .. 4 : k < roleAt[r] + 1 => Due(r, RoleOrder[k]) <= 0
        BY <2>1, <3>1, <4>2 DEF Marking, MarkingAt
      <4>4. \A k \in 1 .. 4 : k >= roleAt[r] + 1 =>
                Due(r, RoleOrder[k]) <= Grown(r, RoleOrder[k])
        BY <2>1, <3>1 DEF Marking, MarkingAt
      <4> QED
        BY <1>12, <2>1, <3>1, <3>4, <4>1, <4>3, <4>4
    <3> QED
      BY <1>13, <2>3, <3>3, <3>4 DEF MarkRole, Grown
  <2> QED
    BY <2>2, <2>3
<1>14. CASE Confirm(r)
  <2>1. /\ pc[r] = "await" /\ awaiting[r] \in landed /\ awaiting'[r] = NoTx
        /\ UNCHANGED <<isNew, before, historyVars>>
    BY <1>2, <1>14 DEF Confirm, Confirmed
  <2>2. CASE awaiting[r].op = "verify" /\ Goto(r, "settle") /\ UNCHANGED at
    <3>1. /\ pc'[r] = "settle" /\ \A q \in Requests \ {r} : pc'[q] = pc[q]
          /\ ~PastSettle(r) /\ ~SettleLanded(r)
      BY <1>2, <2>1, <2>2 DEF Goto, PastSettle, SettleLanded
    <3>2. Settling(r)
      BY <1>1, <1>2, <3>1 DEF HeldBy
    <3>3. NothingDue(r)'
      BY <1>1, <3>1, <3>2 DEF Settling, NothingDue, Due
    <3>4. Suspect(r)' => \A x \in Roles : Due(r, x)' <= Grown(r, x)'
      BY <1>1, <1>3, <2>1, <2>2, <3>2 DEF Settling, Suspect, Grown
    <3>5. ~PastSettle(r)' /\ ~SettleLanded(r)'
      BY <1>2, <2>1, <3>1 DEF PastSettle, SettleLanded
    <3>6. HeldBy(r)'
      BY <3>1, <3>3, <3>4, <3>5 DEF HeldBy, Settling
    <3> QED
      BY <1>1, <3>1, <3>6, OthersHeld
  <2>3. ASSUME awaiting[r].op = "settle"
        PROVE  SettleLanded(r) /\ ~PastSettle(r) /\ Settling(r)
    BY <1>1, <1>2, <2>1, <2>3 DEF PastSettle, SettleLanded, HeldBy
  <2>4. CASE awaiting[r].op = "settle" /\ AfterSettle(r) = "proceed" /\ FinishScreening(r)
    <3>1. NothingDue(r)
      BY <2>3, <2>4 DEF Settling, AfterSettle, Verdict, Suspect
    <3> QED
      BY <1>1, <2>1, <2>4, <3>1, FinishHeld
  <2>5. CASE awaiting[r].op = "settle" /\ AfterSettle(r) = "partial-hold"
             /\ roleAt' = [roleAt EXCEPT ![r] = 1] /\ Goto(r, "mark") /\ UNCHANGED at
    <3>1. Suspect(r) /\ \A role \in Roles : Due(r, role) <= Grown(r, role)
      BY <2>1, <2>3, <2>5 DEF Settling, AfterSettle, Verdict, Suspect
    <3>2. roleAt'[r] = 1 /\ pc'[r] = "mark" /\ \A q \in Requests \ {r} : pc'[q] = pc[q]
      BY <1>2, <2>5 DEF Goto
    <3> QED
      BY <1>12, <2>1, <2>5, <3>1, <3>2, RolesInOrder
  <2>6. CASE awaiting[r].op = "mark" /\ roleAt' = [roleAt EXCEPT ![r] = @ + 1]
             /\ Goto(r, "mark") /\ UNCHANGED at
    <3>1. /\ roleAt'[r] = roleAt[r] + 1 /\ pc'[r] = "mark"
          /\ \A q \in Requests \ {r} : pc'[q] = pc[q]
      BY <1>2, <2>6 DEF Goto
    <3>2. roleAt[r] \in 1 .. 4
      BY <1>2, <2>1, <2>6 DEF Base, Books, Places
    <3>3. Marking(r)
      BY <1>1, <1>2, <2>1, <2>6 DEF HeldBy, PastSettle
    <3>4. \A k \in 1 .. 4 : k < roleAt[r] + 1 => Due(r, RoleOrder[k]) <= 0
      BY <2>1, <3>2, <3>3 DEF Marking, MarkingAt
    <3>5. \A k \in 1 .. 4 : k >= roleAt[r] + 1 => Due(r, RoleOrder[k]) <= Grown(r, RoleOrder[k])
      BY <3>2, <3>3 DEF Marking, MarkingAt
    <3> QED
      BY <1>12, <2>1, <2>6, <3>1, <3>2, <3>3, <3>4, <3>5 DEF Marking
  <2> QED
    BY <1>14, <2>2, <2>4, <2>5, <2>6 DEF Confirm
<1>15. CASE Fail(r)
  <2>1. pc'[r] = "failed" /\ \A q \in Requests \ {r} : pc'[q] = pc[q]
    BY <1>2, <1>15 DEF Fail, Goto
  <2>2. HeldBy(r)'
    BY <2>1 DEF HeldBy, Running, InPipeline
  <2> QED
    BY <1>1, <2>1, <2>2, OthersHeld
<1> QED
  BY <1>6, <1>7, <1>8, <1>10, <1>11, <1>13, <1>14, <1>15 DEF Pipeline

\* A transaction lands: what it credits or freezes is its own request's.
LEMMA LandHeld ==
    ASSUME Holds, Base, Inductive', NEW tx \in mempool, Land(tx)
    PROVE  Holds'
<1>0. Grows
  BY ExecuteStep DEF Land, Base, AgentInductive, Books
<1>1. /\ UNCHANGED <<pc, isNew, at, before, roleAt, awaiting>>
      /\ landed' = IF awaiting[tx.from] = tx THEN landed \cup {tx} ELSE landed
      /\ Posted /\ Deliveries /\ Shapes /\ Slot
      /\ tx.from \in Requests /\ IsTx(tx) /\ tx \notin landed /\ IsMine(tx, tx.from)
      /\ NoTx.op = "none"
  BY DEF Land, requestVars, Base, AgentInductive, Books, Deliveries, Posted, NoTx
<1>2. \A r \in Requests : \A role \in Roles :
         /\ Due(r, role) \in Int /\ Grown(r, role) \in Int /\ claimable[role] \in Nat
         /\ suspectCredit[r][role] \in Nat /\ frozenBy[r][role] \in Nat
         /\ cutUnder[r][role] \in Nat /\ before[r][role] \in Nat
  BY DueFacts
<1>3. \A role \in Roles : claimable'[role] \in Nat /\ claimable'[role] >= claimable[role]
  BY <1>0 DEF Grows, Inductive, TypeOK, U64
<1>4. \A r \in Requests : \A role \in Roles :
         Grown(r, role)' \in Int /\ Grown(r, role)' >= Grown(r, role)
  BY <1>1, <1>2, <1>3 DEF Grown
\* Of the other requests only the claimables they compare with have grown.
<1>5. ASSUME NEW r \in Requests, \A role \in Roles : Due(r, role)' = Due(r, role),
             awaiting[r] # tx \/ tx.op = "verify"
      PROVE  HeldBy(r)'
  <2>1. /\ HeldBy(r) /\ (Running(r)' <=> Running(r)) /\ (PastSettle(r)' <=> PastSettle(r))
        /\ (NothingDue(r)' <=> NothingDue(r)) /\ (Suspect(r)' <=> Suspect(r))
    BY <1>1, <1>5 DEF Holds, Running, PastSettle, NothingDue, Suspect
  <2>2. awaiting[r].op # "verify" => (awaiting[r] \in landed' <=> awaiting[r] \in landed)
    BY <1>1, <1>5
  <2>3. SettleLanded(r)' <=> SettleLanded(r)
    BY <1>1, <2>2 DEF SettleLanded
  <2>4. ASSUME Settling(r) PROVE Settling(r)'
    <3>1. \A role \in Roles : Due(r, role) <= Grown(r, role) => Due(r, role)' <= Grown(r, role)'
      BY <1>2, <1>4, <1>5
    <3> QED
      BY <1>1, <2>1, <2>3, <2>4, <3>1 DEF Settling
  <2>5. ASSUME Marking(r), PastSettle(r) PROVE Marking(r)'
    <3> SUFFICES ASSUME NEW k \in 1 .. 4, NEW role, role = RoleOrder[k]
                 PROVE  /\ k < roleAt[r] => Due(r, role)' <= 0
                        /\ k > roleAt[r] => Due(r, role)' <= Grown(r, role)'
                        /\ k = roleAt[r] =>
                              IF pc[r] = "mark" THEN Due(r, role)' <= Grown(r, role)'
                              ELSE IF awaiting[r] \in landed' THEN Due(r, role)' <= 0
                              ELSE Due(r, role)' <= awaiting[r].amount
      BY <1>1, <2>1, <2>5 DEF Marking, MarkingAt
    <3>1. /\ role \in Roles /\ Due(r, role)' = Due(r, role)
          /\ Due(r, role) \in Int /\ Grown(r, role) \in Int /\ Grown(r, role)' \in Int
          /\ Grown(r, role)' >= Grown(r, role)
      BY <1>2, <1>4, <1>5, RolesInOrder
    <3>2. pc[r] # "mark" => (awaiting[r] \in landed' <=> awaiting[r] \in landed)
      BY <2>2, <2>5 DEF PastSettle
    <3> QED
      BY <2>5, <3>1, <3>2 DEF Marking, MarkingAt
  <2> QED
    BY <1>1, <2>1, <2>4, <2>5 DEF HeldBy
\* A transaction that its request has given up changes nothing that it is owed.
<1>6. ASSUME NEW r \in Requests, pc[r] \in Abandoned PROVE HeldBy(r)'
  BY <1>1, <1>6 DEF HeldBy, Running, InPipeline, Abandoned
<1>7. ASSUME NEW r \in Requests, awaiting[r] = tx
      PROVE  /\ tx.from = r /\ pc[r] = "await" /\ tx.screening = at[r] /\ Running(r)
             /\ tx \in landed'
  BY <1>1, <1>7 DEF Posted, IsMine, Deliveries, IsTx, Running, InPipeline
<1>8. ASSUME NEW r \in Requests, r # tx.from PROVE HeldBy(r)'
  <2>1. /\ suspectCredit'[r] = suspectCredit[r] /\ frozenBy'[r] = frozenBy[r]
        /\ cutUnder'[r] = cutUnder[r]
    BY <1>1, <1>8 DEF Land, Execute, historyVars, Shapes
  <2>2. \A role \in Roles : Due(r, role)' = Due(r, role)
    BY <2>1 DEF Due
  <2> QED
    BY <1>5, <1>7, <1>8, <2>2
<1>9. ASSUME NEW r \in Requests, awaiting[r] = tx PROVE HeldBy(r)'
  <2>0. /\ tx.from = r /\ pc[r] = "await" /\ tx.screening = at[r] /\ Running(r)
        /\ tx \in landed' /\ HeldBy(r)
        /\ (PastSettle(r)' <=> PastSettle(r)) /\ (Suspect(r)' <=> Suspect(r))
    BY <1>1, <1>7, <1>9 DEF Holds, PastSettle, Suspect
  <2>1. CASE tx.op = "verify" /\ UNCHANGED historyVars
    <3>1. \A role \in Roles : Due(r, role)' = Due(r, role)
      BY <2>1 DEF historyVars, Due
    <3> QED
      BY <1>5, <2>1, <3>1
  <2>2. CASE /\ tx.op = "settle" /\ UNCHANGED <<frozenBy, cutUnder>>
             /\ suspectCredit' =
                   IF Verdict(r, Batch[tx.screening]) = "proceed" THEN suspectCredit
                   ELSE [suspectCredit EXCEPT ![r] =
                          [role \in Roles |-> @[role] + claimable'[role] - claimable[role]]]
    <3>1. ~PastSettle(r) /\ ~SettleLanded(r) /\ SettleLanded(r)' /\ Settling(r)
      BY <1>1, <1>9, <2>0, <2>2 DEF PastSettle, SettleLanded, HeldBy
    <3>2. NothingDue(r)
      BY <3>1 DEF Settling
    <3>3. CASE ~Suspect(r)
      <4>1. suspectCredit' = suspectCredit
        BY <2>0, <2>2, <3>3 DEF Verdict, Suspect
      <4>2. NothingDue(r)'
        BY <2>2, <3>2, <4>1 DEF NothingDue, Due
      <4> QED
        BY <1>1, <2>0, <3>1, <3>3, <4>2 DEF HeldBy, Settling
    <3>4. CASE Suspect(r)
      <4>1. suspectCredit' = [suspectCredit EXCEPT ![r] =
               [role \in Roles |-> suspectCredit[r][role] + claimable'[role] - claimable[role]]]
        BY <2>0, <2>2, <3>4 DEF Verdict, Suspect
      <4>2. \A role \in Roles : suspectCredit'[r][role] =
               suspectCredit[r][role] + claimable'[role] - claimable[role]
        BY <1>1, <4>1 DEF Shapes
      <4>3. \A role \in Roles : Due(r, role) <= Grown(r, role)
        BY <2>0, <3>1, <3>4 DEF Settling
      <4>4. ASSUME NEW role \in Roles
            PROVE  Due(r, role)' <= Grown(r, role)'
        <5>1. /\ suspectCredit'[r][role] =
                    suspectCredit[r][role] + claimable'[role] - claimable[role]
              /\ (suspectCredit[r][role] - frozenBy[r][role]) - cutUnder[r][role]
                    <= claimable[role] - before[r][role]
              /\ frozenBy' = frozenBy /\ cutUnder' = cutUnder /\ before' = before
          BY <1>1, <2>2, <4>2, <4>3 DEF Due, Grown
        <5>2. (suspectCredit'[r][role] - frozenBy[r][role]) - cutUnder[r][role]
                 <= claimable'[role] - before[r][role]
          BY <1>2, <1>3, <5>1
        <5> QED
          BY <5>1, <5>2 DEF Due, Grown
      <4> QED
        BY <1>1, <2>0, <3>1, <3>4, <4>4 DEF HeldBy, Settling
    <3> QED
      BY <3>3, <3>4
  <2>3. CASE /\ tx.op = "mark" /\ MarkDisputed(tx.role, tx.amount)
             /\ UNCHANGED <<suspectCredit, cutUnder>>
             /\ frozenBy' = [frozenBy EXCEPT ![r][tx.role] = @ + tx.amount]
    <3>1. PastSettle(r) /\ Marking(r)
      BY <1>9, <2>0, <2>3 DEF PastSettle, HeldBy
    <3>2. /\ roleAt[r] \in 1 .. 4 /\ tx.role = RoleOrder[roleAt[r]] /\ tx.role \in Roles
          /\ tx.amount \in Nat /\ claimable' = claimable
      BY <1>1, <1>9, <2>0, <2>3 DEF Base, Books, Places, IsMine, MarkDisputed
    <3>3. \A role \in Roles : frozenBy'[r][role] =
             IF role = tx.role THEN frozenBy[r][role] + tx.amount ELSE frozenBy[r][role]
      BY <1>1, <2>3, <3>2 DEF Shapes
    <3>4. \A role \in Roles :
             /\ Grown(r, role)' = Grown(r, role)
             /\ role # tx.role => Due(r, role)' = Due(r, role)
      BY <1>1, <2>3, <3>2, <3>3 DEF Due, Grown
    <3>5. Due(r, tx.role)' = Due(r, tx.role) - tx.amount
      <4>1. frozenBy'[r][tx.role] = frozenBy[r][tx.role] + tx.amount
            /\ suspectCredit' = suspectCredit /\ cutUnder' = cutUnder
        BY <2>3, <3>2, <3>3
      <4>2. /\ frozenBy[r][tx.role] \in Nat /\ suspectCredit[r][tx.role] \in Nat
            /\ cutUnder[r][tx.role] \in Nat
        BY <1>2, <3>2
      <4> QED
        BY <3>2, <4>1, <4>2 DEF Due
    <3>6. Due(r, tx.role)' <= 0
      <4>1. Due(r, tx.role) <= tx.amount
        BY <1>1, <1>9, <2>0, <3>1, <3>2 DEF Marking, MarkingAt
      <4> QED
        BY <1>2, <3>2, <3>5, <4>1
    <3>7. \A k \in 1 .. 4 : k # roleAt[r] => RoleOrder[k] # tx.role
      BY <3>2, RolesInOrder
    <3>8. Marking(r)'
      BY <1>1, <1>9, <2>0, <3>1, <3>2, <3>4, <3>6, <3>7, RolesInOrder
         DEF Marking, MarkingAt, Suspect
    <3> QED
      BY <1>1, <2>0, <3>1, <3>8 DEF HeldBy
  <2> QED
    BY <2>0, <2>1, <2>2, <2>3 DEF Land, Execute
<1>10. ASSUME NEW r \in Requests PROVE HeldBy(r)'
  BY <1>1, <1>6, <1>8, <1>9 DEF Posted
<1> QED
  BY <1>10 DEF Holds

\* A share grows under whoever reads it: what is owed stays, and the difference
\* between the two reads is no smaller.
LEMMA GrownHeld ==
    ASSUME Holds, Base, Inductive', Grows,
           UNCHANGED <<pc, isNew, at, before, roleAt, awaiting, landed,
                       suspectCredit, frozenBy, cutUnder>>
    PROVE  Holds'
<1> SUFFICES ASSUME NEW r \in Requests PROVE HeldBy(r)'
  BY DEF Holds
<1>1. /\ HeldBy(r) /\ (Running(r)' <=> Running(r)) /\ (PastSettle(r)' <=> PastSettle(r))
      /\ (Suspect(r)' <=> Suspect(r)) /\ (SettleLanded(r)' <=> SettleLanded(r))
  BY DEF Holds, Running, PastSettle, Suspect, SettleLanded
<1>2. ASSUME NEW role \in Roles
      PROVE  /\ Due(r, role)' = Due(r, role) /\ Due(r, role) \in Int
             /\ Grown(r, role) \in Int /\ Grown(r, role)' \in Int
             /\ Grown(r, role)' >= Grown(r, role)
  <2>1. /\ claimable'[role] \in Nat /\ claimable'[role] >= claimable[role]
    BY <1>2 DEF Grows, Inductive, TypeOK, U64
  <2> QED
    BY <1>2, <2>1, DueFacts DEF Due, Grown
<1>3. NothingDue(r)' <=> NothingDue(r)
  BY <1>2 DEF NothingDue
<1>4. \A role \in Roles : Due(r, role) <= Grown(r, role) => Due(r, role)' <= Grown(r, role)'
  BY <1>2
<1>5. Settling(r) => Settling(r)'
  BY <1>1, <1>3, <1>4 DEF Settling
<1>6. Marking(r) => Marking(r)'
  BY <1>1, <1>2, <1>4, RolesInOrder DEF Marking, MarkingAt
<1> QED
  BY <1>1, <1>3, <1>5, <1>6 DEF HeldBy

\* A rejection between the two reads of a share takes as much off what is due as
\* off the difference; before the first and after the second it concerns nobody
\* who reads.
LEMMA RejectHeld ==
    ASSUME Holds, Base, NEW role \in Roles, RejectHold(role)
    PROVE  Holds'
<1> SUFFICES ASSUME NEW r \in Requests PROVE HeldBy(r)'
  BY DEF Holds
<1>1. UNCHANGED <<pc, isNew, at, before, roleAt, awaiting, landed, suspectCredit, frozenBy>>
  BY DEF RejectHold, requestVars
<1>2. /\ HeldBy(r) /\ (Running(r)' <=> Running(r)) /\ (PastSettle(r)' <=> PastSettle(r))
      /\ (Suspect(r)' <=> Suspect(r)) /\ (SettleLanded(r)' <=> SettleLanded(r))
  BY <1>1 DEF Holds, Running, PastSettle, Suspect, SettleLanded
<1>3. /\ held[role] \in Nat /\ claimable \in [Roles -> Nat]
      /\ claimable' = [claimable EXCEPT ![role] = @ - held[role]]
  BY Numbers, RejectHoldStep DEF Base
<1>4. cutUnder'[r] = IF ReadsAgain(r, role) THEN [cutUnder[r] EXCEPT ![role] = @ + held[role]]
                     ELSE cutUnder[r]
  BY DEF RejectHold
<1>5. \A x \in Roles : Due(r, x) \in Int /\ Grown(r, x) \in Int /\ cutUnder[r][x] \in Nat
  BY DueFacts
<1>6. ASSUME NEW x \in Roles, x # role
      PROVE  Due(r, x)' = Due(r, x) /\ Grown(r, x)' = Grown(r, x)
  <2>1. cutUnder'[r][x] = cutUnder[r][x] /\ claimable'[x] = claimable[x]
    BY <1>3, <1>4, <1>6 DEF Base, Books, Shapes
  <2> QED
    BY <1>1, <2>1 DEF Due, Grown
<1>7. Due(r, role)' <= Due(r, role) /\ Due(r, role)' \in Int /\ Grown(r, role)' \in Int
  <2>1. cutUnder'[r][role] \in Nat /\ cutUnder'[r][role] >= cutUnder[r][role]
    BY <1>3, <1>4, <1>5 DEF Base, Books, Shapes
  <2>2. claimable'[role] = claimable[role] - held[role]
    BY <1>3
  <2> QED
    BY <1>1, <1>3, <2>1, <2>2, DueFacts DEF Due, Grown
<1>8. ASSUME ReadsAgain(r, role)
      PROVE  Due(r, role) <= Grown(r, role) => Due(r, role)' <= Grown(r, role)'
  <2>1. /\ cutUnder'[r][role] = cutUnder[r][role] + held[role]
        /\ claimable'[role] = claimable[role] - held[role]
    BY <1>3, <1>4, <1>8 DEF Base, Books, Shapes
  <2>2. /\ suspectCredit[r][role] \in Nat /\ frozenBy[r][role] \in Nat
        /\ cutUnder[r][role] \in Nat /\ claimable[role] \in Nat /\ before[r][role] \in Nat
    BY DueFacts
  <2> QED
    BY <1>1, <1>3, <2>1, <2>2 DEF Due, Grown
<1>9. \A x \in Roles : Due(r, x) <= 0 => Due(r, x)' <= 0
  BY <1>5, <1>6, <1>7
<1>10. ASSUME Running(r), ~PastSettle(r) PROVE Settling(r)'
  <2>1. Settling(r)
    BY <1>2, <1>10 DEF HeldBy
  <2>2. NothingDue(r) => NothingDue(r)'
    BY <1>9 DEF NothingDue
  <2>3. ASSUME pc[r] \in {"verify", "settle", "await"}, Suspect(r) PROVE ReadsAgain(r, role)
    <3>1. pc[r] = "await" => awaiting[r].op \in {"verify", "settle", "mark"}
      BY <1>10, RunningRequest DEF Running, IsTx
    <3> QED
      BY <1>10, <2>3, <3>1 DEF ReadsAgain, PastSettle, Suspect, Verdict
  <2>4. ASSUME pc[r] \in {"verify", "settle", "await"}, Suspect(r), NEW x \in Roles
        PROVE  Due(r, x)' <= Grown(r, x)'
    BY <1>6, <1>8, <2>1, <2>3, <2>4 DEF Settling
  <2> QED
    BY <1>1, <1>2, <2>1, <2>2, <2>4 DEF Settling
<1>11. ASSUME Running(r), PastSettle(r) PROVE Marking(r)'
  <2>1. Marking(r) /\ Suspect(r) /\ roleAt[r] \in 1 .. 5
    BY <1>2, <1>11 DEF HeldBy, Marking, Base, Books, Places
  <2>2. ASSUME NEW k \in 1 .. 4, RoleOrder[k] = role,
               k > roleAt[r] \/ (k = roleAt[r] /\ pc[r] = "mark")
        PROVE  ReadsAgain(r, role)
    <3>1. CASE pc[r] = "mark"
      <4>1. k \in roleAt[r] .. Len(RoleOrder)
        BY <2>1, <2>2, RolesInOrder
      <4> QED
        BY <1>11, <2>1, <2>2, <3>1, <4>1 DEF ReadsAgain, Suspect, Verdict
    <3>2. CASE pc[r] = "await" /\ awaiting[r].op = "mark"
      <4>1. k \in roleAt[r] + 1 .. Len(RoleOrder)
        BY <2>1, <2>2, <3>2, RolesInOrder
      <4> QED
        BY <1>11, <2>1, <2>2, <3>2, <4>1 DEF ReadsAgain, Suspect, Verdict
    <3> QED
      BY <1>11, <3>1, <3>2 DEF PastSettle
  <2>3. ASSUME NEW k \in 1 .. 4 PROVE MarkingAt(r, k)'
    <3> DEFINE x == RoleOrder[k]
    <3>1. x \in Roles /\ MarkingAt(r, k)
      BY <2>1, RolesInOrder DEF Marking
    <3>2. CASE x # role
      BY <1>1, <1>6, <3>1, <3>2 DEF MarkingAt
    <3>3. CASE x = role
      <4>1. \/ k > roleAt[r] \/ (k = roleAt[r] /\ pc[r] = "mark")
            \/ k < roleAt[r] \/ (k = roleAt[r] /\ pc[r] = "await")
        BY <1>11, <2>1 DEF PastSettle
      <4>2. CASE k > roleAt[r] \/ (k = roleAt[r] /\ pc[r] = "mark")
        BY <1>1, <1>8, <2>1, <2>2, <3>1, <3>3, <4>2 DEF MarkingAt
      <4>3. CASE k < roleAt[r] \/ (k = roleAt[r] /\ pc[r] = "await")
        <5>1. k = roleAt[r] => awaiting[r].amount \in Int
          BY <1>11, <4>3 DEF PastSettle, Base, Books, Posted, IsMine
        <5> QED
          BY <1>1, <1>5, <1>7, <2>1, <3>1, <3>3, <4>3, <5>1 DEF MarkingAt
      <4> QED
        BY <4>1, <4>2, <4>3
    <3> QED
      BY <3>2, <3>3
  <2> QED
    BY <1>2, <2>1, <2>3 DEF Marking
<1>12. NothingDue(r) => NothingDue(r)'
  BY <1>9 DEF NothingDue
<1> QED
  BY <1>1, <1>2, <1>10, <1>11, <1>12 DEF HeldBy

LEMMA HoldsKept ==
    ASSUME Holds, Base, [AgentNext]_systemVars
    PROVE  Holds'
<1>1. /\ Inductive' /\ Slot
      /\ Grows \/ \E role \in Roles : RejectHold(role)
  BY EscrowStep, BooksKept DEF Base, AgentInductive, Books
<1>2. ASSUME UNCHANGED <<pc, isNew, at, before, roleAt, awaiting, landed,
                         suspectCredit, frozenBy, cutUnder>>
      PROVE  Holds'
  BY <1>1, <1>2, GrownHeld, RejectHeld
<1>3. CASE Others \/ UNCHANGED systemVars
  BY <1>2, <1>3, RejectHeld DEF Others, systemVars, agentVars, requestVars, historyVars
<1>4. ASSUME NEW r \in Requests, Trigger(r) PROVE Holds'
  <2>1. /\ pc[r] = "unsent" /\ \A q \in Requests \ {r} : pc'[q] = pc[q]
        /\ pc'[r] \in {"replayed", "conflict", "history"}
        /\ UNCHANGED <<isNew, at, before, roleAt, awaiting, landed, suspectCredit, frozenBy,
                       cutUnder, claimable>>
    BY <1>1, <1>4 DEF Trigger, Goto, Slot, historyVars, vars, allocVars
  <2>2. awaiting[r] = NoTx /\ NoTx.op = "none"
    BY <2>1 DEF Base, AgentInductive, Deliveries, NoTx
  <2>3. NothingDue(r)' /\ ~PastSettle(r)' /\ ~SettleLanded(r)'
    BY <2>1, <2>2 DEF Holds, HeldBy, NothingDue, Due, PastSettle, SettleLanded
  <2>4. HeldBy(r)'
    BY <2>1, <2>3 DEF HeldBy, Settling
  <2>5. ASSUME NEW q \in Requests \ {r} PROVE HeldBy(q)'
    <3>1. /\ HeldBy(q) /\ (Running(q)' <=> Running(q)) /\ (PastSettle(q)' <=> PastSettle(q))
          /\ (Settling(q)' <=> Settling(q)) /\ (NothingDue(q)' <=> NothingDue(q))
      BY <2>1 DEF Holds, Running, PastSettle, Settling, Suspect, SettleLanded, NothingDue, Due,
         Grown
    <3>2. Marking(q)' <=> Marking(q)
      BY <2>1 DEF Marking, MarkingAt, Suspect, Due, Grown
    <3> QED
      BY <2>1, <3>1, <3>2 DEF HeldBy
  <2> QED
    BY <2>4, <2>5 DEF Holds
<1>5. CASE Reset
  BY <1>2, <1>5, NothingLandedWhenFree DEF Reset, MayReset, requestVars, Base, AgentInductive
<1>6. CASE Crash
  <2>1. /\ \A q \in Requests : pc'[q] = IF Running(q) THEN "lost" ELSE pc[q]
        /\ UNCHANGED <<suspectCredit, frozenBy, cutUnder>>
    BY <1>6 DEF Crash, historyVars
  <2>2. ASSUME NEW q \in Requests PROVE HeldBy(q)'
    <3>1. ~Running(q)' /\ (NothingDue(q)' <=> NothingDue(q))
      BY <2>1 DEF Running, InPipeline, NothingDue, Due
    <3> QED
      BY <2>1, <3>1 DEF Holds, HeldBy
  <2> QED
    BY <2>2 DEF Holds
<1>7. ASSUME NEW tx \in mempool, Land(tx) \/ Lose(tx) PROVE Holds'
  <2>1. CASE Lose(tx)
    BY <1>2, <2>1 DEF Lose, requestVars, historyVars
  <2> QED
    BY <1>1, <1>7, <2>1, LandHeld
<1> QED
  BY <1>3, <1>4, <1>5, <1>6, <1>7, PipelineHeld DEF AgentNext, Network

LEMMA HoldsInit == AgentInit => Holds
<1> SUFFICES ASSUME AgentInit PROVE Holds
  OBVIOUS
<1>1. \A r \in Requests : NothingDue(r)
  BY DEF AgentInit, NothingDue, Due, NoCredit
<1> QED
  BY <1>1 DEF AgentInit, Holds, HeldBy, Running, InPipeline

LEMMA HoldsIsCompletedMeansHeld ==
    ASSUME Base, Holds PROVE CompletedMeansHeld
<1>1. ASSUME NEW r \in Requests, pc[r] = "completed", NEW role \in Roles
      PROVE  frozenBy[r][role] + cutUnder[r][role] >= suspectCredit[r][role]
  <2>1. (suspectCredit[r][role] - frozenBy[r][role]) - cutUnder[r][role] <= 0
    BY <1>1 DEF Holds, HeldBy, NothingDue, Due
  <2> QED
    BY <2>1, DueFacts
<1> QED
  BY <1>1 DEF CompletedMeansHeld

-----------------------------------------------------------------------------
(***************************************************************************)
(* The settlements of a screening, counted.  Each is accounted for by a    *)
(* failure or a restart, but one: that of the request that runs, or of the *)
(* run whose result is recorded.  So is a settlement that a request left   *)
(* behind and that may yet land.                                           *)
(***************************************************************************)
Sent   == {r \in Requests : pc[r] # "unsent"}
Failed == {r \in Requests : pc[r] = "failed"}
Lost   == {r \in Requests : pc[r] = "lost"}

LeftBehind(i) == {r \in Requests : pc[r] \in Abandoned /\ SettleOf(r, i) \in mempool}

HasSettled(r, i) == Running(r) /\ (Passed(r, i) \/ SettleOf(r, i) \in landed)
RunSettled(i) == batchResult # NoResult \/ \E r \in Requests : HasSettled(r, i)

Allowed(i) == Failures + (IF RunSettled(i) THEN 1 ELSE 0)

Counted ==
    /\ IsFiniteSet(Sent)
    /\ Cardinality(Lost) <= crashes
    /\ \A i \in 1 .. Len(Batch) :
          settledTimes[Batch[i]] + Cardinality(LeftBehind(i)) <= Allowed(i)

LEMMA SubsetCounts ==
    ASSUME NEW S, IsFiniteSet(S), NEW T, T \subseteq S
    PROVE  /\ IsFiniteSet(T) /\ Cardinality(T) \in Nat /\ Cardinality(S) \in Nat
           /\ Cardinality(T) <= Cardinality(S)
<1>1. T \in SUBSET S
  OBVIOUS
<1>2. IsFiniteSet(T) /\ Cardinality(T) <= Cardinality(S)
  BY <1>1, FS_Subset
<1> QED
  BY <1>2, FS_CardinalityType

LEMMA OneMoreCounts ==
    ASSUME NEW S, IsFiniteSet(S), NEW x, NEW T, T \subseteq S \cup {x}
    PROVE  /\ IsFiniteSet(T) /\ Cardinality(T) \in Nat /\ Cardinality(S) \in Nat
           /\ Cardinality(T) <= Cardinality(S) + 1
<1>1. /\ IsFiniteSet(S \cup {x}) /\ Cardinality(S) \in Nat
      /\ Cardinality(S \cup {x}) <= Cardinality(S) + 1
  <2>1. Cardinality(S) \in Nat
    BY FS_CardinalityType
  <2>2. /\ IsFiniteSet(S \cup {x})
        /\ Cardinality(S \cup {x}) = IF x \in S THEN Cardinality(S) ELSE Cardinality(S) + 1
    BY FS_AddElement
  <2> QED
    BY <2>1, <2>2
<1>2. /\ IsFiniteSet(T) /\ Cardinality(T) \in Nat /\ Cardinality(S \cup {x}) \in Nat
      /\ Cardinality(T) <= Cardinality(S \cup {x})
  BY <1>1, SubsetCounts
<1> QED
  BY <1>1, <1>2

LEMMA CountFacts ==
    ASSUME IsFiniteSet(Sent)
    PROVE  /\ IsFiniteSet(Failed) /\ Cardinality(Failed) \in Nat
           /\ IsFiniteSet(Lost) /\ Cardinality(Lost) \in Nat
           /\ \A i : IsFiniteSet(LeftBehind(i)) /\ Cardinality(LeftBehind(i)) \in Nat
<1>1. Failed \subseteq Sent /\ Lost \subseteq Sent
  BY DEF Failed, Lost, Sent
<1>2. ASSUME NEW i PROVE IsFiniteSet(LeftBehind(i)) /\ Cardinality(LeftBehind(i)) \in Nat
  <2>1. LeftBehind(i) \subseteq Sent
    BY DEF LeftBehind, Sent, Abandoned
  <2> QED
    BY <2>1, SubsetCounts
<1>3. IsFiniteSet(Failed) /\ Cardinality(Failed) \in Nat
  BY <1>1, SubsetCounts
<1>4. IsFiniteSet(Lost) /\ Cardinality(Lost) \in Nat
  BY <1>1, SubsetCounts
<1> QED
  BY <1>2, <1>3, <1>4

LEMMA FailuresFact == Failures = crashes + Cardinality(Failed)
BY DEF Failures, Failed

LEMMA TimesFact ==
    ASSUME Base, NEW i \in 1 .. Len(Batch)
    PROVE  settledTimes[Batch[i]] \in Nat /\ crashes \in Nat
<1>1. Batch[i] \in Screenings
  BY DEF Screenings
<1> QED
  BY <1>1 DEF Base, AgentInductive, Progress, Books, Shapes

\* No failure: no settlement, and what the run has settled it has settled still.
LEMMA CountsStay ==
    ASSUME Base, Counted, IsFiniteSet(Sent)', UNCHANGED <<Failed, Lost, crashes>>,
           \A i \in 1 .. Len(Batch) :
              /\ settledTimes'[Batch[i]] = settledTimes[Batch[i]]
              /\ LeftBehind(i)' \subseteq LeftBehind(i)
              /\ RunSettled(i) => RunSettled(i)'
    PROVE  Counted'
<1>1. Failures' = Failures /\ Failures \in Nat
  <2>1. Failures' = crashes' + Cardinality(Failed')
    BY DEF Failures, Failed
  <2>2. crashes \in Nat
    BY DEF Base, Books, Shapes
  <2> QED
    BY <2>1, <2>2, FailuresFact, CountFacts DEF Counted
<1>2. ASSUME NEW i \in 1 .. Len(Batch)
      PROVE  settledTimes'[Batch[i]] + Cardinality(LeftBehind(i)') <= Allowed(i)'
  <2>1. /\ Cardinality(LeftBehind(i)') \in Nat /\ Cardinality(LeftBehind(i)) \in Nat
        /\ Cardinality(LeftBehind(i)') <= Cardinality(LeftBehind(i))
    <3>1. IsFiniteSet(LeftBehind(i))
      BY CountFacts DEF Counted
    <3> QED
      BY <3>1, SubsetCounts
  <2>2. settledTimes[Batch[i]] + Cardinality(LeftBehind(i)) <= Allowed(i)
    BY DEF Counted
  <2>3. Allowed(i) \in Nat /\ Allowed(i)' \in Nat /\ Allowed(i) <= Allowed(i)'
    BY <1>1 DEF Allowed
  <2> QED
    BY <2>1, <2>2, <2>3, TimesFact
<1>3. (Cardinality(Lost) <= crashes)'
  BY DEF Counted
<1> QED
  BY <1>2, <1>3 DEF Counted

\* Of the requests only the one that runs has settled anything in this run.
LEMMA SettledByRunning ==
    ASSUME Base, NEW r \in Requests, Running(r), NEW i
    PROVE  /\ batchResult = NoResult
           /\ RunSettled(i) <=> HasSettled(r, i)
<1>1. batchResult = NoResult
  BY DEF Base, Books, Posted, AgentInductive, Slot, OneRunAtATime
<1>2. \A q \in Requests : Running(q) => q = r
  BY DEF Base, AgentInductive, Slot, OneRunAtATime
<1> QED
  BY <1>1, <1>2 DEF RunSettled, HasSettled

\* A failure allows one settlement more: what the running request has sent and
\* leaves behind, or what the run had settled.
LEMMA CountsFail ==
    ASSUME Base, Counted, IsFiniteSet(Sent)', Failures' = Failures + 1,
           (Cardinality(Lost) <= crashes)', UNCHANGED <<settledTimes, mempool>>,
           \A q \in Requests : pc'[q] \in Abandoned => pc[q] \in Abandoned \/ Running(q)
    PROVE  Counted'
<1>1. Failures' = Failures + 1 /\ Failures \in Nat
  <2>1. crashes \in Nat
    BY DEF Base, Books, Shapes
  <2> QED
    BY <2>1, FailuresFact, CountFacts DEF Counted
<1>2. ASSUME NEW i \in 1 .. Len(Batch)
      PROVE  settledTimes'[Batch[i]] + Cardinality(LeftBehind(i)') <= Allowed(i)'
  <2>1. IsFiniteSet(LeftBehind(i)) /\ Cardinality(LeftBehind(i)) \in Nat
    BY CountFacts DEF Counted
  <2>2. settledTimes[Batch[i]] + Cardinality(LeftBehind(i)) <= Allowed(i)
    BY DEF Counted
  <2>3. ASSUME NEW r \in Requests, Running(r), SettleOf(r, i) \in mempool
        PROVE  settledTimes'[Batch[i]] + Cardinality(LeftBehind(i)') <= Allowed(i)'
    <3>1. /\ awaiting[r] = SettleOf(r, i) /\ SettleOf(r, i) \notin landed /\ i = at[r]
          /\ ~PastSettle(r)
      BY <2>3 DEF Base, Books, Posted, AgentInductive, Deliveries, SettleOf, Running, InPipeline,
         Abandoned, PastSettle, IsTx, NoTx
    <3>2. ~RunSettled(i)
      <4>1. at[r] \in Nat
        BY <2>3, BatchFacts DEF Base, AgentInductive, Slot
      <4> QED
        BY <2>3, <3>1, <4>1, SettledByRunning DEF HasSettled, Passed
    <3>3. LeftBehind(i)' \subseteq LeftBehind(i) \cup {r}
      <4>1. \A q \in Requests : Running(q) => q = r
        BY <2>3 DEF Base, AgentInductive, Slot, OneRunAtATime
      <4> QED
        BY <4>1 DEF LeftBehind, SettleOf
    <3>4. Cardinality(LeftBehind(i)') <= Cardinality(LeftBehind(i)) + 1
          /\ Cardinality(LeftBehind(i)') \in Nat
      BY <2>1, <3>3, OneMoreCounts
    <3>5. Allowed(i) = Failures /\ Allowed(i)' >= Failures + 1 /\ Allowed(i)' \in Nat
      BY <1>1, <3>2 DEF Allowed
    <3> QED
      BY <1>1, <2>1, <2>2, <3>4, <3>5, TimesFact
  <2>4. CASE ~ \E r \in Requests : Running(r) /\ SettleOf(r, i) \in mempool
    <3>1. LeftBehind(i)' \subseteq LeftBehind(i)
      BY <2>4 DEF LeftBehind, SettleOf
    <3>2. Cardinality(LeftBehind(i)') <= Cardinality(LeftBehind(i))
          /\ Cardinality(LeftBehind(i)') \in Nat
      BY <2>1, <3>1, SubsetCounts
    <3>3. Allowed(i) <= Failures + 1 /\ Allowed(i)' >= Failures + 1
          /\ Allowed(i) \in Nat /\ Allowed(i)' \in Nat
      BY <1>1 DEF Allowed
    <3> QED
      BY <1>1, <2>1, <2>2, <3>2, <3>3, TimesFact
  <2> QED
    BY <2>3, <2>4
<1> QED
  BY <1>2 DEF Counted

\* A request that runs goes on: nobody else has left anything behind.
LEMMA RunGoesOn ==
    ASSUME Base, Counted, NEW r \in Requests, Running(r),
           NEW label \in InPipeline \cup {"completed"}, pc' = [pc EXCEPT ![r] = label],
           \A tx \in mempool' : tx \in mempool \/ tx.from = r,
           UNCHANGED <<crashes, settledTimes>>,
           \A i \in 1 .. Len(Batch) : RunSettled(i) => RunSettled(i)'
    PROVE  Counted'
<1>1. /\ \A q \in Requests : pc'[q] = IF q = r THEN label ELSE pc[q]
      /\ pc[r] \in InPipeline
  BY DEF Base, AgentInductive, Slot, Running
<1>2. UNCHANGED <<Sent, Failed, Lost>>
  BY <1>1 DEF Sent, Failed, Lost, InPipeline
<1>3. \A i \in 1 .. Len(Batch) : LeftBehind(i)' \subseteq LeftBehind(i)
  BY <1>1 DEF LeftBehind, SettleOf, Abandoned, InPipeline
<1>4. IsFiniteSet(Sent)'
  BY <1>2 DEF Counted
<1> QED
  BY <1>2, <1>3, <1>4, CountsStay

\* A settlement that has landed is what its request waits for.
LEMMA LandedIsAwaited ==
    ASSUME Base, NEW r \in Requests, NEW i, SettleOf(r, i) \in landed
    PROVE  pc[r] = "await" /\ awaiting[r] = SettleOf(r, i) /\ at[r] = i
<1>1. PICK q \in Requests : pc[q] = "await" /\ awaiting[q] = SettleOf(r, i)
  BY DEF Base, AgentInductive, Deliveries
<1>2. awaiting[q].from = q /\ awaiting[q].screening = at[q]
  BY <1>1 DEF Base, Books, Posted, IsMine, AgentInductive, Deliveries
<1> QED
  BY <1>1, <1>2 DEF SettleOf

LEMMA FinishCounted ==
    ASSUME Base, Counted, NEW r \in Requests, pc[r] \in {"mark", "await"}, FinishScreening(r),
           UNCHANGED <<mempool, crashes, settledTimes>>
    PROVE  Counted'
<1>1. /\ Running(r) /\ pc \in [Requests -> Labels] /\ at \in [Requests -> 1 .. Len(Batch)]
      /\ at[r] \in 1 .. Len(Batch) /\ Len(Batch) \in Nat /\ Len(outcomes[r]) = at[r]
  BY RunningRequest DEF InPipeline
<1>2. PICK label \in {"judge", "completed"} : pc' = [pc EXCEPT ![r] = label]
  BY DEF FinishScreening, Goto
<1>3. ASSUME NEW i \in 1 .. Len(Batch), RunSettled(i) PROVE RunSettled(i)'
  <2>1. HasSettled(r, i)
    BY <1>1, <1>3, SettledByRunning
  <2>2. i <= at[r]
    BY <1>1, <2>1, LandedIsAwaited DEF HasSettled, Passed
  <2>3. CASE at[r] < Len(Batch)
    <3>1. pc'[r] = "judge" /\ at'[r] = at[r] + 1
      BY <1>1, <2>3 DEF FinishScreening, Goto
    <3> QED
      BY <1>1, <2>2, <3>1 DEF RunSettled, HasSettled, Running, InPipeline, Passed
  <2>4. CASE ~(at[r] < Len(Batch))
    <3>1. batchResult' = outcomes[r]
      BY <2>4 DEF FinishScreening
    <3> QED
      BY <1>1, <3>1 DEF RunSettled, NoResult
  <2> QED
    BY <2>3, <2>4
<1>4. label \in InPipeline \cup {"completed"}
  BY <1>2 DEF InPipeline
<1> QED
  BY <1>1, <1>2, <1>3, <1>4, RunGoesOn

LEMMA PipelineCounted ==
    ASSUME Base, Counted, NEW r \in Requests, Pipeline(r)
    PROVE  Counted'
<1>1. /\ pc[r] \in InPipeline /\ UNCHANGED <<crashes, settledTimes>>
  BY DEF Pipeline, FetchHistory, Judge, ReadBefore, EnsureVerified, SendSettle, MarkRole,
     Confirm, Fail, Running, InPipeline, historyVars
<1>2. /\ Running(r) /\ pc \in [Requests -> Labels] /\ at[r] \in 1 .. Len(Batch)
      /\ \A q \in Requests \ {r} : ~Running(q)
      /\ awaiting = [q \in Requests |-> awaiting[q]]
      /\ awaiting[r] = NoTx <=> pc[r] # "await"
      /\ NoTx.op = "none"
  BY <1>1, RunningRequest DEF NoTx
\* The request stays at its screening, and keeps what it has settled.
<1>3. ASSUME NEW label \in InPipeline, pc' = [pc EXCEPT ![r] = label], UNCHANGED at,
             \A tx \in mempool' : tx \in mempool \/ tx.from = r,
             \A i \in 1 .. Len(Batch) : SettleOf(r, i) \in landed =>
                                           SettleOf(r, i) \in landed' \/ PastSettle(r)',
             PastSettle(r) => PastSettle(r)'
      PROVE  Counted'
  <2>1. ASSUME NEW i \in 1 .. Len(Batch), RunSettled(i) PROVE RunSettled(i)'
    <3>1. HasSettled(r, i) /\ pc'[r] = label
      BY <1>2, <1>3, <2>1, SettledByRunning
    <3>2. Passed(r, i)' \/ SettleOf(r, i) \in landed'
      BY <1>3, <3>1, LandedIsAwaited DEF HasSettled, Passed
    <3>3. Running(r)'
      BY <3>1 DEF Running
    <3>4. HasSettled(r, i)'
      BY <3>2, <3>3 DEF HasSettled, SettleOf
    <3> QED
      BY <3>4 DEF RunSettled
  <2> QED
    BY <1>1, <1>2, <1>3, <2>1, RunGoesOn
<1>4. ASSUME NEW label \in InPipeline, pc' = [pc EXCEPT ![r] = label],
             pc[r] \notin {"mark", "await"}, UNCHANGED <<at, mempool, landed>>
      PROVE  Counted'
  BY <1>2, <1>3, <1>4 DEF PastSettle
<1>5. CASE FetchHistory(r) \/ Judge(r) \/ ReadBefore(r)
  <2>1. PICK label \in {"judge", "verify", "before"} : pc' = [pc EXCEPT ![r] = label]
    BY <1>5 DEF FetchHistory, Judge, ReadBefore, Goto
  <2>2. pc[r] \notin {"mark", "await"} /\ UNCHANGED <<at, mempool, landed>>
    BY <1>5 DEF FetchHistory, Judge, ReadBefore
  <2> QED
    BY <1>4, <2>1, <2>2 DEF InPipeline
<1>6. ASSUME NEW op \in {"verify", "settle", "mark"}, NEW role, NEW amount,
             Send(r, Tx(r, op, role, amount)), pc[r] = op,
             UNCHANGED <<at, landed>>
      PROVE  Counted'
  <2>1. /\ pc' = [pc EXCEPT ![r] = "await"] /\ mempool' = mempool \cup {Tx(r, op, role, amount)}
        /\ awaiting'[r] = Tx(r, op, role, amount) /\ pc'[r] = "await"
    BY <1>2, <1>6 DEF Send, Goto
  <2>2. PastSettle(r) => PastSettle(r)'
    BY <1>6, <2>1, TxKinds DEF PastSettle
  <2> QED
    BY <1>3, <1>6, <2>1, <2>2, TxKinds DEF InPipeline
<1>7. CASE EnsureVerified(r)
  <2>1. CASE Send(r, Tx(r, "verify", "none", 0))
    BY <1>6, <1>7, <2>1 DEF EnsureVerified
  <2>2. CASE Goto(r, "settle") /\ UNCHANGED <<mempool, awaiting>>
    <3>1. /\ pc' = [pc EXCEPT ![r] = "settle"] /\ pc[r] = "verify"
          /\ UNCHANGED <<at, mempool, landed>>
      BY <1>7, <2>2 DEF EnsureVerified, Goto
    <3> QED
      BY <1>4, <3>1 DEF InPipeline
  <2> QED
    BY <1>7, <2>1, <2>2 DEF EnsureVerified
<1>8. CASE SendSettle(r)
  BY <1>6, <1>8 DEF SendSettle
<1>9. CASE MarkRole(r)
  <2>1. pc[r] = "mark" /\ UNCHANGED landed
    BY <1>9 DEF MarkRole
  <2>2. CASE FinishScreening(r) /\ UNCHANGED mempool
    BY <1>1, <2>1, <2>2, FinishCounted
  <2>3. ASSUME NEW role, NEW amount, Send(r, Tx(r, "mark", role, amount)), UNCHANGED at
        PROVE  Counted'
    BY <1>6, <2>1, <2>3
  <2>4. CASE UNCHANGED <<pc, mempool, awaiting, at>>
    <3>1. pc' = [pc EXCEPT ![r] = "mark"] /\ (PastSettle(r) => PastSettle(r)')
      BY <1>2, <2>1, <2>4 DEF PastSettle
    <3> QED
      BY <1>3, <2>1, <2>4, <3>1 DEF InPipeline
  <2> QED
    BY <1>9, <2>2, <2>3, <2>4 DEF MarkRole
<1>10. CASE Confirm(r)
  <2>1. /\ pc[r] = "await" /\ landed' = landed \ {awaiting[r]} /\ UNCHANGED mempool
    BY <1>10 DEF Confirm
  <2>2. CASE FinishScreening(r)
    BY <1>1, <2>1, <2>2, FinishCounted
  <2>3. CASE awaiting[r].op = "verify" /\ Goto(r, "settle") /\ UNCHANGED at
    <3>1. pc' = [pc EXCEPT ![r] = "settle"]
      BY <2>3 DEF Goto
    <3>2. \A i \in 1 .. Len(Batch) : SettleOf(r, i) \in landed => SettleOf(r, i) \in landed'
      BY <2>1, <2>3 DEF SettleOf
    <3>3. ~PastSettle(r)
      BY <2>1, <2>3 DEF PastSettle
    <3> QED
      BY <1>3, <2>1, <2>3, <3>1, <3>2, <3>3 DEF InPipeline
  <2>4. CASE Goto(r, "mark") /\ UNCHANGED at
    <3>1. pc' = [pc EXCEPT ![r] = "mark"] /\ PastSettle(r)'
      BY <1>2, <2>4 DEF Goto, PastSettle
    <3> QED
      BY <1>3, <2>1, <2>4, <3>1 DEF InPipeline
  <2> QED
    BY <1>10, <2>2, <2>3, <2>4 DEF Confirm
<1>11. CASE Fail(r)
  <2>1. /\ pc' = [pc EXCEPT ![r] = "failed"] /\ UNCHANGED mempool
        /\ \A q \in Requests : pc'[q] = IF q = r THEN "failed" ELSE pc[q]
    BY <1>2, <1>11 DEF Fail, Goto
  <2>2. Sent' = Sent /\ Lost' = Lost /\ Failed' = Failed \cup {r} /\ r \notin Failed
    BY <1>1, <2>1 DEF Sent, Lost, Failed, InPipeline
  <2>3. IsFiniteSet(Failed) /\ Cardinality(Failed) \in Nat
    BY CountFacts DEF Counted
  <2>4. Cardinality(Failed') = Cardinality(Failed) + 1
    BY <2>2, <2>3, FS_AddElement
  <2>5. Failures' = Failures + 1
    <3>1. Failures' = crashes' + Cardinality(Failed')
      BY DEF Failures, Failed
    <3>2. crashes \in Nat
      BY DEF Base, Books, Shapes
    <3> QED
      BY <1>1, <2>3, <2>4, <3>1, <3>2, FailuresFact
  <2>6. IsFiniteSet(Sent)' /\ (Cardinality(Lost) <= crashes)'
    BY <1>1, <2>2 DEF Counted
  <2> QED
    BY <1>1, <1>2, <2>1, <2>5, <2>6, SettledByRunning, CountsFail
<1> QED
  BY <1>5, <1>7, <1>8, <1>9, <1>10, <1>11 DEF Pipeline

\* A transaction lands: a settlement that was left behind counts for its
\* request's failure, one that is awaited for the run.
LEMMA LandCounted ==
    ASSUME Base, Counted, NEW tx \in mempool, Land(tx)
    PROVE  Counted'
<1>1. /\ UNCHANGED <<batchResult, pc, at, awaiting, crashes>>
      /\ mempool' = mempool \ {tx}
      /\ landed' = IF awaiting[tx.from] = tx THEN landed \cup {tx} ELSE landed
      /\ UNCHANGED <<Sent, Failed, Lost>>
  BY DEF Land, storeVars, requestVars, Sent, Failed, Lost
<1>2. /\ tx.from \in Requests /\ tx.screening \in 1 .. Len(Batch) /\ tx \notin landed
      /\ tx.op = "settle" => tx = SettleOf(tx.from, tx.screening)
      /\ pc[tx.from] \in Abandoned \/ awaiting[tx.from] = tx
      /\ settledTimes \in [Screenings -> Nat]
  BY DEF Base, AgentInductive, Books, Posted, IsMine, Deliveries, IsTx, Progress
<1>3. IsFiniteSet(Sent)'
  BY <1>1 DEF Counted
<1>4. ASSUME NEW i \in 1 .. Len(Batch)
      PROVE  /\ LeftBehind(i)' \subseteq LeftBehind(i)
             /\ RunSettled(i) => RunSettled(i)'
  BY <1>1 DEF LeftBehind, SettleOf, RunSettled, HasSettled, Running, Passed, PastSettle
<1>5. CASE tx.op # "settle"
  <2>1. UNCHANGED settledTimes
    BY <1>5 DEF Land, Execute, historyVars
  <2> QED
    BY <1>1, <1>3, <1>4, <2>1, CountsStay
<1>6. CASE tx.op = "settle"
  <2> DEFINE f == tx.from
             j == tx.screening
  <2>1. settledTimes' = [settledTimes EXCEPT ![Batch[j]] = @ + 1]
    BY <1>6 DEF Land, Execute
  <2>2. tx = SettleOf(f, j) /\ f \in Requests /\ j \in 1 .. Len(Batch)
    BY <1>2, <1>6
  <2>3. ASSUME NEW i \in 1 .. Len(Batch)
        PROVE  settledTimes'[Batch[i]] =
                  IF i = j THEN settledTimes[Batch[i]] + 1 ELSE settledTimes[Batch[i]]
    <3>1. Batch[i] \in Screenings /\ (Batch[i] = Batch[j] <=> i = j)
      BY <2>2, BatchAssumption DEF Screenings
    <3> QED
      BY <1>2, <2>1, <3>1
  <2>4. Failures' = Failures /\ Failures \in Nat
    <3>1. crashes \in Nat
      BY DEF Base, Books, Shapes
    <3> QED
      BY <1>1, <3>1, FailuresFact, CountFacts DEF Failures, Failed, Counted
  <2> HIDE DEF f, j
  <2>5. ASSUME NEW i \in 1 .. Len(Batch)
        PROVE  /\ Cardinality(LeftBehind(i)') <= Cardinality(LeftBehind(i))
               /\ Cardinality(LeftBehind(i)') \in Nat /\ Cardinality(LeftBehind(i)) \in Nat
               /\ Allowed(i) \in Nat /\ Allowed(i)' \in Nat /\ Allowed(i) <= Allowed(i)'
               /\ settledTimes[Batch[i]] + Cardinality(LeftBehind(i)) <= Allowed(i)
               /\ settledTimes[Batch[i]] \in Nat
    <3>1. IsFiniteSet(LeftBehind(i))
      BY CountFacts DEF Counted
    <3>2. /\ Cardinality(LeftBehind(i)') <= Cardinality(LeftBehind(i))
          /\ Cardinality(LeftBehind(i)') \in Nat /\ Cardinality(LeftBehind(i)) \in Nat
      BY <1>4, <3>1, SubsetCounts
    <3>3. Allowed(i) \in Nat /\ Allowed(i)' \in Nat /\ Allowed(i) <= Allowed(i)'
      BY <1>4, <2>4 DEF Allowed
    <3> QED
      BY <3>2, <3>3, TimesFact DEF Counted
  <2>6. settledTimes[Batch[j]] + 1 + Cardinality(LeftBehind(j)') <= Allowed(j)'
    <3>1. CASE pc[f] \in Abandoned
      <4>1. f \in LeftBehind(j) /\ f \notin LeftBehind(j)'
        BY <1>1, <2>2, <3>1 DEF LeftBehind, SettleOf
      <4>2. LeftBehind(j)' \subseteq LeftBehind(j) \ {f}
        BY <1>4, <2>2, <4>1
      <4>3. IsFiniteSet(LeftBehind(j))
        BY CountFacts DEF Counted
      <4>4. /\ IsFiniteSet(LeftBehind(j) \ {f})
            /\ Cardinality(LeftBehind(j) \ {f}) = Cardinality(LeftBehind(j)) - 1
        BY <4>1, <4>3, FS_RemoveElement
      <4>5. Cardinality(LeftBehind(j)') <= Cardinality(LeftBehind(j)) - 1
        BY <4>2, <4>4, SubsetCounts
      <4> QED
        BY <2>2, <2>5, <4>5
    <3>2. CASE awaiting[f] = tx
      <4>1. /\ pc[f] = "await" /\ Running(f) /\ at[f] = j /\ ~PastSettle(f) /\ at[f] \in Nat
        BY <1>6, <2>2, <3>2, BatchFacts DEF Base, AgentInductive, Deliveries, SettleOf,
           NoTx, Running, InPipeline, PastSettle, Slot
      <4>2. ~RunSettled(j)
        BY <1>2, <2>2, <4>1, SettledByRunning DEF HasSettled, Passed
      <4>3. RunSettled(j)'
        <5>1. SettleOf(f, j) \in landed'
          BY <1>1, <2>2, <3>2 DEF f
        <5>2. HasSettled(f, j)'
          BY <1>1, <4>1, <5>1 DEF HasSettled, Running, SettleOf
        <5> QED
          BY <2>2, <5>2 DEF RunSettled
      <4>4. Allowed(j)' = Allowed(j) + 1
        BY <2>4, <4>2, <4>3 DEF Allowed
      <4> QED
        BY <2>2, <2>5, <4>4
    <3> QED
      BY <1>2, <3>1, <3>2 DEF f
  <2>7. ASSUME NEW i \in 1 .. Len(Batch)
        PROVE  settledTimes'[Batch[i]] + Cardinality(LeftBehind(i)') <= Allowed(i)'
    <3>1. CASE i = j
      BY <2>3, <2>6, <3>1
    <3>2. CASE i # j
      <4>1. settledTimes'[Batch[i]] = settledTimes[Batch[i]]
        BY <2>3, <3>2
      <4>2. /\ settledTimes[Batch[i]] \in Nat
            /\ Cardinality(LeftBehind(i)') \in Nat /\ Cardinality(LeftBehind(i)) \in Nat
            /\ Allowed(i) \in Nat /\ Allowed(i)' \in Nat
            /\ Cardinality(LeftBehind(i)') <= Cardinality(LeftBehind(i))
            /\ Allowed(i) <= Allowed(i)'
            /\ settledTimes[Batch[i]] + Cardinality(LeftBehind(i)) <= Allowed(i)
        BY <2>5
      <4> QED
        BY <4>1, <4>2
    <3> QED
      BY <3>1, <3>2
  <2>8. (Cardinality(Lost) <= crashes)'
    BY <1>1 DEF Counted
  <2> QED
    BY <1>3, <2>7, <2>8 DEF Counted
<1> QED
  BY <1>5, <1>6

LEMMA ResetCounted ==
    ASSUME Base, Counted, Reset
    PROVE  Counted'
<1>1. /\ UNCHANGED <<pc, mempool, crashes, Sent, Failed, Lost>>
      /\ settledTimes' = [s \in Screenings |-> 0]
  BY DEF Reset, requestVars, Sent, Failed, Lost
<1>2. /\ IsFiniteSet(Failed) /\ IsFiniteSet(Lost) /\ Cardinality(Failed) \in Nat
      /\ Cardinality(Lost) \in Nat /\ Cardinality(Lost) <= crashes /\ crashes \in Nat
  BY CountFacts DEF Counted, Base, Books, Shapes
<1>3. /\ IsFiniteSet(Failed \cup Lost)
      /\ Cardinality(Failed \cup Lost) <= Cardinality(Failed) + Cardinality(Lost)
      /\ Cardinality(Failed \cup Lost) \in Nat
  <2>1. /\ IsFiniteSet(Failed \cup Lost)
        /\ Cardinality(Failed \cup Lost) =
              Cardinality(Failed) + Cardinality(Lost) - Cardinality(Failed \cap Lost)
    BY <1>2, FS_Union
  <2>2. Failed \cap Lost = {}
    BY DEF Failed, Lost
  <2> QED
    BY <1>2, <2>1, <2>2, FS_EmptySet
<1>4. Failures' = crashes + Cardinality(Failed)
  BY <1>1 DEF Failures, Failed
<1>5. ASSUME NEW i \in 1 .. Len(Batch)
      PROVE  settledTimes'[Batch[i]] + Cardinality(LeftBehind(i)') <= Allowed(i)'
  <2>1. settledTimes'[Batch[i]] = 0
    BY <1>1 DEF Screenings
  <2>2. LeftBehind(i)' \subseteq Failed \cup Lost
    BY <1>1 DEF LeftBehind, Abandoned, Failed, Lost
  <2>3. Cardinality(LeftBehind(i)') <= Cardinality(Failed \cup Lost)
        /\ Cardinality(LeftBehind(i)') \in Nat
    BY <1>3, <2>2, SubsetCounts
  <2>4. Allowed(i)' >= crashes + Cardinality(Failed) /\ Allowed(i)' \in Nat
    BY <1>2, <1>4 DEF Allowed
  <2> QED
    BY <1>2, <1>3, <2>1, <2>3, <2>4
<1> QED
  BY <1>1, <1>5 DEF Counted

LEMMA CrashCounted ==
    ASSUME Base, Counted, Crash
    PROVE  Counted'
<1>1. /\ \A q \in Requests : pc'[q] = IF Running(q) THEN "lost" ELSE pc[q]
      /\ crashes' = crashes + 1 /\ UNCHANGED <<mempool, settledTimes>>
  BY DEF Crash, historyVars
<1>2. /\ IsFiniteSet(Failed) /\ IsFiniteSet(Lost) /\ Cardinality(Failed) \in Nat
      /\ Cardinality(Lost) \in Nat /\ Cardinality(Lost) <= crashes /\ crashes \in Nat
      /\ IsFiniteSet(Sent)
  BY CountFacts DEF Counted, Base, Books, Shapes
<1>3. Sent' = Sent /\ Failed' = Failed
  BY <1>1 DEF Sent, Failed, Running, InPipeline
<1>4. Failures' = Failures + 1
  <2>1. Failures' = crashes' + Cardinality(Failed')
    BY DEF Failures, Failed
  <2> QED
    BY <1>1, <1>2, <1>3, <2>1, FailuresFact
<1>5. IsFiniteSet(Sent)'
  BY <1>2, <1>3
<1>6. (Cardinality(Lost) <= crashes)'
  <2>1. CASE \E r \in Requests : Running(r)
    <3>1. PICK r \in Requests : \A q \in Requests : Running(q) => q = r
      BY <2>1 DEF Base, AgentInductive, Slot, OneRunAtATime
    <3>2. Lost' \subseteq Lost \cup {r}
      BY <1>1, <3>1 DEF Lost
    <3>3. Cardinality(Lost') <= Cardinality(Lost) + 1 /\ Cardinality(Lost') \in Nat
      BY <1>2, <3>2, OneMoreCounts
    <3> QED
      BY <1>1, <1>2, <3>3
  <2>2. CASE ~ \E r \in Requests : Running(r)
    <3>1. Lost' = Lost
      BY <1>1, <2>2 DEF Lost
    <3> QED
      BY <1>1, <1>2, <3>1
  <2> QED
    BY <2>1, <2>2
<1>7. \A q \in Requests : pc'[q] \in Abandoned => pc[q] \in Abandoned \/ Running(q)
  BY <1>1 DEF Abandoned
<1> QED
  BY <1>1, <1>4, <1>5, <1>6, <1>7, CountsFail

LEMMA CountedKept ==
    ASSUME Base, Counted, [AgentNext]_systemVars
    PROVE  Counted'
<1>1. ASSUME UNCHANGED <<batchResult, pc, at, awaiting, landed, crashes, settledTimes>>,
             mempool' \subseteq mempool
      PROVE  Counted'
  <2>1. UNCHANGED <<Sent, Failed, Lost>>
    BY <1>1 DEF Sent, Failed, Lost
  <2>2. IsFiniteSet(Sent)'
    BY <2>1 DEF Counted
  <2>3. ASSUME NEW i \in 1 .. Len(Batch)
        PROVE  LeftBehind(i)' \subseteq LeftBehind(i) /\ (RunSettled(i) => RunSettled(i)')
    BY <1>1 DEF LeftBehind, SettleOf, RunSettled, HasSettled, Running, Passed, PastSettle
  <2> QED
    BY <1>1, <2>1, <2>2, <2>3, CountsStay
<1>2. CASE Others \/ UNCHANGED systemVars
  BY <1>1, <1>2, OthersLeaveTheAgent DEF AgentUnmoved, storeVars, requestVars
<1>3. ASSUME NEW r \in Requests, Trigger(r) PROVE Counted'
  <2>1. /\ pc[r] = "unsent" /\ \A q \in Requests \ {r} : pc'[q] = pc[q]
        /\ pc'[r] \in {"replayed", "conflict", "history"}
        /\ UNCHANGED <<batchResult, at, awaiting, mempool, landed, crashes, settledTimes>>
    BY <1>3 DEF Trigger, Goto, historyVars, Base, AgentInductive, Slot
  <2>2. Sent' = Sent \cup {r} /\ Failed' = Failed /\ Lost' = Lost
    BY <2>1 DEF Sent, Failed, Lost
  <2>3. IsFiniteSet(Sent)'
    BY <2>2, FS_AddElement DEF Counted
  <2>4. ASSUME NEW i \in 1 .. Len(Batch)
        PROVE  LeftBehind(i)' \subseteq LeftBehind(i) /\ (RunSettled(i) => RunSettled(i)')
    <3>1. LeftBehind(i)' \subseteq LeftBehind(i)
      BY <2>1 DEF LeftBehind, SettleOf, Abandoned
    <3>2. ~Running(r)
      BY <2>1 DEF Running, InPipeline
    <3>3. RunSettled(i) => RunSettled(i)'
      BY <2>1, <3>2 DEF RunSettled, HasSettled, Running, Passed, PastSettle, SettleOf
    <3> QED
      BY <3>1, <3>3
  <2> QED
    BY <2>1, <2>2, <2>3, <2>4, CountsStay
<1>4. ASSUME NEW tx \in mempool, Lose(tx) PROVE Counted'
  BY <1>1, <1>4 DEF Lose, storeVars, requestVars, historyVars
<1> QED
  BY <1>2, <1>3, <1>4, LandCounted, ResetCounted, CrashCounted, PipelineCounted
     DEF AgentNext, Network

LEMMA CountedInit == AgentInit => Counted
<1> SUFFICES ASSUME AgentInit PROVE Counted
  OBVIOUS
<1>1. Sent = {} /\ Failed = {} /\ Lost = {} /\ \A i : LeftBehind(i) = {}
  BY DEF AgentInit, Sent, Failed, Lost, LeftBehind
<1>2. IsFiniteSet({}) /\ Cardinality({}) = 0
  BY FS_EmptySet
<1>3. Failures = 0 /\ crashes = 0
  BY <1>1, <1>2, FailuresFact DEF AgentInit
<1>4. ASSUME NEW i \in 1 .. Len(Batch)
      PROVE  settledTimes[Batch[i]] + Cardinality(LeftBehind(i)) <= Allowed(i)
  <2>1. settledTimes[Batch[i]] = 0
    BY DEF AgentInit, Screenings
  <2>2. Cardinality(LeftBehind(i)) = 0
    BY <1>1, <1>2
  <2>3. Allowed(i) \in Nat
    BY <1>3 DEF Allowed
  <2> QED
    BY <2>1, <2>2, <2>3
<1> QED
  BY <1>1, <1>2, <1>3, <1>4 DEF Counted

LEMMA CountedIsRepeatsAreFailures ==
    ASSUME Base, Counted PROVE RepeatsAreFailures
<1>1. Failures \in Nat
  BY FailuresFact, CountFacts DEF Counted, Base, Books, Shapes
<1>2. ASSUME NEW i \in 1 .. Len(Batch) PROVE settledTimes[Batch[i]] <= 1 + Failures
  <2>1. /\ settledTimes[Batch[i]] + Cardinality(LeftBehind(i)) <= Allowed(i)
        /\ Cardinality(LeftBehind(i)) \in Nat /\ settledTimes[Batch[i]] \in Nat
    BY TimesFact, CountFacts DEF Counted
  <2>2. Allowed(i) <= 1 + Failures /\ Allowed(i) \in Nat
    BY <1>1 DEF Allowed
  <2> QED
    BY <1>1, <2>1, <2>2
<1> QED
  BY <1>2, BatchFacts DEF RepeatsAreFailures

-----------------------------------------------------------------------------
AgentInvariant == Base /\ Judged /\ Holds /\ Counted

THEOREM AgentAlwaysInvariant == AgentSpec => []AgentInvariant
<1>1. AgentInit => AgentInvariant
  BY InitInductive, AgentInitInductive, BooksInit, JudgedInit, HoldsInit, CountedInit
     DEF AgentInvariant, Base, AgentInit
<1>2. AgentInvariant /\ [AgentNext]_systemVars => AgentInvariant'
  <2> SUFFICES ASSUME AgentInvariant, [AgentNext]_systemVars PROVE AgentInvariant'
    OBVIOUS
  <2>1. Base'
    BY BooksKept DEF AgentInvariant, Base
  <2> QED
    BY <2>1, JudgedKept, HoldsKept, CountedKept DEF AgentInvariant
<1> QED
  BY <1>1, <1>2, PTL DEF AgentSpec

\* The store, the requests and the network stay well formed.
THEOREM AgentTypeCorrect == AgentSpec => []AgentTypeOK
<1>1. AgentInvariant => AgentTypeOK
  BY BaseIsAgentTypeOK DEF AgentInvariant
<1> QED
  BY <1>1, AgentAlwaysInvariant, PTL

\* A screening is settled again only if a run failed or the server restarted,
\* and never more often than that: of any number of requests.
THEOREM OnlyFailuresRepeat == AgentSpec => []RepeatsAreFailures
<1>1. AgentInvariant => RepeatsAreFailures
  BY CountedIsRepeatsAreFailures DEF AgentInvariant
<1> QED
  BY <1>1, AgentAlwaysInvariant, PTL

\* A request answered with its own result has frozen all that its suspicious
\* screenings credited, role by role, but for what a rejection cut from the same
\* share between the two reads of its claimable: whatever amounts others deposit,
\* refund, claim, freeze by hand and resolve, either way, in between.
THEOREM CompletedIsHeld == AgentSpec => []CompletedMeansHeld
<1>1. AgentInvariant => CompletedMeansHeld
  BY HoldsIsCompletedMeansHeld DEF AgentInvariant
<1> QED
  BY <1>1, AgentAlwaysInvariant, PTL

\* The lenient thresholds are a known theatre's, and a run does not make the
\* theatre known to itself.
THEOREM LeniencyIsEarned == AgentSpec => []LenientOnlyWhenKnown
<1>1. AgentInvariant => LenientOnlyWhenKnown
  BY JudgedIsLenientOnlyWhenKnown DEF AgentInvariant
<1> QED
  BY <1>1, AgentAlwaysInvariant, PTL

\* Whatever the agent, the network and the others do, they drive the program as
\* MovieEscrow lets it be driven: all that is proved of the escrow holds of the
\* escrow that the agent settles.
THEOREM AgentDrivesTheEscrow == AgentSpec => Spec
<1>1. AgentInit => Init
  BY DEF AgentInit
<1>2. AgentInvariant /\ [AgentNext]_systemVars => [Next]_vars
  BY EscrowStep DEF AgentInvariant, Base, AgentInductive, Books
<1> QED
  BY <1>1, <1>2, AgentAlwaysInvariant, PTL DEF AgentSpec, Spec

-----------------------------------------------------------------------------
(***************************************************************************)
(* The agent implements the batch slot.  Its running set is that of the    *)
(* requests in the pipeline, which is empty unless the slot is taken.      *)
(***************************************************************************)
Runners == {r \in Requests : Running(r)}

LEMMA RunnersFit ==
    ASSUME Slot
    PROVE  (Runners = {}) <=> (runState # "running")
BY DEF Slot, OneRunAtATime, Runners

LEMMA SlotUnseen ==
    ASSUME UNCHANGED storeVars, Runners' = Runners
    PROVE  UNCHANGED RunSlot!slotVars
BY DEF storeVars, Runners, RunSlot!slotVars

LEMMA TriggerKeepsTheSlot ==
    ASSUME Slot, NEW r \in Requests, Trigger(r)
    PROVE  [RunSlot!SlotNext]_(RunSlot!slotVars)
<1>1. pc \in [Requests -> Labels] /\ pc[r] = "unsent" /\ ~Running(r)
  BY DEF Slot, Trigger, Running, InPipeline
<1>2. CASE /\ UNCHANGED storeVars
           /\ pc' = [pc EXCEPT ![r] = "replayed"] \/ pc' = [pc EXCEPT ![r] = "conflict"]
  <2>1. \A q \in Requests : Running(q)' <=> Running(q)
    BY <1>1, <1>2 DEF Running, InPipeline
  <2>2. Runners' = Runners
    BY <2>1 DEF Runners
  <2> QED
    BY <1>2, <2>2, SlotUnseen
<1>3. CASE /\ batchResult = NoResult /\ MayBegin /\ runState' = "running"
           /\ pc' = [pc EXCEPT ![r] = "history"] /\ UNCHANGED batchResult
  <2>1. Runners = {}
    BY <1>3, RunnersFit DEF MayBegin
  <2>2. \A q \in Requests : Running(q)' <=> q = r
    BY <1>1, <1>3, <2>1 DEF Running, InPipeline, Runners
  <2>3. Runners' = {r}
    BY <2>2 DEF Runners
  <2>4. RunSlot!Begin
    BY <1>3, <2>1, <2>3 DEF RunSlot!Begin, Runners
  <2> QED
    BY <2>4 DEF RunSlot!SlotNext
<1> QED
  BY <1>2, <1>3 DEF Trigger, Goto, storeVars

\* How a step of a request leaves the store and the pipeline.
LEMMA PipelineEnds ==
    ASSUME Slot, NEW r \in Requests, Pipeline(r)
    PROVE  /\ Running(r) /\ \A q \in Requests : q # r => pc'[q] = pc[q]
           /\ \/ UNCHANGED storeVars /\ pc'[r] \in InPipeline
              \/ pc'[r] = "completed" /\ runState' = "completed"
              \/ pc'[r] = "failed" /\ runState' = StateAfterAbort /\ UNCHANGED batchResult
<1>1. pc \in [Requests -> Labels]
  BY DEF Slot
<1>2. CASE FetchHistory(r) \/ ReadBefore(r)
  BY <1>1, <1>2 DEF FetchHistory, ReadBefore, Goto, Running, InPipeline
<1>3. CASE Judge(r)
  BY <1>1, <1>3 DEF Judge, Goto, Running, InPipeline
<1>4. CASE EnsureVerified(r) \/ SendSettle(r)
  BY <1>1, <1>4 DEF EnsureVerified, SendSettle, Send, Goto, Running, InPipeline
<1>5. CASE MarkRole(r)
  BY <1>1, <1>5 DEF MarkRole, FinishScreening, Send, Goto, Running, InPipeline, storeVars
<1>6. CASE Confirm(r)
  BY <1>1, <1>6 DEF Confirm, FinishScreening, Goto, Running, InPipeline, storeVars
<1>7. CASE Fail(r)
  BY <1>1, <1>7 DEF Fail, Goto
<1> QED
  BY <1>2, <1>3, <1>4, <1>5, <1>6, <1>7 DEF Pipeline

LEMMA PipelineKeepsTheSlot ==
    ASSUME Slot, AgentTypeOK, AgentTypeOK', NEW r \in Requests, Pipeline(r)
    PROVE  [RunSlot!SlotNext]_(RunSlot!slotVars)
<1>1. /\ Running(r) /\ \A q \in Requests : q # r => pc'[q] = pc[q]
      /\ \/ UNCHANGED storeVars /\ pc'[r] \in InPipeline
         \/ pc'[r] = "completed" /\ runState' = "completed"
         \/ pc'[r] = "failed" /\ runState' = StateAfterAbort /\ UNCHANGED batchResult
  BY PipelineEnds
<1>2. \A q \in Requests : Running(q) <=> q = r
  BY <1>1, RunningFacts
<1>3. Runners # {}
  BY <1>1 DEF Runners
<1>4. CASE UNCHANGED storeVars /\ pc'[r] \in InPipeline
  <2>1. \A q \in Requests : Running(q)' <=> Running(q)
    BY <1>1, <1>4 DEF Running
  <2>2. Runners' = Runners
    BY <2>1 DEF Runners
  <2> QED
    BY <1>4, <2>2, SlotUnseen
<1>5. ASSUME pc'[r] \in {"completed", "failed"} PROVE Runners' = {}
  <2>1. \A q \in Requests : ~Running(q)'
    BY <1>1, <1>2, <1>5 DEF Running, InPipeline
  <2> QED
    BY <2>1 DEF Runners
<1>6. CASE pc'[r] = "completed" /\ runState' = "completed"
  <2>1. batchResult' # NoResult
    BY <1>6 DEF AgentTypeOK
  <2>2. RunSlot!Complete
    BY <1>3, <1>5, <1>6, <2>1 DEF RunSlot!Complete, Runners
  <2> QED
    BY <2>2 DEF RunSlot!SlotNext
<1>7. CASE pc'[r] = "failed" /\ runState' = StateAfterAbort /\ UNCHANGED batchResult
  <2>1. runState = "running"
    BY <1>1, RunningFacts
  <2>2. runState' = "idle"
    BY <1>7, <2>1 DEF AgentTypeOK, StateAfterAbort
  <2>3. RunSlot!Abort
    BY <1>3, <1>5, <1>7, <2>2 DEF RunSlot!Abort, Runners
  <2> QED
    BY <2>3 DEF RunSlot!SlotNext
<1> QED
  BY <1>1, <1>4, <1>6, <1>7

LEMMA AgentStepKeepsTheSlot ==
    ASSUME Slot, AgentTypeOK, AgentTypeOK', [AgentNext]_systemVars
    PROVE  [RunSlot!SlotNext]_(RunSlot!slotVars)
<1>1. CASE UNCHANGED <<storeVars, pc>>
  <2>1. Runners' = Runners
    BY <1>1 DEF Runners, Running
  <2> QED
    BY <1>1, <2>1, SlotUnseen
<1>2. ASSUME NEW r \in Requests, Trigger(r) \/ Pipeline(r)
      PROVE  [RunSlot!SlotNext]_(RunSlot!slotVars)
  BY <1>2, TriggerKeepsTheSlot, PipelineKeepsTheSlot
<1>3. CASE Reset
  <2>1. Runners = {} /\ pc' = pc
    BY <1>3, RunnersFit DEF Reset, MayReset, requestVars
  <2>2. Runners' = Runners
    BY <2>1 DEF Runners, Running
  <2>3. RunSlot!Reset
    BY <1>3, <2>1, <2>2 DEF Reset, RunSlot!Reset, RunSlot!Forget, Runners
  <2> QED
    BY <2>3 DEF RunSlot!SlotNext
<1>4. CASE Crash
  <2>1. \A r \in Requests : ~Running(r)'
    BY <1>4 DEF Crash, Running, InPipeline
  <2>2. Runners' = {}
    BY <2>1 DEF Runners
  <2>3. RunSlot!Restart
    BY <1>4, <2>2 DEF Crash, RunSlot!Restart, RunSlot!Forget, Runners
  <2> QED
    BY <2>3 DEF RunSlot!SlotNext
<1>5. Network \/ Others \/ UNCHANGED systemVars => UNCHANGED <<storeVars, pc>>
  BY OthersLeaveTheAgent DEF Network, Land, Lose, AgentUnmoved, requestVars
<1> QED
  BY <1>1, <1>2, <1>3, <1>4, <1>5 DEF AgentNext

\* For any batch, any requests, resets, failures and restarts and any outcome of
\* their transactions, what the agent does with its slot and its result is what
\* the abstract slot allows: no run beside another or over a result, and no
\* result but from a run that ends.
THEOREM SlotIsKept == AgentSpec => KeepsTheSlot
<1>1. AgentInit => RunSlot!SlotInit
  <2>1. AgentInit => Runners = {}
    BY DEF AgentInit, Runners, Running, InPipeline
  <2> QED
    BY <2>1 DEF AgentInit, RunSlot!SlotInit, Runners
<1>2. /\ AgentInductive /\ AgentTypeOK /\ AgentTypeOK' /\ [AgentNext]_systemVars
      => [RunSlot!SlotNext]_(RunSlot!slotVars)
  BY AgentStepKeepsTheSlot DEF AgentInductive
<1> QED
  BY <1>1, <1>2, AgentAlwaysInductive, AgentTypeCorrect, PTL
     DEF AgentSpec, KeepsTheSlot, RunSlot!SlotSpec
=============================================================================
