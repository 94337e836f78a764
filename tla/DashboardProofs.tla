--------------------------- MODULE DashboardProofs ---------------------------
(***************************************************************************)
(* The safety of the settlement panel for any number of pages, clicks and  *)
(* restarts of the agent.  The three invariants the run checks are         *)
(* inductive together: a result not marked as replayed is true on the page *)
(* because it was true of the answer (AnswersFit), and completions are     *)
(* bounded because the slot and the result exclude each other (AgentFits). *)
(***************************************************************************)
EXTENDS Dashboard, TLAPS

DashboardInductive == DashboardTypeOK /\ FreshMeansMine /\ CompletionsAreAsked

LEMMA RequestFields ==
    ASSUME NEW r \in Request
    PROVE  r.page \in Pages /\ r.kind \in {"trigger", "reset"} /\ r # None
BY DashboardAssumption DEF Request

LEMMA DashboardInitInductive == DashboardInit => DashboardInductive
BY DEF DashboardInit, DashboardInductive, DashboardTypeOK, PagesFit, AnswersFit, AgentFits,
   FreshMeansMine, CompletionsAreAsked

\* An answer is added only for a request that waits and has none, so that the
\* answers keep fitting, whoever answers.
LEMMA ReplyFits ==
    ASSUME AnswersFit, NEW request, NEW body, Fits(request, body),
           Reply(request, body), UNCHANGED waiting
    PROVE  AnswersFit'
BY DEF AnswersFit, Reply, Answered

\* A step that leaves the pages and the requests that wait alone.
LEMMA AgentStep ==
    ASSUME DashboardInductive, UNCHANGED <<pageVars, clicks, waiting>>,
           (underway \subseteq Request)', AnswersFit', AgentFits',
           ({completions, resets, restarts} \subseteq Nat)', CompletionsAreAsked'
    PROVE  DashboardInductive'
BY DEF DashboardInductive, DashboardTypeOK, PagesFit, FreshMeansMine, pageVars

-----------------------------------------------------------------------------
(***************************************************************************)
(* One lemma per action.                                                   *)
(***************************************************************************)
LEMMA PostFits ==
    ASSUME DashboardTypeOK, NEW p \in Pages, NEW kind \in {"trigger", "reset"},
           Post(p, kind), UNCHANGED answers
    PROVE  /\ (waiting \subseteq Request)' /\ (underway \subseteq Request)'
           /\ clicks' \in Nat /\ AnswersFit'
<1> DEFINE request == [id |-> clicks + 1, page |-> p, kind |-> kind]
<1>1. clicks \in Nat /\ clicks < MaxRequests /\ clicks' = clicks + 1 /\ MaxRequests \in Nat
  BY DashboardAssumption DEF DashboardTypeOK, Post
<1>2. request \in Request
  BY <1>1 DEF Request
<1>3. waiting' = waiting \cup {request} /\ underway' = underway \cup {request}
  BY DEF Post
<1> HIDE DEF request
<1>4. AnswersFit'
  BY <1>3 DEF DashboardTypeOK, AnswersFit
<1> QED
  BY <1>1, <1>2, <1>3, <1>4 DEF DashboardTypeOK

LEMMA HandleTriggerInductive ==
    ASSUME DashboardInductive, NEW p \in Pages, HandleTrigger(p)
    PROVE  DashboardInductive'
<1>1. /\ (waiting \subseteq Request)' /\ (underway \subseteq Request)'
      /\ clicks' \in Nat /\ AnswersFit'
  BY PostFits DEF HandleTrigger, DashboardInductive
<1>2. PagesFit'
  BY DEF HandleTrigger, DashboardInductive, DashboardTypeOK, PagesFit
<1> QED
  BY <1>1, <1>2 DEF HandleTrigger, DashboardInductive, DashboardTypeOK, FreshMeansMine,
     CompletionsAreAsked, AgentFits, agentVars

LEMMA HandleResetInductive ==
    ASSUME DashboardInductive, NEW p \in Pages, HandleReset(p)
    PROVE  DashboardInductive'
<1>1. /\ (waiting \subseteq Request)' /\ (underway \subseteq Request)'
      /\ clicks' \in Nat /\ AnswersFit'
  BY PostFits DEF HandleReset, DashboardInductive
<1>2. PagesFit'
  BY DEF HandleReset, DashboardInductive, DashboardTypeOK, PagesFit
<1> QED
  BY <1>1, <1>2 DEF HandleReset, DashboardInductive, DashboardTypeOK, FreshMeansMine,
     CompletionsAreAsked, AgentFits, agentVars

LEMMA ServeTriggerInductive ==
    ASSUME DashboardInductive, NEW request \in underway, ServeTrigger(request)
    PROVE  DashboardInductive'
<1>1. /\ request \in Request /\ request # None /\ request.kind = "trigger"
      /\ AnswersFit /\ AgentFits
      /\ UNCHANGED <<pageVars, clicks, waiting, completions, resets, restarts>>
      /\ (underway \subseteq Request)'
  BY RequestFields DEF ServeTrigger, DashboardInductive, DashboardTypeOK
<1>2. CASE result # None /\ Reply(request, Result(result, TRUE)) /\ UNCHANGED agentVars
  <2>1. Fits(request, Result(result, TRUE))
    BY <1>1, <1>2 DEF Fits, Result, ResultBody, AgentFits
  <2>2. AnswersFit'
    BY <1>1, <1>2, <2>1, ReplyFits
  <2> QED
    BY <1>1, <1>2, <2>2, AgentStep
       DEF agentVars, AgentFits, DashboardInductive, DashboardTypeOK, CompletionsAreAsked
<1>3. CASE Reply(request, Error("batch_in_progress")) /\ UNCHANGED agentVars
  <2>1. Fits(request, Error("batch_in_progress"))
    BY DEF Fits, Error, ErrorBody, Codes
  <2>2. AnswersFit'
    BY <1>1, <1>3, <2>1, ReplyFits
  <2> QED
    BY <1>1, <1>3, <2>2, AgentStep
       DEF agentVars, AgentFits, DashboardInductive, DashboardTypeOK, CompletionsAreAsked
<1>4. CASE Begin(request)
  <2>1. AgentFits' /\ AnswersFit' /\ CompletionsAreAsked'
    BY <1>1, <1>4 DEF Begin, AgentFits, AnswersFit, DashboardInductive, CompletionsAreAsked
  <2> QED
    BY <1>1, <2>1, AgentStep DEF DashboardInductive, DashboardTypeOK
<1> QED
  BY <1>2, <1>3, <1>4 DEF ServeTrigger

LEMMA ServeResetInductive ==
    ASSUME DashboardInductive, NEW request \in underway, ServeReset(request)
    PROVE  DashboardInductive'
<1>1. /\ request \in Request /\ request.kind = "reset"
      /\ AnswersFit /\ AgentFits
      /\ UNCHANGED <<pageVars, clicks, waiting, completions, restarts>>
      /\ (underway \subseteq Request)'
      /\ completions \in Nat /\ resets \in Nat /\ restarts \in Nat
  BY DEF ServeReset, DashboardInductive, DashboardTypeOK
<1>2. CASE Reply(request, Error("batch_in_progress")) /\ UNCHANGED <<agentVars, resets>>
  <2>1. Fits(request, Error("batch_in_progress"))
    BY DEF Fits, Error, ErrorBody, Codes
  <2>2. AnswersFit'
    BY <1>1, <1>2, <2>1, ReplyFits
  <2> QED
    BY <1>1, <1>2, <2>2, AgentStep
       DEF agentVars, AgentFits, DashboardInductive, CompletionsAreAsked
<1>3. CASE /\ slot # "running" /\ slot' = "idle" /\ result' = None
           /\ resets' = resets + 1
           /\ Reply(request, [ok |-> TRUE]) /\ UNCHANGED runner
  <2>1. Fits(request, [ok |-> TRUE])
    BY <1>1 DEF Fits, ResetBody
  <2>2. AnswersFit'
    BY <1>1, <1>3, <2>1, ReplyFits
  <2>3. AgentFits'
    BY <1>1, <1>3 DEF AgentFits
  <2>4. completions <= resets + restarts + 1
    BY <1>1 DEF DashboardInductive, CompletionsAreAsked
  <2>5. CompletionsAreAsked'
    BY <1>1, <1>3, <2>4 DEF CompletionsAreAsked
  <2> QED
    BY <1>1, <1>3, <2>2, <2>3, <2>5, AgentStep
<1> QED
  BY <1>2, <1>3 DEF ServeReset

LEMMA RunEndsInductive ==
    ASSUME DashboardInductive, RunEnds
    PROVE  DashboardInductive'
<1>1. /\ AnswersFit /\ AgentFits
      /\ runner # None /\ runner \in Request /\ runner.kind = "trigger" /\ result = None
      /\ UNCHANGED <<pageVars, clicks, waiting, underway, resets, restarts>>
      /\ (underway \subseteq Request)'
      /\ completions \in Nat /\ resets \in Nat /\ restarts \in Nat
  BY DEF RunEnds, RunCompletes, RunFails, DashboardInductive, DashboardTypeOK, AgentFits
<1>2. CASE RunCompletes
  <2>1. Fits(runner, Result(runner, FALSE))
    BY <1>1 DEF Fits, Result, ResultBody
  <2>2. AnswersFit'
    BY <1>1, <1>2, <2>1, ReplyFits DEF RunCompletes
  <2>3. AgentFits' /\ result' # None /\ completions' = completions + 1
    BY <1>1, <1>2 DEF RunCompletes, AgentFits
  <2>4. CompletionsAreAsked'
    BY <1>1, <2>3 DEF DashboardInductive, CompletionsAreAsked
  <2> QED
    BY <1>1, <2>2, <2>3, <2>4, AgentStep
<1>3. CASE RunFails
  <2>1. Fits(runner, Error("chain_call_failed"))
    BY DEF Fits, Error, ErrorBody, Codes
  <2>2. AnswersFit'
    BY <1>1, <1>3, <2>1, ReplyFits DEF RunFails
  <2>3. AgentFits' /\ CompletionsAreAsked' /\ completions' = completions
    BY <1>1, <1>3 DEF RunFails, AgentFits, DashboardInductive, CompletionsAreAsked
  <2> QED
    BY <1>1, <2>2, <2>3, AgentStep
<1> QED
  BY <1>2, <1>3 DEF RunEnds

LEMMA AgentRestartsInductive ==
    ASSUME DashboardInductive, AgentRestarts
    PROVE  DashboardInductive'
<1>1. /\ completions \in Nat /\ resets \in Nat /\ restarts \in Nat
      /\ completions <= resets + restarts + 1
  BY DEF DashboardInductive, DashboardTypeOK, CompletionsAreAsked
<1>2. CompletionsAreAsked' /\ restarts' \in Nat
  BY <1>1 DEF AgentRestarts, CompletionsAreAsked
<1>3. AgentFits' /\ AnswersFit' /\ (underway \subseteq Request)'
  BY DEF AgentRestarts, DashboardInductive, DashboardTypeOK, AgentFits, AnswersFit
<1> QED
  BY <1>1, <1>2, <1>3, AgentStep DEF AgentRestarts

LEMMA RefuseInductive ==
    ASSUME DashboardInductive, NEW request \in waiting, Refuse(request)
    PROVE  DashboardInductive'
<1>1. Fits(request, Error("chain_call_failed"))
  BY DEF Fits, Error, ErrorBody, Codes
<1>2. AnswersFit'
  BY <1>1, ReplyFits DEF Refuse, DashboardInductive, DashboardTypeOK
<1> QED
  BY <1>2, AgentStep
     DEF Refuse, DashboardInductive, DashboardTypeOK, AgentFits, CompletionsAreAsked, agentVars

\* Where the invariant of the answers becomes that of the page.
LEMMA ArriveInductive ==
    ASSUME DashboardInductive, NEW a \in answers, Arrive(a)
    PROVE  DashboardInductive'
<1> DEFINE p == a.request.page
<1>1. /\ a.request \in waiting /\ a.request \in Request /\ p \in Pages
      /\ Fits(a.request, a.body)
      /\ answers' = answers \ {a} /\ waiting' = waiting \ {a.request}
      /\ UNCHANGED <<clicks, underway, agentVars, completions, resets, restarts>>
  BY RequestFields DEF Arrive, DashboardInductive, DashboardTypeOK, AnswersFit
<1>2. AnswersFit'
  BY <1>1 DEF DashboardInductive, DashboardTypeOK, AnswersFit
<1>3. PagesFit' /\ FreshMeansMine'
  <2>0. PagesFit /\ FreshMeansMine
    BY DEF DashboardInductive, DashboardTypeOK
  <2>1. CASE /\ a.request.kind = "trigger" /\ a.body.ok
             /\ batchResult' = [batchResult EXCEPT
                                  ![p] = [run |-> a.body.run, replayed |-> a.body.replayed]]
             /\ batchState' = [batchState EXCEPT ![p] = "done"]
             /\ UNCHANGED batchError
    <3>1. a.body \in ResultBody /\ (~a.body.replayed => a.body.run = a.request)
      BY <1>1, <2>1 DEF Fits, ErrorBody
    <3>2. [run |-> a.body.run, replayed |-> a.body.replayed] \in Shown
      BY <3>1 DEF ResultBody, Shown
    <3> QED
      BY <1>1, <2>0, <2>1, <3>1, <3>2 DEF PagesFit, FreshMeansMine
  <2>2. CASE /\ a.request.kind = "trigger" /\ ~a.body.ok
             /\ batchError' = [batchError EXCEPT ![p] = a.body.code]
             /\ batchState' = [batchState EXCEPT ![p] = "error"]
             /\ UNCHANGED batchResult
    <3>1. a.body.code \in Codes
      BY <1>1, <2>2 DEF Fits, ErrorBody, ResultBody
    <3> QED
      BY <1>1, <2>0, <2>2, <3>1 DEF PagesFit, FreshMeansMine
  <2>3. CASE /\ a.request.kind = "reset" /\ a.body.ok
             /\ batchResult' = [batchResult EXCEPT ![p] = None]
             /\ batchState' = [batchState EXCEPT ![p] = "idle"]
             /\ UNCHANGED batchError
    BY <1>1, <2>0, <2>3 DEF PagesFit, FreshMeansMine
  <2>4. CASE /\ a.request.kind = "reset" /\ ~a.body.ok
             /\ batchError' = [batchError EXCEPT ![p] = a.body.code]
             /\ UNCHANGED <<batchState, batchResult>>
    <3>1. a.body.code \in Codes
      BY <1>1, <2>4 DEF Fits, ErrorBody, ResetBody
    <3> QED
      BY <1>1, <2>0, <2>4, <3>1 DEF PagesFit, FreshMeansMine
  <2> QED
    BY <2>1, <2>2, <2>3, <2>4 DEF Arrive, AfterError
<1> QED
  BY <1>1, <1>2, <1>3
     DEF DashboardInductive, DashboardTypeOK, AgentFits, CompletionsAreAsked, agentVars

-----------------------------------------------------------------------------
LEMMA DashboardNextInductive ==
    ASSUME DashboardInductive, [DashboardNext]_dashboardVars
    PROVE  DashboardInductive'
<1>1. CASE UNCHANGED dashboardVars
  BY <1>1 DEF dashboardVars, pageVars, agentVars, DashboardInductive, DashboardTypeOK,
     PagesFit, AnswersFit, AgentFits, FreshMeansMine, CompletionsAreAsked
<1>2. CASE DashboardNext
  BY <1>2, HandleTriggerInductive, HandleResetInductive, ServeTriggerInductive,
     ServeResetInductive, RunEndsInductive, AgentRestartsInductive, RefuseInductive,
     ArriveInductive DEF DashboardNext, Serve
<1> QED
  BY <1>1, <1>2

THEOREM DashboardAlwaysInductive == DashboardSpec => []DashboardInductive
<1>1. DashboardInit => DashboardInductive
  BY DashboardInitInductive
<1>2. DashboardInductive /\ [DashboardNext]_dashboardVars => DashboardInductive'
  BY DashboardNextInductive
<1> QED
  BY <1>1, <1>2, PTL DEF DashboardSpec

\* Answers fit their requests and come once; the slot is taken exactly while a
\* run lasts.
THEOREM DashboardTypeCorrect == DashboardSpec => []DashboardTypeOK
<1>1. DashboardInductive => DashboardTypeOK
  BY DEF DashboardInductive
<1> QED
  BY <1>1, DashboardAlwaysInductive, PTL

\* A result shown without the chip "replayed" is of a run this page began.
THEOREM FreshIsMine == DashboardSpec => []FreshMeansMine
<1>1. DashboardInductive => FreshMeansMine
  BY DEF DashboardInductive
<1> QED
  BY <1>1, DashboardAlwaysInductive, PTL

\* However often and from wherever it is clicked, the batch completes again
\* only after a reset that was served or a restart.
THEOREM NoUnaskedCompletion == DashboardSpec => []CompletionsAreAsked
<1>1. DashboardInductive => CompletionsAreAsked
  BY DEF DashboardInductive
<1> QED
  BY <1>1, DashboardAlwaysInductive, PTL

-----------------------------------------------------------------------------
(***************************************************************************)
(* The agent of the panel implements the batch slot.                       *)
(***************************************************************************)
LEMMA SlotAlone ==
    ASSUME UNCHANGED agentVars
    PROVE  UNCHANGED RunSlot!slotVars
BY DEF agentVars, RunSlot!slotVars

LEMMA ServeKeepsTheSlot ==
    ASSUME AgentFits, underway \subseteq Request, Serve
    PROVE  [RunSlot!SlotNext]_(RunSlot!slotVars)
<1>1. ASSUME NEW request \in underway, ServeTrigger(request)
      PROVE  [RunSlot!SlotNext]_(RunSlot!slotVars)
  <2>1. CASE UNCHANGED agentVars
    BY <2>1, SlotAlone
  <2>2. CASE Begin(request)
    <3>1. request \in Request /\ request # None
      BY DashboardAssumption
    <3>2. runner = None /\ runner' = request
      BY <2>2 DEF Begin, AgentFits
    <3>3. {runner} \ {None} = {} /\ ({runner} \ {None})' = {request}
      BY <3>1, <3>2
    <3>4. RunSlot!Begin
      BY <2>2, <3>1, <3>3 DEF Begin, RunSlot!Begin
    <3> QED
      BY <3>4 DEF RunSlot!SlotNext
  <2> QED
    BY <1>1, <2>1, <2>2 DEF ServeTrigger
<1>2. ASSUME NEW request \in underway, ServeReset(request)
      PROVE  [RunSlot!SlotNext]_(RunSlot!slotVars)
  <2>1. CASE UNCHANGED agentVars
    BY <2>1, SlotAlone
  <2>2. CASE slot # "running" /\ slot' = "idle" /\ result' = None /\ UNCHANGED runner
    <3>1. {runner} \ {None} = {} /\ ({runner} \ {None})' = {}
      BY <2>2 DEF AgentFits
    <3>2. RunSlot!Reset
      BY <2>2, <3>1 DEF RunSlot!Reset, RunSlot!Forget
    <3> QED
      BY <3>2 DEF RunSlot!SlotNext
  <2> QED
    BY <1>2, <2>1, <2>2 DEF ServeReset
<1> QED
  BY <1>1, <1>2 DEF Serve

LEMMA RunEndsKeepsTheSlot ==
    ASSUME AgentFits, RunEnds
    PROVE  RunSlot!SlotNext
<1>1. runner # None /\ runner' = None
  BY DEF RunEnds, RunCompletes, RunFails
<1>2. {runner} \ {None} # {} /\ ({runner} \ {None})' = {}
  BY <1>1
<1>3. CASE RunCompletes
  <2>1. RunSlot!Complete
    BY <1>1, <1>2, <1>3 DEF RunCompletes, RunSlot!Complete
  <2> QED
    BY <2>1 DEF RunSlot!SlotNext
<1>4. CASE RunFails
  <2>1. RunSlot!Abort
    BY <1>2, <1>4 DEF RunFails, RunSlot!Abort
  <2> QED
    BY <2>1 DEF RunSlot!SlotNext
<1> QED
  BY <1>3, <1>4 DEF RunEnds

LEMMA StepKeepsTheSlot ==
    ASSUME DashboardTypeOK, [DashboardNext]_dashboardVars
    PROVE  [RunSlot!SlotNext]_(RunSlot!slotVars)
<1>1. AgentFits /\ underway \subseteq Request
  BY DEF DashboardTypeOK
<1>2. CASE UNCHANGED agentVars
  BY <1>2, SlotAlone
<1>3. CASE Serve
  BY <1>1, <1>3, ServeKeepsTheSlot
<1>4. CASE RunEnds
  BY <1>1, <1>4, RunEndsKeepsTheSlot
<1>5. CASE AgentRestarts
  <2>1. ({runner} \ {None})' = {}
    BY <1>5 DEF AgentRestarts
  <2>2. RunSlot!Restart
    BY <1>5, <2>1 DEF AgentRestarts, RunSlot!Restart, RunSlot!Forget
  <2> QED
    BY <2>2 DEF RunSlot!SlotNext
<1> QED
  BY <1>2, <1>3, <1>4, <1>5
     DEF DashboardNext, dashboardVars, HandleTrigger, HandleReset, Refuse, Arrive

\* What the panel takes the agent to be is an agent that keeps the batch slot,
\* for any number of pages, requests and restarts.
THEOREM DashboardKeepsTheSlot == DashboardSpec => AgentKeepsTheSlot
<1>1. DashboardInit => RunSlot!SlotInit
  <2>1. DashboardInit => {runner} \ {None} = {}
    BY DEF DashboardInit
  <2> QED
    BY <2>1 DEF DashboardInit, RunSlot!SlotInit
<1>2. DashboardTypeOK /\ [DashboardNext]_dashboardVars
      => [RunSlot!SlotNext]_(RunSlot!slotVars)
  BY StepKeepsTheSlot
<1> QED
  BY <1>1, <1>2, DashboardTypeCorrect, PTL DEF DashboardSpec, AgentKeepsTheSlot, RunSlot!SlotSpec
=============================================================================
