------------------------------ MODULE Dashboard ------------------------------
(***************************************************************************)
(* The settlement panel of the dashboard (apps/web, DashboardPage.tsx),    *)
(* the proxy of the web server (apps/web/server) and the agent's batch     *)
(* routes, as far as the panel can tell them: a slot, a result and a run   *)
(* that ends (SettlementAgent has the run itself).                         *)
(*                                                                         *)
(* Several pages may be open: other viewers, other tabs, or the same tab   *)
(* after it has been left and opened again; a page that was left is one    *)
(* that does nothing more.  Requests overtake each other, and so do        *)
(* answers.  The proxy forwards a request and may lose the connection at   *)
(* any time: it answers 502, whatever the agent does with the request.     *)
(*                                                                         *)
(* A name with an underscore, Action_Variant, is a deliberately wrong      *)
(* variant of the definition that follows it; no specification uses it.    *)
(***************************************************************************)
EXTENDS Naturals, FiniteSets

CONSTANTS
    Pages,
    None,           \* null
    MaxRequests,    \* bounds: clicks, and restarts of the agent
    MaxRestarts

Request == [id : 1 .. MaxRequests, page : Pages, kind : {"trigger", "reset"}]

ASSUME DashboardAssumption ==
    /\ MaxRequests \in Nat /\ MaxRestarts \in Nat
    /\ None \notin Request

VARIABLES
    batchState, batchResult, batchError,    \* each page's state
    clicks,                                 \* requests made so far, their ids
    waiting,                                \* requests whose page waits for fetch
    underway, answers,                      \* requests to the agent, answers to pages
    slot, result, runner,                   \* the agent: store, result, request that runs
    completions, resets, restarts           \* history: what the agent has done

pageVars  == <<batchState, batchResult, batchError>>
agentVars == <<slot, result, runner>>
dashboardVars == <<pageVars, clicks, waiting, underway, answers, agentVars,
                   completions, resets, restarts>>

DashboardInit ==
    /\ batchState = [p \in Pages |-> "idle"]
    /\ batchResult = [p \in Pages |-> None]
    /\ batchError = [p \in Pages |-> None]
    /\ clicks = 0 /\ waiting = {} /\ underway = {} /\ answers = {}
    /\ slot = "idle" /\ result = None /\ runner = None
    /\ completions = 0 /\ resets = 0 /\ restarts = 0

-----------------------------------------------------------------------------
(***************************************************************************)
(* Clicks.  The reset button is there while a result is shown, also when   *)
(* a reset is already on its way.                                          *)
(***************************************************************************)
Post(p, kind) ==
    /\ clicks < MaxRequests
    /\ clicks' = clicks + 1
    /\ LET request == [id |-> clicks + 1, page |-> p, kind |-> kind]
       IN  waiting' = waiting \cup {request} /\ underway' = underway \cup {request}

HandleTrigger(p) ==
    /\ batchState[p] # "running"
    /\ Post(p, "trigger")
    /\ batchState' = [batchState EXCEPT ![p] = "running"]
    /\ batchError' = [batchError EXCEPT ![p] = None]
    /\ UNCHANGED <<batchResult, answers, agentVars, completions, resets, restarts>>

HandleReset(p) ==
    /\ batchState[p] = "done"
    /\ Post(p, "reset")
    /\ batchError' = [batchError EXCEPT ![p] = None]
    /\ UNCHANGED <<batchState, batchResult, answers, agentVars, completions, resets, restarts>>

-----------------------------------------------------------------------------
(***************************************************************************)
(* The agent.  Its answer reaches the page unless the proxy has given up.  *)
(***************************************************************************)
Answered(request) == \E a \in answers : a.request = request

Error(code) == [ok |-> FALSE, code |-> code]
Result(run, replayed) == [ok |-> TRUE, run |-> run, replayed |-> replayed]

Reply(request, body) ==
    answers' = IF request \in waiting /\ ~Answered(request)
               THEN answers \cup {[request |-> request, body |-> body]} ELSE answers

Begin(request) ==
    /\ result = None /\ slot # "running"
    /\ slot' = "running" /\ runner' = request
    /\ UNCHANGED <<result, answers>>

ServeTrigger_ReplayUnmarked(request) ==
    /\ request \in underway /\ request.kind = "trigger"
    /\ underway' = underway \ {request}
    /\ \/ /\ result # None
          /\ Reply(request, Result(result, FALSE))
          /\ UNCHANGED agentVars
       \/ /\ result = None /\ slot = "running"
          /\ Reply(request, Error("batch_in_progress"))
          /\ UNCHANGED agentVars
       \/ Begin(request)
    /\ UNCHANGED <<pageVars, clicks, waiting, completions, resets, restarts>>

ServeTrigger_NoReplay(request) ==
    /\ request \in underway /\ request.kind = "trigger"
    /\ underway' = underway \ {request}
    /\ \/ /\ slot = "running"
          /\ Reply(request, Error("batch_in_progress"))
          /\ UNCHANGED agentVars
       \/ /\ slot # "running"
          /\ slot' = "running" /\ runner' = request
          /\ UNCHANGED <<result, answers>>
    /\ UNCHANGED <<pageVars, clicks, waiting, completions, resets, restarts>>

ServeTrigger(request) ==
    /\ request \in underway /\ request.kind = "trigger"
    /\ underway' = underway \ {request}
    /\ \/ /\ result # None
          /\ Reply(request, Result(result, TRUE))
          /\ UNCHANGED agentVars
       \/ /\ result = None /\ slot = "running"
          /\ Reply(request, Error("batch_in_progress"))
          /\ UNCHANGED agentVars
       \/ Begin(request)
    /\ UNCHANGED <<pageVars, clicks, waiting, completions, resets, restarts>>

ServeReset(request) ==
    /\ request \in underway /\ request.kind = "reset"
    /\ underway' = underway \ {request}
    /\ \/ /\ slot = "running"
          /\ Reply(request, Error("batch_in_progress"))
          /\ UNCHANGED <<agentVars, resets>>
       \/ /\ slot # "running"
          /\ slot' = "idle" /\ result' = None
          /\ resets' = resets + 1
          /\ Reply(request, [ok |-> TRUE])
          /\ UNCHANGED runner
    /\ UNCHANGED <<pageVars, clicks, waiting, completions, restarts>>

\* The batch that was begun for a request is settled, or an exception ends it.
RunCompletes ==
    /\ runner # None
    /\ slot' = "completed" /\ result' = runner /\ runner' = None
    /\ completions' = completions + 1
    /\ Reply(runner, Result(runner, FALSE))
    /\ UNCHANGED <<pageVars, clicks, waiting, underway, resets, restarts>>

RunFails ==
    /\ runner # None
    /\ slot' = "idle" /\ runner' = None
    /\ Reply(runner, Error("chain_call_failed"))
    /\ UNCHANGED <<pageVars, clicks, waiting, underway, result, completions, resets, restarts>>

\* The store was in memory, and the request that ran is never answered.
AgentRestarts ==
    /\ restarts < MaxRestarts
    /\ restarts' = restarts + 1
    /\ slot' = "idle" /\ result' = None /\ runner' = None
    /\ UNCHANGED <<pageVars, clicks, waiting, underway, answers, completions, resets>>

(***************************************************************************)
(* server/index.js, the catch of both routes: 502 with chain_call_failed,  *)
(* also if no identity token was to be had and the request never left.     *)
(***************************************************************************)
Refuse(request) ==
    /\ request \in waiting /\ ~Answered(request)
    /\ Reply(request, Error("chain_call_failed"))
    /\ UNCHANGED <<pageVars, clicks, waiting, underway, agentVars,
                   completions, resets, restarts>>

-----------------------------------------------------------------------------
(***************************************************************************)
(* fetch returns: agentFetch makes a value or an exception of the answer,  *)
(* and the handler goes on.                                                *)
(***************************************************************************)
AfterError_Unset(p) == batchState[p]
AfterError(p) == "error"

Arrive(a) ==
    LET p == a.request.page
    IN  /\ a \in answers
        /\ answers' = answers \ {a}
        /\ waiting' = waiting \ {a.request}
        /\ \/ /\ a.request.kind = "trigger" /\ a.body.ok
              /\ batchResult' = [batchResult EXCEPT
                                   ![p] = [run |-> a.body.run, replayed |-> a.body.replayed]]
              /\ batchState' = [batchState EXCEPT ![p] = "done"]
              /\ UNCHANGED batchError
           \/ /\ a.request.kind = "trigger" /\ ~a.body.ok
              /\ batchError' = [batchError EXCEPT ![p] = a.body.code]
              /\ batchState' = [batchState EXCEPT ![p] = AfterError(p)]
              /\ UNCHANGED batchResult
           \/ /\ a.request.kind = "reset" /\ a.body.ok
              /\ batchResult' = [batchResult EXCEPT ![p] = None]
              /\ batchState' = [batchState EXCEPT ![p] = "idle"]
              /\ UNCHANGED batchError
           \/ /\ a.request.kind = "reset" /\ ~a.body.ok
              /\ batchError' = [batchError EXCEPT ![p] = a.body.code]
              /\ UNCHANGED <<batchState, batchResult>>
        /\ UNCHANGED <<clicks, underway, agentVars, completions, resets, restarts>>

Serve == \E request \in underway : ServeTrigger(request) \/ ServeReset(request)
RunEnds == RunCompletes \/ RunFails

DashboardNext ==
    \/ \E p \in Pages : HandleTrigger(p) \/ HandleReset(p)
    \/ Serve \/ RunEnds \/ AgentRestarts
    \/ \E request \in waiting : Refuse(request)
    \/ \E a \in answers : Arrive(a)

DashboardSpec == DashboardInit /\ [][DashboardNext]_dashboardVars

\* A request whose connection is gone.
Orphan(request) == request \notin underway /\ request # runner

\* Requests and answers arrive, the proxy notices a connection that is gone,
\* and a run ends (SlotIsReleased of SettlementAgent).  fetch has no timeout
\* of its own, and none is assumed; nor that anybody clicks.
FairDashboardSpec ==
    /\ DashboardSpec
    /\ WF_dashboardVars(Serve) /\ WF_dashboardVars(RunEnds)
    /\ WF_dashboardVars(\E request \in waiting : Orphan(request) /\ Refuse(request))
    /\ WF_dashboardVars(\E a \in answers : Arrive(a))

-----------------------------------------------------------------------------
(***************************************************************************)
(* Properties.                                                             *)
(***************************************************************************)
Codes == {"batch_in_progress", "chain_call_failed"}
Shown == [run : Request, replayed : BOOLEAN]
ErrorBody == [ok : {FALSE}, code : Codes]
ResultBody == [ok : {TRUE}, run : Request, replayed : BOOLEAN]
ResetBody == [ok : {TRUE}]

PagesFit ==
    /\ batchState \in [Pages -> {"idle", "running", "done", "error"}]
    /\ DOMAIN batchResult = Pages
    /\ \A p \in Pages : batchResult[p] # None => batchResult[p] \in Shown
    /\ batchError \in [Pages -> Codes \cup {None}]

\* A result that is not replayed is that of the request it answers.
Fits(request, body) ==
    \/ body \in ErrorBody
    \/ /\ request.kind = "trigger" /\ body \in ResultBody
       /\ ~body.replayed => body.run = request
    \/ request.kind = "reset" /\ body \in ResetBody

AnswersFit ==
    /\ \A a \in answers : a.request \in waiting /\ Fits(a.request, a.body)
    /\ \A a, b \in answers : a.request = b.request => a = b

AgentFits ==
    /\ runner # None => runner \in Request /\ runner.kind = "trigger"
    /\ result # None => result \in Request
    /\ slot \in {"idle", "running", "completed"}
    /\ (runner # None) <=> (slot = "running")
    /\ (result # None) <=> (slot = "completed")

\* The pages' state, the requests and the agent's store are well formed; the
\* slot is taken exactly while a run lasts; an answer fits its request, and no
\* request is answered twice, by the agent and by the proxy.
DashboardTypeOK ==
    /\ PagesFit
    /\ waiting \subseteq Request /\ underway \subseteq Request
    /\ AnswersFit
    /\ AgentFits
    /\ {clicks, completions, resets, restarts} \subseteq Nat

RunSlot == INSTANCE BatchSlot WITH
    Runs     <- Request,
    NoResult <- None,
    running  <- {runner} \ {None}

\* batch.ts and store.ts, as SettlementAgent has them: the agent that the panel
\* sees keeps the same batch slot as the agent with its pipeline and network.
AgentKeepsTheSlot == RunSlot!SlotSpec

\* DashboardPage.tsx, the chip "replayed": a result without it is of a run
\* that a click on this very page began; no overtaking of triggers and resets,
\* no 502 in between, shows the run of another viewer as one's own.
FreshMeansMine ==
    \A p \in Pages : batchResult[p] # None /\ ~batchResult[p].replayed =>
        batchResult[p].run.page = p

\* Clicking again after a 502, on this page or another, while the agent still
\* runs or has run the batch, never completes the batch again: every completion
\* but the one whose result the agent still has was forgotten by a reset that
\* was served, or by a restart.
CompletionsAreAsked ==
    completions <= resets + restarts + (IF result # None THEN 1 ELSE 0)

\* The spinner does not turn for ever: every click on the trigger is answered.
SpinnerEnds == \A p \in Pages : (batchState[p] = "running") ~> (batchState[p] # "running")
=============================================================================
