----------------------------- MODULE BatchSlot -----------------------------
(***************************************************************************)
(* What the agent promises to whoever triggers a batch, without requests,  *)
(* screenings or transactions: one run at a time, none over a result that  *)
(* has not been reset, a result from a run only, and a slot that tells all *)
(* of this.  SettlementAgent and Dashboard, which looks at the agent from  *)
(* outside, both implement it.                                             *)
(***************************************************************************)
CONSTANTS Runs, NoResult

VARIABLES
    slot,           \* idle, running, completed: AgentStore.state
    result,         \* of the last run, until it is reset
    running         \* the runs that are going on

slotVars == <<slot, result, running>>

Forget == slot' = "idle" /\ result' = NoResult

SlotInit == slot = "idle" /\ result = NoResult /\ running = {}

Begin ==
    /\ running = {} /\ result = NoResult
    /\ slot' = "running"
    /\ \E run \in Runs : running' = {run}
    /\ UNCHANGED result

Complete ==
    /\ running # {} /\ running' = {}
    /\ slot' = "completed"
    /\ result' # NoResult

\* A run begins over no result, so there is none to go back to.
Abort ==
    /\ running # {} /\ running' = {}
    /\ slot' = "idle"
    /\ UNCHANGED result

Reset == running = {} /\ Forget /\ UNCHANGED running

Restart == Forget /\ running' = {}

SlotNext == Begin \/ Complete \/ Abort \/ Reset \/ Restart

SlotSpec == SlotInit /\ [][SlotNext]_slotVars
=============================================================================
