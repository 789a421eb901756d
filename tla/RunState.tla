------------------------------ MODULE RunState ------------------------------
(***************************************************************************)
(* The run-state tracker (internal/mcp/runstate.go): what the server last  *)
(* knew about system_running, and which actor explains it. Its methods run *)
(* under tracker.mu. Nothing orders them with the native commands whose    *)
(* answers they record: a caller learns the state, and tells the tracker   *)
(* in a later step.                                                        *)
(***************************************************************************)
EXTENDS Naturals

CONSTANT None   \* nil

VARIABLES
  observed,  \* the last run state observed or set: "running", "paused", "unknown"
  mcpSet,    \* the last run state an MCP action asked for, "unknown" for nil
  stop       \* stopAttribution: the instrument proven to have fired, or None

trackerVars == <<observed, mcpSet, stop>>

RunStates == {"running", "paused"}

Label(isRunning) == IF isRunning THEN "running" ELSE "paused"

TrackerInit == observed = "unknown" /\ mcpSet = "unknown" /\ stop = None

\* setByMCP: a run-state action supersedes any debugger-stop attribution.
SetByMCP(state) ==
  /\ observed' = state
  /\ mcpSet' = state
  /\ stop' = None

\* setBreakpointStop.
SetBreakpointStop(instrument) ==
  /\ stop' = instrument
  /\ UNCHANGED <<observed, mcpSet>>

\* observe: a transition no MCP action explains is external.
Unexplained(state) ==
  /\ observed # "unknown" /\ observed # state
  /\ mcpSet # state

Observe(state) ==
  /\ stop' = IF state = "running" THEN None ELSE stop
  /\ mcpSet' = IF Unexplained(state) THEN "unknown" ELSE mcpSet
  /\ observed' = state

TrackerTypeOK(Instrument) ==
  /\ observed \in RunStates \cup {"unknown"}
  /\ mcpSet \in RunStates \cup {"unknown"}
  /\ stop \in Instrument \cup {None}
=============================================================================
