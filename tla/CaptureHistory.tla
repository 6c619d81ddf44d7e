--------------------------- MODULE CaptureHistory ---------------------------
(***************************************************************************)
(* Capture with a history variable: the last thing the operator asked of   *)
(* the engine.                                                             *)
(***************************************************************************)
EXTENDS Capture

VARIABLES
  manual,  \* the operator's last word was a stop, and it has returned
  needed   \* at the last trip it was not: there was something to stop

history == <<manual, needed>>

StopEnds == at["operator"] = "stopped" /\ why = "stop" /\ why' = "none"
AsksToStart == at["operator"] = "idle" /\ why' = "start"
Trips == ~paused /\ paused'

HistoryInit == Init /\ manual = FALSE /\ needed = TRUE

HistoryNext ==
  /\ Next
  /\ manual' = ((manual \/ StopEnds) /\ ~AsksToStart /\ crashes' = crashes)
  /\ needed' = IF Trips THEN ~manual ELSE needed

HistorySpec == HistoryInit /\ [][HistoryNext]_<<vars, history>>

\* The guard starts the engine again only if the guard was the one that stopped
\* it: never an engine that the operator had stopped before the limit tripped,
\* and has not asked to start since.
ManualStopHolds ==
  [][at["guard"] = "start" /\ ~running /\ running' /\ at'["guard"] = "started"
       => needed \/ ~manual]_<<vars, history>>
=============================================================================
