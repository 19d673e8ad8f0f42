------------------------------ MODULE Platform ------------------------------
(***************************************************************************)
(* Vocabulary shared by the modules of the script-orchestration platform:  *)
(* the identifiers that appear in several components, the states of a task *)
(* run (internal/task/model.go) and the events an agent reports about one  *)
(* (internal/task/event_service.go).                                       *)
(***************************************************************************)
CONSTANTS
    Runs,      \* identifiers of rows of task_runs
    Servers,   \* identifiers of enrolled execution servers
    Tokens,    \* execution tokens, one is drawn for every assignment
    Details,   \* exit code, message and usage carried by an agent event
    None       \* SQL NULL

ASSUME NoneAssumption == None \notin Servers \cup Tokens

\* "absent" stands for a run identifier that no row uses yet.
RunStates == {"absent", "queued", "scheduling", "assigned", "syncing", "running",
              "succeeded", "failed", "timed_out", "cancelled", "expired", "unknown"}

TerminalStates == {"succeeded", "failed", "timed_out", "cancelled", "expired"}

\* The states that count against a definition's concurrency.
ActiveStates == {"assigned", "syncing", "running"}

EventTypes == {"started", "succeeded", "failed", "timed_out", "cancelled"}

stateForAgentEvent(type) == IF type = "started" THEN "running" ELSE type

RunEvents == [type : EventTypes, detail : Details]
=============================================================================
