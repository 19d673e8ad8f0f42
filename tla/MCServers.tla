------------------------------ MODULE MCServers ------------------------------
(* The server registry, the script library with the copies a server holds, *)
(* and the alert rules that watch servers and runs.  They share no state,  *)
(* and a behaviour is of one of them.                                      *)
EXTENDS ServerRegistry, ScriptLibrary, AlertRules, TLC

VARIABLE part

\* The registry: two requests, failing publications and restarts of the API process;
\* one request and agents whose clock is set back.
MCRegistryBudgets ==
    {[faults |-> {"publish", "restart"}, changes |-> 2], [faults |-> {"clock"}, changes |-> 1]}

\* The library: two versions and one trouble, one version and three troubles, or two
\* editors at once and no trouble.
MCBudgets ==
    {[editors |-> {1}, versions |-> 2, troubles |-> 1], [editors |-> {1}, versions |-> 1, troubles |-> 3],
     [editors |-> {1, 2}, versions |-> 2, troubles |-> 0]}

\* Alerts: samples of a server, changes of the problem and a pass cut short.
MCAlertBudgets ==
    {[beats |-> 2, changes |-> 1, cuts |-> 1], [beats |-> 0, changes |-> 3, cuts |-> 1],
     [beats |-> 3, changes |-> 0, cuts |-> 0]}

allVars == <<part, registryVars, libraryVars, alertVars>>

ServersInit ==
    /\ part \in {"registry", "library", "alert"} /\ RegistryInit /\ LibraryInit /\ AlertInit
    /\ part # "registry" => changes = 1
    /\ part # "library" => budget.troubles = 3
    /\ part # "alert" => scene = "server" /\ channel /\ left.beats = 3

ServersNext ==
    \/ part = "registry" /\ RegistryNext /\ UNCHANGED <<part, libraryVars, alertVars>>
    \/ part = "library" /\ LibraryNext /\ UNCHANGED <<part, registryVars, alertVars>>
    \/ part = "alert" /\ AlertNext /\ UNCHANGED <<part, registryVars, libraryVars>>

\* The fairness of the three specifications.
ServersFairness ==
    /\ WF_registryVars(part = "registry" /\ OfflineLoop)
    /\ WF_libraryVars(part = "library" /\ CentreNext) /\ WF_libraryVars(part = "library" /\ AgentNext)
    /\ WF_libraryVars(part = "library" /\ Heartbeat) /\ WF_libraryVars(part = "library" /\ DriftScan)
    /\ WF_libraryVars(part = "library" /\ TimePasses)
    /\ WF_alertVars(part = "alert" /\ Scan)

ServersSpec == ServersInit /\ [][ServersNext]_allVars /\ ServersFairness
=============================================================================
