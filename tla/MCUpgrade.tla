------------------------------ MODULE MCUpgrade ------------------------------
(* Both ends of an agent upgrade: the plan at the centre and the updater   *)
(* on a server.  AgentUpgrade has an abstraction of the agents of its own, *)
(* so they share no state, and a behaviour is of one of them.              *)
EXTENDS AgentUpgrade, AgentUpdate, TLC

VARIABLE part

allVars == <<part, upgradeVars, updateVars>>

BothInit ==
    /\ part \in {"plan", "updater"} /\ UpgradeInit /\ UpdateInit
    /\ plan.status = IF part = "plan" THEN "running" ELSE "paused"
    /\ part # "updater" => order = <<"i1", "i2", "r1">> /\ updateFaults = {}

BothNext ==
    \/ part = "plan" /\ UpgradeNext /\ UNCHANGED <<part, updateVars>>
    \/ part = "updater" /\ UpdateNext /\ UNCHANGED <<part, upgradeVars>>

\* UpgradeFairness and UpdateFairness.
BothFairness ==
    /\ WF_upgradeVars(part = "plan" /\ Scan(Targets))
    /\ \A t \in Targets :
         /\ WF_upgradeVars(part = "plan" /\ HandleMessage(t)) /\ WF_upgradeVars(part = "plan" /\ Heartbeat(t))
         /\ WF_upgradeVars(part = "plan" /\ AgentNext(t)) /\ WF_upgradeVars(part = "plan" /\ ServerSilent(t))
    /\ \A from \in Targets \cup {ScanLoop} : WF_upgradeVars(part = "plan" /\ SendNext(from))
    /\ WF_updateVars(part = "updater" /\ AgentStep)
    /\ \A c \in Commands :
         /\ WF_updateVars(part = "updater" /\ HelperStep(c))
         /\ WF_updateVars(part = "updater" /\ c = order[current] /\ handle(c))

BothSpec == BothInit /\ [][BothNext]_allVars /\ BothFairness
=============================================================================
