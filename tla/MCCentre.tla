------------------------------ MODULE MCCentre ------------------------------
(* Safety of three parts of the control centre: an upgrade plan, the       *)
(* artifacts of a run and the platform's releases.  They share no state,   *)
(* and a behaviour is of one of them.                                      *)
EXTENDS AgentUpgrade, RunArtifacts, Releases, TLC

CONSTANTS c1, c2, c3

VARIABLE part

\* Artifacts: three files, one of which the policy does not allow.
MCFileVersions == {[body |-> "a", size |-> 1], [body |-> "b", size |-> 2], [body |-> "c", size |-> 2]}

\* Releases: a candidate with the migrations of the baseline and two with the new
\* ones; a kill and a failing step, in any order, or two failing steps.
MCCandidates == {c1, c2, c3}
MCNewTree == {c2, c3}
MCReleaseBudgets == {[kills |-> 1, mishaps |-> 1], [kills |-> 0, mishaps |-> 2]}

allVars == <<part, upgradeVars, artifactVars, releaseVars>>

CentreInit ==
    /\ part \in {"upgrade", "artifacts", "release"}
    /\ UpgradeInit /\ ArtifactInit /\ ReleaseInit
    /\ part # "upgrade" => plan.status = "running"
    /\ part # "artifacts" => \A n \in AllowedNames : directory[n] = NoFile
    /\ part # "release" => kills = 0

CentreNext ==
    \/ part = "upgrade" /\ UpgradeNext /\ UNCHANGED <<part, artifactVars, releaseVars>>
    \/ part = "artifacts" /\ ArtifactNext /\ UNCHANGED <<part, upgradeVars, releaseVars>>
    \/ part = "release" /\ ReleaseNext /\ UNCHANGED <<part, upgradeVars, artifactVars>>

CentreSpec == CentreInit /\ [][CentreNext]_allVars
=============================================================================
