--------------------------- MODULE ServerRegistry ---------------------------
(***************************************************************************)
(* Enrolment, agent credentials, heartbeats, offline detection and the     *)
(* enabling, disabling and draining of servers: internal/server.  The rows *)
(* are written by transactions; the connection hub and the sequence cache  *)
(* live in the API process and are written before or after them, so        *)
(* management requests, connecting agents and the offline loop interleave. *)
(***************************************************************************)
EXTENDS Integers, FiniteSets

CONSTANTS
    Hosts,          \* server identifiers
    Enrolments,     \* enrolment tokens
    Credentials,    \* agent credentials
    Connections,    \* handlers of /api/agent/connect, one agent process each
    Admins,         \* management requests that can be in progress at once
    MaxSequence,    \* bound: heartbeat sequence numbers
    RegistryBudgets \* bounds, one of which a behaviour keeps to: faults and management requests

ASSUME RegistryAssumption ==
    /\ RegistryBudgets \subseteq [faults : SUBSET {"publish", "clock", "restart"}, changes : Nat]
    /\ MaxSequence \in Nat

VARIABLES
    hosts,        \* rows of servers
    enrolments,   \* server_enrollment_tokens
    identities,   \* agent_identities, by credential
    connections,  \* what each connection handler has done
    disabled,     \* AgentConnectionHub.disabled
    latest,       \* Registry.latest; Unloaded where loaded is false
    requests,     \* management requests between their transaction and the hub
    lost,         \* identifiers MarkOfflineBefore returned, not yet published
    doubted,      \* servers whose runs were marked unknown since they were last online
    registryFaults, \* the faults of this behaviour
    changes         \* management requests left

registryVars ==
    <<hosts, enrolments, identities, connections, disabled, latest, requests, lost, doubted,
      registryFaults, changes>>

Absent == [status |-> "absent", enabled |-> TRUE, drain |-> FALSE, sequence |-> 0, seen |-> "never"]

Unconnected == [phase |-> "free", host |-> "none", credential |-> "none", sequence |-> 0, inbox |-> 0]

Unloaded == -1

NoRequest == [host |-> "none", enable |-> "none"]

RegistryInit ==
    /\ hosts = [h \in Hosts |-> Absent]
    /\ enrolments = [t \in Enrolments |-> "unissued"]
    /\ identities = [c \in Credentials |-> [host |-> "none", state |-> "unused"]]
    /\ connections = [k \in Connections |-> Unconnected]
    /\ disabled = {}
    /\ latest = [h \in Hosts |-> Unloaded]
    /\ requests = [a \in Admins |-> NoRequest]
    /\ lost = {}
    /\ doubted = {}
    /\ \E b \in RegistryBudgets : registryFaults = b.faults /\ changes = b.changes

rowVars == <<hosts, enrolments, identities>>
hubVars == <<connections, disabled>>
loopVars == <<lost, doubted, registryFaults>>

-----------------------------------------------------------------------------
(* Enrolment.                                                              *)

CreateEnrollmentToken(t) ==
    /\ enrolments[t] = "unissued"
    /\ enrolments' = [enrolments EXCEPT ![t] = "issued"]
    /\ UNCHANGED <<hosts, identities, hubVars, latest, requests, loopVars, changes>>

\* Ten minutes pass.
TokenExpires(t) ==
    /\ enrolments[t] = "issued"
    /\ enrolments' = [enrolments EXCEPT ![t] = "expired"]
    /\ UNCHANGED <<hosts, identities, hubVars, latest, requests, loopVars, changes>>

\* One transaction under the token's row lock: the server, its identity, the mark.
ConsumeEnrollmentToken(t, h, c) ==
    /\ enrolments[t] = "issued"
    /\ hosts' = [hosts EXCEPT ![h].status = "pending"]
    /\ identities' = [identities EXCEPT ![c] = [host |-> h, state |-> "active"]]
    /\ enrolments' = [enrolments EXCEPT ![t] = "used"]

\* The server and the credential are fresh random identifiers.
Enroll(t) ==
    /\ \E h \in Hosts, c \in Credentials :
          /\ hosts[h].status = "absent" /\ identities[c].state = "unused"
          /\ ConsumeEnrollmentToken(t, h, c)
    /\ UNCHANGED <<hubVars, latest, requests, loopVars, changes>>

-----------------------------------------------------------------------------
(* Credentials.                                                            *)

\* A change of the identities of server h, by state.
Restate(h, from, to) ==
    [c \in Credentials |->
       IF identities[c].host = h /\ identities[c].state \in from
       THEN [identities[c] EXCEPT !.state = to] ELSE identities[c]]

CreatePendingIdentity(h, c) ==
    identities' = [Restate(h, {"pending"}, "revoked") EXCEPT ![c] = [host |-> h, state |-> "pending"]]

Rotate(h) ==
    /\ changes > 0 /\ changes' = changes - 1
    /\ hosts[h].status # "absent" /\ hosts[h].enabled
    /\ \E c \in Credentials : identities[c].state = "unused" /\ CreatePendingIdentity(h, c)
    /\ UNCHANGED <<hosts, enrolments, hubVars, latest, requests, loopVars>>

\* The transaction; the hub closes the connections afterwards.
RevokeServerCredentials(h) ==
    /\ hosts' = [hosts EXCEPT ![h].status = "offline"]
    /\ identities' = Restate(h, {"pending", "active"}, "revoked")

Revoke(a, h) ==
    /\ changes > 0 /\ changes' = changes - 1
    /\ requests[a] = NoRequest /\ hosts[h].status # "absent"
    /\ RevokeServerCredentials(h)
    /\ requests' = [requests EXCEPT ![a] = [host |-> h, enable |-> "disconnect"]]
    /\ UNCHANGED <<enrolments, hubVars, latest, loopVars>>

\* Using a pending credential for the first time revokes the others.
Activated(c) ==
    IF identities[c].state = "pending"
    THEN [Restate(identities[c].host, {"pending", "active"}, "revoked") EXCEPT ![c].state = "active"]
    ELSE identities

FindServerByCredentialHash(c) ==
    /\ identities[c].state \in {"pending", "active"} /\ hosts[identities[c].host].enabled
    /\ identities' = Activated(c)

-----------------------------------------------------------------------------
(* Connections.                                                            *)

\* An agent process dials; its heartbeat sequence starts at its clock, which is
\* past every earlier sequence of the server unless it was set back.
Authenticate(k, c) ==
    /\ connections[k].phase = "free"
    /\ FindServerByCredentialHash(c)
    /\ LET h == identities[c].host
           sent == {connections[j].sequence : j \in {j \in Connections : connections[j].host = h}}
       IN  \E floor \in 0..MaxSequence - 1 :
             /\ \/ "clock" \in registryFaults
                \/ floor >= hosts[h].sequence /\ \A n \in sent : floor >= n
             /\ connections' = [connections EXCEPT ![k] =
                  [phase |-> "authenticated", host |-> h, credential |-> c, sequence |-> floor, inbox |-> 0]]
    /\ UNCHANGED <<hosts, enrolments, disabled, latest, requests, loopVars, changes>>

Register(k) ==
    /\ connections[k].phase = "authenticated"
    /\ connections' = [connections EXCEPT ![k].phase =
                         IF connections[k].host \in disabled THEN "closing" ELSE "registered"]
    /\ UNCHANGED <<rowVars, disabled, latest, requests, loopVars, changes>>

Served(k) == connections[k].phase \in {"registered", "closing"}

\* The agent's ticker; a message sent before the close is still handled.
SendHeartbeat(k) ==
    /\ connections[k].phase \in {"authenticated", "registered"} /\ connections[k].inbox = 0
    /\ connections[k].sequence < MaxSequence
    /\ connections' = [connections EXCEPT ![k].sequence = @ + 1, ![k].inbox = connections[k].sequence + 1]
    /\ UNCHANGED <<rowVars, disabled, latest, requests, loopVars, changes>>

\* The connection ends and the handler unregisters it.
Unregister(k) ==
    /\ Served(k) /\ (connections[k].phase = "closing" => connections[k].inbox = 0)
    /\ connections' = [connections EXCEPT ![k] = Unconnected]
    /\ UNCHANGED <<rowVars, disabled, latest, requests, loopVars, changes>>

-----------------------------------------------------------------------------
(* Heartbeats.                                                             *)

LatestHeartbeatSequence(h) == hosts[h].sequence

Beaten(row, n) ==
    [row EXCEPT !.sequence = n, !.seen = "fresh", !.status = IF row.drain THEN "draining" ELSE "online"]

Saveable(h, n) == hosts[h].enabled /\ hosts[h].sequence < n

SaveHeartbeat(h, n) ==
    /\ hosts' = [hosts EXCEPT ![h] = Beaten(hosts[h], n)]
    /\ latest' = [latest EXCEPT ![h] = n]
    /\ doubted' = doubted \ {h}

\* Under the registry's mutex: the cache is loaded once, older heartbeats are
\* dropped by the cache, others by the row.
AcceptHeartbeat(k) ==
    LET h == connections[k].host
        n == connections[k].inbox
        known == IF latest[h] = Unloaded THEN LatestHeartbeatSequence(h) ELSE latest[h]
    IN  /\ Served(k) /\ n > 0
        /\ IF n > known /\ Saveable(h, n)
           THEN SaveHeartbeat(h, n)
           ELSE latest' = [latest EXCEPT ![h] = known] /\ UNCHANGED <<hosts, doubted>>
        /\ connections' = [connections EXCEPT ![k].inbox = 0]
        /\ UNCHANGED <<enrolments, identities, disabled, requests, lost, registryFaults, changes>>

\* Fifteen seconds pass without a heartbeat.
SeenGetsStale(h) ==
    /\ hosts[h].seen = "fresh"
    /\ hosts' = [hosts EXCEPT ![h].seen = "stale"]
    /\ UNCHANGED <<enrolments, identities, hubVars, latest, requests, loopVars, changes>>

-----------------------------------------------------------------------------
(* Offline detection.                                                      *)

Overdue == {h \in Hosts : hosts[h].status \in {"online", "draining"} /\ hosts[h].seen = "stale"}

\* Mutant: a draining server is not looked at.
MarkOfflineBefore_OnlineOnly ==
    LET Silent == {h \in Overdue : hosts[h].status = "online"}
    IN  /\ lost = {} /\ Silent # {}
        /\ hosts' = [h \in Hosts |-> IF h \in Silent THEN [hosts[h] EXCEPT !.status = "offline"] ELSE hosts[h]]
        /\ lost' = Silent
        /\ UNCHANGED <<enrolments, identities, hubVars, latest, requests, doubted, registryFaults, changes>>

\* One statement marks and returns them all.
MarkOfflineBefore ==
    /\ lost = {} /\ Overdue # {}
    /\ hosts' = [h \in Hosts |-> IF h \in Overdue THEN [hosts[h] EXCEPT !.status = "offline"] ELSE hosts[h]]
    /\ lost' = Overdue
    /\ UNCHANGED <<enrolments, identities, hubVars, latest, requests, doubted, registryFaults, changes>>

\* One publication; it marks the server's runs unknown.
ReconcileOffline(h) ==
    /\ h \in lost
    /\ lost' = lost \ {h}
    /\ doubted' = doubted \cup {h}
    /\ UNCHANGED <<rowVars, hubVars, latest, requests, registryFaults, changes>>

\* A publication fails; the loop returns and the others are not published.
PublishFails ==
    /\ "publish" \in registryFaults /\ lost # {}
    /\ lost' = {}
    /\ UNCHANGED <<rowVars, hubVars, latest, requests, doubted, registryFaults, changes>>

-----------------------------------------------------------------------------
(* Management.                                                             *)

Given(value, old) == IF value = "none" THEN old ELSE value = "true"

\* Mutant: the end of draining makes a silent server available.
Updated_AlwaysOnline(row, enable, draining) ==
    LET enabled == Given(enable, row.enabled)
        drain == enabled /\ Given(draining, row.drain)
    IN  [row EXCEPT
           !.enabled = enabled,
           !.drain = drain,
           !.status = IF ~enabled THEN "offline"
                      ELSE IF drain /\ @ = "online" THEN "draining"
                      ELSE IF ~drain /\ @ = "draining" THEN "online"
                      ELSE @]

Updated(row, enable, draining) ==
    LET enabled == Given(enable, row.enabled)
        drain == Given(draining, row.drain)
    IN  [row EXCEPT
           !.enabled = enabled,
           !.drain = enabled /\ drain,
           !.status = IF ~enabled THEN "offline"
                      ELSE IF drain /\ @ = "online" THEN "draining"
                      ELSE IF ~drain /\ @ = "draining"
                           THEN IF row.seen = "fresh" THEN "online" ELSE "offline"
                      ELSE @]

UpdateServer(a, h, enable, draining) ==
    /\ changes > 0 /\ changes' = changes - 1
    /\ requests[a] = NoRequest /\ hosts[h].status # "absent"
    /\ enable # "none" \/ draining # "none"
    /\ hosts' = [hosts EXCEPT ![h] = Updated(hosts[h], enable, draining)]
    /\ requests' = IF enable = "none" THEN requests
                   ELSE [requests EXCEPT ![a] = [host |-> h, enable |-> enable]]
    /\ UNCHANGED <<enrolments, identities, hubVars, latest, loopVars>>

\* Closes the registered connections of a server.
Disconnected(h) ==
    [k \in Connections |->
       IF connections[k].phase = "registered" /\ connections[k].host = h
       THEN [connections[k] EXCEPT !.phase = "closing"] ELSE connections[k]]

\* Mutant: only new connections are refused.
SetServerEnabled_KeepsOpen(h, enabled) ==
    /\ disabled' = IF enabled THEN disabled \ {h} ELSE disabled \cup {h}
    /\ UNCHANGED connections

SetServerEnabled(h, enabled) ==
    /\ disabled' = IF enabled THEN disabled \ {h} ELSE disabled \cup {h}
    /\ connections' = IF enabled THEN connections ELSE Disconnected(h)

Disconnect(h) == connections' = Disconnected(h) /\ UNCHANGED disabled

\* The hub step of UpdateServer or Revoke, after its transaction.
FinishRequest(a) ==
    LET r == requests[a]
    IN  /\ r # NoRequest
        /\ IF r.enable = "disconnect" THEN Disconnect(r.host) ELSE SetServerEnabled(r.host, r.enable = "true")
        /\ requests' = [requests EXCEPT ![a] = NoRequest]
        /\ UNCHANGED <<rowVars, latest, loopVars, changes>>

\* The API process restarts: connections, hub, cache, requests and loop are new.
ApiRestarts ==
    /\ "restart" \in registryFaults /\ changes > 0 /\ changes' = changes - 1
    /\ connections' = [k \in Connections |-> Unconnected]
    /\ disabled' = {}
    /\ latest' = [h \in Hosts |-> Unloaded]
    /\ requests' = [a \in Admins |-> NoRequest]
    /\ lost' = {}
    /\ UNCHANGED <<rowVars, doubted, registryFaults>>

-----------------------------------------------------------------------------
Switches == {"none", "true", "false"}

Manage ==
    \/ \E t \in Enrolments : CreateEnrollmentToken(t) \/ TokenExpires(t) \/ Enroll(t)
    \/ \E h \in Hosts : Rotate(h)
    \/ \E a \in Admins, h \in Hosts : Revoke(a, h)
    \/ \E a \in Admins, h \in Hosts, e, d \in Switches : UpdateServer(a, h, e, d)
    \/ \E a \in Admins : FinishRequest(a)
    \/ ApiRestarts

Connect ==
    \/ \E k \in Connections, c \in Credentials : Authenticate(k, c)
    \/ \E k \in Connections : Register(k) \/ SendHeartbeat(k) \/ Unregister(k) \/ AcceptHeartbeat(k)

OfflineLoop == MarkOfflineBefore \/ PublishFails \/ \E h \in Hosts : ReconcileOffline(h)

RegistryNext == Manage \/ Connect \/ OfflineLoop \/ \E h \in Hosts : SeenGetsStale(h)

\* The offline loop runs every five seconds.
RegistryFairness == WF_registryVars(OfflineLoop)

RegistrySpec == RegistryInit /\ [][RegistryNext]_registryVars /\ RegistryFairness

-----------------------------------------------------------------------------
(* Properties.                                                             *)

\* Rows, connections and the hub's memory are well formed.
RegistryTypeOK ==
    /\ hosts \in [Hosts -> [status : {"absent", "pending", "online", "offline", "draining"},
                            enabled : BOOLEAN, drain : BOOLEAN, sequence : 0..MaxSequence,
                            seen : {"never", "fresh", "stale"}]]
    /\ enrolments \in [Enrolments -> {"unissued", "issued", "expired", "used"}]
    /\ identities \in [Credentials -> [host : Hosts \cup {"none"},
                                       state : {"unused", "pending", "active", "revoked"}]]
    /\ connections \in [Connections -> [phase : {"free", "authenticated", "registered", "closing"},
                                        host : Hosts \cup {"none"}, credential : Credentials \cup {"none"},
                                        sequence : 0..MaxSequence, inbox : 0..MaxSequence]]
    /\ disabled \subseteq Hosts
    /\ latest \in [Hosts -> 0..MaxSequence \cup {Unloaded}]
    /\ requests \in [Admins -> [host : Hosts \cup {"none"}, enable : Switches \cup {"disconnect"}]]
    /\ lost \subseteq Hosts /\ doubted \subseteq Hosts
    /\ registryFaults \subseteq {"publish", "clock", "restart"} /\ changes \in Nat

\* The status the scheduler reads never contradicts what was asked for: an
\* online server is enabled and not to be drained, a draining one is enabled
\* and to be drained, whatever heartbeats, updates and offline marks interleave.
StatusHonoursRequests ==
    \A h \in Hosts :
      /\ hosts[h].status = "online" => hosts[h].enabled /\ ~hosts[h].drain
      /\ hosts[h].status = "draining" => hosts[h].enabled /\ hosts[h].drain

\* Every enrolled server owes its existence to a token of its own.
OneServerPerToken ==
    Cardinality({h \in Hosts : hosts[h].status # "absent"}) =
      Cardinality({t \in Enrolments : enrolments[t] = "used"})

\* Rotation, activation and revocation in any order leave a server at most one
\* active and one pending credential.
OneCredentialInUse ==
    \A h \in Hosts, s \in {"active", "pending"} :
      Cardinality({c \in Credentials : identities[c] = [host |-> h, state |-> s]}) <= 1

\* Once no request is between its transaction and the hub, a disabled server has
\* no registered connection, even if its agent was authenticated before.
DisabledIsCutOff ==
    (\A a \in Admins : requests[a] = NoRequest) =>
      \A k \in Connections :
        connections[k].phase = "registered" => hosts[connections[k].host].enabled

\* What the registry's cache drops, the row would refuse as well: a cached
\* sequence never runs ahead of the stored one, across restarts and updates.
CacheNeverAhead ==
    \A h \in Hosts : latest[h] # Unloaded => latest[h] <= hosts[h].sequence

\* An update never makes a silent server available: one that becomes online, or
\* leaves offline to drain, has been seen within fifteen seconds.
OnlyFreshBecomesAvailable ==
    [][\A h \in Hosts :
         \/ hosts[h].status # "online" /\ hosts'[h].status = "online"
         \/ hosts[h].status = "offline" /\ hosts'[h].status = "draining"
         => hosts'[h].seen = "fresh"]_registryVars

\* Silence is noticed: a server that is shown available and has not been seen for
\* fifteen seconds is marked offline, or heard again.
SilenceIsNoticed ==
    \A h \in Hosts : []<>(h \notin Overdue)

\* Every server the scan marks offline has its runs doubted, unless it is heard
\* again first, whatever management requests do to it meanwhile, except by a
\* publication that fails and by a restart of the API process.
OfflineIsPublished ==
    /\ \A h \in Hosts : []<>(h \notin lost)
    /\ [][\/ PublishFails \/ ApiRestarts
         \/ \A h \in lost \ lost' : h \in doubted' \/ hosts'[h].seen = "fresh"]_registryVars

\* The rows and the cache stay sound under every interleaving of heartbeats,
\* enrolment, rotation, management requests, the offline scan and restarts.
RegistryIsSound ==
    /\ [](RegistryTypeOK /\ StatusHonoursRequests /\ OneServerPerToken /\ OneCredentialInUse /\ CacheNeverAhead)
    /\ OnlyFreshBecomesAvailable

\* A server that falls silent is marked, and its runs are doubted.
OfflineIsNoticed == SilenceIsNoticed /\ OfflineIsPublished
=============================================================================
