------------------------ MODULE ServerRegistryProofs ------------------------
(***************************************************************************)
(* The registry stays sound for every set of servers, tokens, credentials, *)
(* connections and administrators.  Rows are reached through credentials   *)
(* and connections, so the invariant says that these always name an        *)
(* enrolled server, and counts servers against the tokens used for them.   *)
(***************************************************************************)
EXTENDS ServerRegistry, FiniteSetTheorems, TLAPS

Rows == [status : {"absent", "pending", "online", "offline", "draining"},
         enabled : BOOLEAN, drain : BOOLEAN, sequence : 0..MaxSequence, seen : {"never", "fresh", "stale"}]
Identities == [host : Hosts \cup {"none"}, state : {"unused", "pending", "active", "revoked"}]
Handlers == [phase : {"free", "authenticated", "registered", "closing"}, host : Hosts \cup {"none"},
             credential : Credentials \cup {"none"}, sequence : 0..MaxSequence, inbox : 0..MaxSequence]
Requests == [host : Hosts \cup {"none"}, enable : Switches \cup {"disconnect"}]

Enrolled == {h \in Hosts : hosts[h].status # "absent"}
UsedTokens == {t \in Enrolments : enrolments[t] = "used"}

Honoured(row) ==
    /\ row.status = "online" => row.enabled /\ ~row.drain
    /\ row.status = "draining" => row.enabled /\ row.drain

\* What a statement may make of a server's row.
GoodRow(old, new) ==
    /\ new \in Rows /\ Honoured(new)
    /\ new.status = "absent" <=> old.status = "absent"
    /\ old.sequence <= new.sequence
    /\ \/ old.status # "online" /\ new.status = "online"
       \/ old.status = "offline" /\ new.status = "draining"
       => new.seen = "fresh"

\* Credentials in use, connections and requests are of enrolled servers.
LinkInv ==
    /\ \A c \in Credentials : identities[c].state # "unused" => identities[c].host \in Enrolled
    /\ \A k \in Connections : connections[k].phase # "free" => connections[k].host \in Enrolled
    /\ \A a \in Admins : requests[a] # NoRequest => requests[a].host \in Hosts

TokenInv ==
    /\ IsFiniteSet(Enrolled) /\ IsFiniteSet(UsedTokens)
    /\ Cardinality(Enrolled) = Cardinality(UsedTokens)

CredentialInv ==
    \A c, d \in Credentials :
      identities[c] = identities[d] /\ identities[c].state \in {"active", "pending"} => c = d

RegistryInv ==
    RegistryTypeOK /\ LinkInv /\ TokenInv /\ CredentialInv /\ StatusHonoursRequests /\ CacheNeverAhead

-----------------------------------------------------------------------------
(* Rows.                                                                   *)

\* A heartbeat (SaveHeartbeat) makes the row of an enabled server available, and fresh.
LEMMA BeatenIsGood ==
    ASSUME NEW row \in Rows, NEW n \in 0..MaxSequence, row.enabled, row.sequence < n, row.status # "absent"
    PROVE  GoodRow(row, Beaten(row, n)) /\ Beaten(row, n).sequence = n
<1>0. row.sequence <= n
  BY RegistryAssumption DEF Rows
<1>1. CASE row.drain
  <2>1. Beaten(row, n) = [row EXCEPT !.sequence = n, !.seen = "fresh", !.status = "draining"]
    BY <1>1 DEF Beaten
  <2>2. PICK new : new = Beaten(row, n)
    OBVIOUS
  <2>3. /\ new \in Rows /\ new.status = "draining" /\ new.seen = "fresh" /\ new.sequence = n
        /\ new.enabled = row.enabled /\ new.drain = row.drain
    BY <2>1, <2>2 DEF Rows
  <2>4. Honoured(new)
    BY <1>1, <2>3 DEF Honoured
  <2> QED
    BY <1>0, <2>2, <2>3, <2>4 DEF GoodRow
<1>2. CASE ~row.drain
  <2>1. Beaten(row, n) = [row EXCEPT !.sequence = n, !.seen = "fresh", !.status = "online"]
    BY <1>2 DEF Beaten
  <2>2. PICK new : new = Beaten(row, n)
    OBVIOUS
  <2>3. /\ new \in Rows /\ new.status = "online" /\ new.seen = "fresh" /\ new.sequence = n
        /\ new.enabled = row.enabled /\ new.drain = row.drain
    BY <2>1, <2>2 DEF Rows
  <2>4. Honoured(new)
    BY <1>2, <2>3 DEF Honoured
  <2> QED
    BY <1>0, <2>2, <2>3, <2>4 DEF GoodRow
<1> QED
  BY <1>1, <1>2

\* An update (UpdateServer) never makes a server available that has not been seen.
LEMMA UpdatedIsGood ==
    ASSUME NEW row \in Rows, NEW enable \in Switches, NEW draining \in Switches,
           Honoured(row), row.status # "absent"
    PROVE  GoodRow(row, Updated(row, enable, draining))
<1> DEFINE enabled == Given(enable, row.enabled)
           drain == Given(draining, row.drain)
           status == IF ~enabled THEN "offline"
                     ELSE IF drain /\ row.status = "online" THEN "draining"
                     ELSE IF ~drain /\ row.status = "draining"
                          THEN IF row.seen = "fresh" THEN "online" ELSE "offline"
                     ELSE row.status
<1>1. enabled \in BOOLEAN /\ drain \in BOOLEAN
  BY DEF Given, Rows
<1>2. Updated(row, enable, draining) =
        [row EXCEPT !.enabled = enabled, !.drain = enabled /\ drain, !.status = status]
  BY DEF Updated
<1>3. /\ status \in {"pending", "online", "offline", "draining"}
      /\ status = "online" => enabled /\ ~drain /\ (row.status = "online" \/ row.seen = "fresh")
      /\ status = "draining" => enabled /\ drain /\ row.status # "offline"
  <2>1. row.status \in {"pending", "online", "offline", "draining"}
    BY DEF Rows
  <2> QED
    BY <2>1
<1> HIDE DEF enabled, drain, status
<1>4. /\ (enabled /\ drain) \in BOOLEAN
      /\ row.sequence \in Int /\ row.sequence <= row.sequence
  BY <1>1, RegistryAssumption DEF Rows
<1>5. PICK new : new = Updated(row, enable, draining)
  OBVIOUS
<1>6. /\ new \in Rows /\ new.status = status /\ new.enabled = enabled /\ new.drain = (enabled /\ drain)
      /\ new.sequence = row.sequence /\ new.seen = row.seen
  BY <1>1, <1>2, <1>3, <1>4, <1>5 DEF Rows
<1>7. Honoured(new)
  BY <1>3, <1>6 DEF Honoured
<1> QED
  BY <1>3, <1>4, <1>5, <1>6, <1>7 DEF GoodRow

\* A row marked offline, or seen too long ago, is a good row.
LEMMA SilencedIsGood ==
    ASSUME NEW row \in Rows, Honoured(row)
    PROVE  /\ GoodRow(row, row)
           /\ row.status # "absent" => GoodRow(row, [row EXCEPT !.status = "offline"])
           /\ GoodRow(row, [row EXCEPT !.seen = "stale"])
<1>1. row.sequence \in Int /\ row.sequence <= row.sequence
  BY RegistryAssumption DEF Rows
<1> QED
  BY <1>1 DEF GoodRow, Honoured, Rows

-----------------------------------------------------------------------------
(* One step.                                                               *)

\* Statements on the table of servers: every one but an enrolment makes good rows.
LEMMA RowsStep ==
    ASSUME RegistryInv, [RegistryNext]_registryVars, ~\E t \in Enrolments : Enroll(t)
    PROVE  /\ hosts' \in [Hosts -> Rows]
           /\ \A h \in Hosts : GoodRow(hosts[h], hosts'[h])
<1>0. /\ hosts \in [Hosts -> Rows] /\ \A h \in Hosts : Honoured(hosts[h])
      /\ \A h \in Hosts : GoodRow(hosts[h], hosts[h])
  <2>1. hosts \in [Hosts -> Rows] /\ \A h \in Hosts : Honoured(hosts[h])
    BY DEF RegistryInv, RegistryTypeOK, StatusHonoursRequests, Rows, Honoured
  <2> QED
    BY <2>1, SilencedIsGood
<1>1. ASSUME NEW h \in Hosts, NEW new, GoodRow(hosts[h], new), hosts' = [hosts EXCEPT ![h] = new]
      PROVE  /\ hosts' \in [Hosts -> Rows]
             /\ \A g \in Hosts : GoodRow(hosts[g], hosts'[g])
  <2>1. new \in Rows
    BY <1>1 DEF GoodRow
  <2>2. \A g \in Hosts : hosts'[g] = IF g = h THEN new ELSE hosts[g]
    BY <1>0, <1>1
  <2> QED
    BY <1>0, <1>1, <2>1, <2>2
<1>2. ASSUME NEW a \in Admins, NEW h \in Hosts, Revoke(a, h)
      PROVE  \E new : GoodRow(hosts[h], new) /\ hosts' = [hosts EXCEPT ![h] = new]
  <2>1. GoodRow(hosts[h], [hosts[h] EXCEPT !.status = "offline"])
    BY <1>0, <1>2, SilencedIsGood DEF Revoke
  <2>2. hosts' = [hosts EXCEPT ![h] = [hosts[h] EXCEPT !.status = "offline"]]
    BY <1>2 DEF Revoke, RevokeServerCredentials
  <2> QED
    BY <2>1, <2>2
<1>3. ASSUME NEW a \in Admins, NEW h \in Hosts, NEW e \in Switches, NEW d \in Switches, UpdateServer(a, h, e, d)
      PROVE  \E new : GoodRow(hosts[h], new) /\ hosts' = [hosts EXCEPT ![h] = new]
  <2>1. GoodRow(hosts[h], Updated(hosts[h], e, d))
    BY <1>0, <1>3, UpdatedIsGood DEF UpdateServer
  <2>2. hosts' = [hosts EXCEPT ![h] = Updated(hosts[h], e, d)]
    BY <1>3 DEF UpdateServer
  <2> QED
    BY <2>1, <2>2
<1>4. ASSUME NEW k \in Connections, AcceptHeartbeat(k), hosts' # hosts
      PROVE  \E h \in Hosts : \E new : GoodRow(hosts[h], new) /\ hosts' = [hosts EXCEPT ![h] = new]
  <2> DEFINE h == connections[k].host
             n == connections[k].inbox
  <2>1. Saveable(h, n) /\ SaveHeartbeat(h, n) /\ connections[k].phase # "free"
    BY <1>4 DEF AcceptHeartbeat, Served
  <2>2. h \in Hosts /\ hosts[h].status # "absent" /\ n \in 0..MaxSequence
    BY <2>1 DEF RegistryInv, RegistryTypeOK, LinkInv, Enrolled
  <2>3. GoodRow(hosts[h], Beaten(hosts[h], n))
    BY <1>0, <2>1, <2>2, BeatenIsGood DEF Saveable
  <2> QED
    BY <2>1, <2>2, <2>3 DEF SaveHeartbeat
<1>5. ASSUME NEW h \in Hosts, SeenGetsStale(h)
      PROVE  \E new : GoodRow(hosts[h], new) /\ hosts' = [hosts EXCEPT ![h] = new]
  <2>1. GoodRow(hosts[h], [hosts[h] EXCEPT !.seen = "stale"])
    BY <1>0, SilencedIsGood
  <2>2. hosts' = [hosts EXCEPT ![h] = [hosts[h] EXCEPT !.seen = "stale"]]
    BY <1>5 DEF SeenGetsStale
  <2> QED
    BY <2>1, <2>2
<1>6. CASE MarkOfflineBefore
  <2>1. \A g \in Hosts : hosts'[g] = IF g \in Overdue THEN [hosts[g] EXCEPT !.status = "offline"] ELSE hosts[g]
    BY <1>6 DEF MarkOfflineBefore
  <2>2. \A g \in Hosts : GoodRow(hosts[g], hosts'[g])
    <3> SUFFICES ASSUME NEW g \in Hosts PROVE GoodRow(hosts[g], hosts'[g])
      OBVIOUS
    <3>1. CASE g \in Overdue
      <4>1. hosts[g].status # "absent" /\ hosts'[g] = [hosts[g] EXCEPT !.status = "offline"]
        BY <2>1, <3>1 DEF Overdue
      <4>2. GoodRow(hosts[g], [hosts[g] EXCEPT !.status = "offline"])
        BY <1>0, <4>1, SilencedIsGood
      <4> QED
        BY <4>1, <4>2
    <3>2. CASE g \notin Overdue
      BY <1>0, <2>1, <3>2
    <3> QED
      BY <3>1, <3>2
  <2>3. hosts' \in [Hosts -> Rows]
    <3>1. \A g \in Hosts : hosts'[g] \in Rows
      BY <2>2 DEF GoodRow
    <3>2. hosts' = [g \in Hosts |-> hosts'[g]]
      BY <1>6 DEF MarkOfflineBefore
    <3> QED
      BY <3>1, <3>2
  <2> QED
    BY <2>2, <2>3
<1>7. CASE UNCHANGED hosts
  BY <1>0, <1>7
<1>8. \/ UNCHANGED hosts \/ MarkOfflineBefore
      \/ \E a \in Admins, h \in Hosts : Revoke(a, h)
      \/ \E a \in Admins, h \in Hosts, e, d \in Switches : UpdateServer(a, h, e, d)
      \/ \E k \in Connections : AcceptHeartbeat(k)
      \/ \E h \in Hosts : SeenGetsStale(h)
  <2>1. CASE Manage
    BY <2>1 DEF Manage, CreateEnrollmentToken, TokenExpires, Rotate, FinishRequest, ApiRestarts, rowVars
  <2>2. CASE Connect
    BY <2>2 DEF Connect, Authenticate, Register, SendHeartbeat, Unregister, rowVars
  <2>3. CASE OfflineLoop
    BY <2>3 DEF OfflineLoop, PublishFails, ReconcileOffline, rowVars
  <2> QED
    BY <2>1, <2>2, <2>3 DEF RegistryNext, registryVars
<1>9. \/ UNCHANGED hosts \/ MarkOfflineBefore
      \/ \E h \in Hosts : \E new : GoodRow(hosts[h], new) /\ hosts' = [hosts EXCEPT ![h] = new]
  BY <1>2, <1>3, <1>4, <1>5, <1>8
<1> QED
  BY <1>1, <1>6, <1>7, <1>9

\* An enrolment adds one server, with a token and a credential of its own (ConsumeEnrollmentToken).
LEMMA EnrollStep ==
    ASSUME RegistryInv, NEW t \in Enrolments, Enroll(t)
    PROVE  \E h \in Hosts, c \in Credentials :
             /\ h \notin Enrolled /\ identities[c].state = "unused" /\ t \notin UsedTokens
             /\ hosts' \in [Hosts -> Rows]
             /\ \A g \in Hosts : g # h => hosts'[g] = hosts[g]
             /\ hosts'[h] = [hosts[h] EXCEPT !.status = "pending"]
             /\ Enrolled' = Enrolled \cup {h} /\ UsedTokens' = UsedTokens \cup {t}
             /\ enrolments' \in [Enrolments -> {"unissued", "issued", "expired", "used"}]
             /\ identities' = [identities EXCEPT ![c] = [host |-> h, state |-> "active"]]
<1>1. PICK h \in Hosts, c \in Credentials :
        /\ hosts[h].status = "absent" /\ identities[c].state = "unused"
        /\ ConsumeEnrollmentToken(t, h, c)
  BY DEF Enroll
<1>2. hosts \in [Hosts -> Rows] /\ enrolments \in [Enrolments -> {"unissued", "issued", "expired", "used"}]
  BY DEF RegistryInv, RegistryTypeOK, Rows
<1>3. /\ hosts' = [hosts EXCEPT ![h].status = "pending"]
      /\ enrolments[t] = "issued" /\ enrolments' = [enrolments EXCEPT ![t] = "used"]
      /\ identities' = [identities EXCEPT ![c] = [host |-> h, state |-> "active"]]
  BY <1>1 DEF ConsumeEnrollmentToken
<1>4. /\ hosts' \in [Hosts -> Rows]
      /\ \A g \in Hosts : g # h => hosts'[g] = hosts[g]
      /\ hosts'[h] = [hosts[h] EXCEPT !.status = "pending"]
  BY <1>2, <1>3 DEF Rows
<1>5. Enrolled' = Enrolled \cup {h} /\ h \notin Enrolled
  BY <1>1, <1>2, <1>4 DEF Enrolled, Rows
<1>6. /\ UsedTokens' = UsedTokens \cup {t} /\ t \notin UsedTokens
      /\ enrolments' \in [Enrolments -> {"unissued", "issued", "expired", "used"}]
  BY <1>2, <1>3 DEF UsedTokens
<1> QED
  BY <1>1, <1>3, <1>4, <1>5, <1>6

\* Rows after any step: well formed, never contradicting what was asked for, never un-enrolled, with a
\* sequence that never falls.
LEMMA HostsStep ==
    ASSUME RegistryInv, [RegistryNext]_registryVars
    PROVE  /\ hosts' \in [Hosts -> Rows] /\ StatusHonoursRequests'
           /\ Enrolled \subseteq Enrolled'
           /\ \A h \in Hosts : hosts[h].sequence <= hosts'[h].sequence
           /\ \A h \in Hosts :
                \/ hosts[h].status # "online" /\ hosts'[h].status = "online"
                \/ hosts[h].status = "offline" /\ hosts'[h].status = "draining"
                => hosts'[h].seen = "fresh"
<1>0. hosts \in [Hosts -> Rows] /\ StatusHonoursRequests
  BY DEF RegistryInv, RegistryTypeOK, Rows
<1>1. CASE ~\E t \in Enrolments : Enroll(t)
  <2>1. hosts' \in [Hosts -> Rows] /\ \A h \in Hosts : GoodRow(hosts[h], hosts'[h])
    BY <1>1, RowsStep
  <2> QED
    BY <2>1 DEF GoodRow, Honoured, StatusHonoursRequests, Enrolled
<1>2. ASSUME NEW t \in Enrolments, Enroll(t)
      PROVE  /\ hosts' \in [Hosts -> Rows] /\ StatusHonoursRequests' /\ Enrolled \subseteq Enrolled'
             /\ \A h \in Hosts : hosts[h].sequence <= hosts'[h].sequence
             /\ \A h \in Hosts :
                  \/ hosts[h].status # "online" /\ hosts'[h].status = "online"
                  \/ hosts[h].status = "offline" /\ hosts'[h].status = "draining"
                  => hosts'[h].seen = "fresh"
  <2>1. PICK h \in Hosts :
          /\ hosts' \in [Hosts -> Rows] /\ Enrolled' = Enrolled \cup {h}
          /\ \A g \in Hosts : g # h => hosts'[g] = hosts[g]
          /\ hosts'[h] = [hosts[h] EXCEPT !.status = "pending"]
    BY <1>2, EnrollStep
  <2>2. /\ hosts'[h].status = "pending" /\ hosts'[h].sequence = hosts[h].sequence
        /\ \A g \in Hosts : hosts[g].sequence \in Int
    BY <1>0, <2>1, RegistryAssumption DEF Rows
  <2> QED
    <3>1. \A g \in Hosts : hosts'[g] = hosts[g] \/ (hosts'[g].status = "pending" /\ hosts'[g].sequence = hosts[g].sequence)
      BY <2>1, <2>2
    <3>2. StatusHonoursRequests'
      BY <1>0, <3>1 DEF StatusHonoursRequests
    <3>3. \A g \in Hosts : hosts[g].sequence <= hosts'[g].sequence
      BY <2>2, <3>1
    <3> QED
      BY <2>1, <3>1, <3>2, <3>3
<1> QED
  BY <1>1, <1>2

\* Servers and used tokens are counted up together.
LEMMA TokenStep ==
    ASSUME RegistryInv, [RegistryNext]_registryVars
    PROVE  /\ enrolments' \in [Enrolments -> {"unissued", "issued", "expired", "used"}]
           /\ TokenInv'
<1>0. /\ enrolments \in [Enrolments -> {"unissued", "issued", "expired", "used"}] /\ TokenInv
      /\ hosts \in [Hosts -> Rows]
  BY DEF RegistryInv, RegistryTypeOK, Rows
<1>1. ASSUME NEW t \in Enrolments, Enroll(t)
      PROVE  /\ enrolments' \in [Enrolments -> {"unissued", "issued", "expired", "used"}] /\ TokenInv'
  <2>1. PICK h \in Hosts :
          /\ h \notin Enrolled /\ t \notin UsedTokens
          /\ Enrolled' = Enrolled \cup {h} /\ UsedTokens' = UsedTokens \cup {t}
          /\ enrolments' \in [Enrolments -> {"unissued", "issued", "expired", "used"}]
    BY <1>1, EnrollStep
  <2>2. /\ IsFiniteSet(Enrolled \cup {h}) /\ IsFiniteSet(UsedTokens \cup {t})
        /\ Cardinality(Enrolled \cup {h}) = Cardinality(UsedTokens \cup {t})
    <3>1. IsFiniteSet(Enrolled \cup {h}) /\ Cardinality(Enrolled \cup {h}) = Cardinality(Enrolled) + 1
      BY <1>0, <2>1, FS_AddElement DEF TokenInv
    <3>2. IsFiniteSet(UsedTokens \cup {t}) /\ Cardinality(UsedTokens \cup {t}) = Cardinality(UsedTokens) + 1
      BY <1>0, <2>1, FS_AddElement DEF TokenInv
    <3> QED
      BY <1>0, <3>1, <3>2 DEF TokenInv
  <2> QED
    BY <2>1, <2>2 DEF TokenInv
<1>2. CASE ~\E t \in Enrolments : Enroll(t)
  <2>1. \A h \in Hosts : GoodRow(hosts[h], hosts'[h])
    BY <1>2, RowsStep
  <2>2. Enrolled' = Enrolled
    BY <2>1 DEF GoodRow, Enrolled
  <2>3. /\ enrolments' \in [Enrolments -> {"unissued", "issued", "expired", "used"}]
        /\ UsedTokens' = UsedTokens
    <3>1. \/ UNCHANGED enrolments
          \/ \E t \in Enrolments : CreateEnrollmentToken(t) \/ TokenExpires(t)
      BY <1>2 DEF RegistryNext, registryVars, Manage, Connect, OfflineLoop, Rotate, Revoke, UpdateServer,
         FinishRequest, ApiRestarts, Authenticate, Register, SendHeartbeat, Unregister, AcceptHeartbeat,
         MarkOfflineBefore, PublishFails, ReconcileOffline, SeenGetsStale, rowVars
    <3> QED
      BY <1>0, <3>1 DEF UsedTokens, CreateEnrollmentToken, TokenExpires
  <2> QED
    BY <1>0, <2>2, <2>3 DEF TokenInv
<1> QED
  BY <1>1, <1>2

\* What the statements of one server's credentials leave in place.
LEMMA RestateKeeps ==
    ASSUME identities \in [Credentials -> Identities], NEW h \in Hosts,
           NEW from \in SUBSET {"pending", "active"}
    PROVE  /\ Restate(h, from, "revoked") \in [Credentials -> Identities]
           /\ \A c \in Credentials :
                /\ Restate(h, from, "revoked")[c].host = identities[c].host
                /\ IF identities[c].host = h /\ identities[c].state \in from
                   THEN Restate(h, from, "revoked")[c].state = "revoked"
                   ELSE Restate(h, from, "revoked")[c] = identities[c]
BY DEF Restate, Identities

\* Rotation, activation and revocation keep one active and one pending credential for each server.
LEMMA IdentityStep ==
    ASSUME RegistryInv, [RegistryNext]_registryVars
    PROVE  /\ identities' \in [Credentials -> Identities] /\ CredentialInv'
           /\ \A c \in Credentials : identities'[c].state # "unused" => identities'[c].host \in Enrolled'
<1>0. /\ identities \in [Credentials -> Identities] /\ CredentialInv
      /\ \A c \in Credentials : identities[c].state # "unused" => identities[c].host \in Enrolled
      /\ Enrolled \subseteq Enrolled' /\ Enrolled \subseteq Hosts
  BY HostsStep DEF RegistryInv, RegistryTypeOK, Identities, LinkInv, Enrolled
<1> DEFINE Good(new) == /\ new \in [Credentials -> Identities]
                        /\ \A c, d \in Credentials :
                             new[c] = new[d] /\ new[c].state \in {"active", "pending"} => c = d
                        /\ \A c \in Credentials : new[c].state # "unused" => new[c].host \in Enrolled'
<1>1. ASSUME NEW t \in Enrolments, Enroll(t) PROVE Good(identities')
  <2>1. PICK h \in Hosts, c \in Credentials :
          /\ h \notin Enrolled /\ identities[c].state = "unused" /\ Enrolled' = Enrolled \cup {h}
          /\ identities' = [identities EXCEPT ![c] = [host |-> h, state |-> "active"]]
    BY <1>1, EnrollStep
  <2>2. \A d \in Credentials : identities'[d] = IF d = c THEN [host |-> h, state |-> "active"] ELSE identities[d]
    BY <1>0, <2>1
  <2>3. \A d \in Credentials : identities[d] # [host |-> h, state |-> "active"]
    BY <1>0, <2>1
  <2>4. identities' \in [Credentials -> Identities]
    BY <1>0, <2>1 DEF Identities
  <2> QED
    BY <1>0, <2>1, <2>2, <2>3, <2>4 DEF CredentialInv
<1>2. ASSUME NEW h \in Hosts, Rotate(h) PROVE Good(identities')
  <2>1. PICK c \in Credentials : identities[c].state = "unused" /\ CreatePendingIdentity(h, c)
    BY <1>2 DEF Rotate
  <2>2. PICK base : base = Restate(h, {"pending"}, "revoked")
    OBVIOUS
  <2>3. /\ base \in [Credentials -> Identities]
        /\ \A d \in Credentials : /\ base[d].host = identities[d].host
                                  /\ IF identities[d].host = h /\ identities[d].state \in {"pending"}
                                     THEN base[d].state = "revoked" ELSE base[d] = identities[d]
    BY <1>0, <2>2, RestateKeeps
  <2>4. /\ identities' = [base EXCEPT ![c] = [host |-> h, state |-> "pending"]]
        /\ h \in Enrolled
    BY <1>2, <2>1, <2>2 DEF CreatePendingIdentity, Rotate, Enrolled
  <2>5. /\ identities' \in [Credentials -> Identities]
        /\ \A d \in Credentials : identities'[d] = IF d = c THEN [host |-> h, state |-> "pending"] ELSE base[d]
    BY <2>3, <2>4 DEF Identities
  <2>6. \A d \in Credentials : base[d] # [host |-> h, state |-> "pending"]
    BY <2>3
  <2>7. \A d \in Credentials : base[d].state \in {"active", "pending"} => base[d] = identities[d]
    BY <2>3
  <2> QED
    BY <1>0, <2>3, <2>4, <2>5, <2>6, <2>7 DEF CredentialInv
<1>3. ASSUME NEW a \in Admins, NEW h \in Hosts, Revoke(a, h) PROVE Good(identities')
  <2>1. identities' = Restate(h, {"pending", "active"}, "revoked")
    BY <1>3 DEF Revoke, RevokeServerCredentials
  <2>2. PICK base : base = Restate(h, {"pending", "active"}, "revoked")
    OBVIOUS
  <2>3. /\ base \in [Credentials -> Identities]
        /\ \A d \in Credentials : /\ base[d].host = identities[d].host
                                  /\ IF identities[d].host = h /\ identities[d].state \in {"pending", "active"}
                                     THEN base[d].state = "revoked" ELSE base[d] = identities[d]
    BY <1>0, <2>2, RestateKeeps
  <2>4. \A d \in Credentials : base[d].state \in {"active", "pending"} => base[d] = identities[d]
    BY <2>3
  <2> QED
    BY <1>0, <2>1, <2>2, <2>3, <2>4 DEF CredentialInv
<1>4. ASSUME NEW k \in Connections, NEW c \in Credentials, Authenticate(k, c) PROVE Good(identities')
  <2>1. /\ identities[c].state \in {"pending", "active"} /\ identities' = Activated(c)
        /\ identities[c].host \in Enrolled
    BY <1>0, <1>4 DEF Authenticate, FindServerByCredentialHash
  <2>2. CASE identities[c].state # "pending"
    <3>1. identities' = identities
      BY <2>1, <2>2 DEF Activated
    <3> QED
      BY <1>0, <3>1 DEF CredentialInv
  <2>3. CASE identities[c].state = "pending"
    <3> DEFINE h == identities[c].host
    <3>2. PICK base : base = Restate(h, {"pending", "active"}, "revoked")
      OBVIOUS
    <3>3. h \in Hosts
      BY <1>0, <2>1
    <3> HIDE DEF h
    <3>4. /\ base \in [Credentials -> Identities]
          /\ \A d \in Credentials : /\ base[d].host = identities[d].host
                                    /\ IF identities[d].host = h /\ identities[d].state \in {"pending", "active"}
                                       THEN base[d].state = "revoked" ELSE base[d] = identities[d]
      BY <1>0, <3>2, <3>3, RestateKeeps
    <3>5. identities' = [base EXCEPT ![c].state = "active"] /\ identities[c].host = h
      BY <2>1, <2>3, <3>2 DEF Activated, h
    <3>6. /\ identities' \in [Credentials -> Identities]
          /\ \A d \in Credentials : d # c => identities'[d] = base[d]
          /\ identities'[c].state = "active" /\ identities'[c].host = h
      BY <3>4, <3>5 DEF Identities
    <3>7. \A d \in Credentials : base[d].state \in {"active", "pending"} =>
                                   base[d] = identities[d] /\ base[d].host # h
      BY <3>4
    <3> QED
      <4>1. \A d \in Credentials : identities'[d].state # "unused" => identities'[d].host \in Enrolled'
        <5> SUFFICES ASSUME NEW d \in Credentials, identities'[d].state # "unused" PROVE identities'[d].host \in Enrolled
          BY <1>0
        <5>1. CASE d = c
          BY <2>1, <3>5, <3>6, <5>1
        <5>2. CASE d # c
          <6>1. identities'[d] = base[d] /\ identities[d].state # "unused" /\ base[d].host = identities[d].host
            BY <3>4, <3>6, <5>2
          <6> QED
            BY <1>0, <6>1
        <5> QED
          BY <5>1, <5>2
      <4>2. ASSUME NEW d \in Credentials, NEW e \in Credentials,
                   identities'[d] = identities'[e], identities'[d].state \in {"active", "pending"}
            PROVE  d = e
        <5>1. CASE d = c \/ e = c
          BY <3>6, <3>7, <4>2, <5>1
        <5>2. CASE d # c /\ e # c
          BY <1>0, <3>6, <3>7, <4>2, <5>2 DEF CredentialInv
        <5> QED
          BY <5>1, <5>2
      <4> QED
        BY <3>6, <4>1, <4>2
  <2> QED
    BY <2>2, <2>3
<1>5. ASSUME UNCHANGED identities PROVE Good(identities')
  BY <1>0, <1>5 DEF CredentialInv
<1> HIDE DEF Good
<1>6. \/ UNCHANGED identities
      \/ \E t \in Enrolments : Enroll(t)
      \/ \E h \in Hosts : Rotate(h)
      \/ \E a \in Admins, h \in Hosts : Revoke(a, h)
      \/ \E k \in Connections, c \in Credentials : Authenticate(k, c)
  <2>1. CASE Manage
    BY <2>1 DEF Manage, CreateEnrollmentToken, TokenExpires, UpdateServer, FinishRequest, ApiRestarts, rowVars
  <2>2. CASE Connect
    BY <2>2 DEF Connect, Register, SendHeartbeat, Unregister, AcceptHeartbeat, rowVars
  <2>3. CASE OfflineLoop
    BY <2>3 DEF OfflineLoop, MarkOfflineBefore, PublishFails, ReconcileOffline, rowVars
  <2>4. ASSUME NEW h \in Hosts, SeenGetsStale(h) PROVE UNCHANGED identities
    BY <2>4 DEF SeenGetsStale
  <2> QED
    BY <2>1, <2>2, <2>3, <2>4 DEF RegistryNext, registryVars
<1>7. Good(identities')
  BY <1>1, <1>2, <1>3, <1>4, <1>5, <1>6
<1> QED
  BY <1>7 DEF CredentialInv, Good

\* Connections stay well formed, and of enrolled servers.
LEMMA ConnectionStep ==
    ASSUME RegistryInv, [RegistryNext]_registryVars
    PROVE  /\ connections' \in [Connections -> Handlers]
           /\ \A k \in Connections : connections'[k].phase # "free" => connections'[k].host \in Enrolled'
<1>0. /\ connections \in [Connections -> Handlers]
      /\ \A k \in Connections : connections[k].phase # "free" => connections[k].host \in Enrolled
      /\ Enrolled \subseteq Enrolled' /\ Enrolled \subseteq Hosts
  BY HostsStep DEF RegistryInv, RegistryTypeOK, Handlers, LinkInv, Enrolled
<1>1. Unconnected \in Handlers /\ Unconnected.phase = "free"
  BY RegistryAssumption DEF Unconnected, Handlers
<1> DEFINE Good(k, new) == new \in Handlers /\ (new.phase # "free" => new.host \in Enrolled)
<1>2. ASSUME NEW k \in Connections, NEW new, Good(k, new), connections' = [connections EXCEPT ![k] = new]
      PROVE  /\ connections' \in [Connections -> Handlers]
             /\ \A j \in Connections : connections'[j].phase # "free" => connections'[j].host \in Enrolled'
  BY <1>0, <1>2
<1>3. ASSUME NEW k \in Connections, NEW c \in Credentials, Authenticate(k, c)
      PROVE  \E new : Good(k, new) /\ connections' = [connections EXCEPT ![k] = new]
  <2>1. PICK floor \in 0..MaxSequence - 1 :
          connections' = [connections EXCEPT ![k] =
            [phase |-> "authenticated", host |-> identities[c].host, credential |-> c,
             sequence |-> floor, inbox |-> 0]]
    BY <1>3 DEF Authenticate
  <2>2. identities[c].host \in Enrolled
    BY <1>3 DEF Authenticate, FindServerByCredentialHash, RegistryInv, LinkInv
  <2>3. floor \in 0..MaxSequence /\ 0 \in 0..MaxSequence
    BY RegistryAssumption
  <2>4. Good(k, [phase |-> "authenticated", host |-> identities[c].host, credential |-> c,
                 sequence |-> floor, inbox |-> 0])
    BY <1>0, <2>2, <2>3 DEF Handlers
  <2> QED
    BY <2>1, <2>4
<1>4. ASSUME NEW k \in Connections, Register(k)
      PROVE  \E new : Good(k, new) /\ connections' = [connections EXCEPT ![k] = new]
  <2>1. PICK p \in {"closing", "registered"} : connections' = [connections EXCEPT ![k].phase = p]
    BY <1>4 DEF Register
  <2>2. /\ connections' = [connections EXCEPT ![k] = [connections[k] EXCEPT !.phase = p]]
        /\ Good(k, [connections[k] EXCEPT !.phase = p])
    <3>1. connections' = [connections EXCEPT ![k] = [connections[k] EXCEPT !.phase = p]]
      BY <2>1
    <3>2. connections[k] \in Handlers /\ connections[k].phase # "free"
      BY <1>0, <1>4 DEF Register
    <3>3. PICK new : new = [connections[k] EXCEPT !.phase = p]
      OBVIOUS
    <3>4. new \in Handlers /\ new.phase # "free" /\ new.host = connections[k].host
      BY <3>2, <3>3 DEF Handlers
    <3> QED
      BY <1>0, <3>1, <3>2, <3>3, <3>4
  <2> QED
    BY <2>2
<1>5. ASSUME NEW k \in Connections, SendHeartbeat(k)
      PROVE  \E new : Good(k, new) /\ connections' = [connections EXCEPT ![k] = new]
  <2>1. connections[k] \in Handlers /\ connections[k].sequence + 1 \in 0..MaxSequence
    BY <1>0, <1>5, RegistryAssumption DEF SendHeartbeat, Handlers
  <2> DEFINE new == [connections[k] EXCEPT !.sequence = connections[k].sequence + 1,
                                           !.inbox = connections[k].sequence + 1]
  <2>2. connections' = [connections EXCEPT ![k] = new]
    BY <1>0, <1>5 DEF SendHeartbeat, Handlers
  <2>3. Good(k, new)
    BY <1>0, <2>1 DEF Handlers
  <2> QED
    BY <2>2, <2>3
<1>6. ASSUME NEW k \in Connections, AcceptHeartbeat(k)
      PROVE  \E new : Good(k, new) /\ connections' = [connections EXCEPT ![k] = new]
  <2>1. /\ connections' = [connections EXCEPT ![k] = [connections[k] EXCEPT !.inbox = 0]]
        /\ 0 \in 0..MaxSequence
    BY <1>6, RegistryAssumption DEF AcceptHeartbeat
  <2>2. Good(k, [connections[k] EXCEPT !.inbox = 0])
    BY <1>0, <2>1 DEF Handlers
  <2> QED
    BY <2>1, <2>2
<1>7. CASE ApiRestarts
  BY <1>1, <1>7 DEF ApiRestarts
<1>8. ASSUME NEW h, connections' = Disconnected(h)
      PROVE  /\ connections' \in [Connections -> Handlers]
             /\ \A k \in Connections : connections'[k].phase # "free" => connections'[k].host \in Enrolled'
  BY <1>0, <1>8 DEF Disconnected, Handlers
<1>9. CASE UNCHANGED connections
  BY <1>0, <1>9
<1>10. \/ UNCHANGED connections \/ ApiRestarts
       \/ \E h : connections' = Disconnected(h)
       \/ \E k \in Connections, c \in Credentials : Authenticate(k, c)
       \/ \E k \in Connections :
            \/ Register(k) \/ SendHeartbeat(k) \/ AcceptHeartbeat(k)
            \/ connections' = [connections EXCEPT ![k] = Unconnected]
  BY DEF RegistryNext, registryVars, Manage, Connect, OfflineLoop, CreateEnrollmentToken, TokenExpires, Enroll,
         Rotate, Revoke, UpdateServer, FinishRequest, SetServerEnabled, Disconnect, Unregister,
         MarkOfflineBefore, PublishFails, ReconcileOffline, SeenGetsStale, hubVars
<1>11. \/ UNCHANGED connections \/ ApiRestarts
       \/ \E h : connections' = Disconnected(h)
       \/ \E k \in Connections : \E new : Good(k, new) /\ connections' = [connections EXCEPT ![k] = new]
  BY <1>1, <1>3, <1>4, <1>5, <1>6, <1>10
<1> QED
  BY <1>2, <1>7, <1>8, <1>9, <1>11

\* The cached sequence never runs ahead of the row's, which never falls.
LEMMA CacheStep ==
    ASSUME RegistryInv, [RegistryNext]_registryVars
    PROVE  latest' \in [Hosts -> 0..MaxSequence \cup {Unloaded}] /\ CacheNeverAhead'
<1>0. /\ latest \in [Hosts -> 0..MaxSequence \cup {Unloaded}] /\ CacheNeverAhead
      /\ hosts \in [Hosts -> Rows] /\ hosts' \in [Hosts -> Rows]
      /\ \A h \in Hosts : hosts[h].sequence <= hosts'[h].sequence
      /\ \A h \in Hosts : hosts[h].sequence \in 0..MaxSequence /\ hosts'[h].sequence \in 0..MaxSequence
  <2>1. /\ latest \in [Hosts -> 0..MaxSequence \cup {Unloaded}] /\ CacheNeverAhead
        /\ hosts \in [Hosts -> Rows]
    BY DEF RegistryInv, RegistryTypeOK, Rows
  <2> QED
    BY <2>1, HostsStep DEF Rows
<1>1. ASSUME NEW k \in Connections, AcceptHeartbeat(k)
      PROVE  latest' \in [Hosts -> 0..MaxSequence \cup {Unloaded}] /\ CacheNeverAhead'
  <2> DEFINE h == connections[k].host
             n == connections[k].inbox
             known == IF latest[h] = Unloaded THEN LatestHeartbeatSequence(h) ELSE latest[h]
  <2>1. h \in Hosts /\ hosts[h].status # "absent" /\ n \in 0..MaxSequence
    BY <1>1 DEF AcceptHeartbeat, Served, RegistryInv, RegistryTypeOK, LinkInv, Enrolled
  <2>2. known \in 0..MaxSequence /\ known <= hosts[h].sequence
    BY <1>0, <2>1, RegistryAssumption DEF LatestHeartbeatSequence, CacheNeverAhead, Unloaded
  <2>3. \/ hosts' = [hosts EXCEPT ![h] = Beaten(hosts[h], n)] /\ latest' = [latest EXCEPT ![h] = n]
           /\ Saveable(h, n)
        \/ latest' = [latest EXCEPT ![h] = known]
    BY <1>1 DEF AcceptHeartbeat, SaveHeartbeat
  <2> HIDE DEF h, n, known
  <2>4. CASE latest' = [latest EXCEPT ![h] = known]
    BY <1>0, <2>1, <2>2, <2>4, RegistryAssumption DEF CacheNeverAhead, Unloaded
  <2>5. CASE /\ hosts' = [hosts EXCEPT ![h] = Beaten(hosts[h], n)] /\ latest' = [latest EXCEPT ![h] = n]
             /\ Saveable(h, n)
    <3>1. Beaten(hosts[h], n).sequence = n
      BY <1>0, <2>1, <2>5, BeatenIsGood DEF Saveable
    <3>2. hosts'[h].sequence = n
      BY <1>0, <2>1, <2>5, <3>1
    <3> QED
      BY <1>0, <2>1, <2>5, <3>2, RegistryAssumption DEF CacheNeverAhead, Unloaded
  <2> QED
    BY <2>3, <2>4, <2>5
<1>2. CASE ApiRestarts
  BY <1>2 DEF ApiRestarts, CacheNeverAhead
<1>3. CASE UNCHANGED latest
  BY <1>0, <1>3, RegistryAssumption DEF CacheNeverAhead, Unloaded
<1>4. UNCHANGED latest \/ ApiRestarts \/ \E k \in Connections : AcceptHeartbeat(k)
  BY DEF RegistryNext, registryVars, Manage, Connect, OfflineLoop, CreateEnrollmentToken, TokenExpires, Enroll,
         Rotate, Revoke, UpdateServer, FinishRequest, Authenticate, Register, SendHeartbeat, Unregister,
         MarkOfflineBefore, PublishFails, ReconcileOffline, SeenGetsStale
<1> QED
  BY <1>1, <1>2, <1>3, <1>4

\* Requests in progress, the hub's memory and the loop's stay well formed.
LEMMA MemoryStep ==
    ASSUME RegistryInv, [RegistryNext]_registryVars
    PROVE  /\ requests' \in [Admins -> Requests]
           /\ \A a \in Admins : requests'[a] # NoRequest => requests'[a].host \in Hosts
           /\ disabled' \subseteq Hosts /\ lost' \subseteq Hosts /\ doubted' \subseteq Hosts
           /\ registryFaults' \subseteq {"publish", "clock", "restart"} /\ changes' \in Nat
<1>0. /\ requests \in [Admins -> Requests]
      /\ \A a \in Admins : requests[a] # NoRequest => requests[a].host \in Hosts
      /\ disabled \subseteq Hosts /\ lost \subseteq Hosts /\ doubted \subseteq Hosts
      /\ registryFaults \subseteq {"publish", "clock", "restart"} /\ changes \in Nat
      /\ NoRequest \in Requests
  BY DEF RegistryInv, RegistryTypeOK, LinkInv, Requests, NoRequest, Switches
<1>1. /\ registryFaults' = registryFaults
      /\ changes' = changes \/ (changes > 0 /\ changes' = changes - 1)
  BY DEF RegistryNext, registryVars, Manage, Connect, OfflineLoop, CreateEnrollmentToken, TokenExpires, Enroll,
         Rotate, Revoke, UpdateServer, FinishRequest, ApiRestarts, Authenticate, Register, SendHeartbeat,
         Unregister, AcceptHeartbeat, MarkOfflineBefore, PublishFails, ReconcileOffline, SeenGetsStale, loopVars
<1>2. /\ lost' = lost \/ lost' = Overdue \/ lost' = {} \/ \E h : lost' = lost \ {h}
      /\ doubted' = doubted \/ (\E h : doubted' = doubted \ {h}) \/ \E h \in Hosts : doubted' = doubted \cup {h}
  BY DEF RegistryNext, registryVars, Manage, Connect, OfflineLoop, CreateEnrollmentToken, TokenExpires, Enroll,
         Rotate, Revoke, UpdateServer, FinishRequest, ApiRestarts, Authenticate, Register, SendHeartbeat,
         Unregister, AcceptHeartbeat, SaveHeartbeat, MarkOfflineBefore, PublishFails, ReconcileOffline,
         SeenGetsStale, loopVars
<1>3. \/ requests' = requests \/ requests' = [a \in Admins |-> NoRequest]
      \/ \E a \in Admins : requests' = [requests EXCEPT ![a] = NoRequest]
      \/ \E a \in Admins, h \in Hosts, e \in Switches \cup {"disconnect"} :
           requests' = [requests EXCEPT ![a] = [host |-> h, enable |-> e]]
  BY DEF RegistryNext, registryVars, Manage, Connect, OfflineLoop, CreateEnrollmentToken, TokenExpires, Enroll,
         Rotate, Revoke, UpdateServer, FinishRequest, ApiRestarts, Authenticate, Register, SendHeartbeat,
         Unregister, AcceptHeartbeat, MarkOfflineBefore, PublishFails, ReconcileOffline, SeenGetsStale
<1>4. \/ disabled' = disabled \/ disabled' = {}
      \/ \E a \in Admins : /\ requests[a] # NoRequest
                           /\ \/ disabled' = disabled \cup {requests[a].host}
                              \/ disabled' = disabled \ {requests[a].host}
  BY DEF RegistryNext, registryVars, Manage, Connect, OfflineLoop, CreateEnrollmentToken, TokenExpires, Enroll,
         Rotate, Revoke, UpdateServer, FinishRequest, SetServerEnabled, Disconnect, ApiRestarts, Authenticate,
         Register, SendHeartbeat, Unregister, AcceptHeartbeat, MarkOfflineBefore, PublishFails,
         ReconcileOffline, SeenGetsStale, hubVars
<1>5. disabled' \subseteq Hosts /\ lost' \subseteq Hosts /\ doubted' \subseteq Hosts
  BY <1>0, <1>2, <1>4 DEF Overdue
<1>6. /\ requests' \in [Admins -> Requests]
      /\ \A a \in Admins : requests'[a] # NoRequest => requests'[a].host \in Hosts
  BY <1>0, <1>3 DEF Requests
<1>7. changes' \in Nat
  BY <1>0, <1>1
<1> QED
  BY <1>0, <1>1, <1>5, <1>6, <1>7

-----------------------------------------------------------------------------

\* The invariant holds of an empty registry.
LEMMA RegistryInitInv == RegistryInit => RegistryInv
<1> SUFFICES ASSUME RegistryInit PROVE RegistryInv
  OBVIOUS
<1>1. PICK b \in RegistryBudgets : registryFaults = b.faults /\ changes = b.changes
  BY DEF RegistryInit
<1>2. registryFaults \subseteq {"publish", "clock", "restart"} /\ changes \in Nat
  BY <1>1, RegistryAssumption
<1>3. Absent \in Rows /\ Unconnected \in Handlers /\ NoRequest \in Requests
  BY RegistryAssumption DEF Absent, Unconnected, NoRequest, Rows, Handlers, Requests, Switches
<1>4. RegistryTypeOK
  BY <1>2, <1>3 DEF RegistryInit, RegistryTypeOK, Rows, Handlers, Requests
<1>5. LinkInv
  BY DEF RegistryInit, LinkInv, Unconnected
<1>6. Enrolled = {} /\ UsedTokens = {}
  BY DEF RegistryInit, Enrolled, UsedTokens, Absent
<1>7. TokenInv
  BY <1>6, FS_EmptySet DEF TokenInv
<1>8. CredentialInv /\ StatusHonoursRequests /\ CacheNeverAhead
  BY DEF RegistryInit, CredentialInv, StatusHonoursRequests, CacheNeverAhead, Absent
<1> QED
  BY <1>4, <1>5, <1>7, <1>8 DEF RegistryInv

\* Every step of requests, agents, connections and the offline loop keeps the invariant.
LEMMA RegistryStep == RegistryInv /\ [RegistryNext]_registryVars => RegistryInv'
<1> SUFFICES ASSUME RegistryInv, [RegistryNext]_registryVars PROVE RegistryInv'
  OBVIOUS
<1>1. RegistryTypeOK'
  BY HostsStep, TokenStep, IdentityStep, ConnectionStep, CacheStep, MemoryStep
     DEF RegistryTypeOK, Rows, Identities, Handlers, Requests
<1>2. LinkInv'
  BY IdentityStep, ConnectionStep, MemoryStep DEF LinkInv
<1> QED
  BY <1>1, <1>2, HostsStep, TokenStep, IdentityStep, CacheStep DEF RegistryInv

\* A set without two different members has at most one.
LEMMA AtMostOne ==
    ASSUME NEW S, \A x, y \in S : x = y
    PROVE  Cardinality(S) <= 1
<1>1. CASE S = {}
  BY <1>1, FS_EmptySet
<1>2. CASE S # {}
  <2>1. PICK x : x \in S
    BY <1>2
  <2>2. S = {x}
    BY <2>1
  <2> QED
    BY <2>2, FS_Singleton
<1> QED
  BY <1>1, <1>2

\* The registry is sound under every interleaving of heartbeats, enrolment, rotation, management requests,
\* the offline scan and restarts of the API process (internal/server), for any number of each.
THEOREM RegistryStaysSound == RegistrySpec => RegistryIsSound
<1>1. RegistryInv => RegistryTypeOK /\ StatusHonoursRequests /\ OneServerPerToken /\ OneCredentialInUse
                     /\ CacheNeverAhead
  <2> SUFFICES ASSUME RegistryInv PROVE OneServerPerToken /\ OneCredentialInUse
    BY DEF RegistryInv
  <2>1. OneServerPerToken
    BY DEF RegistryInv, TokenInv, Enrolled, UsedTokens, OneServerPerToken
  <2>2. ASSUME NEW h \in Hosts, NEW s \in {"active", "pending"}
        PROVE  Cardinality({c \in Credentials : identities[c] = [host |-> h, state |-> s]}) <= 1
    BY <2>2, AtMostOne DEF RegistryInv, CredentialInv
  <2> QED
    BY <2>1, <2>2 DEF OneCredentialInUse
<1>2. RegistryInv /\ [RegistryNext]_registryVars =>
        [\A h \in Hosts :
           \/ hosts[h].status # "online" /\ hosts'[h].status = "online"
           \/ hosts[h].status = "offline" /\ hosts'[h].status = "draining"
           => hosts'[h].seen = "fresh"]_registryVars
  BY HostsStep
<1>3. RegistrySpec => RegistryInit /\ [][RegistryNext]_registryVars
  BY PTL DEF RegistrySpec
<1> QED
  BY <1>1, <1>2, <1>3, RegistryInitInv, RegistryStep, PTL DEF RegistryIsSound, OnlyFreshBecomesAvailable
=============================================================================
