------------------------ MODULE NotificationsProofs ------------------------
(***************************************************************************)
(* What the outbox and the channel say is true for any number of messages, *)
(* overlapping passes and concurrent updates.  Two facts carry the proof:  *)
(* no two passes hold one row, since a row that is held is not due; and    *)
(* every secret that the configuration does not name is still in the care  *)
(* of an update that will clean up, or was cut.                            *)
(***************************************************************************)
EXTENDS Notifications, TLAPS

Keys == Updates \cup {"none", "first"}
OutboxRows == [status : {"none", "pending", "sending", "retrying", "sent", "failed"}, attempts : Nat, due : BOOLEAN]
Passes == [stage : {"idle", "claimed", "resolved", "success", "failure"}, message : Messages \cup {"none"},
           attempts : Nat, key : Keys]
Calls == [stage : {"webhook", "signing", "new", "save", "cleanup", "done", "cut"}, key : Keys, enabled : BOOLEAN]

OutboxTypes ==
    /\ outbox \in [Messages -> OutboxRows] /\ sender \in [Senders -> Passes]
    /\ delivered \in [Messages -> Nat] /\ unsure \in [Messages -> Nat]

ConfigTypes ==
    /\ config \in [key : Keys, enabled : BOOLEAN] /\ secrets \subseteq Keys \X Halves
    /\ update \in [Updates -> Calls]

Holds(s, m) == sender[s].stage # "idle" /\ sender[s].message = m

\* A pass works on a row of its own, which is not due as long as the pass lasts.
LeaseInv ==
    \A s \in Senders, m \in Messages : Holds(s, m) =>
       /\ outbox[m].status = "sending" /\ ~outbox[m].due /\ outbox[m].attempts = sender[s].attempts
       /\ \A t \in Senders : Holds(t, m) => t = s

\* The posts of a message that count: recorded, or about to be by the pass that holds its row.
Counted(m) == outbox[m].status = "sent" \/ \E s \in Senders : Holds(s, m) /\ sender[s].stage = "success"

PostInv ==
    \A m \in Messages :
       /\ ~Counted(m) => delivered[m] <= unsure[m]
       /\ Counted(m) => delivered[m] <= 1 + unsure[m] /\ delivered[m] > 0
       /\ outbox[m].status = "failed" => outbox[m].attempts >= MaxDeliveryAttempts

\* A call that saves its own key, or still has to clean up, or was cut, answers for secrets.
InCare(k) ==
    \/ \E u \in Updates : update[u].stage \in {"cleanup", "cut"}
    \/ \E u \in Updates : u = k /\ update[u].stage \in {"signing", "save"} /\ update[u].key = u

SecretInv ==
    /\ \A u \in Updates : update[u].stage \in Halves => update[u].key = u
    /\ \A k \in Keys, h \in Halves : <<k, h>> \in secrets => k = config.key \/ InCare(k)
    /\ config.key = "none" \/ Key(config.key) \subseteq secrets

HeldInv == \A s \in Senders : sender[s].stage # "idle" => sender[s].message \in Messages

OutboxInv == OutboxTypes /\ HeldInv /\ LeaseInv /\ PostInv
ChannelInv == ConfigTypes /\ SecretInv
NotifyInv == OutboxInv /\ ChannelInv

-----------------------------------------------------------------------------
(* The outbox.                                                             *)

\* Claims, posts and their records keep the outbox true; so does everything that passes by it.
LEMMA OutboxStep ==
    ASSUME OutboxInv, ConfigTypes, [NotifyNext]_notifyVars
    PROVE  OutboxInv'
<1>0. OutboxTypes /\ HeldInv /\ LeaseInv /\ PostInv
  BY DEF OutboxInv
<1>1. ASSUME NEW m \in Messages, Enqueue(m) PROVE OutboxInv'
  <2>1. /\ outbox' = [outbox EXCEPT ![m] = [status |-> "pending", attempts |-> 0, due |-> TRUE]]
        /\ outbox[m].status = "none"
        /\ UNCHANGED <<sender, delivered, unsure>>
    BY <1>1 DEF Enqueue
  <2>2. OutboxTypes' /\ HeldInv'
    BY <1>0, <2>1 DEF OutboxTypes, OutboxRows, HeldInv
  <2>3. \A s \in Senders : ~Holds(s, m)
    BY <1>0, <2>1 DEF LeaseInv
  <2>4. /\ \A n \in Messages : outbox'[n] = IF n = m THEN [status |-> "pending", attempts |-> 0, due |-> TRUE]
                                            ELSE outbox[n]
        /\ \A s \in Senders, n \in Messages : Holds(s, n)' <=> Holds(s, n)
    BY <1>0, <2>1 DEF OutboxTypes, Holds
  <2>5. LeaseInv'
    BY <1>0, <2>1, <2>3, <2>4 DEF LeaseInv
  <2>6. PostInv'
    BY <1>0, <2>1, <2>3, <2>4 DEF PostInv, Counted
  <2> QED
    BY <2>2, <2>5, <2>6 DEF OutboxInv
<1>2. ASSUME NEW m \in Messages, FallsDue(m) PROVE OutboxInv'
  <2>1. /\ outbox' = [outbox EXCEPT ![m].due = TRUE]
        /\ UNCHANGED <<sender, delivered, unsure>>
        /\ outbox[m].status = "retrying" \/ \A s \in Senders : sender[s].message # m
    BY <1>2 DEF FallsDue
  <2>2. OutboxTypes' /\ HeldInv'
    BY <1>0, <2>1 DEF OutboxTypes, OutboxRows, HeldInv
  <2>3. \A s \in Senders : ~Holds(s, m)
    BY <1>0, <2>1 DEF LeaseInv, Holds
  <2>4. /\ \A n \in Messages : n # m => outbox'[n] = outbox[n]
        /\ outbox'[m].status = outbox[m].status /\ outbox'[m].attempts = outbox[m].attempts
        /\ \A s \in Senders, n \in Messages : Holds(s, n)' <=> Holds(s, n)
    BY <1>0, <2>1 DEF OutboxTypes, OutboxRows, Holds
  <2>5. LeaseInv'
    BY <1>0, <2>1, <2>3, <2>4 DEF LeaseInv
  <2>6. PostInv'
    BY <1>0, <2>1, <2>3, <2>4 DEF PostInv, Counted
  <2> QED
    BY <2>2, <2>5, <2>6 DEF OutboxInv
<1>3. ASSUME NEW s \in Senders, ClaimDue(s) PROVE OutboxInv'
  <2>1. PICK m \in Messages :
          /\ Deliverable(m)
          /\ outbox' = [outbox EXCEPT ![m] = [status |-> "sending", attempts |-> outbox[m].attempts + 1, due |-> FALSE]]
          /\ sender' = [sender EXCEPT ![s] = [stage |-> "claimed", message |-> m, attempts |-> outbox'[m].attempts,
                                              key |-> config.key]]
    BY <1>3 DEF ClaimDue
  <2>2. /\ \A n \in Messages : n # m => outbox'[n] = outbox[n]
        /\ outbox'[m] = [status |-> "sending", attempts |-> outbox[m].attempts + 1, due |-> FALSE]
        /\ outbox'[m].attempts \in Nat /\ outbox' \in [Messages -> OutboxRows]
    BY <1>0, <2>1 DEF OutboxTypes, OutboxRows
  <2>3. /\ \A t \in Senders : t # s => sender'[t] = sender[t]
        /\ sender'[s].stage = "claimed" /\ sender'[s].message = m /\ sender'[s].attempts = outbox'[m].attempts
        /\ sender' \in [Senders -> Passes]
    BY <1>0, <2>1, <2>2 DEF OutboxTypes, Passes, ConfigTypes
  <2>4. sender[s].stage = "idle" /\ UNCHANGED <<delivered, unsure>>
    BY <1>3 DEF ClaimDue
  <2>5. outbox[m].status # "sent" /\ \A t \in Senders : ~Holds(t, m)
    BY <1>0, <2>1 DEF LeaseInv, Deliverable
  <2>6. /\ \A t \in Senders, n \in Messages : Holds(t, n)' <=> ((t = s /\ n = m) \/ Holds(t, n))
        /\ \A n \in Messages : ~Holds(s, n)
    BY <2>3, <2>4 DEF Holds
  <2>7. OutboxTypes' /\ HeldInv'
    BY <1>0, <2>2, <2>3, <2>4 DEF OutboxTypes, HeldInv
  <2>8. LeaseInv'
    BY <1>0, <2>2, <2>3, <2>5, <2>6 DEF LeaseInv
  <2>9. PostInv'
    <3>1. \A n \in Messages : Counted(n)' <=> Counted(n)
      BY <2>2, <2>3, <2>5, <2>6 DEF Counted
    <3>2. outbox'[m].status = "sending"
      BY <2>2
    <3> QED
      BY <1>0, <2>2, <2>4, <3>1, <3>2 DEF PostInv
  <2> QED
    BY <2>7, <2>8, <2>9 DEF OutboxInv
<1>4. ASSUME NEW s \in Senders, NEW stage \in {"claimed", "resolved", "success", "failure"},
             sender[s].stage # "idle", sender' = [sender EXCEPT ![s].stage = stage], UNCHANGED outbox
      PROVE  /\ sender' \in [Senders -> Passes] /\ HeldInv' /\ LeaseInv' /\ sender[s].message \in Messages
             /\ sender'[s].stage = stage /\ \A t \in Senders : t # s => sender'[t] = sender[t]
             /\ \A t \in Senders, n \in Messages : Holds(t, n)' <=> Holds(t, n)
  <2>1. /\ sender' \in [Senders -> Passes]
        /\ \A t \in Senders : t # s => sender'[t] = sender[t]
        /\ sender'[s].stage = stage /\ sender'[s].message = sender[s].message
        /\ sender'[s].attempts = sender[s].attempts
    BY <1>0, <1>4 DEF OutboxTypes, Passes
  <2>2. \A t \in Senders, n \in Messages : Holds(t, n)' <=> Holds(t, n)
    BY <1>4, <2>1 DEF Holds
  <2>3. HeldInv' /\ sender[s].message \in Messages
    BY <1>0, <1>4, <2>1 DEF HeldInv
  <2>4. \A t \in Senders : sender'[t].attempts = sender[t].attempts
    BY <2>1
  <2>5. LeaseInv'
    BY <1>0, <1>4, <2>2, <2>4 DEF LeaseInv
  <2> QED
    BY <2>1, <2>2, <2>3, <2>5
<1>5. ASSUME NEW s \in Senders, ResolveKey(s) PROVE OutboxInv'
  <2>1. PICK stage \in {"resolved", "failure"} : sender' = [sender EXCEPT ![s].stage = stage]
    BY <1>5 DEF ResolveKey
  <2>2. sender[s].stage = "claimed" /\ UNCHANGED <<outbox, delivered, unsure>>
    BY <1>5 DEF ResolveKey
  <2>3. /\ sender' \in [Senders -> Passes] /\ HeldInv' /\ LeaseInv'
        /\ sender'[s].stage = stage /\ \A t \in Senders : t # s => sender'[t] = sender[t]
        /\ \A t \in Senders, n \in Messages : Holds(t, n)' <=> Holds(t, n)
    BY <1>4, <2>1, <2>2
  <2>4. \A n \in Messages : Counted(n)' <=> Counted(n)
    BY <2>2, <2>3 DEF Counted
  <2>5. PostInv'
    BY <1>0, <2>2, <2>4 DEF PostInv
  <2> QED
    BY <1>0, <2>2, <2>3, <2>5 DEF OutboxInv, OutboxTypes
<1>6. ASSUME NEW s \in Senders, Sent(s) PROVE OutboxInv'
  <2>0. PICK m : m = sender[s].message
    OBVIOUS
  <2>1. /\ sender[s].stage = "resolved" /\ sender' = [sender EXCEPT ![s].stage = "success"]
        /\ delivered' = [delivered EXCEPT ![m] = @ + 1] /\ UNCHANGED <<outbox, unsure>>
    BY <1>6, <2>0 DEF Sent
  <2>2. /\ sender' \in [Senders -> Passes] /\ HeldInv' /\ LeaseInv' /\ m \in Messages
        /\ sender'[s].stage = "success" /\ \A t \in Senders : t # s => sender'[t] = sender[t]
        /\ \A t \in Senders, n \in Messages : Holds(t, n)' <=> Holds(t, n)
    BY <1>4, <2>0, <2>1
  <2>3. Holds(s, m) /\ \A n \in Messages : Holds(s, n) => n = m
    BY <2>0, <2>1 DEF Holds
  <2>4. ~Counted(m) /\ Counted(m)'
    BY <1>0, <2>1, <2>2, <2>3 DEF Counted, LeaseInv
  <2>5. \A n \in Messages : n # m => Counted(n)' <=> Counted(n)
    BY <2>1, <2>2, <2>3 DEF Counted
  <2>6. /\ delivered' \in [Messages -> Nat] /\ delivered'[m] = delivered[m] + 1
        /\ \A n \in Messages : n # m => delivered'[n] = delivered[n]
        /\ delivered[m] \in Nat /\ unsure[m] \in Nat
    BY <1>0, <2>1, <2>2 DEF OutboxTypes
  <2>7. PostInv'
    BY <1>0, <2>1, <2>2, <2>4, <2>5, <2>6 DEF PostInv
  <2> QED
    BY <1>0, <2>1, <2>2, <2>6, <2>7 DEF OutboxInv, OutboxTypes
<1>7. ASSUME NEW s \in Senders, SendFails(s) PROVE OutboxInv'
  <2> DEFINE m == sender[s].message
  <2>1. /\ sender[s].stage = "resolved" /\ sender' = [sender EXCEPT ![s].stage = "failure"] /\ UNCHANGED outbox
        /\ \E posted \in {0, 1} : /\ delivered' = [delivered EXCEPT ![m] = @ + posted]
                                  /\ unsure' = [unsure EXCEPT ![m] = @ + posted]
    BY <1>7 DEF SendFails
  <2>2. PICK posted \in {0, 1} : /\ delivered' = [delivered EXCEPT ![m] = @ + posted]
                                 /\ unsure' = [unsure EXCEPT ![m] = @ + posted]
    BY <2>1
  <2>3. /\ sender' \in [Senders -> Passes] /\ HeldInv' /\ LeaseInv' /\ m \in Messages
        /\ sender'[s].stage = "failure" /\ \A t \in Senders : t # s => sender'[t] = sender[t]
        /\ \A t \in Senders, n \in Messages : Holds(t, n)' <=> Holds(t, n)
    BY <1>4, <2>1
  <2>4. Holds(s, m)
    BY <2>1 DEF Holds
  <2> HIDE DEF m
  <2>5. ~Counted(m) /\ \A n \in Messages : Counted(n)' <=> Counted(n)
    BY <1>0, <2>1, <2>3, <2>4 DEF Counted, LeaseInv
  <2>6. /\ delivered' \in [Messages -> Nat] /\ delivered'[m] = delivered[m] + posted
        /\ unsure' \in [Messages -> Nat] /\ unsure'[m] = unsure[m] + posted
        /\ \A n \in Messages : n # m => delivered'[n] = delivered[n] /\ unsure'[n] = unsure[n]
        /\ delivered[m] \in Nat /\ unsure[m] \in Nat
    BY <1>0, <2>2, <2>3 DEF OutboxTypes
  <2>7. PostInv'
    BY <1>0, <2>1, <2>3, <2>5, <2>6 DEF PostInv
  <2> QED
    BY <1>0, <2>1, <2>3, <2>6, <2>7 DEF OutboxInv, OutboxTypes
<1>8. ASSUME NEW s \in Senders, NEW status \in {"sent", "failed", "retrying"}, sender[s].stage # "idle",
             Record(s, status, FALSE), UNCHANGED <<delivered, unsure>>,
             status = "sent" <=> sender[s].stage = "success",
             status = "failed" => sender[s].attempts >= MaxDeliveryAttempts
      PROVE  OutboxInv'
  <2> DEFINE m == sender[s].message
  <2>1. m \in Messages /\ Holds(s, m)
    BY <1>0, <1>8 DEF HeldInv, Holds
  <2>2. outbox[m].status = "sending" /\ outbox[m].attempts = sender[s].attempts
        /\ \A t \in Senders : Holds(t, m) => t = s
    BY <1>0, <2>1 DEF LeaseInv
  <2>3. /\ outbox' = [outbox EXCEPT ![m].status = status, ![m].due = FALSE]
        /\ sender' = [sender EXCEPT ![s] = IdleSender]
    BY <1>8, <2>2 DEF Record
  <2>4. \A n \in Messages : Holds(s, n) => n = m
    BY DEF Holds
  <2> HIDE DEF m
  <2>5. /\ outbox' \in [Messages -> OutboxRows] /\ \A n \in Messages : n # m => outbox'[n] = outbox[n]
        /\ outbox'[m].status = status /\ outbox'[m].attempts = outbox[m].attempts
    BY <1>0, <2>1, <2>3 DEF OutboxTypes, OutboxRows
  <2>6. /\ sender' \in [Senders -> Passes] /\ sender'[s].stage = "idle"
        /\ \A t \in Senders : t # s => sender'[t] = sender[t]
    BY <1>0, <2>3 DEF OutboxTypes, Passes, IdleSender, Keys
  <2>7. /\ \A n \in Messages : ~Holds(s, n)'
        /\ \A t \in Senders, n \in Messages : t # s => Holds(t, n)' <=> Holds(t, n)
    BY <2>6 DEF Holds
  <2>8. HeldInv' /\ LeaseInv'
    BY <1>0, <2>2, <2>5, <2>6, <2>7 DEF HeldInv, LeaseInv
  <2>9. \A n \in Messages : Counted(n)' <=> Counted(n)
    BY <1>8, <2>1, <2>2, <2>4, <2>5, <2>6, <2>7 DEF Counted
  <2>10. PostInv'
    BY <1>0, <1>8, <2>1, <2>2, <2>5, <2>9 DEF PostInv
  <2> QED
    BY <1>0, <1>8, <2>5, <2>6, <2>8, <2>10 DEF OutboxInv, OutboxTypes
<1>9. ASSUME NEW s \in Senders, MarkSent(s) PROVE OutboxInv'
  BY <1>8, <1>9 DEF MarkSent
<1>10. ASSUME NEW s \in Senders, recordFailure(s) PROVE OutboxInv'
  <2>1. CASE sender[s].attempts >= MaxDeliveryAttempts
    BY <1>8, <1>10, <2>1 DEF recordFailure
  <2>2. CASE ~(sender[s].attempts >= MaxDeliveryAttempts)
    BY <1>8, <1>10, <2>2 DEF recordFailure
  <2> QED
    BY <2>1, <2>2
<1>11. ASSUME NEW s \in Senders, PassCut(s) PROVE OutboxInv'
  <2>0. PICK m : m = sender[s].message
    OBVIOUS
  <2>1. /\ sender[s].stage # "idle" /\ sender' = [sender EXCEPT ![s] = IdleSender]
        /\ UNCHANGED <<outbox, delivered>>
        /\ unsure' = IF sender[s].stage = "success" THEN [unsure EXCEPT ![m] = @ + 1] ELSE unsure
    BY <1>11, <2>0 DEF PassCut
  <2>2. m \in Messages /\ Holds(s, m) /\ \A n \in Messages : Holds(s, n) => n = m
    BY <1>0, <2>0, <2>1 DEF HeldInv, Holds
  <2>3. outbox[m].status = "sending" /\ \A t \in Senders : Holds(t, m) => t = s
    BY <1>0, <2>2 DEF LeaseInv
  <2>4. /\ sender' \in [Senders -> Passes] /\ sender'[s].stage = "idle"
        /\ \A t \in Senders : t # s => sender'[t] = sender[t]
    BY <1>0, <2>1 DEF OutboxTypes, Passes, IdleSender, Keys
  <2>5. /\ \A n \in Messages : ~Holds(s, n)'
        /\ \A t \in Senders, n \in Messages : t # s => Holds(t, n)' <=> Holds(t, n)
    BY <2>4 DEF Holds
  <2>6. HeldInv' /\ LeaseInv'
    BY <1>0, <2>1, <2>4, <2>5 DEF HeldInv, LeaseInv
  <2>7. \A n \in Messages : n # m => Counted(n)' <=> Counted(n)
    BY <2>1, <2>2, <2>4, <2>5 DEF Counted
  <2>8. ~Counted(m)' /\ (Counted(m) <=> sender[s].stage = "success")
    BY <2>1, <2>2, <2>3, <2>4, <2>5 DEF Counted
  <2>9. /\ unsure' \in [Messages -> Nat] /\ \A n \in Messages : n # m => unsure'[n] = unsure[n]
        /\ unsure'[m] = IF sender[s].stage = "success" THEN unsure[m] + 1 ELSE unsure[m]
        /\ unsure[m] \in Nat /\ delivered[m] \in Nat
    BY <1>0, <2>1, <2>2 DEF OutboxTypes
  <2>10. PostInv'
    BY <1>0, <2>1, <2>2, <2>7, <2>8, <2>9 DEF PostInv
  <2> QED
    BY <1>0, <2>1, <2>4, <2>6, <2>9, <2>10 DEF OutboxInv, OutboxTypes
<1>12. CASE UNCHANGED <<outbox, sender, delivered, unsure>>
  BY <1>0, <1>12 DEF OutboxInv, OutboxTypes, HeldInv, LeaseInv, PostInv, Counted, Holds
<1>13. ASSUME NEW u \in Updates,
              UpdateBegins(u) \/ CreateHalf(u) \/ Save(u) \/ DeleteUnreferencedSystemSecrets(u) \/ UpdateCut(u)
       PROVE  UNCHANGED <<outbox, sender, delivered, unsure>>
  BY <1>13 DEF UpdateBegins, CreateHalf, Save, DeleteUnreferencedSystemSecrets, UpdateCut
<1> QED
  BY <1>1, <1>2, <1>3, <1>5, <1>6, <1>7, <1>9, <1>10, <1>11, <1>12, <1>13 DEF NotifyNext, Deliver, notifyVars

-----------------------------------------------------------------------------
(* The channel.                                                            *)

\* Updates that overlap, fail and remove each other's secrets leave every secret in somebody's care.
LEMMA ChannelStep ==
    ASSUME ChannelInv, [NotifyNext]_notifyVars
    PROVE  ChannelInv'
<1>0. ConfigTypes /\ SecretInv
  BY DEF ChannelInv
<1>1. ASSUME NEW u \in Updates, UpdateBegins(u) PROVE ChannelInv'
  <2>1. PICK stage \in {"webhook", "save"}, enabled \in BOOLEAN, key \in Keys :
          /\ update' = [update EXCEPT ![u] = [stage |-> stage, enabled |-> enabled, key |-> key]]
          /\ stage = "webhook" => key = u
    <3>1. PICK enabled \in BOOLEAN, rotates \in BOOLEAN :
            update' = [update EXCEPT ![u] = [stage |-> IF rotates THEN "webhook" ELSE "save", enabled |-> enabled,
                                             key |-> IF rotates THEN u ELSE config.key]]
      BY <1>1 DEF UpdateBegins
    <3>2. u \in Keys /\ config.key \in Keys
      BY <1>0 DEF Keys, ConfigTypes
    <3>3. CASE rotates = TRUE
      BY <3>1, <3>2, <3>3
    <3>4. CASE rotates = FALSE
      BY <3>1, <3>2, <3>4
    <3> QED
      BY <3>3, <3>4
  <2>2. UNCHANGED <<config, secrets>> /\ update[u].stage = "new"
    BY <1>1 DEF UpdateBegins
  <2>3. /\ update' \in [Updates -> Calls] /\ \A v \in Updates : v # u => update'[v] = update[v]
        /\ update'[u].stage = stage /\ update'[u].key = key
    BY <1>0, <2>1 DEF ConfigTypes, Calls
  <2>4. \A k \in Keys : InCare(k) => InCare(k)'
    BY <2>2, <2>3 DEF InCare
  <2>5. \A v \in Updates : update'[v].stage \in Halves => update'[v].key = v
    BY <1>0, <2>1, <2>3 DEF SecretInv, Halves
  <2> QED
    BY <1>0, <2>2, <2>3, <2>4, <2>5 DEF ChannelInv, ConfigTypes, SecretInv
<1>2. ASSUME NEW u \in Updates, CreateHalf(u) PROVE ChannelInv'
  <2>1. PICK stage \in {"signing", "save"} : update' = [update EXCEPT ![u].stage = stage]
    BY <1>2 DEF CreateHalf
  <2>2. /\ update[u].stage \in Halves /\ update[u].key = u /\ config' = config
        /\ secrets' = secrets \cup {<<u, update[u].stage>>}
    BY <1>0, <1>2 DEF CreateHalf, SecretInv
  <2>3. /\ update' \in [Updates -> Calls] /\ \A v \in Updates : v # u => update'[v] = update[v]
        /\ update'[u].stage = stage /\ update'[u].key = u
    BY <1>0, <2>1, <2>2 DEF ConfigTypes, Calls
  <2>4. InCare(u)' /\ \A k \in Keys : InCare(k) => InCare(k)'
    BY <2>2, <2>3 DEF InCare, Halves
  <2>5. \A v \in Updates : update'[v].stage \in Halves => update'[v].key = v
    BY <1>0, <2>3 DEF SecretInv
  <2>6. secrets' \subseteq Keys \X Halves
    BY <1>0, <2>2 DEF ConfigTypes, Keys
  <2>7. \A k \in Keys, h \in Halves : <<k, h>> \in secrets' => k = config'.key \/ InCare(k)'
    BY <1>0, <2>2, <2>4 DEF SecretInv
  <2> QED
    BY <1>0, <2>2, <2>3, <2>5, <2>6, <2>7 DEF ChannelInv, ConfigTypes, SecretInv
<1>3. ASSUME NEW u \in Updates, Save(u) PROVE ChannelInv'
  <2>1. update[u].stage = "save" /\ secrets' = secrets
    BY <1>3 DEF Save
  <2>2. CASE Key(update[u].key) \subseteq secrets
    <3>1. /\ config' = [key |-> update[u].key, enabled |-> update[u].enabled]
          /\ update' = [update EXCEPT ![u].stage = "cleanup"]
      BY <1>3, <2>2 DEF Save
    <3>2. /\ update' \in [Updates -> Calls] /\ \A v \in Updates : v # u => update'[v] = update[v]
          /\ update'[u].stage = "cleanup"
          /\ config' \in [key : Keys, enabled : BOOLEAN] /\ config'.key = update[u].key
      BY <1>0, <3>1 DEF ConfigTypes, Calls
    <3>3. \A k \in Keys : InCare(k)'
      BY <3>2 DEF InCare
    <3>4. \A v \in Updates : update'[v].stage \in Halves => update'[v].key = v
      BY <1>0, <3>2 DEF SecretInv, Halves
    <3> QED
      BY <1>0, <2>1, <2>2, <3>2, <3>3, <3>4 DEF ChannelInv, ConfigTypes, SecretInv
  <2>3. CASE ~(Key(update[u].key) \subseteq secrets)
    <3>1. config' = config /\ update' = [update EXCEPT ![u].stage = SaveFailed(u)]
      BY <1>3, <2>3 DEF Save
    <3>2. PICK stage \in {"cleanup", "done"} : stage = SaveFailed(u)
      BY DEF SaveFailed
    <3>3. /\ update' \in [Updates -> Calls] /\ \A v \in Updates : v # u => update'[v] = update[v]
          /\ update'[u].stage = stage /\ (update[u].key = u => stage = "cleanup")
      BY <1>0, <3>1, <3>2 DEF ConfigTypes, Calls, SaveFailed
    <3>4. \A k \in Keys : InCare(k) => InCare(k)'
      BY <2>1, <3>3 DEF InCare
    <3>5. \A v \in Updates : update'[v].stage \in Halves => update'[v].key = v
      BY <1>0, <3>3 DEF SecretInv, Halves
    <3> QED
      BY <1>0, <2>1, <3>1, <3>3, <3>4, <3>5 DEF ChannelInv, ConfigTypes, SecretInv
  <2> QED
    BY <2>2, <2>3
<1>4. ASSUME NEW u \in Updates, DeleteUnreferencedSystemSecrets(u) PROVE ChannelInv'
  <2>1. /\ secrets' = secrets \cap Key(config.key) /\ config' = config
        /\ update' = [update EXCEPT ![u].stage = "done"]
    BY <1>4 DEF DeleteUnreferencedSystemSecrets
  <2>2. /\ update' \in [Updates -> Calls] /\ \A v \in Updates : v # u => update'[v] = update[v]
        /\ update'[u].stage = "done"
    BY <1>0, <2>1 DEF ConfigTypes, Calls
  <2>3. \A v \in Updates : update'[v].stage \in Halves => update'[v].key = v
    BY <1>0, <2>2 DEF SecretInv, Halves
  <2>4. \A k \in Keys, h \in Halves : <<k, h>> \in secrets' => k = config'.key
    BY <2>1 DEF Key
  <2> QED
    BY <1>0, <2>1, <2>2, <2>3, <2>4 DEF ChannelInv, ConfigTypes, SecretInv
<1>5. ASSUME NEW u \in Updates, UpdateCut(u) PROVE ChannelInv'
  <2>1. update' = [update EXCEPT ![u].stage = "cut"] /\ UNCHANGED <<config, secrets>>
    BY <1>5 DEF UpdateCut
  <2>2. /\ update' \in [Updates -> Calls] /\ \A v \in Updates : v # u => update'[v] = update[v]
        /\ update'[u].stage = "cut"
    BY <1>0, <2>1 DEF ConfigTypes, Calls
  <2>3. \A k \in Keys : InCare(k)'
    BY <2>2 DEF InCare
  <2>4. \A v \in Updates : update'[v].stage \in Halves => update'[v].key = v
    BY <1>0, <2>2 DEF SecretInv, Halves
  <2> QED
    BY <1>0, <2>1, <2>2, <2>3, <2>4 DEF ChannelInv, ConfigTypes, SecretInv
<1>6. CASE UNCHANGED <<config, secrets, update>>
  BY <1>0, <1>6 DEF ChannelInv, ConfigTypes, SecretInv, InCare
<1>7. \/ UNCHANGED <<config, secrets, update>>
      \/ \E u \in Updates : \/ UpdateBegins(u) \/ CreateHalf(u) \/ Save(u) \/ DeleteUnreferencedSystemSecrets(u)
                            \/ UpdateCut(u)
  BY DEF NotifyNext, notifyVars, Enqueue, FallsDue, Deliver, ClaimDue, ResolveKey, Sent, MarkSent, recordFailure,
         SendFails, PassCut
<1> QED
  BY <1>1, <1>2, <1>3, <1>4, <1>5, <1>6, <1>7

-----------------------------------------------------------------------------

\* The outbox is empty at first, and the channel has its first key or none.
LEMMA NotifyInitInv == NotifyInit => NotifyInv
<1> SUFFICES ASSUME NotifyInit PROVE NotifyInv
  OBVIOUS
<1>1. OutboxTypes /\ HeldInv
  BY DEF NotifyInit, OutboxTypes, OutboxRows, Passes, NoRow, IdleSender, Keys, HeldInv
<1>2. \A s \in Senders, m \in Messages : ~Holds(s, m)
  BY DEF NotifyInit, Holds, IdleSender
<1>3. LeaseInv /\ PostInv
  BY <1>2 DEF NotifyInit, LeaseInv, PostInv, Counted, NoRow
<1>4. ConfigTypes
  <2>1. config \in [key : Keys, enabled : BOOLEAN]
    <3>0. config \in {[key |-> "none", enabled |-> FALSE], [key |-> "first", enabled |-> TRUE]}
      BY Zenon DEF NotifyInit
    <3>2. "none" \in Keys /\ "first" \in Keys
      BY DEF Keys
    <3>1. CASE config = [key |-> "none", enabled |-> FALSE]
      <4>1. [key |-> "none", enabled |-> FALSE] \in [key : Keys, enabled : BOOLEAN]
        BY <3>2
      <4> QED  BY <4>1, <3>1, Zenon
    <3>3. CASE config = [key |-> "first", enabled |-> TRUE]
      <4>1. [key |-> "first", enabled |-> TRUE] \in [key : Keys, enabled : BOOLEAN]
        BY <3>2
      <4> QED  BY <4>1, <3>3, Zenon
    <3> QED  BY <3>0, <3>1, <3>3, Zenon
  <2>3. update \in [Updates -> Calls]
    <3>1. IdleUpdate \in Calls
      BY DEF Calls, IdleUpdate, Keys
    <3> QED
      BY <3>1 DEF NotifyInit
  <2>2. secrets \subseteq Keys \X Halves
    BY <2>1 DEF NotifyInit, Key
  <2> QED
    BY <2>1, <2>2, <2>3 DEF ConfigTypes
<1>5. SecretInv
  <2>1. \A u \in Updates : update[u].stage = "new"
    BY DEF NotifyInit, IdleUpdate
  <2>2. secrets \subseteq Key(config.key) /\ (config.key = "none" \/ secrets = Key(config.key))
    BY DEF NotifyInit
  <2> QED
    BY <2>1, <2>2 DEF SecretInv, Halves, Key
<1> QED
  BY <1>1, <1>3, <1>4, <1>5 DEF NotifyInv, OutboxInv, ChannelInv

\* A notice is posted once unless a success went unrecorded, what the console shows of it is true, and updates
\* that all returned leave no secret behind (DeliverDue, ClaimDue, MarkSent, recordFailure, ConfigService.Update).
THEOREM NoticesStayTrue == NotifySpec => []NoticesAreTrue
<1>1. NotifyInv => NoticesAreTrue
  <2> SUFFICES ASSUME NotifyInv PROVE NoticesAreTrue
    OBVIOUS
  <2>0. OutboxTypes /\ HeldInv /\ LeaseInv /\ PostInv /\ ConfigTypes /\ SecretInv
    BY DEF NotifyInv, OutboxInv, ChannelInv
  <2>1. NotifyTypeOK
    BY <2>0 DEF OutboxTypes, OutboxRows, Passes, HeldInv, LeaseInv, Holds, ConfigTypes, Calls, Halves, SecretInv,
                NotifyTypeOK
  <2>2. OnceUnlessUnrecorded /\ FinalIsTrue
    <3>1. \A m \in Messages : delivered[m] \in Nat /\ unsure[m] \in Nat
      BY <2>0 DEF OutboxTypes
    <3> QED
      BY <2>0, <3>1 DEF PostInv, Counted, OnceUnlessUnrecorded, FinalIsTrue
  <2>3. NoSecretIsLeft
    BY <2>0 DEF ConfigTypes, SecretInv, InCare, NoSecretIsLeft, Key
  <2> QED
    BY <2>1, <2>2, <2>3 DEF NoticesAreTrue
<1>2. NotifyInv /\ [NotifyNext]_notifyVars => NotifyInv'
  BY OutboxStep, ChannelStep DEF NotifyInv, ChannelInv
<1>3. NotifySpec => NotifyInit /\ [][NotifyNext]_notifyVars
  BY PTL DEF NotifySpec
<1> QED
  BY <1>1, <1>2, <1>3, NotifyInitInv, PTL
=============================================================================
