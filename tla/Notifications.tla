---------------------------- MODULE Notifications ----------------------------
(***************************************************************************)
(* The outbox of notices for Feishu and the configuration of the channel   *)
(* (internal/notification).  Processes of operations claim what is due     *)
(* under a lease of thirty seconds, resolve the two secrets the            *)
(* configuration names, send and record the outcome; the control loop      *)
(* gives each pass ten seconds, so a pass is over before a lease of its    *)
(* ends.  Administrators replace the configuration meanwhile.              *)
(***************************************************************************)
EXTENDS Integers, FiniteSets, FiniteSetsExt

CONSTANTS
    Messages,       \* notices of alerts and test messages, by idempotency key
    Senders,        \* passes of DeliverDue that may overlap
    Updates,        \* calls of ConfigService.Update
    MaxDeliveryAttempts,    \* 24 in recordFailure
    NotifyBudgets   \* bounds of one history: updates that may be made, failures and restarts

ASSUME NotifyAssumption ==
    /\ MaxDeliveryAttempts \in Nat \ {0} /\ NotifyBudgets \subseteq [updates : SUBSET Updates, mishaps : Nat]

VARIABLES
    outbox,     \* by message: status ("none": no row), attempts, whether it is due (a lease: has ended)
    sender,     \* by pass: stage, message, its attempts and the key it was claimed with
    config,     \* notification_configs: its key ("none": no row) and enabled
    secrets,    \* halves of keys among the system secrets
    update,     \* by call: stage, what it read and what it will save
    spare,      \* what remains of the budget
    delivered, unsure   \* history by message: posts that reached Feishu; those whose success was not recorded

notifyVars == <<outbox, sender, config, secrets, update, spare, delivered, unsure>>

Halves == {"webhook", "signing"}
Key(k) == {k} \X Halves
NoRow == [status |-> "none", attempts |-> 0, due |-> FALSE]
IdleSender == [stage |-> "idle", message |-> "none", attempts |-> 0, key |-> "none"]
IdleUpdate == [stage |-> "new", key |-> "none", enabled |-> FALSE]

\* The channel was configured once, with the key "first".
NotifyInit ==
    /\ config \in {[key |-> "none", enabled |-> FALSE], [key |-> "first", enabled |-> TRUE]}
    /\ secrets = IF config.key = "none" THEN {} ELSE Key(config.key)
    /\ outbox = [m \in Messages |-> NoRow] /\ sender = [s \in Senders |-> IdleSender]
    /\ update = [u \in Updates |-> IdleUpdate] /\ spare \in NotifyBudgets
    /\ delivered = [m \in Messages |-> 0] /\ unsure = [m \in Messages |-> 0]

Mishap == spare.mishaps > 0 /\ spare' = [spare EXCEPT !.mishaps = @ - 1]

-----------------------------------------------------------------------------
(* The outbox *)

\* EnqueueTest and the trigger of the alerts: one row for each idempotency key, and none while the channel is off.
Enqueue(m) ==
    /\ outbox[m].status = "none" /\ config.enabled
    /\ outbox' = [outbox EXCEPT ![m] = [status |-> "pending", attempts |-> 0, due |-> TRUE]]
    /\ UNCHANGED <<sender, config, secrets, update, spare, delivered, unsure>>

Deliverable_Sending(m) == config.enabled /\ outbox[m].status \in {"pending", "retrying", "sending"}
Deliverable_NoTakeover(m) == config.enabled /\ outbox[m].status \in {"pending", "retrying"} /\ outbox[m].due
Deliverable(m) == config.enabled /\ outbox[m].status \in {"pending", "retrying", "sending"} /\ outbox[m].due

ClaimDue(s) ==
    /\ sender[s].stage = "idle"
    /\ \E m \in Messages :
           /\ Deliverable(m)
           /\ outbox' = [outbox EXCEPT ![m] = [status |-> "sending", attempts |-> @.attempts + 1, due |-> FALSE]]
           /\ sender' = [sender EXCEPT ![s] = [stage |-> "claimed", message |-> m, attempts |-> outbox'[m].attempts,
                                               key |-> config.key]]
    /\ UNCHANGED <<config, secrets, update, spare, delivered, unsure>>

\* Secrets that were replaced and removed since the claim count as a failed attempt.
ResolveKey(s) ==
    /\ sender[s].stage = "claimed"
    /\ sender' = [sender EXCEPT ![s].stage = IF Key(sender[s].key) \subseteq secrets THEN "resolved" ELSE "failure"]
    /\ UNCHANGED <<outbox, config, secrets, update, spare, delivered, unsure>>

Sent(s) ==
    /\ sender[s].stage = "resolved"
    /\ sender' = [sender EXCEPT ![s].stage = "success"]
    /\ delivered' = [delivered EXCEPT ![sender[s].message] = @ + 1]
    /\ UNCHANGED <<outbox, config, secrets, update, spare, unsure>>

\* Refused, unreachable, or posted without an answer that can be read.
SendFails(s) ==
    /\ sender[s].stage = "resolved" /\ Mishap
    /\ sender' = [sender EXCEPT ![s].stage = "failure"]
    /\ \E posted \in {0, 1} :
           /\ delivered' = [delivered EXCEPT ![sender[s].message] = @ + posted]
           /\ unsure' = [unsure EXCEPT ![sender[s].message] = @ + posted]
    /\ UNCHANGED <<outbox, config, secrets, update>>

\* MarkSent and MarkFailed change a row that is still "sending".
Record(s, status, due) ==
    /\ outbox' = LET m == sender[s].message
                 IN  IF outbox[m].status = "sending" THEN [outbox EXCEPT ![m].status = status, ![m].due = due]
                     ELSE outbox
    /\ sender' = [sender EXCEPT ![s] = IdleSender]

MarkSent(s) ==
    /\ sender[s].stage = "success" /\ Record(s, "sent", FALSE)
    /\ UNCHANGED <<config, secrets, update, spare, delivered, unsure>>

\* recordFailure and MarkFailed
recordFailure(s) ==
    /\ sender[s].stage = "failure"
    /\ Record(s, IF sender[s].attempts >= MaxDeliveryAttempts THEN "failed" ELSE "retrying", FALSE)
    /\ UNCHANGED <<config, secrets, update, spare, delivered, unsure>>

\* The pass ends early: its ten seconds are over, a statement failed, or the process was restarted.
PassCut(s) ==
    /\ sender[s].stage # "idle" /\ Mishap
    /\ sender' = [sender EXCEPT ![s] = IdleSender]
    /\ unsure' = IF sender[s].stage = "success" THEN [unsure EXCEPT ![sender[s].message] = @ + 1] ELSE unsure
    /\ UNCHANGED <<outbox, config, secrets, update, delivered>>

\* The delay of a retry passes, or a lease that no pass holds any more.
FallsDue(m) ==
    /\ ~outbox[m].due
    /\ \/ outbox[m].status = "retrying"
       \/ outbox[m].status = "sending" /\ \A s \in Senders : sender[s].message # m
    /\ outbox' = [outbox EXCEPT ![m].due = TRUE]
    /\ UNCHANGED <<sender, config, secrets, update, spare, delivered, unsure>>

-----------------------------------------------------------------------------
(* The configuration *)

\* Get, and the checks of Update: a first configuration needs a key.
UpdateBegins(u) ==
    /\ update[u].stage = "new" /\ u \in spare.updates
    /\ spare' = [spare EXCEPT !.updates = @ \ {u}]
    /\ \E enabled, rotates \in BOOLEAN :
           /\ rotates \/ config.key # "none"
           /\ update' = [update EXCEPT ![u] = [stage |-> IF rotates THEN "webhook" ELSE "save", enabled |-> enabled,
                                               key |-> IF rotates THEN u ELSE config.key]]
    /\ UNCHANGED <<outbox, sender, config, secrets, delivered, unsure>>

\* CreateSystem, once for each half.
CreateHalf(u) ==
    /\ update[u].stage \in Halves
    /\ secrets' = secrets \cup {<<u, update[u].stage>>}
    /\ update' = [update EXCEPT ![u].stage = IF @ = "webhook" THEN "signing" ELSE "save"]
    /\ UNCHANGED <<outbox, sender, config, spare, delivered, unsure>>

SaveFailed(u) == IF update[u].key = u THEN "cleanup" ELSE "done"

\* The keys of the row must exist (foreign keys); a call that created secrets cleans up even when it fails.
Save(u) ==
    /\ update[u].stage = "save"
    /\ IF Key(update[u].key) \subseteq secrets
       THEN /\ config' = [key |-> update[u].key, enabled |-> update[u].enabled]
            /\ update' = [update EXCEPT ![u].stage = "cleanup"]
       ELSE /\ update' = [update EXCEPT ![u].stage = SaveFailed(u)]
            /\ UNCHANGED config
    /\ UNCHANGED <<outbox, sender, secrets, spare, delivered, unsure>>

DeleteUnreferencedSystemSecrets(u) ==
    /\ update[u].stage = "cleanup"
    /\ secrets' = secrets \cap Key(config.key)
    /\ update' = [update EXCEPT ![u].stage = "done"]
    /\ UNCHANGED <<outbox, sender, config, spare, delivered, unsure>>

\* A restart of the API in the middle of a call.
UpdateCut(u) ==
    /\ update[u].stage \in Halves \cup {"save", "cleanup"} /\ Mishap
    /\ update' = [update EXCEPT ![u].stage = "cut"]
    /\ UNCHANGED <<outbox, sender, config, secrets, delivered, unsure>>

Deliver(s) == ClaimDue(s) \/ ResolveKey(s) \/ Sent(s) \/ MarkSent(s) \/ recordFailure(s)

NotifyNext ==
    \/ \E m \in Messages : Enqueue(m) \/ FallsDue(m)
    \/ \E s \in Senders : Deliver(s) \/ SendFails(s) \/ PassCut(s)
    \/ \E u \in Updates : \/ UpdateBegins(u) \/ CreateHalf(u) \/ Save(u) \/ DeleteUnreferencedSystemSecrets(u)
                          \/ UpdateCut(u)

\* The control loop delivers every fifteen seconds, and time passes.
NotifySpec ==
    /\ NotifyInit /\ [][NotifyNext]_notifyVars
    /\ \A s \in Senders : WF_notifyVars(Deliver(s))
    /\ \A m \in Messages : WF_notifyVars(FallsDue(m))

-----------------------------------------------------------------------------
(* Properties *)

(* Types of the outbox, the passes and the configuration; the row a pass   *)
(* works on is "sending" until the pass records its outcome.               *)
NotifyTypeOK ==
    /\ \A m \in Messages :
           /\ outbox[m].status \in {"none", "pending", "sending", "retrying", "sent", "failed"}
           /\ outbox[m].attempts \in Nat /\ delivered[m] \in Nat /\ unsure[m] \in Nat
    /\ \A s \in Senders :
           /\ sender[s].stage \in {"idle", "claimed", "resolved", "success", "failure"}
           /\ sender[s].stage # "idle" => outbox[sender[s].message].status = "sending"
    /\ config.enabled \in BOOLEAN /\ (config.key = "none" \/ Key(config.key) \subseteq secrets)
    /\ \A u \in Updates : update[u].stage \in Halves \cup {"new", "save", "cleanup", "done", "cut"}

(* A notice reaches Feishu once, but for the posts whose success the       *)
(* outbox could not learn: overlapping passes never post the same row      *)
(* (ClaimDue and its lease).                                               *)
OnceUnlessUnrecorded == \A m \in Messages : delivered[m] <= 1 + unsure[m]

(* What the console shows of a notice is true: "sent" was posted, "failed" *)
(* was tried as often as the limit says.                                   *)
FinalIsTrue ==
    \A m \in Messages :
        /\ outbox[m].status = "sent" => delivered[m] > 0
        /\ outbox[m].status = "failed" => outbox[m].attempts >= MaxDeliveryAttempts

(* Once every update has returned, none of them cut, the only secrets of   *)
(* the channel are those of its configuration, also after updates that     *)
(* removed each other's secrets and failed.                                *)
NoSecretIsLeft ==
    (\A u \in Updates : update[u].stage \in {"new", "done"}) => secrets \subseteq Key(config.key)

(* A notice in the outbox is sent or given up in the end while the channel *)
(* stays on, whatever fails and whichever secrets are replaced.            *)
NoticeSettles ==
    \A m \in Messages : []<>(config.enabled => outbox[m].status \in {"none", "sent", "failed"})

(* The outbox and the channel tell the truth: a notice is posted once      *)
(* unless a success went unrecorded, ends are real, and no secret is left  *)
(* behind.                                                                 *)
NoticesAreTrue == NotifyTypeOK /\ OnceUnlessUnrecorded /\ FinalIsTrue /\ NoSecretIsLeft
=============================================================================
