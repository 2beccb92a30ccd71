---------------------------- MODULE ServerReboot ----------------------------
(***************************************************************************)
(* Rebooting the whole server over Telegram.                               *)
(*                                                                         *)
(* The owner asks for a confirmation phrase (the power:plan branch of      *)
(* handle_callback), types it (handle_reboot_phrase), and hears from the   *)
(* agent again after the boot (notify_completed_reboot).  The reboot kills *)
(* the agent in the middle of the loop: usually before the offset of the   *)
(* phrase is stored, so that Telegram delivers the phrase once more to the *)
(* freshly booted agent.  What keeps that from being a second reboot is    *)
(* the store: the phrase is deleted as it is consumed, and the pending     *)
(* record carries the id of the boot it was written in.                    *)
(*                                                                         *)
(* can_reboot, which asks the root helper, answers either way: whether the *)
(* local power setting allows a reboot may change at any time.             *)
(***************************************************************************)
EXTENDS Integers, FiniteSets

CONSTANTS
  Users,           \* Telegram users
  NoOne,           \* no owner is stored
  Ttl,             \* REBOOT_APPROVAL_TTL_SECONDS
  CompletionMax,   \* REBOOT_COMPLETION_MAX_SECONDS
  MaxAttempts      \* UPDATE_MAX_ATTEMPTS

\* Bounds of the model: the clock, phrases, boots, failures and crashes together,
\* and changes of owner.
CONSTANTS MaxTime, MaxPhrases, MaxBoots, MaxFaults, MaxOwnerChanges

ASSUME ParameterAssumption ==
  /\ NoOne \notin Users
  /\ Ttl \in Nat /\ CompletionMax \in Nat /\ MaxAttempts \in Nat \ {0}
  /\ MaxTime \in Nat /\ MaxPhrases \in Nat /\ MaxBoots \in Nat \ {0}
  /\ MaxFaults \in Nat /\ MaxOwnerChanges \in Nat

Phrases == 1 .. MaxPhrases
NoPhrase == 0

VARIABLES
  now,         \* the clock
  (* the machine *)
  boot,        \* current_boot_id: boots are counted
  rebooting,   \* systemctl reboot was accepted, the shutdown is under way
  (* SQLite *)
  owner,       \* the stored owner
  approvals,   \* table reboot_approvals
  pending,     \* metadata pending_reboot_*
  audits,      \* <<phrase, outcome>> of the audit rows that precede the order
  (* the agent *)
  pc,          \* what the agent does next, "down" while it does not run
  press,       \* the update being handled, kept by Telegram until it is settled
  attempt,     \* attempts made by handle_update_with_retry
  (* the outside *)
  issued,      \* phrases ever issued
  shown,       \* phrases the chat has shown
  (* history: read by the properties only *)
  acked,       \* phrases whose approval the chat was told of
  consumed,    \* consumed[p]: the boot in which phrase p was accepted, 0 before
  orders,      \* orders[p]: reboots ordered for phrase p
  withdrawn,   \* phrases superseded, cancelled or revoked before their use
  told,        \* boots whose completion the chat was told of
  notices,     \* completion notices said about the stored record
  cut,         \* how often the agent died between such a notice and its clean-up
  faults, changes

machineVars == <<boot, rebooting>>
storeVars == <<owner, approvals, pending, audits>>
agentVars == <<pc, press, attempt>>
outsideVars == <<issued, shown>>
noticeVars == <<told, notices, cut>>
historyVars == <<acked, consumed, orders, withdrawn, noticeVars, faults, changes>>
vars == <<now, machineVars, storeVars, agentVars, outsideVars, historyVars>>

Presses ==
  [kind : {"plan", "cancel"}, from : Users, phrase : {NoPhrase}]
    \cup [kind : {"phrase"}, from : Users, phrase : Phrases]
NoPress == [kind |-> "none", from |-> NoOne, phrase |-> NoPhrase]
NoPending == [boot |-> 0, at |-> 0]

Approvals == [phrase : Phrases, actor : Users, expires : Nat]

Steps == {"down", "boot", "owner", "tell", "completed", "clear",
          "idle", "start", "issue", "offer", "cancel", "consume", "check", "mark",
          "approve", "ack", "unack", "request", "execute", "failed", "reply", "offset"}

Goto(step) == pc' = step

-----------------------------------------------------------------------------
(* Asking for the phrase                                                   *)

\* The next update: a button, or a typed phrase the chat has shown.
Press ==
  /\ pc = "idle" /\ press = NoPress
  /\ \E p \in Presses :
       /\ p.kind = "phrase" => p.phrase \in shown
       /\ press' = p
  /\ attempt' = 0
  /\ Goto("start")
  /\ UNCHANGED <<now, machineVars, storeVars, outsideVars, historyVars>>

\* After a restart Telegram delivers the unsettled update again.
Redeliver ==
  /\ pc = "idle" /\ press # NoPress
  /\ attempt' = 0
  /\ Goto("start")
  /\ UNCHANGED <<now, machineVars, storeVars, press, outsideVars, historyVars>>

\* handle_callback and handle_message: only the stored owner gets further.
CheckOwner ==
  /\ pc = "start"
  /\ Goto(IF owner # press.from THEN "reply"
          ELSE CASE press.kind = "plan" -> "issue"
                 [] press.kind = "cancel" -> "cancel"
                 [] press.kind = "phrase" -> "consume")
  /\ UNCHANGED <<now, machineVars, storeVars, press, attempt, outsideVars, historyVars>>

\* Rows an action takes away before anyone has used them.
Withdraw(rows) == withdrawn' = withdrawn \cup {a.phrase : a \in rows}

\* create_reboot_approval: the new phrase replaces every other one.
Issue ==
  /\ pc = "issue"
  /\ issued + 1 \in Phrases
  /\ issued' = issued + 1
  /\ approvals' = {[phrase |-> issued', actor |-> press.from, expires |-> now + Ttl]}
  /\ Withdraw(approvals)
  /\ Goto("offer")
  /\ UNCHANGED <<now, machineVars, owner, pending, audits, press, attempt, shown,
                 acked, consumed, orders, noticeVars, faults, changes>>

\* The config flag is off, or can_reboot says no.
RefusePlan ==
  /\ pc = "issue"
  /\ Goto("reply")
  /\ UNCHANGED <<now, machineVars, storeVars, press, attempt, outsideVars, historyVars>>

\* edit_message shows the phrase just issued.
Offer ==
  /\ pc = "offer"
  /\ shown' = shown \cup {issued}
  /\ Goto("reply")
  /\ UNCHANGED <<now, machineVars, storeVars, press, attempt, issued, historyVars>>

\* cancel_reboot_approval.
Cancel ==
  /\ pc = "cancel"
  /\ LET mine == {a \in approvals : a.actor = press.from}
     IN  approvals' = approvals \ mine /\ Withdraw(mine)
  /\ Goto("reply")
  /\ UNCHANGED <<now, machineVars, owner, pending, audits, press, attempt, outsideVars,
                 acked, consumed, orders, noticeVars, faults, changes>>

-----------------------------------------------------------------------------
(* Typing the phrase: handle_reboot_phrase                                 *)

Match == {a \in approvals : a.phrase = press.phrase /\ a.actor = press.from}

\* Faulty variant: the row stays after its use.
ConsumeKeepsRow ==
  /\ pc = "consume"
  /\ approvals' = approvals
  /\ IF \E a \in Match : a.expires >= now
     THEN consumed' = [consumed EXCEPT ![press.phrase] = boot] /\ Goto("check")
     ELSE UNCHANGED consumed /\ Goto("reply")
  /\ UNCHANGED <<now, machineVars, owner, pending, audits, press, attempt, outsideVars,
                 acked, orders, withdrawn, noticeVars, faults, changes>>

\* consume_reboot_approval deletes the row it matches, expired or not.
Consume ==
  /\ pc = "consume"
  /\ approvals' = approvals \ Match
  /\ IF \E a \in Match : a.expires >= now
     THEN consumed' = [consumed EXCEPT ![press.phrase] = boot] /\ Goto("check")
     ELSE UNCHANGED consumed /\ Goto("reply")
  /\ UNCHANGED <<now, machineVars, owner, pending, audits, press, attempt, outsideVars,
                 acked, orders, withdrawn, noticeVars, faults, changes>>

\* The config flag is off: denied before the phrase is looked at.
Disabled ==
  /\ pc = "consume"
  /\ Goto("reply")
  /\ UNCHANGED <<now, machineVars, storeVars, press, attempt, outsideVars, historyVars>>

\* can_reboot: no is an audit row and a message.
CheckHelper ==
  /\ pc = "check"
  /\ \E allowed \in BOOLEAN : Goto(IF allowed THEN "mark" ELSE "reply")
  /\ UNCHANGED <<now, machineVars, storeVars, press, attempt, outsideVars, historyVars>>

\* mark_reboot_pending(current_boot_id).
MarkPending ==
  /\ pc = "mark"
  /\ pending' = [boot |-> boot, at |-> now]
  /\ notices' = 0 /\ cut' = 0
  /\ Goto("approve")
  /\ UNCHANGED <<now, machineVars, owner, approvals, audits, press, attempt, outsideVars,
                 acked, consumed, orders, withdrawn, told, faults, changes>>

Audit(outcome) == audits' = audits \cup {<<press.phrase, outcome>>}

AuditApproved ==
  /\ pc = "approve"
  /\ Audit("approved")
  /\ Goto("ack")
  /\ UNCHANGED <<now, machineVars, owner, approvals, pending, press, attempt, outsideVars,
                 historyVars>>

\* The approval is announced before anything irreversible happens.
Acknowledge ==
  /\ pc = "ack"
  /\ acked' = acked \cup {press.phrase}
  /\ Goto("request")
  /\ UNCHANGED <<now, machineVars, storeVars, press, attempt, outsideVars,
                 consumed, orders, withdrawn, noticeVars, faults, changes>>

\* After two seconds, the last audit row before the helper runs.
AuditRequested ==
  /\ pc = "request"
  /\ Audit("requested")
  /\ Goto("execute")
  /\ UNCHANGED <<now, machineVars, owner, approvals, pending, press, attempt, outsideVars,
                 historyVars>>

Order == /\ rebooting' = TRUE
         /\ orders' = [orders EXCEPT ![press.phrase] = @ + 1]

\* execute_reboot: the helper ordered the reboot and said so.
Execute ==
  /\ pc = "execute"
  /\ Order
  /\ Goto("offset")
  /\ UNCHANGED <<now, boot, storeVars, press, attempt, outsideVars,
                 acked, consumed, withdrawn, noticeVars, faults, changes>>

\* execute_reboot failed; after its 15 s timeout the order may still have gone out.
ExecuteFails ==
  /\ pc = "execute"
  /\ Order \/ UNCHANGED <<rebooting, orders>>
  /\ Goto("failed")
  /\ UNCHANGED <<now, boot, storeVars, press, attempt, outsideVars,
                 acked, consumed, withdrawn, noticeVars, faults, changes>>

\* clear_pending_reboot after a failed order, then an audit row and a message.
ClearAfterFailure ==
  /\ pc = "failed"
  /\ pending' = NoPending
  /\ Goto("reply")
  /\ UNCHANGED <<now, machineVars, owner, approvals, audits, press, attempt, outsideVars,
                 historyVars>>

\* The closing message worked: the handler returns Ok.
Reply ==
  /\ pc = "reply"
  /\ Goto("offset")
  /\ UNCHANGED <<now, machineVars, storeVars, press, attempt, outsideVars, historyVars>>

\* The update is settled: Telegram will not deliver it again.
Settle == press' = NoPress /\ attempt' = 0 /\ Goto("idle")

StoreOffset ==
  /\ pc = "offset"
  /\ Settle
  /\ UNCHANGED <<now, machineVars, storeVars, outsideVars, historyVars>>

-----------------------------------------------------------------------------
(* The start of the agent: notify_completed_reboot                         *)

\* get_me and delete_webhook worked.
Start ==
  /\ pc = "down"
  /\ Goto("boot")
  /\ UNCHANGED <<now, machineVars, storeVars, press, attempt, outsideVars, historyVars>>

\* A request of an earlier boot, made no more than CompletionMax ago, nor after now.
Completable == pending.boot # boot /\ now - pending.at \in 0 .. CompletionMax

\* Faulty variant: reading the record removes it.
ReadPendingOnce ==
  /\ pc = "boot"
  /\ pending' = NoPending
  /\ Goto(IF pending # NoPending /\ Completable THEN "owner" ELSE "idle")
  /\ UNCHANGED <<now, machineVars, owner, approvals, audits, press, attempt, outsideVars,
                 historyVars>>

\* pending_reboot_completion: a record of this boot, or too old, is removed.
ReadPending ==
  /\ pc = "boot"
  /\ IF pending # NoPending /\ Completable
     THEN Goto("owner") /\ UNCHANGED pending
     ELSE Goto("idle") /\ pending' = NoPending
  /\ UNCHANGED <<now, machineVars, owner, approvals, audits, press, attempt, outsideVars,
                 historyVars>>

\* Without an owner the record is dropped.
ReadOwner ==
  /\ pc = "owner"
  /\ IF owner = NoOne THEN Goto("idle") /\ pending' = NoPending
                      ELSE Goto("tell") /\ UNCHANGED pending
  /\ UNCHANGED <<now, machineVars, owner, approvals, audits, press, attempt, outsideVars,
                 historyVars>>

\* The chat hears that the reboot is complete.
Notice == told' = told \cup {boot} /\ notices' = notices + 1

TellCompleted ==
  /\ pc = "tell"
  /\ Notice
  /\ Goto("completed")
  /\ UNCHANGED <<now, machineVars, storeVars, press, attempt, outsideVars,
                 acked, consumed, orders, withdrawn, cut, faults, changes>>

AuditCompleted ==
  /\ pc = "completed"
  /\ Goto("clear")
  /\ UNCHANGED <<now, machineVars, storeVars, press, attempt, outsideVars, historyVars>>

\* Faulty variant: the record stays.
KeepPending ==
  /\ pc = "clear"
  /\ Goto("idle")
  /\ UNCHANGED <<now, machineVars, storeVars, press, attempt, outsideVars, historyVars>>

\* clear_pending_reboot.
ClearPending ==
  /\ pc = "clear"
  /\ pending' = NoPending
  /\ Goto("idle")
  /\ UNCHANGED <<now, machineVars, owner, approvals, audits, press, attempt, outsideVars,
                 historyVars>>

-----------------------------------------------------------------------------
(* What goes wrong                                                         *)

Fault == faults < MaxFaults /\ faults' = faults + 1

StartupSteps == {"boot", "owner", "tell", "completed", "clear"}

\* A step of a handler that can return Err: store calls, Telegram, the helper.
\* A failed order is not one of them, its error is handled on the spot.
CanFail == pc \in Steps \ (StartupSteps \cup {"down", "idle", "ack", "execute", "offset"})

AttemptsLeft == attempt + 1 < MaxAttempts

\* A failed edit_message may have reached the chat all the same.
MaybeShown == shown' \in IF pc = "offer" THEN {shown, shown \cup {issued}} ELSE {shown}

\* The announcement failed, though it may have reached the chat.
AckFails ==
  /\ pc = "ack"
  /\ Fault
  /\ acked' \in {acked, acked \cup {press.phrase}}
  /\ Goto("unack")
  /\ UNCHANGED <<now, machineVars, storeVars, press, attempt, outsideVars,
                 consumed, orders, withdrawn, noticeVars, changes>>

\* Faulty variant: the failed announcement is only recorded, and the reboot goes on.
UnacknowledgedGoesOn ==
  /\ pc = "unack"
  /\ Goto("request")
  /\ UNCHANGED <<now, machineVars, storeVars, press, attempt, outsideVars, historyVars>>

\* clear_pending_reboot, then the error is returned, whether or not the audit row
\* about it could be written.
Unacknowledged ==
  /\ pc = "unack"
  /\ pending' = NoPending
  /\ IF AttemptsLeft
     THEN attempt' = attempt + 1 /\ Goto("start") /\ UNCHANGED press
     ELSE Settle
  /\ UNCHANGED <<now, machineVars, owner, approvals, audits, outsideVars, historyVars>>

\* handle_update_with_retry runs the handler again from its first line.
Retry ==
  /\ CanFail /\ AttemptsLeft
  /\ Fault
  /\ attempt' = attempt + 1
  /\ Goto("start")
  /\ MaybeShown
  /\ UNCHANGED <<now, machineVars, storeVars, press, issued,
                 acked, consumed, orders, withdrawn, noticeVars, changes>>

\* The last attempt failed: a dead letter, and the update is settled.
GiveUp ==
  /\ CanFail /\ ~AttemptsLeft
  /\ Fault
  /\ Settle
  /\ MaybeShown
  /\ UNCHANGED <<now, machineVars, storeVars, issued,
                 acked, consumed, orders, withdrawn, noticeVars, changes>>

\* The agent dies with the notice said and the record still there, or not.
CutOff == cut' = IF pc \in {"completed", "clear"} THEN cut + 1 ELSE cut

\* The process dies, or `?` ends run() at startup or at set_update_offset.
\* A failed completion message may have reached the chat all the same.
Crash ==
  /\ pc # "down"
  /\ Fault
  /\ \/ pc = "tell" /\ Notice /\ cut' = cut + 1
     \/ CutOff /\ UNCHANGED <<told, notices>>
  /\ attempt' = 0
  /\ Goto("down")
  /\ UNCHANGED <<now, machineVars, storeVars, press, outsideVars,
                 acked, consumed, orders, withdrawn, changes>>

-----------------------------------------------------------------------------
(* Around the agent                                                        *)

Boot ==
  /\ boot < MaxBoots
  /\ boot' = boot + 1 /\ rebooting' = FALSE
  /\ attempt' = 0
  /\ CutOff
  /\ Goto("down")
  /\ UNCHANGED <<now, storeVars, press, outsideVars,
                 acked, consumed, orders, withdrawn, told, notices, faults, changes>>

\* The ordered shutdown reaches the agent, wherever it is, and the server boots.
Shutdown == rebooting /\ Boot

\* A reboot the agent did not order.
OtherReboot == ~rebooting /\ Boot

\* clear_owner, in another process and at any time.
Unpair ==
  /\ owner # NoOne /\ changes < MaxOwnerChanges
  /\ owner' = NoOne /\ approvals' = {} /\ pending' = NoPending
  /\ Withdraw(approvals)
  /\ changes' = changes + 1
  /\ UNCHANGED <<now, machineVars, audits, agentVars, outsideVars,
                 acked, consumed, orders, noticeVars, faults>>

\* consume_pairing_code, by the message handler.  A replacement code changes the
\* owner and leaves phrase and pending record.
Pair ==
  /\ pc = "idle" /\ press = NoPress /\ changes < MaxOwnerChanges
  /\ owner' \in Users
  /\ changes' = changes + 1
  /\ UNCHANGED <<now, machineVars, approvals, pending, audits, agentVars, outsideVars,
                 acked, consumed, orders, withdrawn, noticeVars, faults>>

Tick ==
  /\ now < MaxTime
  /\ now' = now + 1
  /\ UNCHANGED <<machineVars, storeVars, agentVars, outsideVars, historyVars>>

-----------------------------------------------------------------------------
Init ==
  /\ now = 0
  /\ boot = 1 /\ rebooting = FALSE
  /\ owner \in Users /\ approvals = {} /\ pending = NoPending /\ audits = {}
  /\ pc = "down" /\ press = NoPress /\ attempt = 0
  /\ issued = 0 /\ shown = {}
  /\ acked = {} /\ consumed = [p \in Phrases |-> 0] /\ orders = [p \in Phrases |-> 0]
  /\ withdrawn = {} /\ told = {} /\ notices = 0 /\ cut = 0
  /\ faults = 0 /\ changes = 0

Startup ==
  \/ Start \/ ReadPending \/ ReadOwner \/ TellCompleted \/ AuditCompleted \/ ClearPending

Handle ==
  \/ CheckOwner \/ Issue \/ RefusePlan \/ Offer \/ Cancel
  \/ Consume \/ Disabled \/ CheckHelper \/ MarkPending \/ AuditApproved
  \/ Acknowledge \/ Unacknowledged \/ AuditRequested
  \/ Execute \/ ExecuteFails \/ ClearAfterFailure \/ Reply \/ StoreOffset

Next ==
  \/ Startup
  \/ Press \/ Redeliver \/ Handle
  \/ AckFails \/ Retry \/ GiveUp \/ Crash
  \/ Shutdown \/ OtherReboot \/ Unpair \/ Pair \/ Tick

Spec == Init /\ [][Next]_vars

\* The agent's own code runs on, systemd starts it again after a failure
\* (Restart=on-failure), and a shutdown once accepted happens.
FairSpec == Spec /\ WF_vars(Startup) /\ WF_vars(Handle) /\ WF_vars(Shutdown)

-----------------------------------------------------------------------------
(* Properties                                                              *)

\* Every variable keeps its type.
TypeOK ==
  /\ now \in Nat /\ boot \in 1 .. MaxBoots /\ rebooting \in BOOLEAN
  /\ owner \in Users \cup {NoOne} /\ approvals \subseteq Approvals
  /\ pending \in [boot : 0 .. MaxBoots, at : 0 .. now]
  /\ audits \subseteq Phrases \X {"approved", "requested"}
  /\ pc \in Steps /\ press \in Presses \cup {NoPress} /\ attempt \in 0 .. MaxAttempts - 1
  /\ issued \in 0 .. MaxPhrases /\ shown \subseteq Phrases
  /\ acked \subseteq Phrases /\ consumed \in [Phrases -> 0 .. MaxBoots]
  /\ orders \in [Phrases -> Nat] /\ withdrawn \subseteq Phrases
  /\ told \subseteq 1 .. MaxBoots /\ notices \in Nat /\ cut \in Nat
  /\ faults \in Nat /\ changes \in Nat

\* No reboot loop: the phrase Telegram delivers again to the freshly booted agent,
\* like every other repetition, orders nothing.
OneRebootPerPhrase == \A p \in Phrases : orders[p] <= 1

\* The irreversible step comes last: by then the approval and the request are in
\* the audit log and the owner's chat was told.
OrderedAfterTheRecord ==
  \A p \in Phrases : orders[p] > 0 =>
    p \in acked /\ {<<p, "approved">>, <<p, "requested">>} \subseteq audits

\* A phrase that was cancelled, replaced by a newer one or revoked by an unpairing
\* never reboots the server, even when the same user becomes the owner again.
WithdrawnNeverReboots == \A p \in withdrawn : orders[p] = 0

\* "Reboot complete" is said only in a boot later than one in which the owner's
\* phrase was accepted: never after a mere restart of the agent.
CompletionFollowsApproval ==
  \A b \in told : \E p \in Phrases : consumed[p] \in 1 .. b - 1

\* A phrase is open while its row is stored.
Unused(p) == \E a \in approvals : a.phrase = p

Grant(p) ==
  CASE p > issued -> "new"
    [] p <= issued /\ Unused(p) -> "open"
    [] p <= issued /\ ~Unused(p) -> IF consumed[p] # 0 THEN "accepted" ELSE "void"

State == [p \in Phrases |-> Grant(p)]

Promise == INSTANCE OneTimeGrant WITH Grants <- Phrases, state <- State, effects <- orders

\* The flow implements OneTimeGrant, across boots: a phrase is accepted while it is
\* the stored one, never comes back, and orders a reboot only after that, once.
RebootsByGrant == Promise!Spec

\* The completion of one request is announced again only if the agent died, or the
\* server booted once more, between an announcement and the removal of the record.
CompletionRepeatsOnlyIfCutOff == notices <= 1 + cut

\* The request of an earlier boot is forgotten only once the chat heard of its
\* completion, or when there is no owner or the request is too old.
CompletionNotLost ==
  [][pending.boot \in 1 .. boot - 1 /\ pending' = NoPending =>
       boot \in told \/ owner' = NoOne \/ now - pending.at > CompletionMax]_vars

\* Whatever fails at startup, the request of an earlier boot is dealt with in the end.
CompletionSettled ==
  pending.boot \in 1 .. boot - 1 ~> pending.boot \notin 1 .. boot - 1
=============================================================================
