---------------------------- MODULE ServiceAction ---------------------------
(***************************************************************************)
(* Service restarts asked for over Telegram.                               *)
(*                                                                         *)
(* The owner plans a restart (handle_action_plan issues a one-time token   *)
(* and shows it on a button) and then confirms or cancels it               *)
(* (handle_action_confirm, the action:cancel branch of handle_callback).   *)
(* The agent handles one update at a time, but a handler awaits Telegram,  *)
(* systemctl and the root executor between its store calls, may fail at    *)
(* each of them and is then run again from its first line; after a crash   *)
(* Telegram delivers the update again (module UpdateLoop).  Meanwhile      *)
(* `g7tg unpair` may clear the owner, and tokens expire.                   *)
(*                                                                         *)
(* One unit stands for all: no step depends on which unit a token names.   *)
(***************************************************************************)
EXTENDS Integers, FiniteSets

CONSTANTS
  Users,          \* Telegram users who press buttons
  NoOne,          \* no owner is stored
  Ttl,            \* config.approval_ttl_seconds
  MaxApprovals,   \* APPROVAL_MAX_ROWS
  MaxAttempts     \* UPDATE_MAX_ATTEMPTS

\* Bounds of the model: the clock, the tokens, the failed calls and crashes
\* together, and the changes of owner.
CONSTANTS MaxTime, MaxTokens, MaxFaults, MaxOwnerChanges

ASSUME ParameterAssumption ==
  /\ NoOne \notin Users
  /\ Ttl \in Nat /\ MaxApprovals \in Nat \ {0} /\ MaxAttempts \in Nat \ {0}
  /\ MaxTime \in Nat /\ MaxTokens \in Nat /\ MaxFaults \in Nat /\ MaxOwnerChanges \in Nat

Tokens == 1 .. MaxTokens
NoToken == 0

VARIABLES
  now,         \* the clock
  (* SQLite *)
  owner,       \* the stored owner
  approvals,   \* table approvals, in the order of the tokens' rowids
  audits,      \* tokens with a service_action audit row (success or failed)
  (* the handler *)
  pc,          \* what the handler does next
  press,       \* the callback being handled
  attempt,     \* attempts made by handle_update_with_retry
  token,       \* the token issued or consumed by this attempt
  (* the outside *)
  issued,      \* tokens ever issued
  shown,       \* tokens Telegram has shown on a button
  restarts,    \* restarts[t]: systemctl restarts run for token t
  (* history: read by the properties only *)
  cancelled,   \* tokens whose cancellation was accepted
  revoked,     \* tokens whose approval an unpairing deleted unconsumed
  expiry,      \* expiry[t]: the expires_at of token t
  accepted,    \* accepted[t]: the time consume_approval accepted t, -1 before
  faults,      \* failures so far
  changes      \* changes of owner so far

storeVars == <<owner, approvals, audits>>
handlerVars == <<pc, press, attempt, token>>
outsideVars == <<issued, shown, restarts>>
historyVars == <<cancelled, revoked, expiry, accepted, faults, changes>>
vars == <<now, storeVars, handlerVars, outsideVars, historyVars>>

Presses ==
  [kind : {"plan"}, from : Users, token : {NoToken}]
    \cup [kind : {"confirm", "cancel"}, from : Users, token : Tokens]
NoPress == [kind |-> "none", from |-> NoOne, token |-> NoToken]

Approvals == [token : Tokens, actor : Users, expires : Nat, consumed : BOOLEAN]

Steps == {"idle", "start", "issue", "prune", "offer", "consume", "answer", "discover",
          "execute", "refresh", "record", "tidy", "reply", "offset"}

-----------------------------------------------------------------------------
(* The store                                                               *)

Live(a) == a.expires >= now /\ ~a.consumed

\* Faulty variant: the overflow takes the newest rows.
PrunedNewest(rows) ==
  LET live == {a \in rows : Live(a)}
  IN  {a \in live : Cardinality({b \in live : b.token < a.token}) < MaxApprovals}

\* prune_approvals_on: stale rows first, then all but the newest MaxApprovals; the
\* limit of 256 stale rows for each call is left out.
Pruned(rows) ==
  LET live == {a \in rows : Live(a)}
  IN  {a \in live : Cardinality({b \in live : b.token > a.token}) < MaxApprovals}

\* Faulty variants: the expiry, or the user, is not compared.
AcceptableLate(t, user) == {a \in approvals : a.token = t /\ a.actor = user /\ ~a.consumed}
AcceptableFromAnyone(t, user) == {a \in approvals : a.token = t /\ Live(a)}

\* The rows consume_approval accepts for this token and user.
Acceptable(t, user) ==
  {a \in approvals : a.token = t /\ a.actor = user /\ Live(a)}

\* Faulty variant: the token stays usable.
MarkNothing(t) == approvals' = approvals

\* UPDATE approvals SET consumed_at.
MarkConsumed(t) ==
  approvals' = {IF a.token = t THEN [a EXCEPT !.consumed = TRUE] ELSE a : a \in approvals}

\* consume_approval, for cancel_approval too: accepted at most once.
Consume(t, user) ==
  /\ Acceptable(t, user) # {}
  /\ MarkConsumed(t)
  /\ accepted' = [accepted EXCEPT ![t] = now]

-----------------------------------------------------------------------------
(* One callback                                                            *)

Goto(step) == pc' = step

\* The next update is the press of a button; a plan needs a token to hand out.
Press ==
  /\ pc = "idle"
  /\ \E p \in Presses :
       /\ p.kind # "plan" => p.token \in shown
       /\ press' = p
  /\ attempt' = 0 /\ token' = NoToken
  /\ Goto("start")
  /\ UNCHANGED <<now, storeVars, outsideVars, historyVars>>

\* handle_callback: only the stored owner gets further.  Whoever is refused gets
\* an audit row and an answer.
CheckOwner ==
  /\ pc = "start"
  /\ Goto(IF owner = press.from
          THEN IF press.kind = "plan" THEN "issue" ELSE "consume"
          ELSE "reply")
  /\ UNCHANGED <<now, storeVars, press, attempt, token, outsideVars, historyVars>>

\* handle_action_plan after discover and can_manage: INSERT INTO approvals.
Issue ==
  /\ pc = "issue"
  /\ issued + 1 \in Tokens
  /\ issued' = issued + 1
  /\ token' = issued'
  /\ approvals' = approvals \cup
       {[token |-> issued', actor |-> press.from, expires |-> now + Ttl, consumed |-> FALSE]}
  /\ expiry' = [expiry EXCEPT ![issued'] = now + Ttl]
  /\ Goto("prune")
  /\ UNCHANGED <<now, owner, audits, press, attempt, shown, restarts,
                 cancelled, revoked, accepted, faults, changes>>

\* The statement of its own that follows the INSERT in create_approval.
PruneAfterIssue ==
  /\ pc = "prune"
  /\ approvals' = Pruned(approvals)
  /\ Goto("offer")
  /\ UNCHANGED <<now, owner, audits, press, attempt, token, outsideVars, historyVars>>

\* The unit is gone, not unique or not on the allowlist: an answer, no token.
Refuse ==
  /\ pc = "issue"
  /\ Goto("reply")
  /\ UNCHANGED <<now, storeVars, press, attempt, token, outsideVars, historyVars>>

\* edit_message shows the token on the buttons.
Offer ==
  /\ pc = "offer"
  /\ shown' = shown \cup {token}
  /\ Goto("reply")
  /\ UNCHANGED <<now, storeVars, press, attempt, token, issued, restarts, historyVars>>

ConsumeConfirm ==
  /\ pc = "consume" /\ press.kind = "confirm"
  /\ Consume(press.token, press.from)
  /\ token' = press.token
  /\ Goto("answer")
  /\ UNCHANGED <<now, owner, audits, press, attempt, outsideVars,
                 cancelled, revoked, expiry, faults, changes>>

ConsumeCancel ==
  /\ pc = "consume" /\ press.kind = "cancel"
  /\ Consume(press.token, press.from)
  /\ cancelled' = cancelled \cup {press.token}
  /\ Goto("reply")
  /\ UNCHANGED <<now, owner, audits, press, attempt, token, outsideVars,
                 revoked, expiry, faults, changes>>

\* consume_approval returns None: "already used or expired".
ConsumeRefused ==
  /\ pc = "consume"
  /\ Acceptable(press.token, press.from) = {}
  /\ Goto("reply")
  /\ UNCHANGED <<now, storeVars, press, attempt, token, outsideVars, historyVars>>

\* answer_callback("running") worked.
Answered ==
  /\ pc = "answer"
  /\ Goto("discover")
  /\ UNCHANGED <<now, storeVars, press, attempt, token, outsideVars, historyVars>>

\* discover found the unit of the approval.
Discovered ==
  /\ pc = "discover"
  /\ Goto("execute")
  /\ UNCHANGED <<now, storeVars, press, attempt, token, outsideVars, historyVars>>

\* actions::execute keeps its result: the restart may or may not have happened
\* when it reports an error (a timeout leaves the child running).
Execute ==
  /\ pc = "execute"
  /\ restarts' \in {restarts, [restarts EXCEPT ![token] = @ + 1]}
  /\ Goto("refresh")
  /\ UNCHANGED <<now, storeVars, press, attempt, token, issued, shown, historyVars>>

\* refresh_status worked.
Refreshed ==
  /\ pc = "refresh"
  /\ Goto("record")
  /\ UNCHANGED <<now, storeVars, press, attempt, token, outsideVars, historyVars>>

\* The service_action audit row.
Record ==
  /\ pc = "record"
  /\ audits' = audits \cup {token}
  /\ Goto("tidy")
  /\ UNCHANGED <<now, owner, approvals, press, attempt, token, outsideVars, historyVars>>

\* prune_approvals.
Tidy ==
  /\ pc = "tidy"
  /\ approvals' = Pruned(approvals)
  /\ Goto("reply")
  /\ UNCHANGED <<now, owner, audits, press, attempt, token, outsideVars, historyVars>>

\* The closing edit_message and answer_callback worked: the handler returns Ok.
Reply ==
  /\ pc = "reply"
  /\ Goto("offset")
  /\ UNCHANGED <<now, storeVars, press, attempt, token, outsideVars, historyVars>>

\* The update is settled: no restart will see this press again.
Settle ==
  /\ press' = NoPress
  /\ attempt' = 0 /\ token' = NoToken
  /\ Goto("idle")

\* set_update_offset.
StoreOffset ==
  /\ pc = "offset"
  /\ Settle
  /\ UNCHANGED <<now, storeVars, outsideVars, historyVars>>

-----------------------------------------------------------------------------
(* What goes wrong                                                         *)

Fault == faults < MaxFaults /\ faults' = faults + 1

\* A step that can return Err: store calls, Telegram, systemctl, the executor's
\* own check.  actions::execute is not one of them, its error is kept.
CanFail == pc \in Steps \ {"idle", "execute", "offset"}

AttemptsLeft == attempt + 1 < MaxAttempts

\* A failed edit_message may have reached the chat all the same.
MaybeShown == shown' \in IF pc = "offer" THEN {shown, shown \cup {token}} ELSE {shown}

\* handle_update_with_retry runs the handler again from its first line.
Retry ==
  /\ CanFail /\ AttemptsLeft
  /\ Fault
  /\ attempt' = attempt + 1 /\ token' = NoToken
  /\ Goto("start")
  /\ MaybeShown
  /\ UNCHANGED <<now, storeVars, press, issued, restarts,
                 cancelled, revoked, expiry, accepted, changes>>

\* The last attempt failed: a dead letter, and the update is settled.
GiveUp ==
  /\ CanFail /\ ~AttemptsLeft
  /\ Fault
  /\ Settle
  /\ MaybeShown
  /\ UNCHANGED <<now, storeVars, issued, restarts, cancelled, revoked, expiry, accepted, changes>>

\* A crash, or a dead letter that could not be written: the press comes again.
Crash ==
  /\ pc # "idle"
  /\ Fault
  /\ attempt' = 0 /\ token' = NoToken
  /\ Goto("start")
  /\ UNCHANGED <<now, storeVars, press, outsideVars,
                 cancelled, revoked, expiry, accepted, changes>>

-----------------------------------------------------------------------------
(* Around the handler                                                      *)

\* clear_owner, in another process and at any time.
Unpair ==
  /\ owner # NoOne /\ changes < MaxOwnerChanges
  /\ owner' = NoOne
  /\ revoked' = revoked \cup {a.token : a \in {b \in approvals : ~b.consumed}}
  /\ approvals' = {}
  /\ changes' = changes + 1
  /\ UNCHANGED <<now, audits, handlerVars, outsideVars, cancelled, expiry, accepted, faults>>

\* consume_pairing_code, by the message handler: never while a callback runs.  A
\* replacement code changes the owner and leaves the approvals.
Pair ==
  /\ pc = "idle" /\ changes < MaxOwnerChanges
  /\ owner' \in Users
  /\ changes' = changes + 1
  /\ UNCHANGED <<now, approvals, audits, handlerVars, outsideVars,
                 cancelled, revoked, expiry, accepted, faults>>

Tick ==
  /\ now < MaxTime
  /\ now' = now + 1
  /\ UNCHANGED <<storeVars, handlerVars, outsideVars, historyVars>>

-----------------------------------------------------------------------------
Init ==
  /\ now = 0
  /\ owner \in Users /\ approvals = {} /\ audits = {}
  /\ pc = "idle" /\ press = NoPress /\ attempt = 0 /\ token = NoToken
  /\ issued = 0 /\ shown = {} /\ restarts = [t \in Tokens |-> 0]
  /\ cancelled = {} /\ revoked = {}
  /\ expiry = [t \in Tokens |-> 0] /\ accepted = [t \in Tokens |-> -1]
  /\ faults = 0 /\ changes = 0

Next ==
  \/ Press \/ CheckOwner
  \/ Issue \/ PruneAfterIssue \/ Refuse \/ Offer
  \/ ConsumeConfirm \/ ConsumeCancel \/ ConsumeRefused
  \/ Answered \/ Discovered \/ Execute \/ Refreshed \/ Record \/ Tidy \/ Reply \/ StoreOffset
  \/ Retry \/ GiveUp \/ Crash
  \/ Unpair \/ Pair \/ Tick

Spec == Init /\ [][Next]_vars

-----------------------------------------------------------------------------
(* Properties                                                              *)

\* Every variable keeps its type.
TypeOK ==
  /\ now \in Nat /\ owner \in Users \cup {NoOne}
  /\ approvals \subseteq Approvals /\ audits \subseteq Tokens
  /\ pc \in Steps /\ press \in Presses \cup {NoPress}
  /\ attempt \in 0 .. MaxAttempts - 1 /\ token \in Tokens \cup {NoToken}
  /\ issued \in 0 .. MaxTokens /\ shown \subseteq Tokens /\ restarts \in [Tokens -> Nat]
  /\ cancelled \subseteq Tokens /\ revoked \subseteq Tokens
  /\ expiry \in [Tokens -> Nat] /\ accepted \in [Tokens -> Nat \cup {-1}]
  /\ faults \in Nat /\ changes \in Nat

\* docs/SECURITY.md: a callback is consumed once.  However often the confirmation
\* is pressed, retried or delivered again, its token restarts the unit once.
RestartedAtMostOnce == \A t \in Tokens : restarts[t] <= 1

\* A token that was cancelled, or that an unpairing revoked before it was used,
\* restarts nothing, in whatever order the presses arrive.
WithdrawnNeverRuns == \A t \in cancelled \cup revoked : restarts[t] = 0

\* A restart needs an acceptance no later than the expiry of its token, however
\* long the handler waits, fails and starts again.
RunsOnlyInTime ==
  \A t \in Tokens : restarts[t] > 0 => 0 <= accepted[t] /\ accepted[t] <= expiry[t]

\* consume_approval does not look at the owner, which an unpairing may have cleared
\* since handle_callback checked it.  Still a token is accepted only from the user
\* it was issued to, and only while that user is the owner.
AcceptedFromTheOwner ==
  [][\A t \in Tokens : accepted'[t] # accepted[t] =>
       /\ owner = press.from
       /\ \E a \in approvals : a.token = t /\ a.actor = owner]_vars

\* An approval the owner may still confirm leaves the table only by an unpairing
\* or because MaxApprovals newer ones are pending.
LiveApprovalsKept ==
  [][\A a \in approvals :
       Live(a) /\ (\A b \in approvals' : b.token # a.token) =>
         owner' # owner \/ Cardinality({b \in approvals' : b.token > a.token}) >= MaxApprovals]_vars

\* A token is open while its row waits to be consumed.
Unused(t) == \E a \in approvals : a.token = t /\ ~a.consumed

Grant(t) ==
  CASE t > issued -> "new"
    [] t <= issued /\ Unused(t) -> "open"
    [] t <= issued /\ ~Unused(t) ->
         IF accepted[t] # -1 /\ t \notin cancelled THEN "accepted" ELSE "void"

State == [t \in Tokens |-> Grant(t)]

Promise == INSTANCE OneTimeGrant WITH Grants <- Tokens, state <- State, effects <- restarts

\* The flow implements OneTimeGrant: through pruning, cancellation, unpairing, failed
\* attempts and executions with an unknown outcome, a token is accepted while its
\* row is unused, never comes back, and restarts the unit only after that, once.
RestartsByGrant == Promise!Spec
=============================================================================
