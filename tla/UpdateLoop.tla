----------------------------- MODULE UpdateLoop -----------------------------
(***************************************************************************)
(* The Telegram update loop of the agent (runtime::run).                   *)
(*                                                                         *)
(* One task polls getUpdates with its offset, handles each update of the   *)
(* reply with up to UPDATE_MAX_ATTEMPTS attempts, writes a dead letter to  *)
(* the audit log when all of them failed, stores the next offset, and only *)
(* then moves to the next update.  A monitor tick cancels a poll and runs  *)
(* a cycle in its place, and one that is ready when the select is entered  *)
(* wins before the poll can be answered.  A crash or a failed              *)
(* set_update_offset ends the process; systemd starts it again             *)
(* (Restart=on-failure), and it reads the offset back from SQLite.         *)
(*                                                                         *)
(* Telegram keeps an update until a poll with a larger offset arrives, so  *)
(* the update ids are positions in its queue: 1 .. arrived.                *)
(***************************************************************************)
EXTENDS Integers

CONSTANTS
  MaxAttempts,   \* UPDATE_MAX_ATTEMPTS
  ReplyLimit     \* most updates in one getUpdates reply

\* Bounds of the model: updates, and failures of process, store and network.
CONSTANTS MaxUpdates, MaxFaults

ASSUME ParameterAssumption ==
  /\ MaxAttempts \in Nat \ {0}
  /\ ReplyLimit \in Nat \ {0}
  /\ MaxUpdates \in Nat
  /\ MaxFaults \in Nat

Updates == 1 .. MaxUpdates

VARIABLES
  (* Telegram *)
  arrived,     \* updates the bot has received: 1 .. arrived
  confirmed,   \* updates below this offset are forgotten by Telegram
  (* SQLite: survives a crash *)
  dbOffset,    \* metadata update_offset
  audited,     \* updates with a telegram_update_dead_letter audit row
  (* the task *)
  pc,          \* what the task does next
  offset,      \* the offset of the next poll, and the update being handled
  upto,        \* last update of the reply
  attempt,     \* attempts made on update `offset` by handle_update_with_retry
  due,         \* a tick of monitor_interval is ready (missed ones are skipped)
  late,        \* the last cycle ended too late for a poll before the next tick
  (* history: read by the properties only *)
  completed,   \* updates whose handler returned Ok
  handled,     \* handled[u]: attempts ever made on update u
  faults       \* failures so far

telegramVars == <<arrived, confirmed>>
storeVars == <<dbOffset, audited>>
historyVars == <<completed, handled, faults>>
tickVars == <<due, late>>
vars == <<telegramVars, storeVars, pc, offset, upto, attempt, tickVars, historyVars>>

\* "down" waits for systemd, "stopped" is the clean end after SIGINT.
Running == {"select", "polling", "cycle", "handle", "audit", "store"}
Places == Running \cup {"down", "stopped"}

Settled == completed \cup audited

Fault == faults < MaxFaults /\ faults' = faults + 1

-----------------------------------------------------------------------------
(* Telegram                                                                *)

Arrive ==
  /\ arrived < MaxUpdates
  /\ arrived' = arrived + 1
  /\ UNCHANGED <<confirmed, storeVars, pc, offset, upto, attempt, historyVars, tickVars>>

-----------------------------------------------------------------------------
(* The task                                                                *)

\* run() up to the loop: the offset is read from the store.
Start ==
  /\ pc = "down"
  /\ pc' = "select"
  /\ offset' = dbOffset
  /\ due' = TRUE /\ late' = TRUE
  /\ UNCHANGED <<telegramVars, storeVars, upto, attempt, historyVars>>

\* get_updates sends its request; Telegram drops what lies below the offset,
\* whether or not the reply is ever read.
Poll ==
  /\ pc = "select"
  /\ confirmed' = IF offset > confirmed THEN offset ELSE confirmed
  /\ pc' = "polling"
  /\ UNCHANGED <<arrived, storeVars, offset, upto, attempt, historyVars, tickVars>>

\* Faulty variant: an update is only seen when a later one has arrived.
ReceiveLate ==
  /\ pc = "polling"
  /\ offset < arrived
  /\ upto' \in offset .. arrived - 1
  /\ upto' < offset + ReplyLimit
  /\ attempt' = 0
  /\ pc' = "handle"
  /\ UNCHANGED <<telegramVars, storeVars, offset, historyVars, tickVars>>

\* The reply: the oldest kept updates from the offset on.
Receive ==
  /\ pc = "polling"
  /\ offset <= arrived
  /\ upto' \in offset .. arrived
  /\ upto' < offset + ReplyLimit
  /\ attempt' = 0
  /\ pc' = "handle"
  /\ UNCHANGED <<telegramVars, storeVars, offset, historyVars, tickVars>>

\* The poll ends without an update: the long poll timed out with an empty reply.
PollEmpty ==
  /\ pc = "polling"
  /\ pc' = "select"
  /\ UNCHANGED <<telegramVars, storeVars, offset, upto, attempt, historyVars, tickVars>>

\* The next tick of monitor_interval is reached, whatever the task is doing.
TickFires ==
  /\ pc \in Running
  /\ ~due
  /\ due' = TRUE
  /\ UNCHANGED <<telegramVars, storeVars, pc, offset, upto, attempt, historyVars, late>>

\* The tick wins the select and drops the poll (the cycle itself is module Alerts).
StartCycle ==
  /\ pc \in {"select", "polling"}
  /\ due
  /\ due' = FALSE
  /\ pc' = "cycle"
  /\ UNCHANGED <<telegramVars, storeVars, offset, upto, attempt, historyVars, late>>

\* The cycle returns, Ok or Err, and the loop enters its select again.  Nothing
\* bounds a cycle below the interval, so the next tick may be due, or so close
\* that no poll is answered before it.
EndCycle ==
  /\ pc = "cycle"
  /\ pc' = "select"
  /\ late' \in IF due THEN {TRUE} ELSE BOOLEAN
  /\ UNCHANGED <<telegramVars, storeVars, offset, upto, attempt, historyVars, due>>

\* The poll fails; the task sleeps and polls again with the same offset.
PollFails ==
  /\ pc = "polling"
  /\ Fault
  /\ pc' = "select"
  /\ UNCHANGED <<telegramVars, storeVars, offset, upto, attempt, completed, handled, tickVars>>

\* handle_update returns Ok.
HandleOk ==
  /\ pc = "handle"
  /\ handled' = [handled EXCEPT ![offset] = @ + 1]
  /\ completed' = completed \cup {offset}
  /\ pc' = "store"
  /\ UNCHANGED <<telegramVars, storeVars, offset, upto, attempt, faults, tickVars>>

\* Faulty variant: one attempt too many.
AttemptsLeftOneMore == attempt < MaxAttempts

\* Another attempt follows as long as attempt < UPDATE_MAX_ATTEMPTS.
AttemptsLeft == attempt + 1 < MaxAttempts

\* handle_update returns Err: the next attempt, or the dead letter.
HandleFails ==
  /\ pc = "handle"
  /\ handled' = [handled EXCEPT ![offset] = @ + 1]
  /\ attempt' = attempt + 1
  /\ pc' = IF AttemptsLeft THEN "handle" ELSE "audit"
  /\ UNCHANGED <<telegramVars, storeVars, offset, upto, completed, faults, tickVars>>

\* store.audit(telegram_update_dead_letter) succeeds: the update counts as done.
DeadLetter ==
  /\ pc = "audit"
  /\ audited' = audited \cup {offset}
  /\ pc' = "store"
  /\ UNCHANGED <<telegramVars, dbOffset, offset, upto, attempt, historyVars, tickVars>>

\* Faulty variant: the rest of the reply is skipped, not asked for again.
DeadLetterFailsSkips ==
  /\ pc = "audit"
  /\ Fault
  /\ offset' = offset + 1
  /\ pc' = "select"
  /\ UNCHANGED <<telegramVars, storeVars, upto, attempt, completed, handled, tickVars>>

\* The audit write fails: `break` drops the rest of the reply, and the next poll
\* asks for the same update again.
DeadLetterFails ==
  /\ pc = "audit"
  /\ Fault
  /\ pc' = "select"
  /\ UNCHANGED <<telegramVars, storeVars, offset, upto, attempt, completed, handled, tickVars>>

\* Faulty variant: the offset stays in memory only.
StoreOffsetInMemory ==
  /\ pc = "store"
  /\ offset' = offset + 1
  /\ attempt' = 0
  /\ pc' = IF offset < upto THEN "handle" ELSE "select"
  /\ UNCHANGED <<telegramVars, storeVars, upto, historyVars, tickVars>>

\* Faulty variant: the offset of the whole reply is stored after its first update.
StoreOffsetOfReply ==
  /\ pc = "store"
  /\ dbOffset' = upto + 1
  /\ offset' = offset + 1
  /\ attempt' = 0
  /\ pc' = IF offset < upto THEN "handle" ELSE "select"
  /\ UNCHANGED <<telegramVars, audited, upto, historyVars, tickVars>>

\* set_update_offset, then the next update of the reply or the next poll.
StoreOffset ==
  /\ pc = "store"
  /\ dbOffset' = offset + 1
  /\ offset' = offset + 1
  /\ attempt' = 0
  /\ pc' = IF offset < upto THEN "handle" ELSE "select"
  /\ UNCHANGED <<telegramVars, audited, upto, historyVars, tickVars>>

\* A crash, a kill, a failed set_update_offset (run returns Err) or a failed
\* call during the start.  A crash inside a handler counts as an attempt.
Crash ==
  /\ pc \in Running
  /\ Fault
  /\ pc' = "down"
  /\ offset' = 0 /\ upto' = 0 /\ attempt' = 0
  /\ due' = FALSE /\ late' = FALSE
  /\ handled' = IF pc = "handle" THEN [handled EXCEPT ![offset] = @ + 1] ELSE handled
  /\ UNCHANGED <<telegramVars, storeVars, completed>>

\* SIGINT, seen only while the task is in its select.
Stop ==
  /\ pc \in {"select", "polling"}
  /\ pc' = "stopped"
  /\ UNCHANGED <<telegramVars, storeVars, offset, upto, attempt, historyVars, tickVars>>

\* An operator starts the stopped service again.
OperatorStart ==
  /\ pc = "stopped"
  /\ pc' = "down"
  /\ offset' = 0 /\ upto' = 0 /\ attempt' = 0
  /\ due' = FALSE /\ late' = FALSE
  /\ UNCHANGED <<telegramVars, storeVars, historyVars>>

-----------------------------------------------------------------------------
Init ==
  /\ arrived = 0 /\ confirmed = 1
  /\ dbOffset = 1 /\ audited = {}
  /\ pc = "down" /\ offset = 0 /\ upto = 0 /\ attempt = 0
  /\ due = FALSE /\ late = FALSE
  /\ completed = {} /\ handled = [u \in Updates |-> 0] /\ faults = 0

Handle == HandleOk \/ HandleFails

Next ==
  \/ Arrive
  \/ Start \/ Poll \/ Receive \/ PollEmpty \/ PollFails
  \/ TickFires \/ StartCycle \/ EndCycle
  \/ HandleOk \/ HandleFails \/ DeadLetter \/ DeadLetterFails \/ StoreOffset
  \/ Crash \/ Stop \/ OperatorStart

Spec == Init /\ [][Next]_vars

\* systemd restarts the process, time goes on, the task keeps running, and a cycle
\* ends, for every call in it has a timeout.  A poll is sent and answered only when
\* cycles leave it time: of infinitely many cycles that were not late, one is
\* followed by a poll, and one such poll by its answer.
FairSpec ==
  /\ Spec
  /\ WF_vars(Start) /\ WF_vars(Poll)
  /\ SF_vars(Poll /\ ~late) /\ SF_vars(Receive /\ ~late)
  /\ WF_vars(TickFires) /\ WF_vars(StartCycle) /\ WF_vars(EndCycle)
  /\ WF_vars(Handle) /\ WF_vars(DeadLetter) /\ WF_vars(StoreOffset)

-----------------------------------------------------------------------------
(* Properties                                                              *)

\* Every variable keeps its type.
TypeOK ==
  /\ arrived \in 0 .. MaxUpdates /\ confirmed \in Nat
  /\ dbOffset \in Nat /\ audited \subseteq Updates
  /\ pc \in Places /\ offset \in Nat /\ upto \in Nat /\ attempt \in 0 .. MaxAttempts
  /\ due \in BOOLEAN /\ late \in BOOLEAN
  /\ completed \subseteq Updates /\ handled \in [Updates -> Nat] /\ faults \in Nat

\* docs/SECURITY.md: the cursor moves on only past an update that was handled or
\* whose failure is in the audit log.  Telegram never forgets another one, even
\* when a poll is cancelled after Telegram saw its offset.
NothingForgotten == \A u \in Updates : u < confirmed => u \in Settled

\* An update is handled only when all the earlier ones are settled, also after a
\* restart and after a dead letter that could not be written.
HandledInOrder ==
  [][\A u \in Updates : handled'[u] # handled[u] =>
       \A v \in Updates : v < u => v \in Settled]_vars

\* An update costs at most UPDATE_MAX_ATTEMPTS attempts, and as many again for
\* each failure that makes Telegram deliver it once more.
AttemptsAreBounded ==
  \A u \in Updates : handled[u] <= MaxAttempts * (faults + 1)

\* A crash repeats at most one update: whatever is settled lies below the stored
\* offset, except the update at the offset itself, and without a failure that one
\* is settled only between its handler and set_update_offset.
RepeatsAtMostOne ==
  \A u \in Settled :
    /\ u <= dbOffset
    /\ u = dbOffset /\ faults = 0 => pc = "store"

\* What became of the updates below the stored offset.
Fate ==
  [u \in Updates |->
     IF u >= dbOffset THEN "waiting"
     ELSE IF u \in completed THEN "handled"
     ELSE IF u \in audited THEN "dead"
     ELSE "lost"]

Promise == INSTANCE Settlement WITH cursor <- dbOffset, fate <- Fate

\* The loop implements Settlement: with the stored offset as its cursor, updates
\* are settled one by one, in order, and a settled update stays as it is.
SettlesInOrder == Promise!Spec

\* Every update that reaches the bot is settled in the end, unless an operator
\* stops the agent, or from some point on every cycle ends so late that the next
\* tick drops the poll: then the loop does nothing but monitor, and no button is
\* ever answered.  It is enough that some cycles go on leaving the poll its time,
\* however many late ones lie between two of them.
EverySettled ==
  \A u \in Updates :
    (u <= arrived) ~> (u < dbOffset \/ pc = "stopped" \/ []late)
=============================================================================
