------------------------------- MODULE Alerts -------------------------------
(***************************************************************************)
(* Monitoring and alert delivery of the agent.                             *)
(*                                                                         *)
(* monitor::cycle runs every collector, reconciles what it observed with   *)
(* the incident table, and then delivers the notification outbox to the    *)
(* owner's Telegram chat.  The store (storage.rs) keeps the incidents, the *)
(* outbox, the silence expiry and the status-digest setting in SQLite, so  *)
(* they survive a crash; the program counter and the loaded batch do not.  *)
(*                                                                         *)
(* The cycle and the callback handlers run in one task (runtime::run) and  *)
(* never interleave with each other; a `g7tg unpair` process, the clock    *)
(* and a crash may strike between any two steps of a cycle.                *)
(***************************************************************************)
EXTENDS Integers, FiniteSets

CONSTANTS
  NumCollectors,      \* collectors run one after the other: 1 .. NumCollectors
  Scope,              \* Scope[c]: the incident keys collector c can report
  HealthKey,          \* HealthKey[c]: the key "agent:collector:<c>"
  Unrecordable,       \* keys validate_incident rejects (longer than 160 bytes)
  Confirmation,       \* config.incident_confirmation_count
  BatchLimit,         \* 20 notifications per cycle
  MaxRows,            \* OUTBOX_MAX_ROWS
  Retention,          \* OUTBOX_RETENTION_SECONDS
  PruneLimit,         \* aged rows one reconciliation removes: LIMIT 256
  SummaryLimit,       \* incidents a silence digest names: take(10)
  SilenceDurations,   \* 3600 and 21600 seconds
  DigestIntervals     \* STATUS_DIGEST_INTERVALS

\* Bounds of the model: the clock, the outbox ids, the failures (crashes, failed
\* store calls, failed sends and rejected observations together) and unpairings.
CONSTANTS MaxTime, MaxId, MaxFaults, MaxUnpairs

Collectors == 1 .. NumCollectors
Keys == (UNION {Scope[c] : c \in Collectors}) \cup {HealthKey[c] : c \in Collectors}

ASSUME CollectorAssumption ==
  /\ NumCollectors \in Nat \ {0}
  /\ DOMAIN Scope = Collectors
  /\ DOMAIN HealthKey = Collectors
  /\ IsFiniteSet(Keys)

ASSUME LimitAssumption ==
  /\ Confirmation \in Nat \ {0}
  /\ BatchLimit \in Nat \ {0}
  /\ MaxRows \in Nat \ {0}
  /\ Retention \in Nat
  /\ PruneLimit \in Nat \ {0}
  /\ SummaryLimit \in Nat \ {0}
  /\ SilenceDurations \subseteq Nat \ {0}
  /\ DigestIntervals \subseteq Nat \ {0}

ASSUME BoundAssumption ==
  MaxTime \in Nat /\ MaxId \in Nat /\ MaxFaults \in Nat /\ MaxUnpairs \in Nat

VARIABLES
  now,        \* the clock every now_unix() reads
  (* SQLite: survives a crash *)
  count,      \* count[k]: current_incidents.consecutive_count, 0 when k has no row
  emitted,    \* keys whose current_incidents row has opened_emitted = 1
  outbox,     \* notification_outbox
  nextId,     \* its AUTOINCREMENT id
  silence,    \* metadata notification_silence_until
  digest,     \* metadata status_digest_interval_seconds and _last_sent_at
  paired,     \* an owner is stored
  (* the monitoring task *)
  pc,         \* what monitor::cycle does next
  col,        \* the collector it is at
  batch,      \* rows loaded by pending_notifications and not yet marked
  stamp,      \* the `now` read before a due status digest is sent
  (* history: read by the properties only *)
  faults,     \* failures so far
  unpairs,    \* unpairings so far
  clean,      \* no failure, no unpairing and no unsent row lost to retention yet
  delivered,  \* ids of the rows Telegram has delivered
  hushed,     \* ids of the rows recorded while a silence was stored
  told,       \* keys the chat last heard of, by name, as an open incident
  counted,    \* keys the last silence digest counted as open without naming them
  digestAt,   \* the reading stamped on the last digest that reached the chat, or
              \* the time its schedule was chosen
  early       \* digests that reached the chat within an interval of digestAt

storeVars == <<count, emitted, outbox, nextId, silence, digest, paired>>
digestVars == <<digestAt, early>>
historyVars == <<faults, unpairs, clean, delivered, hushed, told, counted, digestVars>>
taskVars == <<pc, col, batch, stamp>>
vars == <<now, storeVars, taskVars, historyVars>>

NoSilence == -1
Off == [interval |-> 0, last |-> 0]

Notifications ==
  [id: Nat, kind: {"opened", "recovered"}, key: Keys, created: Nat, sent: BOOLEAN]

Pending(rows) == {r \in rows : ~r.sent}

Steps == {"idle", "scope", "health", "rejected", "silence", "expired", "summary",
          "clear", "load", "send", "mark", "digest", "report", "stamp"}

-----------------------------------------------------------------------------
(* The store                                                               *)

\* silence_until and expired_silence_until: the two halves of the stored expiry.
SilenceActive == silence # NoSilence /\ silence > now
SilenceExpired == silence # NoSilence /\ silence <= now

\* Faulty variant: the recoveries survive the discard.
DiscardOpened(rows) == {r \in rows : r.sent \/ r.kind = "recovered"}

\* discard_pending_notifications_on: DELETE ... WHERE sent_at IS NULL.
DiscardPending(rows) == {r \in rows : r.sent}

\* The aged rows one reconciliation removes: the query takes those with the lowest
\* ids, for without an ORDER BY the table is scanned in the order of its key.
Pruned(rows) ==
  LET aged == {r \in rows : now - r.created > Retention}
  IN  {r \in aged : Cardinality({s \in aged : s.id < r.id}) < PruneLimit}

\* Faulty variant: the row-count retention keeps the oldest rows.
RetainOldest(rows) ==
  LET left == rows \ Pruned(rows)
  IN  {r \in left : Cardinality({s \in left : s.id < r.id}) < MaxRows}

\* The age and row-count retention at the end of a reconciliation.
Retain(rows) ==
  LET left == rows \ Pruned(rows)
  IN  {r \in left : Cardinality({s \in left : s.id > r.id}) < MaxRows}

\* Keys that reach the confirmation count with this observation.
Opens(observed) == {k \in observed \ emitted : count[k] + 1 >= Confirmation}

\* Faulty variant: an unconfirmed incident that went away counts as recovered.
ClosesUnconfirmed(scope, observed) == {k \in scope \ observed : count[k] > 0}

\* Opened incidents in the scope that this pass did not observe.
Closes(scope, observed) == (scope \cap emitted) \ observed

\* The ids of the new rows: the first loop inserts the "opened" rows, the second
\* the "recovered" ones, each in an order the model leaves open.
Numberings(opens, closes) ==
  LET n == Cardinality(opens \cup closes)
  IN  {f \in [opens \cup closes -> nextId .. nextId + n - 1] :
         /\ \A j, k \in opens \cup closes : f[j] = f[k] => j = k
         /\ \A j \in opens, k \in closes : f[j] < f[k]}

Recorded(opens, ids) ==
  {[id |-> ids[k], kind |-> IF k \in opens THEN "opened" ELSE "recovered",
    key |-> k, created |-> now, sent |-> FALSE] : k \in DOMAIN ids}

\* One transaction of reconcile_incidents_scoped.  The last conjunct but one of
\* the guard keeps an id for the recovery of every open incident.
Reconcile(scope, observed) ==
  LET opens == Opens(observed)
      closes == Closes(scope, observed)
      n == Cardinality(opens \cup closes)
  IN  /\ nextId + n + Cardinality((emitted \cup opens) \ closes) <= MaxId + 1
      /\ \E ids \in Numberings(opens, closes) :
           LET rows == outbox \cup Recorded(opens, ids)
           IN  /\ outbox' = Retain(rows)
               /\ clean' = (clean /\ Pending(rows) \subseteq Retain(rows))
      /\ nextId' = nextId + n
      /\ emitted' = (emitted \cup opens) \ closes
      /\ count' = [k \in Keys |->
           IF k \in observed
           THEN IF count[k] < Confirmation THEN count[k] + 1 ELSE count[k]
           ELSE IF k \in scope THEN 0 ELSE count[k]]
      /\ hushed' = IF silence = NoSilence THEN hushed
                   ELSE hushed \cup (nextId .. nextId + n - 1)

\* pending_notifications: the oldest unsent rows.
LoadPending ==
  {r \in Pending(outbox) :
     Cardinality({s \in Pending(outbox) : s.id < r.id}) < BatchLimit}

\* Faulty variant: the newest loaded row first.
IsNewest(r) == r \in batch /\ \A s \in batch : r.id >= s.id

\* The loop over the loaded rows takes them in the order of the query.
IsHead(r) == r \in batch /\ \A s \in batch : r.id <= s.id

-----------------------------------------------------------------------------
(* One monitoring cycle                                                    *)

\* A failed store call or send ends the cycle with Err, which runtime::run logs;
\* a crash ends it too, and the restarted agent finds only the store.
Fault ==
  /\ faults < MaxFaults
  /\ faults' = faults + 1
  /\ clean' = FALSE

StartCycle ==
  /\ pc = "idle"
  /\ pc' = "scope"
  /\ col' = 1
  /\ UNCHANGED <<now, storeVars, batch, stamp, historyVars>>

\* The step after collector col: the next collector, or the silence check.
NextCollector ==
  /\ pc' = IF col = NumCollectors THEN "silence" ELSE "scope"
  /\ col' = IF col = NumCollectors THEN col ELSE col + 1

\* A collector returned its observations and the store accepted all of them.
CollectorObserved ==
  /\ pc = "scope"
  /\ \E observed \in SUBSET (Scope[col] \ Unrecordable) : Reconcile(Scope[col], observed)
  /\ pc' = "health"
  /\ UNCHANGED <<now, silence, digest, paired, col, batch, stamp,
                 faults, unpairs, delivered, told, counted, digestVars>>

\* validate_incident refused one of the observations: the transaction rolls back
\* and the `?` of monitor::cycle abandons the cycle.
CollectorRejected ==
  /\ pc = "scope"
  /\ Scope[col] \cap Unrecordable # {}
  /\ Fault
  /\ pc' = "rejected"
  /\ UNCHANGED <<now, storeVars, col, batch, stamp, unpairs, delivered, hushed, told, counted, digestVars>>

\* runtime::run logs the abandoned cycle and waits for the next tick.
LogRejected ==
  /\ pc = "rejected"
  /\ pc' = "idle"
  /\ UNCHANGED <<now, storeVars, col, batch, stamp, historyVars>>

\* reconcile_collector(.., false): the collector worked.
CollectorHealthy ==
  /\ pc = "health"
  /\ Reconcile({HealthKey[col]}, {})
  /\ NextCollector
  /\ UNCHANGED <<now, silence, digest, paired, batch, stamp,
                 faults, unpairs, delivered, told, counted, digestVars>>

\* reconcile_collector(.., true): the collector itself failed.
CollectorFailed ==
  /\ pc = "scope"
  /\ Reconcile({HealthKey[col]}, {HealthKey[col]})
  /\ NextCollector
  /\ UNCHANGED <<now, silence, digest, paired, batch, stamp,
                 faults, unpairs, delivered, told, counted, digestVars>>

\* silence_until() is Some: what this cycle recorded is discarded.
SuppressWhileSilent ==
  /\ pc = "silence"
  /\ SilenceActive
  /\ outbox' = DiscardPending(outbox)
  /\ pc' = "idle"
  /\ UNCHANGED <<now, count, emitted, nextId, silence, digest, paired, col, batch, stamp,
                 historyVars>>

NotSilent ==
  /\ pc = "silence"
  /\ ~SilenceActive
  /\ pc' = "expired"
  /\ UNCHANGED <<now, storeVars, col, batch, stamp, historyVars>>

\* Faulty variant: the silence ends without a word to the owner.
EndSilenceQuietly ==
  /\ pc = "expired"
  /\ SilenceExpired
  /\ outbox' = DiscardPending(outbox)
  /\ pc' = "clear"
  /\ UNCHANGED <<now, count, emitted, nextId, silence, digest, paired, col, batch, stamp,
                 historyVars>>

\* expired_silence_until() is Some: discard, then announce the end to the owner.
EndSilence ==
  /\ pc = "expired"
  /\ SilenceExpired
  /\ outbox' = DiscardPending(outbox)
  /\ pc' = IF paired THEN "summary" ELSE "clear"
  /\ UNCHANGED <<now, count, emitted, nextId, silence, digest, paired, col, batch, stamp,
                 historyVars>>

\* The silence digest names the first SummaryLimit of the current incidents and
\* counts the rest.  Severity and age, which decide who comes first, are not in
\* the model, so it may be any of them.
Summarised ==
  /\ \E named \in SUBSET emitted :
       /\ Cardinality(named) = IF Cardinality(emitted) <= SummaryLimit
                               THEN Cardinality(emitted) ELSE SummaryLimit
       /\ told' = named
  /\ counted' = emitted \ told'

\* Telegram accepts the silence digest.
SendSummary ==
  /\ pc = "summary"
  /\ Summarised
  /\ pc' = "clear"
  /\ UNCHANGED <<now, storeVars, col, batch, stamp, faults, unpairs, clean, delivered, hushed,
                 digestVars>>

\* Faulty variant: the elapsed expiry stays in the metadata.
ClearExpiredNothing ==
  /\ pc = "clear"
  /\ outbox' = DiscardPending(outbox)
  /\ pc' = "idle"
  /\ UNCHANGED <<now, count, emitted, nextId, silence, digest, paired, col, batch, stamp,
                 historyVars>>

\* clear_silence: discard and drop the expiry in one transaction.
ClearExpired ==
  /\ pc = "clear"
  /\ outbox' = DiscardPending(outbox)
  /\ silence' = NoSilence
  /\ pc' = "idle"
  /\ UNCHANGED <<now, count, emitted, nextId, digest, paired, col, batch, stamp, historyVars>>

\* No silence is stored: without an owner the cycle ends, with one it loads rows.
BeginDelivery ==
  /\ pc = "expired"
  /\ ~SilenceExpired
  /\ pc' = IF paired THEN "load" ELSE "idle"
  /\ UNCHANGED <<now, storeVars, col, batch, stamp, historyVars>>

LoadBatch ==
  /\ pc = "load"
  /\ batch' = LoadPending
  /\ pc' = IF batch' = {} THEN "digest" ELSE "send"
  /\ UNCHANGED <<now, storeVars, col, stamp, historyVars>>

\* The chat's view of the incidents after reading one notification.
Heard(r) ==
  /\ told' = IF r.kind = "opened" THEN told \cup {r.key} ELSE told \ {r.key}
  /\ counted' = counted \ {r.key}

\* Faulty variant: a failed send is ignored and the row marked all the same.
SendNotificationUnchecked ==
  /\ pc = "send"
  /\ UNCHANGED <<delivered, told, counted>>
  /\ pc' = "mark"
  /\ UNCHANGED <<now, storeVars, col, batch, stamp, faults, unpairs, clean, hushed, digestVars>>

SendNotification ==
  /\ pc = "send"
  /\ \E r \in batch :
       /\ IsHead(r)
       /\ delivered' = delivered \cup {r.id}
       /\ Heard(r)
  /\ pc' = "mark"
  /\ UNCHANGED <<now, storeVars, col, batch, stamp, faults, unpairs, clean, hushed, digestVars>>

\* Faulty variant: the row stays unsent.
MarkNothing ==
  /\ pc = "mark"
  /\ \E r \in batch : IsHead(r) /\ batch' = batch \ {r}
  /\ pc' = IF batch' = {} THEN "digest" ELSE "send"
  /\ UNCHANGED <<now, storeVars, col, stamp, historyVars>>

\* mark_notification_sent.
MarkSent ==
  /\ pc = "mark"
  /\ \E r \in batch :
       /\ IsHead(r)
       /\ outbox' = {IF s.id = r.id THEN [s EXCEPT !.sent = TRUE] ELSE s : s \in outbox}
       /\ batch' = batch \ {r}
  /\ pc' = IF batch' = {} THEN "digest" ELSE "send"
  /\ UNCHANGED <<now, count, emitted, nextId, silence, digest, paired, col, stamp, historyVars>>

\* status_digest_due: an interval is stored and has run out.
DigestDue == digest # Off /\ now - digest.last >= digest.interval

\* The status digest is due: its time is read before it is put together and sent.
BeginStatusDigest ==
  /\ pc = "digest"
  /\ DigestDue
  /\ stamp' = now
  /\ pc' = "report"
  /\ UNCHANGED <<now, storeVars, col, batch, historyVars>>

\* A digest reaches the chat.
DigestArrives ==
  /\ digestAt' = stamp
  /\ early' = IF now - digestAt < digest.interval THEN early + 1 ELSE early

\* A send that returned an error although Telegram may have delivered the text
\* (telegram.rs: a timeout or a lost response); the cycle ends with Err.
SendFails ==
  /\ pc \in {"summary", "send", "report"}
  /\ Fault
  /\ pc' = "idle"
  /\ batch' = {}
  /\ stamp' = 0
  /\ \/ UNCHANGED <<delivered, told, counted, digestVars>>
     \/ /\ pc = "send"
        /\ \E r \in batch : /\ IsHead(r)
                            /\ delivered' = delivered \cup {r.id}
                            /\ Heard(r)
        /\ UNCHANGED digestVars
     \/ pc = "summary" /\ Summarised /\ UNCHANGED <<delivered, digestVars>>
     \/ pc = "report" /\ DigestArrives /\ UNCHANGED <<delivered, told, counted>>
  /\ UNCHANGED <<now, storeVars, col, unpairs, hushed>>

SendStatusDigest ==
  /\ pc = "report"
  /\ DigestArrives
  /\ pc' = "stamp"
  /\ UNCHANGED <<now, storeVars, col, batch, stamp, faults, unpairs, clean, delivered, hushed,
                 told, counted>>

\* Faulty variant: the time of the digest is not stored.
MarkStatusDigestNot ==
  /\ pc = "stamp"
  /\ stamp' = 0
  /\ pc' = "idle"
  /\ UNCHANGED <<now, storeVars, col, batch, historyVars>>

\* mark_status_digest_sent.
MarkStatusDigest ==
  /\ pc = "stamp"
  /\ digest' = [digest EXCEPT !.last = stamp]
  /\ stamp' = 0
  /\ pc' = "idle"
  /\ UNCHANGED <<now, count, emitted, outbox, nextId, silence, paired, col, batch, historyVars>>

EndCycle ==
  /\ pc = "digest"
  /\ ~DigestDue
  /\ pc' = "idle"
  /\ UNCHANGED <<now, storeVars, col, batch, stamp, historyVars>>

-----------------------------------------------------------------------------
(* Callback handlers: they run only between cycles, for the owner.         *)

\* The alerts view a handler sends back names every current incident; when
\* Telegram refuses it the setting stays and the chat learns nothing.
ShowAlerts ==
  \/ told' = emitted /\ counted' = {} /\ UNCHANGED <<faults, clean>>
  \/ Fault /\ UNCHANGED <<told, counted>>

\* set_silence stores the expiry and discards in one transaction.
SetSilence ==
  /\ pc = "idle" /\ paired
  /\ \E d \in SilenceDurations : silence' = now + d
  /\ outbox' = DiscardPending(outbox)
  /\ ShowAlerts
  /\ UNCHANGED <<now, count, emitted, nextId, digest, paired, taskVars,
                 unpairs, delivered, hushed, digestVars>>

ClearSilence ==
  /\ pc = "idle" /\ paired
  /\ silence' = NoSilence
  /\ outbox' = DiscardPending(outbox)
  /\ ShowAlerts
  /\ UNCHANGED <<now, count, emitted, nextId, digest, paired, taskVars,
                 unpairs, delivered, hushed, digestVars>>

\* set_status_digest_interval_seconds.
SetDigest ==
  /\ pc = "idle" /\ paired
  /\ digest' \in {Off} \cup {[interval |-> i, last |-> now] : i \in DigestIntervals}
  /\ digestAt' = digest'.last
  /\ UNCHANGED <<now, count, emitted, outbox, nextId, silence, paired, taskVars,
                 faults, unpairs, clean, delivered, hushed, told, counted, early>>

-----------------------------------------------------------------------------
(* The rest of the world                                                   *)

\* consume_pairing_code, in the message handler of the same task.  Replacing an
\* owner leaves the same store as Unpair followed by this.
Pair ==
  /\ pc = "idle" /\ ~paired
  /\ paired' = TRUE
  /\ UNCHANGED <<now, count, emitted, outbox, nextId, silence, digest, taskVars, historyVars>>

\* clear_owner, in a process of its own: it leaves incidents, outbox and silence.
Unpair ==
  /\ paired /\ unpairs < MaxUnpairs
  /\ paired' = FALSE
  /\ unpairs' = unpairs + 1
  /\ clean' = FALSE
  /\ UNCHANGED <<now, count, emitted, outbox, nextId, silence, digest, taskVars,
                 faults, delivered, hushed, told, counted, digestVars>>

\* A crash or a failed store call between two steps of a cycle.
Interrupted ==
  /\ pc # "idle"
  /\ Fault
  /\ pc' = "idle"
  /\ batch' = {}
  /\ stamp' = 0
  /\ UNCHANGED <<now, storeVars, col, unpairs, delivered, hushed, told, counted, digestVars>>

Tick ==
  /\ now < MaxTime
  /\ now' = now + 1
  /\ UNCHANGED <<storeVars, taskVars, historyVars>>

-----------------------------------------------------------------------------
Init ==
  /\ now = 0
  /\ count = [k \in Keys |-> 0]
  /\ emitted = {} /\ outbox = {} /\ nextId = 1
  /\ silence = NoSilence /\ digest = Off
  /\ paired \in BOOLEAN
  /\ pc = "idle" /\ col = 1 /\ batch = {} /\ stamp = 0
  /\ faults = 0 /\ unpairs = 0 /\ clean = paired
  /\ delivered = {} /\ hushed = {} /\ told = {} /\ counted = {}
  /\ digestAt = 0 /\ early = 0

CycleStep ==
  \/ StartCycle \/ CollectorObserved \/ CollectorHealthy \/ CollectorFailed \/ LogRejected
  \/ SuppressWhileSilent \/ NotSilent \/ EndSilence \/ SendSummary \/ ClearExpired
  \/ BeginDelivery \/ LoadBatch \/ SendNotification \/ MarkSent
  \/ BeginStatusDigest \/ SendStatusDigest \/ MarkStatusDigest \/ EndCycle

Next ==
  \/ CycleStep
  \/ CollectorRejected \/ SendFails \/ Interrupted
  \/ SetSilence \/ ClearSilence \/ SetDigest \/ Pair \/ Unpair
  \/ Tick

Spec == Init /\ [][Next]_vars

\* The monitor interval keeps firing, every cycle step returns (each send and
\* each command has a timeout), and the clock moves on.
FairSpec == Spec /\ WF_vars(CycleStep) /\ WF_vars(Tick)

-----------------------------------------------------------------------------
(* Properties                                                              *)

\* Every variable keeps its type.
TypeOK ==
  /\ now \in Nat
  /\ count \in [Keys -> 0 .. Confirmation]
  /\ emitted \subseteq Keys
  /\ outbox \subseteq Notifications /\ batch \subseteq Notifications
  /\ nextId \in Nat \ {0}
  /\ silence \in Nat \cup {NoSilence}
  /\ digest \in [interval : DigestIntervals \cup {0}, last : Nat]
  /\ paired \in BOOLEAN
  /\ pc \in Steps /\ col \in Collectors /\ stamp \in Nat
  /\ faults \in Nat /\ unpairs \in Nat /\ clean \in BOOLEAN
  /\ delivered \subseteq Nat /\ hushed \subseteq Nat
  /\ told \subseteq Keys /\ counted \subseteq Keys
  /\ digestAt \in Nat /\ early \in Nat

\* docs/OPERATIONS.md: a notification recorded during a silence is not sent late.
\* What reconcile_incidents_scoped records while an expiry is stored, elapsed or
\* not, is never delivered, whatever crashes, failed sends and new silences
\* come between the recording and the clear_silence that ends it.
SilencedStaysSilent == hushed \cap delivered = {}

\* mark_notification_sent runs only after Telegram took the text: no outbox row
\* counts as sent that the chat never received.
SentWasDelivered == \A r \in outbox : r.sent => r.id \in delivered

\* Without a failure no notification reaches the chat twice: a delivered row that
\* is still unsent is the one the loop of monitor::cycle is about to mark.
DeliveredOnce ==
  clean => \A r \in Pending(outbox) : r.id \in delivered => pc = "mark" /\ IsHead(r)

\* The outbox and the incident table agree: of the rows of one key the unsent
\* ones alternate, and the newest, when unsent, says what the table says.
OutboxMatchesIncidents ==
  \A r \in Pending(outbox) :
    LET later == {s \in outbox : s.key = r.key /\ s.id > r.id}
    IN  /\ later = {} => (r.kind = "opened" <=> r.key \in emitted)
        /\ \A s \in later : (\A t \in later : s.id <= t.id) => s.kind # r.kind

\* Between cycles, with no silence stored and nothing left to send, the open
\* incidents are exactly those the owner has been told of by name and those the
\* last silence digest only counted ("and n more"): silences that ended by
\* themselves (the digest), by command (the alerts view, which names all) and
\* suppressed recoveries included.  Only a failure, an unpairing or the retention
\* of unsent rows can make the two differ.
OwnerIsInformed ==
  clean /\ paired /\ pc = "idle" /\ silence = NoSilence /\ Pending(outbox) = {}
    => told \cup counted = emitted /\ told \cap counted = {}

\* Notifications are delivered in the order they were recorded: no row is
\* delivered while an older one is unsent.
DeliveredInOrder ==
  [][\A i \in delivered' \ delivered : \A r \in Pending(outbox) : i <= r.id]_vars

\* An unsent notification leaves the outbox, or never enters it although it was
\* numbered, only because a silence begins, holds or ends, or because retention
\* drops it for its age or its rank.
NothingDroppedSilently ==
  [][/\ \A r \in Pending(outbox) :
          \/ \E s \in outbox' : s.id = r.id
          \/ silence # NoSilence \/ silence' # NoSilence \/ pc = "idle"
          \/ now - r.created > Retention
          \/ Cardinality({s \in outbox' : s.id > r.id}) >= MaxRows
     /\ \A i \in nextId .. nextId' - 1 :
          \/ \E s \in outbox' : s.id = i
          \/ Cardinality({s \in outbox' : s.id > i}) >= MaxRows]_vars

\* A digest reaches the chat no sooner than an interval after the time stamped on
\* the one before it (or after its schedule was chosen), though sooner after its
\* arrival when that one was slow to send: each exception costs a failure, a lost
\* answer or a crash before mark_status_digest_sent.
DigestsAreSpaced == early <= faults

\* Every notification is settled: once failures stop, each unsent row is in the
\* end delivered and marked, or dropped, unless the server has no owner.
EventuallySettled ==
  \A i \in 1 .. MaxId :
    (\E r \in Pending(outbox) : r.id = i) ~>
      (~paired \/ ~\E r \in Pending(outbox) : r.id = i)

\* A silence that has run out is removed (or replaced by a new one), so alerts
\* resume without a command.
SilenceEnds == SilenceExpired ~> ~SilenceExpired

\* docs/IMPLEMENTATION_PLAN.md promises that collectors fail in isolation: what one
\* of them reports does not keep the later ones from running in the same cycle.
CollectorsAreIsolated == pc = "rejected" => col = NumCollectors
=============================================================================
