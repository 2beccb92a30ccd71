------------------------------ MODULE Retention ------------------------------
(***************************************************************************)
(* How the audit log and the incident history are kept small.  Nothing     *)
(* sweeps them by the clock: every transaction that adds a row removes     *)
(* some of the rows that are too old, and then all but the newest.         *)
(*                                                                         *)
(* The agent and the console each have a connection of their own.  A       *)
(* writer of Store::audit or of reconcile_incidents_scoped reads the clock *)
(* before its first statement, which may wait for the other's transaction: *)
(* rows need not be in the order of their times.  Pairing and unpairing    *)
(* have the database when they read the clock.                             *)
(***************************************************************************)
EXTENDS Integers, FiniteSets

CONSTANTS
  AuditRetention,    \* AUDIT_RETENTION_SECONDS
  AuditMax,          \* AUDIT_MAX_ROWS
  HistoryRetention,  \* the 90 days of incident_history
  HistoryMax,        \* INCIDENT_HISTORY_MAX_ROWS
  Chunk              \* the LIMIT 256 of the deletions by age

\* Bounds of the model: the clock, the rows ever written, the recoveries of a pass.
CONSTANTS MaxTime, MaxEvents, MaxRecoveries

ASSUME RetentionAssumption ==
  /\ {AuditRetention, AuditMax, HistoryRetention, HistoryMax, Chunk} \subseteq Nat \ {0}
  /\ {MaxTime, MaxEvents, MaxRecoveries} \subseteq Nat

VARIABLES
  now,
  audit, lastAudit,       \* audit_events, and its last AUTOINCREMENT id
  history, lastHistory,   \* incident_history, likewise
  job,                    \* the transaction of the agent: none, audit or reconcile
  clock                   \* the time it has read

logVars == <<now, audit, lastAudit, history, lastHistory, job, clock>>

Rows == [id : Nat, at : Int]

-----------------------------------------------------------------------------
LogInit ==
    /\ now = 0
    /\ audit = {} /\ lastAudit = 0
    /\ history = {} /\ lastHistory = 0
    /\ job = "none" /\ clock = 0

Expired(rows, cutoff) == {r \in rows : r.at < cutoff}
Newer(rows, r) == {s \in rows : s.id > r.id}

\* Faulty variant: the oldest rows by id, those of them that are too old.
OldestAtOnce(rows, cutoff) ==
    Expired({r \in rows : Cardinality({s \in rows : s.id < r.id}) < Chunk}, cutoff)

\* ... WHERE occurred_at < cutoff ORDER BY id LIMIT 256.
Oldest(rows, cutoff) ==
    LET old == Expired(rows, cutoff)
    IN  {r \in old : Cardinality({s \in old : s.id < r.id}) < Chunk}

\* Faulty variant: OFFSET max - 1.
OverflowAtLimit(rows, max) == {r \in rows : Cardinality(Newer(rows, r)) >= max - 1}

\* ... WHERE id <= (the id at OFFSET max of the ids in descending order): the rows
\* with max newer ones or more.
Overflow(rows, max) == {r \in rows : Cardinality(Newer(rows, r)) >= max}

KeepNewest(rows, max) == rows \ Overflow(rows, max)

\* One event: inserted, then prune_audit_on.
WriteEvent(at) ==
    /\ lastAudit < MaxEvents
    /\ lastAudit' = lastAudit + 1
    /\ LET rows == audit \cup [id : {lastAudit + 1}, at : {at}]
       IN  audit' = KeepNewest(rows \ Oldest(rows, at - AuditRetention), AuditMax)

\* Store::audit and reconcile_incidents_scoped: the transaction is deferred, and
\* now_unix is read before a statement has asked for the database.
Begin(kind) ==
    /\ job = "none"
    /\ job' = kind /\ clock' = now
    /\ UNCHANGED <<now, audit, lastAudit, history, lastHistory>>

CommitAudit ==
    /\ job = "audit"
    /\ WriteEvent(clock)
    /\ job' = "none"
    /\ UNCHANGED <<now, history, lastHistory, clock>>

\* consume_pairing_code and clear_owner, by agent or console: the insertion and the
\* pruning read the clock anew, with the database theirs.
ChangeOwner ==
    /\ WriteEvent(now)
    /\ UNCHANGED <<now, history, lastHistory, job, clock>>

\* A row for each announced incident that is over; then old ones, in no order, and
\* all but the newest.
CommitReconcile ==
    /\ job = "reconcile"
    /\ \E n \in 0 .. MaxRecoveries :
         /\ lastHistory + n <= MaxEvents
         /\ lastHistory' = lastHistory + n
         /\ LET rows == history \cup [id : lastHistory + 1 .. lastHistory + n, at : {clock}]
                old == Expired(rows, clock - HistoryRetention)
            IN  \E gone \in SUBSET old :
                   /\ Cardinality(gone) = IF Cardinality(old) < Chunk THEN Cardinality(old) ELSE Chunk
                   /\ history' = KeepNewest(rows \ gone, HistoryMax)
    /\ job' = "none"
    /\ UNCHANGED <<now, audit, lastAudit, clock>>

\* The other connection keeps the database for longer than busy_timeout, or the
\* agent dies: nothing is written.
Abandon ==
    /\ job # "none"
    /\ job' = "none"
    /\ UNCHANGED <<now, audit, lastAudit, history, lastHistory, clock>>

Tick ==
    /\ now < MaxTime
    /\ now' = now + 1
    /\ UNCHANGED <<audit, lastAudit, history, lastHistory, job, clock>>

LogNext ==
    \/ Begin("audit") \/ Begin("reconcile")
    \/ CommitAudit \/ ChangeOwner \/ CommitReconcile
    \/ Abandon \/ Tick

LogSpec == LogInit /\ [][LogNext]_logVars

-----------------------------------------------------------------------------
\* Shape of the state: an id names one row, and none that is still to be given.
Numbered(rows, last) ==
    /\ rows \subseteq Rows /\ IsFiniteSet(rows)
    /\ \A r \in rows : r.id \in 1 .. last
    /\ \A r, s \in rows : r.id = s.id => r = s

TypeOK ==
    /\ now \in Nat /\ clock \in 0 .. now
    /\ lastAudit \in Nat /\ lastHistory \in Nat
    /\ Numbered(audit, lastAudit)
    /\ Numbered(history, lastHistory)
    /\ job \in {"none", "audit", "reconcile"}

\* OPERATIONS.md:171: the audit log never holds more than its maximum, whoever
\* writes, in which order, and however often a transaction is abandoned; nor does
\* the history, of which one pass may add many rows.
LogsAreLimited == Cardinality(audit) <= AuditMax /\ Cardinality(history) <= HistoryMax

\* No event is lost early: a row goes only if it is older than the retention, or if
\* as many newer rows as the log may hold stay behind.  Rows written late with an
\* early time are no exception.
EventsAreKept ==
    [][/\ \A r \in audit \ audit' :
            \/ r.at < now - AuditRetention
            \/ Cardinality(Newer(audit', r)) >= AuditMax
       /\ \A r \in history \ history' :
            \/ r.at < now - HistoryRetention
            \/ Cardinality(Newer(history', r)) >= HistoryMax]_logVars

\* The backlog shrinks: a transaction that adds an event leaves none that is too old
\* by its clock, or has removed a whole chunk of them.
OldEventsGo ==
    [][lastAudit' # lastAudit
       => LET cutoff == (IF job' # job THEN clock ELSE now) - AuditRetention
          IN  \/ Expired(audit', cutoff) = {}
              \/ Cardinality(Expired(audit, cutoff)) - Cardinality(Expired(audit', cutoff)) >= Chunk]_logVars
=============================================================================
