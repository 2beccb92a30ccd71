--------------------------- MODULE IncidentTable ---------------------------
(***************************************************************************)
(* One call of reconcile_incidents_scoped as a function of the table       *)
(* current_incidents: what a pass observed, in the order it was observed,  *)
(* against the rows within the scope of its collector.  A row says how     *)
(* often its key was observed, how bad it was the last time, and whether   *)
(* it has been announced; what is announced is module Alerts.              *)
(***************************************************************************)
EXTENDS Naturals, SequencesExt

CONSTANT Confirmation    \* incident_confirmation_count

VARIABLE incidents       \* current_incidents: its rows, by their keys

ASSUME ConfirmationAssumption == Confirmation \in 1 .. 5

\* ObservedIncident.
Observation(key, severity) == [key |-> key, severity |-> severity]

\* A list that may be empty: `if condition { incidents.push(...) }`.
PushIf(condition, key, severity) == IF condition THEN <<Observation(key, severity)>> ELSE <<>>

NewRow == [severity |-> "warning", count |-> 0, emitted |-> FALSE]

\* A count that saturates at Confirmation, instead of i64::MAX; nothing looks at the
\* difference.
Saturating(n) == IF n < Confirmation THEN n + 1 ELSE Confirmation

\* Faulty variant: the row keeps the severity it was opened with.
ObserveAsOpened(table, o) ==
    LET old == IF o.key \in DOMAIN table THEN table[o.key] ELSE [NewRow EXCEPT !.severity = o.severity]
        count == Saturating(old.count)
    IN  [k \in DOMAIN table \cup {o.key} |->
            IF k = o.key
            THEN [severity |-> old.severity, count |-> count,
                  emitted |-> old.emitted \/ count = Confirmation]
            ELSE table[k]]

\* One observation: its row counts it and takes over its severity; a row that
\* reaches the confirmation count is announced, once.
Observe(table, o) ==
    LET old == IF o.key \in DOMAIN table THEN table[o.key] ELSE NewRow
        count == Saturating(old.count)
    IN  [k \in DOMAIN table \cup {o.key} |->
            IF k = o.key
            THEN [severity |-> o.severity, count |-> count,
                  emitted |-> old.emitted \/ count = Confirmation]
            ELSE table[k]]

\* The whole pass: the rows in scope that it did not observe are removed, with a
\* recovery for those that were announced.
Reconcile(table, observed, scope) ==
    LET updated == FoldLeft(Observe, table, observed)
        seen == {observed[i].key : i \in DOMAIN observed}
    IN  Restrict(updated, {k \in DOMAIN updated : k[1] \in scope => k \in seen})

\* Faulty variant: the scope is forgotten, and every other incident recovers.
ReconcileCollectorAll(table, collector, failed) ==
    Reconcile(table, PushIf(failed, <<collector>>, "warning"),
              {k[1] : k \in DOMAIN table})

\* reconcile_collector.  The scope is the one key of the collector.
ReconcileCollector(table, collector, failed) ==
    Reconcile(table, PushIf(failed, <<collector>>, "warning"),
              {collector})

\* current_incidents(): the rows that screens and summaries show.
Confirmed(table) == {k \in DOMAIN table : table[k].emitted}

\* The icon of a list of severities.
Worst(severities) ==
    IF "critical" \in severities THEN "critical"
    ELSE IF severities = {} \/ severities = {"healthy"} THEN "healthy" ELSE "warning"
=============================================================================
