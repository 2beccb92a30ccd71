---------------------------- MODULE AlertsProofs ----------------------------
(***************************************************************************)
(* What Alerts promises, for every set of collectors and keys, every limit *)
(* and every bound: silences hold, "sent" is true, digests keep their      *)
(* distance, and the outbox carries every incident to the owner, once, in  *)
(* order and as long as nothing fails.                                     *)
(*                                                                         *)
(* The argument for the silence: rows recorded while an expiry is stored   *)
(* wait in the outbox only as long as it stays stored (Hushed), and the    *)
(* delivery loop starts, and stays, without one (Delivering).  Neither can *)
(* be seen in one state: a batch outlives the store it was read from, so   *)
(* the invariant follows the ids through batch, outbox and history.        *)
(*                                                                         *)
(* The argument for the outbox has two more layers on that one.  Queued:   *)
(* ids order the rows as their recording did, everything marked precedes   *)
(* everything pending (SentFirst), and the batch is a prefix of what is    *)
(* pending (BatchIsOldest); so a mark is put on the oldest pending row,    *)
(* and retention, which drops the oldest rows, leaves each incident a      *)
(* suffix of its rows that still ends with what the incident table says.   *)
(* Told: an incident without undelivered pending rows is one about which   *)
(* the chat and the table agree (Informed), and the end of a silence is    *)
(* cleared only after a summary of all that is open (Announced).           *)
(***************************************************************************)
EXTENDS Alerts, FiniteSetTheorems, TLAPS

\* Ids are handed out once, below nextId.
Numbered ==
  /\ \A r \in outbox \cup batch : r.id < nextId
  /\ \A i \in hushed \cup delivered : i < nextId

\* Rows recorded during a silence wait only while its expiry is stored.
Hushed == \A r \in Pending(outbox) : r.id \in hushed => silence # NoSilence

\* The delivery loop runs without a stored expiry and over rows that are not hushed.
Delivering ==
  /\ pc = "expired" => ~SilenceActive
  /\ pc \in {"load", "send", "mark"} => silence = NoSilence
  /\ pc \notin {"send", "mark"} => batch = {}
  /\ \A r \in batch : r.id \notin hushed

\* The row about to be marked was delivered.
Marking == pc = "mark" => \A r \in batch : IsHead(r) => r.id \in delivered

\* The inductive invariant.
IInv ==
  /\ TypeOK /\ Numbered /\ Hushed /\ Delivering /\ Marking
  /\ SilencedStaysSilent /\ SentWasDelivered

-----------------------------------------------------------------------------
(* The store                                                               *)

LEMMA ScopesAreKeys ==
  ASSUME NEW c \in Collectors
  PROVE  Scope[c] \subseteq Keys /\ HealthKey[c] \in Keys
  BY DEF Keys

LEMMA RetainKeeps == ASSUME NEW rows PROVE Retain(rows) \subseteq rows
  BY DEF Retain

LEMMA DiscardKeeps ==
  ASSUME NEW rows
  PROVE  DiscardPending(rows) \subseteq rows /\ Pending(DiscardPending(rows)) = {}
  BY DEF DiscardPending, Pending

\* What one reconciliation does to the store: it keeps the types, and a row of the
\* new outbox is an old one or unsent with a fresh id.
LEMMA ReconcileFacts ==
  ASSUME TypeOK, NEW scope \in SUBSET Keys, NEW observed \in SUBSET Keys,
         Reconcile(scope, observed)
  PROVE  /\ outbox' \subseteq Notifications
         /\ nextId' \in Nat \ {0} /\ nextId <= nextId'
         /\ emitted' \subseteq Keys
         /\ count' \in [Keys -> 0 .. Confirmation]
         /\ clean' \in BOOLEAN
         /\ hushed \subseteq hushed'
         /\ \A i \in hushed' :
              i \in hushed \/ (silence # NoSilence /\ nextId <= i /\ i < nextId')
         /\ \A r \in outbox' : r \in outbox \/ (~r.sent /\ nextId <= r.id /\ r.id < nextId')
<1> DEFINE opens == Opens(observed)
           closes == Closes(scope, observed)
           n == Cardinality(opens \cup closes)
<1>1. opens \subseteq Keys /\ closes \subseteq Keys
  BY DEF Opens, Closes
<1>2. n \in Nat
  BY <1>1, CollectorAssumption, FS_Subset, FS_CardinalityType
<1>3. PICK ids \in Numberings(opens, closes) :
        /\ outbox' = Retain(outbox \cup Recorded(opens, ids))
        /\ clean' = (clean /\ Pending(outbox \cup Recorded(opens, ids))
                                \subseteq Retain(outbox \cup Recorded(opens, ids)))
  BY Zenon DEF Reconcile
<1>4. nextId' = nextId + n
  BY DEF Reconcile
<1>5. ids \in [opens \cup closes -> nextId .. nextId + n - 1]
  BY <1>3 DEF Numberings
<1>6. \A r \in Recorded(opens, ids) :
        r \in Notifications /\ ~r.sent /\ nextId <= r.id /\ r.id < nextId'
  <2> HIDE DEF opens, closes, n
  <2> SUFFICES ASSUME NEW k \in DOMAIN ids
               PROVE  LET r == [id |-> ids[k],
                                kind |-> IF k \in opens THEN "opened" ELSE "recovered",
                                key |-> k, created |-> now, sent |-> FALSE]
                      IN  r \in Notifications /\ ~r.sent /\ nextId <= r.id /\ r.id < nextId'
    BY DEF Recorded
  <2>1. k \in Keys /\ ids[k] \in nextId .. nextId + n - 1
    BY <1>1, <1>5
  <2>2. now \in Nat /\ ids[k] \in Nat /\ nextId <= ids[k] /\ ids[k] < nextId'
    BY <2>1, <1>2, <1>4 DEF TypeOK
  <2>3. QED
    BY <2>1, <2>2 DEF Notifications
<1>7. outbox' \subseteq outbox \cup Recorded(opens, ids)
  BY <1>3, RetainKeeps
<1>8. outbox' \subseteq Notifications
      /\ \A r \in outbox' : r \in outbox \/ (~r.sent /\ nextId <= r.id /\ r.id < nextId')
  BY <1>6, <1>7 DEF TypeOK
<1>9. nextId' \in Nat \ {0} /\ nextId <= nextId'
  BY <1>2, <1>4 DEF TypeOK
<1>10. emitted' \subseteq Keys
  BY <1>1 DEF Reconcile, TypeOK
<1>11. count' \in [Keys -> 0 .. Confirmation]
  <2>1. count' = [k \in Keys |->
           IF k \in observed
           THEN IF count[k] < Confirmation THEN count[k] + 1 ELSE count[k]
           ELSE IF k \in scope THEN 0 ELSE count[k]]
    BY DEF Reconcile
  <2>2. QED
    BY <2>1, LimitAssumption DEF TypeOK
<1>12. clean' \in BOOLEAN
  <2> HIDE DEF opens
  <2>1. clean' = (clean /\ Pending(outbox \cup Recorded(opens, ids))
                                \subseteq Retain(outbox \cup Recorded(opens, ids)))
    BY <1>3
  <2>2. QED
    BY <2>1, Zenon
<1>13. /\ hushed \subseteq hushed'
       /\ \A i \in hushed' :
            i \in hushed \/ (silence # NoSilence /\ nextId <= i /\ i < nextId')
  <2>1. hushed' = IF silence = NoSilence THEN hushed
                  ELSE hushed \cup (nextId .. nextId + n - 1)
    BY Zenon DEF Reconcile
  <2> HIDE DEF n
  <2>2. CASE silence = NoSilence
    BY <2>1, <2>2
  <2>3. CASE silence # NoSilence
    BY <1>2, <1>4, <2>1, <2>3 DEF TypeOK
  <2>4. QED
    BY <2>2, <2>3
<1>14. QED
  BY <1>8, <1>9, <1>10, <1>11, <1>12, <1>13

\* A reconciliation outside the delivery loop keeps the invariant.
LEMMA ReconcileIInv ==
  ASSUME IInv, pc \in {"scope", "health"},
         NEW scope \in SUBSET Keys, NEW observed \in SUBSET Keys,
         Reconcile(scope, observed),
         pc' \in {"scope", "health", "silence"}, col' \in Collectors,
         UNCHANGED <<now, silence, digest, paired, batch, stamp,
                     faults, unpairs, delivered, told, counted, digestVars>>
  PROVE  IInv'
<1>1. /\ outbox' \subseteq Notifications
      /\ nextId' \in Nat \ {0} /\ nextId <= nextId'
      /\ emitted' \subseteq Keys
      /\ count' \in [Keys -> 0 .. Confirmation]
      /\ clean' \in BOOLEAN
      /\ hushed \subseteq hushed'
      /\ \A i \in hushed' :
           i \in hushed \/ (silence # NoSilence /\ nextId <= i /\ i < nextId')
      /\ \A r \in outbox' : r \in outbox \/ (~r.sent /\ nextId <= r.id /\ r.id < nextId')
  BY ReconcileFacts DEF IInv
<1>2. /\ hushed' \subseteq Nat
      /\ hushed \subseteq hushed'
      /\ \A i \in hushed' : i < nextId'
      /\ \A i \in hushed' : i \in hushed \/ (silence # NoSilence /\ nextId <= i)
  BY <1>1 DEF IInv, TypeOK, Numbered
<1>3. batch = {} /\ batch' = {}
  BY DEF IInv, Delivering
<1>4. TypeOK'
  BY <1>1, <1>2, <1>3 DEF IInv, TypeOK, Steps, digestVars
<1>5. Numbered'
  <2>1. \A r \in outbox : r.id \in Nat /\ r.id < nextId
    BY DEF IInv, Numbered, TypeOK, Notifications
  <2>2. \A r \in outbox' \cup batch' : r.id < nextId'
    BY <1>1, <1>3, <2>1 DEF IInv, TypeOK
  <2>3. \A i \in hushed' \cup delivered' : i < nextId'
    BY <1>1, <1>2 DEF IInv, Numbered, TypeOK
  <2>4. QED
    BY <2>2, <2>3 DEF Numbered
<1>6. Hushed'
  <2> SUFFICES ASSUME NEW r \in outbox', ~r.sent, r.id \in hushed', silence = NoSilence
               PROVE  FALSE
    BY DEF Hushed, Pending
  <2>1. r.id \in hushed
    BY <1>2
  <2>2. r \notin outbox
    BY <2>1 DEF IInv, Hushed, Pending
  <2>3. nextId <= r.id
    BY <1>1, <2>2
  <2>4. r.id < nextId /\ r.id \in Nat /\ nextId \in Nat
    BY <2>1 DEF IInv, Numbered, TypeOK
  <2>5. QED
    BY <2>3, <2>4
<1>7. Delivering' /\ Marking'
  BY <1>3 DEF Delivering, Marking
<1>8. SilencedStaysSilent'
  BY <1>2 DEF IInv, SilencedStaysSilent, Numbered, TypeOK
<1>9. SentWasDelivered'
  BY <1>1 DEF IInv, SentWasDelivered
<1>10. QED
  BY <1>4, <1>5, <1>6, <1>7, <1>8, <1>9 DEF IInv

LEMMA SummaryTyped ==
  ASSUME IInv, Summarised
  PROVE  told' \subseteq Keys /\ counted' \subseteq Keys
  BY DEF Summarised, IInv, TypeOK

\* A step that records nothing keeps the invariant: rows only leave the outbox, and
\* what is delivered comes from the batch.
LEMMA FrameIInv ==
  ASSUME IInv, TypeOK', Delivering', Marking',
         UNCHANGED <<nextId, hushed>>,
         outbox' \subseteq outbox, batch' \subseteq outbox \cup batch,
         delivered \subseteq delivered',
         \A i \in delivered' : i \in delivered \/ \E r \in batch : i = r.id,
         silence' = silence \/ Pending(outbox') = {}
  PROVE  IInv'
<1>1. Numbered'
  BY DEF IInv, Numbered
<1>2. Hushed'
  BY DEF IInv, Hushed, Pending
<1>3. SilencedStaysSilent'
  BY DEF IInv, SilencedStaysSilent, Delivering
<1>4. SentWasDelivered'
  BY DEF IInv, SentWasDelivered
<1>5. QED
  BY <1>1, <1>2, <1>3, <1>4 DEF IInv

LEMMA ArrivalTyped ==
  ASSUME IInv, DigestArrives
  PROVE  digestAt' \in Nat /\ early' \in Nat
  BY DEF DigestArrives, IInv, TypeOK

LEMMA InitIInv == Init => IInv
  BY CollectorAssumption, LimitAssumption
  DEF Init, IInv, TypeOK, Numbered, Hushed, Delivering, Marking, SilencedStaysSilent,
      SentWasDelivered, Pending, Steps, Off, Collectors, NoSilence, SilenceActive

-----------------------------------------------------------------------------
(* The steps of a cycle                                                    *)

LEMMA CollectorSteps ==
  IInv /\ (CollectorObserved \/ CollectorHealthy \/ CollectorFailed) => IInv'
<1> SUFFICES ASSUME IInv, CollectorObserved \/ CollectorHealthy \/ CollectorFailed
             PROVE  IInv'
  OBVIOUS
<1>1. col \in Collectors /\ Scope[col] \subseteq Keys /\ HealthKey[col] \in Keys
  BY ScopesAreKeys DEF IInv, TypeOK
<1>2. NextCollector => pc' \in {"scope", "silence"} /\ col' \in Collectors
  BY <1>1, CollectorAssumption DEF NextCollector, Collectors
<1>3. CASE CollectorObserved
  <2>1. PICK observed \in SUBSET (Scope[col] \ Unrecordable) : Reconcile(Scope[col], observed)
    BY <1>3 DEF CollectorObserved
  <2>2. observed \in SUBSET Keys
    BY <1>1, <2>1
  <2>3. QED
    BY <1>1, <1>3, <2>1, <2>2, ReconcileIInv DEF CollectorObserved
<1>4. CASE CollectorHealthy
  BY <1>1, <1>2, <1>4, ReconcileIInv DEF CollectorHealthy
<1>5. CASE CollectorFailed
  BY <1>1, <1>2, <1>5, ReconcileIInv DEF CollectorFailed
<1>6. QED
  BY <1>3, <1>4, <1>5

\* The steps that leave outbox, batch and deliveries alone.
LEMMA ControlSteps ==
  IInv /\ (\/ StartCycle \/ LogRejected \/ NotSilent \/ BeginDelivery \/ SendSummary
           \/ BeginStatusDigest \/ SendStatusDigest \/ MarkStatusDigest \/ EndCycle \/ CollectorRejected
           \/ SetDigest \/ Pair \/ Unpair \/ Tick \/ UNCHANGED vars) => IInv'
<1> SUFFICES ASSUME IInv,
                    \/ StartCycle \/ LogRejected \/ NotSilent \/ BeginDelivery \/ SendSummary
                    \/ BeginStatusDigest \/ SendStatusDigest \/ MarkStatusDigest \/ EndCycle \/ CollectorRejected
                    \/ SetDigest \/ Pair \/ Unpair \/ Tick \/ UNCHANGED vars
             PROVE  IInv'
  OBVIOUS
<1> USE DEF StartCycle, LogRejected, NotSilent, BeginDelivery, SendSummary,
            BeginStatusDigest, SendStatusDigest, MarkStatusDigest, EndCycle, CollectorRejected, SetDigest, Pair, Unpair, Tick, Fault,
            vars, storeVars, taskVars, historyVars, digestVars
<1>1. UNCHANGED <<nextId, hushed, delivered, outbox, batch, silence>>
  OBVIOUS
<1>2. TypeOK'
  <2> USE DEF IInv, TypeOK, Steps
  <2>1. CASE StartCycle
    BY <2>1, CollectorAssumption DEF Collectors
  <2>2. CASE LogRejected \/ NotSilent \/ BeginDelivery \/ BeginStatusDigest \/ EndCycle \/ Pair
    BY <2>2
  <2>3. CASE SendSummary
    <3>1. told' \subseteq Keys /\ counted' \subseteq Keys
      BY <2>3, SummaryTyped
    <3>2. QED
      BY <2>3, <3>1
  <2>4. CASE SendStatusDigest
    <3>1. digestAt' \in Nat /\ early' \in Nat
      BY <2>4, ArrivalTyped
    <3>2. QED
      BY <2>4, <3>1
  <2>5. CASE MarkStatusDigest
    <3>1. digest' \in [interval : DigestIntervals \cup {0}, last : Nat]
      BY <2>5
    <3>2. QED
      BY <2>5, <3>1
  <2>6. CASE CollectorRejected \/ Unpair
    <3>1. clean' \in BOOLEAN /\ paired' \in BOOLEAN
      BY <2>6, Zenon
    <3>2. faults' \in Nat /\ unpairs' \in Nat /\ pc' \in Steps
      BY <2>6
    <3>3. QED
      BY <2>6, <3>1, <3>2
  <2>7. CASE SetDigest
    <3>1. digest' \in [interval : DigestIntervals \cup {0}, last : Nat]
      BY <2>7 DEF Off
    <3>2. QED
      BY <2>7, <3>1
  <2>8. CASE Tick \/ UNCHANGED vars
    BY <2>8
  <2>9. QED
    BY <2>1, <2>2, <2>3, <2>4, <2>5, <2>6, <2>7, <2>8
<1>3. Delivering'
  BY DEF IInv, Delivering, TypeOK, SilenceActive, SilenceExpired, NoSilence
<1>4. Marking'
  BY DEF IInv, Marking, IsHead
<1>5. QED
  BY <1>1, <1>2, <1>3, <1>4, FrameIInv

\* The steps that discard what is pending.
LEMMA DiscardSteps ==
  IInv /\ (SuppressWhileSilent \/ EndSilence \/ ClearExpired \/ SetSilence \/ ClearSilence)
    => IInv'
<1> SUFFICES ASSUME IInv,
                    \/ SuppressWhileSilent \/ EndSilence \/ ClearExpired
                    \/ SetSilence \/ ClearSilence
             PROVE  IInv'
  OBVIOUS
<1> USE DEF SuppressWhileSilent, EndSilence, ClearExpired, SetSilence, ClearSilence, ShowAlerts,
            Fault, taskVars, historyVars, digestVars
<1>1. UNCHANGED <<nextId, hushed, delivered, batch>> /\ outbox' = DiscardPending(outbox)
  OBVIOUS
<1>2. outbox' \subseteq outbox /\ Pending(outbox') = {}
  BY <1>1, DiscardKeeps
<1>3. TypeOK'
  <2>1. outbox' \subseteq Notifications
    BY <1>2 DEF IInv, TypeOK
  <2>2. silence' \in Nat \cup {NoSilence}
    BY LimitAssumption DEF IInv, TypeOK
  <2>3. CASE SuppressWhileSilent \/ EndSilence \/ ClearExpired
    BY <2>1, <2>2, <2>3 DEF IInv, TypeOK, Steps
  <2>4. CASE SetSilence \/ ClearSilence
    <3>1. clean' \in BOOLEAN
      BY <2>4, Zenon DEF IInv, TypeOK
    <3>2. faults' \in Nat /\ told' \subseteq Keys /\ counted' \subseteq Keys
      BY <2>4 DEF IInv, TypeOK
    <3>3. QED
      BY <2>1, <2>2, <2>4, <3>1, <3>2 DEF IInv, TypeOK
  <2>5. QED
    BY <2>3, <2>4
<1>4. Delivering' /\ Marking'
  BY DEF IInv, Delivering, Marking
<1>5. QED
  BY <1>1, <1>2, <1>3, <1>4, FrameIInv

\* The delivery loop and what can break it off.
LEMMA DeliverySteps ==
  IInv /\ (LoadBatch \/ SendNotification \/ SendFails \/ Interrupted) => IInv'
<1> SUFFICES ASSUME IInv, LoadBatch \/ SendNotification \/ SendFails \/ Interrupted
             PROVE  IInv'
  OBVIOUS
<1>1. UNCHANGED <<nextId, hushed, outbox, silence>>
  BY DEF LoadBatch, SendNotification, SendFails, Interrupted, storeVars, historyVars
<1>2. CASE LoadBatch
  <2>1. batch' \subseteq Pending(outbox) /\ Pending(outbox) \subseteq outbox
    BY <1>2 DEF LoadBatch, LoadPending, Pending
  <2>2. UNCHANGED <<delivered, stamp, col, now, count, emitted, digest, paired,
                    faults, unpairs, clean, told, counted, digestVars>>
        /\ pc = "load" /\ pc' \in {"digest", "send"}
    BY <1>2 DEF LoadBatch, storeVars, historyVars
  <2>3. TypeOK'
    BY <1>1, <2>1, <2>2 DEF IInv, TypeOK, Steps, digestVars
  <2>4. silence = NoSilence /\ \A r \in batch' : r.id \notin hushed'
    BY <1>1, <2>1, <2>2 DEF IInv, Delivering, Hushed
  <2>5. pc' \notin {"send", "mark"} => batch' = {}
    BY <1>2 DEF LoadBatch
  <2>6. Delivering' /\ Marking'
    BY <1>1, <2>2, <2>4, <2>5 DEF Delivering, Marking
  <2>7. QED
    BY <1>1, <2>1, <2>2, <2>3, <2>6, FrameIInv
<1>3. CASE SendNotification
  <2>1. PICK r \in batch : IsHead(r) /\ delivered' = delivered \cup {r.id} /\ Heard(r)
    BY <1>3 DEF SendNotification
  <2>2. r.id \in Nat /\ r.key \in Keys
    BY DEF IInv, TypeOK, Notifications
  <2>3. TypeOK'
    BY <1>3, <2>1, <2>2 DEF SendNotification, storeVars, IInv, TypeOK, Steps, Heard, digestVars
  <2>4. Delivering'
    BY <1>3 DEF SendNotification, storeVars, IInv, Delivering
  <2>5. Marking'
    <3> SUFFICES ASSUME NEW s \in batch', IsHead(s)' PROVE s.id \in delivered'
      BY DEF Marking
    <3>1. batch' = batch /\ s \in batch /\ IsHead(s)
      BY <1>3 DEF SendNotification, IsHead
    <3>2. s.id <= r.id /\ r.id <= s.id /\ s.id \in Nat
      BY <2>1, <3>1 DEF IsHead, IInv, TypeOK, Notifications
    <3>3. QED
      BY <2>1, <2>2, <3>2
  <2>6. QED
    BY <1>1, <1>3, <2>1, <2>3, <2>4, <2>5, FrameIInv DEF SendNotification
<1>4. CASE SendFails
  <2>1. /\ delivered \subseteq delivered' /\ delivered' \subseteq Nat
        /\ \A i \in delivered' : i \in delivered \/ \E r \in batch : i = r.id
    <3>1. CASE delivered' = delivered
      BY <3>1 DEF IInv, TypeOK
    <3>2. CASE \E r \in batch : delivered' = delivered \cup {r.id}
      BY <3>2 DEF IInv, TypeOK, Notifications
    <3>3. QED
      BY <1>4, <3>1, <3>2 DEF SendFails
  <2>2. /\ told' \subseteq Keys /\ counted' \subseteq Keys
        /\ digestAt' \in Nat /\ early' \in Nat
    <3>1. told' \subseteq Keys /\ counted' \subseteq Keys
      <4>1. CASE UNCHANGED <<told, counted>>
        BY <4>1 DEF IInv, TypeOK
      <4>2. CASE \E r \in batch : Heard(r)
        BY <4>2 DEF Heard, IInv, TypeOK, Notifications
      <4>3. CASE Summarised
        BY <4>3, SummaryTyped
      <4>4. QED
        BY <1>4, <4>1, <4>2, <4>3 DEF SendFails
    <3>2. DigestArrives \/ UNCHANGED digestVars
      BY <1>4 DEF SendFails
    <3>3. digestAt' \in Nat /\ early' \in Nat
      BY <3>2, ArrivalTyped DEF IInv, TypeOK, digestVars
    <3>4. QED
      BY <3>1, <3>3
  <2>3. /\ clean' \in BOOLEAN
        /\ faults' \in Nat /\ pc' = "idle" /\ batch' = {} /\ stamp' = 0
    <3>1. clean' \in BOOLEAN
      BY <1>4, Zenon DEF SendFails, Fault
    <3>2. faults' \in Nat /\ pc' = "idle" /\ batch' = {} /\ stamp' = 0
      BY <1>4 DEF SendFails, Fault, IInv, TypeOK
    <3>3. QED
      BY <3>1, <3>2
  <2>4. TypeOK'
    BY <1>4, <2>1, <2>2, <2>3 DEF SendFails, storeVars, IInv, TypeOK, Steps
  <2>5. Delivering' /\ Marking'
    BY <2>3 DEF Delivering, Marking
  <2>6. QED
    BY <1>1, <2>1, <2>3, <2>4, <2>5, FrameIInv
<1>5. CASE Interrupted
  <2>1. /\ clean' \in BOOLEAN
        /\ faults' \in Nat /\ pc' = "idle" /\ batch' = {} /\ stamp' = 0
    <3>1. clean' \in BOOLEAN
      BY <1>5, Zenon DEF Interrupted, Fault
    <3>2. faults' \in Nat /\ pc' = "idle" /\ batch' = {} /\ stamp' = 0
      BY <1>5 DEF Interrupted, Fault, IInv, TypeOK
    <3>3. QED
      BY <3>1, <3>2
  <2>2. TypeOK'
    BY <1>5, <2>1 DEF Interrupted, storeVars, IInv, TypeOK, Steps, digestVars
  <2>3. Delivering' /\ Marking'
    BY <2>1 DEF Delivering, Marking
  <2>4. QED
    BY <1>1, <1>5, <2>1, <2>2, <2>3, FrameIInv DEF Interrupted
<1>6. QED
  BY <1>2, <1>3, <1>4, <1>5

\* mark_notification_sent touches the rows with the id of the head only, which was
\* delivered.
LEMMA MarkStep == IInv /\ MarkSent => IInv'
<1> SUFFICES ASSUME IInv, MarkSent PROVE IInv'
  OBVIOUS
<1> DEFINE marked(id) == {IF s.id = id THEN [s EXCEPT !.sent = TRUE] ELSE s : s \in outbox}
<1>1. PICK r \in batch : IsHead(r) /\ outbox' = marked(r.id) /\ batch' = batch \ {r}
  BY DEF MarkSent
<1>2. r.id \in delivered /\ silence = NoSilence
  BY <1>1 DEF MarkSent, IInv, Marking, Delivering
<1>3. UNCHANGED <<now, count, emitted, nextId, silence, digest, paired, col, stamp,
                  faults, unpairs, clean, delivered, hushed, told, counted, digestVars>>
  BY DEF MarkSent, historyVars
<1>4. \A t \in outbox' :
        /\ t \in Notifications
        /\ \E s \in outbox : t.id = s.id /\ (t = s \/ (t.id = r.id /\ t.sent))
  <2> SUFFICES ASSUME NEW s \in outbox, NEW t,
                      t = IF s.id = r.id THEN [s EXCEPT !.sent = TRUE] ELSE s
               PROVE  t \in Notifications /\ t.id = s.id /\ (t = s \/ (t.id = r.id /\ t.sent))
    BY <1>1
  <2>1. s \in Notifications
    BY DEF IInv, TypeOK
  <2>2. CASE s.id = r.id
    BY <2>1, <2>2 DEF Notifications
  <2>3. CASE s.id # r.id
    BY <2>1, <2>3
  <2>4. QED
    BY <2>2, <2>3
<1>5. pc' \in {"digest", "send"} /\ (pc' = "digest" => batch' = {})
  BY DEF MarkSent
<1>6. outbox' \subseteq Notifications
  BY <1>4
<1>7. TypeOK'
  BY <1>1, <1>3, <1>5, <1>6 DEF IInv, TypeOK, Steps, digestVars
<1>8. Numbered'
  BY <1>1, <1>3, <1>4 DEF IInv, Numbered
<1>9. Hushed'
  BY <1>3, <1>4 DEF IInv, Hushed, Pending
<1>10. Delivering' /\ Marking'
  BY <1>1, <1>2, <1>3, <1>5 DEF IInv, Delivering, Marking
<1>11. SilencedStaysSilent'
  BY <1>3 DEF IInv, SilencedStaysSilent
<1>12. SentWasDelivered'
  BY <1>2, <1>3, <1>4 DEF IInv, SentWasDelivered
<1>13. QED
  BY <1>7, <1>8, <1>9, <1>10, <1>11, <1>12 DEF IInv

LEMMA NextIInv == IInv /\ [Next]_vars => IInv'
  BY CollectorSteps, ControlSteps, DiscardSteps, DeliverySteps, MarkStep DEF Next, CycleStep

THEOREM Inductive == Spec => []IInv
  BY InitIInv, NextIInv, PTL DEF Spec

-----------------------------------------------------------------------------

\* Every variable keeps its type, for every value of the constants.
THEOREM TypeCorrect == Spec => []TypeOK
  BY Inductive, PTL DEF IInv

\* A notification recorded while a silence is stored is never delivered.
THEOREM SilenceHolds == Spec => []SilencedStaysSilent
  BY Inductive, PTL DEF IInv

\* A row counts as sent only when Telegram delivered it.
THEOREM SentIsTrue == Spec => []SentWasDelivered
  BY Inductive, PTL DEF IInv

-----------------------------------------------------------------------------
(* The status digest                                                       *)

\* A digest that reached the chat and is not on record has cost a failure: the
\* stored time lags behind the stamped one only after one.  A digest under way was
\* due at its stamp, and is still due when it arrives.
Spaced ==
  /\ DigestsAreSpaced
  /\ pc = "report" => digest # Off /\ digest.last + digest.interval <= stamp /\ stamp <= now
  /\ pc = "stamp" => stamp = digestAt
  /\ pc # "stamp" /\ digest # Off /\ digest.last < digestAt => early < faults

\* The stored schedule is made of numbers.
LEMMA ScheduleTyped ==
  ASSUME TypeOK
  PROVE  /\ now \in Nat /\ stamp \in Nat /\ digestAt \in Nat /\ early \in Nat /\ faults \in Nat
         /\ digest.interval \in Nat /\ digest.last \in Nat
<1>1. digest \in [interval : DigestIntervals \cup {0}, last : Nat]
  BY DEF TypeOK
<1>2. digest.interval \in DigestIntervals \cup {0} /\ digest.last \in Nat
  BY <1>1, Zenon
<1>3. DigestIntervals \cup {0} \subseteq Nat
  BY LimitAssumption
<1>4. QED
  BY <1>2, <1>3 DEF TypeOK

\* A digest that comes early meets a stored time older than the last stamp.
LEMMA ArrivalIsPaidFor ==
  ASSUME TypeOK, Spaced, DigestArrives, pc = "report"
  PROVE  early' <= faults /\ digestAt' = stamp
<1>1. /\ now \in Nat /\ stamp \in Nat /\ digestAt \in Nat /\ early \in Nat /\ faults \in Nat
      /\ digest.interval \in Nat /\ digest.last \in Nat
  BY ScheduleTyped
<1>2. CASE now - digestAt < digest.interval
  <2>1. digest.last < digestAt /\ digest # Off
    BY <1>1, <1>2 DEF Spaced
  <2>2. early < faults /\ early' = early + 1
    BY <1>2, <2>1 DEF Spaced, DigestArrives
  <2>3. QED
    BY <1>1, <2>2 DEF DigestArrives
<1>3. CASE ~(now - digestAt < digest.interval)
  BY <1>3 DEF DigestArrives, Spaced, DigestsAreSpaced
<1>4. QED
  BY <1>2, <1>3

\* The steps that leave the schedule and its deliveries alone.
LEMMA OtherStepsSpaced ==
  ASSUME TypeOK, Spaced, UNCHANGED <<digest, digestVars>>, faults' \in Nat, faults <= faults',
         pc' \in {"report", "stamp"} => pc' = pc /\ stamp' = stamp,
         now' \in Nat, now <= now',
         pc = "stamp" => pc' = "stamp" \/ faults < faults'
  PROVE  Spaced'
  BY ScheduleTyped DEF Spaced, DigestsAreSpaced, digestVars

LEMMA SpacedStep == TypeOK /\ Spaced /\ [Next]_vars => Spaced'
<1> SUFFICES ASSUME TypeOK, Spaced, [Next]_vars PROVE Spaced'
  OBVIOUS
<1>1. faults \in Nat /\ early \in Nat /\ now \in Nat
  BY DEF TypeOK
<1> USE DEF storeVars, taskVars, historyVars
<1>2. CASE StartCycle \/ NotSilent \/ BeginDelivery \/ LoadBatch \/ EndCycle \/ LogRejected
           \/ Pair \/ Tick \/ UNCHANGED vars
  <2>1. UNCHANGED <<digest, digestVars, faults, stamp>> /\ (now' = now \/ now' = now + 1)
    BY <1>2 DEF StartCycle, NotSilent, BeginDelivery, LoadBatch, EndCycle, LogRejected, Pair,
       Tick, vars
  <2>2. pc' = pc \/ (pc # "stamp" /\ pc' \notin {"report", "stamp"})
    BY <1>2 DEF StartCycle, NotSilent, BeginDelivery, LoadBatch, EndCycle, LogRejected, Pair,
       Tick, vars
  <2>3. QED
    BY <1>1, <2>1, <2>2, OtherStepsSpaced
<1>3. CASE CollectorObserved \/ CollectorHealthy \/ CollectorFailed
  <2>1. /\ UNCHANGED <<now, digest, digestVars, faults, stamp>>
        /\ pc # "stamp" /\ pc' \notin {"report", "stamp"}
    BY <1>3 DEF CollectorObserved, CollectorHealthy, CollectorFailed, NextCollector
  <2>2. QED
    BY <1>1, <2>1, OtherStepsSpaced
<1>4. CASE SuppressWhileSilent \/ EndSilence \/ SendSummary \/ ClearExpired
           \/ SendNotification \/ MarkSent
  <2>1. /\ UNCHANGED <<now, digest, digestVars, faults, stamp>>
        /\ pc # "stamp" /\ pc' \notin {"report", "stamp"}
    BY <1>4 DEF SuppressWhileSilent, EndSilence, SendSummary, ClearExpired, SendNotification,
       MarkSent
  <2>2. QED
    BY <1>1, <2>1, OtherStepsSpaced
<1>5. CASE BeginStatusDigest
  <2>1. /\ pc = "digest" /\ DigestDue /\ stamp' = now /\ pc' = "report"
        /\ UNCHANGED <<now, digest, digestAt, early, faults>>
    BY <1>5 DEF BeginStatusDigest, digestVars
  <2>2. digest # Off /\ digest.last + digest.interval <= now
    BY <2>1, ScheduleTyped DEF DigestDue
  <2>3. QED
    BY <1>1, <2>1, <2>2 DEF Spaced, DigestsAreSpaced
<1>5a. CASE SendStatusDigest
  <2>1. /\ pc = "report" /\ DigestArrives
        /\ stamp' = stamp /\ pc' = "stamp" /\ faults' = faults
    BY <1>5a DEF SendStatusDigest
  <2>2. early' <= faults /\ digestAt' = stamp
    BY <2>1, ArrivalIsPaidFor
  <2>3. QED
    BY <2>1, <2>2 DEF Spaced, DigestsAreSpaced
<1>6. CASE MarkStatusDigest
  <2>1. /\ pc = "stamp" /\ pc' = "idle" /\ UNCHANGED <<digestAt, early, faults>>
        /\ digest' = [digest EXCEPT !.last = stamp]
    BY <1>6 DEF MarkStatusDigest, digestVars
  <2>2. digest'.last = stamp /\ stamp = digestAt /\ stamp \in Nat
    BY <2>1 DEF TypeOK, Spaced
  <2>3. QED
    BY <2>1, <2>2 DEF Spaced, DigestsAreSpaced
<1>7. CASE CollectorRejected \/ Interrupted
  <2>1. /\ UNCHANGED <<now, digest, digestVars>> /\ faults' = faults + 1
        /\ pc' \notin {"report", "stamp"}
    BY <1>7 DEF CollectorRejected, Interrupted, Fault
  <2>2. QED
    BY <1>1, <2>1, OtherStepsSpaced
<1>8. CASE SendFails
  <2>1. UNCHANGED <<now, digest>> /\ faults' = faults + 1 /\ pc' = "idle" /\ pc # "stamp"
    BY <1>8 DEF SendFails, Fault
  <2>2. CASE UNCHANGED digestVars
    BY <1>1, <2>1, <2>2, OtherStepsSpaced
  <2>3. CASE pc = "report" /\ DigestArrives
    <3>1. early' <= faults /\ early' \in Nat
      BY <1>1, <2>3, ArrivalIsPaidFor DEF DigestArrives
    <3>2. QED
      BY <1>1, <2>1, <3>1 DEF Spaced, DigestsAreSpaced
  <2>4. QED
    BY <1>8, <2>2, <2>3 DEF SendFails
<1>9. CASE SetSilence \/ ClearSilence
  <2>1. /\ UNCHANGED <<now, digest, digestVars, pc>> /\ pc = "idle"
        /\ faults' \in {faults, faults + 1}
    BY <1>9 DEF SetSilence, ClearSilence, ShowAlerts, Fault
  <2>2. QED
    BY <1>1, <2>1, OtherStepsSpaced
<1>10. CASE SetDigest
  <2>1. digestAt' = digest'.last /\ UNCHANGED <<early, faults, pc>> /\ pc = "idle"
    BY <1>10 DEF SetDigest
  <2>2. digest'.last \in Nat
    BY <1>1, <1>10 DEF SetDigest, Off
  <2>3. QED
    BY <2>1, <2>2 DEF Spaced, DigestsAreSpaced
<1>11. CASE Unpair
  <2>1. UNCHANGED <<now, digest, digestVars, pc, stamp, faults>>
    BY <1>11 DEF Unpair
  <2>2. QED
    BY <1>1, <2>1, OtherStepsSpaced
<1>12. QED
  BY <1>2, <1>3, <1>4, <1>5, <1>5a, <1>6, <1>7, <1>8, <1>9, <1>10, <1>11 DEF Next, CycleStep

\* A digest reaches the chat within an interval of the stamp of the one before only
\* once for each failure, however long the sends take.
THEOREM DigestsSpaced == Spec => []DigestsAreSpaced
<1>1. Init => Spaced
  BY DEF Init, Spaced, DigestsAreSpaced
<1>2. QED
  BY <1>1, SpacedStep, TypeCorrect, PTL DEF Spec, Spaced

-----------------------------------------------------------------------------
(* The outbox is a queue                                                   *)

\* An id names one row.
Identified(rows) == \A r, s \in rows : r.id = s.id => r = s

\* Rows are numbered in the order they were recorded.
Chronological(rows) ==
  /\ \A r \in rows : r.created <= now
  /\ \A r, s \in rows : r.id < s.id => r.created <= s.created

\* Rows are marked in the order of their ids.
SentFirst == \A r \in Pending(outbox), s \in outbox : s.sent => s.id < r.id

\* The batch is a prefix of what is pending.
BatchIsOldest ==
  /\ batch \subseteq Pending(outbox)
  /\ \A r \in batch, s \in Pending(outbox) \ batch : r.id < s.id

\* What the outbox is as a queue: the second layer of the inductive invariant.
Queued ==
  /\ IsFiniteSet(outbox) /\ Identified(outbox) /\ Chronological(outbox)
  /\ SentFirst /\ BatchIsOldest /\ OutboxMatchesIncidents

-----------------------------------------------------------------------------

\* The rows newer than r.
Above(rows, r) == {s \in rows : s.id > r.id}

\* A newer row has fewer rows above it.
LEMMA AboveShrinks ==
  ASSUME NEW rows \in SUBSET Notifications, IsFiniteSet(rows),
         NEW r \in rows, NEW s \in rows, r.id < s.id
  PROVE  /\ Cardinality(Above(rows, r)) \in Nat /\ Cardinality(Above(rows, s)) \in Nat
         /\ Cardinality(Above(rows, s)) < Cardinality(Above(rows, r))
<1>1. Above(rows, r) \subseteq rows /\ Above(rows, s) \subseteq Above(rows, r)
      /\ s \in Above(rows, r) /\ s \notin Above(rows, s)
  BY DEF Above, Notifications
<1>2. IsFiniteSet(Above(rows, r)) /\ Cardinality(Above(rows, r)) \in Nat
  BY <1>1, FS_Subset, FS_CardinalityType
<1>3. /\ IsFiniteSet(Above(rows, s)) /\ Cardinality(Above(rows, s)) \in Nat
      /\ Cardinality(Above(rows, s)) <= Cardinality(Above(rows, r))
      /\ Cardinality(Above(rows, s)) # Cardinality(Above(rows, r))
  BY <1>1, <1>2, FS_Subset, FS_CardinalityType
<1>4. QED
  BY <1>2, <1>3

\* With a row it leaves, the age retention leaves every newer one.
LEMMA PrunedFirst ==
  ASSUME now \in Nat, NEW rows \in SUBSET Notifications, IsFiniteSet(rows), Chronological(rows),
         NEW r \in rows \ Pruned(rows), NEW s \in rows, r.id < s.id
  PROVE  s \notin Pruned(rows)
<1> DEFINE aged == {t \in rows : now - t.created > Retention}
           older(u) == {t \in aged : t.id < u.id}
<1> SUFFICES ASSUME s \in aged, Cardinality(older(s)) < PruneLimit PROVE FALSE
  BY DEF Pruned
<1>1. r \in aged
  <2>1. r.created \in Nat /\ s.created \in Nat /\ r.created <= s.created
    BY DEF Chronological, Notifications
  <2>2. QED
    BY <2>1, LimitAssumption
<1>2. older(r) \subseteq older(s)
  <2>1. \A t \in rows : t.id \in Nat
    BY DEF Notifications
  <2>2. QED
    BY <2>1
<1>3. /\ Cardinality(older(s)) \in Nat /\ Cardinality(older(r)) \in Nat
      /\ Cardinality(older(r)) <= Cardinality(older(s))
  <2>1. older(s) \subseteq rows
    OBVIOUS
  <2> HIDE DEF older
  <2>2. IsFiniteSet(older(s))
    BY <2>1, FS_Subset
  <2>3. IsFiniteSet(older(r)) /\ Cardinality(older(r)) <= Cardinality(older(s))
    BY <1>2, <2>2, FS_Subset
  <2>4. QED
    BY <2>2, <2>3, FS_CardinalityType
<1>4. ~(Cardinality(older(r)) < PruneLimit)
  BY <1>1 DEF Pruned
<1> HIDE DEF older
<1>5. QED
  BY <1>3, <1>4, LimitAssumption

\* Retention keeps with a row every newer one.
LEMMA RetainKeepsNewer ==
  ASSUME now \in Nat, NEW rows \in SUBSET Notifications, IsFiniteSet(rows), Chronological(rows),
         NEW r \in Retain(rows), NEW s \in rows, r.id < s.id
  PROVE  s \in Retain(rows)
<1> DEFINE left == rows \ Pruned(rows)
<1>1. r \in left /\ Cardinality(Above(left, r)) < MaxRows
  BY DEF Retain, Above
<1>2. s \in left
  BY <1>1, PrunedFirst
<1>3. left \in SUBSET Notifications /\ IsFiniteSet(left)
  BY FS_Subset
<1>4. Cardinality(Above(left, s)) < MaxRows
  <2> HIDE DEF left
  <2>1. QED
    BY <1>1, <1>2, <1>3, AboveShrinks, LimitAssumption
<1>5. QED
  BY <1>2, <1>4 DEF Retain, Above

\* What one reconciliation records: unsent rows with fresh ids, one for each incident
\* that opened or closed, before retention.
Recording(new, scope, observed) ==
  /\ outbox' = Retain(outbox \cup new)
  /\ clean' = (clean /\ Pending(outbox \cup new) \subseteq Retain(outbox \cup new))
  /\ IsFiniteSet(new)
  /\ \A r \in new : ~r.sent /\ r.created = now /\ nextId <= r.id
  /\ \A r \in new : /\ r.key \in Opens(observed) \cup Closes(scope, observed)
                    /\ r.kind = "opened" <=> r.key \in Opens(observed)
  /\ \A r, s \in new : r.id = s.id \/ r.key = s.key => r = s
  /\ \A k \in Opens(observed) \cup Closes(scope, observed) : \E r \in new : r.key = k
  /\ \A i \in nextId .. nextId' - 1 : \E r \in new : r.id = i

\* There are n numbers from a to a + n - 1.
LEMMA CountOfNumbers ==
  ASSUME NEW a \in Nat, NEW n \in Nat
  PROVE  IsFiniteSet(a .. a + n - 1) /\ Cardinality(a .. a + n - 1) = n
<1> DEFINE b == a + n - 1
<1>1. b \in Int /\ a \in Int /\ (IF a > b THEN 0 ELSE b - a + 1) = n
  OBVIOUS
<1> HIDE DEF b
<1>2. IsFiniteSet(a .. b) /\ Cardinality(a .. b) = n
  BY <1>1, FS_Interval
<1>3. QED
  BY <1>2 DEF b

\* A reconciliation records such a set of rows.
LEMMA NewRows ==
  ASSUME TypeOK, NEW scope \in SUBSET Keys, NEW observed \in SUBSET Keys,
         Reconcile(scope, observed)
  PROVE  \E new \in SUBSET Notifications : Recording(new, scope, observed)
<1> DEFINE opens == Opens(observed)
           closes == Closes(scope, observed)
           n == Cardinality(opens \cup closes)
<1>1. opens \cup closes \in SUBSET Keys
  BY DEF Opens, Closes
<1>2. IsFiniteSet(opens \cup closes) /\ n \in Nat
  BY <1>1, CollectorAssumption, FS_Subset, FS_CardinalityType
<1>3. PICK ids \in Numberings(opens, closes) :
        /\ outbox' = Retain(outbox \cup Recorded(opens, ids))
        /\ clean' = (clean /\ Pending(outbox \cup Recorded(opens, ids))
                                \subseteq Retain(outbox \cup Recorded(opens, ids)))
  BY Zenon DEF Reconcile
<1> DEFINE row(k) == [id |-> ids[k], kind |-> IF k \in opens THEN "opened" ELSE "recovered",
                      key |-> k, created |-> now, sent |-> FALSE]
<1>4. /\ ids \in [opens \cup closes -> nextId .. nextId + n - 1]
      /\ \A j, k \in opens \cup closes : ids[j] = ids[k] => j = k
  BY <1>3 DEF Numberings
<1>5. Recorded(opens, ids) = {row(k) : k \in opens \cup closes}
  BY <1>4 DEF Recorded
<1>6. IsFiniteSet(Recorded(opens, ids))
  <2> DEFINE f == [k \in opens \cup closes |-> row(k)]
  <2> HIDE DEF row, opens, closes
  <2>1. f \in Surjection(opens \cup closes, Recorded(opens, ids))
    BY <1>5 DEF Surjection
  <2>2. QED
    BY <1>2, <2>1, FS_Surjection
<1>7. ASSUME NEW k \in opens \cup closes
      PROVE  /\ row(k) \in Notifications
             /\ ~row(k).sent /\ row(k).created = now /\ nextId <= row(k).id
             /\ row(k).key = k /\ row(k).id = ids[k]
             /\ row(k).kind = "opened" <=> k \in opens
  <2> HIDE DEF opens, closes, n
  <2>1. ids[k] \in nextId .. nextId + n - 1 /\ k \in Keys
    BY <1>1, <1>4
  <2>2. ids[k] \in Nat /\ nextId <= ids[k] /\ now \in Nat
    BY <1>2, <2>1 DEF TypeOK
  <2>3. QED
    BY <2>1, <2>2 DEF Notifications
<1> DEFINE new == Recorded(opens, ids)
<1>8. new \in SUBSET Notifications
  BY <1>5, <1>7, Zenon
<1>9. \A r \in new : /\ ~r.sent /\ r.created = now /\ nextId <= r.id
                     /\ r.key \in opens \cup closes
                     /\ r.kind = "opened" <=> r.key \in opens
  <2> HIDE DEF opens, closes, row
  <2>1. QED
    BY <1>5, <1>7
<1>10. \A r, s \in new : r.id = s.id \/ r.key = s.key => r = s
  <2> HIDE DEF opens, closes, row
  <2>1. SUFFICES ASSUME NEW j \in opens \cup closes, NEW k \in opens \cup closes,
                        row(j).id = row(k).id \/ row(j).key = row(k).key
                 PROVE  row(j) = row(k)
    BY <1>5
  <2>2. j = k
    BY <1>4, <1>7, <2>1
  <2>3. QED
    BY <2>2
<1>11. \A k \in opens \cup closes : \E r \in new : r.key = k
  <2> HIDE DEF opens, closes, row
  <2>1. QED
    BY <1>5, <1>7
<1>12. \A i \in nextId .. nextId' - 1 : \E r \in new : r.id = i
  <2> HIDE DEF opens, closes, row, n
  <2>1. nextId' = nextId + n /\ nextId \in Nat
    BY DEF Reconcile, TypeOK, n, opens, closes
  <2>2. ids \in Injection(opens \cup closes, nextId .. nextId + n - 1)
    BY <1>4 DEF Injection, IsInjective
  <2>3. /\ IsFiniteSet(nextId .. nextId + n - 1)
        /\ Cardinality(nextId .. nextId + n - 1) = n
    BY <1>2, <2>1, CountOfNumbers
  <2>4. ids \in Surjection(opens \cup closes, nextId .. nextId + n - 1)
    BY <1>2, <2>2, <2>3, FS_Injection DEF n
  <2>5. ASSUME NEW i \in nextId .. nextId' - 1
        PROVE  \E r \in new : r.id = i
    <3>1. i \in nextId .. nextId + n - 1
      BY <1>2, <2>1, <2>5
    <3>2. PICK k \in opens \cup closes : ids[k] = i
      BY <2>4, <3>1 DEF Surjection
    <3>3. row(k) \in new /\ row(k).id = i
      BY <1>5, <1>7, <3>2
    <3>4. QED
      BY <3>3
  <2>6. QED
    BY <2>5
<1>13. QED
  <2> HIDE DEF new
  <2>1. /\ outbox' = Retain(outbox \cup new)
        /\ clean' = (clean /\ Pending(outbox \cup new) \subseteq Retain(outbox \cup new))
    BY <1>3 DEF new
  <2>2. IsFiniteSet(new)
    BY <1>6 DEF new
  <2>3. QED
    BY <1>8, <1>9, <1>10, <1>11, <1>12, <2>1, <2>2, Zenon DEF Recording

\* The new ids are new.
LEMMA RecordedIdentified ==
  ASSUME IInv, Queued, NEW scope, NEW observed,
         NEW new \in SUBSET Notifications, Recording(new, scope, observed)
  PROVE  Identified(outbox \cup new)
<1>1. /\ \A r \in outbox \cup new : r.id \in Nat
      /\ \A r \in outbox, s \in new : r.id < nextId /\ nextId <= s.id /\ nextId \in Nat
  BY Zenon DEF Recording, IInv, TypeOK, Numbered, Notifications
<1>2. SUFFICES ASSUME NEW r \in outbox \cup new, NEW s \in outbox \cup new, r.id = s.id
               PROVE  r = s
  BY DEF Identified
<1>3. r \in outbox <=> s \in outbox
  BY <1>1, <1>2
<1>4. CASE r \in outbox
  BY <1>2, <1>3, <1>4 DEF Queued, Identified
<1>5. CASE r \notin outbox
  BY <1>2, <1>3, <1>5, Zenon DEF Recording
<1>6. QED
  BY <1>4, <1>5

\* A reconciliation appends to the queue, and what retention drops is its oldest part.
LEMMA ReconcileQueued ==
  ASSUME IInv, Queued, pc \in {"scope", "health"},
         NEW scope \in SUBSET Keys, NEW observed \in SUBSET Keys,
         Reconcile(scope, observed), UNCHANGED <<now, batch>>
  PROVE  Queued'
<1> DEFINE opens == Opens(observed)
           closes == Closes(scope, observed)
<1>0. PICK new \in SUBSET Notifications : Recording(new, scope, observed)
  BY NewRows DEF IInv
<1>1. /\ outbox' = Retain(outbox \cup new)
      /\ IsFiniteSet(new)
      /\ \A r \in new : /\ ~r.sent /\ r.created = now /\ nextId <= r.id
                        /\ r.key \in opens \cup closes
                        /\ r.kind = "opened" <=> r.key \in opens
      /\ \A r, s \in new : r.id = s.id \/ r.key = s.key => r = s
      /\ \A k \in opens \cup closes : \E r \in new : r.key = k
  BY <1>0, Zenon DEF Recording
<1> DEFINE rows == outbox \cup new
<1>2. /\ now \in Nat /\ nextId \in Nat /\ outbox \in SUBSET Notifications
      /\ rows \in SUBSET Notifications
      /\ \A r \in outbox : r.id < nextId
  BY DEF IInv, TypeOK, Numbered
<1>3. \A r \in outbox, s \in new : r.id < s.id
  BY <1>1, <1>2 DEF Notifications
<1>4. IsFiniteSet(rows) /\ IsFiniteSet(outbox')
  <2>1. IsFiniteSet(rows)
    BY <1>1, FS_Union DEF Queued
  <2>2. QED
    BY <1>1, <2>1, RetainKeeps, FS_Subset
<1>5. Identified(rows)
  BY <1>0, RecordedIdentified
<1>6. Chronological(rows)
  BY <1>1, <1>2, <1>3 DEF Queued, Chronological, Notifications
<1>7. outbox' \subseteq rows
  BY <1>1, RetainKeeps
<1>8. Identified(outbox') /\ Chronological(outbox)'
  BY <1>5, <1>6, <1>7 DEF Identified, Chronological
<1>9. SentFirst'
  BY <1>1, <1>3, <1>7 DEF Queued, SentFirst, Pending
<1>10. BatchIsOldest'
  BY DEF IInv, Delivering, BatchIsOldest
<1>11. OutboxMatchesIncidents'
  <2> SUFFICES ASSUME NEW r \in Pending(outbox')
               PROVE  LET later == {s \in outbox' : s.key = r.key /\ s.id > r.id}
                      IN  /\ later = {} => (r.kind = "opened" <=> r.key \in emitted')
                          /\ \A s \in later : (\A t \in later : s.id <= t.id) => s.kind # r.kind
    BY DEF OutboxMatchesIncidents
  <2> DEFINE later == {s \in outbox' : s.key = r.key /\ s.id > r.id}
  <2>0. r \in Retain(rows) /\ ~r.sent
    BY <1>1 DEF Pending
  <2>1. \A s \in rows : r.id < s.id => s \in outbox'
    BY <1>1, <1>2, <1>4, <1>6, <2>0, RetainKeepsNewer
  <2>2. /\ opens \cap emitted = {} /\ closes \subseteq emitted
        /\ emitted' = (emitted \cup opens) \ closes
    BY DEF Opens, Closes, Reconcile
  <2> HIDE DEF opens, closes
  <2>3. CASE r \in new
    <3>1. later = {}
      <4> SUFFICES ASSUME NEW s \in rows, s.key = r.key, s.id > r.id PROVE FALSE
        BY <1>7
      <4>1. r.id \in Nat /\ s.id \in Nat /\ s # r
        BY <1>2, <2>3 DEF Notifications
      <4>2. QED
        BY <1>1, <1>3, <2>3, <4>1
    <3>2. r.kind = "opened" <=> r.key \in emitted'
      BY <1>1, <2>2, <2>3
    <3>3. QED
      BY <3>1, <3>2
  <2>4. CASE r \in outbox
    <3> DEFINE before == {s \in outbox : s.key = r.key /\ s.id > r.id}
    <3>1. /\ before = {} => (r.kind = "opened" <=> r.key \in emitted)
          /\ \A s \in before : (\A t \in before : s.id <= t.id) => s.kind # r.kind
      BY <2>0, <2>4 DEF Queued, OutboxMatchesIncidents, Pending
    <3>2. before \subseteq later /\ later \subseteq before \cup new
      <4>1. before \subseteq later
        <5> SUFFICES ASSUME NEW s \in outbox, s.key = r.key, s.id > r.id
                     PROVE  s \in outbox'
          OBVIOUS
        <5>1. r.id < s.id
          BY <1>2, <2>4 DEF Notifications
        <5>2. QED
          BY <2>1, <5>1
      <4>2. QED
        BY <1>7, <4>1
    <3>3. \A s \in new : s.key = r.key => s \in later
      BY <1>2, <1>3, <2>1, <2>4 DEF Notifications
    <3>4. ASSUME later = {} PROVE r.kind = "opened" <=> r.key \in emitted'
      <4>1. r.key \notin opens \cup closes
        BY <1>1, <3>3, <3>4
      <4>2. QED
        BY <2>2, <3>1, <3>2, <3>4, <4>1
    <3>5. ASSUME NEW s \in later, \A t \in later : s.id <= t.id PROVE s.kind # r.kind
      <4>1. CASE s \in before
        BY <3>1, <3>2, <3>5, <4>1
      <4>2. CASE s \in new
        <5>1. before = {}
          <6> SUFFICES ASSUME NEW t \in before PROVE FALSE
            OBVIOUS
          <6>1. t.id < s.id /\ s.id <= t.id /\ t.id \in Nat /\ s.id \in Nat
            BY <1>2, <1>3, <3>2, <3>5, <4>2 DEF Notifications
          <6>2. QED
            BY <6>1
        <5>2. s.key = r.key
          BY <3>5
        <5>3. QED
          BY <1>1, <2>2, <3>1, <4>2, <5>1, <5>2
      <4>3. QED
        BY <3>2, <4>1, <4>2
    <3>6. QED
      BY <3>4, <3>5
  <2>5. QED
    BY <1>7, <2>3, <2>4 DEF Pending
<1>12. QED
  BY <1>4, <1>8, <1>9, <1>10, <1>11 DEF Queued

\* Two versions of one row, which differ at most in the mark.
SameRow(t, s) == t.id = s.id /\ t.kind = s.kind /\ t.key = s.key /\ t.created = s.created

\* t is what row s becomes when the rows with h's id are marked.
Version(h, t, s) ==
  /\ t = IF s.id = h.id THEN [s EXCEPT !.sent = TRUE] ELSE s
  /\ SameRow(t, s) /\ (s.id = h.id => t.sent)

\* Row h, the head of the batch, gets its mark, the rest of the outbox stays.
Marks(h) ==
  /\ IsHead(h) /\ batch' = batch \ {h}
  /\ IsFiniteSet(outbox')
  /\ \A t \in outbox' : \E s \in outbox : Version(h, t, s)
  /\ \A s \in outbox : \E t \in outbox' : Version(h, t, s)

\* The outbox before and after a mark, row by row.
LEMMA MarkedRows ==
  ASSUME TypeOK, IsFiniteSet(outbox), MarkSent
  PROVE  \E h \in batch : Marks(h)
<1> DEFINE mark(id, s) == IF s.id = id THEN [s EXCEPT !.sent = TRUE] ELSE s
<1>1. PICK r \in batch : IsHead(r) /\ batch' = batch \ {r}
                         /\ outbox' = {mark(r.id, s) : s \in outbox}
  BY DEF MarkSent
<1>2. \A s \in outbox : Version(r, mark(r.id, s), s)
  BY DEF TypeOK, Notifications, SameRow, Version
<1>3. IsFiniteSet(outbox')
  <2> DEFINE f == [s \in outbox |-> mark(r.id, s)]
  <2> HIDE DEF mark
  <2>1. f \in Surjection(outbox, outbox')
    BY <1>1 DEF Surjection
  <2>2. QED
    BY <2>1, FS_Surjection
<1> HIDE DEF mark
<1>4. QED
  BY <1>1, <1>2, <1>3 DEF Marks

\* A mark is put on the oldest pending row, so the queue stays in order.
LEMMA MarkQueued == IInv /\ Queued /\ MarkSent => Queued'
<1> SUFFICES ASSUME IInv, Queued, MarkSent PROVE Queued'
  OBVIOUS
<1>0. PICK h \in batch : Marks(h)
  BY MarkedRows DEF IInv, Queued
<1>1. /\ IsHead(h) /\ batch' = batch \ {h}
      /\ IsFiniteSet(outbox')
      /\ \A t \in outbox' : \E s \in outbox : Version(h, t, s)
      /\ \A s \in outbox : \E t \in outbox' : Version(h, t, s)
  BY <1>0 DEF Marks
<1>2. UNCHANGED <<now, emitted>>
  BY DEF MarkSent
<1>3. /\ outbox \subseteq Notifications /\ h \in outbox /\ h.id \in Nat
      /\ batch \subseteq Pending(outbox) /\ \A s \in outbox : s.id \in Nat
  BY DEF IInv, TypeOK, Queued, BatchIsOldest, Pending, Notifications
<1>4. \A t \in Pending(outbox') : t \in Pending(outbox) /\ h.id < t.id
  <2> SUFFICES ASSUME NEW t \in outbox', ~t.sent PROVE t \in outbox /\ h.id < t.id
    BY DEF Pending
  <2>1. t \in outbox /\ t.id # h.id
    BY <1>1 DEF Version
  <2>2. CASE t \in batch
    BY <1>1, <1>3, <2>1, <2>2 DEF IsHead
  <2>3. CASE t \notin batch
    BY <1>3, <2>1, <2>3 DEF Queued, BatchIsOldest, Pending
  <2>4. QED
    BY <2>1, <2>2, <2>3
<1>5. Identified(outbox')
  <2> SUFFICES ASSUME NEW t \in outbox', NEW u \in outbox', t.id = u.id PROVE t = u
    BY DEF Identified
  <2>1. PICK s \in outbox : Version(h, t, s)
    BY <1>1
  <2>2. PICK v \in outbox : Version(h, u, v)
    BY <1>1
  <2>3. s = v
    BY <2>1, <2>2 DEF Queued, Identified, SameRow, Version
  <2>4. QED
    BY <2>1, <2>2, <2>3 DEF Version
<1>6. Chronological(outbox)'
  BY <1>1, <1>2 DEF Queued, Chronological, SameRow, Version
<1>7. SentFirst'
  <2> SUFFICES ASSUME NEW r \in Pending(outbox'), NEW s \in outbox', s.sent PROVE s.id < r.id
    BY DEF SentFirst
  <2>1. PICK t \in outbox : Version(h, s, t)
    BY <1>1
  <2>2. CASE t.id = h.id
    BY <1>4, <2>1, <2>2 DEF SameRow, Version
  <2>3. CASE t.id # h.id
    BY <1>4, <2>1, <2>3 DEF Queued, SentFirst, Version
  <2>4. QED
    BY <2>2, <2>3
<1>8. BatchIsOldest'
  <2>1. \A b \in batch' : b \in Pending(outbox')
    <3> SUFFICES ASSUME NEW b \in batch, b # h PROVE b \in outbox' /\ ~b.sent
      BY <1>1 DEF Pending
    <3>1. b \in outbox /\ ~b.sent /\ b.id # h.id
      BY <1>3 DEF Queued, Identified, Pending
    <3>2. QED
      BY <1>1, <3>1 DEF Version
  <2>2. ASSUME NEW b \in batch', NEW s \in Pending(outbox') \ batch' PROVE b.id < s.id
    <3>1. b \in batch /\ s \in Pending(outbox) /\ s # h /\ s \notin batch
      BY <1>1, <1>3, <1>4
    <3>2. QED
      BY <3>1 DEF Queued, BatchIsOldest
  <2>3. QED
    BY <2>1, <2>2 DEF BatchIsOldest
<1>9. OutboxMatchesIncidents'
  <2> SUFFICES ASSUME NEW r \in Pending(outbox')
               PROVE  LET later == {s \in outbox' : s.key = r.key /\ s.id > r.id}
                      IN  /\ later = {} => (r.kind = "opened" <=> r.key \in emitted')
                          /\ \A s \in later : (\A t \in later : s.id <= t.id) => s.kind # r.kind
    BY DEF OutboxMatchesIncidents
  <2> DEFINE later == {s \in outbox' : s.key = r.key /\ s.id > r.id}
             before == {s \in outbox : s.key = r.key /\ s.id > r.id}
  <2>1. /\ before = {} => (r.kind = "opened" <=> r.key \in emitted)
        /\ \A s \in before : (\A t \in before : s.id <= t.id) => s.kind # r.kind
    BY <1>4 DEF Queued, OutboxMatchesIncidents
  <2>2. /\ \A s \in before : \E t \in later : SameRow(t, s)
        /\ \A t \in later : \E s \in before : SameRow(t, s)
    BY <1>1 DEF SameRow, Version
  <2> HIDE DEF later, before
  <2>3. QED
    <3>1. later = {} => (r.kind = "opened" <=> r.key \in emitted')
      BY <1>2, <2>1, <2>2
    <3>2. ASSUME NEW s \in later, \A t \in later : s.id <= t.id PROVE s.kind # r.kind
      <4>1. PICK q \in before : SameRow(s, q)
        BY <2>2
      <4>2. \A t \in before : q.id <= t.id
        BY <2>2, <3>2, <4>1 DEF SameRow
      <4>3. QED
        BY <2>1, <4>1, <4>2 DEF SameRow
    <3>3. QED
      BY <3>1, <3>2 DEF later
<1>10. QED
  BY <1>1, <1>5, <1>6, <1>7, <1>8, <1>9 DEF Queued

\* A discard leaves marked rows only, and no batch is loaded then.
LEMMA DiscardQueued ==
  ASSUME Queued, outbox' = DiscardPending(outbox), batch' = {}, now' = now
  PROVE  Queued'
<1>1. outbox' \subseteq outbox /\ Pending(outbox') = {}
  BY DiscardKeeps
<1>2. IsFiniteSet(outbox')
  BY <1>1, FS_Subset DEF Queued
<1>3. Identified(outbox') /\ Chronological(outbox)'
  BY <1>1 DEF Queued, Identified, Chronological
<1>4. SentFirst' /\ BatchIsOldest' /\ OutboxMatchesIncidents'
  BY <1>1 DEF SentFirst, BatchIsOldest, OutboxMatchesIncidents
<1>5. QED
  BY <1>2, <1>3, <1>4 DEF Queued

\* A step that leaves the table and the outbox alone.
LEMMA QuietQueued ==
  ASSUME TypeOK, Queued, UNCHANGED <<outbox, emitted>>, now' \in Nat, now <= now', BatchIsOldest'
  PROVE  Queued'
<1>1. Identified(outbox') /\ SentFirst' /\ OutboxMatchesIncidents'
  BY DEF Queued, SentFirst, OutboxMatchesIncidents
<1>2. Chronological(outbox)'
  BY DEF Queued, Chronological, TypeOK, Notifications
<1>3. QED
  BY <1>1, <1>2 DEF Queued

\* The query takes the oldest pending rows.
LEMMA LoadedIsOldest ==
  ASSUME TypeOK, IsFiniteSet(outbox), NEW r \in LoadPending, NEW s \in Pending(outbox) \ LoadPending,
         Identified(outbox)
  PROVE  r.id < s.id
<1> DEFINE older(t) == {u \in Pending(outbox) : u.id < t.id}
<1>1. /\ r \in outbox /\ s \in outbox /\ r # s
      /\ r.id \in Nat /\ s.id \in Nat /\ \A u \in outbox : u.id \in Nat
  BY DEF LoadPending, Pending, TypeOK, Notifications
<1>2. r.id # s.id
  BY <1>1 DEF Identified
<1>3. Cardinality(older(r)) < BatchLimit /\ ~(Cardinality(older(s)) < BatchLimit)
  BY DEF LoadPending
<1>4. ASSUME s.id < r.id PROVE FALSE
  <2>1. older(s) \subseteq older(r) /\ older(r) \subseteq outbox
    BY <1>1, <1>4 DEF Pending
  <2>2. /\ IsFiniteSet(older(r)) /\ Cardinality(older(r)) \in Nat
        /\ IsFiniteSet(older(s)) /\ Cardinality(older(s)) \in Nat
    BY <2>1, FS_Subset, FS_CardinalityType
  <2>3. Cardinality(older(s)) <= Cardinality(older(r))
    BY <2>1, <2>2, FS_Subset
  <2> HIDE DEF older
  <2>4. QED
    BY <1>3, <2>2, <2>3, LimitAssumption
<1>5. QED
  BY <1>1, <1>2, <1>4

\* The cycle's step into and along the delivery loop, as far as the queue can tell.
LEMMA BatchSteps ==
  ASSUME IInv, Queued, [Next]_vars, UNCHANGED outbox
  PROVE  BatchIsOldest'
<1>1. batch' = batch \/ batch' = {} \/ batch' = LoadPending \/ MarkSent
  BY DEF Next, CycleStep, StartCycle, CollectorObserved, CollectorHealthy, CollectorFailed,
     LogRejected, SuppressWhileSilent, NotSilent, EndSilence, SendSummary, ClearExpired,
     BeginDelivery, LoadBatch, SendNotification, BeginStatusDigest, SendStatusDigest, MarkStatusDigest, EndCycle,
     CollectorRejected, SendFails, Interrupted, SetSilence, ClearSilence, SetDigest, Pair, Unpair,
     Tick, vars, taskVars
<1>2. CASE batch' = batch
  BY <1>2 DEF Queued, BatchIsOldest
<1>3. CASE batch' = {}
  BY <1>3 DEF BatchIsOldest
<1>4. CASE batch' = LoadPending
  <2>1. LoadPending \subseteq Pending(outbox)
    BY DEF LoadPending
  <2>2. \A r \in LoadPending, s \in Pending(outbox) \ LoadPending : r.id < s.id
    BY LoadedIsOldest DEF IInv, Queued
  <2>3. QED
    BY <1>4, <2>1, <2>2 DEF BatchIsOldest
<1>5. CASE MarkSent
  BY <1>5, MarkQueued DEF Queued
<1>6. QED
  BY <1>1, <1>2, <1>3, <1>4, <1>5

\* The steps of a collector reconcile one scope with one observation.
LEMMA ScopeOfStep ==
  ASSUME TypeOK, CollectorObserved \/ CollectorHealthy \/ CollectorFailed
  PROVE  \E scope \in SUBSET Keys, observed \in SUBSET Keys : Reconcile(scope, observed)
<1>1. col \in Collectors
  BY DEF TypeOK
<1>2. Scope[col] \subseteq Keys /\ HealthKey[col] \in Keys
  BY <1>1, ScopesAreKeys
<1>3. CASE CollectorObserved
  BY <1>2, <1>3 DEF CollectorObserved
<1>4. CASE CollectorHealthy \/ CollectorFailed
  BY <1>2, <1>4 DEF CollectorHealthy, CollectorFailed
<1>5. QED
  BY <1>3, <1>4

\* Every step keeps the queue.
LEMMA QueuedStep == IInv /\ Queued /\ [Next]_vars => Queued'
<1> SUFFICES ASSUME IInv, Queued, [Next]_vars PROVE Queued'
  OBVIOUS
<1>1. TypeOK /\ TypeOK' /\ now \in Nat
  BY NextIInv DEF IInv, TypeOK
<1>2. CASE CollectorObserved \/ CollectorHealthy \/ CollectorFailed
  <2>1. PICK scope \in SUBSET Keys, observed \in SUBSET Keys : Reconcile(scope, observed)
    BY <1>1, <1>2, ScopeOfStep
  <2>2. pc \in {"scope", "health"} /\ UNCHANGED <<now, batch>>
    BY <1>2 DEF CollectorObserved, CollectorHealthy, CollectorFailed
  <2>3. QED
    BY <2>1, <2>2, ReconcileQueued
<1>3. CASE SuppressWhileSilent \/ EndSilence \/ ClearExpired \/ SetSilence \/ ClearSilence
  <2>1. outbox' = DiscardPending(outbox) /\ UNCHANGED <<now, batch>> /\ pc \notin {"send", "mark"}
    BY <1>3 DEF SuppressWhileSilent, EndSilence, ClearExpired, SetSilence, ClearSilence, taskVars
  <2>2. batch' = {}
    BY <2>1 DEF IInv, Delivering
  <2>3. QED
    BY <2>1, <2>2, DiscardQueued
<1>4. CASE MarkSent
  BY <1>4, MarkQueued
<1>5. CASE \/ StartCycle \/ LogRejected \/ NotSilent \/ SendSummary \/ BeginDelivery \/ LoadBatch
           \/ SendNotification \/ BeginStatusDigest \/ SendStatusDigest \/ MarkStatusDigest \/ EndCycle
           \/ CollectorRejected \/ SendFails \/ Interrupted \/ SetDigest \/ Pair \/ Unpair \/ Tick
           \/ UNCHANGED vars
  <2>1. UNCHANGED <<outbox, emitted>> /\ (now' = now \/ now' = now + 1)
    BY <1>5 DEF StartCycle, LogRejected, NotSilent, SendSummary, BeginDelivery, LoadBatch,
       SendNotification, BeginStatusDigest, SendStatusDigest, MarkStatusDigest, EndCycle, CollectorRejected, SendFails,
       Interrupted, SetDigest, Pair, Unpair, Tick, vars, storeVars
  <2>2. now' \in Nat /\ now <= now'
    BY <1>1, <2>1
  <2>3. QED
    BY <1>1, <2>1, <2>2, BatchSteps, QuietQueued
<1>6. QED
  BY <1>2, <1>3, <1>4, <1>5 DEF Next, CycleStep

\* An empty outbox is a queue.
LEMMA InitQueued == Init => Queued
<1> SUFFICES ASSUME Init PROVE Queued
  OBVIOUS
<1>1. outbox = {} /\ batch = {} /\ IsFiniteSet(outbox)
  BY FS_EmptySet DEF Init
<1>2. QED
  BY <1>1 DEF Queued, Identified, Chronological, SentFirst, BatchIsOldest, OutboxMatchesIncidents,
     Pending

\* The outbox is a queue in every reachable state.
THEOREM QueueInductive == Spec => [](IInv /\ Queued)
  BY InitIInv, NextIInv, InitQueued, QueuedStep, PTL DEF Spec

\* The rows of one incident alternate, and the newest, when unsent, says what the
\* incident table says.
THEOREM OutboxTrue == Spec => []OutboxMatchesIncidents
  BY QueueInductive, PTL DEF Queued

-----------------------------------------------------------------------------
(* What the chat knows                                                     *)

\* Once the pending rows of an incident are delivered, the chat and the table agree
\* about it.
Informed ==
  clean /\ silence = NoSilence =>
    \A k \in Keys :
      (\A r \in Pending(outbox) : r.key = k => r.id \in delivered) => (k \in told \cup counted <=> k \in emitted)

\* The end of a silence is cleared only after the chat heard the summary.
Announced ==
  clean => /\ paired /\ told \cap counted = {}
           /\ pc = "clear" => told \cup counted = emitted

\* What is known of the chat: the third layer of the inductive invariant.
Told == DeliveredOnce /\ Informed /\ Announced

\* At first nothing was told, and nothing is open.
LEMMA InitTold == Init => Told
  BY DEF Init, Told, DeliveredOnce, Informed, Announced, Pending

\* After a failure or an unpairing nothing is promised.
LEMMA NothingPromised == ASSUME clean' = FALSE PROVE Told'
  BY DEF Told, DeliveredOnce, Informed, Announced

\* The head of the batch is the oldest pending row.
LEMMA HeadIsOldest ==
  ASSUME IInv, Queued, NEW r \in batch, IsHead(r)
  PROVE  r \in Pending(outbox) /\ \A s \in Pending(outbox) : r.id <= s.id /\ (s.id = r.id => s = r)
<1>1. r \in Pending(outbox) /\ Pending(outbox) \subseteq outbox
  BY DEF Queued, BatchIsOldest, Pending
<1>2. ASSUME NEW s \in Pending(outbox) PROVE r.id <= s.id /\ (s.id = r.id => s = r)
  <2>1. r.id \in Nat /\ s.id \in Nat
    BY <1>1 DEF IInv, TypeOK, Notifications
  <2>2. s.id = r.id => s = r
    BY <1>1 DEF Queued, Identified
  <2>3. CASE s \in batch
    BY <2>2, <2>3 DEF IsHead
  <2>4. CASE s \notin batch
    BY <2>1, <2>2, <2>4 DEF Queued, BatchIsOldest
  <2>5. QED
    BY <2>3, <2>4
<1>3. QED
  BY <1>1, <1>2

\* A recorded row is pending, so its incident is not promised any more.
LEMMA ReconcileTold ==
  ASSUME IInv, Told, pc \in {"scope", "health"}, pc' \in {"scope", "health", "silence"},
         NEW scope \in SUBSET Keys, NEW observed \in SUBSET Keys,
         Reconcile(scope, observed), UNCHANGED <<paired, delivered, told, counted, silence>>
  PROVE  Told'
<1>0. PICK new \in SUBSET Notifications : Recording(new, scope, observed)
  BY NewRows DEF IInv
<1> DEFINE opens == Opens(observed)
           closes == Closes(scope, observed)
<1>1. /\ outbox' = Retain(outbox \cup new) /\ outbox' \subseteq outbox \cup new
      /\ \A r \in new : ~r.sent /\ nextId <= r.id
      /\ \A k \in opens \cup closes : \E r \in new : r.key = k
  <2>1. Retain(outbox \cup new) \subseteq outbox \cup new
    BY RetainKeeps
  <2>2. QED
    BY <1>0, <2>1, Zenon DEF Recording
<1>2. clean' => clean /\ Pending(outbox \cup new) \subseteq outbox'
  BY <1>0, Zenon DEF Recording
<1>3. \A r \in new : r.id \notin delivered
  BY <1>1 DEF IInv, Numbered, TypeOK, Notifications
<1>4. emitted' = (emitted \cup opens) \ closes
  BY DEF Reconcile
<1>5. DeliveredOnce'
  <2> SUFFICES ASSUME clean', NEW r \in Pending(outbox'), r.id \in delivered' PROVE FALSE
    BY DEF DeliveredOnce
  <2>1. r \in outbox /\ ~r.sent
    BY <1>1, <1>3 DEF Pending
  <2>2. clean
    BY <1>2
  <2>3. pc = "mark"
    BY <2>1, <2>2 DEF Told, DeliveredOnce, Pending
  <2>4. QED
    BY <2>3
<1>6. Informed'
  <2> SUFFICES ASSUME clean', silence = NoSilence, NEW k \in Keys,
                      \A r \in Pending(outbox') : r.key = k => r.id \in delivered
               PROVE  k \in told \cup counted <=> k \in emitted'
    BY DEF Informed
  <2>1. clean /\ Pending(outbox) \subseteq Pending(outbox') /\ new \subseteq Pending(outbox')
    BY <1>1, <1>2 DEF Pending
  <2> HIDE DEF opens, closes
  <2>2. k \notin opens \cup closes
    BY <1>1, <1>3, <2>1
  <2>3. k \in told \cup counted <=> k \in emitted
    BY <2>1 DEF Told, Informed
  <2>4. QED
    BY <1>4, <2>2, <2>3
<1>7. Announced'
  BY <1>2 DEF Told, Announced
<1>8. QED
  BY <1>5, <1>6, <1>7 DEF Told

\* One delivery: of the incident it is about nothing else is pending.
LEMMA SendTold == IInv /\ Queued /\ Told /\ SendNotification => Told'
<1> SUFFICES ASSUME IInv, Queued, Told, SendNotification PROVE Told'
  OBVIOUS
<1>1. PICK h \in batch : IsHead(h) /\ delivered' = delivered \cup {h.id} /\ Heard(h)
  BY DEF SendNotification
<1>2. /\ pc = "send" /\ pc' = "mark"
      /\ UNCHANGED <<outbox, emitted, batch, silence, clean, paired>>
  BY DEF SendNotification, storeVars
<1>3. h \in Pending(outbox) /\ \A s \in Pending(outbox) : h.id <= s.id /\ (s.id = h.id => s = h)
  BY <1>1, HeadIsOldest
<1>4. clean => \A r \in Pending(outbox) : r.id \notin delivered
  BY <1>2 DEF Told, DeliveredOnce
<1>5. DeliveredOnce'
  <2> SUFFICES ASSUME clean, NEW r \in Pending(outbox), r.id \in delivered' PROVE IsHead(r)'
    BY <1>2 DEF DeliveredOnce
  <2>1. r = h
    BY <1>1, <1>3, <1>4
  <2>2. QED
    BY <1>1, <1>2, <2>1 DEF IsHead
<1>6. Informed'
  <2> SUFFICES ASSUME clean, silence = NoSilence, NEW k \in Keys,
                      \A r \in Pending(outbox) : r.key = k => r.id \in delivered'
               PROVE  k \in told' \cup counted' <=> k \in emitted
    BY <1>2 DEF Informed
  <2>1. CASE h.key # k
    <3>1. \A r \in Pending(outbox) : r.key = k => r.id \in delivered
      BY <1>1, <1>3, <2>1
    <3>2. k \in told \cup counted <=> k \in emitted
      BY <3>1 DEF Told, Informed
    <3>3. QED
      BY <1>1, <2>1, <3>2 DEF Heard
  <2>2. CASE h.key = k
    <3> DEFINE later == {s \in outbox : s.key = h.key /\ s.id > h.id}
    <3>1. later = {}
      <4> SUFFICES ASSUME NEW s \in outbox, s.key = k, s.id > h.id PROVE FALSE
        BY <2>2
      <4>1. h.id \in Nat /\ s.id \in Nat
        BY <1>3 DEF IInv, TypeOK, Notifications, Pending
      <4>2. CASE s.sent
        <5>1. s.id < h.id
          BY <1>3, <4>2 DEF Queued, SentFirst
        <5>2. QED
          BY <4>1, <5>1
      <4>3. CASE ~s.sent
        <5>1. s \in Pending(outbox)
          BY <4>3 DEF Pending
        <5>2. s.id \in delivered' /\ s.id \notin delivered
          BY <1>4, <5>1
        <5>3. s.id = h.id
          BY <1>1, <5>2
        <5>4. QED
          BY <4>1, <5>3
      <4>4. QED
        BY <4>2, <4>3
    <3>2. h.kind = "opened" <=> k \in emitted
      BY <1>3, <2>2, <3>1 DEF Queued, OutboxMatchesIncidents
    <3>3. QED
      BY <1>1, <2>2, <3>2 DEF Heard
  <2>3. QED
    BY <2>1, <2>2
<1>7. Announced'
  BY <1>1, <1>2 DEF Told, Announced, Heard
<1>8. QED
  BY <1>5, <1>6, <1>7 DEF Told

\* The mark follows its delivery: the row that was told twice if the loop broke off
\* here is the head.
LEMMA MarkTold == IInv /\ Queued /\ Told /\ MarkSent => Told'
<1> SUFFICES ASSUME IInv, Queued, Told, MarkSent PROVE Told'
  OBVIOUS
<1>1. PICK h \in batch : Marks(h)
  BY MarkedRows DEF IInv, Queued
<1>2. /\ pc = "mark" /\ pc' \in {"digest", "send"}
      /\ UNCHANGED <<emitted, silence, clean, paired, delivered, told, counted>>
  BY DEF MarkSent, historyVars
<1>3. h.id \in delivered /\ h \in Pending(outbox)
      /\ \A s \in Pending(outbox) : h.id <= s.id /\ (s.id = h.id => s = h)
  BY <1>1, <1>2, HeadIsOldest DEF Marks, IInv, Marking
<1>4. \A t \in Pending(outbox') : t \in Pending(outbox) /\ t.id # h.id
  BY <1>1 DEF Marks, Version, Pending, SameRow
<1>5. \A s \in Pending(outbox) : s = h \/ s \in Pending(outbox')
  BY <1>1, <1>3 DEF Marks, Version, Pending
<1>6. DeliveredOnce'
  <2> SUFFICES ASSUME clean, NEW t \in Pending(outbox'), t.id \in delivered PROVE FALSE
    BY <1>2 DEF DeliveredOnce
  <2>1. IsHead(t) /\ t.id # h.id
    BY <1>4 DEF Told, DeliveredOnce
  <2>2. t.id <= h.id /\ h.id <= t.id
    BY <1>1, <2>1 DEF Marks, IsHead
  <2>3. t.id \in Nat /\ h.id \in Nat
    BY <1>3, <1>4 DEF IInv, TypeOK, Notifications, Pending
  <2>4. QED
    BY <2>1, <2>2, <2>3
<1>7. Informed'
  BY <1>2, <1>3, <1>5 DEF Told, Informed
<1>8. Announced'
  BY <1>2 DEF Told, Announced
<1>9. QED
  BY <1>6, <1>7, <1>8 DEF Told

\* A discard while a silence stays stored, or once the chat was told what is open.
LEMMA DiscardTold ==
  ASSUME IInv, Told, outbox' = DiscardPending(outbox), UNCHANGED <<emitted, paired>>,
         clean' => clean, clean' => told' \cap counted' = {},
         silence' # NoSilence \/ ~clean' \/ told' \cup counted' = emitted,
         clean' /\ pc' = "clear" => FALSE
  PROVE  Told'
<1>1. Pending(outbox') = {}
  BY DiscardKeeps
<1>2. QED
  BY <1>1 DEF Told, DeliveredOnce, Informed, Announced

\* A step that touches none of what the three say.
LEMMA QuietTold ==
  ASSUME Told, UNCHANGED <<outbox, emitted, delivered, told, counted, silence, clean>>,
         paired' = paired \/ paired',
         pc' = "clear" => pc = "clear",
         pc = "mark" => pc' = "mark" /\ batch' = batch
  PROVE  Told'
<1>1. DeliveredOnce'
  BY DEF Told, DeliveredOnce, IsHead
<1>2. Informed'
  BY DEF Told, Informed
<1>3. Announced'
  BY DEF Told, Announced
<1>4. QED
  BY <1>1, <1>2, <1>3 DEF Told

\* Every step keeps what is known of the chat.
LEMMA ToldStep == IInv /\ Queued /\ Told /\ [Next]_vars => Told'
<1> SUFFICES ASSUME IInv, Queued, Told, [Next]_vars PROVE Told'
  OBVIOUS
<1>1. CASE CollectorObserved \/ CollectorHealthy \/ CollectorFailed
  <2>1. PICK scope \in SUBSET Keys, observed \in SUBSET Keys : Reconcile(scope, observed)
    BY <1>1, ScopeOfStep DEF IInv
  <2>2. /\ pc \in {"scope", "health"} /\ pc' \in {"scope", "health", "silence"}
        /\ UNCHANGED <<paired, delivered, told, counted, silence>>
    BY <1>1 DEF CollectorObserved, CollectorHealthy, CollectorFailed, NextCollector
  <2>3. QED
    BY <2>1, <2>2, ReconcileTold
<1>2. CASE SuppressWhileSilent
  <2>1. /\ silence' # NoSilence /\ clean' = clean /\ pc' = "idle"
        /\ clean => told' \cap counted' = {}
    BY <1>2 DEF SuppressWhileSilent, SilenceActive, historyVars, Told, Announced
  <2>2. QED
    BY <1>2, <2>1, DiscardTold DEF SuppressWhileSilent
<1>3. CASE EndSilence
  <2>1. /\ silence' # NoSilence /\ clean' = clean
        /\ clean => pc' = "summary" /\ told' \cap counted' = {}
    BY <1>3 DEF EndSilence, SilenceExpired, historyVars, Told, Announced
  <2>2. QED
    BY <1>3, <2>1, DiscardTold DEF EndSilence
<1>4. CASE ClearExpired
  <2>1. /\ clean' = clean /\ pc' = "idle"
        /\ clean => told' \cup counted' = emitted /\ told' \cap counted' = {}
    BY <1>4 DEF ClearExpired, historyVars, Told, Announced
  <2>2. QED
    BY <1>4, <2>1, DiscardTold DEF ClearExpired
<1>5. CASE SetSilence \/ ClearSilence
  <2>1. /\ outbox' = DiscardPending(outbox) /\ UNCHANGED <<emitted, paired>>
        /\ pc' = "idle" /\ ShowAlerts
    BY <1>5 DEF SetSilence, ClearSilence, taskVars
  <2>2. CASE clean' = FALSE
    BY <2>2, NothingPromised
  <2>3. CASE told' = emitted /\ counted' = {} /\ clean' = clean
    BY <2>1, <2>3, DiscardTold
  <2>4. QED
    BY <2>1, <2>2, <2>3 DEF ShowAlerts, Fault
<1>6. CASE SendNotification
  BY <1>6, SendTold
<1>7. CASE MarkSent
  BY <1>7, MarkTold
<1>8. CASE SendSummary
  <2>1. /\ pc' = "clear" /\ pc = "summary"
        /\ UNCHANGED <<outbox, emitted, delivered, silence, clean, paired, batch>>
    BY <1>8 DEF SendSummary, storeVars
  <2>2. told' \cup counted' = emitted /\ told' \cap counted' = {}
    BY <1>8 DEF SendSummary, Summarised
  <2>3. QED
    BY <2>1, <2>2 DEF Told, DeliveredOnce, Informed, Announced
<1>9. CASE CollectorRejected \/ SendFails \/ Interrupted \/ Unpair
  BY <1>9, NothingPromised DEF CollectorRejected, SendFails, Interrupted, Unpair, Fault
<1>10. CASE \/ StartCycle \/ LogRejected \/ NotSilent \/ BeginDelivery \/ LoadBatch
            \/ BeginStatusDigest \/ SendStatusDigest \/ MarkStatusDigest \/ EndCycle \/ SetDigest \/ Pair
  <2>1. /\ UNCHANGED <<outbox, emitted, delivered, told, counted, silence, clean>>
        /\ pc # "mark" /\ pc' # "clear"
    BY <1>10 DEF StartCycle, LogRejected, NotSilent, BeginDelivery, LoadBatch, BeginStatusDigest, SendStatusDigest,
       MarkStatusDigest, EndCycle, SetDigest, Pair, storeVars, taskVars, historyVars
  <2>2. paired' = paired \/ paired'
    BY <1>10 DEF StartCycle, LogRejected, NotSilent, BeginDelivery, LoadBatch, BeginStatusDigest, SendStatusDigest,
       MarkStatusDigest, EndCycle, SetDigest, Pair, storeVars
  <2>3. QED
    BY <2>1, <2>2, QuietTold
<1>11. CASE Tick \/ UNCHANGED vars
  BY <1>11, QuietTold DEF Tick, vars, storeVars, taskVars, historyVars
<1>12. QED
  BY <1>1, <1>2, <1>3, <1>4, <1>5, <1>6, <1>7, <1>8, <1>9, <1>10, <1>11 DEF Next, CycleStep

\* The three layers hold together in every reachable state.
THEOREM ToldInductive == Spec => [](IInv /\ Queued /\ Told)
  BY InitIInv, NextIInv, InitQueued, QueuedStep, InitTold, ToldStep, PTL DEF Spec

\* Without a failure no notification reaches the chat twice.
THEOREM NoneTwice == Spec => []DeliveredOnce
  BY ToldInductive, PTL DEF Told

\* When nothing is left to send, what is open is exactly what the owner has been told
\* of by name or, past the length of a silence digest, by number.
THEOREM OwnerKnows == Spec => []OwnerIsInformed
<1>1. IInv /\ Told => OwnerIsInformed
  <2> SUFFICES ASSUME IInv, Told, clean, silence = NoSilence, Pending(outbox) = {}
               PROVE  told \cup counted = emitted /\ told \cap counted = {}
    BY DEF OwnerIsInformed
  <2>1. \A k \in Keys : k \in told \cup counted <=> k \in emitted
    BY DEF Told, Informed
  <2>2. told \cap counted = {}
    BY DEF Told, Announced
  <2>3. told \cup counted \subseteq Keys /\ emitted \subseteq Keys
    BY DEF IInv, TypeOK
  <2>4. QED
    BY <2>1, <2>2, <2>3
<1>2. QED
  BY <1>1, ToldInductive, PTL

\* Notifications are delivered in the order they were recorded.
THEOREM InOrder == Spec => DeliveredInOrder
<1>1. IInv /\ Queued /\ [Next]_vars
        => [\A i \in delivered' \ delivered : \A r \in Pending(outbox) : i <= r.id]_vars
  <2> SUFFICES ASSUME IInv, Queued, [Next]_vars,
                      NEW i \in delivered' \ delivered, NEW r \in Pending(outbox)
               PROVE  i <= r.id
    OBVIOUS
  <2>1. \E h \in batch : IsHead(h) /\ i = h.id
    BY DEF Next, CycleStep, StartCycle, CollectorObserved, CollectorHealthy, CollectorFailed,
       LogRejected, SuppressWhileSilent, NotSilent, EndSilence, SendSummary, ClearExpired,
       BeginDelivery, LoadBatch, SendNotification, MarkSent, BeginStatusDigest, SendStatusDigest, MarkStatusDigest,
       EndCycle, CollectorRejected, SendFails, Interrupted, SetSilence, ClearSilence, SetDigest,
       Pair, Unpair, Tick, vars, historyVars
  <2>2. QED
    BY <2>1, HeadIsOldest
<1>2. QED
  BY <1>1, QueueInductive, PTL DEF Spec, DeliveredInOrder

-----------------------------------------------------------------------------
(* What retention drops                                                    *)

\* A row that is dropped, but not for its age, leaves MaxRows newer ones behind.
LEMMA RankedOut ==
  ASSUME now \in Nat, NEW rows \in SUBSET Notifications, IsFiniteSet(rows), Identified(rows),
         NEW r \in rows \ Pruned(rows), r \notin Retain(rows)
  PROVE  Cardinality(Above(Retain(rows), r)) >= MaxRows
<1> DEFINE left == rows \ Pruned(rows)
           newer == Above(left, r)
           n == Cardinality(newer)
           rank == [s \in newer |-> Cardinality(Above(left, s))]
           kept == {s \in newer : rank[s] < MaxRows}
           low == [s \in kept |-> rank[s]]
<1>1. /\ left \in SUBSET Notifications /\ IsFiniteSet(left) /\ r \in left
      /\ newer \subseteq left /\ IsFiniteSet(newer) /\ n \in Nat
  <2>1. left \in SUBSET Notifications /\ r \in left /\ newer \subseteq left
    BY DEF Above
  <2>2. IsFiniteSet(left)
    BY FS_Subset
  <2>3. QED
    BY <2>1, <2>2, FS_Subset, FS_CardinalityType
<1>2. MaxRows <= n /\ MaxRows \in Nat \ {0}
  <2>1. ~(n < MaxRows)
    BY <1>1 DEF Retain, Above
  <2>2. QED
    BY <1>1, <2>1, LimitAssumption
<1>3. \A s \in newer : s \in left /\ r.id < s.id
  BY <1>1 DEF Above, Notifications
<1>4. \A s, t \in left : s.id < t.id =>
        /\ Cardinality(Above(left, t)) \in Nat /\ Cardinality(Above(left, s)) \in Nat
        /\ Cardinality(Above(left, t)) < Cardinality(Above(left, s))
  <2> HIDE DEF left
  <2>1. QED
    BY <1>1, AboveShrinks
<1>5. \A s \in newer : rank[s] \in 0 .. n - 1
  <2> SUFFICES ASSUME NEW s \in newer PROVE rank[s] \in 0 .. n - 1
    OBVIOUS
  <2>1. rank[s] \in Nat /\ rank[s] < n
    BY <1>1, <1>3, <1>4
  <2>2. QED
    BY <1>1, <2>1
<1>6. \A s, t \in newer : rank[s] = rank[t] => s = t
  <2> SUFFICES ASSUME NEW s \in newer, NEW t \in newer, s # t PROVE rank[s] # rank[t]
    OBVIOUS
  <2>0. left \subseteq rows
    OBVIOUS
  <2> HIDE DEF left
  <2>1. s.id # t.id /\ s.id \in Nat /\ t.id \in Nat /\ s \in left /\ t \in left
    BY <1>1, <1>3, <2>0 DEF Identified, Notifications
  <2>2. CASE s.id < t.id
    BY <1>4, <2>1, <2>2
  <2>3. CASE t.id < s.id
    BY <1>4, <2>1, <2>3
  <2>4. QED
    BY <2>1, <2>2, <2>3
<1>7. rank \in Surjection(newer, 0 .. n - 1)
  <2> HIDE DEF newer, rank, n
  <2>1. rank \in [newer -> 0 .. n - 1]
    BY <1>5 DEF rank
  <2>2. rank \in Injection(newer, 0 .. n - 1)
    BY <1>6, <2>1 DEF Injection, IsInjective
  <2>3. IsFiniteSet(0 .. n - 1) /\ Cardinality(0 .. n - 1) = n
    BY <1>1, FS_Interval
  <2>4. QED
    BY <2>2, <2>3, FS_Injection DEF n
<1>8. \A i \in 0 .. n - 1 : \E s \in newer : rank[s] = i
  <2> HIDE DEF newer, rank, n
  <2>1. QED
    BY <1>7 DEF Surjection
<1>9. low \in Surjection(kept, 0 .. MaxRows - 1)
  <2> HIDE DEF newer, rank, n
  <2>1. \A s \in kept : low[s] \in 0 .. MaxRows - 1
    BY <1>1, <1>2, <1>5
  <2>2. \A i \in 0 .. MaxRows - 1 : \E s \in kept : low[s] = i
    BY <1>1, <1>2, <1>8
  <2>3. QED
    BY <2>1, <2>2 DEF Surjection
<1>10. kept \subseteq Above(Retain(rows), r) /\ Above(Retain(rows), r) \subseteq rows
  BY <1>1 DEF Retain, Above
<1>11. QED
  <2> HIDE DEF kept, low
  <2>1. /\ IsFiniteSet(Above(Retain(rows), r)) /\ IsFiniteSet(kept)
        /\ Cardinality(kept) <= Cardinality(Above(Retain(rows), r))
    BY <1>10, FS_Subset
  <2>2. Cardinality(0 .. MaxRows - 1) <= Cardinality(kept)
    BY <1>9, <2>1, FS_Surjection
  <2>3. Cardinality(0 .. MaxRows - 1) = MaxRows
    <3>1. 0 \in Int /\ MaxRows - 1 \in Int /\ ~(0 > MaxRows - 1) /\ MaxRows - 1 - 0 + 1 = MaxRows
      BY <1>2
    <3>2. QED
      BY <3>1, FS_Interval
  <2>4. QED
    BY <1>2, <2>1, <2>2, <2>3, FS_CardinalityType

\* The end of a silence is announced and cleared while its expiry is still stored.
Ending == pc \in {"summary", "clear"} => silence # NoSilence

\* Nothing but the clearing itself removes the expiry while it is being cleared.
LEMMA EndingStep == Ending /\ [Next]_vars => Ending'
  BY DEF Ending, Next, CycleStep, StartCycle, CollectorObserved, CollectorHealthy,
     CollectorFailed, NextCollector, LogRejected, SuppressWhileSilent, NotSilent, EndSilence,
     SilenceExpired, SendSummary, ClearExpired, BeginDelivery, LoadBatch, SendNotification, MarkSent,
     BeginStatusDigest, SendStatusDigest, MarkStatusDigest, EndCycle, CollectorRejected, SendFails, Interrupted,
     SetSilence, ClearSilence, SetDigest, Pair, Unpair, Tick, vars, storeVars, taskVars

\* A pending row that leaves the outbox leaves it for one of these reasons.
LEMMA DroppedForAReason ==
  ASSUME IInv, Queued, Ending, [Next]_vars, NEW r \in Pending(outbox)
  PROVE  \/ \E s \in outbox' : s.id = r.id
         \/ silence # NoSilence \/ silence' # NoSilence \/ pc = "idle"
         \/ now - r.created > Retention
         \/ Cardinality({s \in outbox' : s.id > r.id}) >= MaxRows
<1>0. r \in outbox
  BY DEF Pending
<1>1. CASE CollectorObserved \/ CollectorHealthy \/ CollectorFailed
  <2>1. PICK scope \in SUBSET Keys, observed \in SUBSET Keys : Reconcile(scope, observed)
    BY <1>1, ScopeOfStep DEF IInv
  <2>2. PICK new \in SUBSET Notifications : Recording(new, scope, observed)
    BY <2>1, NewRows DEF IInv
  <2> DEFINE rows == outbox \cup new
  <2>3. outbox' = Retain(rows) /\ IsFiniteSet(rows) /\ Identified(rows)
        /\ rows \in SUBSET Notifications /\ now \in Nat
    <3>1. outbox' = Retain(rows) /\ IsFiniteSet(new)
      BY <2>2 DEF Recording
    <3>2. IsFiniteSet(rows)
      BY <3>1, FS_Union DEF Queued
    <3>3. Identified(rows)
      BY <2>2, RecordedIdentified
    <3>4. QED
      BY <3>1, <3>2, <3>3 DEF IInv, TypeOK
  <2>4. CASE r \in Retain(rows)
    BY <2>3, <2>4
  <2>5. CASE r \notin Retain(rows) /\ r \notin Pruned(rows)
    <3>1. Cardinality(Above(outbox', r)) >= MaxRows
      <4> HIDE DEF rows
      <4>1. r \in rows
        BY <1>0 DEF rows
      <4>2. QED
        BY <2>3, <2>5, <4>1, RankedOut
    <3>2. QED
      BY <3>1 DEF Above
  <2>6. CASE r \in Pruned(rows)
    BY <2>6 DEF Pruned
  <2>7. QED
    BY <2>4, <2>5, <2>6
<1>2. CASE MarkSent
  <2>1. PICK h \in batch : Marks(h)
    BY <1>2, MarkedRows DEF IInv, Queued
  <2>2. QED
    BY <1>0, <2>1 DEF Marks, Version, SameRow
<1>3. CASE SuppressWhileSilent \/ EndSilence \/ ClearExpired \/ SetSilence \/ ClearSilence
  BY <1>3 DEF SuppressWhileSilent, SilenceActive, EndSilence, SilenceExpired, ClearExpired, Ending,
     SetSilence, ClearSilence
<1>4. CASE outbox' = outbox
  BY <1>0, <1>4
<1>5. outbox' = outbox
      \/ CollectorObserved \/ CollectorHealthy \/ CollectorFailed \/ MarkSent
      \/ SuppressWhileSilent \/ EndSilence \/ ClearExpired \/ SetSilence \/ ClearSilence
  BY DEF Next, CycleStep, StartCycle, LogRejected, NotSilent, SendSummary, BeginDelivery, LoadBatch,
     SendNotification, BeginStatusDigest, SendStatusDigest, MarkStatusDigest, EndCycle, CollectorRejected, SendFails,
     Interrupted, SetDigest, Pair, Unpair, Tick, vars, storeVars
<1>6. QED
  BY <1>1, <1>2, <1>3, <1>4, <1>5

\* A reconciliation puts every row it numbers into the outbox, unless MaxRows newer
\* ones are there.
LEMMA NumberedIsKept ==
  ASSUME IInv, Queued, [Next]_vars, NEW i \in nextId .. nextId' - 1
  PROVE  \/ \E s \in outbox' : s.id = i
         \/ Cardinality({s \in outbox' : s.id > i}) >= MaxRows
<1>1. nextId \in Nat /\ now \in Nat
  BY DEF IInv, TypeOK
<1>2. nextId' # nextId
  BY <1>1
<1>3. CollectorObserved \/ CollectorHealthy \/ CollectorFailed
  BY <1>2 DEF Next, CycleStep, StartCycle, LogRejected, SuppressWhileSilent, NotSilent, EndSilence,
     SendSummary, ClearExpired, BeginDelivery, LoadBatch, SendNotification, MarkSent,
     BeginStatusDigest, SendStatusDigest, MarkStatusDigest, EndCycle, CollectorRejected, SendFails,
     Interrupted, SetSilence, ClearSilence, SetDigest, Pair, Unpair, Tick, vars, storeVars
<1>4. PICK scope \in SUBSET Keys, observed \in SUBSET Keys : Reconcile(scope, observed)
  BY <1>3, ScopeOfStep DEF IInv
<1>5. PICK new \in SUBSET Notifications : Recording(new, scope, observed)
  BY <1>4, NewRows DEF IInv
<1> DEFINE rows == outbox \cup new
<1>6. outbox' = Retain(rows) /\ IsFiniteSet(new)
  BY <1>5 DEF Recording
<1>7. IsFiniteSet(rows) /\ Identified(rows) /\ rows \in SUBSET Notifications
  <2>1. IsFiniteSet(rows)
    BY <1>6, FS_Union DEF Queued
  <2>2. Identified(rows)
    BY <1>5, RecordedIdentified
  <2>3. QED
    BY <2>1, <2>2 DEF IInv, TypeOK
<1>8. PICK r \in new : r.id = i
  BY <1>5, Zenon DEF Recording
<1>9. r \notin Pruned(rows)
  <2>1. r.created = now
    BY <1>5, Zenon DEF Recording
  <2>2. ~(now - r.created > Retention)
    BY <1>1, <2>1, LimitAssumption
  <2>3. QED
    BY <2>2 DEF Pruned
<1>10. CASE r \in Retain(rows)
  BY <1>6, <1>8, <1>10
<1>11. CASE r \notin Retain(rows)
  <2> HIDE DEF rows
  <2>1. r \in rows
    BY DEF rows
  <2>2. Cardinality(Above(outbox', r)) >= MaxRows
    BY <1>1, <1>6, <1>7, <1>9, <1>11, <2>1, RankedOut
  <2>3. QED
    BY <1>8, <2>2 DEF Above
<1>12. QED
  BY <1>10, <1>11

\* An unsent notification leaves the outbox only for a silence, its age or its rank,
\* and none is numbered without entering it.
THEOREM NothingLostSilently == Spec => NothingDroppedSilently
<1>1. Init => Ending
  BY DEF Init, Ending
<1>2. IInv /\ Queued /\ Ending /\ [Next]_vars
        => [/\ \A r \in Pending(outbox) :
                 \/ \E s \in outbox' : s.id = r.id
                 \/ silence # NoSilence \/ silence' # NoSilence \/ pc = "idle"
                 \/ now - r.created > Retention
                 \/ Cardinality({s \in outbox' : s.id > r.id}) >= MaxRows
            /\ \A i \in nextId .. nextId' - 1 :
                 \/ \E s \in outbox' : s.id = i
                 \/ Cardinality({s \in outbox' : s.id > i}) >= MaxRows]_vars
  BY DroppedForAReason, NumberedIsKept
<1>3. QED
  BY <1>1, <1>2, EndingStep, QueueInductive, PTL DEF Spec, NothingDroppedSilently
=============================================================================
