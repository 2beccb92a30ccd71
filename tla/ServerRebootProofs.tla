------------------------- MODULE ServerRebootProofs -------------------------
(***************************************************************************)
(* What ServerReboot promises for any users, boots, phrases, failures and  *)
(* changes of owner: no phrase reboots the server twice, nor after it was  *)
(* withdrawn, nor before the approval is on record; and the completion is  *)
(* told only after an approval of an earlier boot.                         *)
(*                                                                         *)
(* The argument: the rows that are left belong to phrases never accepted   *)
(* (Rows), so the handler is on its way to the order only with a phrase    *)
(* accepted in this very boot, by this very attempt (Running).  A boot     *)
(* puts the agent back to its first line, where no phrase is on its way.   *)
(*                                                                         *)
(* And a completion is not lost: once the agent is past its start, no      *)
(* record of an earlier boot is left (Fresh), so that only the start itself*)
(* can forget one, after it was told or where it must not be.              *)
(***************************************************************************)
EXTENDS ServerReboot, TLAPS

\* Where the handler of an update is.
InHandler == Steps \ (StartupSteps \cup {"down", "idle"})

\* Between the consumption of a phrase and the order.
Accepted == {"check", "mark", "approve", "ack", "request", "execute"}

\* The rows of the table, one for each phrase.
Rows ==
  /\ \A a, b \in approvals : a.phrase = b.phrase => a = b
  /\ \A a \in approvals :
       a.phrase <= issued /\ consumed[a.phrase] = 0 /\ a.phrase \notin withdrawn

\* What became of the phrases.
Outcomes ==
  /\ \A p \in Phrases : /\ consumed[p] = 0 => orders[p] = 0
                        /\ consumed[p] # 0 => p <= issued
                        /\ consumed[p] <= boot
  /\ \A p \in withdrawn : p <= issued

\* What the handler holds on its way to the order.
Running ==
  /\ pc \in InHandler => press \in Presses
  /\ pc = "consume" => press.kind = "phrase"
  /\ pc = "offer" => issued \in Phrases
  /\ pc \in Accepted => /\ press.kind = "phrase"
                        /\ consumed[press.phrase] = boot
                        /\ orders[press.phrase] = 0
                        /\ press.phrase \notin withdrawn
  /\ pc \in {"ack", "request", "execute"} => <<press.phrase, "approved">> \in audits
  /\ pc \in {"request", "execute"} => press.phrase \in acked
  /\ pc = "execute" => <<press.phrase, "requested">> \in audits

\* The pending record, and what the start of the agent has made of it.
Record ==
  /\ pending = NoPending \/ \E p \in Phrases : /\ consumed[p] = pending.boot
                                               /\ pending.boot \in 1 .. boot
  /\ pc \in {"owner", "tell"} => \E p \in Phrases : consumed[p] \in 1 .. boot - 1

\* A record that is still to be announced has been announced once per cut-off at most.
Notices ==
  /\ notices <= 1 + cut
  /\ pc \in {"owner", "tell"} => notices <= cut
  /\ pending # NoPending /\ pc \notin {"completed", "clear"} => notices <= cut

\* The safety invariants of the runs.
Safe == OneRebootPerPhrase /\ OrderedAfterTheRecord /\ WithdrawnNeverReboots
          /\ CompletionFollowsApproval

\* The inductive invariant.
IInv == TypeOK /\ Rows /\ Outcomes /\ Running /\ Record /\ Notices /\ Safe

-----------------------------------------------------------------------------
LEMMA InitIInv == Init => IInv
<1> SUFFICES ASSUME Init PROVE IInv
  OBVIOUS
<1>1. TypeOK
  <2>1. NoPending \in [boot : 0 .. MaxBoots, at : 0 .. now] /\ now \in Nat /\ 1 \in 1 .. MaxBoots
        /\ 0 \in 0 .. MaxAttempts - 1 /\ 0 \in 0 .. MaxPhrases
    BY ParameterAssumption DEF NoPending, Init
  <2>2. [p \in Phrases |-> 0] \in [Phrases -> 0 .. MaxBoots] /\ [p \in Phrases |-> 0] \in [Phrases -> Nat]
    BY ParameterAssumption
  <2>3. QED
    BY <2>1, <2>2 DEF Init, TypeOK, Steps
<1>2. QED
  BY <1>1 DEF Init, IInv, Rows, Outcomes, Running, Record, Notices, Safe, InHandler, Accepted,
              OneRebootPerPhrase, OrderedAfterTheRecord, WithdrawnNeverReboots,
              CompletionFollowsApproval

\* A press of a phrase carries a phrase.
LEMMA PressPart ==
  \A p \in Presses : /\ p.from \in Users
                     /\ p.kind \in {"plan", "cancel", "phrase"}
                     /\ p.kind = "phrase" => p.phrase \in Phrases
  BY DEF Presses

\* Fewer rows: those taken away may be withdrawn.
LEMMA FewerRows ==
  ASSUME IInv, approvals' \subseteq approvals,
         withdrawn' \subseteq withdrawn \cup {a.phrase : a \in approvals \ approvals'},
         UNCHANGED <<issued, consumed, orders, boot>>
  PROVE  Rows' /\ Outcomes' /\ WithdrawnNeverReboots' /\ withdrawn' \subseteq Phrases
<1> USE DEF IInv
<1>1. \A a \in approvals : /\ a.phrase \in Phrases /\ a.phrase <= issued
                           /\ orders[a.phrase] = 0 /\ consumed[a.phrase] = 0
  BY DEF TypeOK, Approvals, Rows, Outcomes
<1>2. \A a \in approvals' : a.phrase \notin withdrawn'
  BY DEF Rows
<1>3. Rows'
  BY <1>2 DEF Rows
<1>4. Outcomes'
  BY <1>1 DEF Outcomes
<1>5. WithdrawnNeverReboots' /\ withdrawn' \subseteq Phrases
  BY <1>1 DEF Safe, WithdrawnNeverReboots, TypeOK
<1>6. QED
  BY <1>3, <1>4, <1>5

\* The handlers of updates say no notice.
LEMMA NoticesPart ==
  ASSUME IInv, UNCHANGED <<notices, cut>>, pending' = pending \/ pending' = NoPending,
         pc' = pc \/ (pc \notin {"completed", "clear"} /\ pc' \notin {"owner", "tell"})
  PROVE  Notices'
  BY DEF IInv, Notices

-----------------------------------------------------------------------------
\* The new phrase has no acceptance and no order.
LEMMA IssueKeeps == IInv /\ Issue => IInv'
<1> SUFFICES ASSUME IInv, Issue PROVE IInv'
  OBVIOUS
<1> DEFINE new == issued + 1
           row == [phrase |-> new, actor |-> press.from, expires |-> now + Ttl]
<1>1. /\ pc = "issue" /\ pc' = "offer" /\ new \in Phrases /\ issued' = new
      /\ approvals' = {row}
      /\ withdrawn' = withdrawn \cup {a.phrase : a \in approvals}
      /\ UNCHANGED <<now, boot, rebooting, owner, pending, audits, press, attempt, shown,
                     acked, consumed, orders, told, notices, cut, faults, changes>>
  BY DEF Issue, Goto, Withdraw, machineVars, noticeVars
<1>2. press \in Presses /\ press.from \in Users
  BY <1>1, PressPart DEF IInv, Running, InHandler, Steps, StartupSteps
<1>3. row \in Approvals /\ row.phrase = new
  BY <1>1, <1>2, ParameterAssumption DEF IInv, TypeOK, Approvals
<1>4. \A a \in approvals : a.phrase \in Phrases /\ a.phrase <= issued /\ orders[a.phrase] = 0
  BY DEF IInv, TypeOK, Approvals, Rows, Outcomes
<1>5. new \in Nat /\ new <= MaxPhrases /\ issued < new /\ consumed[new] = 0
  BY <1>1 DEF IInv, TypeOK, Phrases, Outcomes
<1> HIDE DEF new, row
<1>6. TypeOK'
  <2>1. approvals' \subseteq Approvals
    BY <1>1, <1>3
  <2>2. withdrawn' \subseteq Phrases
    BY <1>1, <1>4 DEF IInv, TypeOK
  <2>3. issued' \in 0 .. MaxPhrases
    BY <1>1, <1>5
  <2>4. QED
    BY <1>1, <2>1, <2>2, <2>3 DEF IInv, TypeOK, Steps
<1>7. \A p \in withdrawn' : p \in Phrases /\ p <= issued /\ orders[p] = 0
  BY <1>1, <1>4 DEF IInv, TypeOK, Outcomes, Safe, WithdrawnNeverReboots
<1>8. Rows'
  <2>1. new \notin withdrawn'
    BY <1>5, <1>7 DEF IInv, TypeOK
  <2>2. QED
    BY <1>1, <1>3, <1>5, <2>1 DEF Rows
<1>9. Outcomes'
  <2>1. \A p \in Phrases : consumed[p] # 0 => p <= new
    BY <1>5 DEF IInv, TypeOK, Outcomes, Phrases
  <2>2. \A p \in withdrawn' : p <= new
    BY <1>5, <1>7 DEF IInv, TypeOK, Phrases
  <2>3. QED
    BY <1>1, <2>1, <2>2 DEF IInv, Outcomes
<1>10. Running'
  BY <1>1, <1>2 DEF Running, InHandler, Accepted
<1>11. Record'
  BY <1>1 DEF IInv, Record
<1>12. Safe'
  BY <1>1, <1>7 DEF IInv, Safe, OneRebootPerPhrase, OrderedAfterTheRecord, WithdrawnNeverReboots,
                    CompletionFollowsApproval
<1>13. Notices'
  BY <1>1, NoticesPart
<1>14. QED
  BY <1>6, <1>8, <1>9, <1>10, <1>11, <1>12, <1>13 DEF IInv

LEMMA CancelKeeps == IInv /\ Cancel => IInv'
<1> SUFFICES ASSUME IInv, Cancel PROVE IInv'
  OBVIOUS
<1> DEFINE mine == {a \in approvals : a.actor = press.from}
<1>1. /\ pc = "cancel" /\ pc' = "reply"
      /\ approvals' = approvals \ mine /\ withdrawn' = withdrawn \cup {a.phrase : a \in mine}
      /\ UNCHANGED <<now, boot, rebooting, owner, pending, audits, press, attempt, issued, shown,
                     acked, consumed, orders, told, notices, cut, faults, changes>>
  BY DEF Cancel, Goto, Withdraw, machineVars, outsideVars, noticeVars
<1>2. approvals' \subseteq approvals
      /\ withdrawn' \subseteq withdrawn \cup {a.phrase : a \in approvals \ approvals'}
  BY <1>1
<1> HIDE DEF mine
<1>3. Rows' /\ Outcomes' /\ WithdrawnNeverReboots' /\ withdrawn' \subseteq Phrases
  BY <1>1, <1>2, FewerRows
<1>4. TypeOK'
  BY <1>1, <1>2, <1>3 DEF IInv, TypeOK, Steps
<1>5. Running' /\ Record'
  BY <1>1 DEF IInv, Running, Record, InHandler, Accepted, Steps, StartupSteps
<1>6. Safe'
  BY <1>1, <1>3 DEF IInv, Safe, OneRebootPerPhrase, OrderedAfterTheRecord, CompletionFollowsApproval
<1>7. Notices'
  BY <1>1, NoticesPart
<1>8. QED
  BY <1>3, <1>4, <1>5, <1>6, <1>7 DEF IInv

\* The running phrase has no row, so an unpairing does not withdraw it.
LEMMA UnpairKeeps == IInv /\ Unpair => IInv'
<1> SUFFICES ASSUME IInv, Unpair PROVE IInv'
  OBVIOUS
<1>1. /\ approvals' = {} /\ withdrawn' = withdrawn \cup {a.phrase : a \in approvals}
      /\ owner' = NoOne /\ pending' = NoPending /\ changes' = changes + 1
      /\ UNCHANGED <<now, boot, rebooting, audits, pc, press, attempt, issued, shown,
                     acked, consumed, orders, told, notices, cut, faults>>
  BY DEF Unpair, Withdraw, machineVars, agentVars, outsideVars, noticeVars
<1>2. Rows' /\ Outcomes' /\ WithdrawnNeverReboots' /\ withdrawn' \subseteq Phrases
  BY <1>1, FewerRows
<1>3. NoPending \in [boot : 0 .. MaxBoots, at : 0 .. now]
  BY ParameterAssumption DEF NoPending, IInv, TypeOK
<1>4. TypeOK'
  BY <1>1, <1>2, <1>3 DEF IInv, TypeOK
<1>5. Running'
  <2>1. pc \in Accepted => press.phrase \notin withdrawn'
    BY <1>1 DEF IInv, Running, Rows, TypeOK
  <2>2. QED
    BY <1>1, <2>1 DEF IInv, Running
<1>6. Record'
  BY <1>1 DEF IInv, Record
<1>7. Safe'
  BY <1>1, <1>2 DEF IInv, Safe, OneRebootPerPhrase, OrderedAfterTheRecord, CompletionFollowsApproval
<1>8. Notices'
  BY <1>1, NoticesPart
<1>9. QED
  BY <1>2, <1>4, <1>5, <1>6, <1>7, <1>8 DEF IInv

LEMMA ConsumeKeeps == IInv /\ Consume => IInv'
<1> SUFFICES ASSUME IInv, Consume PROVE IInv'
  OBVIOUS
<1> DEFINE q == press.phrase
<1>1. /\ pc = "consume" /\ approvals' \subseteq approvals
      /\ \A a \in approvals' : ~(a.phrase = q /\ a.actor = press.from)
      /\ UNCHANGED <<now, boot, rebooting, owner, pending, audits, press, attempt, issued, shown,
                     acked, orders, withdrawn, told, notices, cut, faults, changes>>
      /\ \/ consumed' = consumed /\ pc' = "reply"
         \/ /\ consumed' = [consumed EXCEPT ![q] = boot] /\ pc' = "check"
            /\ \E a \in approvals : a.phrase = q /\ a.actor = press.from
  BY DEF Consume, Match, Goto, machineVars, outsideVars, noticeVars
<1>2. press \in Presses /\ press.kind = "phrase" /\ q \in Phrases
  BY <1>1, PressPart DEF IInv, Running, InHandler, Steps, StartupSteps
<1> HIDE DEF q
<1>3. CASE consumed' = consumed /\ pc' = "reply"
  <2>1. Rows' /\ Outcomes' /\ WithdrawnNeverReboots' /\ withdrawn' \subseteq Phrases
    BY <1>1, <1>3, FewerRows
  <2>2. TypeOK'
    BY <1>1, <1>3 DEF IInv, TypeOK, Steps
  <2>3. Running' /\ Record'
    BY <1>1, <1>2, <1>3 DEF IInv, Running, Record, Accepted
  <2>4. Safe'
    BY <1>1, <1>3 DEF IInv, Safe, OneRebootPerPhrase, OrderedAfterTheRecord,
                      WithdrawnNeverReboots, CompletionFollowsApproval
  <2>5. Notices'
    BY <1>1, <1>3, NoticesPart
  <2>6. QED
    BY <2>1, <2>2, <2>3, <2>4, <2>5 DEF IInv
<1>4. CASE /\ consumed' = [consumed EXCEPT ![q] = boot] /\ pc' = "check"
           /\ \E a \in approvals : a.phrase = q /\ a.actor = press.from
  <2>1. PICK row \in approvals : row.phrase = q /\ row.actor = press.from
    BY <1>4
  <2>2. consumed[q] = 0 /\ orders[q] = 0 /\ q \notin withdrawn /\ q <= issued
    BY <1>2, <2>1 DEF IInv, Rows, Outcomes
  <2>3. \A a \in approvals' : a.phrase # q
    BY <1>1, <2>1 DEF IInv, Rows
  <2>4. consumed' \in [Phrases -> 0 .. MaxBoots] /\ consumed'[q] = boot
        /\ \A p \in Phrases : p # q => consumed'[p] = consumed[p]
    BY <1>2, <1>4 DEF IInv, TypeOK
  <2>5. TypeOK'
    BY <1>1, <1>4, <2>4 DEF IInv, TypeOK, Steps
  <2>6. Rows'
    <3>1. \A a \in approvals : a.phrase \in Phrases
      BY DEF IInv, TypeOK, Approvals
    <3>2. QED
      BY <1>1, <2>3, <2>4, <3>1 DEF IInv, Rows
  <2>7. Outcomes'
    BY <1>1, <2>2, <2>4 DEF IInv, TypeOK, Outcomes
  <2>8. Running'
    BY <1>1, <1>2, <1>4, <2>2, <2>4 DEF Running, q
  <2>9. \A p \in Phrases : consumed[p] # 0 => consumed'[p] = consumed[p]
    BY <2>2, <2>4
  <2>10. Record'
    BY <1>1, <1>4, <2>9 DEF IInv, Record, TypeOK
  <2>11. CompletionFollowsApproval'
    BY <1>1, <2>9 DEF IInv, Safe, CompletionFollowsApproval
  <2>12. Safe'
    BY <1>1, <2>11 DEF IInv, Safe, OneRebootPerPhrase, OrderedAfterTheRecord, WithdrawnNeverReboots
  <2>13. Notices'
    BY <1>1, <1>4, NoticesPart
  <2>14. QED
    BY <2>5, <2>6, <2>7, <2>8, <2>10, <2>12, <2>13 DEF IInv
<1>5. QED
  BY <1>1, <1>3, <1>4

\* The order follows both audit rows and the announcement, for a phrase not ordered yet.
LEMMA ExecuteKeeps == IInv /\ (Execute \/ ExecuteFails) => IInv'
<1> SUFFICES ASSUME IInv, Execute \/ ExecuteFails PROVE IInv'
  OBVIOUS
<1> DEFINE q == press.phrase
<1>1. /\ pc = "execute" /\ pc' \in {"offset", "failed"}
      /\ UNCHANGED <<now, boot, owner, approvals, pending, audits, press, attempt, issued, shown,
                     acked, consumed, withdrawn, told, notices, cut, faults, changes>>
      /\ rebooting' \in {TRUE, rebooting}
      /\ orders' \in {orders, [orders EXCEPT ![q] = @ + 1]}
  BY DEF Execute, ExecuteFails, Order, Goto, storeVars, outsideVars, noticeVars
<1>2. /\ press \in Presses /\ q \in Phrases /\ orders[q] = 0 /\ consumed[q] = boot
      /\ q \notin withdrawn /\ q \in acked
      /\ <<q, "approved">> \in audits /\ <<q, "requested">> \in audits
  BY <1>1, PressPart DEF IInv, Running, InHandler, Accepted, Steps, StartupSteps
<1> HIDE DEF q
<1>3. orders' \in [Phrases -> Nat] /\ \A p \in Phrases : (orders'[p] = orders[p] \/ (p = q /\ orders'[p] = 1))
  BY <1>1, <1>2 DEF IInv, TypeOK
<1>4. TypeOK'
  BY <1>1, <1>3 DEF IInv, TypeOK, Steps
<1>5. Rows' /\ Record'
  BY <1>1 DEF IInv, Rows, Record
<1>6. Outcomes'
  BY <1>1, <1>2, <1>3 DEF IInv, TypeOK, Outcomes
<1>7. Running'
  BY <1>1, <1>2 DEF Running, Accepted
<1>8. Safe'
  <2>1. OneRebootPerPhrase' /\ CompletionFollowsApproval'
    BY <1>1, <1>3 DEF IInv, Safe, OneRebootPerPhrase, CompletionFollowsApproval
  <2>2. OrderedAfterTheRecord'
    BY <1>1, <1>2, <1>3 DEF IInv, Safe, OrderedAfterTheRecord
  <2>3. WithdrawnNeverReboots'
    BY <1>1, <1>2, <1>3 DEF IInv, TypeOK, Safe, WithdrawnNeverReboots
  <2>4. QED
    BY <2>1, <2>2, <2>3 DEF Safe
<1>9. Notices'
  BY <1>1, NoticesPart
<1>10. QED
  BY <1>4, <1>5, <1>6, <1>7, <1>8, <1>9 DEF IInv

-----------------------------------------------------------------------------
\* The steps that touch none of rows, phrases and orders.
Quiet == UNCHANGED <<approvals, boot, issued, consumed, orders, withdrawn>>

LEMMA QuietPart ==
  ASSUME IInv, Quiet, audits \subseteq audits', acked \subseteq acked'
  PROVE  Rows' /\ Outcomes' /\ (OneRebootPerPhrase /\ OrderedAfterTheRecord /\ WithdrawnNeverReboots)'
  BY DEF IInv, Quiet, Rows, Outcomes, Safe, OneRebootPerPhrase, OrderedAfterTheRecord,
         WithdrawnNeverReboots

LEMMA StartupKeeps == IInv /\ Startup => IInv'
<1> SUFFICES ASSUME IInv, Startup PROVE IInv'
  OBVIOUS
<1>1. /\ Quiet
      /\ UNCHANGED <<now, rebooting, owner, audits, press, attempt, shown, acked, faults, changes>>
      /\ pending' \in {pending, NoPending}
  BY DEF Startup, Start, ReadPending, ReadOwner, TellCompleted, AuditCompleted, ClearPending, Quiet,
         machineVars, storeVars, outsideVars, historyVars, noticeVars
<1>2. Rows' /\ Outcomes' /\ (OneRebootPerPhrase /\ OrderedAfterTheRecord /\ WithdrawnNeverReboots)'
  BY <1>1, QuietPart
<1>3. pc' \in {"boot", "owner", "tell", "completed", "clear", "idle"}
  BY DEF Startup, Start, ReadPending, ReadOwner, TellCompleted, AuditCompleted, ClearPending, Goto
<1>4. /\ cut' = cut
      /\ \/ told' = told /\ notices' = notices
         \/ told' = told \cup {boot} /\ notices' = notices + 1 /\ pc = "tell" /\ pc' = "completed"
  BY DEF Notice, Goto, noticeVars, Startup, Start, ReadPending, ReadOwner, TellCompleted, AuditCompleted, ClearPending,
         historyVars
<1>5. pc' \in {"owner", "tell"} =>
        \/ pc = "owner"
        \/ pending # NoPending /\ pending.boot # boot
  BY DEF Startup, Start, ReadPending, ReadOwner, TellCompleted, AuditCompleted, ClearPending, Goto,
         Completable
<1>6. NoPending \in [boot : 0 .. MaxBoots, at : 0 .. now]
  BY ParameterAssumption DEF NoPending, IInv, TypeOK
<1>7. TypeOK'
  <2>1. told' \subseteq 1 .. MaxBoots
    BY <1>4 DEF IInv, TypeOK
  <2>2. notices' \in Nat /\ cut' \in Nat
    BY <1>4 DEF IInv, TypeOK
  <2>3. QED
    BY <1>1, <1>3, <1>6, <2>1, <2>2 DEF IInv, TypeOK, Quiet, Steps
<1>8. Running'
  BY <1>3 DEF Running, InHandler, Accepted, Steps, StartupSteps
<1>9. Record'
  <2>1. pc' \in {"owner", "tell"} => \E p \in Phrases : consumed[p] \in 1 .. boot - 1
    BY <1>5 DEF IInv, Record, TypeOK
  <2>2. QED
    BY <1>1, <2>1 DEF IInv, Record, Quiet
<1>10. CompletionFollowsApproval'
  BY <1>1, <1>4 DEF IInv, Safe, Record, CompletionFollowsApproval, Quiet
<1>11. Notices'
  <2>1. pc = "tell" /\ pc' = "completed" /\ notices' = notices + 1 => Notices'
    BY <1>4 DEF IInv, TypeOK, Notices
  <2>2. /\ pc \in {"completed", "clear"} => pc' = "clear" \/ pending' = NoPending
        /\ pc' \in {"owner", "tell"} => pc = "owner" \/ (pc = "boot" /\ pending # NoPending)
    BY DEF Startup, Start, ReadPending, ReadOwner, TellCompleted, AuditCompleted, ClearPending, Goto
  <2>3. notices' = notices => Notices'
    BY <1>1, <1>4, <2>2 DEF IInv, Notices
  <2>4. QED
    BY <1>4, <2>1, <2>3
<1>12. QED
  BY <1>2, <1>7, <1>8, <1>9, <1>10, <1>11 DEF IInv, Safe

LEMMA HandlerStepKeeps ==
  IInv /\ (Press \/ Redeliver \/ CheckOwner \/ RefusePlan \/ Offer \/ Disabled \/ CheckHelper
           \/ AuditApproved \/ Acknowledge \/ AuditRequested \/ Reply \/ StoreOffset) => IInv'
<1> DEFINE Step == \/ Press \/ Redeliver \/ CheckOwner \/ RefusePlan \/ Offer \/ Disabled \/ CheckHelper
                   \/ AuditApproved \/ Acknowledge \/ AuditRequested \/ Reply \/ StoreOffset
<1> SUFFICES ASSUME IInv, Step PROVE IInv'
  OBVIOUS
<1>1. /\ Quiet /\ audits \subseteq audits' /\ acked \subseteq acked'
      /\ UNCHANGED <<now, rebooting, owner, pending, told, notices, cut, faults, changes>>
      /\ pc' \in Steps \ {"owner", "tell"}
  <2>1. /\ Quiet /\ audits \subseteq audits' /\ acked \subseteq acked'
        /\ UNCHANGED <<now, rebooting, owner, pending, told, notices, cut, faults, changes>>
    BY DEF Press, Redeliver, CheckOwner, RefusePlan, Offer, Disabled, CheckHelper, AuditApproved,
           Acknowledge, AuditRequested, Reply, StoreOffset, Audit, Quiet,
           machineVars, storeVars, outsideVars, historyVars, noticeVars
  <2>2. CASE Press \/ Redeliver \/ RefusePlan \/ Offer \/ Disabled \/ CheckHelper
    BY <2>1, <2>2 DEF Press, Redeliver, RefusePlan, Offer, Disabled, CheckHelper, Goto, Steps
  <2>3. CASE CheckOwner
    <3>1. pc' \in {"reply", "issue", "cancel", "consume"}
      BY <2>3, PressPart DEF CheckOwner, Goto, IInv, Running, InHandler, Steps, StartupSteps
    <3>2. QED
      BY <2>1, <3>1 DEF Steps
  <2>4. CASE AuditApproved \/ Acknowledge \/ AuditRequested \/ Reply \/ StoreOffset
    BY <2>1, <2>4 DEF AuditApproved, Acknowledge, AuditRequested, Reply, StoreOffset, Settle, Goto,
                      Steps
  <2>5. QED
    BY <2>2, <2>3, <2>4
<1>2. Rows' /\ Outcomes' /\ (OneRebootPerPhrase /\ OrderedAfterTheRecord /\ WithdrawnNeverReboots)'
  BY <1>1, QuietPart
<1>3. Record' /\ CompletionFollowsApproval'
  BY <1>1 DEF IInv, Safe, Record, CompletionFollowsApproval, Quiet
<1>4. pc \in InHandler => press \in Presses
  BY DEF IInv, Running
<1> USE DEF InHandler, Accepted, Steps, StartupSteps
<1>5. /\ press' \in Presses \cup {NoPress} /\ attempt' \in {attempt, 0} /\ shown' \subseteq Phrases
      /\ audits' \subseteq Phrases \X {"approved", "requested"} /\ acked' \subseteq Phrases
      /\ Running'
  <2> USE DEF IInv, TypeOK, Running, Goto
  <2>1. CASE Press
    BY <2>1 DEF Press, storeVars, outsideVars, historyVars, noticeVars
  <2>2. CASE Redeliver \/ RefusePlan \/ Disabled \/ Reply
    BY <2>2 DEF Redeliver, RefusePlan, Disabled, Reply, storeVars, outsideVars, historyVars, noticeVars
  <2>3. CASE CheckOwner
    BY <2>3, PressPart DEF CheckOwner, storeVars, outsideVars, historyVars, noticeVars
  <2>4. CASE Offer
    BY <2>4 DEF Offer, storeVars, outsideVars, historyVars, noticeVars
  <2>5. CASE CheckHelper
    BY <2>5 DEF CheckHelper, machineVars, storeVars, outsideVars, historyVars, noticeVars
  <2>6. CASE AuditApproved \/ AuditRequested
    BY <2>6, PressPart DEF AuditApproved, AuditRequested, Audit, machineVars, outsideVars, historyVars, noticeVars
  <2>7. CASE Acknowledge
    BY <2>7, PressPart DEF Acknowledge, machineVars, storeVars, outsideVars
  <2>8. CASE StoreOffset
    BY <2>8 DEF StoreOffset, Settle, storeVars, outsideVars, historyVars, noticeVars
  <2>9. QED
    BY <2>1, <2>2, <2>3, <2>4, <2>5, <2>6, <2>7, <2>8
<1>6. TypeOK'
  BY <1>1, <1>5, ParameterAssumption DEF IInv, TypeOK, Quiet
<1>7. Notices'
  <2>1. pc \notin {"completed", "clear"}
    BY DEF Press, Redeliver, CheckOwner, RefusePlan, Offer, Disabled, CheckHelper, AuditApproved,
           Acknowledge, AuditRequested, Reply, StoreOffset
  <2>2. QED
    BY <1>1, <2>1, NoticesPart
<1>8. QED
  BY <1>2, <1>3, <1>5, <1>6, <1>7 DEF IInv, Safe

\* The pending record is written in the boot of the acceptance, and removed.
LEMMA PendingStepKeeps == IInv /\ (MarkPending \/ ClearAfterFailure \/ Unacknowledged) => IInv'
<1> SUFFICES ASSUME IInv, MarkPending \/ ClearAfterFailure \/ Unacknowledged PROVE IInv'
  OBVIOUS
<1>1. /\ Quiet
      /\ UNCHANGED <<now, rebooting, owner, audits, shown, acked, told, faults, changes>>
      /\ pc' \in {"approve", "reply", "start", "idle"}
  BY DEF MarkPending, ClearAfterFailure, Unacknowledged, Settle, Goto, Quiet,
         machineVars, outsideVars, historyVars, noticeVars
<1>2. Rows' /\ Outcomes' /\ (OneRebootPerPhrase /\ OrderedAfterTheRecord /\ WithdrawnNeverReboots)'
  BY <1>1, QuietPart
<1>3. CompletionFollowsApproval'
  BY <1>1 DEF IInv, Safe, CompletionFollowsApproval, Quiet
<1>4. pc \in InHandler /\ press \in Presses
  BY DEF MarkPending, ClearAfterFailure, Unacknowledged, IInv, Running, InHandler, Steps, StartupSteps
<1>5. CASE MarkPending
  <2>1. /\ pc = "mark" /\ pc' = "approve" /\ pending' = [boot |-> boot, at |-> now]
        /\ UNCHANGED <<press, attempt>>
    BY <1>5 DEF MarkPending, Goto
  <2>2. press.kind = "phrase" /\ press.phrase \in Phrases /\ consumed[press.phrase] = boot
    BY <1>4, <2>1, PressPart DEF IInv, Running, Accepted
  <2>3. Running'
    BY <1>1, <1>4, <2>1 DEF IInv, Running, Accepted, Quiet
  <2>4. notices' = 0 /\ cut' = 0
    BY <1>5 DEF MarkPending
  <2>5. TypeOK'
    BY <1>1, <2>1, <2>4 DEF IInv, TypeOK, Quiet, Steps
  <2>6. Record'
    BY <1>1, <2>1, <2>2 DEF IInv, TypeOK, Record, Quiet
  <2>7. Notices'
    BY <2>4 DEF Notices
  <2>8. QED
    BY <1>2, <1>3, <2>3, <2>5, <2>6, <2>7 DEF IInv, Safe
<1>6. CASE ClearAfterFailure \/ Unacknowledged
  <2>1. pending' = NoPending /\ pc' \in {"reply", "start", "idle"}
        /\ \/ press' = press /\ attempt' = attempt
           \/ press' = press /\ attempt' = attempt + 1 /\ attempt + 1 < MaxAttempts
           \/ press' = NoPress /\ attempt' = 0 /\ pc' = "idle"
    BY <1>6 DEF ClearAfterFailure, Unacknowledged, AttemptsLeft, Settle, Goto
  <2>6. UNCHANGED <<notices, cut>>
    BY <1>6 DEF ClearAfterFailure, Unacknowledged, historyVars, noticeVars
  <2>2. NoPending \in [boot : 0 .. MaxBoots, at : 0 .. now]
    BY ParameterAssumption DEF NoPending, IInv, TypeOK
  <2>3. Running'
    BY <1>4, <2>1 DEF Running, InHandler, Accepted
  <2>4. TypeOK'
    BY <1>1, <1>4, <2>1, <2>2, <2>6, ParameterAssumption DEF IInv, TypeOK, Quiet, Steps
  <2>5. Record'
    BY <2>1 DEF Record
  <2>7. Notices'
    BY <1>4, <2>1, <2>6, NoticesPart DEF InHandler, StartupSteps
  <2>8. QED
    BY <1>2, <1>3, <2>3, <2>4, <2>5, <2>7 DEF IInv, Safe
<1>7. QED
  BY <1>5, <1>6

LEMMA FaultKeeps == IInv /\ (AckFails \/ Retry \/ GiveUp) => IInv'
<1> SUFFICES ASSUME IInv, AckFails \/ Retry \/ GiveUp PROVE IInv'
  OBVIOUS
<1>1. /\ Quiet /\ acked \subseteq acked'
      /\ UNCHANGED <<now, rebooting, owner, audits, pending, told, notices, cut, changes>>
      /\ faults' = faults + 1
      /\ pc' \in {"unack", "start", "idle"}
  BY DEF AckFails, Retry, GiveUp, Fault, Settle, Goto, Quiet, machineVars, storeVars, outsideVars,
         noticeVars
<1>2. Rows' /\ Outcomes' /\ (OneRebootPerPhrase /\ OrderedAfterTheRecord /\ WithdrawnNeverReboots)'
  BY <1>1, QuietPart
<1>3. Record' /\ CompletionFollowsApproval'
  BY <1>1 DEF IInv, Safe, Record, CompletionFollowsApproval, Quiet
<1>4. pc \in InHandler /\ press \in Presses
  BY DEF AckFails, Retry, GiveUp, CanFail, IInv, Running, InHandler, Steps, StartupSteps
<1>5. acked' \subseteq Phrases
  BY <1>4, PressPart DEF AckFails, Retry, GiveUp, IInv, TypeOK, Running, Accepted
<1>6. shown' \subseteq Phrases
  BY DEF AckFails, Retry, GiveUp, MaybeShown, outsideVars, IInv, TypeOK, Running
<1>7. \/ press' = press /\ attempt' = attempt
      \/ press' = press /\ attempt' = attempt + 1 /\ attempt + 1 < MaxAttempts
      \/ press' = NoPress /\ attempt' = 0 /\ pc' = "idle"
  BY DEF AckFails, Retry, GiveUp, AttemptsLeft, Settle, Goto
<1>8. Running'
  BY <1>1, <1>4, <1>7 DEF Running, InHandler, Accepted
<1>9. TypeOK'
  BY <1>1, <1>4, <1>5, <1>6, <1>7, ParameterAssumption DEF IInv, TypeOK, Quiet, Steps
<1>10. Notices'
  BY <1>1, <1>4, NoticesPart DEF InHandler, StartupSteps
<1>11. QED
  BY <1>2, <1>3, <1>8, <1>9, <1>10 DEF IInv, Safe

\* A crash may hide whether the completion was told; a boot ends everything on its way.
LEMMA StopKeeps == IInv /\ (Crash \/ Shutdown \/ OtherReboot) => IInv'
<1> SUFFICES ASSUME IInv, Crash \/ Shutdown \/ OtherReboot PROVE IInv'
  OBVIOUS
<1>1. /\ pc' = "down" /\ attempt' = 0
      /\ UNCHANGED <<now, owner, approvals, pending, audits, press, issued, shown,
                     acked, consumed, orders, withdrawn, changes>>
      /\ faults' \in {faults, faults + 1}
      /\ rebooting' = rebooting \/ rebooting' = FALSE
      /\ \/ boot' = boot
         \/ boot' = boot + 1 /\ boot < MaxBoots
      /\ \/ /\ told' = told /\ notices' = notices
            /\ cut' = IF pc \in {"completed", "clear"} THEN cut + 1 ELSE cut
         \/ /\ told' = told \cup {boot} /\ notices' = notices + 1 /\ pc = "tell"
            /\ cut' = cut + 1
  BY DEF Crash, CutOff, Notice, Shutdown, OtherReboot, Boot, Fault, Goto, machineVars, storeVars, outsideVars,
         historyVars, noticeVars
<1>2. TypeOK'
  <2>1. boot' \in 1 .. MaxBoots
    BY <1>1, ParameterAssumption DEF IInv, TypeOK
  <2>2. told' \subseteq 1 .. MaxBoots
    BY <1>1 DEF IInv, TypeOK
  <2>3. faults' \in Nat /\ attempt' \in 0 .. MaxAttempts - 1
    BY <1>1, ParameterAssumption DEF IInv, TypeOK
  <2>4. rebooting' \in BOOLEAN
    BY <1>1 DEF IInv, TypeOK
  <2>5. notices' \in Nat /\ cut' \in Nat
    BY <1>1 DEF IInv, TypeOK
  <2>6. QED
    BY <1>1, <2>1, <2>2, <2>3, <2>4, <2>5 DEF IInv, TypeOK, Steps
<1>3. Rows' /\ (OneRebootPerPhrase /\ OrderedAfterTheRecord /\ WithdrawnNeverReboots)'
  BY <1>1 DEF IInv, Rows, Safe, OneRebootPerPhrase, OrderedAfterTheRecord, WithdrawnNeverReboots
<1>4. Outcomes'
  BY <1>1 DEF IInv, TypeOK, Outcomes
<1>5. Running'
  BY <1>1 DEF Running, InHandler, Accepted
<1>6. Record'
  BY <1>1 DEF IInv, TypeOK, Record
<1>7. CompletionFollowsApproval'
  BY <1>1 DEF IInv, Safe, Record, CompletionFollowsApproval
<1>8. Notices'
  BY <1>1 DEF IInv, TypeOK, Notices
<1>9. QED
  BY <1>2, <1>3, <1>4, <1>5, <1>6, <1>7, <1>8 DEF IInv, Safe

LEMMA NextIInv == IInv /\ [Next]_vars => IInv'
<1> SUFFICES ASSUME IInv, [Next]_vars PROVE IInv'
  OBVIOUS
<1>1. CASE Pair \/ Tick \/ UNCHANGED vars
  <2>1. /\ Quiet
        /\ UNCHANGED <<rebooting, pending, audits, pc, press, attempt, shown, acked, told, notices, cut, faults>>
        /\ now' \in {now, now + 1} /\ changes' \in {changes, changes + 1}
        /\ owner' \in Users \cup {owner}
    BY <1>1 DEF Pair, Tick, vars, machineVars, storeVars, agentVars, outsideVars, historyVars, noticeVars, Quiet
  <2>2. QED
    BY <2>1, QuietPart DEF Quiet, IInv, TypeOK, Running, Record, Notices, Safe,
                           CompletionFollowsApproval
<1>2. QED
  BY <1>1, IssueKeeps, CancelKeeps, UnpairKeeps, ConsumeKeeps, ExecuteKeeps, StartupKeeps,
     HandlerStepKeeps, PendingStepKeeps, FaultKeeps, StopKeeps DEF Next, Handle

-----------------------------------------------------------------------------
\* Rows, phrases, the pending record and the handler stay in step through failures,
\* crashes, boots and changes of owner.
THEOREM Inductive == Spec => []IInv
  BY InitIInv, NextIInv, PTL DEF Spec

\* Every variable keeps its type.
THEOREM TypeCorrect == Spec => []TypeOK
<1>1. IInv => TypeOK
  BY DEF IInv
<1>2. QED
  BY <1>1, Inductive, PTL

\* A phrase orders at most one reboot, however often Telegram delivers it.
THEOREM NoRebootLoop == Spec => []OneRebootPerPhrase
<1>1. IInv => OneRebootPerPhrase
  BY DEF IInv, Safe
<1>2. QED
  BY <1>1, Inductive, PTL

\* The order follows both audit rows and the announcement.
THEOREM RecordComesFirst == Spec => []OrderedAfterTheRecord
<1>1. IInv => OrderedAfterTheRecord
  BY DEF IInv, Safe
<1>2. QED
  BY <1>1, Inductive, PTL

\* A replaced, cancelled or revoked phrase orders nothing.
THEOREM WithdrawnIsDead == Spec => []WithdrawnNeverReboots
<1>1. IInv => WithdrawnNeverReboots
  BY DEF IInv, Safe
<1>2. QED
  BY <1>1, Inductive, PTL

\* The completion is told only in a boot after the one of the acceptance.
THEOREM CompletionIsTrue == Spec => []CompletionFollowsApproval
<1>1. IInv => CompletionFollowsApproval
  BY DEF IInv, Safe
<1>2. QED
  BY <1>1, Inductive, PTL

\* Without a cut-off the completion of a request is told once.
THEOREM CompletionIsToldOnce == Spec => []CompletionRepeatsOnlyIfCutOff
<1>1. IInv => CompletionRepeatsOnlyIfCutOff
  BY DEF IInv, Notices, CompletionRepeatsOnlyIfCutOff
<1>2. QED
  BY <1>1, Inductive, PTL

-----------------------------------------------------------------------------
(* The request of an earlier boot                                          *)

\* Once the agent is past its start no record of an earlier boot is left; and it is about
\* to clear one only after the notice was said in this boot.
Fresh ==
  /\ pc \notin StartupSteps \cup {"down"} => pending.boot \in {0, boot}
  /\ pc \in {"completed", "clear"} => boot \in told

LEMMA FreshStep == IInv /\ Fresh /\ [Next]_vars => Fresh'
<1> SUFFICES ASSUME IInv, Fresh, [Next]_vars PROVE Fresh'
  OBVIOUS
<1> USE DEF Fresh, StartupSteps, Goto
<1>1. CASE Startup
  <2>1. CASE Start \/ ReadPending \/ ReadOwner
    <3>1. pc' \in {"boot", "owner", "tell"} \/ (pc' = "idle" /\ pending' = NoPending)
      BY <2>1 DEF Start, ReadPending, ReadOwner
    <3>2. QED
      BY <3>1 DEF NoPending
  <2>2. CASE TellCompleted
    BY <2>2 DEF TellCompleted, Notice, machineVars
  <2>3. CASE AuditCompleted
    BY <2>3 DEF AuditCompleted, machineVars, historyVars, noticeVars
  <2>4. CASE ClearPending
    <3>1. pc' = "idle" /\ pending' = NoPending
      BY <2>4 DEF ClearPending
    <3>2. QED
      BY <3>1 DEF NoPending
  <2>5. QED
    BY <1>1, <2>1, <2>2, <2>3, <2>4 DEF Startup
<1>2. CASE CheckOwner
  <2>1. UNCHANGED <<boot, pending>> /\ pc = "start" /\ press.kind \in {"plan", "cancel", "phrase"}
    BY <1>2, PressPart DEF CheckOwner, machineVars, storeVars, IInv, Running, InHandler, Steps
  <2>2. pc' \in {"reply", "issue", "cancel", "consume"}
    BY <1>2, <2>1 DEF CheckOwner
  <2>3. QED
    BY <2>1, <2>2
<1>3. CASE Handle /\ ~(CheckOwner \/ MarkPending \/ ClearAfterFailure \/ Unacknowledged)
  <2>1. UNCHANGED <<boot, pending>> /\ pc \notin StartupSteps \cup {"down"}
    BY <1>3 DEF Handle, Issue, RefusePlan, Offer, Cancel, Consume, Disabled, CheckHelper,
                AuditApproved, Acknowledge, AuditRequested, Execute, ExecuteFails,
                Reply, StoreOffset, machineVars, storeVars
  <2>2. pc' \notin StartupSteps \cup {"down"}
    BY <1>3 DEF Handle, Issue, RefusePlan, Offer, Cancel, Consume, Disabled, CheckHelper,
                AuditApproved, Acknowledge, AuditRequested, Execute, ExecuteFails,
                Reply, StoreOffset, Settle
  <2>3. QED
    BY <2>1, <2>2
<1>4. CASE MarkPending \/ ClearAfterFailure \/ Unacknowledged
  BY <1>4 DEF MarkPending, ClearAfterFailure, Unacknowledged, Settle, NoPending, machineVars
<1>5. CASE Press \/ Redeliver \/ AckFails \/ Retry \/ GiveUp
  BY <1>5 DEF Press, Redeliver, AckFails, Retry, GiveUp, CanFail, Settle, machineVars, storeVars
<1>6. CASE Crash \/ Shutdown \/ OtherReboot
  BY <1>6 DEF Crash, Shutdown, OtherReboot, Boot
<1>7. CASE Unpair \/ Pair \/ Tick \/ UNCHANGED vars
  BY <1>7 DEF Unpair, Pair, Tick, vars, NoPending, machineVars, storeVars, agentVars, historyVars,
              noticeVars
<1>8. QED
  BY <1>1, <1>2, <1>3, <1>4, <1>5, <1>6, <1>7 DEF Next

\* The steps that forget a record forget one of this boot, one that was announced, one
\* that is too old, or one that no owner waits for.
THEOREM CompletionIsKept == Spec => CompletionNotLost
<1>1. Init => Fresh
  BY DEF Init, Fresh, NoPending, StartupSteps
<1>2. Spec => []Fresh
  BY <1>1, FreshStep, Inductive, PTL DEF Spec
<1>3. IInv /\ Fresh /\ [Next]_vars =>
        [pending.boot \in 1 .. boot - 1 /\ pending' = NoPending =>
           boot \in told \/ owner' = NoOne \/ now - pending.at > CompletionMax]_vars
  <2> SUFFICES ASSUME IInv, Fresh, [Next]_vars,
                      pending.boot \in 1 .. boot - 1, pending' = NoPending
               PROVE  boot \in told \/ owner' = NoOne \/ now - pending.at > CompletionMax
    OBVIOUS
  <2>1. /\ boot \in Nat /\ pending.boot \notin {0, boot} /\ pending # NoPending
        /\ now \in Nat /\ pending.at \in 0 .. now
    BY DEF IInv, TypeOK, NoPending
  <2>2. pc \in StartupSteps \cup {"down"}
    BY <2>1 DEF Fresh
  <2>3. \/ ReadPending \/ ReadOwner \/ ClearPending \/ Unpair
    BY <2>1, <2>2 DEF Next, Startup, Handle, Start, TellCompleted, AuditCompleted, Press, Redeliver,
         CheckOwner, Issue, RefusePlan, Offer, Cancel, Consume, Disabled, CheckHelper, MarkPending,
         AuditApproved, Acknowledge, AuditRequested, Execute, ExecuteFails, ClearAfterFailure,
         Unacknowledged, Reply, StoreOffset, AckFails, Retry, GiveUp, Crash, Shutdown, OtherReboot,
         Boot, Pair, Tick, vars, storeVars, StartupSteps
  <2>4. CASE ReadPending
    BY <2>1, <2>4, ParameterAssumption DEF ReadPending, Completable
  <2>5. CASE ReadOwner \/ Unpair
    BY <2>1, <2>5 DEF ReadOwner, Unpair
  <2>6. CASE ClearPending
    BY <2>6 DEF ClearPending, Fresh
  <2>7. QED
    BY <2>3, <2>4, <2>5, <2>6
<1>4. QED
  BY <1>2, <1>3, Inductive, PTL DEF Spec, CompletionNotLost

-----------------------------------------------------------------------------
\* Fewer rows and nothing accepted: open phrases may be void afterwards.
LEMMA KeptPart ==
  ASSUME IInv, NEW p \in Phrases,
         Unused(p)' => Unused(p), UNCHANGED consumed,
         (p > issued /\ p > issued' /\ ~(p <= issued'))
           \/ (p <= issued /\ p <= issued' /\ ~(p > issued'))
  PROVE  Promise!KeptOrWithdrawn(p)
<1>1. Unused(p) => consumed[p] = 0
  BY DEF Unused, IInv, Rows
<1>2. p > issued => ~(p <= issued)
  BY DEF IInv, TypeOK, Phrases
<1>3. p <= issued => ~(p > issued)
  BY DEF IInv, TypeOK, Phrases
<1>4. Grant(p)' = Grant(p) \/ (Grant(p) = "open" /\ Grant(p)' = "void")
  <2>1. CASE p > issued
    BY <1>2, <1>3, <2>1 DEF Grant
  <2>2. CASE p <= issued /\ Unused(p)
    BY <1>1, <1>2, <1>3, <2>2 DEF Grant
  <2>3. CASE p <= issued /\ ~Unused(p)
    BY <1>2, <1>3, <2>3 DEF Grant
  <2>4. QED
    BY <2>1, <2>2, <2>3
<1>5. QED
  BY <1>4 DEF State, Promise!KeptOrWithdrawn

LEMMA WithdrawPart ==
  ASSUME IInv, UNCHANGED <<issued, consumed>>, approvals' \subseteq approvals
  PROVE  \A p \in Phrases : Promise!KeptOrWithdrawn(p)
<1> SUFFICES ASSUME NEW p \in Phrases PROVE Promise!KeptOrWithdrawn(p)
  OBVIOUS
<1>1. (p > issued /\ p > issued' /\ ~(p <= issued'))
        \/ (p <= issued /\ p <= issued' /\ ~(p > issued'))
  BY DEF IInv, TypeOK, Phrases
<1>2. Unused(p)' => Unused(p)
  BY DEF Unused
<1>3. QED
  BY <1>1, <1>2, KeptPart

LEMMA HandOutPart ==
  ASSUME IInv, Issue, NEW new \in Phrases, new = issued + 1
  PROVE  Promise!HandOut(new)
<1> DEFINE row == [phrase |-> new, actor |-> press.from, expires |-> now + Ttl]
<1>1. issued' = new /\ approvals' = {row} /\ UNCHANGED <<orders, consumed>>
  BY DEF Issue
<1>2. row.phrase = new /\ issued \in Nat /\ new > issued /\ new <= new /\ ~(new > new)
  BY DEF IInv, TypeOK
<1> HIDE DEF row
<1>3. State[new] = "new"
  BY <1>2 DEF State, Grant
<1>4. State'[new] = "open"
  <2>1. Unused(new)'
    BY <1>1, <1>2 DEF Unused
  <2>2. Grant(new)' = "open"
    BY <1>1, <1>2, <2>1 DEF Grant
  <2>3. QED
    BY <2>2 DEF State
<1>5. ASSUME NEW p \in Phrases \ {new} PROVE Promise!KeptOrWithdrawn(p)
  <2>1. ~Unused(p)'
    BY <1>1, <1>2 DEF Unused
  <2>2. (p > issued /\ p > issued' /\ ~(p <= issued'))
          \/ (p <= issued /\ p <= issued' /\ ~(p > issued'))
    BY <1>1, <1>2 DEF Phrases
  <2>3. QED
    BY <1>1, <2>1, <2>2, KeptPart
<1>6. QED
  BY <1>1, <1>3, <1>4, <1>5 DEF Promise!HandOut, Promise!OthersKept

LEMMA AcceptPart ==
  ASSUME IInv, Consume, NEW q \in Phrases, q = press.phrase, consumed' # consumed
  PROVE  Promise!Accept(q)
<1>1. /\ consumed' = [consumed EXCEPT ![q] = boot] /\ UNCHANGED <<issued, orders>>
      /\ approvals' = approvals \ {a \in approvals : a.phrase = q /\ a.actor = press.from}
  BY DEF Consume, Match, outsideVars
<1>2. PICK row \in approvals : row.phrase = q /\ row.actor = press.from
  BY DEF Consume, Match
<1>3. consumed[q] = 0 /\ q <= issued /\ ~(q > issued) /\ boot # 0
  BY <1>2 DEF IInv, TypeOK, Rows, Phrases
<1>4. Unused(q) /\ ~Unused(q)'
  BY <1>1, <1>2 DEF Unused, IInv, Rows
<1>5. State[q] = "open"
  BY <1>3, <1>4 DEF State, Grant
<1>6. State'[q] = "accepted"
  <2>1. consumed'[q] # 0
    BY <1>1, <1>3 DEF IInv, TypeOK
  <2>2. Grant(q)' = "accepted"
    BY <1>1, <1>3, <1>4, <2>1 DEF Grant
  <2>3. QED
    BY <2>2 DEF State
<1>7. ASSUME NEW p \in Phrases \ {q} PROVE State'[p] = State[p]
  <2>1. consumed'[p] = consumed[p]
    BY <1>1 DEF IInv, TypeOK
  <2>2. Unused(p)' <=> Unused(p)
    BY <1>1 DEF Unused
  <2>3. Grant(p)' = Grant(p)
    BY <1>1, <2>1, <2>2 DEF Grant
  <2>4. QED
    BY <2>3 DEF State
<1>8. QED
  BY <1>1, <1>5, <1>6, <1>7 DEF Promise!Accept, Promise!OthersKept, Promise!KeptOrWithdrawn

\* A step that leaves rows, acceptances, phrases and orders alone.
LEMMA StutterPart ==
  UNCHANGED <<approvals, issued, consumed, orders>> => UNCHANGED Promise!vars
<1> SUFFICES ASSUME UNCHANGED <<approvals, issued, consumed, orders>> PROVE UNCHANGED Promise!vars
  OBVIOUS
<1>1. \A p \in Phrases : Grant(p)' = Grant(p)
  BY DEF Grant, Unused
<1>2. QED
  BY <1>1 DEF State, Promise!vars

LEMMA EffectPart ==
  ASSUME IInv, Execute \/ ExecuteFails
  PROVE  UNCHANGED Promise!vars \/ \E p \in Phrases : Promise!TakeEffect(p)
<1>1. PICK q \in Phrases : q = press.phrase /\ orders[q] = 0 /\ consumed[q] = boot
  BY PressPart DEF Execute, ExecuteFails, IInv, Running, InHandler, Accepted, Steps, StartupSteps
<1>2. UNCHANGED <<approvals, issued, consumed>>
      /\ orders' \in {orders, [orders EXCEPT ![q] = @ + 1]}
  BY <1>1 DEF Execute, ExecuteFails, Order, storeVars, outsideVars
<1>3. UNCHANGED State
  <2>1. \A p \in Phrases : Grant(p)' = Grant(p)
    BY <1>2 DEF Grant, Unused
  <2>2. QED
    BY <2>1 DEF State
<1>4. State[q] = "accepted"
  <2>1. consumed[q] # 0 /\ q <= issued /\ ~(q > issued)
    BY <1>1 DEF IInv, TypeOK, Outcomes, Phrases
  <2>2. ~Unused(q)
    BY <2>1 DEF Unused, IInv, Rows
  <2>3. QED
    BY <2>1, <2>2 DEF State, Grant
<1>5. CASE orders' = [orders EXCEPT ![q] = @ + 1]
  <2>1. orders' = [orders EXCEPT ![q] = 1]
    BY <1>1, <1>5 DEF IInv, TypeOK
  <2>2. Promise!TakeEffect(q)
    BY <1>1, <1>3, <1>4, <2>1 DEF Promise!TakeEffect
  <2>3. QED
    BY <2>2
<1>6. CASE orders' = orders
  BY <1>3, <1>6 DEF Promise!vars
<1>7. QED
  BY <1>2, <1>5, <1>6

\* The reboot flow implements OneTimeGrant.
THEOREM Refinement == Spec => RebootsByGrant
<1>1. Init => Promise!Init
  <2> SUFFICES ASSUME Init PROVE Promise!Init
    OBVIOUS
  <2>1. \A p \in Phrases : p > issued /\ ~(p <= issued)
    BY DEF Init, Phrases
  <2>2. State = [p \in Phrases |-> "new"]
    BY <2>1 DEF State, Grant
  <2>3. QED
    BY <2>2 DEF Promise!Init, Init
<1>2. IInv /\ [Next]_vars => [Promise!Next]_Promise!vars
  <2> SUFFICES ASSUME IInv, [Next]_vars PROVE Promise!Next \/ UNCHANGED Promise!vars
    OBVIOUS
  <2>1. CASE Issue
    <3>1. PICK new \in Phrases : new = issued + 1
      BY <2>1 DEF Issue
    <3>2. Promise!HandOut(new)
      BY <2>1, <3>1, HandOutPart
    <3>3. QED
      BY <3>2 DEF Promise!Next
  <2>2. CASE Consume /\ consumed' # consumed
    <3>1. PICK q \in Phrases : q = press.phrase
      BY <2>2, PressPart DEF Consume, IInv, Running, InHandler, Steps, StartupSteps
    <3>2. Promise!Accept(q)
      BY <2>2, <3>1, AcceptPart
    <3>3. QED
      BY <3>2 DEF Promise!Next
  <2>3. CASE Execute \/ ExecuteFails
    BY <2>3, EffectPart DEF Promise!Next
  <2>4. CASE Cancel \/ Unpair \/ (Consume /\ consumed' = consumed)
    <3>1. approvals' \subseteq approvals /\ UNCHANGED <<issued, consumed, orders>>
      BY <2>4 DEF Cancel, Unpair, Consume, outsideVars
    <3>2. \A p \in Phrases : Promise!KeptOrWithdrawn(p)
      BY <3>1, WithdrawPart
    <3>3. QED
      BY <3>1, <3>2 DEF Promise!Next, Promise!Withdraw
  <2>5. CASE Startup
    BY <2>5, StutterPart
    DEF Startup, Start, ReadPending, ReadOwner, TellCompleted, AuditCompleted, ClearPending,
        storeVars, outsideVars, historyVars, noticeVars
  <2>6. CASE \/ Press \/ Redeliver \/ CheckOwner \/ RefusePlan \/ Offer \/ Disabled \/ CheckHelper
             \/ MarkPending \/ AuditApproved \/ Acknowledge \/ Unacknowledged \/ AuditRequested
             \/ ClearAfterFailure \/ Reply \/ StoreOffset
    BY <2>6, StutterPart
    DEF Press, Redeliver, CheckOwner, RefusePlan, Offer, Disabled, CheckHelper, MarkPending,
        AuditApproved, Acknowledge, Unacknowledged, AuditRequested, ClearAfterFailure, Reply,
        StoreOffset, storeVars, outsideVars, historyVars, noticeVars
  <2>7. CASE \/ AckFails \/ Retry \/ GiveUp \/ Crash \/ Shutdown \/ OtherReboot \/ Pair \/ Tick
             \/ UNCHANGED vars
    BY <2>7, StutterPart
    DEF AckFails, Retry, GiveUp, Crash, Shutdown, OtherReboot, Boot, Pair, Tick, vars,
        storeVars, outsideVars, historyVars, noticeVars
  <2>8. QED
    BY <2>1, <2>2, <2>3, <2>4, <2>5, <2>6, <2>7 DEF Next, Handle
<1>3. QED
  BY <1>1, <1>2, Inductive, PTL DEF Spec, RebootsByGrant, Promise!Spec
=============================================================================
