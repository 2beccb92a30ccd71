------------------------- MODULE ServiceActionProofs -------------------------
(***************************************************************************)
(* What ServiceAction promises for any users, tokens, failures and changes *)
(* of owner: a token restarts the unit at most once, in time, and never    *)
(* after it was cancelled or revoked.                                      *)
(*                                                                         *)
(* The argument: a row that is not consumed belongs to a token that was    *)
(* never accepted (Rows), so that consuming it is the only way from "never *)
(* accepted" to accepted; and the handler is on its way to the restart     *)
(* only with a token accepted by this attempt, not restarted yet and not   *)
(* withdrawn (Pending).                                                    *)
(*                                                                         *)
(* A live approval is lost only to an unpairing or to MaxApprovals newer   *)
(* ones: tokens are handed out in order (Separate), so that each row that  *)
(* is kept has a rank of its own, and the ranks below MaxApprovals are     *)
(* taken by newer rows wherever one is left out (RankedOut).               *)
(***************************************************************************)
EXTENDS ServiceAction, FiniteSetTheorems, TLAPS

\* The places between the consumption of a token and the restart.
Approved == {"answer", "discover", "execute"}
\* The places where the handler holds a token.
WithToken == Approved \cup {"prune", "offer", "refresh", "record", "tidy"}

\* The rows of the table, one for each token.
Rows ==
  /\ \A a, b \in approvals : a.token = b.token => a = b
  /\ \A a \in approvals :
       /\ a.token <= issued
       /\ a.expires = expiry[a.token]
       /\ a.token \notin revoked
       /\ ~a.consumed => accepted[a.token] = -1

\* What became of the tokens.
Outcomes ==
  /\ \A t \in Tokens :
       /\ accepted[t] # -1 => accepted[t] <= expiry[t] /\ t <= issued
       /\ accepted[t] = -1 => restarts[t] = 0
  /\ \A t \in cancelled : accepted[t] # -1
  /\ \A t \in revoked : t <= issued

\* What the handler holds on its way to the restart.
Pending ==
  /\ pc # "idle" => press \in Presses
  /\ pc = "consume" => /\ press.kind # "plan"
                       /\ owner = press.from \/ approvals = {}
  /\ pc \in WithToken => token \in Tokens
  /\ pc \in Approved => /\ restarts[token] = 0
                        /\ accepted[token] # -1
                        /\ token \notin cancelled \cup revoked

\* The inductive invariant.
IInv == TypeOK /\ Rows /\ Outcomes /\ Pending /\ RestartedAtMostOnce /\ WithdrawnNeverRuns

-----------------------------------------------------------------------------
LEMMA InitIInv == Init => IInv
  BY ParameterAssumption
  DEF Init, IInv, TypeOK, Rows, Outcomes, Pending, RestartedAtMostOnce, WithdrawnNeverRuns,
      Approved, WithToken, Steps, Tokens, NoToken, Presses, NoPress

\* Pruning only takes rows away.
LEMMA PrunedPart == \A rows : Pruned(rows) \subseteq rows
  BY DEF Pruned

\* What an accepted consumption changes: one row, and the acceptance of its token,
\* which had none.
LEMMA Accepts ==
  ASSUME IInv, NEW t \in Tokens, NEW user, Consume(t, user)
  PROVE  /\ accepted[t] = -1 /\ restarts[t] = 0 /\ t \notin cancelled \cup revoked
         /\ t <= issued /\ now <= expiry[t]
         /\ accepted' = [accepted EXCEPT ![t] = now]
         /\ approvals' \subseteq Approvals
         /\ \A a \in approvals' : \E b \in approvals :
              /\ a.token = b.token /\ a.expires = b.expires
              /\ IF b.token = t THEN a.consumed ELSE a = b
         /\ \A a, b \in approvals' : a.token = b.token => a = b
<1> USE DEF IInv, TypeOK
<1>1. PICK row \in approvals : row.token = t /\ row.expires >= now /\ ~row.consumed
  BY DEF Consume, Acceptable, Live
<1>2. accepted[t] = -1 /\ t <= issued /\ now <= expiry[t] /\ t \notin revoked
  BY <1>1 DEF Rows
<1>3. restarts[t] = 0 /\ t \notin cancelled
  BY <1>2 DEF Outcomes
<1>4. accepted' = [accepted EXCEPT ![t] = now]
  BY DEF Consume
<1> DEFINE Used(a) == IF a.token = t THEN [a EXCEPT !.consumed = TRUE] ELSE a
<1>5. approvals' = {Used(a) : a \in approvals}
  BY DEF Consume, MarkConsumed
<1>6. ASSUME NEW a \in approvals
      PROVE  /\ Used(a) \in Approvals
             /\ Used(a).token = a.token /\ Used(a).expires = a.expires
             /\ IF a.token = t THEN Used(a).consumed ELSE Used(a) = a
  <2>1. a \in Approvals
    OBVIOUS
  <2> DEFINE used == [a EXCEPT !.consumed = TRUE]
  <2>2. used \in Approvals /\ used.token = a.token /\ used.expires = a.expires /\ used.consumed
    BY <2>1 DEF Approvals
  <2> HIDE DEF used
  <2>3. Used(a) = IF a.token = t THEN used ELSE a
    BY DEF used
  <2>4. QED
    BY <2>1, <2>2, <2>3
<1> HIDE DEF Used
<1>7. approvals' \subseteq Approvals
  BY <1>5, <1>6
<1>8. \A a \in approvals' : \E b \in approvals :
              /\ a.token = b.token /\ a.expires = b.expires
              /\ IF b.token = t THEN a.consumed ELSE a = b
  BY <1>5, <1>6
<1>9. \A a, b \in approvals' : a.token = b.token => a = b
  BY <1>5, <1>6 DEF Rows
<1>10. QED
  BY <1>2, <1>3, <1>4, <1>7, <1>8, <1>9

LEMMA ConsumeConfirmKeeps == IInv /\ ConsumeConfirm => IInv'
<1> SUFFICES ASSUME IInv, ConsumeConfirm PROVE IInv'
  OBVIOUS
<1> DEFINE t == press.token
<1>1. t \in Tokens /\ press \in Presses /\ press.kind = "confirm"
  BY DEF IInv, Pending, ConsumeConfirm, Presses
<1>2. Consume(t, press.from)
  BY DEF ConsumeConfirm
<1>3. /\ accepted[t] = -1 /\ restarts[t] = 0 /\ t \notin cancelled \cup revoked
      /\ t <= issued /\ now <= expiry[t]
      /\ accepted' = [accepted EXCEPT ![t] = now]
      /\ approvals' \subseteq Approvals
      /\ \A a \in approvals' : \E b \in approvals :
              /\ a.token = b.token /\ a.expires = b.expires
              /\ IF b.token = t THEN a.consumed ELSE a = b
      /\ \A a, b \in approvals' : a.token = b.token => a = b
  BY <1>1, <1>2, Accepts
<1>4. /\ pc' = "answer" /\ token' = t
      /\ UNCHANGED <<now, owner, audits, press, attempt, issued, shown, restarts,
                     cancelled, revoked, expiry, faults, changes>>
  BY DEF ConsumeConfirm, Goto, outsideVars
<1> HIDE DEF t
<1>5. TypeOK'
  BY <1>1, <1>3, <1>4 DEF IInv, TypeOK, Steps
<1>6. Rows'
  BY <1>1, <1>3, <1>4 DEF IInv, TypeOK, Rows, Approvals
<1>7. Outcomes'
  BY <1>1, <1>3, <1>4 DEF IInv, TypeOK, Outcomes
<1>8. Pending'
  BY <1>1, <1>3, <1>4 DEF IInv, TypeOK, Pending, Approved, WithToken
<1>9. (RestartedAtMostOnce /\ WithdrawnNeverRuns)'
  BY <1>4 DEF IInv, RestartedAtMostOnce, WithdrawnNeverRuns
<1>10. QED
  BY <1>5, <1>6, <1>7, <1>8, <1>9 DEF IInv

LEMMA ConsumeCancelKeeps == IInv /\ ConsumeCancel => IInv'
<1> SUFFICES ASSUME IInv, ConsumeCancel PROVE IInv'
  OBVIOUS
<1> DEFINE t == press.token
<1>1. t \in Tokens /\ press \in Presses /\ press.kind = "cancel"
  BY DEF IInv, Pending, ConsumeCancel, Presses
<1>2. Consume(t, press.from)
  BY DEF ConsumeCancel
<1>3. /\ accepted[t] = -1 /\ restarts[t] = 0 /\ t \notin cancelled \cup revoked
      /\ t <= issued /\ now <= expiry[t]
      /\ accepted' = [accepted EXCEPT ![t] = now]
      /\ approvals' \subseteq Approvals
      /\ \A a \in approvals' : \E b \in approvals :
              /\ a.token = b.token /\ a.expires = b.expires
              /\ IF b.token = t THEN a.consumed ELSE a = b
      /\ \A a, b \in approvals' : a.token = b.token => a = b
  BY <1>1, <1>2, Accepts
<1>4. /\ pc' = "reply" /\ cancelled' = cancelled \cup {t}
      /\ UNCHANGED <<now, owner, audits, press, attempt, token, issued, shown, restarts,
                     revoked, expiry, faults, changes>>
  BY DEF ConsumeCancel, Goto, outsideVars
<1> HIDE DEF t
<1>5. TypeOK'
  BY <1>1, <1>3, <1>4 DEF IInv, TypeOK, Steps
<1>6. Rows'
  BY <1>1, <1>3, <1>4 DEF IInv, TypeOK, Rows, Approvals
<1>7. Outcomes'
  BY <1>1, <1>3, <1>4 DEF IInv, TypeOK, Outcomes
<1>8. Pending'
  BY <1>1, <1>4 DEF IInv, TypeOK, Pending, Approved, WithToken
<1>9. (RestartedAtMostOnce /\ WithdrawnNeverRuns)'
  BY <1>3, <1>4 DEF IInv, RestartedAtMostOnce, WithdrawnNeverRuns
<1>10. QED
  BY <1>5, <1>6, <1>7, <1>8, <1>9 DEF IInv

\* A new token has no row, no acceptance and no restart yet.
LEMMA IssueKeeps == IInv /\ Issue => IInv'
<1> SUFFICES ASSUME IInv, Issue PROVE IInv'
  OBVIOUS
<1> DEFINE new == issued + 1
           row == [token |-> new, actor |-> press.from, expires |-> now + Ttl, consumed |-> FALSE]
<1>1. /\ new \in Tokens /\ issued' = new /\ token' = new /\ pc' = "prune"
      /\ approvals' = approvals \cup {row}
      /\ expiry' = [expiry EXCEPT ![new] = now + Ttl]
      /\ UNCHANGED <<now, owner, audits, press, attempt, shown, restarts,
                     cancelled, revoked, accepted, faults, changes>>
  BY DEF Issue, Goto
<1>2. press \in Presses /\ press.from \in Users
  BY DEF IInv, Pending, Issue, Presses
<1>3. row \in Approvals /\ now + Ttl \in Nat /\ new <= MaxTokens /\ new \in Nat
  BY <1>1, <1>2, ParameterAssumption DEF IInv, TypeOK, Approvals, Tokens
<1>4. accepted[new] = -1 /\ new \notin revoked /\ \A a \in approvals : a.token # new
  BY <1>1 DEF IInv, TypeOK, Outcomes, Rows, Tokens, Approvals
<1>5. row.token = new /\ row.expires = now + Ttl
  OBVIOUS
<1> HIDE DEF new, row
<1>6. TypeOK'
  <2>1. approvals' \subseteq Approvals
    BY <1>1, <1>3 DEF IInv, TypeOK
  <2>2. issued' \in 0 .. MaxTokens
    BY <1>1, <1>3
  <2>3. expiry' \in [Tokens -> Nat]
    BY <1>1, <1>3 DEF IInv, TypeOK
  <2>4. QED
    BY <1>1, <2>1, <2>2, <2>3 DEF IInv, TypeOK, Steps
<1>7. Rows'
  <2>1. \A a \in approvals : a.token \in Tokens /\ a.token <= issued /\ a.token <= new
    BY DEF IInv, TypeOK, Rows, Approvals, Tokens, new
  <2>2. \A a, b \in approvals' : a.token = b.token => a = b
    BY <1>1, <1>4, <1>5 DEF IInv, Rows
  <2>3. ASSUME NEW a \in approvals
        PROVE  a.expires = expiry'[a.token] /\ a.token \notin revoked'
               /\ (~a.consumed => accepted'[a.token] = -1)
    BY <1>1, <1>4, <2>1 DEF IInv, TypeOK, Rows
  <2>4. new <= issued' /\ row.expires = expiry'[new] /\ new \notin revoked' /\ accepted'[new] = -1
    BY <1>1, <1>3, <1>4, <1>5 DEF IInv, TypeOK
  <2>5. QED
    BY <1>1, <1>5, <2>1, <2>2, <2>3, <2>4 DEF Rows
<1>8. Outcomes'
  BY <1>1, <1>3, <1>4 DEF IInv, TypeOK, Outcomes, Tokens, new
<1>9. Pending'
  BY <1>1, <1>2 DEF Pending, Approved, WithToken
<1>10. (RestartedAtMostOnce /\ WithdrawnNeverRuns)'
  BY <1>1 DEF IInv, RestartedAtMostOnce, WithdrawnNeverRuns
<1>11. QED
  BY <1>6, <1>7, <1>8, <1>9, <1>10 DEF IInv

\* Fewer rows, of whatever reason, disturb nothing.
LEMMA FewerRows ==
  ASSUME IInv, approvals' \subseteq approvals,
         UNCHANGED <<issued, expiry, revoked, accepted>>
  PROVE  Rows' /\ approvals' \subseteq Approvals
  BY DEF IInv, TypeOK, Rows

LEMMA ExecuteKeeps == IInv /\ Execute => IInv'
<1> SUFFICES ASSUME IInv, Execute PROVE IInv'
  OBVIOUS
<1>1. token \in Tokens /\ restarts[token] = 0 /\ accepted[token] # -1
      /\ token \notin cancelled \cup revoked /\ press \in Presses
  BY DEF IInv, Pending, Execute, Approved, WithToken
<1>2. restarts' \in {restarts, [restarts EXCEPT ![token] = @ + 1]}
  BY DEF Execute
<1>3. \A t \in Tokens : restarts'[t] = restarts[t] \/ (t = token /\ restarts'[t] = 1)
  BY <1>1, <1>2 DEF IInv, TypeOK
<1>4. restarts' \in [Tokens -> Nat]
  BY <1>1, <1>2 DEF IInv, TypeOK
<1>5. /\ pc' = "refresh"
      /\ UNCHANGED <<now, owner, approvals, audits, press, attempt, token, issued, shown,
                     cancelled, revoked, expiry, accepted, faults, changes>>
  BY DEF Execute, Goto, storeVars, historyVars
<1>6. TypeOK'
  BY <1>4, <1>5 DEF IInv, TypeOK, Steps
<1>7. Rows'
  BY <1>5 DEF IInv, Rows
<1>8. Outcomes'
  BY <1>1, <1>3, <1>5 DEF IInv, TypeOK, Outcomes
<1>9. Pending'
  BY <1>1, <1>5 DEF Pending, Approved, WithToken
<1>10. RestartedAtMostOnce'
  BY <1>3 DEF IInv, TypeOK, RestartedAtMostOnce
<1>11. WithdrawnNeverRuns'
  BY <1>1, <1>3, <1>5 DEF IInv, TypeOK, WithdrawnNeverRuns
<1>12. QED
  BY <1>6, <1>7, <1>8, <1>9, <1>10, <1>11 DEF IInv

\* The tokens an unpairing revokes have unconsumed rows: none of them was accepted.
LEMMA UnpairKeeps == IInv /\ Unpair => IInv'
<1> SUFFICES ASSUME IInv, Unpair PROVE IInv'
  OBVIOUS
<1> DEFINE open == {a.token : a \in {b \in approvals : ~b.consumed}}
<1>1. /\ approvals' = {} /\ owner' = NoOne /\ revoked' = revoked \cup open
      /\ changes' = changes + 1
      /\ UNCHANGED <<now, audits, pc, press, attempt, token, issued, shown, restarts,
                     cancelled, expiry, accepted, faults>>
  BY DEF Unpair, handlerVars, outsideVars
<1>2. \A t \in open : t \in Tokens /\ t <= issued /\ accepted[t] = -1 /\ restarts[t] = 0
  BY DEF IInv, TypeOK, Rows, Outcomes, Approvals
<1> HIDE DEF open
<1>3. TypeOK'
  BY <1>1, <1>2 DEF IInv, TypeOK
<1>4. Rows'
  BY <1>1 DEF Rows
<1>5. Outcomes'
  BY <1>1, <1>2 DEF IInv, Outcomes
<1>6. Pending'
  BY <1>1, <1>2 DEF IInv, Pending
<1>7. (RestartedAtMostOnce /\ WithdrawnNeverRuns)'
  BY <1>1, <1>2 DEF IInv, RestartedAtMostOnce, WithdrawnNeverRuns
<1>8. QED
  BY <1>3, <1>4, <1>5, <1>6, <1>7 DEF IInv

-----------------------------------------------------------------------------
\* The steps that touch none of rows, tokens and restarts.
LEMMA HandlerStepKeeps ==
  IInv /\ (Press \/ CheckOwner \/ Refuse \/ Offer \/ ConsumeRefused \/ Answered \/ Discovered
           \/ Refreshed \/ Record \/ Reply \/ StoreOffset) => IInv'
<1> SUFFICES ASSUME IInv,
                    Press \/ CheckOwner \/ Refuse \/ Offer \/ ConsumeRefused \/ Answered \/ Discovered
                      \/ Refreshed \/ Record \/ Reply \/ StoreOffset
             PROVE  IInv'
  OBVIOUS
<1> USE DEF IInv, Goto
<1>1. UNCHANGED <<now, owner, approvals, issued, restarts, cancelled, revoked, expiry, accepted,
                  faults, changes>>
  BY DEF Press, CheckOwner, Refuse, Offer, ConsumeRefused, Answered, Discovered, Refreshed,
         Record, Reply, StoreOffset, Settle, storeVars, outsideVars, historyVars
<1>2. (Rows /\ Outcomes /\ RestartedAtMostOnce /\ WithdrawnNeverRuns)'
  BY <1>1 DEF Rows, Outcomes, RestartedAtMostOnce, WithdrawnNeverRuns
<1> USE DEF TypeOK, Pending, Approved, WithToken, Steps
<1>3. CASE Press
  BY <1>1, <1>2, <1>3, ParameterAssumption DEF Press, storeVars, outsideVars, historyVars, NoToken
<1>4. CASE CheckOwner
  BY <1>1, <1>2, <1>4 DEF CheckOwner, storeVars, outsideVars, historyVars
<1>5. CASE Refuse \/ ConsumeRefused
  BY <1>1, <1>2, <1>5 DEF Refuse, ConsumeRefused, storeVars, outsideVars, historyVars
<1>6. CASE Offer
  BY <1>1, <1>2, <1>6 DEF Offer, storeVars, historyVars
<1>7. CASE Answered \/ Discovered \/ Refreshed \/ Reply
  BY <1>1, <1>2, <1>7 DEF Answered, Discovered, Refreshed, Reply, storeVars, outsideVars, historyVars
<1>8. CASE Record
  BY <1>1, <1>2, <1>8 DEF Record, outsideVars, historyVars
<1>9. CASE StoreOffset
  BY <1>1, <1>2, <1>9, ParameterAssumption
  DEF StoreOffset, Settle, storeVars, outsideVars, historyVars, NoToken
<1>10. QED
  BY <1>3, <1>4, <1>5, <1>6, <1>7, <1>8, <1>9

LEMMA PruneStepKeeps == IInv /\ (PruneAfterIssue \/ Tidy) => IInv'
<1> SUFFICES ASSUME IInv, PruneAfterIssue \/ Tidy PROVE IInv'
  OBVIOUS
<1>1. /\ approvals' \subseteq approvals
      /\ UNCHANGED <<now, owner, audits, press, attempt, token, issued, shown, restarts,
                     cancelled, revoked, expiry, accepted, faults, changes>>
      /\ (pc = "prune" /\ pc' = "offer") \/ (pc = "tidy" /\ pc' = "reply")
  BY PrunedPart DEF PruneAfterIssue, Tidy, Goto, outsideVars, historyVars
<1>2. Rows' /\ approvals' \subseteq Approvals
  BY <1>1, FewerRows
<1>3. QED
  BY <1>1, <1>2 DEF IInv, TypeOK, Outcomes, Pending, RestartedAtMostOnce, WithdrawnNeverRuns,
                    Approved, WithToken, Steps

LEMMA FaultKeeps == IInv /\ (Retry \/ GiveUp \/ Crash) => IInv'
<1> SUFFICES ASSUME IInv, Retry \/ GiveUp \/ Crash PROVE IInv'
  OBVIOUS
<1>1. /\ UNCHANGED <<now, owner, approvals, audits, issued, restarts,
                     cancelled, revoked, expiry, accepted, changes>>
      /\ faults' = faults + 1 /\ token' = NoToken
      /\ \/ attempt' = attempt + 1 /\ attempt + 1 < MaxAttempts
         \/ attempt' = 0
      /\ \/ pc # "idle" /\ pc' = "start" /\ press' = press
         \/ pc' = "idle" /\ press' = NoPress
  BY DEF Retry, GiveUp, Crash, Fault, Settle, Goto, storeVars, outsideVars, CanFail, AttemptsLeft
<1>2. shown' \subseteq Tokens
  BY DEF IInv, TypeOK, Pending, WithToken, Retry, GiveUp, Crash, MaybeShown, outsideVars
<1>3. (Rows /\ Outcomes /\ RestartedAtMostOnce /\ WithdrawnNeverRuns)'
  BY <1>1 DEF IInv, Rows, Outcomes, RestartedAtMostOnce, WithdrawnNeverRuns
<1>4. Pending'
  BY <1>1 DEF IInv, Pending, Approved, WithToken
<1>5. TypeOK'
  BY <1>1, <1>2, ParameterAssumption DEF IInv, TypeOK, Steps
<1>6. QED
  BY <1>3, <1>4, <1>5 DEF IInv

LEMMA NextIInv == IInv /\ [Next]_vars => IInv'
<1> SUFFICES ASSUME IInv, [Next]_vars PROVE IInv'
  OBVIOUS
<1>1. CASE Pair \/ Tick \/ UNCHANGED vars
  BY <1>1 DEF Pair, Tick, vars, storeVars, handlerVars, outsideVars, historyVars,
              IInv, TypeOK, Rows, Outcomes, Pending, RestartedAtMostOnce, WithdrawnNeverRuns
<1>2. QED
  BY <1>1, ConsumeConfirmKeeps, ConsumeCancelKeeps, IssueKeeps, ExecuteKeeps, UnpairKeeps,
     HandlerStepKeeps, PruneStepKeeps, FaultKeeps DEF Next

-----------------------------------------------------------------------------
\* Rows, acceptances and restarts stay in step, whatever fails and whoever unpairs.
THEOREM Inductive == Spec => []IInv
  BY InitIInv, NextIInv, PTL DEF Spec

\* Every variable keeps its type.
THEOREM TypeCorrect == Spec => []TypeOK
<1>1. IInv => TypeOK
  BY DEF IInv
<1>2. QED
  BY <1>1, Inductive, PTL

\* A token restarts the unit at most once.
THEOREM AtMostOneRestart == Spec => []RestartedAtMostOnce
<1>1. IInv => RestartedAtMostOnce
  BY DEF IInv
<1>2. QED
  BY <1>1, Inductive, PTL

\* A cancelled or revoked token restarts nothing.
THEOREM WithdrawnIsDead == Spec => []WithdrawnNeverRuns
<1>1. IInv => WithdrawnNeverRuns
  BY DEF IInv
<1>2. QED
  BY <1>1, Inductive, PTL

\* A restart follows an acceptance in time.
THEOREM InTime == Spec => []RunsOnlyInTime
<1>1. IInv => RunsOnlyInTime
  BY DEF IInv, TypeOK, Outcomes, RunsOnlyInTime
<1>2. QED
  BY <1>1, Inductive, PTL

\* Only the owner's press is accepted, for a token issued to the owner: a user who
\* is checked by handle_callback and then unpaired finds no row.
THEOREM FromTheOwner == Spec => AcceptedFromTheOwner
<1>1. IInv /\ [Next]_vars =>
        [\A t \in Tokens : accepted'[t] # accepted[t] =>
           /\ owner = press.from
           /\ \E a \in approvals : a.token = t /\ a.actor = owner]_vars
  <2> SUFFICES ASSUME IInv, [Next]_vars, NEW t \in Tokens, accepted'[t] # accepted[t]
               PROVE  /\ owner = press.from
                      /\ \E a \in approvals : a.token = t /\ a.actor = owner
    OBVIOUS
  <2>1. ConsumeConfirm \/ ConsumeCancel
    BY DEF Next, Press, CheckOwner, Issue, PruneAfterIssue, Refuse, Offer, ConsumeRefused, Answered,
           Discovered, Execute, Refreshed, Record, Tidy, Reply, StoreOffset, Retry, GiveUp, Crash,
           Unpair, Pair, Tick, vars, historyVars
  <2>2. pc = "consume" /\ Consume(press.token, press.from)
    BY <2>1 DEF ConsumeConfirm, ConsumeCancel
  <2>3. PICK a \in approvals : a.token = press.token /\ a.actor = press.from
    BY <2>2 DEF Consume, Acceptable
  <2>4. owner = press.from
    BY <2>2, <2>3 DEF IInv, Pending
  <2>5. t = press.token
    BY <2>2 DEF Consume, IInv, TypeOK
  <2>6. QED
    BY <2>3, <2>4, <2>5
<1>2. QED
  BY <1>1, Inductive, PTL DEF Spec, AcceptedFromTheOwner

-----------------------------------------------------------------------------
(* Which approvals prune_approvals_on takes away                           *)

\* The rows of newer tokens.
Above(rows, t) == {b \in rows : b.token > t}

\* The rows have tokens of their own.
Separate(rows) == \A a, b \in rows : a.token = b.token => a = b

\* The table is finite: its rows have tokens of their own.
LEMMA TableIsFinite == IInv => IsFiniteSet(approvals)
<1> SUFFICES ASSUME IInv PROVE IsFiniteSet(approvals)
  OBVIOUS
<1> DEFINE key == [a \in approvals |-> a.token]
<1>1. key \in [approvals -> Tokens]
  BY DEF IInv, TypeOK, Approvals
<1>2. key \in Injection(approvals, Tokens)
  BY <1>1 DEF IInv, Rows, Injection, IsInjective
<1>3. IsFiniteSet(Tokens)
  <2>1. 1 \in Int /\ MaxTokens \in Int
    BY ParameterAssumption
  <2>2. QED
    BY <2>1, FS_Interval DEF Tokens
<1>4. QED
  BY <1>2, <1>3, FS_Injection

\* Fewer rows are newer than a newer one.
LEMMA AboveShrinks ==
  ASSUME NEW rows \in SUBSET Approvals, IsFiniteSet(rows),
         NEW a \in rows, NEW b \in rows, a.token < b.token
  PROVE  /\ Cardinality(Above(rows, a.token)) \in Nat
         /\ Cardinality(Above(rows, b.token)) \in Nat
         /\ Cardinality(Above(rows, b.token)) < Cardinality(Above(rows, a.token))
<1>1. /\ Above(rows, b.token) \subseteq Above(rows, a.token)
      /\ b \in Above(rows, a.token) /\ b \notin Above(rows, b.token)
  BY DEF Above, Approvals, Tokens
<1>2. IsFiniteSet(Above(rows, a.token)) /\ IsFiniteSet(Above(rows, b.token))
  <2>1. Above(rows, a.token) \subseteq rows /\ Above(rows, b.token) \subseteq rows
    BY DEF Above
  <2>2. QED
    BY <2>1, FS_Subset
<1>3. /\ Cardinality(Above(rows, b.token)) <= Cardinality(Above(rows, a.token))
      /\ Cardinality(Above(rows, b.token)) # Cardinality(Above(rows, a.token))
  BY <1>1, <1>2, FS_Subset
<1>4. Cardinality(Above(rows, a.token)) \in Nat /\ Cardinality(Above(rows, b.token)) \in Nat
  BY <1>2, FS_CardinalityType
<1>5. QED
  BY <1>3, <1>4

\* A live row that is not kept has MaxApprovals kept ones above it: the live rows above it
\* have the ranks 0 to n - 1, and those with a rank below MaxApprovals are kept.
LEMMA RankedOut ==
  ASSUME NEW rows \in SUBSET Approvals, IsFiniteSet(rows), Separate(rows),
         NEW r \in rows, Live(r), r \notin Pruned(rows)
  PROVE  Cardinality(Above(Pruned(rows), r.token)) >= MaxApprovals
<1> DEFINE live == {a \in rows : Live(a)}
           newer == Above(live, r.token)
           n == Cardinality(newer)
           rank == [s \in newer |-> Cardinality(Above(live, s.token))]
           kept == {s \in newer : rank[s] < MaxApprovals}
           low == [s \in kept |-> rank[s]]
<1>1. /\ live \in SUBSET Approvals /\ IsFiniteSet(live) /\ r \in live
      /\ newer \subseteq live /\ IsFiniteSet(newer) /\ n \in Nat
  <2>1. live \in SUBSET Approvals /\ live \subseteq rows /\ r \in live /\ newer \subseteq live
    BY DEF Above
  <2>2. IsFiniteSet(live)
    BY <2>1, FS_Subset
  <2>3. QED
    BY <2>1, <2>2, FS_Subset, FS_CardinalityType
<1>2. MaxApprovals <= n /\ MaxApprovals \in Nat \ {0}
  <2>1. ~(n < MaxApprovals)
    BY <1>1 DEF Pruned, Above
  <2>2. QED
    BY <1>1, <2>1, ParameterAssumption
<1>3. \A s \in newer : s \in live /\ r.token < s.token
  BY <1>1 DEF Above, Approvals, Tokens
<1>4. \A s, t \in live : s.token < t.token =>
        /\ Cardinality(Above(live, t.token)) \in Nat /\ Cardinality(Above(live, s.token)) \in Nat
        /\ Cardinality(Above(live, t.token)) < Cardinality(Above(live, s.token))
  <2> HIDE DEF live
  <2>1. QED
    BY <1>1, AboveShrinks
<1>5. \A s \in newer : rank[s] \in 0 .. n - 1
  <2> SUFFICES ASSUME NEW s \in newer PROVE rank[s] \in 0 .. n - 1
    OBVIOUS
  <2>1. rank[s] \in Nat /\ rank[s] < n
    BY <1>1, <1>3, <1>4
  <2>2. QED
    BY <1>1, <2>1
<1>6. \A s, t \in newer : rank[s] = rank[t] => s = t
  <2> SUFFICES ASSUME NEW s \in newer, NEW t \in newer, s # t PROVE rank[s] # rank[t]
    OBVIOUS
  <2>1. s.token # t.token /\ s.token \in Int /\ t.token \in Int /\ s \in live /\ t \in live
    BY <1>1, <1>3 DEF Separate, Approvals, Tokens
  <2>2. /\ rank[s] = Cardinality(Above(live, s.token))
        /\ rank[t] = Cardinality(Above(live, t.token))
    OBVIOUS
  <2> HIDE DEF live, newer, rank
  <2>3. CASE s.token < t.token
    BY <1>4, <2>1, <2>2, <2>3
  <2>4. CASE t.token < s.token
    BY <1>4, <2>1, <2>2, <2>4
  <2>5. QED
    BY <2>1, <2>3, <2>4
<1>7. rank \in Surjection(newer, 0 .. n - 1)
  <2> HIDE DEF newer, rank, n
  <2>1. rank \in [newer -> 0 .. n - 1]
    BY <1>5 DEF rank
  <2>2. rank \in Injection(newer, 0 .. n - 1)
    BY <1>6, <2>1 DEF Injection, IsInjective
  <2>3. IsFiniteSet(0 .. n - 1) /\ Cardinality(0 .. n - 1) = n
    BY <1>1, FS_Interval
  <2>4. QED
    BY <2>2, <2>3, FS_Injection DEF n
<1>8. \A i \in 0 .. n - 1 : \E s \in newer : rank[s] = i
  <2> HIDE DEF newer, rank, n
  <2>1. QED
    BY <1>7 DEF Surjection
<1>9. low \in Surjection(kept, 0 .. MaxApprovals - 1)
  <2> HIDE DEF newer, rank, n
  <2>1. \A s \in kept : low[s] \in 0 .. MaxApprovals - 1
    BY <1>1, <1>2, <1>5
  <2>2. \A i \in 0 .. MaxApprovals - 1 : \E s \in kept : low[s] = i
    BY <1>1, <1>2, <1>8
  <2>3. QED
    BY <2>1, <2>2 DEF Surjection
<1>10. kept \subseteq Above(Pruned(rows), r.token) /\ Above(Pruned(rows), r.token) \subseteq rows
  BY <1>1 DEF Pruned, Above
<1>11. QED
  <2> HIDE DEF kept, low
  <2>1. /\ IsFiniteSet(Above(Pruned(rows), r.token)) /\ IsFiniteSet(kept)
        /\ Cardinality(kept) <= Cardinality(Above(Pruned(rows), r.token))
    BY <1>10, FS_Subset
  <2>2. Cardinality(0 .. MaxApprovals - 1) <= Cardinality(kept)
    BY <1>9, <2>1, FS_Surjection
  <2>3. Cardinality(0 .. MaxApprovals - 1) = MaxApprovals
    <3>1. /\ 0 \in Int /\ MaxApprovals - 1 \in Int /\ ~(0 > MaxApprovals - 1)
          /\ MaxApprovals - 1 - 0 + 1 = MaxApprovals
      BY <1>2
    <3>2. QED
      BY <3>1, FS_Interval
  <2>4. QED
    BY <1>2, <2>1, <2>2, <2>3, FS_CardinalityType

\* A live approval leaves the table by an unpairing, or because MaxApprovals newer ones
\* stay in it: never by a consumption, a failure, or the clock alone.
THEOREM LiveKept == Spec => LiveApprovalsKept
<1>1. IInv /\ [Next]_vars =>
        [\A a \in approvals :
           Live(a) /\ (\A b \in approvals' : b.token # a.token) =>
             owner' # owner \/ Cardinality({b \in approvals' : b.token > a.token}) >= MaxApprovals]_vars
  <2> SUFFICES ASSUME IInv, [Next]_vars, NEW a \in approvals, Live(a),
                      \A b \in approvals' : b.token # a.token
               PROVE  owner' # owner \/ Cardinality(Above(approvals', a.token)) >= MaxApprovals
    BY DEF Above
  <2>1. CASE PruneAfterIssue \/ Tidy
    <3>1. approvals' = Pruned(approvals)
      BY <2>1 DEF PruneAfterIssue, Tidy
    <3>2. approvals \in SUBSET Approvals /\ Separate(approvals)
      BY DEF IInv, TypeOK, Rows, Separate
    <3>3. QED
      BY <3>1, <3>2, TableIsFinite, RankedOut
  <2>2. CASE Unpair
    BY <2>2 DEF Unpair
  <2>3. CASE ConsumeConfirm \/ ConsumeCancel
    <3>1. approvals' = {IF x.token = press.token THEN [x EXCEPT !.consumed = TRUE] ELSE x
                          : x \in approvals}
      BY <2>3 DEF ConsumeConfirm, ConsumeCancel, Consume, MarkConsumed
    <3> DEFINE used == [a EXCEPT !.consumed = TRUE]
    <3>2. used.token = a.token
      BY DEF IInv, TypeOK, Approvals
    <3>3. used \in approvals' \/ a \in approvals'
      BY <3>1
    <3>4. QED
      BY <3>2, <3>3
  <2>4. CASE ~(PruneAfterIssue \/ Tidy \/ Unpair \/ ConsumeConfirm \/ ConsumeCancel)
    <3>1. a \in approvals'
      BY <2>4 DEF Next, Press, CheckOwner, Issue, Refuse, Offer, ConsumeRefused, Answered,
                  Discovered, Execute, Refreshed, Record, Reply, StoreOffset, Retry, GiveUp, Crash,
                  Pair, Tick, vars, storeVars
    <3>2. QED
      BY <3>1
  <2>5. QED
    BY <2>1, <2>2, <2>3, <2>4
<1>2. QED
  BY <1>1, Inductive, PTL DEF Spec, LiveApprovalsKept

-----------------------------------------------------------------------------
\* Fewer or used rows, with nothing accepted: open tokens may be void afterwards.
LEMMA WithdrawPart ==
  ASSUME IInv, UNCHANGED <<issued, accepted>>, cancelled \subseteq cancelled',
         \A t \in cancelled' : t \in cancelled \/ accepted[t] = -1,
         \A a \in approvals' : ~a.consumed => a \in approvals
  PROVE  \A t \in Tokens : Promise!KeptOrWithdrawn(t)
<1> SUFFICES ASSUME NEW t \in Tokens PROVE Promise!KeptOrWithdrawn(t)
  OBVIOUS
<1>1. State[t] = Grant(t) /\ State'[t] = Grant(t)'
  BY DEF State
<1>2. Unused(t)' => Unused(t)
  BY DEF Unused
<1>3. Unused(t) => accepted[t] = -1
  BY DEF Unused, IInv, Rows
<1>4. t > issued \/ (t <= issued /\ ~(t > issued))
  BY DEF IInv, TypeOK, Tokens
<1>5. Grant(t)' = Grant(t) \/ (Grant(t) = "open" /\ Grant(t)' = "void")
  <2>1. CASE t > issued
    BY <1>4, <2>1 DEF Grant
  <2>2. CASE t <= issued /\ ~(t > issued) /\ Unused(t)
    BY <1>3, <2>2 DEF Grant
  <2>3. CASE t <= issued /\ ~(t > issued) /\ ~Unused(t)
    BY <1>2, <2>3 DEF Grant
  <2>4. QED
    BY <1>4, <2>1, <2>2, <2>3
<1>6. QED
  BY <1>1, <1>5 DEF Promise!KeptOrWithdrawn

LEMMA HandOutPart ==
  ASSUME IInv, Issue, NEW new \in Tokens, new = issued + 1
  PROVE  Promise!HandOut(new)
<1> DEFINE row == [token |-> new, actor |-> press.from, expires |-> now + Ttl, consumed |-> FALSE]
<1>1. /\ new \in Tokens /\ issued' = new /\ approvals' = approvals \cup {row}
      /\ UNCHANGED <<restarts, accepted, cancelled>>
  BY DEF Issue
<1>2. row.token = new /\ ~row.consumed /\ issued \in Nat /\ new > issued /\ new <= new
  BY DEF IInv, TypeOK
<1> HIDE DEF row
<1>3. State[new] = "new"
  BY <1>1, <1>2 DEF State, Grant
<1>4. State'[new] = "open"
  <2>1. Unused(new)' /\ ~(new > new)
    BY <1>1, <1>2 DEF Unused
  <2>2. QED
    BY <1>1, <1>2, <2>1 DEF State, Grant
<1>5. ASSUME NEW t \in Tokens, t # new PROVE State'[t] = State[t]
  <2>1. Unused(t)' <=> Unused(t)
    BY <1>1, <1>2, <1>5 DEF Unused
  <2>2. (t > issued <=> t > new) /\ (t <= issued <=> t <= new)
    BY <1>2, <1>5 DEF Tokens
  <2>3. Grant(t)' = Grant(t)
    <3>1. CASE t > issued
      <4>1. t > issued' /\ ~(t <= issued) /\ ~(t <= issued')
        BY <1>1, <1>2, <2>2, <3>1 DEF Tokens
      <4>2. QED
        BY <3>1, <4>1 DEF Grant
    <3>2. CASE t <= issued /\ ~(t > issued)
      <4>1. t <= new /\ ~(t > new)
        BY <2>2, <3>2
      <4>2. QED
        BY <1>1, <2>1, <3>2, <4>1 DEF Grant
    <3>3. QED
      BY <1>2, <3>1, <3>2 DEF Tokens
  <2>4. QED
    BY <2>3 DEF State
<1>6. QED
  BY <1>1, <1>3, <1>4, <1>5 DEF Promise!HandOut, Promise!OthersKept, Promise!KeptOrWithdrawn

LEMMA AcceptPart ==
  ASSUME IInv, ConsumeConfirm, NEW q \in Tokens, q = press.token
  PROVE  Promise!Accept(q)
<1>1. q \in Tokens /\ Consume(q, press.from) /\ UNCHANGED <<issued, restarts, cancelled>>
  BY DEF IInv, Pending, ConsumeConfirm, Presses, outsideVars
<1>2. /\ accepted[q] = -1 /\ q \notin cancelled /\ q <= issued /\ now \in Nat
      /\ accepted' = [accepted EXCEPT ![q] = now]
      /\ \A a \in approvals' : \E b \in approvals :
           /\ a.token = b.token
           /\ IF b.token = q THEN a.consumed ELSE a = b
  BY <1>1, Accepts DEF IInv, TypeOK
<1>3. Unused(q)
  BY <1>1 DEF Consume, Acceptable, Live, Unused
<1>4. ASSUME NEW t \in Tokens, t # q PROVE Unused(t) => Unused(t)'
  <2>1. approvals' = {IF a.token = q THEN [a EXCEPT !.consumed = TRUE] ELSE a : a \in approvals}
    BY <1>1 DEF Consume, MarkConsumed
  <2>2. QED
    BY <1>4, <2>1 DEF Unused
<1>5. ~Unused(q)' /\ \A t \in Tokens : t # q => (Unused(t)' => Unused(t))
  BY <1>2 DEF Unused
<1>6. ~(q > issued) /\ accepted'[q] # -1
  BY <1>1, <1>2 DEF IInv, TypeOK, Tokens
<1>7. State[q] = "open"
  BY <1>1, <1>2, <1>3, <1>6 DEF State, Grant
<1>8. State'[q] = "accepted"
  <2>1. Grant(q)' = "accepted"
    BY <1>1, <1>2, <1>5, <1>6 DEF Grant
  <2>2. QED
    BY <1>1, <2>1 DEF State
<1>9. ASSUME NEW t \in Tokens, t # q PROVE State'[t] = State[t]
  <2>1. accepted'[t] = accepted[t]
    BY <1>2, <1>9 DEF IInv, TypeOK
  <2>2. Unused(t)' <=> Unused(t)
    BY <1>4, <1>5, <1>9
  <2>3. Grant(t)' = Grant(t)
    BY <1>1, <2>1, <2>2 DEF Grant
  <2>4. QED
    BY <2>3 DEF State
<1>10. QED
  BY <1>1, <1>7, <1>8, <1>9 DEF Promise!Accept, Promise!OthersKept, Promise!KeptOrWithdrawn

LEMMA EffectPart ==
  ASSUME IInv, Execute
  PROVE  UNCHANGED State /\ (restarts' = restarts \/ \E t \in Tokens : Promise!TakeEffect(t))
<1>1. /\ token \in Tokens /\ restarts[token] = 0 /\ accepted[token] # -1 /\ token <= issued
      /\ token \notin cancelled
  BY DEF IInv, Pending, Outcomes, Execute, Approved, WithToken
<1>2. UNCHANGED <<approvals, issued, accepted, cancelled>>
      /\ restarts' \in {restarts, [restarts EXCEPT ![token] = @ + 1]}
  BY DEF Execute, storeVars, historyVars
<1>3. UNCHANGED State
  <2>1. \A t \in Tokens : Grant(t)' = Grant(t)
    BY <1>2 DEF Grant, Unused
  <2>2. QED
    BY <2>1 DEF State
<1>4. State[token] = "accepted"
  <2>1. ~Unused(token) /\ ~(token > issued)
    BY <1>1 DEF Unused, IInv, TypeOK, Rows, Tokens
  <2>2. QED
    BY <1>1, <2>1 DEF State, Grant
<1>5. CASE restarts' = [restarts EXCEPT ![token] = @ + 1]
  <2>1. restarts' = [restarts EXCEPT ![token] = 1]
    BY <1>1, <1>5 DEF IInv, TypeOK
  <2>2. Promise!TakeEffect(token)
    BY <1>1, <1>3, <1>4, <2>1 DEF Promise!TakeEffect
  <2>3. QED
    BY <1>1, <1>3, <2>2
<1>6. QED
  BY <1>2, <1>3, <1>5

\* A step that leaves rows, acceptances, cancellations, tokens and restarts alone.
LEMMA StutterPart ==
  UNCHANGED <<approvals, issued, accepted, cancelled, restarts>> => UNCHANGED Promise!vars
<1> SUFFICES ASSUME UNCHANGED <<approvals, issued, accepted, cancelled, restarts>>
             PROVE  UNCHANGED Promise!vars
  OBVIOUS
<1>1. \A t \in Tokens : Grant(t)' = Grant(t)
  BY DEF Grant, Unused
<1>2. QED
  BY <1>1 DEF State, Promise!vars

\* The restart flow implements OneTimeGrant.
THEOREM Refinement == Spec => RestartsByGrant
<1>1. Init => Promise!Init
  <2> SUFFICES ASSUME Init PROVE Promise!Init
    OBVIOUS
  <2>1. \A t \in Tokens : t > issued
    BY DEF Init, Tokens
  <2>2. \A t \in Tokens : ~(t <= issued)
    BY DEF Init, Tokens
  <2>3. State = [t \in Tokens |-> "new"]
    BY <2>1, <2>2 DEF State, Grant
  <2>4. QED
    BY <2>3 DEF Promise!Init, Init
<1>2. IInv /\ [Next]_vars => [Promise!Next]_Promise!vars
  <2> SUFFICES ASSUME IInv, [Next]_vars PROVE Promise!Next \/ UNCHANGED Promise!vars
    OBVIOUS
  <2>1. CASE Issue
    <3>1. PICK new \in Tokens : new = issued + 1
      BY <2>1 DEF Issue
    <3>2. Promise!HandOut(new)
      BY <2>1, <3>1, HandOutPart
    <3>3. QED
      BY <3>2 DEF Promise!Next
  <2>2. CASE ConsumeConfirm
    <3>1. PICK q \in Tokens : q = press.token
      BY <2>2 DEF IInv, Pending, ConsumeConfirm, Presses
    <3>2. Promise!Accept(q)
      BY <2>2, <3>1, AcceptPart
    <3>3. QED
      BY <3>2 DEF Promise!Next
  <2>3. CASE Execute
    BY <2>3, EffectPart DEF Promise!Next, Promise!vars
  <2>4. CASE PruneAfterIssue \/ Tidy \/ Unpair
    <3>1. approvals' \subseteq approvals /\ UNCHANGED <<issued, accepted, cancelled, restarts>>
      BY <2>4, PrunedPart DEF PruneAfterIssue, Tidy, Unpair, outsideVars, historyVars
    <3>2. \A t \in Tokens : Promise!KeptOrWithdrawn(t)
      BY <3>1, WithdrawPart
    <3>3. QED
      BY <3>1, <3>2 DEF Promise!Next, Promise!Withdraw
  <2>5. CASE ConsumeCancel
    <3>1. PICK q \in Tokens : q = press.token
      BY <2>5 DEF IInv, Pending, ConsumeCancel, Presses
    <3>2. /\ accepted[q] = -1 /\ accepted' = [accepted EXCEPT ![q] = now]
          /\ cancelled' = cancelled \cup {q} /\ UNCHANGED <<issued, restarts>>
          /\ \A a \in approvals' : \E b \in approvals :
               /\ a.token = b.token
               /\ IF b.token = q THEN a.consumed ELSE a = b
          /\ q <= issued
      BY <2>5, <3>1, Accepts DEF ConsumeCancel, outsideVars
    <3>3. Consume(q, press.from)
      BY <2>5, <3>1 DEF ConsumeCancel
    <3>4. PICK row \in approvals : row.token = q /\ ~row.consumed
      BY <3>3 DEF Consume, Acceptable, Live
    <3>5. approvals' = {IF a.token = q THEN [a EXCEPT !.consumed = TRUE] ELSE a : a \in approvals}
      BY <3>3 DEF Consume, MarkConsumed
    <3>6. ~Unused(q)' /\ Unused(q) /\ ~(q > issued)
      BY <3>2, <3>4 DEF Unused, IInv, TypeOK, Tokens
    <3>7. Grant(q) = "open"
      BY <3>2, <3>6 DEF Grant
    <3>8. Grant(q)' = "void"
      BY <3>2, <3>6 DEF Grant
    <3>9. ASSUME NEW t \in Tokens, t # q PROVE Grant(t)' = Grant(t)
      <4>1. accepted'[t] = accepted[t] /\ (t \in cancelled' <=> t \in cancelled)
        BY <3>2, <3>9 DEF IInv, TypeOK
      <4>2. Unused(t) => Unused(t)'
        BY <3>5, <3>9 DEF Unused
      <4>3. Unused(t)' => Unused(t)
        BY <3>2, <3>9 DEF Unused
      <4>4. QED
        BY <3>2, <4>1, <4>2, <4>3 DEF Grant
    <3>10. \A t \in Tokens : Promise!KeptOrWithdrawn(t)
      BY <3>7, <3>8, <3>9 DEF State, Promise!KeptOrWithdrawn
    <3>11. QED
      BY <3>2, <3>10 DEF Promise!Next, Promise!Withdraw
  <2>6. CASE \/ Press \/ CheckOwner \/ Refuse \/ Offer \/ ConsumeRefused \/ Answered \/ Discovered
             \/ Refreshed \/ Record \/ Reply \/ StoreOffset \/ Retry \/ GiveUp \/ Crash
             \/ Pair \/ Tick \/ UNCHANGED vars
    <3>1. UNCHANGED <<approvals, issued, accepted, cancelled, restarts>>
      BY <2>6 DEF Press, CheckOwner, Refuse, Offer, ConsumeRefused, Answered, Discovered, Refreshed,
                  Record, Reply, StoreOffset, Retry, GiveUp, Crash, Pair, Tick, vars,
                  storeVars, outsideVars, historyVars
    <3>2. QED
      BY <3>1, StutterPart
  <2>7. QED
    BY <2>1, <2>2, <2>3, <2>4, <2>5, <2>6 DEF Next
<1>3. QED
  BY <1>1, <1>2, Inductive, PTL DEF Spec, RestartsByGrant, Promise!Spec
=============================================================================
