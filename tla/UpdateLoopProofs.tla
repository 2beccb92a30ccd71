-------------------------- MODULE UpdateLoopProofs --------------------------
(***************************************************************************)
(* What UpdateLoop promises for every number of updates, attempts, replies *)
(* and failures: nothing is forgotten, updates are handled in order, and   *)
(* the loop implements Settlement.                                         *)
(*                                                                         *)
(* The argument: while the task runs, the offset in memory is the one in   *)
(* the store (Cursor), so that whatever lies below the stored offset was   *)
(* settled on the way (Progress), and Telegram never saw a larger one.     *)
(* RepeatsAtMostOne is inductive together with them.                       *)
(***************************************************************************)
EXTENDS UpdateLoop, TLAPS

\* The handler's place: the update at the offset exists.
Busy == {"handle", "audit", "store"}

\* Where the loop is, and what the stored offset says of it.
Cursor ==
  /\ pc \in Running => offset = dbOffset
  /\ pc \in Busy => offset <= upto /\ upto <= arrived
  /\ pc = "handle" => attempt < MaxAttempts
  /\ pc = "store" => offset \in Settled

\* The update being handled.
Progress ==
  /\ 1 <= dbOffset /\ confirmed <= dbOffset
  /\ \A u \in Updates : u < dbOffset => u \in Settled

\* The inductive invariant.
IInv == TypeOK /\ Cursor /\ Progress /\ RepeatsAtMostOne

-----------------------------------------------------------------------------

LEMMA InitIInv == Init => IInv
<1> SUFFICES ASSUME Init PROVE IInv
  OBVIOUS
<1>1. TypeOK
  <2>1. due \in BOOLEAN /\ late \in BOOLEAN
    BY Zenon DEF Init
  <2>2. QED
    BY <2>1, ParameterAssumption DEF Init, TypeOK, Updates, Places
<1>2. Cursor /\ Progress
  BY DEF Init, Cursor, Progress, Updates, Running, Busy
<1>3. RepeatsAtMostOne
  BY DEF Init, RepeatsAtMostOne, Settled
<1>4. QED
  BY <1>1, <1>2, <1>3 DEF IInv

LEMMA BusyOffset == ASSUME IInv, pc \in Busy
                    PROVE  offset \in Updates /\ offset = dbOffset
  BY ParameterAssumption DEF IInv, TypeOK, Cursor, Progress, Updates, Busy, Running

LEMMA NextIInv == IInv /\ [Next]_vars => IInv'
<1> SUFFICES ASSUME IInv, [Next]_vars PROVE IInv'
  OBVIOUS
<1> USE ParameterAssumption DEF IInv, TypeOK, Cursor, Progress, RepeatsAtMostOne, Places, Running, Busy,
                                telegramVars, storeVars, historyVars, tickVars, Settled
<1>1. CASE Arrive
  BY <1>1 DEF Arrive, Updates
<1>2. CASE Start
  BY <1>2 DEF Start
<1>3. CASE Poll
  BY <1>3 DEF Poll
<1>4. CASE Receive
  <2>1. upto' \in Nat /\ offset <= upto' /\ upto' <= arrived
    BY <1>4 DEF Receive, Updates
  <2>2. QED
    BY <1>4, <2>1 DEF Receive, Updates
<1>5. CASE PollEmpty
  BY <1>5 DEF PollEmpty
<1>6. CASE PollFails
  BY <1>6 DEF PollFails, Fault
<1>7. CASE HandleOk
  <2>1. offset \in Updates /\ offset = dbOffset
    BY <1>7, BusyOffset DEF HandleOk
  <2>2. TypeOK'
    BY <1>7, <2>1 DEF HandleOk
  <2>3. Cursor'
    BY <1>7, <2>1 DEF HandleOk
  <2>4. Progress'
    BY <1>7, <2>1 DEF HandleOk
  <2>5. RepeatsAtMostOne'
    BY <1>7, <2>1 DEF HandleOk
  <2>6. QED
    BY <2>2, <2>3, <2>4, <2>5
<1>8. CASE HandleFails
  <2>1. offset \in Updates /\ offset = dbOffset
    BY <1>8, BusyOffset DEF HandleFails
  <2>2. TypeOK'
    BY <1>8, <2>1 DEF HandleFails
  <2>3. Cursor'
    BY <1>8, <2>1 DEF HandleFails, AttemptsLeft
  <2>4. Progress'
    BY <1>8 DEF HandleFails
  <2>5. RepeatsAtMostOne'
    BY <1>8 DEF HandleFails
  <2>6. QED
    BY <2>2, <2>3, <2>4, <2>5
<1>9. CASE DeadLetter
  <2>1. offset \in Updates /\ offset = dbOffset
    BY <1>9, BusyOffset DEF DeadLetter
  <2>2. QED
    BY <1>9, <2>1 DEF DeadLetter
<1>10. CASE DeadLetterFails
  BY <1>10 DEF DeadLetterFails, Fault
<1>11. CASE StoreOffset
  <2>1. offset \in Updates /\ offset = dbOffset
    BY <1>11, BusyOffset DEF StoreOffset
  <2>2. TypeOK'
    BY <1>11, <2>1 DEF StoreOffset
  <2>3. Cursor'
    BY <1>11, <2>1 DEF StoreOffset
  <2>4. Progress'
    BY <1>11, <2>1 DEF StoreOffset, Updates
  <2>5. RepeatsAtMostOne'
    BY <1>11, <2>1 DEF StoreOffset, Updates
  <2>6. QED
    BY <2>2, <2>3, <2>4, <2>5
<1>12. CASE Crash
  <2>1. pc = "handle" => offset \in Updates
    BY <1>12, BusyOffset DEF Crash
  <2>2. TypeOK'
    <3>1. due' \in BOOLEAN /\ late' \in BOOLEAN
      <4> HIDE DEF IInv, TypeOK, Cursor, Progress, RepeatsAtMostOne, Settled
      <4>1. QED
        BY <1>12, Zenon DEF Crash
    <3>2. QED
      BY <1>12, <2>1, <3>1 DEF Crash, Fault
  <2>3. (Cursor /\ Progress /\ RepeatsAtMostOne)'
    BY <1>12 DEF Crash, Fault
  <2>4. QED
    BY <2>2, <2>3
<1>13. CASE Stop
  BY <1>13 DEF Stop
<1>14. CASE OperatorStart
  <2>1. due' \in BOOLEAN /\ late' \in BOOLEAN
    <3> HIDE DEF IInv, TypeOK, Cursor, Progress, RepeatsAtMostOne, Settled
    <3>1. QED
      BY <1>14, Zenon DEF OperatorStart
  <2>2. QED
    BY <1>14, <2>1 DEF OperatorStart
<1>15. CASE UNCHANGED vars
  BY <1>15 DEF vars
<1>16. CASE TickFires
  BY <1>16 DEF TickFires
<1>17. CASE StartCycle
  BY <1>17 DEF StartCycle
<1>18. CASE EndCycle
  BY <1>18 DEF EndCycle
<1>19. QED
  BY <1>1, <1>2, <1>3, <1>4, <1>5, <1>6, <1>7, <1>8, <1>9, <1>10, <1>11, <1>12, <1>13,
     <1>14, <1>15, <1>16, <1>17, <1>18 DEF Next

THEOREM Inductive == Spec => []IInv
  BY InitIInv, NextIInv, PTL DEF Spec

-----------------------------------------------------------------------------

\* Every variable keeps its type, for every value of the constants.
THEOREM TypeCorrect == Spec => []TypeOK
  BY Inductive, PTL DEF IInv

\* Telegram forgets no update that was neither handled nor recorded as a dead letter.
THEOREM NeverForgotten == Spec => []NothingForgotten
<1>1. IInv => NothingForgotten
  BY DEF IInv, TypeOK, Progress, NothingForgotten, Updates
<1>2. QED
  BY <1>1, Inductive, PTL

\* An update is handled only when the earlier ones are settled.
OnlyAfterEarlier ==
  \A u \in Updates : handled'[u] # handled[u] => \A v \in Updates : v < u => v \in Settled

\* The handler runs on an update only once all the earlier ones are settled.
THEOREM InOrder == Spec => HandledInOrder
<1>1. IInv /\ [Next]_vars => [OnlyAfterEarlier]_vars
  <2> SUFFICES ASSUME IInv, Next PROVE OnlyAfterEarlier
    OBVIOUS
  <2>1. \A u \in Updates : handled'[u] # handled[u] => pc = "handle" /\ u = offset
    BY DEF Next, Arrive, Start, Poll, Receive, PollEmpty, PollFails, TickFires, StartCycle,
           EndCycle, HandleOk,
           HandleFails, DeadLetter, DeadLetterFails, StoreOffset, Crash, Stop, OperatorStart,
           historyVars, IInv, TypeOK
  <2>2. QED
    BY <2>1 DEF OnlyAfterEarlier, IInv, Cursor, Progress, Running
<1>2. QED
  BY <1>1, Inductive, PTL DEF Spec, HandledInOrder, OnlyAfterEarlier

-----------------------------------------------------------------------------

\* A crash makes at most one update be handled once more.
THEOREM AtMostOneRepeated == Spec => []RepeatsAtMostOne
  BY Inductive, PTL DEF IInv

LEMMA FateKept == ASSUME IInv, dbOffset' = dbOffset,
                         \A u \in Updates : u < dbOffset =>
                           /\ u \in completed' <=> u \in completed
                           /\ u \in audited' <=> u \in audited
                  PROVE  Fate' = Fate
  BY DEF Fate, IInv, TypeOK, Updates

\* The loop implements Settlement: seen through the stored offset, updates are
\* settled one by one and in order, and a settled update stays as it is.
THEOREM Refinement == Spec => SettlesInOrder
<1>1. Init => Promise!Init
  BY ParameterAssumption DEF Init, Promise!Init, Fate, Updates
<1>2. IInv /\ [Next]_vars => [Promise!Next]_Promise!vars
  <2> SUFFICES ASSUME IInv, [Next]_vars
               PROVE  Promise!Next \/ UNCHANGED Promise!vars
    BY DEF Promise!vars
  <2>1. CASE Arrive
    <3>1. Fate' = Fate
      BY <2>1, FateKept DEF Arrive, storeVars, historyVars
    <3>2. Promise!Arrive
      BY <2>1, <3>1, ParameterAssumption
      DEF Arrive, Promise!Arrive, storeVars, IInv, TypeOK, Updates
    <3>3. QED
      BY <3>2 DEF Promise!Next
  <2>2. CASE StoreOffset
    <3>1. offset \in Updates /\ offset = dbOffset /\ offset <= arrived /\ offset \in Settled
      BY <2>2, BusyOffset DEF StoreOffset, Busy, IInv, TypeOK, Cursor
    <3>2. dbOffset' = dbOffset + 1 /\ UNCHANGED <<arrived, completed, audited>>
      BY <2>2, <3>1 DEF StoreOffset, telegramVars, historyVars
    <3>3. PICK f \in {"handled", "dead"} :
            f = IF dbOffset \in completed THEN "handled" ELSE "dead"
      OBVIOUS
    <3>4. Fate' = [Fate EXCEPT ![dbOffset] = f]
      <4>1. \A u \in Updates : u < dbOffset \/ u = dbOffset \/ u >= dbOffset + 1
        BY DEF IInv, TypeOK, Updates
      <4>2. Fate'[dbOffset] = f
        BY <3>1, <3>2, <3>3 DEF Fate, IInv, TypeOK, Settled
      <4>3. \A u \in Updates : u # dbOffset => Fate'[u] = Fate[u]
        BY <3>2, <4>1 DEF Fate, IInv, TypeOK, Updates
      <4>4. QED
        BY <3>1, <4>2, <4>3 DEF Fate
    <3>5. Promise!Settle
      BY <3>1, <3>2, <3>3, <3>4 DEF Promise!Settle, IInv, TypeOK
    <3>6. QED
      BY <3>5 DEF Promise!Next
  <2>3. CASE HandleOk \/ DeadLetter
    <3>1. offset = dbOffset
      BY <2>3, BusyOffset DEF HandleOk, DeadLetter, Busy
    <3>2. Fate' = Fate
      BY <2>3, <3>1, FateKept
      DEF HandleOk, DeadLetter, storeVars, historyVars, IInv, TypeOK, Updates
    <3>3. QED
      BY <2>3, <3>2 DEF HandleOk, DeadLetter, telegramVars, storeVars, Promise!vars
  <2>4. CASE \/ Start \/ Poll \/ Receive \/ PollEmpty \/ PollFails \/ TickFires
             \/ StartCycle \/ EndCycle \/ HandleFails \/ DeadLetterFails \/ Crash \/ Stop \/ OperatorStart \/ UNCHANGED vars
    <3>1. UNCHANGED <<arrived, dbOffset, completed, audited>>
      BY <2>4 DEF Start, Poll, Receive, PollEmpty, PollFails, TickFires, StartCycle, EndCycle,
                  HandleFails,
                  DeadLetterFails, Crash, Stop, OperatorStart,
                  telegramVars, storeVars, historyVars, vars
    <3>2. QED
      BY <3>1, FateKept DEF Promise!vars
  <2>5. QED
    BY <2>1, <2>2, <2>3, <2>4 DEF Next
<1>3. QED
  BY <1>1, <1>2, Inductive, PTL DEF Spec, SettlesInOrder, Promise!Spec

-----------------------------------------------------------------------------
(* The bound on the attempts.  Every fault buys an update MaxAttempts more. *)

\* The deliveries that failures have paid for.
Bought == MaxAttempts * faults

\* Attempts that handled[dbOffset] may count beyond those paid for by faults.
Owed == IF pc = "handle" THEN attempt ELSE IF pc \in {"audit", "store"} THEN MaxAttempts ELSE 0

\* Deliveries and what paid for them.
Spending ==
  \A u \in Updates :
    /\ u < dbOffset => handled[u] <= Bought + MaxAttempts
    /\ u = dbOffset => handled[u] <= Bought + Owed
    /\ u > dbOffset => handled[u] = 0

LEMMA BoughtFacts ==
  ASSUME TypeOK
  PROVE  /\ Bought \in Nat
         /\ MaxAttempts * (faults + 1) = Bought + MaxAttempts
         /\ faults' = faults => Bought' = Bought
         /\ faults' = faults + 1 => Bought' = Bought + MaxAttempts
  BY ParameterAssumption DEF TypeOK, Bought

LEMMA NextSpending == IInv /\ Spending /\ [Next]_vars => Spending'
<1> SUFFICES ASSUME IInv, Spending, [Next]_vars PROVE Spending'
  OBVIOUS
<1>0. /\ TypeOK /\ MaxAttempts \in Nat \ {0} /\ dbOffset \in Nat /\ Bought \in Nat
      /\ handled \in [Updates -> Nat] /\ attempt \in Nat /\ Updates \subseteq Nat
      /\ pc = "handle" => attempt + 1 <= MaxAttempts
      /\ pc \in Busy => offset \in Updates /\ offset = dbOffset
  <2>1. /\ TypeOK /\ MaxAttempts \in Nat \ {0} /\ dbOffset \in Nat
        /\ handled \in [Updates -> Nat] /\ attempt \in Nat /\ Updates \subseteq Nat
    BY ParameterAssumption DEF IInv, TypeOK, Updates
  <2>2. pc = "handle" => attempt + 1 <= MaxAttempts
    BY <2>1 DEF IInv, Cursor
  <2>3. Bought \in Nat
    BY <2>1, BoughtFacts
  <2>4. pc \in Busy => offset \in Updates /\ offset = dbOffset
    BY BusyOffset
  <2>5. QED
    BY <2>1, <2>2, <2>3, <2>4
<1>1. CASE HandleOk
  <2>1. Bought' = Bought
    BY <1>1, <1>0, BoughtFacts DEF HandleOk
  <2>2. pc = "handle" /\ pc' = "store" /\ dbOffset' = dbOffset
        /\ handled' = [handled EXCEPT ![dbOffset] = @ + 1]
    BY <1>1, <1>0 DEF HandleOk, storeVars, Busy
  <2>3. QED
    BY <1>0, <2>1, <2>2 DEF Spending, Owed
<1>2. CASE HandleFails
  <2>1. Bought' = Bought
    BY <1>2, <1>0, BoughtFacts DEF HandleFails
  <2>2. pc = "handle" /\ pc' \in {"handle", "audit"} /\ attempt' = attempt + 1
        /\ dbOffset' = dbOffset /\ handled' = [handled EXCEPT ![dbOffset] = @ + 1]
    BY <1>2, <1>0 DEF HandleFails, storeVars, Busy
  <2>3. QED
    BY <1>0, <2>1, <2>2 DEF Spending, Owed
<1>3. CASE StoreOffset
  <2>1. Bought' = Bought
    BY <1>3, <1>0, BoughtFacts DEF StoreOffset, historyVars
  <2>2. pc = "store" /\ pc' \in {"handle", "select"} /\ attempt' = 0
        /\ dbOffset' = dbOffset + 1 /\ handled' = handled
    BY <1>3, <1>0 DEF StoreOffset, historyVars, Busy
  <2>3. QED
    BY <1>0, <2>1, <2>2 DEF Spending, Owed
<1>4. CASE Crash
  <2>1. Bought' = Bought + MaxAttempts
    BY <1>4, <1>0, BoughtFacts DEF Crash, Fault
  <2>2. pc' = "down" /\ dbOffset' = dbOffset
    BY <1>4 DEF Crash, storeVars
  <2>3. CASE pc = "handle"
    BY <1>4, <1>0, <2>1, <2>2, <2>3 DEF Crash, Spending, Owed, Busy
  <2>4. CASE pc # "handle"
    BY <1>4, <1>0, <2>1, <2>2, <2>4 DEF Crash, Spending, Owed
  <2>5. QED
    BY <2>3, <2>4
<1>5. CASE DeadLetterFails \/ PollFails
  <2>1. Bought' = Bought + MaxAttempts
    BY <1>5, <1>0, BoughtFacts DEF DeadLetterFails, PollFails, Fault
  <2>2. pc' = "select" /\ dbOffset' = dbOffset /\ handled' = handled
    BY <1>5 DEF DeadLetterFails, PollFails, storeVars
  <2>3. pc \in {"audit", "polling"}
    BY <1>5 DEF DeadLetterFails, PollFails
  <2>4. QED
    BY <1>0, <2>1, <2>2, <2>3 DEF Spending, Owed
<1>6. CASE \/ Arrive \/ Start \/ Poll \/ Receive \/ PollEmpty \/ DeadLetter
           \/ TickFires \/ StartCycle \/ EndCycle
           \/ Stop \/ OperatorStart \/ UNCHANGED vars
  <2>1. UNCHANGED <<dbOffset, handled, faults>> /\ Owed' = Owed
    BY <1>6 DEF Arrive, Start, Poll, Receive, PollEmpty, DeadLetter, TickFires, StartCycle,
                EndCycle, Stop,
                OperatorStart, telegramVars, storeVars, historyVars, vars, Owed
  <2>2. QED
    BY <1>0, <2>1, BoughtFacts DEF Spending
<1>7. QED
  BY <1>1, <1>2, <1>3, <1>4, <1>5, <1>6 DEF Next

\* An update costs at most MaxAttempts attempts, and as many again for each fault.
THEOREM BoundedAttempts == Spec => []AttemptsAreBounded
<1>1. Init => Spending
  BY ParameterAssumption DEF Init, Spending, Bought, Owed, Updates
<1>2. IInv /\ Spending => AttemptsAreBounded
  <2> SUFFICES ASSUME IInv, Spending, NEW u \in Updates
               PROVE  handled[u] <= MaxAttempts * (faults + 1)
    BY DEF AttemptsAreBounded
  <2>1. Owed \in 0 .. MaxAttempts
    BY ParameterAssumption DEF IInv, TypeOK, Owed
  <2>2. Bought \in Nat /\ MaxAttempts * (faults + 1) = Bought + MaxAttempts
    BY BoughtFacts DEF IInv
  <2>3. MaxAttempts \in Nat /\ handled[u] \in Nat /\ u \in Nat /\ dbOffset \in Nat
    BY ParameterAssumption DEF IInv, TypeOK, Updates
  <2>4. QED
    BY <2>1, <2>2, <2>3 DEF Spending
<1>3. QED
  BY <1>1, <1>2, NextSpending, Inductive, PTL DEF Spec
=============================================================================
