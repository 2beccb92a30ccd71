---------------------------- MODULE PairingProofs ----------------------------
(***************************************************************************)
(* What Pairing promises for any users, codes, limits and times: a code    *)
(* makes one owner, only a code written with --replace displaces one, and  *)
(* nobody stays blocked from before the code on display.                   *)
(*                                                                         *)
(* The argument: the stored code was neither used nor retired (Stored),    *)
(* and a failure row and the failures since the last forgiveness go        *)
(* together (Counted): a full row blocks its user for at least Window      *)
(* seconds after its start, so that it is never counted up again.          *)
(*                                                                         *)
(* And no user gets twice Limit texts compared within one window: the row  *)
(* counts those since its start (Windowed), a row that did not end in a    *)
(* block leaves at most Limit - 2 recent ones to the next (Carried), and a *)
(* full row blocks until its window has passed.                            *)
(***************************************************************************)
EXTENDS Pairing, FiniteSetTheorems, TLAPS

\* The code on display was neither used nor retired, and ids are handed out in order.
Stored ==
  /\ code # NoRow => /\ code.id \in Codes /\ code.id <= issued
                     /\ uses[code.id] = 0 /\ code.id \notin retired
                     /\ code.replace => code.id \in replacing
  /\ \A c \in Codes : uses[c] # 0 => c <= issued
  /\ \A c \in retired : c <= issued
  /\ cli = "reset" => issued \in Codes
  /\ pc # "idle" => from \in Users

\* What is known of the failure row of a user, and of the failures counted since.
RowOK(row, failures) ==
  /\ row.start <= now /\ row.count <= Len(failures)
  /\ row.count = Limit => row.blocked >= row.start + Block
  /\ row.blocked > 0 => row.count = Limit

\* The failure rows tell of the failures.
Counted == \A u \in Users : RowOK(attempts[u], tried[u])

\* The inductive invariant.
IInv == TypeOK /\ Stored /\ Counted /\ CodeUsedOnce

-----------------------------------------------------------------------------
\* The failure rows.
Rows == [start : Nat, count : 0 .. Limit, blocked : Nat]

LEMMA NoAttemptsPart ==
  /\ NoAttempts \in Rows /\ NoAttempts.blocked = 0
  /\ now \in Nat => \A failures \in Seq(Nat) : RowOK(NoAttempts, failures)
<1>1. NoAttempts.start = 0 /\ NoAttempts.count = 0 /\ NoAttempts.blocked = 0 /\ NoAttempts \in Rows
  BY ParameterAssumption DEF NoAttempts, Rows
<1>2. \A failures \in Seq(Nat) : Len(failures) \in Nat
  OBVIOUS
<1>3. QED
  BY <1>1, <1>2, ParameterAssumption DEF RowOK

\* A row whose user is not blocked is counted up only below the limit: a full row
\* is blocked for Block seconds or more, and Window is no longer than Block.
LEMMA FailurePart ==
  ASSUME TypeOK, NEW row \in Rows, NEW failures \in Seq(Nat), RowOK(row, failures),
         ~(row.blocked > now)
  PROVE  /\ RowAfterFailure(row) \in Rows
         /\ RowOK(RowAfterFailure(row), Append(failures, now))
<1> DEFINE same == row.count > 0 /\ now - row.start < Window
           count == IF same THEN row.count + 1 ELSE 1
           start == IF same THEN row.start ELSE now
           blocked == IF count >= Limit THEN now + Block ELSE 0
           new == [start |-> start, count |-> count, blocked |-> blocked]
<1>1. now \in Nat /\ Limit \in Nat /\ Limit >= 1 /\ Window \in Nat /\ Block \in Nat /\ Window <= Block
      /\ Len(failures) \in Nat /\ Len(Append(failures, now)) = Len(failures) + 1
  BY ParameterAssumption DEF TypeOK
<1>2. row.count \in 0 .. Limit /\ row.start \in Nat /\ row.blocked \in Nat
  BY DEF Rows
<1>3. same => row.count < Limit
  <2>1. row.count = Limit => row.blocked >= row.start + Block
    BY DEF RowOK
  <2>2. row.count = Limit => now >= row.start + Block
    BY <1>1, <1>2, <2>1
  <2>3. row.count = Limit => ~same
    BY <1>1, <1>2, <2>2
  <2>4. QED
    BY <1>1, <1>2, <2>3
<1>4. count \in 0 .. Limit /\ count >= 1 /\ count <= Len(failures) + 1
  <2>0. row.count <= Len(failures)
    BY DEF RowOK
  <2>1. CASE same
    <3>1. count = row.count + 1 /\ row.count < Limit
      BY <1>3, <2>1
    <3> HIDE DEF count, same
    <3>2. QED
      BY <1>1, <1>2, <2>0, <3>1
  <2>2. CASE ~same
    <3>1. count = 1
      BY <2>2
    <3>2. QED
      BY <1>1, <3>1
  <2>3. QED
    BY <2>1, <2>2
<1>5. start \in Nat
  BY <1>1, <1>2
<1> HIDE DEF count, start
<1>6. blocked \in Nat /\ (blocked > 0 => count = Limit)
  <2>0. now + Block \in Nat
    BY <1>1
  <2>1. CASE count >= Limit
    BY <1>1, <1>4, <2>0, <2>1
  <2>2. CASE ~(count >= Limit)
    BY <2>2
  <2>3. QED
    BY <2>1, <2>2
<1>7. start <= now /\ (count = Limit => blocked >= start + Block)
  <2>1. start <= now
    BY <1>1, <1>2 DEF RowOK, start
  <2>2. QED
    BY <1>1, <1>4, <1>5, <2>1
<1> HIDE DEF same, blocked
<1>8. new.count = count /\ new.start = start /\ new.blocked = blocked /\ new \in Rows
  BY <1>4, <1>5, <1>6 DEF Rows
<1>9. RowAfterFailure(row) = new
  BY DEF RowAfterFailure, same, count, start, blocked
<1> HIDE DEF new
<1>10. QED
  BY <1>1, <1>4, <1>6, <1>7, <1>8, <1>9 DEF RowOK

\* Everyone is forgiven.
LEMMA ForgivenPart ==
  ASSUME now' \in Nat, attempts' = [u \in Users |-> NoAttempts], tried' = [u \in Users |-> <<>>]
  PROVE  attempts' \in [Users -> Rows] /\ tried' \in [Users -> Seq(Nat)] /\ Counted'
<1>1. <<>> \in Seq(Nat) /\ Len(<<>>) = 0
  OBVIOUS
<1>2. NoAttempts \in Rows /\ NoAttempts.start = 0 /\ NoAttempts.count = 0 /\ NoAttempts.blocked = 0
  BY NoAttemptsPart DEF NoAttempts
<1> HIDE DEF NoAttempts
<1>3. \A u \in Users : attempts'[u] = NoAttempts /\ tried'[u] = <<>>
  OBVIOUS
<1>4. Counted'
  BY <1>1, <1>2, <1>3, ParameterAssumption DEF Counted, RowOK
<1>5. QED
  BY <1>1, <1>2, <1>4

LEMMA InitIInv == Init => IInv
<1> SUFFICES ASSUME Init PROVE IInv
  OBVIOUS
<1>1. code = NoRow /\ code \in [id : Codes \cup {NoCode}, expires : Nat, replace : BOOLEAN]
  BY DEF Init, NoRow
<1>2. <<>> \in Seq(Nat) /\ Len(<<>>) = 0
  OBVIOUS
<1>3. NoAttempts \in Rows /\ NoAttempts.start = 0 /\ NoAttempts.count = 0 /\ NoAttempts.blocked = 0
  BY NoAttemptsPart DEF NoAttempts
<1>4. TypeOK
  <2>1. attempts \in [Users -> Rows] /\ tried \in [Users -> Seq(Nat)] /\ uses \in [Codes -> Nat]
    BY <1>2, <1>3 DEF Init
  <2>2. 0 \in 0 .. MaxCodes
    BY ParameterAssumption
  <2>3. QED
    BY <1>1, <2>1, <2>2 DEF Init, TypeOK, Rows
<1>5. Counted
  BY <1>2, <1>3, ParameterAssumption DEF Init, Counted, RowOK
<1>6. Stored /\ CodeUsedOnce
  BY <1>1 DEF Init, Stored, CodeUsedOnce
<1>7. QED
  BY <1>4, <1>5, <1>6 DEF IInv

-----------------------------------------------------------------------------
\* The new code is of a number never used; the one it replaces was never used either.
LEMMA WriteCodeKeeps == IInv /\ WriteCode => IInv'
<1> SUFFICES ASSUME IInv, WriteCode PROVE IInv'
  OBVIOUS
<1> DEFINE new == issued + 1
           row == [id |-> new, expires |-> now + Ttl, replace |-> replace]
<1>1. /\ new \in Codes /\ issued' = new /\ code' = row /\ cli' = "reset"
      /\ retired' = IF code = NoRow THEN retired ELSE retired \cup {code.id}
      /\ replacing' = IF replace THEN replacing \cup {new} ELSE replacing
      /\ UNCHANGED <<now, owner, attempts, pc, from, text, replace, printed, uses, tried>>
  BY DEF WriteCode, Retire, agentVars
<1>2. row.id = new /\ row.replace = replace
      /\ row \in [id : Codes \cup {NoCode}, expires : Nat, replace : BOOLEAN]
  BY <1>1, ParameterAssumption DEF IInv, TypeOK
<1>3. issued \in Nat /\ new > issued /\ uses[new] = 0 /\ new \in 0 .. MaxCodes
  BY <1>1 DEF IInv, TypeOK, Stored, Codes
<1>4. \A c \in retired' : c \in Codes /\ c <= issued /\ uses[c] <= 0
  BY <1>1 DEF IInv, TypeOK, Stored, CodeUsedOnce
<1> HIDE DEF new, row
<1>5. TypeOK'
  <2>1. replacing' \subseteq Codes
    BY <1>1 DEF IInv, TypeOK
  <2>2. retired' \subseteq Codes
    BY <1>4
  <2>3. QED
    BY <1>1, <1>2, <1>3, <2>1, <2>2 DEF IInv, TypeOK
<1>6. Stored'
  <2>1. new \notin retired'
    BY <1>3, <1>4, <1>1 DEF Codes
  <2>2. replace => new \in replacing'
    BY <1>1
  <2>3. \A c \in Codes : uses[c] # 0 => c <= new
    BY <1>1, <1>3 DEF IInv, Stored, Codes
  <2>4. \A c \in retired' : c <= new
    BY <1>1, <1>3, <1>4 DEF Codes
  <2>5. new <= new
    BY <1>3
  <2>6. QED
    BY <1>1, <1>2, <1>3, <2>1, <2>2, <2>3, <2>4, <2>5 DEF IInv, Stored
<1>7. Counted'
  BY <1>1 DEF IInv, Counted, RowOK
<1>8. CodeUsedOnce'
  BY <1>1, <1>4 DEF IInv, TypeOK, CodeUsedOnce
<1>9. QED
  BY <1>5, <1>6, <1>7, <1>8 DEF IInv

LEMMA ResetKeeps == IInv /\ (ResetAndPrint \/ Unpair) => IInv'
<1> SUFFICES ASSUME IInv, ResetAndPrint \/ Unpair PROVE IInv'
  OBVIOUS
<1>1. attempts' = [u \in Users |-> NoAttempts] /\ tried' = [u \in Users |-> <<>>]
      /\ UNCHANGED <<now, pc, from, text, issued, uses, replacing>>
  BY DEF ResetAndPrint, Unpair, ClearAttempts, Forgive, agentVars, outsideVars
<1>2. attempts' \in [Users -> Rows] /\ tried' \in [Users -> Seq(Nat)] /\ Counted'
  BY <1>1, ForgivenPart DEF IInv, TypeOK
<1>3. CASE ResetAndPrint
  <2>1. /\ cli = "reset" /\ cli' = "idle" /\ replace' = FALSE /\ printed' = printed \cup {issued}
        /\ UNCHANGED <<owner, code, retired>>
    BY <1>3 DEF ResetAndPrint
  <2>2. TypeOK'
    BY <1>1, <1>2, <2>1 DEF IInv, TypeOK, Stored, Rows
  <2>3. Stored' /\ CodeUsedOnce'
    BY <1>1, <2>1 DEF IInv, Stored, CodeUsedOnce
  <2>4. QED
    BY <1>2, <2>2, <2>3 DEF IInv
<1>4. CASE Unpair
  <2>1. /\ owner' = NoOne /\ code' = NoRow /\ UNCHANGED <<cli, replace, printed>>
        /\ retired' = IF code = NoRow THEN retired ELSE retired \cup {code.id}
    BY <1>4 DEF Unpair, Retire, cliVars, outsideVars
  <2>2. \A c \in retired' : c \in Codes /\ c <= issued /\ uses[c] <= 0
    BY <2>1 DEF IInv, TypeOK, Stored, CodeUsedOnce
  <2>3. NoRow \in [id : Codes \cup {NoCode}, expires : Nat, replace : BOOLEAN]
    BY DEF NoRow
  <2>4. TypeOK'
    BY <1>1, <1>2, <2>1, <2>2, <2>3 DEF IInv, TypeOK, Rows
  <2>5. Stored' /\ CodeUsedOnce'
    BY <1>1, <2>1, <2>2 DEF IInv, TypeOK, Stored, CodeUsedOnce
  <2>6. QED
    BY <1>2, <2>4, <2>5 DEF IInv
<1>5. QED
  BY <1>3, <1>4

LEMMA FailedKeeps == IInv /\ Failed => IInv'
<1> SUFFICES ASSUME IInv, Failed PROVE IInv'
  OBVIOUS
<1> DEFINE failed == [attempts EXCEPT ![from] = RowAfterFailure(@)]
<1>1. /\ pc = "pair" /\ pc' = "reply" /\ ~(attempts[from].blocked > now)
      /\ attempts' = [u \in Users |-> IF Outdated(failed[u]) THEN NoAttempts ELSE failed[u]]
      /\ tried' = [tried EXCEPT ![from] = Append(@, now)]
      /\ UNCHANGED <<now, owner, code, from, text, cli, replace, issued, printed,
                     uses, retired, replacing>>
  BY DEF Failed, Blocked, cliVars, outsideVars
<1>2. from \in Users /\ now \in Nat
  BY <1>1 DEF IInv, TypeOK, Stored
<1>3. attempts \in [Users -> Rows] /\ tried \in [Users -> Seq(Nat)]
      /\ \A u \in Users : RowOK(attempts[u], tried[u])
  BY DEF IInv, TypeOK, Counted, Rows
<1>4. RowAfterFailure(attempts[from]) \in Rows
      /\ RowOK(RowAfterFailure(attempts[from]), Append(tried[from], now))
  <2>1. attempts[from] \in Rows /\ tried[from] \in Seq(Nat)
    BY <1>2, <1>3
  <2>2. QED
    BY <1>1, <1>2, <1>3, <2>1, FailurePart DEF IInv
<1>5. tried' \in [Users -> Seq(Nat)]
  BY <1>1, <1>2, <1>3
<1>6. failed \in [Users -> Rows] /\ \A u \in Users : RowOK(failed[u], tried'[u])
  <2>1. failed \in [Users -> Rows]
    BY <1>2, <1>3, <1>4
  <2>2. ASSUME NEW u \in Users PROVE RowOK(failed[u], tried'[u])
    <3>1. CASE u = from
      <4>1. failed[u] = RowAfterFailure(attempts[from]) /\ tried'[u] = Append(tried[from], now)
        BY <1>1, <1>2, <1>3, <3>1
      <4>2. QED
        BY <1>4, <4>1
    <3>2. CASE u # from
      <4>1. failed[u] = attempts[u] /\ tried'[u] = tried[u]
        BY <1>1, <1>2, <1>3, <3>2
      <4>2. QED
        BY <1>3, <4>1
    <3>3. QED
      BY <3>1, <3>2
  <2>3. QED
    BY <2>1, <2>2
<1> HIDE DEF failed
<1>7. attempts' \in [Users -> Rows]
  BY <1>1, <1>6, NoAttemptsPart
<1>8. Counted'
  <2>1. ASSUME NEW u \in Users PROVE RowOK(attempts'[u], tried'[u])
    <3>1. attempts'[u] = failed[u] \/ attempts'[u] = NoAttempts
      BY <1>1
    <3>2. RowOK(failed[u], tried'[u]) /\ RowOK(NoAttempts, tried'[u])
      <4>1. tried'[u] \in Seq(Nat)
        BY <1>5
      <4>2. QED
        BY <1>2, <1>6, <4>1, NoAttemptsPart
    <3>3. QED
      BY <3>1, <3>2
  <2>2. QED
    BY <1>1, <2>1 DEF Counted, RowOK
<1>9. TypeOK'
  BY <1>1, <1>5, <1>7 DEF IInv, TypeOK, Rows
<1>10. Stored' /\ CodeUsedOnce'
  BY <1>1 DEF IInv, Stored, CodeUsedOnce
<1>11. QED
  BY <1>8, <1>9, <1>10 DEF IInv

\* The code makes an owner and is gone; its sender is forgiven.
LEMMA PairedKeeps == IInv /\ Paired => IInv'
<1> SUFFICES ASSUME IInv, Paired PROVE IInv'
  OBVIOUS
<1> DEFINE used == code.id
<1>1. /\ pc = "pair" /\ pc' = "reply" /\ code # NoRow /\ owner' = from /\ code' = NoRow
      /\ attempts' = [attempts EXCEPT ![from] = NoAttempts]
      /\ tried' = [tried EXCEPT ![from] = <<>>]
      /\ uses' = [uses EXCEPT ![used] = @ + 1]
      /\ UNCHANGED <<now, from, text, cli, replace, issued, printed, retired, replacing>>
  BY DEF Paired, cliVars, outsideVars
<1>2. from \in Users /\ now \in Nat /\ attempts \in [Users -> Rows] /\ tried \in [Users -> Seq(Nat)]
  BY <1>1 DEF IInv, TypeOK, Stored, Rows
<1>3. used \in Codes /\ used <= issued /\ uses[used] = 0 /\ used \notin retired
  BY <1>1 DEF IInv, Stored
<1> HIDE DEF used
<1>4. uses' \in [Codes -> Nat] /\ uses'[used] = 1 /\ \A c \in Codes : c # used => uses'[c] = uses[c]
  BY <1>1, <1>3 DEF IInv, TypeOK
<1>5. <<>> \in Seq(Nat) /\ NoAttempts \in Rows /\ RowOK(NoAttempts, <<>>)
  <2>1. <<>> \in Seq(Nat)
    OBVIOUS
  <2>2. QED
    BY <1>2, <2>1, NoAttemptsPart
<1>6. attempts' \in [Users -> Rows] /\ tried' \in [Users -> Seq(Nat)]
  BY <1>1, <1>2, <1>5
<1>7. Counted'
  <2>1. ASSUME NEW u \in Users PROVE RowOK(attempts'[u], tried'[u])
    <3>1. CASE u = from
      BY <1>1, <1>2, <1>5, <3>1
    <3>2. CASE u # from
      BY <1>1, <1>2, <3>2 DEF IInv, Counted
    <3>3. QED
      BY <3>1, <3>2
  <2>2. QED
    BY <1>1, <2>1 DEF Counted, RowOK
<1>8. TypeOK'
  <2>1. NoRow \in [id : Codes \cup {NoCode}, expires : Nat, replace : BOOLEAN]
    BY DEF NoRow
  <2>2. QED
    BY <1>1, <1>2, <1>4, <1>6, <2>1 DEF IInv, TypeOK, Rows
<1>9. Stored'
  BY <1>1, <1>2, <1>3, <1>4 DEF IInv, Stored
<1>10. CodeUsedOnce'
  BY <1>1, <1>3, <1>4 DEF IInv, TypeOK, CodeUsedOnce
<1>11. QED
  BY <1>7, <1>8, <1>9, <1>10 DEF IInv

LEMMA NextIInv == IInv /\ [Next]_vars => IInv'
<1> SUFFICES ASSUME IInv, [Next]_vars PROVE IInv'
  OBVIOUS
<1>1. CASE StartPair \/ PairDies \/ Receive \/ Ignored \/ Reply \/ Again \/ Tick \/ UNCHANGED vars
  <2>1. UNCHANGED <<owner, code, attempts, issued, printed, uses, retired, replacing, tried>>
    BY <1>1 DEF StartPair, PairDies, Receive, Ignored, Reply, Again, Tick, vars, storeVars, agentVars,
                cliVars, outsideVars, historyVars
  <2>2. /\ now' \in {now, now + 1}
        /\ cli' \in {cli, "idle", "write"} /\ (replace' = replace \/ replace' \in BOOLEAN)
        /\ \/ pc' = "idle" /\ from' \in {from, NoOne} /\ text' \in {text, NoCode}
           \/ pc' = "pair" /\ from' \in Users /\ text' \in printed \cup {NoCode}
           \/ pc' \in {"pair", "reply"} /\ pc # "idle" /\ UNCHANGED <<from, text>>
           \/ UNCHANGED <<pc, from, text>>
    BY <1>1 DEF StartPair, PairDies, Receive, Ignored, Reply, Again, Tick, vars, agentVars, cliVars
  <2>3. TypeOK'
    <3>1. now' \in Nat /\ cli' \in {"idle", "write", "reset"} /\ replace' \in BOOLEAN
      BY <2>2 DEF IInv, TypeOK
    <3>2. pc' \in {"idle", "pair", "reply"}
      BY <2>2 DEF IInv, TypeOK
    <3>3. from' \in Users \cup {NoOne} /\ text' \in Codes \cup {NoCode}
      BY <2>2 DEF IInv, TypeOK
    <3>4. QED
      BY <2>1, <3>1, <3>2, <3>3 DEF IInv, TypeOK
  <2>4. Stored' /\ CodeUsedOnce'
    BY <2>1, <2>2 DEF IInv, Stored, CodeUsedOnce
  <2>5. Counted'
    <3>1. \A u \in Users : attempts[u].start \in Nat
      BY DEF IInv, TypeOK
    <3>2. QED
      BY <2>1, <2>2, <3>1 DEF IInv, TypeOK, Counted, RowOK
  <2>6. QED
    BY <2>3, <2>4, <2>5 DEF IInv
<1>2. QED
  BY <1>1, WriteCodeKeeps, ResetKeeps, FailedKeeps, PairedKeeps DEF Next

-----------------------------------------------------------------------------
\* The stored code is unused, failure rows and failures go together.
THEOREM Inductive == Spec => []IInv
  BY InitIInv, NextIInv, PTL DEF Spec

\* Every variable keeps its type: the failures counted never exceed the limit.
THEOREM TypeCorrect == Spec => []TypeOK
<1>1. IInv => TypeOK
  BY DEF IInv
<1>2. QED
  BY <1>1, Inductive, PTL

\* A code makes at most one owner, and none once it is replaced or removed.
THEOREM UsedOnce == Spec => []CodeUsedOnce
<1>1. IInv => CodeUsedOnce
  BY DEF IInv
<1>2. QED
  BY <1>1, Inductive, PTL

\* A user who is blocked has failed Limit times since the last forgiveness, which
\* every new code grants.
THEOREM BlockedForAReason == Spec => []NewCodeUnblocks
<1>1. IInv => NewCodeUnblocks
  <2> SUFFICES ASSUME IInv, NEW u \in Users, Blocked(u) PROVE Len(tried[u]) >= Limit
    BY DEF NewCodeUnblocks
  <2>1. now \in Nat /\ attempts[u].blocked \in Nat /\ attempts[u].count \in Nat
        /\ Len(tried[u]) \in Nat /\ attempts[u].blocked > now
    <3>1. now \in Nat /\ attempts \in [Users -> Rows] /\ tried \in [Users -> Seq(Nat)]
      BY ParameterAssumption DEF IInv, TypeOK, Rows
    <3>2. attempts[u] \in Rows /\ tried[u] \in Seq(Nat) /\ attempts[u].blocked > now
      BY <3>1 DEF Blocked
    <3>3. attempts[u].blocked \in Nat /\ attempts[u].count \in Nat
      BY <3>2, ParameterAssumption DEF Rows
    <3>4. QED
      BY <3>1, <3>2, <3>3
  <2>2. /\ attempts[u].blocked > 0 => attempts[u].count = Limit
        /\ attempts[u].count <= Len(tried[u])
    BY DEF IInv, Counted, RowOK
  <2>3. attempts[u].blocked > 0
    BY <2>1
  <2>4. QED
    BY <2>1, <2>2, <2>3
<1>2. QED
  BY <1>1, Inductive, PTL

\* Only a code written with --replace takes the place of an owner.
THEOREM OwnerKept == Spec => OwnerKeptUntilReplaced
<1>1. IInv /\ [Next]_vars =>
        [owner # NoOne /\ owner' \notin {owner, NoOne} =>
           \E c \in replacing : uses'[c] > uses[c]]_vars
  <2> SUFFICES ASSUME IInv, [Next]_vars, owner # NoOne, owner' \notin {owner, NoOne}
               PROVE  \E c \in replacing : uses'[c] > uses[c]
    OBVIOUS
  <2>1. Paired
    BY DEF Next, StartPair, WriteCode, ResetAndPrint, PairDies, Unpair, Receive, Ignored, Failed,
           Reply, Again, Tick, vars, storeVars
  <2>2. code # NoRow /\ code.replace /\ uses' = [uses EXCEPT ![code.id] = @ + 1]
    BY <2>1 DEF Paired, Valid
  <2>3. code.id \in replacing /\ code.id \in Codes /\ uses[code.id] = 0
    BY <2>2 DEF IInv, Stored
  <2>4. uses'[code.id] = 1
    BY <2>2, <2>3 DEF IInv, TypeOK
  <2>5. QED
    BY <2>3, <2>4
<1>2. QED
  BY <1>1, Inductive, PTL DEF Spec, OwnerKeptUntilReplaced

-----------------------------------------------------------------------------
(* How often a user's texts are compared                                   *)

\* Failures counted before the current window of a row, and still recent at its start.
Earlier(row, failures) ==
  {i \in 1 .. Len(failures) - row.count : failures[i] > row.start - Window}

\* What a window that did not end in a block can leave to the next one: its first
\* failure is too old by then, and with Limit failures it would have blocked.
Carried == IF Limit > 2 THEN Limit - 2 ELSE 0

\* The last row.count failures are those of the current window, and the ones before
\* are old, or few.
Windowed(row, failures) ==
  /\ row.count <= Len(failures)
  /\ \A i \in 1 .. Len(failures) : failures[i] <= now
  /\ row.count = 0 => \A i \in 1 .. Len(failures) : failures[i] <= now - Window
  /\ row.count > 0 =>
       /\ \A i \in 1 .. Len(failures) : failures[i] < row.start + Window
       /\ \A i \in 1 .. Len(failures) - row.count + 1 : failures[i] <= row.start
       /\ Cardinality(Earlier(row, failures)) <= Carried
  /\ row.count = Limit => \A i \in 1 .. Len(failures) : failures[i] + Block <= row.blocked

\* So it is for every user.
WindowsHold == \A u \in Users : Windowed(attempts[u], tried[u])

LEMMA LimitsAreNats ==
  /\ Limit \in Nat /\ Limit >= 1 /\ Window \in Nat /\ Window >= 1 /\ Block \in Nat
  /\ RowLife \in Nat /\ Window <= Block /\ Window + Block <= RowLife /\ Carried \in Nat
  BY ParameterAssumption DEF Carried

\* A window that is over, and whose user is not blocked, carries few failures over.
LEMMA OverCarriesFew ==
  ASSUME now \in Nat, NEW row \in Rows, NEW failures \in Seq(Nat), Windowed(row, failures),
         ~(row.blocked > now), ~(row.count > 0 /\ now - row.start < Window)
  PROVE  LET old == {i \in 1 .. Len(failures) : failures[i] > now - Window}
         IN  IsFiniteSet(old) /\ Cardinality(old) <= Carried
<1> DEFINE n == Len(failures)
           old == {i \in 1 .. n : failures[i] > now - Window}
<1>1. /\ n \in Nat /\ row.count \in 0 .. Limit /\ row.start \in Nat /\ row.blocked \in Nat
      /\ \A i \in 1 .. n : failures[i] \in Nat
  BY DEF Rows
<1>2. IsFiniteSet({}) /\ Cardinality({}) = 0
  BY FS_EmptySet
<1>7. ASSUME \A i \in 1 .. n : ~(failures[i] > now - Window)
      PROVE  IsFiniteSet(old) /\ Cardinality(old) <= Carried
  <2>1. old = {}
    BY <1>7
  <2> HIDE DEF old
  <2>2. QED
    BY <1>2, <2>1, LimitsAreNats
<1>3. CASE row.count = 0
  <2>1. \A i \in 1 .. n : failures[i] <= now - Window
    BY <1>3 DEF Windowed
  <2>2. QED
    BY <1>1, <1>7, <2>1, LimitsAreNats
<1>4. CASE row.count = Limit
  <2>1. \A i \in 1 .. n : failures[i] + Block <= row.blocked
    BY <1>4 DEF Windowed
  <2>2. QED
    BY <1>1, <1>7, <2>1, LimitsAreNats
<1>5. CASE row.count > 0 /\ row.count < Limit
  <2> DEFINE last == n - row.count + 2 .. n
  <2>1. old \subseteq last
    <3> SUFFICES ASSUME NEW i \in 1 .. n, failures[i] > now - Window, ~(i \in last)
                 PROVE  FALSE
      OBVIOUS
    <3>1. i \in 1 .. n - row.count + 1
      BY <1>1, <1>5
    <3>2. failures[i] <= row.start
      BY <1>5, <3>1 DEF Windowed
    <3>3. failures[i] \in Nat /\ row.start \in Nat /\ now \in Nat /\ Window \in Nat
      BY <1>1, LimitsAreNats
    <3>4. now - row.start >= Window
      BY <1>5, <3>3
    <3>5. QED
      BY <3>2, <3>3, <3>4
  <2>2. n - row.count + 2 \in Int /\ n \in Int
    BY <1>1
  <2>3. IsFiniteSet(last) /\ Cardinality(last) <= row.count - 1
    <3>1. IsFiniteSet(last)
          /\ Cardinality(last) = IF n - row.count + 2 > n THEN 0 ELSE n - (n - row.count + 2) + 1
      BY <2>2, FS_Interval
    <3>2. QED
      BY <1>1, <1>5, <3>1
  <2>4. IsFiniteSet(old) /\ Cardinality(old) <= Cardinality(last) /\ Cardinality(old) \in Nat
        /\ Cardinality(last) \in Nat
    BY <2>1, <2>3, FS_Subset, FS_CardinalityType
  <2>5. row.count - 1 <= Carried
    BY <1>1, <1>5, LimitsAreNats DEF Carried
  <2> HIDE DEF old, last
  <2>6. Cardinality(old) <= Carried
    BY <1>1, <2>3, <2>4, <2>5, LimitsAreNats
  <2>7. QED
    BY <2>4, <2>6 DEF old
<1>6. QED
  <2>1. row.count = 0 \/ row.count = Limit \/ (row.count > 0 /\ row.count < Limit)
    BY <1>1, LimitsAreNats
  <2>2. QED
    BY <1>3, <1>4, <1>5, <2>1

\* One more failure of a user who is not blocked.
LEMMA FailureWindowed ==
  ASSUME now \in Nat, NEW row \in Rows, NEW failures \in Seq(Nat),
         RowOK(row, failures), Windowed(row, failures), ~(row.blocked > now)
  PROVE  Windowed(RowAfterFailure(row), Append(failures, now))
<1> DEFINE n == Len(failures)
           more == Append(failures, now)
           new == RowAfterFailure(row)
           same == row.count > 0 /\ now - row.start < Window
<1>1. /\ n \in Nat /\ row.count \in 0 .. Limit /\ row.start \in Nat /\ row.blocked \in Nat
      /\ \A i \in 1 .. n : failures[i] \in Nat
  BY DEF Rows
<1>2. /\ Len(more) = n + 1 /\ more[n + 1] = now
      /\ \A i \in 1 .. n : more[i] = failures[i]
  BY <1>1
<1>0. row.count <= n
  BY DEF Windowed
<1>3. /\ new.count = IF same THEN row.count + 1 ELSE 1
      /\ new.start = IF same THEN row.start ELSE now
      /\ new.blocked = IF new.count >= Limit THEN now + Block ELSE 0
  BY DEF RowAfterFailure
<1>4. row.count = Limit => ~same
  BY <1>1, LimitsAreNats DEF RowOK
<1> HIDE DEF more, new
<1>5. \A i \in 1 .. n + 1 : more[i] \in Nat /\ more[i] <= now
  <2> SUFFICES ASSUME NEW i \in 1 .. n + 1 PROVE more[i] \in Nat /\ more[i] <= now
    OBVIOUS
  <2>1. CASE i = n + 1
    BY <1>2, <2>1
  <2>2. CASE i # n + 1
    <3>1. i \in 1 .. n
      BY <1>1, <2>2
    <3>2. failures[i] \in Nat /\ failures[i] <= now
      BY <1>1, <3>1 DEF Windowed
    <3>3. QED
      BY <1>2, <3>1, <3>2
  <2>3. QED
    BY <2>1, <2>2
<1>6. new.count = Limit => \A i \in 1 .. n + 1 : more[i] + Block <= new.blocked
  BY <1>1, <1>3, <1>5, LimitsAreNats
<1>7. CASE same
  <2>1. new.count = row.count + 1 /\ new.start = row.start
    BY <1>3, <1>7
  <2>2. Earlier(new, more) = Earlier(row, failures)
    <3> DEFINE c == row.count
    <3>1. (n + 1) - (c + 1) = n - c /\ \A i \in 1 .. n - c : i \in 1 .. n
      <4> HIDE DEF n, c
      <4>1. QED
        BY <1>0, <1>1, LimitsAreNats DEF c
    <3>2. QED
      BY <1>2, <2>1, <3>1 DEF Earlier
  <2>3. \A i \in 1 .. n + 1 : more[i] < new.start + Window
    BY <1>1, <1>5, <1>7, <2>1, LimitsAreNats
  <2>4. \A i \in 1 .. (n + 1) - new.count + 1 : more[i] <= new.start
    <3> DEFINE c == row.count
    <3>1. (n + 1) - (c + 1) + 1 = n - c + 1 /\ \A i \in 1 .. n - c + 1 : i \in 1 .. n
      <4> HIDE DEF n, c
      <4>1. QED
        BY <1>0, <1>1, <1>7, LimitsAreNats DEF c
    <3>2. \A i \in 1 .. n - row.count + 1 : failures[i] <= row.start
      BY <1>7 DEF Windowed
    <3>3. QED
      BY <1>2, <2>1, <3>1, <3>2
  <2>5. Cardinality(Earlier(new, more)) <= Carried
    BY <1>7, <2>2 DEF Windowed
  <2>6. new.count <= n + 1 /\ new.count # 0
    BY <1>0, <1>1, <2>1
  <2>7. QED
    BY <1>2, <1>5, <1>6, <2>3, <2>4, <2>5, <2>6 DEF Windowed, new, more
<1>8. CASE ~same
  <2>1. new.count = 1 /\ new.start = now
    BY <1>3, <1>8
  <2>2. Earlier(new, more) = {i \in 1 .. n : failures[i] > now - Window}
    BY <1>1, <1>2, <2>1 DEF Earlier
  <2>3. Cardinality(Earlier(new, more)) <= Carried
    BY <1>1, <1>8, <2>2, OverCarriesFew
  <2>4. \A i \in 1 .. n + 1 : more[i] < new.start + Window
    BY <1>1, <1>5, <2>1, LimitsAreNats
  <2>5. \A i \in 1 .. (n + 1) - new.count + 1 : more[i] <= new.start
    BY <1>1, <1>5, <2>1
  <2>6. new.count <= n + 1 /\ new.count # 0
    BY <1>1, <2>1
  <2>7. QED
    BY <1>2, <1>5, <1>6, <2>3, <2>4, <2>5, <2>6 DEF Windowed, new, more
<1>9. QED
  BY <1>7, <1>8

\* A row old enough to be deleted has only old failures.
LEMMA OutdatedWindowed ==
  ASSUME now \in Nat, NEW row \in Rows, NEW failures \in Seq(Nat), Windowed(row, failures),
         Outdated(row)
  PROVE  Windowed(NoAttempts, failures)
<1> DEFINE n == Len(failures)
<1>1. n \in Nat /\ row.start \in Nat /\ \A i \in 1 .. n : failures[i] \in Nat
  BY DEF Rows
<1>2. \A i \in 1 .. n : failures[i] < row.start + Window
  BY DEF Windowed, Outdated
<1>3. row.start < now - RowLife
  BY DEF Outdated
<1>4. \A i \in 1 .. n : failures[i] <= now - Window
  BY <1>1, <1>2, <1>3, LimitsAreNats
<1>5. NoAttempts.count = 0
  BY DEF NoAttempts
<1>6. QED
  BY <1>1, <1>4, <1>5, LimitsAreNats DEF Windowed

LEMMA NoneWindowed == Windowed(NoAttempts, <<>>)
<1>1. NoAttempts.count = 0 /\ Len(<<>>) = 0
  BY DEF NoAttempts
<1>2. QED
  BY <1>1, LimitsAreNats DEF Windowed

LEMMA WindowsStep == IInv /\ WindowsHold /\ [Next]_vars => WindowsHold'
<1> SUFFICES ASSUME IInv, WindowsHold, [Next]_vars, NEW u \in Users
             PROVE  Windowed(attempts[u], tried[u])'
  BY DEF WindowsHold
<1>1. /\ now \in Nat /\ attempts \in [Users -> Rows] /\ tried \in [Users -> Seq(Nat)]
      /\ RowOK(attempts[u], tried[u]) /\ Windowed(attempts[u], tried[u])
  BY DEF IInv, TypeOK, Counted, Rows, WindowsHold
<1>2. attempts[u] \in Rows /\ tried[u] \in Seq(Nat) /\ Len(tried[u]) \in Nat
      /\ \A i \in 1 .. Len(tried[u]) : tried[u][i] \in Nat
  <2>1. attempts[u] \in Rows /\ tried[u] \in Seq(Nat)
    BY <1>1
  <2>2. QED
    BY <2>1
<1>3. CASE Failed
  <2> DEFINE failed == [attempts EXCEPT ![from] = RowAfterFailure(@)]
  <2>1. /\ pc = "pair" /\ ~(attempts[from].blocked > now) /\ now' = now
        /\ attempts' = [v \in Users |-> IF Outdated(failed[v]) THEN NoAttempts ELSE failed[v]]
        /\ tried' = [tried EXCEPT ![from] = Append(@, now)]
    BY <1>3 DEF Failed, Blocked
  <2>2. failed[u] \in Rows /\ tried'[u] \in Seq(Nat) /\ Windowed(failed[u], tried'[u])
    <3>1. CASE u = from
      <4>1. failed[u] = RowAfterFailure(attempts[u]) /\ tried'[u] = Append(tried[u], now)
        BY <1>1, <2>1, <3>1
      <4>2. RowAfterFailure(attempts[u]) \in Rows
        BY <1>1, <1>2, <2>1, <3>1, FailurePart DEF IInv
      <4>3. Windowed(RowAfterFailure(attempts[u]), Append(tried[u], now))
        BY <1>1, <1>2, <2>1, <3>1, FailureWindowed
      <4>4. Append(tried[u], now) \in Seq(Nat)
        BY <1>1, <1>2
      <4>5. QED
        BY <4>1, <4>2, <4>3, <4>4
    <3>2. CASE u # from
      <4>1. failed[u] = attempts[u] /\ tried'[u] = tried[u]
        BY <1>1, <2>1, <3>2
      <4>2. QED
        BY <1>1, <1>2, <4>1
    <3>3. QED
      BY <3>1, <3>2
  <2>3. attempts'[u] = IF Outdated(failed[u]) THEN NoAttempts ELSE failed[u]
    BY <2>1
  <2> HIDE DEF failed
  <2>4. Windowed(attempts'[u], tried'[u])
    BY <1>1, <2>2, <2>3, OutdatedWindowed
  <2>5. QED
    BY <2>1, <2>4 DEF Windowed
<1>4. CASE Paired
  <2>1. /\ attempts' = [attempts EXCEPT ![from] = NoAttempts] /\ now' = now
        /\ tried' = [tried EXCEPT ![from] = <<>>]
    BY <1>4 DEF Paired
  <2>2. CASE u = from
    <3>1. attempts'[u] = NoAttempts /\ tried'[u] = <<>>
      BY <1>1, <2>1, <2>2
    <3>2. QED
      BY <2>1, <3>1, NoneWindowed DEF Windowed
  <2>3. CASE u # from
    <3>1. attempts'[u] = attempts[u] /\ tried'[u] = tried[u]
      BY <1>1, <2>1, <2>3
    <3>2. QED
      BY <1>1, <2>1, <3>1 DEF Windowed
  <2>4. QED
    BY <2>2, <2>3
<1>5. CASE ResetAndPrint \/ Unpair
  <2>1. attempts' = [v \in Users |-> NoAttempts] /\ tried' = [v \in Users |-> <<>>] /\ now' = now
    BY <1>5 DEF ResetAndPrint, Unpair, ClearAttempts, Forgive
  <2>2. attempts'[u] = NoAttempts /\ tried'[u] = <<>>
    BY <2>1
  <2>3. QED
    BY <2>1, <2>2, NoneWindowed DEF Windowed
<1>6. CASE StartPair \/ WriteCode \/ PairDies \/ Receive \/ Ignored \/ Reply \/ Again \/ Tick
           \/ UNCHANGED vars
  <2>1. UNCHANGED <<attempts, tried>> /\ (now' = now \/ now' = now + 1)
    BY <1>6 DEF StartPair, WriteCode, PairDies, Receive, Ignored, Reply, Again, Tick, vars,
       storeVars, historyVars
  <2>2. CASE now' = now
    BY <1>1, <2>1, <2>2 DEF Windowed
  <2>3. CASE now' = now + 1
    <3>1. \A i \in 1 .. Len(tried[u]) :
            /\ tried[u][i] <= now + 1
            /\ attempts[u].count = 0 => tried[u][i] <= now + 1 - Window
      BY <1>1, <1>2, LimitsAreNats DEF Windowed
    <3>2. Earlier(attempts[u], tried[u])' = Earlier(attempts[u], tried[u])
      BY <2>1 DEF Earlier
    <3>3. QED
      BY <1>1, <2>1, <2>3, <3>1, <3>2, LimitsAreNats DEF Windowed
  <2>4. QED
    BY <2>1, <2>2, <2>3
<1>7. QED
  BY <1>3, <1>4, <1>5, <1>6 DEF Next

\* What is recent now was counted in the current window, or carried over to it.
LEMMA RecentIsBounded ==
  ASSUME now \in Nat, NEW row \in Rows, NEW failures \in Seq(Nat), Windowed(row, failures),
         row.start <= now
  PROVE  LET recent == {i \in DOMAIN failures : failures[i] > now - Window}
         IN  Cardinality(recent) <= Limit + Carried
<1> DEFINE n == Len(failures)
           recent == {i \in DOMAIN failures : failures[i] > now - Window}
           current == n - row.count + 1 .. n
<1>1. /\ n \in Nat /\ row.count \in 0 .. Limit /\ row.start \in Nat /\ DOMAIN failures = 1 .. n
      /\ row.count <= n /\ \A i \in 1 .. n : failures[i] \in Nat
  BY DEF Rows, Windowed
<1>2. CASE row.count = 0
  <2>1. recent = {}
    BY <1>1, <1>2, LimitsAreNats DEF Windowed
  <2>2. Cardinality({}) = 0
    BY FS_EmptySet
  <2> HIDE DEF recent
  <2>3. Cardinality(recent) = 0 /\ 0 <= Limit + Carried
    BY <2>1, <2>2, LimitsAreNats
  <2>4. QED
    BY <2>3 DEF recent
<1>3. CASE row.count > 0
  <2>1. recent \subseteq current \cup Earlier(row, failures)
    <3> SUFFICES ASSUME NEW i \in 1 .. n, failures[i] > now - Window, ~(i \in current)
                 PROVE  i \in Earlier(row, failures)
      BY <1>1
    <3>1. i \in 1 .. n - row.count
      BY <1>1, LimitsAreNats
    <3>2. failures[i] > row.start - Window
      BY <1>1, LimitsAreNats
    <3>3. QED
      BY <3>1, <3>2 DEF Earlier
  <2>2. IsFiniteSet(current) /\ Cardinality(current) = row.count
    <3>1. n - row.count + 1 \in Int /\ n \in Int
      BY <1>1, LimitsAreNats
    <3>2. IsFiniteSet(current)
          /\ Cardinality(current) = IF n - row.count + 1 > n THEN 0 ELSE n - (n - row.count + 1) + 1
      BY <3>1, FS_Interval
    <3>3. QED
      BY <1>1, <1>3, <3>2, LimitsAreNats
  <2>3. IsFiniteSet(Earlier(row, failures)) /\ Cardinality(Earlier(row, failures)) \in Nat
        /\ Cardinality(Earlier(row, failures)) <= Carried
    <3>1. Earlier(row, failures) \subseteq 1 .. n
      BY <1>1, LimitsAreNats DEF Earlier
    <3>2. IsFiniteSet(1 .. n)
      BY <1>1, FS_Interval
    <3>3. IsFiniteSet(Earlier(row, failures))
      BY <3>1, <3>2, FS_Subset
    <3>4. QED
      BY <1>3, <3>3, FS_CardinalityType DEF Windowed
  <2> HIDE DEF current, recent
  <2> DEFINE both == current \cup Earlier(row, failures)
             shared == current \cap Earlier(row, failures)
  <2>4. IsFiniteSet(both) /\ Cardinality(both) \in Nat
        /\ Cardinality(both) = Cardinality(current) + Cardinality(Earlier(row, failures))
                                 - Cardinality(shared)
    BY <2>2, <2>3, FS_Union, FS_CardinalityType
  <2>5. Cardinality(shared) \in Nat
    BY <2>2, FS_Subset, FS_CardinalityType
  <2>6. Cardinality(recent) \in Nat /\ Cardinality(recent) <= Cardinality(both)
    BY <2>1, <2>4, FS_Subset, FS_CardinalityType
  <2> HIDE DEF both, shared
  <2>7. Cardinality(recent) <= Limit + Carried
    BY <1>1, <2>2, <2>3, <2>4, <2>5, <2>6, LimitsAreNats
  <2>8. QED
    BY <2>7 DEF recent
<1>4. QED
  BY <1>1, <1>2, <1>3, LimitsAreNats

\* No user gets twice Limit texts compared within a window's length, at any time.
THEOREM ComparisonsBounded == Spec => []ComparisonsAreBounded
<1>1. Init => WindowsHold
  <2> SUFFICES ASSUME Init, NEW u \in Users PROVE Windowed(attempts[u], tried[u])
    BY DEF WindowsHold
  <2>1. attempts[u] = NoAttempts /\ tried[u] = <<>>
    BY DEF Init
  <2>2. QED
    BY <2>1, NoneWindowed
<1>2. IInv /\ WindowsHold => ComparisonsAreBounded
  <2> SUFFICES ASSUME IInv, WindowsHold, NEW u \in Users
               PROVE  Cardinality(Recent(u))
                        <= IF 2 * Limit - 2 > Limit THEN 2 * Limit - 2 ELSE Limit
    BY DEF ComparisonsAreBounded
  <2>1. /\ now \in Nat /\ attempts[u] \in Rows /\ tried[u] \in Seq(Nat)
        /\ attempts[u].start <= now /\ Windowed(attempts[u], tried[u])
    BY DEF IInv, TypeOK, Counted, RowOK, Rows, WindowsHold
  <2>2. Cardinality(Recent(u)) <= Limit + Carried
    BY <2>1, RecentIsBounded DEF Recent
  <2>3. Limit + Carried = IF 2 * Limit - 2 > Limit THEN 2 * Limit - 2 ELSE Limit
    BY LimitsAreNats DEF Carried
  <2>4. QED
    BY <2>2, <2>3
<1>3. QED
  BY <1>1, <1>2, WindowsStep, Inductive, PTL DEF Spec
=============================================================================
