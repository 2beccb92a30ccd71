------------------------------ MODULE Pairing ------------------------------
(***************************************************************************)
(* How a Telegram user becomes the owner, and how the owner changes.       *)
(*                                                                         *)
(* `g7tg pair` (and setup) writes a one-time code, `g7tg pair --replace` a *)
(* code that displaces the current owner, `g7tg unpair` removes owner and  *)
(* code.  These run in processes of their own, next to the agent, which    *)
(* gives every private message to consume_pairing_code before anything     *)
(* else: each text that is not the code counts as a failed attempt of its  *)
(* sender while a code is stored, and too many of them block the sender.   *)
(*                                                                         *)
(* A private chat belongs to one user, so that a user stands for the pair  *)
(* of user and chat ids.                                                   *)
(***************************************************************************)
EXTENDS Integers, FiniteSets, Sequences

CONSTANTS
  Users,     \* Telegram users
  NoOne,     \* no owner is stored
  Ttl,       \* ttl_seconds of a code
  Limit,     \* PAIRING_FAILURE_LIMIT
  Window,    \* PAIRING_FAILURE_WINDOW_SECONDS
  Block,     \* PAIRING_BLOCK_SECONDS
  RowLife    \* 86_400: older failure rows are deleted

\* Bounds of the model: the clock and the codes.
CONSTANTS MaxTime, MaxCodes

ASSUME ParameterAssumption ==
  /\ NoOne \notin Users
  /\ Ttl \in Nat /\ Limit \in Nat \ {0} /\ Window \in Nat \ {0} /\ Block \in Nat
  /\ Window <= Block /\ Window + Block <= RowLife /\ RowLife \in Nat
  /\ MaxTime \in Nat /\ MaxCodes \in Nat

Codes == 1 .. MaxCodes
NoCode == 0

VARIABLES
  now,        \* the clock
  (* SQLite *)
  owner,      \* metadata owner_user_id and owner_chat_id
  code,       \* table pairing: its one row, or NoRow
  attempts,   \* table pairing_attempts: attempts[u], or NoAttempts
  (* the agent *)
  pc,         \* what the message handler does next
  from, text, \* the message: its sender, and the code it holds or NoCode
  (* the g7tg command *)
  cli,        \* what `g7tg pair` does next
  replace,    \* whether it runs with --replace
  (* the outside *)
  issued,     \* codes ever written
  printed,    \* codes the console has shown
  (* history: read by the properties only *)
  uses,       \* uses[c]: how often code c made an owner
  retired,    \* codes replaced or removed before their use
  replacing,  \* codes written with --replace
  tried       \* tried[u]: times of the failed attempts since u was last forgiven

storeVars == <<owner, code, attempts>>
agentVars == <<pc, from, text>>
cliVars == <<cli, replace>>
outsideVars == <<issued, printed>>
historyVars == <<uses, retired, replacing, tried>>
vars == <<now, storeVars, agentVars, cliVars, outsideVars, historyVars>>

NoRow == [id |-> NoCode, expires |-> 0, replace |-> FALSE]
NoAttempts == [start |-> 0, count |-> 0, blocked |-> 0]

\* DELETE FROM pairing_attempts; everyone starts afresh.
Forgive == tried' = [u \in Users |-> <<>>]
ClearAttempts == attempts' = [u \in Users |-> NoAttempts] /\ Forgive

\* The stored code, if any, loses its chance.
Retire == retired' = IF code = NoRow THEN retired ELSE retired \cup {code.id}

-----------------------------------------------------------------------------
(* g7tg pair                                                               *)

\* Without --replace there must be no owner, with it there must be one.
StartPair ==
  /\ cli = "idle"
  /\ \E r \in BOOLEAN : r = (owner # NoOne) /\ replace' = r
  /\ cli' = "write"
  /\ UNCHANGED <<now, storeVars, agentVars, outsideVars, historyVars>>

\* create_pairing_code_with_mode: the new code takes the place of the old one.
WriteCode ==
  /\ cli = "write"
  /\ issued + 1 \in Codes
  /\ issued' = issued + 1
  /\ code' = [id |-> issued', expires |-> now + Ttl, replace |-> replace]
  /\ Retire
  /\ replacing' = IF replace THEN replacing \cup {issued'} ELSE replacing
  /\ cli' = "reset"
  /\ UNCHANGED <<now, owner, attempts, agentVars, replace, printed, uses, tried>>

\* Faulty variant: the failures of the previous code still count.
PrintWithoutReset ==
  /\ cli = "reset"
  /\ Forgive
  /\ printed' = printed \cup {issued}
  /\ cli' = "idle" /\ replace' = FALSE
  /\ UNCHANGED <<now, storeVars, agentVars, issued, uses, retired, replacing>>

\* A statement of its own clears all failures; the console shows the code.
ResetAndPrint ==
  /\ cli = "reset"
  /\ ClearAttempts
  /\ printed' = printed \cup {issued}
  /\ cli' = "idle" /\ replace' = FALSE
  /\ UNCHANGED <<now, owner, code, agentVars, issued, uses, retired, replacing>>

\* The command fails or is killed.
PairDies ==
  /\ cli # "idle"
  /\ cli' = "idle" /\ replace' = FALSE
  /\ UNCHANGED <<now, storeVars, agentVars, outsideVars, historyVars>>

\* clear_owner, whether or not there is an owner.
Unpair ==
  /\ owner' = NoOne /\ code' = NoRow
  /\ Retire
  /\ ClearAttempts
  /\ UNCHANGED <<now, agentVars, cliVars, outsideVars, uses, replacing>>

-----------------------------------------------------------------------------
(* A message: consume_pairing_code                                         *)

\* Any text that is no code on display is as good as any other.
Receive ==
  /\ pc = "idle"
  /\ from' \in Users
  /\ text' \in printed \cup {NoCode}
  /\ pc' = "pair"
  /\ UNCHANGED <<now, storeVars, cliVars, outsideVars, historyVars>>

Blocked(u) == attempts[u].blocked > now

\* Faulty variant: an ordinary code displaces the owner too.
ValidForAnyone == code.expires >= now /\ code.id = text

Valid == /\ code.expires >= now /\ code.id = text
         /\ owner # NoOne => code.replace

\* No code is stored, or the sender is blocked: the text is not looked at.
Ignored ==
  /\ pc = "pair"
  /\ code = NoRow \/ Blocked(from)
  /\ pc' = "reply"
  /\ UNCHANGED <<now, storeVars, from, text, cliVars, outsideVars, historyVars>>

\* Faulty variant: a block only follows the failure after the last allowed one.
RowAfterFailureLate(row) ==
  LET same == row.count > 0 /\ now - row.start < Window
      count == IF same THEN row.count + 1 ELSE 1
  IN  [start |-> IF same THEN row.start ELSE now,
       count |-> count,
       blocked |-> IF count > Limit THEN now + Block ELSE 0]

\* register_pairing_failure_on: a fixed window that starts with the first failure.
RowAfterFailure(row) ==
  LET same == row.count > 0 /\ now - row.start < Window
      count == IF same THEN row.count + 1 ELSE 1
  IN  [start |-> IF same THEN row.start ELSE now,
       count |-> count,
       blocked |-> IF count >= Limit THEN now + Block ELSE 0]

Outdated(row) == row.count > 0 /\ row.start < now - RowLife

Failed ==
  /\ pc = "pair"
  /\ code # NoRow /\ ~Blocked(from) /\ ~Valid
  /\ LET failed == [attempts EXCEPT ![from] = RowAfterFailure(@)]
     IN  attempts' = [u \in Users |-> IF Outdated(failed[u]) THEN NoAttempts ELSE failed[u]]
  /\ tried' = [tried EXCEPT ![from] = Append(@, now)]
  /\ pc' = "reply"
  /\ UNCHANGED <<now, owner, code, from, text, cliVars, outsideVars,
                 uses, retired, replacing>>

\* Faulty variant: the code stays.
PairedKeepsCode ==
  /\ pc = "pair"
  /\ code # NoRow /\ ~Blocked(from) /\ Valid
  /\ owner' = from
  /\ attempts' = [attempts EXCEPT ![from] = NoAttempts]
  /\ uses' = [uses EXCEPT ![code.id] = @ + 1]
  /\ tried' = [tried EXCEPT ![from] = <<>>]
  /\ pc' = "reply"
  /\ UNCHANGED <<now, code, from, text, cliVars, outsideVars, retired, replacing>>

\* The owner is set and the code consumed in one transaction.
Paired ==
  /\ pc = "pair"
  /\ code # NoRow /\ ~Blocked(from) /\ Valid
  /\ owner' = from
  /\ code' = NoRow
  /\ attempts' = [attempts EXCEPT ![from] = NoAttempts]
  /\ uses' = [uses EXCEPT ![code.id] = @ + 1]
  /\ tried' = [tried EXCEPT ![from] = <<>>]
  /\ pc' = "reply"
  /\ UNCHANGED <<now, from, text, cliVars, outsideVars, retired, replacing>>

\* The rest of handle_message leaves the pairing state alone.
Reply ==
  /\ pc = "reply"
  /\ pc' = "idle" /\ from' = NoOne /\ text' = NoCode
  /\ UNCHANGED <<now, storeVars, cliVars, outsideVars, historyVars>>

\* A retry or a redelivery gives the same text to consume_pairing_code again.
Again ==
  /\ pc = "reply"
  /\ pc' = "pair"
  /\ UNCHANGED <<now, storeVars, from, text, cliVars, outsideVars, historyVars>>

Tick ==
  /\ now < MaxTime
  /\ now' = now + 1
  /\ UNCHANGED <<storeVars, agentVars, cliVars, outsideVars, historyVars>>

-----------------------------------------------------------------------------
Init ==
  /\ now = 0
  /\ owner = NoOne /\ code = NoRow /\ attempts = [u \in Users |-> NoAttempts]
  /\ pc = "idle" /\ from = NoOne /\ text = NoCode
  /\ cli = "idle" /\ replace = FALSE
  /\ issued = 0 /\ printed = {}
  /\ uses = [c \in Codes |-> 0] /\ retired = {} /\ replacing = {}
  /\ tried = [u \in Users |-> <<>>]

Next ==
  \/ StartPair \/ WriteCode \/ ResetAndPrint \/ PairDies \/ Unpair
  \/ Receive \/ Ignored \/ Failed \/ Paired \/ Reply \/ Again
  \/ Tick

Spec == Init /\ [][Next]_vars

-----------------------------------------------------------------------------
(* Properties                                                              *)

\* Every variable keeps its type.
TypeOK ==
  /\ now \in Nat /\ owner \in Users \cup {NoOne}
  /\ code \in [id : Codes \cup {NoCode}, expires : Nat, replace : BOOLEAN]
  /\ attempts \in [Users -> [start : Nat, count : 0 .. Limit, blocked : Nat]]
  /\ pc \in {"idle", "pair", "reply"} /\ from \in Users \cup {NoOne}
  /\ text \in Codes \cup {NoCode}
  /\ cli \in {"idle", "write", "reset"} /\ replace \in BOOLEAN
  /\ issued \in 0 .. MaxCodes /\ printed \subseteq Codes
  /\ uses \in [Codes -> Nat] /\ retired \subseteq Codes /\ replacing \subseteq Codes
  /\ tried \in [Users -> Seq(Nat)]

\* docs/SECURITY.md: the code is for one use.  It makes one owner, however often its
\* message is repeated, and none once another code or an unpairing took its place.
CodeUsedOnce ==
  \A c \in Codes : uses[c] <= IF c \in retired THEN 0 ELSE 1

\* docs/SECURITY.md: the owner stays until a new one uses a code written with
\* --replace.  A code written without it, before or while somebody else was paired,
\* displaces nobody.
OwnerKeptUntilReplaced ==
  [][owner # NoOne /\ owner' \notin {owner, NoOne} =>
       \E c \in replacing : uses'[c] > uses[c]]_vars

\* Failed attempts of a user in the last Window seconds.
Recent(u) == {i \in DOMAIN tried[u] : tried[u][i] > now - Window}

\* A user gets less than twice Limit texts compared within any Window seconds: two
\* windows of register_pairing_failure_on may touch, and the first failure of the
\* first one is too old by then.
ComparisonsAreBounded ==
  \A u \in Users :
    Cardinality(Recent(u)) <= IF 2 * Limit - 2 > Limit THEN 2 * Limit - 2 ELSE Limit

\* Whoever is blocked while the code on display is stored has failed Limit times
\* since that code was written: a new code gives everyone a new chance.
NewCodeUnblocks ==
  code.id \in printed => \A u \in Users : Blocked(u) => Len(tried[u]) >= Limit
=============================================================================
