----------------------------- MODULE Settlement -----------------------------
(***************************************************************************)
(* What the update loop promises about the updates of the bot, whatever    *)
(* crashes, retries and lost polls it takes: every update is settled once, *)
(* in the order of the ids, as handled or as recorded failure ("dead"),    *)
(* and a settled update never changes again.                               *)
(***************************************************************************)
EXTENDS Naturals

CONSTANT Updates    \* ids of the updates: 1 .. n for some n

VARIABLES arrived,  \* updates Telegram has received for the bot: 1 .. arrived
          cursor,   \* the update the agent works on next
          fate      \* fate[u]: what became of update u

vars == <<arrived, cursor, fate>>

Init ==
  /\ arrived = 0
  /\ cursor = 1
  /\ fate = [u \in Updates |-> "waiting"]

Arrive ==
  /\ arrived + 1 \in Updates
  /\ arrived' = arrived + 1
  /\ UNCHANGED <<cursor, fate>>

Settle ==
  /\ cursor <= arrived
  /\ \E f \in {"handled", "dead"} : fate' = [fate EXCEPT ![cursor] = f]
  /\ cursor' = cursor + 1
  /\ UNCHANGED arrived

Next == Arrive \/ Settle

Spec == Init /\ [][Next]_vars
=============================================================================
