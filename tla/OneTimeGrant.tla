---------------------------- MODULE OneTimeGrant ----------------------------
(***************************************************************************)
(* What a confirmation over Telegram promises, whichever operation it is   *)
(* for: a grant (the token of a button, a phrase to be typed) is handed    *)
(* out once, may be accepted once while it is open, and only an accepted   *)
(* one takes effect, once.  An open grant may be withdrawn at any moment,  *)
(* for good.                                                               *)
(***************************************************************************)
EXTENDS Naturals

CONSTANT Grants

VARIABLES state,   \* state[g]: "new", "open", "accepted" or "void"
          effects  \* effects[g]: how often the operation ran for g

vars == <<state, effects>>

Init ==
  /\ state = [g \in Grants |-> "new"]
  /\ effects = [g \in Grants |-> 0]

\* Whatever else a step does, open grants may be withdrawn by it.
KeptOrWithdrawn(g) ==
  state'[g] = state[g] \/ (state[g] = "open" /\ state'[g] = "void")

OthersKept(g) == \A h \in Grants \ {g} : KeptOrWithdrawn(h)

HandOut(g) ==
  /\ state[g] = "new" /\ state'[g] = "open"
  /\ OthersKept(g)
  /\ UNCHANGED effects

Accept(g) ==
  /\ state[g] = "open" /\ state'[g] = "accepted"
  /\ OthersKept(g)
  /\ UNCHANGED effects

Withdraw ==
  /\ \A g \in Grants : KeptOrWithdrawn(g)
  /\ UNCHANGED effects

TakeEffect(g) ==
  /\ state[g] = "accepted" /\ effects[g] = 0
  /\ effects' = [effects EXCEPT ![g] = 1]
  /\ UNCHANGED state

Next == Withdraw \/ \E g \in Grants : HandOut(g) \/ Accept(g) \/ TakeEffect(g)

Spec == Init /\ [][Next]_vars
=============================================================================
