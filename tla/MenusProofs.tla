------------------------------ MODULE MenusProofs ------------------------------
(***************************************************************************)
(* What Menus promises, for every set of names and messages, every page    *)
(* size, every number of attempts and every bound: no screen offers what   *)
(* the agent will not do, and an answered change is stored and shown.      *)
(*                                                                         *)
(* The argument: a screen is honest when each of its buttons would be      *)
(* served now.  A handler renders an honest screen from what it has just   *)
(* read or stored; between that and the edit the world may change, and     *)
(* then the message is not fresh.  What makes a screen dishonest without   *)
(* the world's help is an approval the agent itself uses up: the messages  *)
(* that show it stop being fresh in that very step, and the view of that   *)
(* press is not one of them.  For the answer, the screen to be shown is    *)
(* carried from the dispatch to the edit and from there to the answer,     *)
(* past every change of the world that does not start the handler again.   *)
(***************************************************************************)
EXTENDS Menus, FiniteSetTheorems, TLAPS

-----------------------------------------------------------------------------
(* The inductive invariant                                                 *)

\* The screens.
ScreenTags == {"none", "main", "system", "web", "info", "services", "alerts", "settings",
               "power", "reboot", "detail", "confirmation", "result", "cancelled"}

\* The menus a button can ask for.
MenuTags == {"main", "system", "services", "web", "alerts", "settings", "info", "power"}

\* The calls that may be left of a handler.
Todos == {<<>>, <<"dispatch">>, <<"edit", "answer">>, <<"answer">>,
          <<"answer", "restart", "edit">>, <<"restart", "edit">>, <<"edit">>}

\* The data of a button.
IsData(d) ==
  /\ d[1] \in {"menu", "page", "service", "plan", "confirm", "cancel",
               "silence", "digest", "power"}
  /\ d[1] = "menu" => d[2] \in MenuTags

\* Every variable keeps its type, and a press is handled exactly while calls are left.
TypeOK ==
  /\ messages = [m \in Messages |-> messages[m]]
  /\ \A m \in Messages : messages[m][1] \in ScreenTags
  /\ fresh \subseteq Messages
  /\ store = [silent |-> store.silent, digest |-> store.digest, approvals |-> store.approvals]
  /\ world = [names |-> world.names, allowed |-> world.allowed, actions |-> world.actions,
              flag |-> world.flag, helper |-> world.helper]
  /\ world.names \subseteq Names
  /\ {world.actions, world.flag, world.helper} \subseteq BOOLEAN
  /\ todo \in Todos
  /\ press = [on |-> press.on, data |-> press.data,
              attempt |-> press.attempt, current |-> press.current]
  /\ press.current \in BOOLEAN
  /\ view[1] \in ScreenTags
  /\ press # NoPress => press.on \in Messages /\ IsData(press.data)
  /\ todo = <<>> => press = NoPress
  /\ press = NoPress => todo = <<>> /\ reply = "none"

\* What the screen offers, the agent does.
Honest(s) ==
  /\ s[1] = "services" => (\A u \in s[2] : Matches(u) # {}) /\ s[4] \in 0 .. 1000
  /\ s[1] = "settings" => s[3] = world.flag
  /\ s[1] = "power" => s = <<"power">>
  /\ s[1] = "reboot" => world.flag
  /\ s[1] = "detail" =>
       OneMatch(s[2]) /\ (s[3] => world.actions /\ s[2] \in world.allowed)
  /\ s[1] = "confirmation" => s[3] \in DOMAIN store.approvals
  /\ s[1] = "result" => Matches(s[2]) # {}

\* A message nothing has changed behind offers what the agent does.
FreshIsHonest == \A m \in fresh : Honest(messages[m])

\* The rendered view is about to be shown.
Edits == {<<"edit", "answer">>, <<"edit">>}
\* The approved unit has yet to be restarted.
Restarts == {<<"answer", "restart", "edit">>, <<"restart", "edit">>}

\* So will the rendered view, unless something changed since the dispatch.
ViewIsHonest ==
  /\ press.current /\ todo \in Edits => Honest(view)
  /\ todo \in Restarts => view[1] = "result"

\* The screen that shows what was asked.
Asked(d) ==
  IF d[1] = "silence" THEN <<"alerts", d[2] # "clear">> ELSE <<"settings", d[2], world.flag>>

\* A press that will be answered with "applied" was stored, and is or will be shown.
Applied ==
  reply = "applied" =>
    /\ press.data[1] \in {"silence", "digest"}
    /\ press.data[1] = "silence" => store.silent = (press.data[2] # "clear")
    /\ press.data[1] = "digest" => store.digest = press.data[2]
    /\ todo \in {<<"edit", "answer">>, <<"answer">>}
    /\ todo = <<"edit", "answer">> => view = Asked(press.data)
    /\ todo = <<"answer">> => messages[press.on] = Asked(press.data)

\* The inductive invariant.
IInv == TypeOK /\ FreshIsHonest /\ ViewIsHonest /\ Applied

-----------------------------------------------------------------------------
(* What is rendered                                                        *)

\* The buttons of a screen carry data the handler knows.
LEMMA ButtonIsData ==
  ASSUME NEW s, s[1] \in ScreenTags, NEW d \in Buttons(s)
  PROVE  IsData(d)
<1> USE DEF Buttons, IsData, Menu, MenuTags
<1>1. CASE s[1] = "services"
  BY <1>1 DEF ServicesButtons
<1>2. CASE s[1] = "alerts"
  BY <1>2 DEF AlertsButtons
<1>3. CASE s[1] = "settings"
  BY <1>3 DEF SettingsButtons
<1>4. CASE s[1] = "detail"
  BY <1>4 DEF DetailButtons
<1>5. CASE s[1] \in {"none", "main"}
  BY <1>5
<1>6. CASE s[1] \in {"system", "web", "info"}
  BY <1>6
<1>7. CASE s[1] \in {"power", "reboot"}
  BY <1>7
<1>8. CASE s[1] = "confirmation"
  BY <1>8
<1>9. CASE s[1] = "result"
  BY <1>9
<1>10. CASE s[1] = "cancelled"
  BY <1>10
<1> HIDE DEF Buttons, IsData, Menu, MenuTags
<1>11. QED
  BY <1>1, <1>2, <1>3, <1>4, <1>5, <1>6, <1>7, <1>8, <1>9, <1>10 DEF ScreenTags

\* A page lists units that are found, and leads to pages the handler takes.
LEMMA PageIsHonest ==
  ASSUME TypeOK, NEW p
  PROVE  ServicesPage(world.names, p)[1] = "services" /\ Honest(ServicesPage(world.names, p))
<1>1. PageCount(world.names) \in 0 .. 1000
  <2>1. IsFiniteSet(world.names) /\ Cardinality(world.names) \in Nat
    BY BoundAssumption, FS_Subset, FS_CardinalityType DEF TypeOK
  <2>2. PageCount(world.names) \in Nat
    BY <2>1, BoundAssumption DEF PageCount
  <2>3. world.names \in SUBSET Names
    BY DEF TypeOK
  <2>4. PageCount(world.names) <= 1000
    BY <2>3, PageAssumption
  <2>5. QED
    BY <2>2, <2>4
<1>2. ASSUME NEW page, NEW u \in {UnitOf[n] : n \in OnPage(world.names, page)}
      PROVE  Matches(u) # {}
  BY <1>2 DEF OnPage, Matches
<1>3. PICK page : ServicesPage(world.names, p)
                    = <<"services", {UnitOf[n] : n \in OnPage(world.names, page)}, page,
                        PageCount(world.names)>>
  BY DEF ServicesPage
<1> DEFINE s == ServicesPage(world.names, p)
<1>4. /\ s[1] = "services" /\ s[4] = PageCount(world.names)
      /\ s[2] = {UnitOf[n] : n \in OnPage(world.names, page)}
  BY <1>3
<1> HIDE DEF s
<1>5. s[1] = "services" /\ (\A u \in s[2] : Matches(u) # {}) /\ s[4] \in 0 .. 1000
  BY <1>1, <1>2, <1>4
<1>6. s[1] = "services" /\ Honest(s)
  BY <1>5 DEF Honest
<1>7. QED
  BY <1>6 DEF s

\* A menu shows what is stored and set.
LEMMA MenuIsHonest ==
  ASSUME TypeOK, NEW m \in MenuTags, NEW s, s = MenuScreen(m)
  PROVE  s[1] \in ScreenTags /\ Honest(s)
<1>1. CASE m = "services"
  BY <1>1, PageIsHonest DEF MenuScreen, ScreenTags
<1>2. CASE m = "alerts"
  <2>1. s = <<"alerts", store.silent>>
    BY <1>2 DEF MenuScreen
  <2>2. QED
    BY <2>1 DEF ScreenTags, Honest
<1>3. CASE m = "settings"
  <2>1. s = <<"settings", store.digest, world.flag>>
    BY <1>3 DEF MenuScreen
  <2>2. QED
    BY <2>1 DEF ScreenTags, Honest
<1>4. CASE m \notin {"services", "alerts", "settings"}
  <2>1. s = <<m>>
    BY <1>4 DEF MenuScreen
  <2>2. QED
    BY <1>4, <2>1 DEF MenuTags, ScreenTags, Honest
<1>5. QED
  BY <1>1, <1>2, <1>3, <1>4

\* What every handler leaves: an honest screen to show and an answer, only an answer, or a
\* restart; and the fresh messages are honest still.
Handled(d) ==
  /\ store' = [silent |-> store'.silent, digest |-> store'.digest,
               approvals |-> store'.approvals]
  /\ fresh' \subseteq fresh
  /\ \A m \in fresh' : Honest(messages[m])'
  /\ view'[1] \in ScreenTags
  /\ \/ todo' = <<"edit", "answer">> /\ Honest(view)'
     \/ todo' = <<"answer">> /\ reply' = "refused"
     \/ todo' = <<"answer", "restart", "edit">> /\ view'[1] = "result" /\ reply' = "running"
  /\ reply' = "applied" =>
       /\ d[1] \in {"silence", "digest"}
       /\ d[1] = "silence" => store'.silent = (d[2] # "clear")
       /\ d[1] = "digest" => store'.digest = d[2]
       /\ todo' = <<"edit", "answer">> /\ view' = Asked(d)

\* A screen stays honest while the world and the approvals stay.
LEMMA SameHonest ==
  ASSUME world' = world, store'.approvals = store.approvals,
         NEW m, messages'[m] = view, Honest(view)
  PROVE  Honest(messages[m])'
<1> DEFINE s == view
<1>1. messages[m]' = s /\ Honest(s)
  OBVIOUS
<1> HIDE DEF s
<1>2. QED
  BY <1>1 DEF Honest, Matches, OneMatch

\* So does a view.
LEMMA ViewStaysHonest ==
  ASSUME world' = world, store'.approvals = store.approvals, NEW s, view' = s, Honest(s)
  PROVE  Honest(view)'
  BY DEF Honest, Matches, OneMatch

\* A message stays honest while it, the store and the world stay.
LEMMA SameScreen ==
  ASSUME world' = world, store' = store,
         NEW m, messages'[m] = messages[m], Honest(messages[m])
  PROVE  Honest(messages[m])'
<1> DEFINE s == messages[m]
<1>1. messages[m]' = s /\ Honest(s)
  OBVIOUS
<1> HIDE DEF s
<1>2. QED
  BY <1>1 DEF Honest, Matches, OneMatch

\* And while only the approvals stay in the store.
LEMMA StillHonest ==
  ASSUME UNCHANGED <<messages, world>>, store'.approvals = store.approvals,
         NEW m, Honest(messages[m])
  PROVE  Honest(messages[m])'
<1> DEFINE s == messages[m]
<1>1. messages[m]' = s
  OBVIOUS
<1>2. Honest(s)
  OBVIOUS
<1> HIDE DEF s
<1>3. QED
  BY <1>1, <1>2 DEF Honest, Matches, OneMatch

\* Handlers that leave the store alone.
LEMMA OnlyShown ==
  ASSUME IInv, NEW d, UNCHANGED <<messages, world, store, fresh>>,
         \/ Refuse
         \/ \E s : \E text \in {"done", "phrase", "refused"} :
              Show(s, text) /\ s[1] \in ScreenTags /\ Honest(s)
  PROVE  Handled(d)
<1>1. /\ \A m \in fresh' : Honest(messages[m])'
      /\ store' = [silent |-> store'.silent, digest |-> store'.digest,
                   approvals |-> store'.approvals]
  <2>1. \A m \in fresh : Honest(messages[m])
    BY DEF IInv, FreshIsHonest
  <2>2. \A m \in fresh : Honest(messages[m])'
    BY <2>1, StillHonest
  <2>3. QED
    BY <2>2 DEF IInv, TypeOK
<1>2. CASE Refuse
  BY <1>1, <1>2 DEF Refuse, Handled, IInv, TypeOK
<1>3. ASSUME NEW s, NEW text \in {"done", "phrase", "refused"},
             Show(s, text), s[1] \in ScreenTags, Honest(s)
      PROVE  Handled(d)
  <2>1. view' = s /\ reply' = text /\ todo' = <<"edit", "answer">>
    BY <1>3 DEF Show
  <2>2. Honest(view)'
    <3>1. world' = world /\ store'.approvals = store.approvals
      OBVIOUS
    <3>2. QED
      BY <1>3, <2>1, <3>1, ViewStaysHonest
  <2>3. reply' # "applied" /\ view'[1] \in ScreenTags
    BY <1>3, <2>1
  <2>4. QED
    BY <1>1, <2>1, <2>2, <2>3 DEF Handled
<1>4. QED
  BY <1>2, <1>3

\* Menus, pages, units and the power menu only look.
LEMMA HandleLooks ==
  ASSUME IInv, NEW d, IsData(d), UNCHANGED <<messages, world>>,
         \/ d[1] = "menu" /\ HandleMenu(d[2])
         \/ d[1] = "page" /\ HandlePage(d[2])
         \/ d[1] = "service" /\ HandleService(d[2])
         \/ d[1] = "power" /\ HandlePower(d[2])
  PROVE  Handled(d)
<1> SUFFICES \/ Refuse
             \/ \E s : \E text \in {"done", "phrase", "refused"} :
                  Show(s, text) /\ s[1] \in ScreenTags /\ Honest(s)
  BY OnlyShown DEF HandleMenu, HandlePage, HandleService, HandlePower
<1>1. CASE d[1] = "menu" /\ HandleMenu(d[2])
  <2>1. Refuse \/ Show(MenuScreen(d[2]), "done")
    BY <1>1 DEF HandleMenu
  <2>2. d[2] \in MenuTags
    BY <1>1 DEF IsData
  <2>3. QED
    BY <2>1, <2>2, MenuIsHonest DEF IInv
<1>2. CASE d[1] = "page" /\ HandlePage(d[2])
  <2>1. Refuse \/ Show(ServicesPage(world.names, d[2]), "done")
    BY <1>2 DEF HandlePage
  <2>2. "services" \in ScreenTags
    BY DEF ScreenTags
  <2>3. QED
    BY <2>1, <2>2, PageIsHonest DEF IInv
<1>3. CASE d[1] = "service" /\ HandleService(d[2])
  <2> DEFINE s == <<"detail", d[2], world.actions /\ d[2] \in world.allowed>>
  <2>1. Refuse \/ (OneMatch(d[2]) /\ Show(s, "done"))
    BY <1>3 DEF HandleService
  <2>2. OneMatch(d[2]) => s[1] \in ScreenTags /\ Honest(s)
    BY DEF ScreenTags, Honest
  <2> HIDE DEF s
  <2>3. QED
    BY <2>1, <2>2
<1>4. CASE d[1] = "power" /\ HandlePower(d[2])
  <2>1. \/ Refuse
        \/ Show(<<"power">>, "done")
        \/ world.flag /\ Show(<<"reboot">>, "phrase")
    BY <1>4 DEF HandlePower, PowerAllowed
  <2>2. /\ <<"power">>[1] \in ScreenTags /\ Honest(<<"power">>)
        /\ <<"reboot">>[1] \in ScreenTags /\ (world.flag => Honest(<<"reboot">>))
    BY DEF ScreenTags, Honest
  <2>3. QED
    BY <2>1, <2>2
<1>5. QED
  BY <1>1, <1>2, <1>3, <1>4

\* A silence or a digest is stored, and shown as it was stored.
LEMMA HandleSettings ==
  ASSUME IInv, NEW d, UNCHANGED <<messages, world>>,
         \/ d[1] = "silence" /\ HandleSilence(d[2])
         \/ d[1] = "digest" /\ HandleDigest(d[2])
  PROVE  Handled(d)
<1>1. /\ store'.approvals = store.approvals /\ fresh' = fresh
      /\ store' = [silent |-> store'.silent, digest |-> store'.digest,
                   approvals |-> store'.approvals]
  BY DEF HandleSilence, HandleDigest, IInv, TypeOK
<1>2. \A m \in fresh' : Honest(messages[m])'
  <2>1. \A m \in fresh' : Honest(messages[m])
    BY <1>1 DEF IInv, FreshIsHonest
  <2>2. QED
    BY <1>1, <2>1, StillHonest
<1>3. CASE d[1] = "silence" /\ HandleSilence(d[2])
  <2>1. store'.silent = (d[2] # "clear")
    BY <1>3 DEF HandleSilence, IInv, TypeOK
  <2>2. view' = <<"alerts", d[2] # "clear">> /\ todo' = <<"edit", "answer">>
    BY <1>3, <2>1 DEF HandleSilence, Show
  <2>3. view'[1] \in ScreenTags /\ Honest(view)' /\ view' = Asked(d)
    BY <1>3, <2>2 DEF ScreenTags, Honest, Asked
  <2>4. QED
    BY <1>1, <1>2, <1>3, <2>1, <2>2, <2>3 DEF Handled
<1>4. CASE d[1] = "digest" /\ HandleDigest(d[2])
  <2>1. store'.digest = d[2]
    BY <1>4 DEF HandleDigest, IInv, TypeOK
  <2>2. view' = <<"settings", d[2], world.flag>> /\ todo' = <<"edit", "answer">>
    BY <1>4 DEF HandleDigest, Show
  <2>3. view'[1] \in ScreenTags /\ Honest(view)' /\ view' = Asked(d)
    BY <1>4, <2>2 DEF ScreenTags, Honest, Asked
  <2>4. QED
    BY <1>1, <1>2, <1>4, <2>1, <2>2, <2>3 DEF Handled
<1>5. QED
  BY <1>3, <1>4

\* A message that shows no approval that is gone stays honest.
LEMMA HonestBesides ==
  ASSUME UNCHANGED <<messages, world>>, NEW m, Honest(messages[m]),
         messages[m][1] = "confirmation" => messages[m][3] \in DOMAIN store'.approvals
  PROVE  Honest(messages[m])'
<1> DEFINE s == messages[m]
<1>1. messages[m]' = s /\ Honest(s)
  OBVIOUS
<1>2. s[1] = "confirmation" => s[3] \in DOMAIN store'.approvals
  OBVIOUS
<1> HIDE DEF s
<1>3. QED
  BY <1>1, <1>2 DEF Honest, Matches, OneMatch

\* A plan is shown with the approval it stores.
LEMMA HandlePlanned ==
  ASSUME IInv, NEW d, UNCHANGED <<messages, world>>, d[1] = "plan", HandlePlan(d[2])
  PROVE  Handled(d)
<1>1. CASE Refuse /\ UNCHANGED <<store, fresh>>
  BY <1>1, OnlyShown
<1>2. CASE world.actions /\ OneMatch(d[2]) /\ d[2] \in world.allowed
  <2>1. PICK t :
          /\ store' = [store EXCEPT !.approvals = [x \in DOMAIN @ \cup {t} |->
                                                    IF x = t THEN d[2] ELSE @[x]]]
          /\ Show(<<"confirmation", d[2], t>>, "reapprove")
          /\ UNCHANGED fresh
    BY <1>2 DEF HandlePlan
  <2>2. store = [silent |-> store.silent, digest |-> store.digest,
                 approvals |-> store.approvals]
    BY DEF IInv, TypeOK
  <2>3. /\ store' = [silent |-> store'.silent, digest |-> store'.digest,
                     approvals |-> store'.approvals]
        /\ DOMAIN store'.approvals = DOMAIN store.approvals \cup {t}
    BY <2>1, <2>2
  <2>4. ASSUME NEW m \in fresh
        PROVE  Honest(messages[m])'
    <3>1. Honest(messages[m])
      BY DEF IInv, FreshIsHonest
    <3>2. messages[m][1] = "confirmation" => messages[m][3] \in DOMAIN store.approvals
      BY <3>1 DEF Honest
    <3>3. QED
      BY <3>1, <3>2, <2>3, HonestBesides
  <2>5. view' = <<"confirmation", d[2], t>> /\ todo' = <<"edit", "answer">> /\ reply' = "reapprove"
    BY <2>1 DEF Show
  <2>6. view'[1] \in ScreenTags /\ Honest(view)'
    BY <2>3, <2>5 DEF ScreenTags, Honest
  <2>7. QED
    BY <2>1, <2>3, <2>4, <2>5, <2>6 DEF Handled
<1>3. QED
  BY <1>1, <1>2 DEF HandlePlan

\* An approval is used up or withdrawn: no fresh message shows it.
LEMMA ApprovalGone ==
  ASSUME IInv, UNCHANGED <<messages, world>>, NEW t,
         store' = [store EXCEPT !.approvals = WithoutToken(t)],
         fresh' = {m \in fresh : ~ShowsToken(m, t)}
  PROVE  /\ store' = [silent |-> store'.silent, digest |-> store'.digest,
                      approvals |-> store'.approvals]
         /\ \A m \in fresh' : Honest(messages[m])'
<1>1. store = [silent |-> store.silent, digest |-> store.digest,
               approvals |-> store.approvals]
  BY DEF IInv, TypeOK
<1>2. /\ store' = [silent |-> store'.silent, digest |-> store'.digest,
                   approvals |-> store'.approvals]
      /\ store'.approvals = WithoutToken(t)
  BY <1>1
<1>3. DOMAIN WithoutToken(t) = DOMAIN store.approvals \ {t}
  BY DEF WithoutToken, Restrict
<1>4. ASSUME NEW m \in fresh'
      PROVE  Honest(messages[m])'
  <2>1. m \in fresh /\ ~ShowsToken(m, t)
    BY <1>4
  <2>2. Honest(messages[m])
    BY <2>1 DEF IInv, FreshIsHonest
  <2>3. messages[m][1] = "confirmation" => messages[m][3] \in DOMAIN store'.approvals
    BY <2>1, <2>2, <1>2, <1>3 DEF ShowsToken, Honest
  <2>4. QED
    BY <2>2, <2>3, HonestBesides
<1>5. QED
  BY <1>2, <1>4

\* An approval is used up or withdrawn, or was gone.
LEMMA HandleApproved ==
  ASSUME IInv, NEW d, UNCHANGED <<messages, world>>,
         \/ d[1] = "confirm" /\ HandleConfirm(d[2])
         \/ d[1] = "cancel" /\ HandleCancel(d[2])
  PROVE  Handled(d)
<1>1. CASE Show(<<"cancelled", "expired">>, "refused") /\ UNCHANGED <<store, fresh>>
  <2> DEFINE s == <<"cancelled", "expired">>
  <2>1. s[1] \in ScreenTags /\ Honest(s)
    BY DEF ScreenTags, Honest
  <2> HIDE DEF s
  <2>2. Show(s, "refused")
    BY <1>1 DEF s
  <2>3. QED
    BY <1>1, <2>1, <2>2, OnlyShown
<1>2. CASE /\ store' = [store EXCEPT !.approvals = WithoutToken(d[2])]
           /\ fresh' = {m \in fresh : ~ShowsToken(m, d[2])}
           /\ \/ /\ view' = <<"result", store.approvals[d[2]], TRUE>>
                 /\ reply' = "running" /\ todo' = <<"answer", "restart", "edit">>
              \/ Show(<<"cancelled", "cancelled">>, "done")
  <2>1. /\ store' = [silent |-> store'.silent, digest |-> store'.digest,
                     approvals |-> store'.approvals]
        /\ \A m \in fresh' : Honest(messages[m])'
        /\ fresh' \subseteq fresh
    BY <1>2, ApprovalGone
  <2>2. CASE /\ view' = <<"result", store.approvals[d[2]], TRUE>>
             /\ reply' = "running" /\ todo' = <<"answer", "restart", "edit">>
    <3>1. view'[1] = "result" /\ view'[1] \in ScreenTags
      BY <2>2 DEF ScreenTags
    <3>2. QED
      BY <2>1, <2>2, <3>1 DEF Handled
  <2>3. CASE Show(<<"cancelled", "cancelled">>, "done")
    <3>1. view' = <<"cancelled", "cancelled">> /\ todo' = <<"edit", "answer">> /\ reply' = "done"
      BY <2>3 DEF Show
    <3>2. view'[1] \in ScreenTags /\ Honest(view)'
      BY <3>1 DEF ScreenTags, Honest
    <3>3. QED
      BY <2>1, <3>1, <3>2 DEF Handled
  <2>4. QED
    BY <1>2, <2>2, <2>3
<1>3. QED
  BY <1>1, <1>2 DEF HandleConfirm, HandleCancel

\* Every handler leaves what Handled says.
LEMMA HandleAny ==
  ASSUME IInv, NEW d, IsData(d), UNCHANGED <<messages, world>>, Handle(d[1], d[2])
  PROVE  Handled(d)
<1>1. \/ d[1] = "menu" /\ HandleMenu(d[2])
      \/ d[1] = "page" /\ HandlePage(d[2])
      \/ d[1] = "service" /\ HandleService(d[2])
      \/ d[1] = "power" /\ HandlePower(d[2])
      \/ d[1] = "silence" /\ HandleSilence(d[2])
      \/ d[1] = "digest" /\ HandleDigest(d[2])
      \/ d[1] = "plan" /\ HandlePlan(d[2])
      \/ d[1] = "confirm" /\ HandleConfirm(d[2])
      \/ d[1] = "cancel" /\ HandleCancel(d[2])
  BY DEF IsData, Handle
<1>2. QED
  BY <1>1, HandleLooks, HandleSettings, HandlePlanned, HandleApproved

\* The next call of a handler, and what is left after it.
LEMMA TodoPart ==
  ASSUME TypeOK
  PROVE  /\ Next_("dispatch") => todo = <<"dispatch">> /\ Len(todo) = 1
         /\ Next_("edit") => \/ todo = <<"edit", "answer">> /\ Len(todo) = 2
                             \/ todo = <<"edit">> /\ Len(todo) = 1
         /\ Next_("answer") => \/ todo = <<"answer">> /\ Len(todo) = 1
                               \/ todo = <<"answer", "restart", "edit">> /\ Len(todo) = 3
         /\ Next_("restart") => todo = <<"restart", "edit">> /\ Len(todo) = 2
         /\ Tail(<<"edit", "answer">>) = <<"answer">>
         /\ Tail(<<"answer", "restart", "edit">>) = <<"restart", "edit">>
         /\ Tail(<<"restart", "edit">>) = <<"edit">>
<1>1. todo \in Todos
  BY DEF TypeOK
<1>2. /\ Head(<<"dispatch">>) = "dispatch" /\ Head(<<"edit", "answer">>) = "edit"
      /\ Head(<<"answer">>) = "answer" /\ Head(<<"edit">>) = "edit"
      /\ Head(<<"restart", "edit">>) = "restart"
      /\ Head(<<"answer", "restart", "edit">>) = "answer"
  OBVIOUS
<1>3. /\ Len(<<"dispatch">>) = 1 /\ Len(<<"edit", "answer">>) = 2 /\ Len(<<"answer">>) = 1
      /\ Len(<<"edit">>) = 1 /\ Len(<<"restart", "edit">>) = 2
      /\ Len(<<"answer", "restart", "edit">>) = 3
  OBVIOUS
<1>4. /\ Tail(<<"edit", "answer">>) = <<"answer">>
      /\ Tail(<<"answer", "restart", "edit">>) = <<"restart", "edit">>
      /\ Tail(<<"restart", "edit">>) = <<"edit">>
  OBVIOUS
<1>5. /\ Next_("dispatch") => todo = <<"dispatch">>
      /\ Next_("edit") => todo = <<"edit", "answer">> \/ todo = <<"edit">>
      /\ Next_("answer") => todo = <<"answer">> \/ todo = <<"answer", "restart", "edit">>
      /\ Next_("restart") => todo = <<"restart", "edit">>
  BY <1>1, <1>2 DEF Next_, Todos
<1>6. QED
  BY <1>3, <1>4, <1>5

\* The calls that may be left are told apart.
LEMMA TodosApart ==
  /\ <<>> \notin (Todos \ {<<>>}) \cup Edits \cup Restarts
  /\ <<"dispatch">> \notin Edits \cup Restarts
  /\ <<"answer">> \notin Edits \cup Restarts
  /\ <<"edit", "answer">> \notin Restarts /\ <<"edit">> \notin Restarts
  /\ <<"answer", "restart", "edit">> \notin Edits /\ <<"restart", "edit">> \notin Edits
  /\ <<"dispatch">> # <<"answer">> /\ <<"edit">> # <<"answer">>
  /\ <<"edit">> # <<"edit", "answer">>
  /\ <<"restart", "edit">> # <<"answer">>
<1>1. /\ Head(<<"dispatch">>) = "dispatch" /\ Head(<<"edit", "answer">>) = "edit"
      /\ Head(<<"answer">>) = "answer" /\ Head(<<"edit">>) = "edit"
      /\ Head(<<"restart", "edit">>) = "restart"
      /\ Head(<<"answer", "restart", "edit">>) = "answer"
  OBVIOUS
<1>2. /\ Len(<<"dispatch">>) = 1 /\ Len(<<"edit", "answer">>) = 2 /\ Len(<<"answer">>) = 1
      /\ Len(<<"edit">>) = 1 /\ Len(<<"restart", "edit">>) = 2
      /\ Len(<<"answer", "restart", "edit">>) = 3 /\ Len(<<>>) = 0
  OBVIOUS
<1>3. \A t \in (Todos \ {<<>>}) \cup Edits \cup Restarts : t # <<>>
  BY DEF Todos, Edits, Restarts
<1>4. <<"answer">> # <<"answer", "restart", "edit">> /\ <<"edit">> # <<"edit", "answer">>
  BY <1>2
<1>5. QED
  BY <1>1, <1>3, <1>4 DEF Edits, Restarts

\* Dispatching a press.
LEMMA DispatchStep == IInv /\ Dispatch => IInv'
<1> SUFFICES ASSUME IInv, Dispatch PROVE IInv'
  OBVIOUS
<1> DEFINE d == press.data
<1>1. /\ todo = <<"dispatch">> /\ press # NoPress
      /\ press.on \in Messages /\ IsData(d)
  BY TodoPart, TodosApart DEF Dispatch, IInv, TypeOK
<1>2. Handled(d)
  BY <1>1, HandleAny DEF Dispatch
<1>3. press' = [on |-> press.on, data |-> press.data, attempt |-> press.attempt, current |-> TRUE]
  BY DEF Dispatch, IInv, TypeOK
<1>4. /\ press' # NoPress /\ press'.on = press.on /\ press'.data = d /\ press'.current = TRUE
      /\ press' = [on |-> press'.on, data |-> press'.data,
                   attempt |-> press'.attempt, current |-> press'.current]
  BY <1>3 DEF NoPress
<1>5. todo' \in Todos /\ todo' # <<>>
  BY <1>2, TodosApart DEF Handled, Todos
<1>6. TypeOK'
  <2>1. UNCHANGED <<messages, world>>
    BY DEF Dispatch
  <2>2. /\ fresh' \subseteq Messages /\ view'[1] \in ScreenTags
        /\ store' = [silent |-> store'.silent, digest |-> store'.digest,
                     approvals |-> store'.approvals]
    BY <1>2 DEF Handled, IInv, TypeOK
  <2> HIDE DEF d
  <2>3. QED
    BY <1>1, <1>4, <1>5, <2>1, <2>2 DEF IInv, TypeOK, d
<1>7. FreshIsHonest'
  BY <1>2 DEF Handled, FreshIsHonest
<1>8. ViewIsHonest'
  BY <1>2, TodosApart DEF Handled, ViewIsHonest, Restarts, Edits
<1>9. Applied'
  <2>1. Asked(d)' = Asked(d)
    BY <1>4 DEF Asked, Dispatch
  <2>2. <<"edit", "answer">> # <<"answer">>
    BY TodosApart DEF Edits
  <2> HIDE DEF d
  <2>3. QED
    BY <1>2, <1>4, <2>1, <2>2 DEF Handled, Applied, d
<1>10. QED
  BY <1>6, <1>7, <1>8, <1>9 DEF IInv

\* The handler of a press ends, or starts again.
Restarted ==
  \/ Settle
  \/ \E attempt : StartOver(attempt)

\* A handler that ends or starts again promises nothing.
LEMMA RestartedStep ==
  ASSUME IInv, press # NoPress, Restarted, TypeOK', FreshIsHonest'
  PROVE  IInv'
<1>1. reply' = "none" /\ (todo' = <<>> \/ todo' = <<"dispatch">>)
  BY DEF Restarted, Settle, StartOver
<1>2. ViewIsHonest' /\ Applied'
  BY <1>1, TodosApart DEF ViewIsHonest, Applied
<1>3. QED
  BY <1>2 DEF IInv

\* It keeps the press and its type.
LEMMA RestartedType ==
  ASSUME IInv, press # NoPress, Restarted
  PROVE  /\ todo' \in Todos
         /\ press' = [on |-> press'.on, data |-> press'.data,
                      attempt |-> press'.attempt, current |-> press'.current]
         /\ press'.current \in BOOLEAN
         /\ view'[1] \in ScreenTags
         /\ press' # NoPress => press'.on \in Messages /\ IsData(press'.data)
         /\ todo' = <<>> => press' = NoPress
         /\ press' = NoPress => todo' = <<>> /\ reply' = "none"
<1>1. CASE Settle
  BY <1>1 DEF Settle, NoPress, Todos, ScreenTags
<1>2. ASSUME NEW attempt, StartOver(attempt)
      PROVE  /\ press' = [on |-> press.on, data |-> press.data,
                          attempt |-> attempt, current |-> FALSE]
             /\ todo' = <<"dispatch">> /\ view' = <<"none">>
  BY <1>2 DEF StartOver, IInv, TypeOK
<1>3. press.on \in Messages /\ IsData(press.data) /\ press.data[1] # "none"
  BY DEF IInv, TypeOK, IsData
<1>4. ASSUME NEW attempt, StartOver(attempt)
      PROVE  press' # NoPress
  <2>1. press'.data = press.data /\ NoPress.data[1] = "none"
    BY <1>2, <1>4 DEF NoPress
  <2>2. QED
    BY <1>3, <2>1
<1>5. CASE \E attempt : StartOver(attempt)
  <2>1. PICK attempt : StartOver(attempt)
    BY <1>5
  <2>2. /\ press' = [on |-> press.on, data |-> press.data,
                     attempt |-> attempt, current |-> FALSE]
        /\ todo' = <<"dispatch">> /\ view' = <<"none">> /\ press' # NoPress
    BY <1>2, <1>4, <2>1
  <2>3. press'.on = press.on /\ press'.data = press.data /\ press'.current = FALSE
    BY <2>2
  <2>4. todo' \in Todos /\ todo' # <<>> /\ view'[1] \in ScreenTags
    BY <2>2, TodosApart DEF Todos, ScreenTags
  <2>5. press' = [on |-> press'.on, data |-> press'.data,
                 attempt |-> press'.attempt, current |-> press'.current]
    BY <2>2
  <2>6. QED
    BY <1>3, <2>2, <2>3, <2>4, <2>5
<1>6. QED
  BY <1>1, <1>5 DEF Restarted

\* A failed handler starts again or is given up.
LEMMA AgainRestarts ==
  ASSUME Again PROVE Restarted
BY DEF Again, Restarted

\* A new menu.
LEMMA NewMenuStep == IInv /\ (\E m \in Messages : NewMenu(m)) => IInv'
<1> SUFFICES ASSUME IInv, NEW m \in Messages, NewMenu(m) PROVE IInv'
  OBVIOUS
<1>1. /\ press = NoPress /\ todo = <<>> /\ reply = "none"
      /\ UNCHANGED <<store, world, todo, press, view, reply>>
      /\ fresh' = fresh \cup {m}
      /\ messages' = [messages EXCEPT ![m] = <<"main">>]
  BY DEF NewMenu, Idle, IInv, TypeOK
<1>2. /\ messages' = [x \in Messages |-> messages'[x]]
      /\ \A x \in Messages : messages'[x] = IF x = m THEN <<"main">> ELSE messages[x]
  BY <1>1 DEF IInv, TypeOK
<1>3. <<"main">>[1] = "main" /\ "main" \in ScreenTags
  BY DEF ScreenTags
<1>4. \A x \in Messages : messages'[x][1] \in ScreenTags
  BY <1>2, <1>3 DEF IInv, TypeOK
<1>5. TypeOK'
  BY <1>1, <1>2, <1>4 DEF IInv, TypeOK
<1>6. ASSUME NEW x \in fresh'
      PROVE  Honest(messages[x])'
  <2>1. CASE x = m
    BY <1>2, <1>3, <2>1 DEF Honest
  <2>2. CASE x # m
    <3>1. x \in fresh /\ messages'[x] = messages[x] /\ Honest(messages[x])
      BY <1>1, <1>2, <1>6, <2>2 DEF IInv, TypeOK, FreshIsHonest
    <3>2. QED
      BY <1>1, <3>1, SameScreen
  <2>3. QED
    BY <2>1, <2>2
<1>7. ViewIsHonest' /\ Applied'
  BY <1>1, TodosApart DEF ViewIsHonest, Applied
<1>8. QED
  BY <1>5, <1>6, <1>7 DEF IInv, FreshIsHonest

\* A press on any message, fresh or not.
LEMMA PressStep == IInv /\ (\E m \in Messages : Press(m)) => IInv'
<1> SUFFICES ASSUME IInv, NEW m \in Messages, Press(m) PROVE IInv'
  OBVIOUS
<1>1. PICK d \in Buttons(messages[m]) :
        press' = [on |-> m, data |-> d, attempt |-> 1, current |-> FALSE]
  BY DEF Press
<1>2. /\ press = NoPress /\ reply = "none" /\ todo' = <<"dispatch">>
      /\ UNCHANGED <<messages, fresh, store, world, view, reply>>
  BY DEF Press, Idle, IInv, TypeOK
<1>3. IsData(d) /\ d[1] # "none"
  <2>1. messages[m][1] \in ScreenTags
    BY DEF IInv, TypeOK
  <2>2. IsData(d)
    BY <2>1, ButtonIsData
  <2>3. QED
    BY <2>2 DEF IsData
<1>4. /\ press'.on = m /\ press'.data = d /\ press'.current = FALSE
      /\ press' = [on |-> press'.on, data |-> press'.data,
                   attempt |-> press'.attempt, current |-> press'.current]
  BY <1>1
<1>5. press' # NoPress
  <2>1. NoPress.data[1] = "none"
    BY DEF NoPress
  <2>2. QED
    BY <1>3, <1>4, <2>1
<1>6. todo' \in Todos /\ todo' # <<>>
  BY <1>2, TodosApart DEF Todos
<1>7. TypeOK'
  BY <1>2, <1>3, <1>4, <1>5, <1>6 DEF IInv, TypeOK
<1>8. FreshIsHonest'
  <2>1. \A x \in fresh' : Honest(messages[x]) /\ messages'[x] = messages[x]
    BY <1>2 DEF IInv, FreshIsHonest
  <2>2. QED
    BY <1>2, <2>1, SameScreen DEF FreshIsHonest
<1>9. ViewIsHonest' /\ Applied'
  BY <1>2, <1>4, TodosApart DEF ViewIsHonest, Applied
<1>10. QED
  BY <1>7, <1>8, <1>9 DEF IInv

\* A rendered view is shown.
LEMMA EditStep == IInv /\ Edit => IInv'
<1> SUFFICES ASSUME IInv, Edit PROVE IInv'
  OBVIOUS
<1>1. /\ press # NoPress /\ press.on \in Messages
      /\ \/ todo = <<"edit", "answer">> /\ Len(todo) = 2
         \/ todo = <<"edit">> /\ Len(todo) = 1
  BY TodoPart, TodosApart DEF Edit, IInv, TypeOK, Edits
<1>2. /\ messages' = [messages EXCEPT ![press.on] = view]
      /\ fresh' = IF press.current THEN fresh \cup {press.on} ELSE fresh \ {press.on}
      /\ UNCHANGED <<store, world>>
  BY DEF Edit
<1>3. /\ messages' = [x \in Messages |-> messages'[x]]
      /\ \A x \in Messages : messages'[x] = IF x = press.on THEN view ELSE messages[x]
  BY <1>1, <1>2 DEF IInv, TypeOK
<1>4. /\ \A x \in Messages : messages'[x][1] \in ScreenTags
      /\ fresh' \subseteq Messages
  BY <1>1, <1>2, <1>3 DEF IInv, TypeOK
<1>5. FreshIsHonest'
  <2> SUFFICES ASSUME NEW x \in fresh' PROVE Honest(messages[x])'
    BY DEF FreshIsHonest
  <2>1. CASE x = press.on
    <3>1. press.current /\ messages'[x] = view
      BY <1>1, <1>2, <1>3, <2>1 DEF IInv, TypeOK
    <3>2. todo \in Edits
      BY <1>1 DEF Edits
    <3>3. Honest(view)
      BY <3>1, <3>2 DEF IInv, ViewIsHonest
    <3>4. QED
      BY <1>2, <3>1, <3>3, SameHonest
  <2>2. CASE x # press.on
    <3>1. x \in fresh
      BY <1>2, <2>2
    <3>2. messages'[x] = messages[x] /\ Honest(messages[x])
      BY <1>3, <2>2, <3>1 DEF IInv, TypeOK, FreshIsHonest
    <3>3. QED
      BY <1>2, <3>2, SameScreen
  <2>3. QED
    BY <2>1, <2>2
<1>6. CASE todo = <<"edit">>
  <2>1. Settle
    BY <1>1, <1>6, TodosApart DEF Edit, Advance, Edits
  <2>2. Restarted
    BY <2>1 DEF Restarted
  <2>3. TypeOK'
    BY <1>1, <1>2, <1>3, <1>4, <2>2, RestartedType DEF IInv, TypeOK
  <2>4. QED
    BY <1>1, <1>5, <2>2, <2>3, RestartedStep
<1>7. CASE todo = <<"edit", "answer">>
  <2>1. Len(todo) = 2
    BY <1>1, <1>7, TodosApart
  <2>2. todo' = <<"answer">> /\ UNCHANGED <<press, view, reply>>
    BY <1>7, <2>1, TodoPart DEF Edit, Advance, IInv
  <2>3. todo' \in Todos /\ todo' # <<>>
    BY <2>2, TodosApart DEF Todos
  <2>4. TypeOK'
    BY <1>1, <1>2, <1>3, <1>4, <2>2, <2>3 DEF IInv, TypeOK
  <2>5. ViewIsHonest'
    BY <2>2, TodosApart DEF ViewIsHonest
  <2>6. Applied'
    <3> SUFFICES ASSUME reply' = "applied" PROVE Applied'
      BY DEF Applied
    <3>1. /\ press.data[1] \in {"silence", "digest"}
          /\ press.data[1] = "silence" => store.silent = (press.data[2] # "clear")
          /\ press.data[1] = "digest" => store.digest = press.data[2]
          /\ view = Asked(press.data)
      BY <1>7, <2>2 DEF IInv, Applied
    <3>2. messages'[press'.on] = Asked(press.data) /\ Asked(press.data)' = Asked(press.data)
      BY <1>1, <1>2, <1>3, <2>2, <3>1 DEF Asked
    <3>3. <<"edit", "answer">> # <<"answer">>
      BY TodosApart DEF Edits
    <3>4. QED
      BY <1>2, <2>2, <3>1, <3>2, <3>3 DEF Applied
  <2>7. QED
    BY <1>5, <2>4, <2>5, <2>6 DEF IInv
<1>8. QED
  BY <1>1, <1>6, <1>7

\* A press is answered.
LEMMA AnswerStep == IInv /\ Answer => IInv'
<1> SUFFICES ASSUME IInv, Answer PROVE IInv'
  OBVIOUS
<1>1. /\ press # NoPress /\ press.on \in Messages
      /\ \/ todo = <<"answer">> /\ Len(todo) = 1
         \/ todo = <<"answer", "restart", "edit">> /\ Len(todo) = 3
  BY TodoPart, TodosApart DEF Answer, IInv, TypeOK, Restarts
<1>2. UNCHANGED <<messages, fresh, store, world>>
  BY DEF Answer
<1>3. FreshIsHonest'
  <2>1. \A x \in fresh' : Honest(messages[x]) /\ messages'[x] = messages[x]
    BY <1>2 DEF IInv, FreshIsHonest
  <2>2. QED
    BY <1>2, <2>1, SameScreen DEF FreshIsHonest
<1>4. CASE Len(todo) = 1
  <2>1. Settle
    BY <1>4 DEF Answer, Advance
  <2>2. Restarted
    BY <2>1 DEF Restarted
  <2>3. TypeOK'
    BY <1>1, <1>2, <2>2, RestartedType DEF IInv, TypeOK
  <2>4. QED
    BY <1>1, <1>3, <2>2, <2>3, RestartedStep
<1>5. CASE Len(todo) # 1
  <2>1. todo = <<"answer", "restart", "edit">>
    BY <1>1, <1>5
  <2>2. todo' = <<"restart", "edit">> /\ UNCHANGED <<press, view, reply>>
    BY <1>5, <2>1, TodoPart DEF Answer, Advance, IInv
  <2>3. todo' \in Todos /\ todo' # <<>> /\ todo' \notin Edits
    BY <2>2, TodosApart DEF Todos
  <2>4. TypeOK'
    BY <1>1, <1>2, <2>2, <2>3 DEF IInv, TypeOK
  <2>5. view[1] = "result" /\ reply # "applied"
    BY <2>1, TodosApart DEF IInv, ViewIsHonest, Applied, Restarts
  <2>6. ViewIsHonest' /\ Applied'
    BY <2>2, <2>3, <2>5 DEF ViewIsHonest, Applied
  <2>7. QED
    BY <1>3, <2>4, <2>6 DEF IInv
<1>6. QED
  BY <1>4, <1>5

\* The approved unit is looked up and restarted.
LEMMA RestartUnitStep == IInv /\ RestartUnit => IInv'
<1> SUFFICES ASSUME IInv, RestartUnit PROVE IInv'
  OBVIOUS
<1>1. press # NoPress /\ press.on \in Messages /\ todo = <<"restart", "edit">>
  BY TodoPart, TodosApart DEF RestartUnit, IInv, TypeOK, Restarts
<1>2. UNCHANGED <<messages, fresh, store, world>>
  BY DEF RestartUnit
<1>3. FreshIsHonest'
  <2>1. \A x \in fresh' : Honest(messages[x]) /\ messages'[x] = messages[x]
    BY <1>2 DEF IInv, FreshIsHonest
  <2>2. QED
    BY <1>2, <2>1, SameScreen DEF FreshIsHonest
<1>4. CASE Matches(view[2]) # {}
  <2>1. PICK ok \in BOOLEAN : view' = [view EXCEPT ![3] = ok]
    BY <1>4 DEF RestartUnit
  <2>2. todo' = <<"edit">> /\ UNCHANGED <<press, reply>>
    BY <1>1, <1>4, TodoPart DEF RestartUnit, IInv
  <2>3. view[1] = "result" /\ reply # "applied"
    BY <1>1, TodosApart DEF IInv, ViewIsHonest, Applied, Restarts
  <2>4. view'[1] = "result" /\ view'[2] = view[2]
    BY <2>1, <2>3
  <2>5. todo' \in Todos /\ todo' # <<>> /\ todo' \notin Restarts /\ view'[1] \in ScreenTags
    BY <2>2, <2>4, TodosApart DEF Todos, ScreenTags
  <2>6. TypeOK'
    BY <1>1, <1>2, <2>2, <2>5 DEF IInv, TypeOK
  <2>7. Honest(view)'
    BY <1>2, <1>4, <2>4 DEF Honest, Matches
  <2>8. ViewIsHonest' /\ Applied'
    BY <2>2, <2>3, <2>5, <2>7 DEF ViewIsHonest, Applied
  <2>9. QED
    BY <1>3, <2>6, <2>8 DEF IInv
<1>5. CASE Matches(view[2]) = {}
  <2>1. Restarted
    BY <1>5, AgainRestarts DEF RestartUnit
  <2>2. TypeOK'
    BY <1>1, <1>2, <2>1, RestartedType DEF IInv, TypeOK
  <2>3. QED
    BY <1>1, <1>3, <2>1, <2>2, RestartedStep
<1>6. QED
  BY <1>4, <1>5

\* A call fails, at once or after it took effect.
LEMMA CallFailsStep == IInv /\ CallFails => IInv'
<1> SUFFICES ASSUME IInv, CallFails PROVE IInv'
  OBVIOUS
<1>1. /\ press # NoPress /\ press.on \in Messages
      /\ Restarted /\ UNCHANGED <<store, world>>
  BY AgainRestarts DEF CallFails, IInv, TypeOK
<1>2. /\ messages' = [x \in Messages |-> messages'[x]]
      /\ \A x \in Messages : messages'[x][1] \in ScreenTags
      /\ fresh' \subseteq Messages
      /\ \A x \in fresh' : x \in fresh /\ messages'[x] = messages[x]
  <2>1. CASE UNCHANGED <<messages, fresh>>
    BY <2>1 DEF IInv, TypeOK
  <2>2. CASE /\ messages' = [messages EXCEPT ![press.on] = view]
             /\ fresh' = fresh \ {press.on}
    <3>1. /\ messages' = [x \in Messages |-> messages'[x]]
          /\ \A x \in Messages : messages'[x] = IF x = press.on THEN view ELSE messages[x]
      BY <1>1, <2>2 DEF IInv, TypeOK
    <3>2. \A x \in Messages : messages'[x][1] \in ScreenTags
      BY <3>1 DEF IInv, TypeOK
    <3>3. fresh' \subseteq Messages /\ \A x \in fresh' : x \in fresh /\ x # press.on
      BY <2>2 DEF IInv, TypeOK
    <3>4. QED
      BY <3>1, <3>2, <3>3
  <2>3. QED
    BY <2>1, <2>2 DEF CallFails
<1>3. TypeOK'
  BY <1>1, <1>2, RestartedType DEF IInv, TypeOK
<1>4. FreshIsHonest'
  BY <1>1, <1>2, SameScreen DEF IInv, FreshIsHonest
<1>5. QED
  BY <1>1, <1>3, <1>4, RestartedStep

\* What a change of the world leaves: the handler goes on unless the agent restarted, what
\* it will show is not current any more, and no message is fresh.
LEMMA WorldStep == IInv /\ WorldChanges => IInv'
<1> SUFFICES ASSUME IInv, WorldChanges PROVE IInv'
  OBVIOUS
<1>1. fresh' = {} /\ messages' = messages
  BY DEF WorldChanges
<1>2. /\ store = [silent |-> store.silent, digest |-> store.digest,
                  approvals |-> store.approvals]
      /\ world = [names |-> world.names, allowed |-> world.allowed, actions |-> world.actions,
                  flag |-> world.flag, helper |-> world.helper]
      /\ world.names \subseteq Names /\ {world.actions, world.flag, world.helper} \subseteq BOOLEAN
      /\ press = [on |-> press.on, data |-> press.data,
                  attempt |-> press.attempt, current |-> press.current]
  BY DEF IInv, TypeOK
<1>3. /\ store' = [silent |-> store'.silent, digest |-> store'.digest,
                   approvals |-> store'.approvals]
      /\ world' = [names |-> world'.names, allowed |-> world'.allowed,
                   actions |-> world'.actions, flag |-> world'.flag, helper |-> world'.helper]
      /\ world'.names \subseteq Names
      /\ {world'.actions, world'.flag, world'.helper} \subseteq BOOLEAN
  <2>1. CASE ServicesChange
    BY <1>2, <2>1 DEF ServicesChange
  <2>2. CASE ConsoleChange
    BY <1>2, <2>2 DEF ConsoleChange
  <2>3. CASE HelperChanges
    BY <1>2, <2>3 DEF HelperChanges
  <2>4. CASE Expire
    BY <1>2, <2>4 DEF Expire
  <2>5. QED
    BY <2>1, <2>2, <2>3, <2>4 DEF WorldChanges
<1>4. FreshIsHonest'
  BY <1>1 DEF FreshIsHonest
<1>5. CASE ConsoleChange /\ ~Idle
  <2>1. press # NoPress /\ Restarted
    BY <1>5 DEF ConsoleChange, Idle, Restarted
  <2>2. TypeOK'
    BY <1>1, <1>3, <2>1, RestartedType DEF IInv, TypeOK
  <2>3. QED
    BY <1>4, <2>1, <2>2, RestartedStep
<1>6. CASE ConsoleChange /\ Idle
  <2>1. UNCHANGED <<todo, press, view, reply, store>> /\ press = NoPress
    BY <1>6 DEF ConsoleChange, Idle
  <2>2. TypeOK'
    BY <1>1, <1>3, <2>1 DEF IInv, TypeOK
  <2>3. todo = <<>> /\ reply = "none"
    BY <2>1 DEF IInv, TypeOK
  <2>4. ViewIsHonest' /\ Applied'
    BY <2>1, <2>3, TodosApart DEF ViewIsHonest, Applied
  <2>5. QED
    BY <1>4, <2>2, <2>4 DEF IInv
<1>7. CASE ServicesChange \/ HelperChanges \/ Expire
  <2>1. /\ press' = [press EXCEPT !.current = FALSE]
        /\ UNCHANGED <<todo, view, reply>> /\ world'.flag = world.flag
    BY <1>2, <1>7 DEF ServicesChange, HelperChanges, Expire
  <2>2. /\ press'.on = press.on /\ press'.data = press.data /\ press'.current = FALSE
        /\ press'.attempt = press.attempt
        /\ press' = [on |-> press'.on, data |-> press'.data,
                     attempt |-> press'.attempt, current |-> press'.current]
    BY <1>2, <2>1
  <2>3. press = NoPress <=> press' = NoPress
    <3>1. NoPress = [on |-> NoPress.on, data |-> NoPress.data,
                     attempt |-> NoPress.attempt, current |-> FALSE]
      BY DEF NoPress
    <3>2. press = NoPress => press' = NoPress
      BY <1>2, <2>2, <3>1
    <3>3. press # NoPress => press'.data[1] # NoPress.data[1]
      BY <2>2 DEF IInv, TypeOK, IsData, NoPress
    <3>4. QED
      BY <3>2, <3>3
  <2>4. TypeOK'
    BY <1>1, <1>3, <2>1, <2>2, <2>3 DEF IInv, TypeOK
  <2>5. ViewIsHonest'
    BY <2>1, <2>2 DEF IInv, ViewIsHonest
  <2>6. /\ store'.digest = store.digest
        /\ press.data[1] = "silence" => store'.silent = store.silent
    BY <1>2, <1>7 DEF ServicesChange, HelperChanges, Expire
  <2>7. Asked(press.data)' = Asked(press.data)
    BY <2>1, <2>2 DEF Asked
  <2>8. Applied'
    BY <1>1, <2>1, <2>2, <2>6, <2>7 DEF IInv, Applied
  <2>9. QED
    BY <1>4, <2>4, <2>5, <2>8 DEF IInv
<1>8. QED
  BY <1>5, <1>6, <1>7 DEF WorldChanges

\* At first no message is shown.
LEMMA InitIInv == Init => IInv
<1> SUFFICES ASSUME Init PROVE IInv
  OBVIOUS
<1>1. /\ messages = [m \in Messages |-> <<"none">>]
      /\ fresh = {} /\ todo = <<>> /\ press = NoPress /\ view = <<"none">> /\ reply = "none"
  BY DEF Init
<1>2. PICK silent \in BOOLEAN, flag \in BOOLEAN :
        /\ store = [silent |-> silent, digest |-> "off", approvals |-> <<>>]
        /\ world = [names |-> Names, allowed |-> Units, actions |-> TRUE,
                    flag |-> flag, helper |-> flag]
  BY DEF Init
<1>3. TypeOK
  BY <1>1, <1>2 DEF TypeOK, NoPress, ScreenTags, Todos
<1>4. QED
  BY <1>1, <1>3, TodosApart DEF IInv, FreshIsHonest, ViewIsHonest, Applied

\* Nothing changes.
LEMMA StutterStep == IInv /\ UNCHANGED vars => IInv'
<1> SUFFICES ASSUME IInv, UNCHANGED vars PROVE IInv'
  OBVIOUS
<1>1. UNCHANGED <<messages, fresh, store, world, todo, press, view, reply>>
  BY DEF vars
<1>2. TypeOK'
  BY <1>1 DEF IInv, TypeOK
<1>3. FreshIsHonest'
  <2>1. \A x \in fresh' : Honest(messages[x]) /\ messages'[x] = messages[x]
    BY <1>1 DEF IInv, FreshIsHonest
  <2>2. QED
    BY <1>1, <2>1, SameScreen DEF FreshIsHonest
<1>4. ViewIsHonest'
  <2>1. Honest(view) => Honest(view)'
    BY <1>1, ViewStaysHonest
  <2>2. QED
    BY <1>1, <2>1 DEF IInv, ViewIsHonest
<1>5. Applied'
  <2>1. Asked(press.data)' = Asked(press.data)
    BY <1>1 DEF Asked
  <2>2. QED
    BY <1>1, <2>1 DEF IInv, Applied
<1>6. QED
  BY <1>2, <1>3, <1>4, <1>5 DEF IInv

\* Every step keeps the invariant.
LEMMA NextIInv == IInv /\ [Next]_vars => IInv'
BY NewMenuStep, PressStep, DispatchStep, EditStep, AnswerStep, RestartUnitStep,
   CallFailsStep, WorldStep, StutterStep DEF Next

\* What is shown is honest in every reachable state.
THEOREM Inductive == Spec => []IInv
BY InitIInv, NextIInv, PTL DEF Spec

-----------------------------------------------------------------------------
(* The promises                                                            *)

\* An answered change is stored, and shown on its message.
THEOREM WhatIsAnsweredIsShown == Spec => AppliedIsShown
<1> DEFINE asked == press.data[2]
           shown == messages[press.on]
           Done == \/ shown = <<"alerts", asked # "clear">> /\ store.silent = (asked # "clear")
                   \/ shown = <<"settings", asked, world.flag>> /\ store.digest = asked
<1>1. IInv /\ reply = "applied" /\ Head(todo) = "answer" => Done
  <2> SUFFICES ASSUME IInv, reply = "applied", Head(todo) = "answer" PROVE Done
    OBVIOUS
  <2>1. todo = <<"answer">>
    <3>1. todo = <<"edit", "answer">> \/ todo = <<"answer">>
      BY DEF IInv, Applied
    <3>2. Head(<<"edit", "answer">>) = "edit"
      OBVIOUS
    <3>3. QED
      BY <3>1, <3>2
  <2>2. /\ press.data[1] \in {"silence", "digest"} /\ shown = Asked(press.data)
        /\ press.data[1] = "silence" => store.silent = (press.data[2] # "clear")
        /\ press.data[1] = "digest" => store.digest = press.data[2]
    BY <2>1 DEF IInv, Applied
  <2>3. QED
    BY <2>2 DEF Asked
<1>2. IInv /\ [Next]_vars =>
        [reply = "applied" /\ Head(todo) = "answer" /\ Idle' => Done \/ failures' # failures]_vars
  BY <1>1
<1>3. QED
  BY <1>2, Inductive, PTL DEF Spec, AppliedIsShown

\* The world is such that the press d is handled.
Served(d) ==
  /\ d[1] = "menu" /\ d[2] = "power" => world.flag
  /\ d[1] = "page" => ~(d[2] > 999)
  /\ d[1] = "service" => OneMatch(d[2])
  /\ d[1] = "plan" => world.actions /\ OneMatch(d[2]) /\ d[2] \in world.allowed
  /\ d[1] \in {"confirm", "cancel"} => d[2] \in DOMAIN store.approvals
  /\ d[1] = "power" => d[2] = "cancel" \/ (d[2] = "plan" /\ world.flag)

\* A unit that is found, and not twice, is found once.
LEMMA FoundOnce ==
  ASSUME TypeOK, NEW u, Matches(u) # {}, ~(Cardinality(Matches(u)) > 1)
  PROVE  OneMatch(u)
<1>1. Matches(u) \subseteq world.names /\ IsFiniteSet(Matches(u))
  BY BoundAssumption, FS_Subset DEF Matches, TypeOK
<1>2. Cardinality(Matches(u)) \in Nat /\ Cardinality(Matches(u)) # 0
  BY <1>1, FS_CardinalityType, FS_EmptySet
<1> DEFINE S == Matches(u)
           size == Cardinality(S)
<1>3. \E n : S = {n}
  <2>1. size \in Nat /\ size # 0 /\ ~(size > 1)
    BY <1>2
  <2> HIDE DEF size
  <2>2. size = 1
    BY <2>1
  <2>3. IsFiniteSet(S) /\ Cardinality(S) = 1
    BY <1>1, <2>2 DEF size
  <2> HIDE DEF S
  <2>4. QED
    BY <2>3, FS_Singleton
<1>4. PICK n : Matches(u) = {n}
  BY <1>3
<1>5. n \in world.names
  BY <1>1, <1>4
<1>6. QED
  BY <1>4, <1>5 DEF OneMatch

\* The buttons of an honest screen are served, but those of a unit found twice.
LEMMA OfferIsServed ==
  ASSUME TypeOK, NEW s, s[1] \in ScreenTags, Honest(s), NEW d \in Buttons(s),
         ~(s = <<"power">> /\ ~world.flag),
         ~(d[1] = "service" /\ Cardinality(Matches(d[2])) > 1)
  PROVE  Served(d)
<1> USE DEF Buttons, Served, Menu
<1>1. CASE s[1] = "services"
  <2>1. (\A u \in s[2] : Matches(u) # {}) /\ s[4] \in 0 .. 1000
    BY <1>1 DEF Honest
  <2>2. CASE d \in {<<"service", u>> : u \in s[2]}
    <3>1. d[1] = "service" /\ Matches(d[2]) # {}
      BY <2>1, <2>2
    <3>2. OneMatch(d[2])
      BY <3>1, FoundOnce
    <3>3. QED
      BY <3>1, <3>2
  <2>3. CASE d \in {<<"page", p>> : p \in {q \in {s[3] - 1, s[3], s[3] + 1} : q \in 0 .. s[4] - 1}}
    <3>1. PICK p \in 0 .. s[4] - 1 : d = <<"page", p>>
      BY <2>3
    <3>2. ~(p > 999)
      <4> DEFINE pages == s[4]
      <4>1. pages \in 0 .. 1000 /\ p \in 0 .. pages - 1
        BY <2>1, <3>1
      <4> HIDE DEF pages, Buttons, Served, Menu
      <4>2. QED
        BY <4>1
    <3>3. QED
      BY <3>1, <3>2
  <2>4. CASE d \in {Menu("services"), Menu("main")}
    BY <2>4
  <2>5. QED
    BY <1>1, <2>2, <2>3, <2>4 DEF ServicesButtons
<1>2. CASE s[1] = "alerts"
  BY <1>2 DEF AlertsButtons
<1>3. CASE s[1] = "settings"
  BY <1>3 DEF SettingsButtons, Honest
<1>4. CASE s[1] = "detail"
  <2>1. OneMatch(s[2]) /\ (s[3] => world.actions /\ s[2] \in world.allowed)
    BY <1>4 DEF Honest
  <2>2. d \in {<<"service", s[2]>>, Menu("services")} \/ (s[3] /\ d = <<"plan", s[2]>>)
    BY <1>4 DEF DetailButtons
  <2>3. QED
    BY <2>1, <2>2
<1>5. CASE s[1] \in {"none", "main"}
  BY <1>5
<1>6. CASE s[1] \in {"system", "web", "info"}
  BY <1>6
<1>7. CASE s[1] = "power"
  <2>1. world.flag
    BY <1>7 DEF Honest
  <2>2. d \in {<<"power", "plan">>, Menu("settings")}
    BY <1>7
  <2>3. QED
    BY <2>1, <2>2
<1>8. CASE s[1] = "reboot"
  BY <1>8 DEF Honest
<1>9. CASE s[1] = "confirmation"
  <2>1. s[3] \in DOMAIN store.approvals
    BY <1>9 DEF Honest
  <2>2. d \in {<<"confirm", s[3]>>, <<"cancel", s[3]>>}
    BY <1>9
  <2>3. QED
    BY <2>1, <2>2
<1>10. CASE s[1] = "result"
  <2>1. Matches(s[2]) # {}
    BY <1>10 DEF Honest
  <2>2. d = <<"service", s[2]>> \/ d = Menu("services")
    BY <1>10
  <2>3. CASE d = <<"service", s[2]>>
    <3>1. d[1] = "service" /\ d[2] = s[2]
      BY <2>3
    <3>2. OneMatch(d[2])
      BY <2>1, <3>1, FoundOnce
    <3>3. QED
      BY <3>1, <3>2
  <2>4. QED
    BY <2>2, <2>3
<1>11. CASE s[1] = "cancelled"
  BY <1>11
<1> HIDE DEF Buttons, Served, Menu
<1>12. QED
  BY <1>1, <1>2, <1>3, <1>4, <1>5, <1>6, <1>7, <1>8, <1>9, <1>10, <1>11 DEF ScreenTags

\* A press that is served is not refused.
LEMMA ServedIsDone ==
  ASSUME NEW d, IsData(d), Handle(d[1], d[2]), Served(d), world.flag = world.helper
  PROVE  reply' # "refused"
<1>1. \/ d[1] = "menu" /\ HandleMenu(d[2])
      \/ d[1] = "page" /\ HandlePage(d[2])
      \/ d[1] = "service" /\ HandleService(d[2])
      \/ d[1] = "power" /\ HandlePower(d[2])
      \/ d[1] = "silence" /\ HandleSilence(d[2])
      \/ d[1] = "digest" /\ HandleDigest(d[2])
      \/ d[1] = "plan" /\ HandlePlan(d[2])
      \/ d[1] = "confirm" /\ HandleConfirm(d[2])
      \/ d[1] = "cancel" /\ HandleCancel(d[2])
  BY DEF IsData, Handle
<1> USE DEF Served, Show
<1>2. CASE d[1] = "menu" /\ HandleMenu(d[2])
  BY <1>2 DEF HandleMenu, PowerAllowed
<1>3. CASE d[1] = "page" /\ HandlePage(d[2])
  BY <1>3 DEF HandlePage
<1>4. CASE d[1] = "service" /\ HandleService(d[2])
  BY <1>4 DEF HandleService
<1>5. CASE d[1] = "power" /\ HandlePower(d[2])
  BY <1>5 DEF HandlePower, PowerAllowed
<1>6. CASE d[1] = "silence" /\ HandleSilence(d[2])
  BY <1>6 DEF HandleSilence
<1>7. CASE d[1] = "digest" /\ HandleDigest(d[2])
  BY <1>7 DEF HandleDigest
<1>8. CASE d[1] = "plan" /\ HandlePlan(d[2])
  BY <1>8 DEF HandlePlan
<1>9. CASE d[1] = "confirm" /\ HandleConfirm(d[2])
  BY <1>9 DEF HandleConfirm
<1>10. CASE d[1] = "cancel" /\ HandleCancel(d[2])
  BY <1>10 DEF HandleCancel
<1>11. QED
  BY <1>1, <1>2, <1>3, <1>4, <1>5, <1>6, <1>7, <1>8, <1>9, <1>10

\* The reasons for which a press may be refused.
Stale ==
  \/ press.on \notin fresh
  \/ press.data \notin Buttons(messages[press.on])
  \/ press.data[1] = "service" /\ Cardinality(Matches(press.data[2])) > 1
  \/ world.flag # world.helper
  \/ messages[press.on] = <<"power">> /\ ~world.flag

\* A refused press has one of these reasons.
LEMMA RefusalIsStale ==
  ASSUME IInv, Dispatch, reply' = "refused"
  PROVE  Stale
<1>1. SUFFICES ASSUME ~Stale PROVE FALSE
  OBVIOUS
<1>2. press.on \in Messages /\ IsData(press.data)
  BY TodoPart, TodosApart DEF Dispatch, IInv, TypeOK
<1> DEFINE s == messages[press.on]
<1>3. /\ s[1] \in ScreenTags /\ Honest(s) /\ press.data \in Buttons(s)
      /\ ~(s = <<"power">> /\ ~world.flag) /\ world.flag = world.helper
      /\ ~(press.data[1] = "service" /\ Cardinality(Matches(press.data[2])) > 1)
  BY <1>1, <1>2 DEF Stale, IInv, TypeOK, FreshIsHonest
<1> HIDE DEF s
<1>4. Served(press.data)
  BY <1>3, OfferIsServed DEF IInv
<1>5. QED
  BY <1>2, <1>3, <1>4, ServedIsDone DEF Dispatch

\* No screen offers what the agent will not do.
THEOREM NoEmptyOffer == Spec => RefusedOnlyIfStale
<1>1. IInv /\ [Next]_vars /\ reply' = "refused" /\ reply # "refused" => Stale
  <2> SUFFICES ASSUME IInv, [Next]_vars, reply' = "refused", reply # "refused" PROVE Stale
    OBVIOUS
  <2>1. CASE Dispatch
    BY <2>1, RefusalIsStale
  <2>2. CASE \E m \in Messages : NewMenu(m) \/ Press(m)
    BY <2>2 DEF NewMenu, Press
  <2>3. CASE Edit \/ Answer
    BY <2>3 DEF Edit, Answer, Advance, Settle
  <2>4. CASE RestartUnit \/ CallFails
    BY <2>4 DEF RestartUnit, CallFails, Again, StartOver, Settle
  <2>5. CASE WorldChanges
    BY <2>5 DEF WorldChanges, ServicesChange, ConsoleChange, HelperChanges, Expire, StartOver
  <2>6. CASE UNCHANGED vars
    BY <2>6 DEF vars
  <2>7. QED
    BY <2>1, <2>2, <2>3, <2>4, <2>5, <2>6 DEF Next
<1>2. IInv /\ [Next]_vars => [reply' = "refused" /\ reply # "refused" => Stale]_vars
  BY <1>1
<1>3. QED
  BY <1>2, Inductive, PTL DEF Spec, RefusedOnlyIfStale, Stale
=============================================================================
