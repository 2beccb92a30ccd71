-------------------------------- MODULE Menus --------------------------------
(***************************************************************************)
(* The menus of the bot: which screen a button leads to, what a press      *)
(* changes, and what stays behind on messages the chat already shows.      *)
(*                                                                         *)
(* A button carries its callback data and nothing else.  The message it    *)
(* sits on may be days old: units come and go, the allowlist, the power    *)
(* setting and the approvals change, the agent restarts, and the button is *)
(* still there to be pressed.  A press is handled by handle_callback: it   *)
(* changes the store and renders a view, edits the message, and answers    *)
(* the press; after a failure it is handled again from its first line.     *)
(*                                                                         *)
(* The presses are those of the owner.  Reboot phrases and the steps of a  *)
(* restart are the subject of ServerReboot and ServiceAction.              *)
(***************************************************************************)
EXTENDS Integers, Sequences, FiniteSets, Functions

CONSTANTS Names,        \* the names a discovery may find services under, in its order: 1 .. n
          UnitOf,       \* UnitOf[n]: the unit that n is a name of (see Inventory)
          Messages,     \* messages of the chat
          PageSize,     \* SERVICE_PAGE_SIZE
          MaxAttempts,  \* UPDATE_MAX_ATTEMPTS
          Tokens,       \* bound: approval tokens, 1 .. n, used again when nothing shows them
          MaxFailures,  \* bound: failing calls
          MaxChanges    \* bound: changes of the world around the agent

ASSUME BoundAssumption ==
    /\ Names \subseteq Nat /\ IsFiniteSet(Names) /\ Tokens \subseteq Nat
    /\ UnitOf = [n \in Names |-> UnitOf[n]]
    /\ {PageSize, MaxAttempts} \subseteq Nat \ {0}
    /\ {MaxFailures, MaxChanges} \subseteq Nat

VARIABLES messages,   \* what each message shows
          fresh,      \* history: messages nothing has changed behind since they were rendered
          store,      \* silence, digest and the live approvals (token -> unit)
          world,      \* names found, root allowlist, the agent's flags, the helper's answer
          todo,       \* calls the handler of the current press has still to make
          press,      \* the press being handled: message, data, attempt
          view,       \* the screen it has rendered
          reply,      \* the text it will answer with
          failures, changes  \* bounds

bounds == <<failures, changes>>
vars == <<messages, fresh, store, world, todo, press, view, reply, failures, changes>>

\* `current` is history: nothing has changed since the press was dispatched.
NoPress == [on |-> "none", data |-> <<"none">>, attempt |-> 0, current |-> FALSE]

-----------------------------------------------------------------------------
\* Screens, and the callback data of their buttons.

Menu(m) == <<"menu", m>>

\* render_services_page: the services of one page, with the unit of each on its
\* button.  A page that is gone is replaced by the last one.
PageCount(names) == (Cardinality(names) + PageSize - 1) \div PageSize
Rank(names, n) == Cardinality({v \in names : v <= n})
OnPage(names, page) == {n \in names : Rank(names, n) - 1 \in page * PageSize .. (page + 1) * PageSize - 1}

\* handle_callback takes page numbers up to 999: more pages than that are not listed.
ASSUME PageAssumption == \A names \in SUBSET Names : PageCount(names) <= 1000

ServicesPage(names, requested) ==
    LET last == IF PageCount(names) = 0 THEN 0 ELSE PageCount(names) - 1
        page == IF requested > last THEN last ELSE requested
    IN  <<"services", {UnitOf[n] : n \in OnPage(names, page)}, page, PageCount(names)>>

\* render_services_page, navigation and rows.
ServicesButtons(shown, page, pages) ==
    IF pages = 0 THEN {Menu("services"), Menu("main")}
    ELSE {<<"service", u>> : u \in shown}
         \cup {<<"page", p>> : p \in {q \in {page - 1, page, page + 1} : q \in 0 .. pages - 1}}
         \cup {Menu("main")}

\* render_settings.
SettingsButtons(powerEnabled) ==
    {<<"digest", d>> : d \in {"off", "6h", "12h", "24h"}} \cup {Menu("main")}
    \cup (IF powerEnabled THEN {Menu("power")} ELSE {})

\* Faulty variant: a restart is offered for every unit that is shown.
DetailButtonsAll(u, allowed) == {<<"service", u>>, Menu("services"), <<"plan", u>>}

\* render_service_detail.
DetailButtons(u, allowed) ==
    {<<"service", u>>, Menu("services")} \cup (IF allowed THEN {<<"plan", u>>} ELSE {})

\* render_alerts.
AlertsButtons(silent) ==
    {Menu("alerts"), Menu("main")}
    \cup (IF silent THEN {<<"silence", "clear">>} ELSE {<<"silence", "1h">>, <<"silence", "6h">>})

Buttons(s) ==
    CASE s[1] = "none" -> {}
      [] s[1] = "main" -> {Menu(m) : m \in {"system", "services", "web", "alerts", "settings", "info"}}
      [] s[1] \in {"system", "web"} -> {Menu(s[1]), Menu("main")}
      [] s[1] = "info" -> {Menu("main")}
      [] s[1] = "services" -> ServicesButtons(s[2], s[3], s[4])
      [] s[1] = "alerts" -> AlertsButtons(s[2])
      [] s[1] = "settings" -> SettingsButtons(s[3])
      [] s[1] = "power" -> {<<"power", "plan">>, Menu("settings")}
      [] s[1] = "reboot" -> {<<"power", "cancel">>, Menu("power")}
      [] s[1] = "detail" -> DetailButtons(s[2], s[3])
      [] s[1] = "confirmation" -> {<<"confirm", s[3]>>, <<"cancel", s[3]>>}
      [] s[1] = "result" -> {<<"service", s[2]>>, Menu("services")}
      [] s[1] = "cancelled" -> {Menu("services")}

\* Menu::from_callback and the screens it selects.
MenuScreen(m) ==
    CASE m = "services" -> ServicesPage(world.names, 0)
      [] m = "alerts" -> <<"alerts", store.silent>>
      [] m = "settings" -> <<"settings", store.digest, world.flag>>
      [] OTHER -> <<m>>

PowerAllowed == world.flag /\ world.helper

Units == Range(UnitOf)

\* The services of the inventory with the unit of a button.  A unit that is
\* configured under another of its names may be there twice.
Matches(u) == {n \in world.names : UnitOf[n] = u}

\* let [service] = matches.as_slice()
OneMatch(u) == \E n \in world.names : Matches(u) = {n}

-----------------------------------------------------------------------------
Init ==
    /\ messages = [m \in Messages |-> <<"none">>]
    /\ fresh = {}
    /\ \E silent, flag \in BOOLEAN :
         /\ store = [silent |-> silent, digest |-> "off", approvals |-> <<>>]
         /\ world = [names |-> Names, allowed |-> Units, actions |-> TRUE,
                     flag |-> flag, helper |-> flag]
    /\ todo = <<>> /\ press = NoPress /\ view = <<"none">> /\ reply = "none"
    /\ failures = 0 /\ changes = 0

Idle == press = NoPress

\* The owner writes "메뉴": send_new_menu adds a message.
NewMenu(m) ==
    /\ Idle /\ messages[m] = <<"none">>
    /\ messages' = [messages EXCEPT ![m] = <<"main">>]
    /\ fresh' = fresh \cup {m}
    /\ UNCHANGED <<store, world, todo, press, view, reply, bounds>>

\* The owner presses a button of some message.
Press(m) ==
    /\ Idle
    /\ \E d \in Buttons(messages[m]) :
         press' = [on |-> m, data |-> d, attempt |-> 1, current |-> FALSE]
    /\ todo' = <<"dispatch">>
    /\ UNCHANGED <<messages, fresh, store, world, view, reply, bounds>>

\* The outcomes of a dispatch: a screen to show, then an answer; or only an answer.
Show(screen, text) ==
    /\ view' = screen /\ reply' = text /\ todo' = <<"edit", "answer">>

Refuse ==
    /\ reply' = "refused" /\ todo' = <<"answer">>
    /\ UNCHANGED view

\* The messages that show an approval which is gone are not fresh any more.
ShowsToken(m, t) == messages[m][1] = "confirmation" /\ messages[m][3] = t

HandleMenu(m) ==
    /\ IF m = "power" /\ ~PowerAllowed THEN Refuse ELSE Show(MenuScreen(m), "done")
    /\ UNCHANGED <<store, fresh>>

HandlePage(p) ==
    /\ IF p > 999 THEN Refuse ELSE Show(ServicesPage(world.names, p), "done")
    /\ UNCHANGED <<store, fresh>>

\* The unit must still be found, and only once.
HandleService(u) ==
    /\ IF OneMatch(u)
       THEN Show(<<"detail", u, world.actions /\ u \in world.allowed>>, "done")
       ELSE Refuse
    /\ UNCHANGED <<store, fresh>>

\* create_approval: a token like none before.
NewToken == CHOOSE t \in Tokens : /\ t \notin DOMAIN store.approvals
                                  /\ \A m \in Messages : ~ShowsToken(m, t)

HandlePlan(u) ==
    IF world.actions /\ OneMatch(u) /\ u \in world.allowed
    THEN \E t \in {NewToken} :
            /\ store' = [store EXCEPT !.approvals = [x \in DOMAIN @ \cup {t} |->
                                                      IF x = t THEN u ELSE @[x]]]
            /\ Show(<<"confirmation", u, t>>, "reapprove")
            /\ UNCHANGED fresh
    ELSE Refuse /\ UNCHANGED <<store, fresh>>

WithoutToken(t) == Restrict(store.approvals, DOMAIN store.approvals \ {t})

\* The approval is used up before anything is awaited; the press is answered
\* before the unit is restarted, and the result is shown last.
HandleConfirm(t) ==
    IF t \in DOMAIN store.approvals
    THEN /\ store' = [store EXCEPT !.approvals = WithoutToken(t)]
         /\ fresh' = {m \in fresh : ~ShowsToken(m, t)}
         /\ view' = <<"result", store.approvals[t], TRUE>>
         /\ reply' = "running" /\ todo' = <<"answer", "restart", "edit">>
    ELSE /\ Show(<<"cancelled", "expired">>, "refused")
         /\ UNCHANGED <<store, fresh>>

HandleCancel(t) ==
    IF t \in DOMAIN store.approvals
    THEN /\ store' = [store EXCEPT !.approvals = WithoutToken(t)]
         /\ fresh' = {m \in fresh : ~ShowsToken(m, t)}
         /\ Show(<<"cancelled", "cancelled">>, "done")
    ELSE /\ Show(<<"cancelled", "expired">>, "refused")
         /\ UNCHANGED <<store, fresh>>

\* Faulty variant: the screen is rendered from what was read before.
HandleSilenceStale(value) ==
    /\ store' = [store EXCEPT !.silent = value # "clear"]
    /\ Show(<<"alerts", store.silent>>, "applied")
    /\ UNCHANGED fresh

HandleSilence(value) ==
    /\ store' = [store EXCEPT !.silent = value # "clear"]
    /\ Show(<<"alerts", store'.silent>>, "applied")
    /\ UNCHANGED fresh

HandleDigest(value) ==
    /\ store' = [store EXCEPT !.digest = value]
    /\ Show(<<"settings", value, world.flag>>, "applied")
    /\ UNCHANGED fresh

\* power:plan asks for both flags; power:cancel for neither.
HandlePower(what) ==
    /\ CASE what = "cancel" -> Show(<<"power">>, "done")
         [] what = "plan" /\ PowerAllowed -> Show(<<"reboot">>, "phrase")
         [] OTHER -> Refuse
    /\ UNCHANGED <<store, fresh>>

\* The prefixes of handle_callback.
Handle(tag, arg) ==
    CASE tag = "menu" -> HandleMenu(arg)
      [] tag = "page" -> HandlePage(arg)
      [] tag = "service" -> HandleService(arg)
      [] tag = "plan" -> HandlePlan(arg)
      [] tag = "confirm" -> HandleConfirm(arg)
      [] tag = "cancel" -> HandleCancel(arg)
      [] tag = "silence" -> HandleSilence(arg)
      [] tag = "digest" -> HandleDigest(arg)
      [] tag = "power" -> HandlePower(arg)

Next_(step) == todo # <<>> /\ Head(todo) = step

Dispatch ==
    /\ Next_("dispatch")
    /\ Handle(press.data[1], press.data[2])
    /\ press' = [press EXCEPT !.current = TRUE]
    /\ UNCHANGED <<messages, world, failures, changes>>

\* The last call of a handler settles the press.
Settle == todo' = <<>> /\ press' = NoPress /\ view' = <<"none">> /\ reply' = "none"

Advance ==
    IF Len(todo) = 1 THEN Settle
    ELSE todo' = Tail(todo) /\ UNCHANGED <<press, view, reply>>

\* The edited message shows the present, unless the world has changed since the dispatch.
Edit ==
    /\ Next_("edit")
    /\ messages' = [messages EXCEPT ![press.on] = view]
    /\ fresh' = IF press.current THEN fresh \cup {press.on} ELSE fresh \ {press.on}
    /\ Advance
    /\ UNCHANGED <<store, world, bounds>>

Answer ==
    /\ Next_("answer")
    /\ Advance
    /\ UNCHANGED <<messages, fresh, store, world, bounds>>

\* A call fails: the handler starts again, and is given up in the end.
StartOver(attempt) ==
    /\ todo' = <<"dispatch">>
    /\ press' = [press EXCEPT !.attempt = attempt, !.current = FALSE]
    /\ view' = <<"none">> /\ reply' = "none"

Again == IF press.attempt < MaxAttempts THEN StartOver(press.attempt + 1) ELSE Settle

\* The approved unit is looked up again, under whatever name; one that is gone
\* fails the handler.
RestartUnit ==
    /\ Next_("restart")
    /\ IF Matches(view[2]) # {}
       THEN /\ \E ok \in BOOLEAN : view' = [view EXCEPT ![3] = ok]
            /\ todo' = Tail(todo)
            /\ UNCHANGED <<press, reply>>
       ELSE Again
    /\ UNCHANGED <<messages, fresh, store, world, bounds>>

\* A call fails, at once or after it took effect.
CallFails ==
    /\ todo # <<>> /\ failures < MaxFailures
    /\ failures' = failures + 1
    /\ \/ UNCHANGED <<messages, fresh>>
       \/ /\ Head(todo) = "edit"
          /\ messages' = [messages EXCEPT ![press.on] = view]
          /\ fresh' = fresh \ {press.on}
    /\ Again
    /\ UNCHANGED <<store, world, changes>>

-----------------------------------------------------------------------------
\* The world around the agent.

\* Services and the allowlist change without the agent, one at a time.
ServicesChange ==
    /\ \/ \E n \in Names :
            world' = [world EXCEPT !.names = IF n \in @ THEN @ \ {n} ELSE @ \cup {n}]
       \/ \E u \in Units :
            world' = [world EXCEPT !.allowed = IF u \in @ THEN @ \ {u} ELSE @ \cup {u}]
    /\ press' = [press EXCEPT !.current = FALSE]
    /\ UNCHANGED <<store, todo, view, reply>>

\* setup and power restart the agent on the new flags; the press it was
\* handling is delivered again.
ConsoleChange ==
    /\ \E flag, actions \in BOOLEAN :
         world' = [world EXCEPT !.flag = flag, !.helper = flag, !.actions = actions]
    /\ IF Idle THEN UNCHANGED <<todo, press, view, reply>> ELSE StartOver(1)
    /\ UNCHANGED store

\* A power command that did not come to its end (see PowerSetting).
HelperChanges ==
    /\ world' = [world EXCEPT !.helper = ~@]
    /\ press' = [press EXCEPT !.current = FALSE]
    /\ UNCHANGED <<store, todo, view, reply>>

\* An approval or a silence expires.  A silence that is being set does not.
Expire ==
    /\ \/ \E t \in DOMAIN store.approvals : store' = [store EXCEPT !.approvals = WithoutToken(t)]
       \/ /\ store.silent /\ press.data[1] # "silence"
          /\ store' = [store EXCEPT !.silent = FALSE]
    /\ press' = [press EXCEPT !.current = FALSE]
    /\ UNCHANGED <<world, todo, view, reply>>

WorldChanges ==
    /\ changes < MaxChanges
    /\ changes' = changes + 1
    /\ ServicesChange \/ ConsoleChange \/ HelperChanges \/ Expire
    /\ fresh' = {}
    /\ UNCHANGED <<messages, failures>>

Next ==
    \/ \E m \in Messages : NewMenu(m) \/ Press(m)
    \/ Dispatch \/ Edit \/ Answer \/ RestartUnit \/ CallFails
    \/ WorldChanges

Spec == Init /\ [][Next]_vars

-----------------------------------------------------------------------------
\* A button is refused only because something has changed since its screen was
\* rendered: no screen offers what the agent will not do.  (Exceptions: the button
\* of a unit that the inventory has twice, which can never be opened; a server
\* whose power setting and helper disagree, which doctor reports; a press whose
\* earlier attempt has already replaced the screen it was on; and the power menu,
\* which power:cancel shows even where it has been disabled since.)
RefusedOnlyIfStale ==
    [][reply' = "refused" /\ reply # "refused"
       => \/ press.on \notin fresh
          \/ press.data \notin Buttons(messages[press.on])
          \/ press.data[1] = "service" /\ Cardinality(Matches(press.data[2])) > 1
          \/ world.flag # world.helper
          \/ messages[press.on] = <<"power">> /\ ~world.flag]_vars

\* When a press is answered with "applied", the store holds what was pressed and
\* its message says so, after whatever attempts, stale messages and restarts.
AppliedIsShown ==
    [][reply = "applied" /\ Head(todo) = "answer" /\ Idle'
       => LET asked == press.data[2]
              shown == messages[press.on]
          IN  \/ shown = <<"alerts", asked # "clear">> /\ store.silent = (asked # "clear")
              \/ shown = <<"settings", asked, world.flag>> /\ store.digest = asked
              \/ failures' # failures]_vars
=============================================================================
