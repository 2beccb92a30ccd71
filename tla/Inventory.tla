------------------------------ MODULE Inventory ------------------------------
(***************************************************************************)
(* How the agent learns which services there are and how they do, and what *)
(* the monitor makes of it.  One discovery is several systemctl calls: the *)
(* loaded units are listed, and each unit of extra_service_units that the  *)
(* list does not have is asked for by name.  Units start, stop, fail and   *)
(* are installed or removed between the calls, and any call may fail,      *)
(* which ends the discovery and is itself an incident of the collector.    *)
(*                                                                         *)
(* A unit may have other names.  systemctl list-units knows only its own,  *)
(* systemctl show accepts any of them and answers with its own.            *)
(***************************************************************************)
EXTENDS IncidentTable, FiniteSets

CONSTANTS
  Names,       \* the service names that systemd knows
  OwnName,     \* OwnName[n]: the unit that n is a name of
  Classified,  \* the names that classify() takes for a web service
  Extra        \* extra_service_units, a sequence of names

ASSUME NamesAssumption ==
  /\ IsFiniteSet(Names)
  /\ OwnName \in [Names -> Names]
  /\ \A n \in Names : OwnName[OwnName[n]] = OwnName[n]
  /\ Classified \subseteq Names
  /\ Extra \in Seq(Names)

Units == {n \in Names : OwnName[n] = n}
\* "inactive" stands for every ActiveState but active: a failed unit is treated
\* no differently.
UnitStates == {"active", "inactive", "unloaded", "missing"}

VARIABLES
  machine,     \* systemd: the state of each unit
  pc,          \* what the discovery does next
  todo,        \* names it has still to ask for
  found,       \* the services of this discovery, by the name they were found under
  inventory,   \* those of the last one that was completed
  unhealthy    \* history: completed discoveries in a row that saw the unit unhealthy

discoveryVars == <<machine, pc, todo, found, inventory, incidents, unhealthy>>

-----------------------------------------------------------------------------
Loaded(n) == machine[n] \in {"active", "inactive"}

Service(unit, category, state) == [unit |-> unit, category |-> category, state |-> state]

\* ServiceStatus::is_healthy.
Healthy(s) == s.state = "active"

\* parse_unit_line: a category, if there is one, makes a line a service.
Category(n) == IF n \in Classified THEN {"web"} ELSE IF n \in Range(Extra) THEN {"extra"} ELSE {}

\* parse_list_units.
Listed ==
    [n \in {u \in Units : Loaded(u) /\ Category(u) # {}} |->
        Service(n, CHOOSE c \in Category(n) : TRUE, machine[n])]

\* Faulty variant: a unit that is not installed is no service.
ShownIfInstalled(n) ==
    LET u == OwnName[n] IN
    IF machine[u] = "missing" THEN <<>>
    ELSE [m \in {n} |-> Service(u, "extra", IF Loaded(u) THEN machine[u] ELSE "inactive")]

\* show_unit: it loads a unit that was not, and says so of one that is not there.
Shown(n) ==
    LET u == OwnName[n] IN
    [m \in {n} |-> Service(u, "extra", CASE Loaded(u) -> machine[u]
                                         [] machine[u] = "unloaded" -> "inactive"
                                         [] machine[u] = "missing" -> "not-found")]

\* observe_services.
ObserveServices(services) ==
    LET names == SetToSeq(DOMAIN services)
    IN  FlattenSeq([i \in DOMAIN names |->
            PushIf(~Healthy(services[names[i]]),
                   <<"service", services[names[i]].unit>>, "critical")])

-----------------------------------------------------------------------------
DiscoveryInit ==
    /\ machine \in [Units -> {"active", "missing"}]
    /\ pc = "idle" /\ todo = <<>> /\ found = <<>>
    /\ inventory = <<>>
    /\ incidents = <<>>
    /\ unhealthy = [u \in Units |-> 0]

\* discover: systemctl list-units.
ListUnits ==
    /\ pc = "idle"
    /\ pc' = "show"
    /\ found' = Listed
    /\ todo' = Extra
    /\ UNCHANGED <<machine, inventory, incidents, unhealthy>>

\* discover: systemctl show for the next extra name the list does not have.
ShowUnit ==
    /\ pc = "show" /\ todo # <<>>
    /\ todo' = Tail(todo)
    /\ found' = LET shown == Shown(Head(todo))
                IN  [n \in DOMAIN found \cup DOMAIN shown |->
                        IF n \in DOMAIN found THEN found[n] ELSE shown[n]]
    /\ UNCHANGED <<machine, pc, inventory, incidents, unhealthy>>

\* cycle: the discovery is complete, and its services are reconciled.
Complete ==
    /\ pc = "show" /\ todo = <<>>
    /\ pc' = "idle" /\ found' = <<>>
    /\ inventory' = found
    /\ incidents' = ReconcileCollector(Reconcile(incidents, ObserveServices(found), {"service"}),
                                       "agent:collector:services", FALSE)
    /\ unhealthy' = [u \in Units |->
           IF \E n \in DOMAIN found : found[n].unit = u /\ ~Healthy(found[n])
           THEN Saturating(unhealthy[u]) ELSE 0]
    /\ UNCHANGED <<machine, todo>>

\* A systemctl call fails or takes longer than five seconds.
CallFails ==
    /\ pc = "idle" \/ todo # <<>>
    /\ pc' = "idle" /\ todo' = <<>> /\ found' = <<>>
    /\ incidents' = ReconcileCollector(incidents, "agent:collector:services", TRUE)
    /\ UNCHANGED <<machine, inventory, unhealthy>>

\* A unit starts, stops, fails, is unloaded, installed or removed.
MachineChanges ==
    /\ \E u \in Units : \E s \in UnitStates \ {machine[u]} : machine' = [machine EXCEPT ![u] = s]
    /\ UNCHANGED <<pc, todo, found, inventory, incidents, unhealthy>>

DiscoveryNext == ListUnits \/ ShowUnit \/ Complete \/ CallFails \/ MachineChanges

DiscoverySpec == DiscoveryInit /\ [][DiscoveryNext]_discoveryVars

-----------------------------------------------------------------------------
\* Names of a unit, other than its own, that are configured.
OtherNames(u) == {n \in Range(Extra) : OwnName[n] = u /\ n # u}

\* config.rs:43: a problem is confirmed by the number of consecutive passes that
\* saw it.  Whatever happens to the units between two calls of a discovery, and
\* however many discoveries fail in between, the row of a unit counts exactly the
\* completed ones that saw it unhealthy.  (A unit configured under another name may
\* be in one discovery several times, and is then counted as often.)
CountsPasses ==
    \A u \in Units :
        LET row == <<"service", u>>
            count == IF row \in DOMAIN incidents THEN incidents[row].count ELSE 0
        IN  unhealthy[u] <= count /\ count <= unhealthy[u] * (1 + Cardinality(OtherNames(u)))

\* A unit that the administrator has named is never lost sight of: stopped,
\* unloaded or removed, it is in every completed inventory, and an incident
\* unless it is running.
ConfiguredIsWatched ==
    [][Complete =>
        \A i \in DOMAIN Extra :
            \E n \in DOMAIN inventory' :
                /\ inventory'[n].unit = OwnName[Extra[i]]
                /\ \/ Healthy(inventory'[n])
                   \/ <<"service", OwnName[Extra[i]]>> \in DOMAIN incidents']_discoveryVars
=============================================================================
