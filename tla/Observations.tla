---------------------------- MODULE Observations ----------------------------
(***************************************************************************)
(* What a reading of the machine and of a web site is taken for.  The same *)
(* readings are judged in several places that know nothing of each other:  *)
(* the monitor turns them into incidents, the system and web screens into  *)
(* icons, and the status digest into a summary of both.                    *)
(*                                                                         *)
(* Percentages are whole numbers next to the thresholds, load is counted   *)
(* in hundredths per CPU, and a day has Day seconds.                       *)
(***************************************************************************)
EXTENDS Integers, IncidentTable, FiniteSets

CONSTANTS
  CpuWarning, LoadWarning, MemoryWarning, SwapWarning,   \* the thresholds of agent.toml
  DiskWarning,
  WarningDays,      \* tls_warning_days of the web check
  StatusMin, StatusMax,
  Day,              \* 86_400
  Mounts            \* the disks, in the order in which they are listed

\* Bounds of the model: the readings that occur.
CONSTANTS LoadReadings, DiskReadings, Statuses, SecondsLeft

\* AgentConfig::validate and WebCheckConfig::validate.
ASSUME ConfigAssumption ==
  /\ {CpuWarning, MemoryWarning, SwapWarning, DiskWarning} \subseteq 50 .. 99
  /\ LoadWarning \in 50 .. 1000
  /\ WarningDays \in 1 .. 90
  /\ {StatusMin, StatusMax} \subseteq 100 .. 599 /\ StatusMin <= StatusMax
  /\ Day \in Nat \ {0}

\* Readings are numbers, and sysinfo asks the mount point: one that is listed twice,
\* because something is mounted over it, has one reading.
ASSUME ReadingsAssumption ==
  /\ LoadReadings \cup Statuses \subseteq Nat /\ SecondsLeft \subseteq Int
  /\ Mounts \in Seq(Range(Mounts))
  /\ DiskReadings \subseteq [DOMAIN Mounts -> 0 .. 100]
  /\ \A reading \in DiskReadings : \A i, j \in DOMAIN Mounts :
       Mounts[i] = Mounts[j] => reading[i] = reading[j]

VARIABLES
  system,      \* the last SystemSnapshot, or Failed
  web,         \* the last WebCheckResult, or Failed
  (* history: completed web checks in a row, read by the properties only *)
  ending,      \* that read a certificate in its warning period
  ended        \* of a certificate in its last day, or expired

vars == <<system, web, incidents, ending, ended>>

Failed == [failed |-> TRUE]
IsFailed(reading) == "failed" \in DOMAIN reading

-----------------------------------------------------------------------------
\* Readings.

\* monitor::percent and menu::percent.
Percent(used, total) == IF total = 0 THEN 0 ELSE (used * 100) \div total

AtThreshold(threshold) == {threshold - 1, threshold}

\* system::collect; of memory and swap 100 units are there, or no swap at all.
Snapshots ==
    [cpu : AtThreshold(CpuWarning), load : LoadReadings,
     memory : AtThreshold(MemoryWarning),
     swap : {s \in [used : AtThreshold(SwapWarning) \cup {0}, total : {0, 100}] :
               (s.total = 0) = (s.used = 0)},
     disks : DiskReadings]

\* tls::days_remaining: whole days, of an expired certificate too, which the
\* division rounds towards zero.
DaysLeft(seconds) == IF seconds < 0 THEN -((-seconds) \div Day) ELSE seconds \div Day

\* Faulty variant: a certificate is good until its last day is over.
CheckOneLastDay(probe) ==
    LET answered == probe.status # {}
        inRange == \E s \in probe.status : s \in StatusMin .. StatusMax
        days == IF answered /\ probe.handshake THEN {DaysLeft(s) : s \in probe.left} ELSE {}
    IN  [probe |-> probe, days |-> days,
         healthy |-> /\ inRange
                     /\ probe.left # {} => probe.handshake
                     /\ \A d \in days : d >= 0]

\* check_one: the answer of the site and, for https, the handshake, which may fail
\* for a good certificate and succeed for one that expires just then.  What may be
\* missing is a set with at most one element: a site without https has no
\* certificate and no seconds left.  (`probe` is history.)
CheckOne(probe) ==
    LET answered == probe.status # {}
        inRange == \E s \in probe.status : s \in StatusMin .. StatusMax
        days == IF answered /\ probe.handshake THEN {DaysLeft(s) : s \in probe.left} ELSE {}
    IN  [probe |-> probe, days |-> days,
         healthy |-> /\ inRange
                     /\ probe.left # {} => probe.handshake
                     /\ \A d \in days : d > 0]

Option(S) == {{}} \cup {{x} : x \in S}
Probes == [status : Option(Statuses), handshake : BOOLEAN, left : Option(SecondsLeft)]

-----------------------------------------------------------------------------
\* The monitor: which readings are incidents.

MemoryHigh(s) == Percent(s.memory, 100) >= MemoryWarning
SwapHigh(s) == s.swap.total > 0 /\ Percent(s.swap.used, s.swap.total) >= SwapWarning
DiskUsage(s, i) == Percent(s.disks[i], 100)

ObserveDisk(s, i) ==
    PushIf(DiskUsage(s, i) >= DiskWarning, <<"disk", Mounts[i]>>,
           IF DiskUsage(s, i) >= 95 THEN "critical" ELSE "warning")

\* observe_system.
ObserveSystem(s) ==
    PushIf(s.cpu >= CpuWarning, <<"system", "cpu">>, "warning")
    \o PushIf(s.load >= LoadWarning, <<"system", "load">>, "warning")
    \o PushIf(MemoryHigh(s), <<"system", "memory">>, "warning")
    \o PushIf(SwapHigh(s) /\ MemoryHigh(s), <<"system", "swap_pressure">>, "warning")
    \o FlattenSeq([i \in DOMAIN s.disks |-> ObserveDisk(s, i)])

\* observe_web, for one check.
ObserveWeb(r) ==
    PushIf(~r.healthy, <<"web", "site">>, "critical")
    \o PushIf(\E d \in r.days : d <= WarningDays /\ d > 0, <<"tls", "site">>, "warning")

-----------------------------------------------------------------------------
\* The screens.

\* ui::resource_status.
ResourceIcon(warning) == IF warning THEN "warning" ELSE "healthy"

\* ui::disk_status.
DiskIcon(usage) == IF usage >= 95 THEN "critical" ELSE ResourceIcon(usage >= DiskWarning)

ResourcesIcon(s) ==
    ResourceIcon(\/ s.cpu >= CpuWarning \/ s.load >= LoadWarning
                 \/ MemoryHigh(s) \/ (SwapHigh(s) /\ MemoryHigh(s)))

\* Faulty variant: the loop over the disks goes on after a critical one.
NextIconLast(icon, usage) ==
    IF DiskIcon(usage) = "healthy" THEN icon ELSE DiskIcon(usage)

\* The loop over the disks ends at the first critical one.
NextIcon(icon, usage) ==
    IF icon = "critical" \/ DiskIcon(usage) = "healthy" THEN icon ELSE DiskIcon(usage)

\* format_system_snapshot: the first line.
Overall(s) == FoldLeft(NextIcon, ResourcesIcon(s), [i \in DOMAIN s.disks |-> DiskUsage(s, i)])

\* format_system_snapshot: the rows that have an incident of their own.
RowIcon(s, key) ==
    CASE key = <<"system", "cpu">> -> ResourceIcon(s.cpu >= CpuWarning)
      [] key = <<"system", "load">> -> ResourceIcon(s.load >= LoadWarning)
      [] key = <<"system", "memory">> -> ResourceIcon(MemoryHigh(s))
      [] key = <<"system", "swap_pressure">> ->
            IF s.swap.total = 0 THEN "inactive" ELSE ResourceIcon(SwapHigh(s) /\ MemoryHigh(s))
      [] OTHER -> DiskIcon(DiskUsage(s, CHOOSE i \in DOMAIN Mounts : Mounts[i] = key[2]))

\* render_web_checks.
WebIcon(r) ==
    IF ~r.healthy THEN "critical"
    ELSE ResourceIcon(\E d \in r.days : d > 0 /\ d <= WarningDays)

Severities(observed) == {observed[i].severity : i \in DOMAIN observed}

\* render_status_digest: server, disk and web line, and the line of the incidents.
DigestServer(s) ==
    IF "critical" \in Severities(ObserveSystem(s)) THEN "critical"
    ELSE ResourceIcon(ObserveSystem(s) # <<>>)
\* (No disk line without a disk.)
DigestDisk(s) ==
    {DiskIcon(DiskUsage(s, i)) : i \in {j \in DOMAIN s.disks :
                                          \A k \in DOMAIN s.disks : DiskUsage(s, k) <= DiskUsage(s, j)}}
DigestWeb(r) == IF r.healthy THEN "healthy" ELSE "critical"
DigestIncidents == Worst({incidents[k].severity : k \in Confirmed(incidents)})

-----------------------------------------------------------------------------
SystemScope == {"system", "disk"}
WebScope == {"web", "tls"}

\* A quiet machine; nothing has been recorded yet.
QuietProbe == [status |-> {StatusMin}, handshake |-> TRUE, left |-> {(WarningDays + 1) * Day}]
Init ==
    /\ system \in {s \in Snapshots : ObserveSystem(s) = <<>> /\ Overall(s) = "healthy"}
    /\ web = CheckOne(QuietProbe)
    /\ incidents = <<>> /\ ending = 0 /\ ended = 0

\* cycle: the collector, its incidents, and the incident about the collector.
CollectSystem ==
    /\ system' \in Snapshots
    /\ incidents' = ReconcileCollector(Reconcile(incidents, ObserveSystem(system'), SystemScope),
                                       "agent:collector:system", FALSE)
    /\ UNCHANGED <<web, ending, ended>>

\* A certificate in its warning period is read; one has no whole day left, read or not.
Ending(p) ==
    /\ p.status # {} /\ p.handshake
    /\ \E left \in p.left : Day <= left /\ left < (WarningDays + 1) * Day
Ended(p) == \E left \in p.left : left < Day

CollectWeb ==
    /\ \E p \in Probes :
         /\ web' = CheckOne(p)
         /\ ending' = IF Ending(p) THEN Saturating(ending) ELSE 0
         /\ ended' = IF Ended(p) THEN Saturating(ended) ELSE 0
    /\ incidents' = ReconcileCollector(Reconcile(incidents, ObserveWeb(web'), WebScope),
                                       "agent:collector:web", FALSE)
    /\ UNCHANGED system

\* The collector task fails: the incidents of its readings stay as they are.
SystemFails ==
    /\ system' = Failed
    /\ incidents' = ReconcileCollector(incidents, "agent:collector:system", TRUE)
    /\ UNCHANGED <<web, ending, ended>>

WebFails ==
    /\ web' = Failed
    /\ incidents' = ReconcileCollector(incidents, "agent:collector:web", TRUE)
    /\ UNCHANGED <<system, ending, ended>>

Next == CollectSystem \/ CollectWeb \/ SystemFails \/ WebFails

Spec == Init /\ [][Next]_vars

-----------------------------------------------------------------------------
\* The rows of the system screen.
SystemKeys == {<<"system", r>> : r \in {"cpu", "load", "memory", "swap_pressure"}}
              \cup {<<"disk", Mounts[i]>> : i \in DOMAIN Mounts}

\* Where disk_warning_percent is set above 95, a disk in between is red on every
\* screen and no incident at all: the severity that is missing, of these rows.
Unobserved(s) == {i \in DOMAIN Mounts : DiskUsage(s, i) \in 95 .. DiskWarning - 1}
Missing(s, keys) == {"critical" : i \in {j \in Unobserved(s) : <<"disk", Mounts[j]>> \in keys}}

SystemScreenTells(s) ==
    LET observed == ObserveSystem(s)
        ofKey(k) == {observed[i].severity : i \in {j \in DOMAIN observed : observed[j].key = k}}
    IN  /\ Overall(s) = Worst(Severities(observed) \cup Missing(s, SystemKeys))
        /\ DigestServer(s) = Worst(Severities(observed))
        /\ DigestDisk(s) = IF Mounts = <<>> THEN {}
                           ELSE {Worst({DiskIcon(DiskUsage(s, i)) : i \in DOMAIN Mounts})}
        /\ \A k \in SystemKeys :
             \/ RowIcon(s, k) = Worst(ofKey(k) \cup Missing(s, {k}))
             \/ RowIcon(s, k) = "inactive" /\ ofKey(k) = {}

WebScreenTells(r) ==
    /\ WebIcon(r) = Worst(Severities(ObserveWeb(r)))
    /\ (WebIcon(r) = "critical") = (DigestWeb(r) = "critical")

\* What the monitor would call an incident is what the screens and the digest
\* show, although each judges the readings for itself.  The first line of the
\* system screen has the icon of the worst observation, each row that of its own,
\* and the two digest lines say the same of resources and disks.  The web screen
\* has the icon of the worst observation about its site, and is red when the web
\* line of the digest is.  (The one exception is a disk at 95 or more under a
\* warning threshold above that: it is red, and nobody's incident.)
ScreensTellIncidents ==
    /\ ~IsFailed(system) => SystemScreenTells(system)
    /\ ~IsFailed(web) => WebScreenTells(web)

\* From the first day of its warning period on, over the expiry and beyond, a
\* certificate that was checked is somebody's incident, whatever is rounded.  And it
\* is announced: the warning once Confirmation checks in a row have read it, the
\* outage once as many have met the last day or an expired certificate, answered or
\* not, and however often the collector failed in between.  (The warning recovers
\* with the first check of the last day, so that up to Confirmation - 1 checks pass
\* in which nothing is announced: the new row is there, and not yet confirmed.)
NoGapBeforeExpiry ==
    /\ (~IsFailed(web) /\ \E left \in web.probe.left : left < (WarningDays + 1) * Day)
       => \E k \in DOMAIN incidents : k[1] \in WebScope
    /\ ending = Confirmation => <<"tls", "site">> \in Confirmed(incidents)
    /\ ended = Confirmation => <<"web", "site">> \in Confirmed(incidents)

\* Trouble that has lasted is counted as bad as it looks now: once every row is
\* confirmed and both collectors work, the line of the incidents has the worst
\* of the icons of the system and the web screen, although severities change
\* between passes and collectors come and go.  (But for the disks that are red and
\* not observed.)
LastingTroubleIsCounted ==
    (/\ Confirmed(incidents) = DOMAIN incidents
     /\ ~IsFailed(system) /\ ~IsFailed(web))
    => Worst({DigestIncidents} \cup Missing(system, SystemKeys))
         = Worst({Overall(system), WebIcon(web)})
=============================================================================
