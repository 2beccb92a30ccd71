# Formal model of the G7Telegram DevOps agent

TLA+ modules, TLC configurations and TLAPS proofs for `g7tg-agent`, the process that watches
one server and lets one Telegram user manage it. The models are written from the Rust sources in
`crates/g7tg-agent/src` (short names below: `runtime.rs`, `monitor.rs`, `storage.rs`, ...) and the
shell scripts of `packaging/`; `PROJECT.json` names the lines each definition stands for.

    cd tla
    tlc -workers 2 -config AlertsSafety.cfg MCAlerts.tla     # one of the runs below
    tlapm UpdateLoopProofs.tla                               # one of the proof modules

## 1. The system

One process, `g7tg run`, does everything in one task: `runtime::run` selects between SIGINT, the
monitor interval and a `getUpdates` long poll. A monitoring cycle and an update handler never
interleave with each other. What does interleave with them:

- `g7tg pair`, `unpair`, `power` and `setup`, processes of their own on the same SQLite file,
  `agent.toml` and sentinel file, which may be killed and may overlap one another;
- Telegram, which delivers an update until a larger offset is polled, and which may act on a call
  whose answer is lost; and the messages of the chat, whose buttons stay when the world changes;
- systemd, which restarts the agent after a failure (`Restart=on-failure`), whose units change
  between two `systemctl` calls, and the server, which reboots, sometimes because the agent
  asked for it;
- the clock, against which every token, code, silence, record and log row expires.

Every handler is a sequence of short store calls and awaited outside calls. Each may fail;
`handle_update_with_retry` then runs the handler again **from its first line**, and a crash makes
Telegram deliver the update once more. This is where the hard behaviour is: a handler must be
safe to repeat after any prefix of itself.

| component | state | operations | correct when | module |
|---|---|---|---|---|
| update loop (`runtime.rs` 22-131) | offset in SQLite and in memory, the reply in hand, attempts | poll, receive, handle, retry, dead letter, store offset, crash, restart | every update is handled or recorded as failed, in order, with bounded repetition | `UpdateLoop` implements `Settlement` |
| monitoring and alerts (`monitor.rs`, `storage.rs` 690-1040) | incidents, outbox, silence, digest setting | reconcile per collector, discard, deliver, mark, digest; set/clear silence | outbox and incidents agree, the chat knows the truth, silenced alerts stay silent, nothing is lost or stuck | `Alerts` |
| service restarts (`runtime.rs` 511-755, `storage.rs` 435-529, `actions.rs`) | approvals table, audit log | plan, confirm, cancel, prune | one restart per token, by the owner, in time, never after a cancel or unpair | `ServiceAction` implements `OneTimeGrant` |
| server reboot (`runtime.rs` 218-352, `storage.rs` 531-688, `power.rs`) | phrase, pending record, boot id | plan, cancel, phrase, order, boot, completion notice | no reboot loop, order last, completion announced when it is true, and once | `ServerReboot` implements `OneTimeGrant` |
| pairing and owner (`storage.rs` 203-406, 1113-1166, `main.rs`) | code, owner, failure rows | pair, pair --replace, unpair, consume | one use per code, owner kept, guesses bounded | `Pairing` |
| power setting (`setup.rs`, `config.rs`, `packaging/`) | `agent.toml`, the sentinel, the flag in the agent's memory | enable, disable with rollback, setup, upgrade | the three agree, or somebody was told | `PowerSetting` |
| menus (`menu.rs`, `runtime.rs` 363-755) | the messages of the chat, their buttons | every callback | what is offered is done, what was applied is shown | `Menus` |
| readings (`system.rs`, `web.rs`, `tls.rs`, `monitor.rs` 283-392, `ui.rs`, `menu.rs`) | the last reading, the incidents made of it | judge a reading, in five places | monitor, screens and digest agree, no gap between warning and outage | `Observations` |
| service inventory (`services.rs`) | the discovery in progress, the inventory | list, show, reconcile | nothing configured gets out of sight, passes are counted | `Inventory` |
| audit log and history (`storage.rs` 1190-1289) | the two tables | write and prune in one transaction, from two processes | no row goes early, old ones go, the maxima hold | `Retention` |

## 2. Modules

**Settlement, UpdateLoop, UpdateLoopProofs.** `Settlement` says what the bot may rely on: updates
are settled one after the other, as `handled` or `dead`, and stay so. `UpdateLoop` is
`runtime::run` with `handle_update_with_retry`; it implements `Settlement` with the stored offset
as cursor (`SettlesInOrder`).

- `offset` is the variable of the same name and the update being handled; `dbOffset` is
  `metadata.telegram_update_offset`; `upto` is the end of the reply in hand.
- `Poll` and `Receive` are separate because the monitor tick can cancel the poll in between, when
  Telegram has already dropped what lies below the offset (`confirmed`).
- `TickFires` may happen at any time, also during a cycle, `StartCycle` drops the poll for a tick
  that is `due`. `EndCycle` says whether the cycle was `late`: whether the next tick is due already,
  or so close that no poll will be answered before it.
- `HandleFails`, `DeadLetter` and `DeadLetterFails` are the arms of the retry loop and the `break`
  of `run`. `Crash` also stands for a failed `set_update_offset`, which ends `run`.
- An update handler is one step here; its inside is the subject of the other modules.

**Alerts, MCAlerts, AlertsProofs.** `monitor::cycle` step by step: per collector
`CollectorObserved` (one transaction of `reconcile_incidents_scoped`) and `CollectorHealthy`, or
`CollectorFailed`; then the silence branches, the outbox loop (`LoadBatch`, `SendNotification`,
`MarkSent`) and the status digest. The callbacks `SetSilence`, `ClearSilence`, `SetDigest` run
between cycles, `Unpair` at any time. `Interrupted` is a crash or failed store call between two
steps; `SendFails` an error whose text may have arrived. A status digest is three steps:
`BeginStatusDigest` reads the time (`stamp`), `SendStatusDigest` delivers, any time later, and
`MarkStatusDigest` stores the time that was read. `Summarised` is the silence digest, which names
`SummaryLimit` incidents and counts the others. `Retain` removes at most `PruneLimit` aged rows in
one reconciliation, then those over `MaxRows`. `told`, `counted`, `delivered`, `hushed` and the
like are history variables for the properties.

**OneTimeGrant.** What a confirmation over Telegram promises, whatever it is for: a grant is handed
out once, accepted at most once while it is open, takes effect at most once and only if accepted,
and may be withdrawn for good. Two flows with nothing in common in the code implement it.

**ServiceAction, ServiceActionProofs.** One callback at a time, cut at every await: `CheckOwner`,
`Issue`, `PruneAfterIssue`, `Offer`; `ConsumeConfirm`, `Answered`, `Discovered`, `Execute`,
`Refreshed`, `Record`, `Tidy`, `Reply`. `Retry`, `GiveUp` and `Crash` strike at any of them;
`Unpair` and `Tick` in between. `Execute` may or may not have restarted the unit whatever it
reports, since a timeout leaves the child running. One unit stands for all, as no step depends on
which unit a token names.

**ServerReboot, ServerRebootProofs.** The handlers of the phrase and the startup of the agent
(`notify_completed_reboot`) around the boots of the machine. `press` is the update Telegram keeps
until it is settled, so that `Redeliver` gives it to the booted agent again. `Shutdown` may come
anywhere after the order, also before the offset is stored; `OtherReboot` is one the agent did not
order.

**Pairing, PairingProofs.** `consume_pairing_code` as called for every private text (`Ignored`,
`Failed`, `Paired`), against `g7tg pair` (`StartPair`, `WriteCode`, `ResetAndPrint`: two statements
and a print, and it may die between them) and `g7tg unpair`. `RowAfterFailure` is the arithmetic of
`register_pairing_failure_on`.

**PowerSetting, PowerSettingProofs.** The commands that touch `agent.toml` and the sentinel as programs over file
operations: `replaceConfig`, `chownConfig`, `replaceSentinel`, `chownSentinel`, `removeSentinel`.
`write_atomic` renames a file of root:root into place and `set_owner_and_mode` gives it to the
agent's group, so that between the two the agent cannot read its file and the helper does not
accept the sentinel. `Continue` is the order of the phases, `GiveWay` the rollback of
`set_server_reboot_enabled`; `setup` has none. `Kill`, `FileFails`, `StepFails`, `AgentStops` and
`AgentStarts` strike anywhere.

**Menus, MCMenus, MenusProofs.** `messages` holds what each message of the chat shows, `Buttons` the callback
data on it. A press runs `Handle`, a disjunct per prefix of `handle_callback`, then the calls it
has left in `todo`: edit the message, answer the press, for a confirmation answer, restart and
edit. `CallFails` runs the handler again; `WorldChanges` changes units, allowlist, flags and
approvals at any step. `fresh` is the set of messages behind which nothing has changed. The
inventory is a set of names, and `UnitOf` says which unit a name belongs to: a unit that is found by
itself and configured under a second name is there twice, its buttons carry the key of the unit, and
`HandleService` and `HandlePlan` act only on exactly one match (`OneMatch`).

**IncidentTable, Observations, MCObservations, Inventory, MCInventory, MonitorProofs.**
`IncidentTable` declares the table and has one call of `reconcile_incidents_scoped` as a function
of it, where `Alerts` has it as transitions. `Observations` puts readings through `observe_system` and `observe_web` and through
the functions that draw the system screen, the web screen and the digest. `Inventory` is
`services::discover` call by call, with units that change between the calls and units with a
second name, and `observe_services` over the result. `Alerts` takes what a collector observes as
any subset of its keys; these two modules say which subsets and in which states of the machine.

**Retention, MonitorProofs.** The deletions of `prune_audit_on` and `prune_table_to_max_on`
inside the transactions of agent and console. `clock` is the time the agent read before it waited
for the database: ids and times need not be in the same order. One proof module extends
`Observations`, `Inventory` and `Retention`, which need the same facts about finite sets and lists;
so that their names stay apart, the specifications of the last two are `DiscoverySpec` and
`LogSpec`.

Definitions commented as *Faulty variant* are not part of the models: each is a plausible mistake
in one definition, used to show that a property would notice it.

## 3. Runs

All bounds are constants in the cfg files.

| run | what it asks | bounds | distinct states |
|---|---|---|---|
| `update_loop` | nothing forgotten, bounded attempts, one repetition, refinement of `Settlement`, every update settled | 3 updates, replies of 2, 3 attempts, 2 failures, ticks and late cycles anywhere | 344 000 |
| `alerts_safety` | incident table, outbox, silence and chat agree; order, no loss, no duplicate without failure | 1 collector, 2 keys, confirmation 2, 3 rows kept, rows aged after 1 s and removed one at a time, a summary of 1, 4 ids, time 0-2, 1 failure, 1 unpair | 3.0 million |
| `alerts_live` | digests an interval apart, every notification settled, silences end | batch 1, a rejected observation, digests every second, time 0-2, 1 failure, 1 unpair | 115 000 |
| `alerts_isolation` | violation: a rejected observation ends the cycle | 2 collectors | - |
| `service_action` | in time, accepted from the owner, live approvals kept, refinement of `OneTimeGrant` | 2 users, 2 tokens, table of 1, 2 attempts, 2 failures, 2 owner changes | 1.6 million |
| `server_reboot` | order after the record, refinement of `OneTimeGrant` across boots, completion told, not lost, not repeated without a cut-off, settled in the end | 2 users, 2 phrases, 2 boots, 2 attempts, 2 failures, 2 owner changes, time 0-1 | 1.8 million |
| `pairing` | single use, owner kept, comparisons bounded, a new code unblocks | 2 users, 2 codes, limit 3, window 2, time 0-3 | 4.0 million |
| `power_setting` | PASS is true, a rollback restores, damage was reported | 2 commands of 3 kinds, 3 failing operations, kills | 331 000 |
| `menus` | nothing fresh is refused, what was applied is shown | 2 messages, 2 units with 3 names, one name to a page, 2 attempts, 1 failure, 1 change | 10.1 million |
| `observations` | five judgements of one reading agree, no gap before a certificate expires, severities are current | readings on both sides of the thresholds, 2 disks, disk warning 85, days of 3 s, certificates of -4 to 6 s, confirmation 2 | 36 000 |
| `inventory` | passes are counted, configured units stay in sight | 3 names of 2 units, confirmation 2 | 249 000 |
| `retention` | nothing goes early, the backlog shrinks | 5 events, 3 rows kept, time 0-5, chunk 1 | 1.3 million |

Deadlock is checked except in `power_setting`, where the commands have an end, and in `retention`,
where the events of the instance are used up.

Why the bounds are enough. Every limit of the code (outbox rows, their age, the rows one pass
removes, the incidents a summary names, approvals, attempts, batch, confirmation, windows, log rows)
is reached and exceeded in the instance that depends on it, and
the coverage of TLC shows every action and disjunct taken. A failure that meets a retry covers the
dead letter; two allow a crash during the recovery from a crash. Two owner changes allow the owner
to be unpaired and paired again, or replaced and restored, with rows left behind. Two tokens,
phrases, codes or messages allow a newer one to meet an older one. Time moves past every expiry, and
stands still for the case that everything happens in one second. `server_reboot` has the smallest
bounds for its size (lifetimes of 0 s, one boot after the first): three of its five properties are
proved for all values, and the other two are about the boot after an order. In `observations`
the load stays below its threshold; memory and CPU, which are judged in the same way, cross
theirs. Its certificates lie on both sides of the first day of the warning period and of the last
day, one has expired for more than a day, and every handshake may fail. Its disk warning is the
default of 85; that the judgements agree for every other one, those above 95 included, is what
`ScreensAgree` and `TroubleIsCounted` prove.

In `alerts_safety` a reconciliation that would leave no id for the recovery of an open incident is
disabled, as the ids are bounded; `MaxId = 4` is two openings and two recoveries of the two keys,
or one flapping key.

### Fairness

- `UpdateLoop!FairSpec`: weak fairness of the task's steps, of the ticks and of systemd's restart.
  Nothing in the code keeps a cycle shorter than the monitor interval (web checks run one after the
  other, up to twenty notifications are sent, each call with a timeout of its own), and a tick that
  is ready when the select is entered drops the poll before it can be answered. So a poll is given
  strong fairness only behind cycles that were not `late`, and `EverySettled` has the third way out
  that the code has: from some point on every cycle is late. Then the agent goes on monitoring and
  answers nobody.
- `Alerts!FairSpec`: the cycle's steps go on (every outside call has a timeout) and the clock moves.
  No fairness is assumed of users, owners, failures or their absence; failures are bounded.
- `ServerReboot!FairSpec`: startup and handlers go on, systemd restarts the agent, an accepted
  shutdown happens.

The safety runs assume nothing.

## 4. Proofs

The proof modules are checked for every value of the constants, from the assumptions named in the
component's module (limits are positive, sets are finite) and nothing else. Each has an inductive
invariant that is stronger than what it is for, one lemma per group of steps that disturbs it, and
a theorem that the invariant holds (`Inductive`, or `ScreensInductive`, `DiscoveryInductive` and
`LogsInductive` where one module has three). One assumption says more than that:

- `PageAssumption` of `Menus`: a list of units has at most 1000 pages of `PageSize`. The code lists
  any number of units and refuses page numbers above 999, so that with more than 8000 units the last
  page that can be opened would offer a next one that cannot.

**UpdateLoopProofs.** `IInv` adds three named parts to `TypeOK`. `Cursor`: the in-memory offset
equals the stored one while the process runs, a batch in hand lies between the offset and the newest
update, and an update whose offset is being stored is settled. `Progress`: what was confirmed to
Telegram does not pass the stored offset, and everything below that offset is settled.
`RepeatsAtMostOne` is the third. Settledness cannot be read off the offset alone, which is why the
invariant is needed: between the handler and `set_update_offset` an update is settled above the
stored offset, and a crash there is what repeats it. `BoundedAttempts` needs a second invariant
relating attempts on the current update, failures and `MaxAttempts`. `Refinement`: a step of the
loop is a step of `Settlement` (exactly `StoreOffset` and `Arrive`) or leaves its variables alone.

**AlertsProofs.** `SilenceHolds`: nothing recorded while an expiry is stored is delivered, and
`SentIsTrue`: what is marked was delivered. The loaded batch outlives the store it was read from, so
the invariant follows ids: they are handed out once (`Numbered`), hushed rows are pending only while
an expiry is stored (`Hushed`), the delivery loop is entered and stays without one (`Delivering`),
the row about to be marked was delivered (`Marking`). `DigestsSpaced` has an invariant of its own,
`Spaced`: the stored time lags behind the one stamped on the last digest that arrived only after a
failure, or between its arrival and `MarkStatusDigest`. The distance it speaks of is that between
the reading of one digest and the arrival of the next. Two arrivals may be closer than the interval,
by the time the first was on its way; the code promises no more.

The outbox needs two more layers on `IInv`. `Queued`: ids order the rows as their recording did
(`Identified`, `Chronological`), whatever is marked precedes whatever is pending (`SentFirst`), the
batch is a prefix of what is pending (`BatchIsOldest`), and the rows of one incident alternate and
end with what the incident table says (`OutboxMatchesIncidents`). Without the middle two the last is
not inductive: a mark put on any but the oldest pending row, or a retention that dropped any but the
oldest rows, would leave a row whose predecessor is missing. That retention keeps a suffix is a lemma
about ranks in finite sets (`RetainKeepsNewer`), and so is that a row dropped for its rank leaves
`MaxRows` newer ones behind (`RankedOut`). `Told` is about the chat: nothing was delivered twice,
an incident without undelivered pending rows is one about which chat and table agree (`Informed`),
and the end of a silence is cleared only after a summary that named or counted all that is open
(`Announced`). An incident stays counted until the chat hears of it by name, be it of its recovery
or in the alerts view. From
these layers follow `OutboxTrue`, `InOrder`, `NothingLostSilently`, `NoneTwice` and `OwnerKnows`.

**ServiceActionProofs.** `Rows`: an unconsumed row belongs to a token that was never accepted, so
that consuming it is the only way to an acceptance; `Pending`: a token on its way to the restart was
accepted, has not restarted anything and is not withdrawn. From them `AtMostOneRestart`, `WithdrawnIsDead`,
`InTime`, `FromTheOwner` and the `Refinement` of `OneTimeGrant`, with a lemma for each of its
actions. The owner is checked in a step before the row is read; what makes `FromTheOwner` true is
that pairing goes through the same task and an unpairing leaves no row: when the row is read, the
user who pressed is still the owner or the table is empty (`Pending`). `LiveKept` adds that tokens
are handed out in order (`Separate`): a row that pruning leaves out has `MaxApprovals` rows above it
that stay.

**ServerRebootProofs.** The same argument across boots: rows are phrases never accepted (`Rows`), a
phrase on its way to the order was accepted in this boot and is on record (`Running`, `Record`),
and an announcement still to be cleared was made at most once more than it was cut off (`Notices`).
`NoRebootLoop`, `RecordComesFirst`, `WithdrawnIsDead`, `CompletionIsTrue`, `CompletionIsToldOnce`
and the `Refinement` of `OneTimeGrant` follow. `CompletionIsKept` rests on `Fresh`: past its start
the agent holds no record of an earlier boot, so that only the start can forget one.

**PairingProofs.** `Stored`: the code in the table was not used and is not retired. `Counted`: a
failure row counts no more than the failures since the last new code, one that is full blocks its
user for `Block` seconds from the start of its window or longer, and no other does. `UsedOnce`,
`OwnerKept` and `BlockedForAReason` follow. `ComparisonsBounded` has an invariant of its own,
`WindowsHold`: the last failures of a user are those the row counts, and of the earlier ones at most
`Limit - 2` are less than `Window` older than its start, because a window with more would have
blocked the user until all of them were old.

**MonitorProofs.** What the code computes in one pass over a list (of disks, of notices, of
observations, of units) is a fold here, and says something about every list only by induction. The
library's induction takes a predicate as a parameter; stated with the *set* of numbers that have
the property (`Induction`, from the smallest number outside the set), it does not. `ObserveFold`,
`IconFold` and `FlattenPrefixes` use it to turn each fold into the sequence of its intermediate
results, and everything after them is about one element of that sequence and the next.

`SInv` of the readings: while a collector works, the rows of its scope are those of the observations
of its last reading, with their severities, and no row belongs to nobody. `ScreensAgree` compares the icon of a screen with
the severities behind it, judgement by judgement (`DiskLineTells`, `SystemTells`, `WebTells`), and
in `TroubleIsCounted` the worst of all rows is the worst of both screens (`WorstOfBoth`). Both hold
for every disk warning the configuration takes: `Missing` is what a warning above 95 leaves out, and
where there are no such disks it is empty. `CertificateIsWatched` is arithmetic of seconds and whole
days, rounded towards zero (`DaysRounded`, `SecondsRead`, `CertificateObserved`), on top of `SInv`,
whose part `Watching` follows the passes in a row: the count of a row is at least the number of
checks that read its trouble, so that after `Confirmation` of them it is announced (`WatchingKept`).

`DInv` of the inventory: `Discovery` says what the list in hand holds after each call, `Counting`
that a row counts every pass that saw its unit unhealthy, up to `Confirmation`, and none more often
than once per name of the unit. How often one pass
counts is the number of places of a key in the list of observations (`ObserveCounts`,
`PlacesOfFlatten`); `PassesAreCounted` bounds it by an injection of the entries that show a unit
into the names it is found under. `NoneIsLostSightOf` says of a completed discovery that a
configured unit is in the list and, unless it runs, in the table.

`LInv` of the logs: ids are unique and grow, and both tables stay below their maxima.
`NothingGoesEarly`: a row that is deleted is older than the retention or leaves as many newer ones
as the log may hold. It rests on facts about finite sets of numbered rows: the rows with fewer than
*n* newer ones are at most *n*, and a row that is cut off leaves *n* of them behind.
`BacklogShrinks`: a transaction that does not remove all events that are too old by its clock has
removed a whole chunk of them.

**PowerSettingProofs.** `NoSilentDamage`, `PassCanBeTrusted` and `RollbackIsComplete`, for any number
of commands that run beside each other without a lock. The two files may be unsound in four ways,
and `Sound` names for each the command that will still repair it or find it out: `Readable` and
`Owned` the one that has yet to give a file away, `Agreed` the power command that has written one
file and not the other or has yet to look back, `Written` the setup that owes the sentinel. When that
command breaks off instead, it rolls back, has failed or was killed (`Troubled`), and that never goes
away. What a rollback restores can be said only of a command beside which nobody ran: `AloneRuns`
and `Undisturbed`, which follows such a command phase by phase.

**MenusProofs.** A screen is `Honest` when each of its buttons would be served now. `FreshIsHonest`
says it of the messages behind which nothing has changed, `ViewIsHonest` of the view between dispatch
and edit; the step that could break them without any change of the world is the consumption of an
approval, which takes the messages that show it out of `fresh`. The buttons of a unit that is
listed twice are the ones left out. `NoEmptyOffer` follows with one lemma
about what a screen offers (`OfferIsServed`) and one about what a handler refuses (`ServedIsDone`).
`Applied` carries the stored value and its screen from the dispatch to the answer;
`WhatIsAnsweredIsShown` reads it off.

Properties that are proved and have no run of their own, since the refinements or the invariants
above imply what an instance could show: type correctness of the modules, `HandledInOrder`,
`RestartedAtMostOnce`, `WithdrawnNeverRuns`, `OneRebootPerPhrase`, `WithdrawnNeverReboots`,
`CompletionFollowsApproval`, `LogsAreLimited`.

Every invariant and action property of the passing runs is stated by a theorem. Checked by TLC only
is liveness: `EverySettled`, `EventuallySettled`, `SilenceEnds` and `CompletionSettled` hold under
fairness, which the prover cannot treat. That `alerts_isolation` finds its violation is likewise
what a run shows.

## 5. Where code and documents part

`alerts_isolation` shows the one that matters most: `monitor::cycle` uses `?` on the
reconciliation, and one observation that `validate_incident` rejects ends the cycle before the
other collectors and the delivery, in every cycle that sees it. `docs/IMPLEMENTATION_PLAN.md:38`
promises isolation by collector.

The others were met while modelling, and the models contain them:

- `runtime.rs:733`: after a restart, a failing status read leaves the handler before the audit row;
  the retry finds the token used. `docs/IMPLEMENTATION_PLAN.md:32` promises the log.
- `runtime.rs:673`: a plan whose owner check came before `g7tg unpair` inserts its approval after
  it. `docs/SECURITY.md:9` says that approvals are discarded. It is of use only to the same user,
  paired again within its lifetime, and `AcceptedFromTheOwner` holds.
- `storage.rs:1130`: the window of failures is fixed, not sliding. `docs/OPERATIONS.md:54` says five
  failures within a minute; what holds is `ComparisonsAreBounded`, `2 * Limit - 2` in any window.
- `setup.rs:66`: when saving and rolling back have both failed at `chown`, the operator is sent to
  `g7tg doctor`, which runs as root, compares the flags and passes, while the agent cannot read its
  file. `power enable` with the value it has already writes nothing (`setup.rs:48`) and does not
  repair the owner.
- `runtime.rs:420`: `power:cancel` shows the power menu without asking for the setting;
  `docs/OPERATIONS.md:179` says that it appears only where it is enabled. Its buttons are refused.
- `monitor.rs:329`: the critical limit of 95 % is asked behind `disk_warning_percent`, which may be
  99 (`config.rs:205`): a disk in between is red on the screen and nobody's incident
  (`docs/OPERATIONS.md:81`). `ScreensTellIncidents` and `LastingTroubleIsCounted` name such
  disks as their one exception.
- `monitor.rs:380`: the TLS warning ends when the last day begins or the check fails, with the same
  message as a recovery. `NoGapBeforeExpiry` shows that the row of the outage is there in the same
  pass; it is announced once it is confirmed, `incident_confirmation_count` - 1 checks later.
- `services.rs:24`: a unit configured under a second name is in the list twice, and one pass counts
  twice towards `incident_confirmation_count` ("consecutive times", `config.rs:43`); `CountsPasses`
  has the bound that holds. Its button finds two services and is refused (`runtime.rs:562`, `661`)
  as long as both are listed, which is the exception in `RefusedOnlyIfStale`.
- `storage.rs:1226`: only a transaction that writes an event removes old ones. On a quiet server
  they stay for longer than the 30 days of `docs/OPERATIONS.md:171`.

Without a document to contradict: `mark_reboot_pending` comes before the audit and the
announcement, so that a failure there leaves a record whose reboot was never ordered, and an
unrelated reboot within the hour is announced as its completion (`CompletionFollowsApproval` is what
holds). A retried `action:cancel` after a lost answer says "already used". The back button of the
reboot confirmation leaves the phrase alive. A disk that climbs from warning to critical is updated
in the table, which the digest shows, but not announced again. The web line of the digest is green
during a TLS warning. A reply of `getUpdates` that does not parse fails every poll. A silence that
ends with more than ten open incidents names ten of them. Cycles that outlast the monitor interval
leave no time for a poll. A status digest that is slow to send brings the next one closer to it than
the interval, since its time is that of the start.

## 6. Not modelled

- Texts, column layout, JSON, HTTP, TLS, TOML and the output of `systemctl` beyond what a judgement
  depends on.
- The two statements of `Store::owner` are one read. An unpairing between them produces one more
  error of a kind the models have; a replacement between them an owner made of two.
- The wait of `setup` for an owner, its prompts, the allowlist and the secret file; `doctor` and
  `status`, which only read.
- A clock that is set back. The code compares wall-clock seconds everywhere; the branch that a
  pending reboot has for a negative age (`storage.rs:665`) is in `Completable` and never taken.
- Building, installing and releasing, except what `postinst` does to owners and modes.

## 7. Plan

Done, in this order: the loop every handler depends on, the two flows with effects outside, who may
start them, alert delivery; then the proofs of these; then the files behind the power setting, the
menus, the readings, the inventory and the logs; then the outbox, the power setting and the menus
proved for every value of the constants; last the readings and the inventory, with which the
invariants and action properties of all runs are proved.

Left:

1. The torn read of `Store::owner`, with the startup, the handlers and the wait of `setup`.
2. Two collectors in the safety run of `Alerts`, with the observations of `Observations`: the two
   descriptions of a reconciliation, by transitions and as a function, would then be one.
