# SilentMap in TLA+

SilentMap watches a local network. Collectors hear packets and publish
`device.seen`; a registry keeps one row per MAC address in SQLite and decides
when a device is new, lost or back; an alert engine turns those events into
notifications; a web server shows the devices and changes devices and settings.
This directory holds TLA+ modules for the parts of it that keep state and run
concurrently, the TLC configurations that check them on small instances, and
TLAPS proofs of their safety properties.

Paths below are relative to the repository; line numbers are those of `src/`.

## 1. Inventory

| Part | State | Operations | What makes it correct |
|---|---|---|---|
| Registry (`internal/registry/registry.go`) | `devices` rows; `lastWrite`, `paused` under `r.mu` | `handleSeen`, `checkOffline`, `MarkHttpServiceOffline`, `AddManual`, `Import`, `Delete`, setters, `SetListening` | One announcement per appearance, loss and return; debouncing never starves the offline checker; map and table agree |
| Collectors ARP, DHCP, mDNS (`internal/collectors/*`) | sockets | publish `device.seen` | they say only what their packets can say |
| Poller (`collectors/ping/ping.go`) | interval, ticker, time of the last round | ask every device, publish `device.seen` for an answer | a device that answers is never taken for lost |
| HTTP checker (`collectors/httpcheck/httpcheck.go`) | counts of failures | probes, verdicts, sightings | a loss only after a row of failures; a dead service goes offline |
| Bus (`internal/bus/bus.go`) | handler lists | `Publish`: synchronous handlers inline, the others in a goroutine each | no deadlock with `r.mu` held, no lost event |
| Alert engine (`internal/alerting/engine/engine.go`) | `cooldown`, `maintenanceUntil`, batch | `onDeviceNew/Lost/Back`, `fire`, `flush`, cleanup | one alert per cooldown; silence in maintenance; every batched alert goes out |
| Settings (`internal/web/server.go`) | `settings.json`, the components' own copies | load, change, save, apply; restore at start | what is in force is what a restart restores |
| Authentication (`internal/auth/auth.go`) | `auth.hash`, the hash and the sessions in memory | setup, login, logout, change of the code, `requireAuth` | who is served is logged in; a restart keeps the code |
| nmap (`internal/scanner`, `server.go:285-324, 1724-1787`) | set of keys being scanned | automatic and manual scans | one scan per key, every scan ends |
| Groups (`registry.go`, `migrate.go`) | `device_groups` | create, move, delete, number at start | distinct places, a list |
| Memberships and connections | `device_group_members`, `device_connections` | add, remove, cascade of deletions | nothing left over, no connection twice |
| Export and import | none | JSON of rows, groups, memberships, connections | a backup names every device, group, membership and connection, and restores these |
| Start (`cmd/silentmap/main.go`) | none | subscribe, wire, start goroutines | everybody listens before anybody speaks |
| Channels (ntfy, Discord, e-mail, webhook) | configuration | `Send` | network I/O |
| Pages, configuration, migration, vendor table, i18n, themes, crypto | read once or not at all | rendering, conversions | no control |

How they interact. A collector calls `Publish(device.seen)`; the bus runs
`handleSeen` on the collector's own goroutine. `handleSeen`, the checkers and
the web handlers take `r.mu` for a region, release it, and take it again for the
next one: what they read in the first region may be stale in the next.
`device.new`, `device.lost` and `device.back` are published while `r.mu` is held,
and the alert engine's handlers run in goroutines of their own. The settings page
calls the registry, the pollers and the engine directly.

What is hard: two goroutines between the regions of the same operation; stale
reads; tickers that are not aligned with anything; a process that dies between
an UPDATE and what belongs to it; a settings file that is emptied before it is
written. `PROJECT.json` lists every hazard at its line with the properties that
watch it.

## 2. Modules

| Module | Models | Uses |
|---|---|---|
| `Registry` | the device life cycle, with every goroutine that touches a row | |
| `Poller` | ticker, intervals, rounds and answers of the poller, with the registry | extends `Registry` |
| `HttpCheck` | the HTTP checker's rounds, counts and verdicts, with the registry | extends `Registry` |
| `Throttle` | abstract: what the documents promise of deduplication | |
| `AlertEngine` | handlers, cooldown, cleanup, maintenance, batch | implements `Throttle` |
| `Settings` | `settings.json` and what is in force | |
| `GroupList` | abstract: the groups page as a list | |
| `Groups` | requests that create, move, delete and import groups | implements `GroupList` |
| `Links` | memberships, connections, deletions, export and import | |
| `Bus` | subscriptions, publishing under `r.mu`, the order of `main` | |
| `NmapScan` | automatic and manual scans, with the bus | extends `Bus` |
| `Auth` | access code, sessions, cookies | |
| `CollectorSafety` | proofs about `HttpCheck` and `Poller` | extends both and `RegistrySafety` |
| `RegistrySafety`, `AlertEngineSafety`, `SettingsSafety`, `GroupsSafety`, `LinksSafety`, `NmapScanSafety`, `AuthSafety` | proofs about the module each is named after | extend it and TLAPS |
| `MC*` | instances for TLC | |

**Registry.** `row` is the table, `lastWrite` and `paused` the fields of the same
name. A sender is a goroutine inside `handleSeen`; its `pc` names the next
region: `Hear` (pause check, 110-115), `Resolve` (`macByIP`, 116-127), `Lookup`
(first region, 128-132, and the comparison 188-194 that uses nothing else),
`Insert` (152-180), `Debounce` (202-207), `Update` (215-246). The offline checker
is `SelectExpired` (the SELECT, no mutex) and `MarkExpired` (the region that
writes); the HTTP checker's verdict is `HttpFailed` and `MarkHttp`. `AddManual`
and `Import` read, `Write` writes. A PTR lookup is a member of `lookups` until
`LookupDone`. `pub` holds the events of the last step, so that properties can
speak of what is announced. A time stamp is its age in ticks, capped where the
code no longer tells ages apart (`OfflineTimeout + 1`); `Tick` ages all of them.
`Crash` leaves the table as it was or with the first statement of a region
executed (`Torn*`), and loses everything in memory; `Boot` starts again.
What a collector can publish is written from each collector (`FromArp`,
`FromDhcp`, `FromMdns`, `FromPing`, `FromHttp`): only mDNS sightings carry
services, and they carry no MAC.

`Requests` bounds an instance: which of adding, importing and pausing its web pages do.
Left out of `row`: columns no control reads (vendor, label, user host name,
notes, OS, ports), and `force_ping`, which decides only how the poller asks. The `device_events` log is left out: nothing
reads it back. An import is modelled one record at a time; what a form or a record says
(`Added`, `Imported`) is chosen when it is written, since nothing reads it before. The
reverse-DNS backfill at start is one lookup per row. Statements do not fail.

**Poller.** The registry with a goroutine that asks. A tick of the model is the
period of the poller's ticker: `fired` is the ticker's channel, `Fire` the
goroutine that receives from it and starts a round (`asked`) if the interval is
over (89-106), `Answer` a reply that the poller's or the ARP collector's goroutine
takes through `handleSeen`, `EndRound` the return of `pollAll`, which is when the
code stores `lastPoll`. Because it is stored at the end of a round and compared at a
tick, whether an age of exactly the interval is enough depends on how much of a
tick the round took: `Fire` leaves both open, and a round begins between the
interval and one tick more after the last. Premises, all in the module's comment:
the process is up and listens, the poller is enabled, who is asked answers, and
goroutines finish within a tick what they have begun in it. `PollerAssumption` asks
of the settings that interval, tick and debounce window fit into the timeout.
`unwatched` is a history variable: the devices that have been virtual since they were
last heard. They are not asked while they are virtual, and an old `last_seen` is all
they have when they cease to be; `NeverLost` excludes them and the devices without an
address, which are not asked either.

**HttpCheck.** The checker's goroutine is one of the registry's senders. A round
(`StartRound`) reads the devices with a URL; `Probe` takes one of them and either
counts a failure or resets the count and publishes a sighting, which the same
goroutine then carries through `handleSeen`; at the limit `Verdict` is the first
region of `MarkHttpServiceOffline` and the registry's `MarkHttp` the second.
`reachable` is the environment. `misses` is a history variable: failed probes
since the last answer or, before one, since the beginning. Counts are capped at
the limit, where the code no longer tells them apart. URLs are validated when
they are entered (`server.go:1268-1279`), so `http.NewRequest` does not fail.

**Groups.** A request is a client's call, one action per SQL statement, since the
group methods take no mutex: `CreateGroup` (SELECT MAX) and `InsertGroup`;
`MoveGroup`, `FindAdjacent`, `FirstUpdate`, `SecondUpdate`; `DeleteGroup`;
`StartImport` and `ImportGroup` for each group of a file. `Restart` is a death
at any point and the numbering of `migrate.go:90`. `rowid` is SQLite's: one more
than the highest. `InOrder` is ORDER BY: a group stands in the place that has as many
before it. The list of the refinement, `Page`, takes a move to happen at its second
UPDATE. `GroupList` lets an imported group come in before the placed ones. `disturbed` is a history variable that is set by what breaks the list in
the code: two requests that create or move groups overlap, a restart cuts a move
in two or gives out a number that is taken, or a delete or an import hits the
groups of a move under way in particular states (`GivingZero`, `Reviving`).

**Links.** The four tables as sets, with the number of rows for a pair of MACs: which
devices, groups, memberships and connections there are, and not the columns of a
device. A request goes on statement by statement, and only `Delete` and the import of a device
hold `r.mu` (`deleting`). Nothing in the schema refers to anything, and a page may be
older than the tables: every request may name any MAC and any group. A group's
identifier is a new UUID (`Fresh`). `File` has the files that
`Export` can have written anywhere at any time. `late` and `quiet` are history
variables: what was written of a group or device after its deletion had begun, and
the exports and imports beside which nobody has written.

**Bus** and **NmapScan.** `Startup` is `main`'s list of subscriptions and starts
(the goroutines of a kind start in one step). `Region`, `Publish` and `Unlock` are
a region of the registry as far as it publishes: with `r.mu` held from write to
`Unlock`. `tasks` are the goroutines the bus has started for `WireEvents`' handler;
those of the alert engine are in `AlertEngine`. A scan is a job: `HandleNew` or
`RunNmap` decides, `Schedule` looks and sets under `scanMu`, `Scanned` is
`scanner.RunNmap` with any outcome, `AddEvent` needs `r.mu`, `Release` is the
deferred function. A page may spell a MAC in ways of its own (`Keys`, `Norm`).

**Auth.** A request to set up or to change the code is `Begin`, the two halves of
`os.WriteFile` (`Open`, `WriteOut`) and `Keep`; a login is checked and then
`NewSession`. `login` is a history variable: the time since the login of the
browser, none once it is over. A session's time stamp is an age as above. The hash is
the identity of a code, tokens never repeat (`Fresh`), and writes over each other
leave nothing of the other, since hashes have one length. A write that fails leaves
nothing or the beginning of a hash (`Broken`), which no code fits.

**AlertEngine.** A handler is a goroutine that runs `onDeviceNew`, `onDeviceLost`
or `onDeviceBack`: a list of rules still to apply, each of them a maintenance
check and then `fire`'s region and sending, or the batch. `Flush` is the region of
`flush` that takes the batch (`taken`), `Announce` what it does afterwards; a process
may die between them. Severity routing, texts and the alerts table are left out.
`Cleanup` may happen at any moment, since its ticker is not aligned with anything.
`Restart` restores any maintenance: what the file holds is the business of `Settings`.

**Settings.** One handler call is `Load`, `Change`, `Truncate`, `WriteOut` and
`Apply`, or a save that fails, or ends with a form that does not pass its checks
(`settingsError`); five sections stand for all. `disturbed` is a
history variable: two requests have overlapped or a save has failed. Encryption
of stored secrets is part of a channel's value and left out.

## 3. Runs

All bounds are in the `.cfg` files; ages are capped where the code no longer tells
them apart, so every run but `groups`, which has a constraint, explores the whole
state space of its instance. Symmetry is used only where no liveness property is
checked.

| Run | Instance | Shows |
|---|---|---|
| `race` | 1 MAC, an ARP and the mDNS sender, 2 services, 1 address, adds, edits and deletions, timeout 3, deaths | `TypeOK`, `DebounceConsistent`, `DroppedOnlyWhenFresh`, `NewExactlyOnInsert`, `ServicesOnlyGrow` |
| `live` | 1 MAC, 1 sender, 1 address, 2 names, adds, imports, timeout 3, deaths, fairness | `ExpiredGoesOffline`, `HeardComesOnline`, `NoSilentLoss`, `NameNotOverwritten` |
| `http` | 1 MAC, the checker and another sender, limit 2, web edits, pauses, deaths, fairness | `HTypeOK`, `ImplementsRegistry`, `HttpLostIsReal`, `LostAfterMisses`, `DeadServiceGoesOffline`, `LiveServiceComesOnline` |
| `poller` | 2 senders, 1 address, the virtual category, timeout 6, intervals 3 and 4, edits and deletions | `LagBounded`, `NeverLost` |
| `alerts` | 2 handlers, 3 rules, cooldowns of the cleanup age and a tick more, maintenance, restarts, fairness | `TypeOK`, `TimerIffPending`, `ThrottleSpec`, `BatchIsAnnounced`, `MaintenanceSilences` |
| `settings` | 2 requests, failures, deaths | `TypeOK`, `SavedIsInForce`, `RestartKeeps` |
| `groups` | 3 groups, 2 clients, files of 2 groups, restarts | `TypeOK`, `PlacesDistinct`, `ListSpec`, `RestoreKeepsOrder` |
| `links` | 2 MACs, 1 group, 2 clients, 1 of them also export and import, restarts | `TypeOK`, `LinksBounded`, `LeftoversAreLate`, `BackupKeepsRelations` |
| `nmap` | 1 device with 2 spellings, a collector, the checker, 2 jobs, deaths, fairness | `TypeOK`, `AllSubscribed`, `OneScanPerKey`, `NewDeviceIsScanned`, `ScansEnd` |
| `auth` | 2 browsers, 2 codes, 3 tokens, duration 2, failures, restarts | `ServedWhileLoggedIn`, `RestartKeepsCode` |

Why the bounds are enough. The registry's regions touch one MAC each, except the
checker's, which treats its candidates alike; two senders are the smallest number
that can overlap inside `handleSeen`, and each further one meets the same row.
Timeout 3 is the smallest for which the debounce window is not zero; 6 makes it
two ticks, so that dropped and written sightings alternate. More devices and
senders are covered by the proofs. Two services are needed to lose one of them.
In `http` the timeout is 1, which disables the debouncing and leaves the checkers
and the verdict, which this run is about; a limit of 2 is the smallest at which a
count can be reset half-way. In `poller` the longer interval is the longest that
`PollerAssumption` admits with timeout 6, so that nothing is to spare; names, adds and
imports are left to `live` (`Requests`). `live` has the two names that a late PTR
answer needs to replace one by another, and timeout 3, so that a sighting may be
dropped while the checker holds a candidate it selected before the last one was
written; it leaves the virtual category to `poller` and pausing to `http`. In `alerts` a
maintenance lasts up to `MaxMute` ticks, two being the fewest for one that is renewed
before it ends; ages go up to `Horizon`, past every cooldown and the cleanup age, and the
longer cooldown is the longest for which the cleanup forgets nothing too early (in
config.Defaults none exceeds the cleanup age). `BatchLimit` bounds the batch and what
has been taken of it, and admits a batch of two; one batch is announced at a time. In `groups`
three groups are the fewest that tell a neighbour from any other group, and two
clients the fewest that overlap; places go up to 3 (`MaxOrder`), which admits a
delete followed by a create and every collision of a `rowid` with a place. The
constraint `Undisturbed` stops at a disturbance, after which no property says
anything. In `links` a connection needs two devices, and every interference of two
requests is there; that one client makes backups (`Porters`) leaves out two files at
once, each of which sees the other as somebody who writes. In `nmap` two jobs are the
fewest that can want one key; a device under two spellings is enough for two keys. A
region waits while the very event it would publish is still to be handled, which
keeps `tasks` a set. In `auth` three tokens give each browser one and leave one for a
login over a login.

Runs that TLC refutes. Each states a sentence of the documentation and shows that
the code does otherwise; `PROJECT.json` quotes both.

| Run | Sentence | What happens |
|---|---|---|
| `back` | `device.back`: "Gerät wieder online" | the device is read online, marked offline by the checker, and then updated to online without an event |
| `timeout` | lost after the offline timeout without a signal | heard between the checker's SELECT and its UPDATE, and lost all the same |

More disagreements and oddities are visible in the models without a run.

- A batch of new-device alerts that was collected before a maintenance began is sent
  during it, although "all alerts ... are silently dropped" (CHANGELOG.md:150).
  `MaintenanceSilences` says what holds: after what was under way, nothing.
- Two overlapping settings requests write each other's section away, a maintenance
  among them, which is to survive restarts (CHANGELOG.md:150); `Settings` calls it
  `disturbed`.
- A sighting of a device of category `virtual` sets it online (`Refreshed`), while
  HELP.md:129 says it has no tracking. Taken out of the category again, it has an old
  `last_seen` and is declared lost at the next check.
- The poller asks every device that has an address and is not virtual
  (`Targets`); `collectors.ping.targets` is never read, although HELP.md:137 says that
  only priority devices are polled and "all" adds the others. Its real period is the
  interval plus up to one period of its ticker. Devices without an address, or with
  only an IPv6 one, are not asked.
- A missing settings file leaves the registry paused (`Settings!Init`), while
  HELP.md:73 says that it works out of the box.
- A channel that `silentmap.yaml` configures and the settings page switches off,
  without a URL of its own, is on again after a restart (`Restored` with
  `Configured`), while docs/dockerhub-description.md:113 says that settings survive.
- With a rule's cooldown of more than an hour, `runCooldownCleanup`
  (engine.go:116-129) forgets an alert that should still be suppressed
  (docs/alerting.md:51); the run `alerts` and the theorem have cooldowns that the
  cleanup does not cut short.
- Groups that an import brings stand at the front of the page and move at the next
  start, where they may get a place that is taken (`Numbered`), although migrate.go:89
  says that groups "keep their current order".
- Deleting a device leaves its memberships (registry.go:428-437), and a request from an
  old page can add a device to a group that is gone: the topology page then names a
  group nobody can see, and the memberships come back with the device.
- Two overlapping requests connect two devices twice (`LinksBounded` says how often).
- Two spellings of a MAC are two keys of the map of running scans, so a page can start
  a second scan of a device.
- A backup is called "Full JSON backup including groups, connections, labels" (README.md:91),
  but a record (registry.go:1096-1110, 1153-1167) has no URL, `force_ping`, notes,
  services or ports, and `insert` (919-927) writes no URL and no notes. After a restore
  a service has no URL, so that the HTTP checker no longer looks at it and the offline
  checker does; a device outside the subnet is asked by ARP and not by ping; notes are
  lost. `BackupKeepsRelations` is about which devices, groups, memberships and connections
  there are; `Added` and `Imported` have the missing URL.
- A death inside `os.WriteFile` leaves `settings.json` empty, and the next start knows no
  setting; a save that fails is logged and applied, and the next start takes it back.
  `SavedIsInForce` and `RestartKeeps` exclude both.
- A group is moved by two UPDATEs. A death between them, another move, or a group created
  between them leaves two groups in one place; `disturbed` excludes it.
- A death between the two halves of the write of `auth.hash` leaves it empty, and the
  next start offers the setup page; a disk that is full may leave part of the hash, and
  after the next start nobody can log in (`RestartKeepsCode` excludes both). A session that
  has expired and whose cookie never comes back stays in the map.
- A count of failed probes is kept when the device is deleted or gets another URL, so
  the next single failure is enough for a loss, while CHANGELOG.md:64 speaks of three
  in a row.
- A device of category `http-service` with a URL is exempt from the offline checker
  (registry.go:274), and as long as the HTTP checker is disabled, which is its
  default, nothing takes it offline.
- Two sightings that overlap can publish `device.back` twice, which the property of
  `back` excludes as well.

Fairness. `live` assumes that time passes, that the checker's ticker fires again
and again, that a process that died is started again (the container's restart
policy), and that a goroutine waiting for `r.mu` gets it: Go's mutex is
starvation free. Nothing is assumed of collectors or web requests.
`HeardComesOnline` has the sightings as its premise. `http` assumes only that the
checker's goroutine runs and its ticker goes on: a round is started again and
again, its probes end (the client has a timeout of ten seconds), and its regions
get the mutex; the enabled checker and the state of the service are premises. `alerts`
assumes that time passes, timers fire and handler goroutines run; a maintenance that
stays is a premise. `nmap` assumes that goroutines run and that a scan ends (its
context has a timeout); for `AddEvent` strong fairness, since the mutex is taken by
others again and again and Go's mutex starves nobody; and for `HandleNew` too, since
the goroutine of an event is always started, and that no job is free is a bound of the
model. That the process lives and the setting is on is a premise of
`NewDeviceIsScanned`. The other runs have safety properties only.

Every property has a mutant: an operator named "Faulty variant" in the modules,
which changes one definition the way a plausible mistake would and makes the run
fail. No definition uses them.

## 4. Proofs

TLAPS proves, for every number of devices, goroutines, requests and values, every
timeout, and with deaths:

| Theorem | States |
|---|---|
| `RegistrySafety!TypeCorrect` | `Spec => []TypeOK` |
| `RegistrySafety!MapAgreesWithTable` | `Spec => []DebounceConsistent` |
| `RegistrySafety!DroppingKeepsRowsFresh` | `Spec => DroppedOnlyWhenFresh` |
| `RegistrySafety!LossIsNeverSilent` | `Spec => NoSilentLoss` |
| `RegistrySafety!HttpLossIsReal` | `Spec => HttpLostIsReal` |
| `RegistrySafety!NewMeansInserted` | `Spec => NewExactlyOnInsert` |
| `RegistrySafety!NamesAreKept` | `Spec => NameNotOverwritten` |
| `RegistrySafety!ServicesAreKept` | `Spec => ServicesOnlyGrow` |
| `CollectorSafety!HTypeCorrect` | `HSpec => []HTypeOK` |
| `CollectorSafety!CheckerImplementsRegistry` | `HSpec => ImplementsRegistry` |
| `CollectorSafety!LostOnlyAfterMisses` | `HSpec => LostAfterMisses` |
| `CollectorSafety!PollerImplementsRegistry` | `PSpec => WithinRegistry` |
| `CollectorSafety!LagIsBounded` | `PSpec => []LagBounded` |
| `CollectorSafety!AnsweringIsNeverLost` | `PSpec => NeverLost` |
| `GroupsSafety!TypeCorrect` | `Spec => []TypeOK` |
| `GroupsSafety!PlacesDistinctAlways` | `Spec => []PlacesDistinct` |
| `GroupsSafety!BackupKeepsOrder` | `Spec => RestoreKeepsOrder` |
| `GroupsSafety!GroupsImplementList` | `Spec => ListSpec` |
| `LinksSafety!TypeCorrect` | `Spec => []TypeOK` |
| `LinksSafety!LeftoversAreLateAlways` | `Spec => []LeftoversAreLate` |
| `LinksSafety!LinksBoundedAlways` | `Spec => []LinksBounded` |
| `LinksSafety!BackupKeepsRelationsAlways` | `Spec => []BackupKeepsRelations` |
| `NmapScanSafety!TypeCorrect` | `Spec => []TypeOK` |
| `NmapScanSafety!AllSubscribedAlways` | `Spec => []AllSubscribed` |
| `NmapScanSafety!OneScanPerKeyAlways` | `Spec => []OneScanPerKey` |
| `AuthSafety!OnlyLoggedInAreServed` | `Spec => []ServedWhileLoggedIn` |
| `AuthSafety!RestartKeepsTheCode` | `Spec => RestartKeepsCode` |
| `SettingsSafety!TypeCorrect` | `Spec => []TypeOK` |
| `SettingsSafety!SavedIsInForceAlways` | `Configured = Unset` gives `Spec => []SavedIsInForce` |
| `SettingsSafety!RestartKeepsSettings` | `Configured = Unset` gives `Spec => RestartKeeps` |
| `AlertEngineSafety!TypeCorrect` | `Spec => []TypeOK` |
| `AlertEngineSafety!TimerIffPendingAlways` | `Spec => []TimerIffPending` |
| `AlertEngineSafety!ImplementsThrottle` | no cooldown above `CleanupAge + 1` gives `Spec => ThrottleSpec` |

Each module names one assumption about its constants: values are told apart from
`None`, times are numbers, what is counted is finite (`LinksAssumption`,
`GroupsAssumption`), the checker's sender is not the mDNS one (`HttpAssumption`), and
the poller's intervals leave room for a tick and the debounce window
(`PollerAssumption`). The default interval of five minutes with a timeout of fifteen
satisfies the last one; the settings page admits up to sixty minutes (settings.html:128),
and with such an interval a device that answers is lost between two rounds. Two theorems about the
settings and the refinement have a premise of their own, shown in the table; without
it the code does otherwise (section 3).

*Registry.* `TypeOK` is inductive as it stands; its proof has one lemma per group of
actions. It carries one conjunct that is not a type (a call past `macByIP` has a MAC),
without which the table could not be applied to the sender's MAC. `DebounceConsistent`
is inductive relative to it: a row becomes online only in `Insert` and `Update`, which
write row and map with the same stamp; all other writers leave `lastSeen` alone, make
the row offline, or clear the entry; and `Tick` ages both sides alike.
`DroppedOnlyWhenFresh` follows from the agreement, since the debounce looks only at the
map. Loss, insertion and the verdict are proved from `TypeOK`, one case per action that
publishes or that writes `online`; names and services from `StepRowCases`, which says
how a step can have written them. `ServicesOnlyGrow` needs the invariant `Advertised`:
only the mDNS sender carries services, and what it is about to write contains what the
row has at that moment. Were two goroutines to carry services, the second conjunct
would break.

*HttpCheck.* Every step is shown to be a step of `Registry` or to leave it alone, so all
of the above holds with the checker in it. That needs `Exclusive`, a part of `HTypeOK`:
the goroutine is not in a verdict and in a sighting at once, and a probe waits until
both are over. `LostAfterMisses` is not inductive; `Counted` is: a count never exceeds
the misses since the last answer, and a verdict or a marking under way is against a
device with the full number of misses. An answer, which resets the misses, could break
the second part, and `Exclusive` is why it cannot.

*Poller.* Its steps are steps of `Registry`, so `TypeOK` and `DebounceConsistent` hold
of it. `LagBounded` is not inductive; the invariant is the conjunction of three.
`Rhythm`: the last round ended no longer ago than some interval, and a tick more
while the ticker's signal waits or a round is under way. `InFlight`: no sighting
outlasts the tick in which it was heard, so that a row that comes to be under one
has just been seen. `Timely`:
no watched row has expired, and one that nobody is about to hear lags less than `Lag`,
which is the debounce window while a round is under way and grows with its age
afterwards. The crucial case is a sighting that is dropped: the debounce looks at the
map, `DebounceConsistent` turns its entry into the row's `last_seen`, and that is
younger than the window. `NeverLost` follows, because the checker selects only rows
older than the timeout.

*Groups.* Most of the module is about ORDER BY: that a finite set of groups has exactly
one sequence sorted by place and name (`SortingIsUnique`), which `InOrder` is, so that
a page is known as soon as some sequence is seen to be sorted. `PlacesDistinct` is not
inductive; `Orderly` is. Until a disturbance one request at a time creates or moves a
group; the place a creation has read is above all others (`Reserved`), and the places a
move has read are still those of its two groups, nobody else's, with none between them
(`Moving`). What a delete or an import can do beside a move is in `Keeps`: the row may
have gone, and may have come back without a place. For the refinement a step is one of
four things to a sorted sequence: the others keep their order around one that comes or
goes (`IsOneMore`, `SameOrder`), two neighbours change places (`ExchangeIsSorted`), one
moves and passes nobody (`NobodyPassed`), or the order is free because somebody has no
place. `RestoreKeepsOrder` needs `Restoring`: what an import into the empty table has
written so far has the rowids 1, 2, ... in the order of the file, which are the places
a start gives.

*Links.* `LeftoversAreLate` and the bound are inductive with `TypeOK`. The bound counts
the requests that have passed the duplicate check among the rows: an INSERT turns one
of them into a row, and a request that newly passes has seen no row. The cardinalities
are those of the library's theorems. `BackupKeepsRelations` follows from `QuietIsFaithful`,
which says of an export or import beside which nobody has written what it has done up
to any of its statements: the file and the tables agree as far as it has read
(`MembersRead`, `LinksRead`), and the tables hold the file but for what is still to do
and the row it is at (`Restored`).

*NmapScan.* `NInv` adds `Wired`: what `main` has passed in its list is subscribed, and
a goroutine that does something runs in a process that has passed all of it. Mutual
exclusion of `r.mu` is part of the type invariant. `OneScanPerKey` says that the map is
the set of keys of running scans, which makes it inductive: a scan that ends frees its
own key because nobody else has it.

*Auth.* `ServedWhileLoggedIn` needs `LoginIsSession`: the session behind a browser's
cookie is exactly as old as its login. `RestartKeepsCode` needs `Saved`: undisturbed,
one request at a time changes the code, and outside its write the file and the memory
agree.

*Settings.* `Undisturbed` says where the only request is and what of its work is done:
until it applies, what is in force differs from what it saves in its own section only.

*AlertEngine.* `TimerIffPending` is inductive with the types. For the refinement every
step is a step of `Throttle` or a stutter on `Remaining`; the case that takes the
premise is the cleanup, which forgets only entries with nothing left of their
cooldown.

Checked by TLC only: liveness and everything under fairness (out of the prover's
reach: `ExpiredGoesOffline`, `HeardComesOnline`, `DeadServiceGoesOffline`,
`LiveServiceComesOnline`, `BatchIsAnnounced`, `MaintenanceSilences`,
`NewDeviceIsScanned`, `ScansEnd`). These rest on the bounds of section 3.

## 5. Not modelled

- Alert channels (ntfy, Discord, e-mail, webhook): one attempt per alert over the
  network, no retry, no state but the configuration, which is a section of `Settings`.
- `silentmap.yaml` (`internal/config`): read once over defaults; it enters the models
  as constants.
- Secrets, languages, themes and times: conversions and presentation, which no
  control depends on.
- Pages, the JSON interface and the log page only read; headers and templates are
  presentation.
- Packet parsing, sockets and nmap's output: what they can yield is the choice in
  `Heard` and `Scanned`.
- Schema statements and the vendor table, but for the numbering of groups. Flags,
  signals and the HTTP listener of `main`.
- The `device_events` log and the columns that are only shown. A statement that fails
  in the registry: the code ignores most such errors, and a database that is busy
  would leave a row online that has been announced as lost (registry.go:303).
- The order in which the alerts of one device arrive: `device.lost` and `device.back`
  run in goroutines of their own (bus.go:95), and nothing promises an order.
