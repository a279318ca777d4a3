------------------------------ MODULE NmapScan ------------------------------
(***************************************************************************)
(* The nmap scans of the web server (internal/web/server.go, internal/     *)
(* scanner/nmap.go) with the bus: a new device is scanned by itself if the *)
(* settings say so, any device when a page asks for it.  Server.scanning   *)
(* says which scans run.  Its keys are what the page or the event called   *)
(* the device: the registry normalises a MAC, the map does not.            *)
(*                                                                         *)
(* What a scan finds is left out: it is stored by UPDATEs of columns no    *)
(* control reads, which change nothing if the device is gone.              *)
(***************************************************************************)
EXTENDS Bus

CONSTANTS Keys,      \* spellings of MACs, the normalised ones among them
          Norm,      \* normalizeMac: Keys -> MACs
          Jobs       \* bound: goroutines that handle an event or a request, or scan

ASSUME NmapAssumption == /\ MACs \subseteq Keys
                         /\ Norm \in [Keys -> MACs]
                         /\ \A m \in MACs : Norm[m] = m
                         /\ None \notin Keys

VARIABLES
    auto,       \* AutoNmapNewDevice in settings.json
    scanning,   \* Server.scanning
    job         \* Jobs -> what the goroutine is at

nvars == <<busVars, auto, scanning, job>>

Free == [pc |-> "free", key |-> None, ip |-> None]

Init ==
    /\ BusInit
    /\ auto \in BOOLEAN
    /\ scanning = {}
    /\ job = [j \in Jobs |-> Free]

-----------------------------------------------------------------------------

At(pc, k, i) == [pc |-> pc, key |-> k, ip |-> i]

\* WireEvents' handler: a device without IP, or a setting that is off, ends it.
HandleNew(j, e) ==
    /\ up /\ job[j] = Free
    /\ e \in tasks
    /\ tasks' = tasks \ {e}
    /\ job' = IF e.ip # None /\ auto
              THEN [job EXCEPT ![j] = At("schedule", e.mac, e.ip)] ELSE job
    /\ UNCHANGED <<started, handlers, row, mu, thread, up, auto, scanning>>

\* Faulty variant: a device without IP is scanned too.
RunNmapUnchecked(j, k) ==
    /\ up /\ job[j] = Free
    /\ row[Norm[k]] # None
    /\ job' = [job EXCEPT ![j] = At("schedule", k, row[Norm[k]].ip)]
    /\ UNCHANGED <<busVars, auto, scanning>>

\* runNmap: the device is looked up by its normalised MAC; 404 without an IP.
RunNmap(j, k) ==
    /\ up /\ job[j] = Free
    /\ row[Norm[k]] # None /\ row[Norm[k]].ip # None
    /\ job' = [job EXCEPT ![j] = At("schedule", k, row[Norm[k]].ip)]
    /\ UNCHANGED <<busVars, auto, scanning>>

\* Faulty variant: the key is set without having been looked at.
ScheduleUnchecked(j) ==
    /\ job[j].pc = "schedule"
    /\ scanning' = scanning \cup {job[j].key}
    /\ job' = [job EXCEPT ![j].pc = "scan"]
    /\ UNCHANGED <<busVars, auto>>

\* Faulty variant: one scan at a time for all devices.
ScheduleOne(j) ==
    /\ job[j].pc = "schedule"
    /\ IF scanning # {}
       THEN job' = [job EXCEPT ![j] = Free] /\ UNCHANGED scanning
       ELSE /\ scanning' = scanning \cup {job[j].key}
            /\ job' = [job EXCEPT ![j].pc = "scan"]
    /\ UNCHANGED <<busVars, auto>>

\* The region of scanMu that looks and sets, in scheduleNmapScan and runNmap.
Schedule(j) ==
    /\ job[j].pc = "schedule"
    /\ IF job[j].key \in scanning
       THEN job' = [job EXCEPT ![j] = Free] /\ UNCHANGED scanning
       ELSE /\ scanning' = scanning \cup {job[j].key}
            /\ job' = [job EXCEPT ![j].pc = "scan"]
    /\ UNCHANGED <<busVars, auto>>

\* scanner.RunNmap returns, with a result or an error, after three minutes at
\* the latest; a result is stored.
Scanned(j) ==
    /\ job[j].pc = "scan"
    /\ job' = [job EXCEPT ![j].pc = "log"]
    /\ UNCHANGED <<busVars, auto, scanning>>

\* AddEvent, which needs r.mu.
AddEvent(j) ==
    /\ job[j].pc = "log" /\ mu = None
    /\ job' = [job EXCEPT ![j].pc = "release"]
    /\ UNCHANGED <<busVars, auto, scanning>>

\* Faulty variant: the key is only deleted after a success.
ReleaseSuccess(j) ==
    /\ job[j].pc = "release"
    /\ scanning' \in {scanning, scanning \ {job[j].key}}
    /\ job' = [job EXCEPT ![j] = Free]
    /\ UNCHANGED <<busVars, auto>>

\* The deferred function.
Release(j) ==
    /\ job[j].pc = "release"
    /\ scanning' = scanning \ {job[j].key}
    /\ job' = [job EXCEPT ![j] = Free]
    /\ UNCHANGED <<busVars, auto>>

\* The settings page.
SetAutoNmap ==
    /\ up
    /\ auto' = ~auto
    /\ UNCHANGED <<busVars, scanning, job>>

\* A death takes the map and the goroutines with it.
Die ==
    /\ Crash
    /\ scanning' = {}
    /\ job' = [j \in Jobs |-> Free]
    /\ UNCHANGED auto

Beside == UNCHANGED <<auto, scanning, job>>

Next == \/ BusStep /\ Beside
        \/ Die \/ SetAutoNmap
        \/ \E j \in Jobs :
             \/ \E e \in Event : HandleNew(j, e)
             \/ \E k \in Keys : RunNmap(j, k)
             \/ Schedule(j) \/ Scanned(j) \/ AddEvent(j) \/ Release(j)

Spec == Init /\ [][Next]_nvars

\* Goroutines run, a scan ends by its timeout, and Go's mutex starves nobody who
\* waits for it.  (A goroutine for an event is always started: that Jobs may be
\* taken is a bound.)
FairSpec ==
    /\ Spec
    /\ WF_nvars(\E p \in Threads : (Publish(p) \/ Unlock(p)) /\ Beside)
    /\ \A e \in Event : e.type = "new" => SF_nvars(\E j \in Jobs : HandleNew(j, e))
    /\ \A j \in Jobs : /\ WF_nvars(Schedule(j) \/ Scanned(j) \/ Release(j))
                       /\ SF_nvars(AddEvent(j))

-----------------------------------------------------------------------------

\* Type invariant; whoever schedules or runs a scan has an address to scan.
TypeOK ==
    /\ BusTypeOK
    /\ auto \in BOOLEAN
    /\ scanning \subseteq Keys
    /\ job \in [Jobs -> {Free} \cup [pc : {"schedule", "scan", "log", "release"},
                                     key : Keys, ip : IPs]]

Scanning(j) == job[j].pc \in {"scan", "log", "release"}

\* The map says exactly which scans run, and no two scans of one key do, however
\* events and requests meet, so that the end of one never frees the key of
\* another.  (Two spellings of one MAC are two keys.)
OneScanPerKey ==
    /\ scanning = {job[j].key : j \in {x \in Jobs : Scanning(x)}}
    /\ \A i, j \in Jobs : Scanning(i) /\ Scanning(j) /\ job[i].key = job[j].key => i = j

\* A new device that has an address is about to be announced, or has been.
Announced(m) ==
    \/ \E p \in Threads : /\ thread[p].pc = "publish"
                          /\ thread[p].event.type = "new" /\ thread[p].event.mac = m
                          /\ thread[p].event.ip # None
    \/ \E e \in tasks : e.mac = m /\ e.ip # None

\* With the setting on, and if the process lives, every new device with an
\* address comes to be scanned: no event is lost between the registry, the bus
\* and the web server.
NewDeviceIsScanned ==
    \A m \in MACs : []((Announced(m) /\ [](up /\ auto)) => <>(m \in scanning))

\* The page that waits for a scan sees it end: every scan ends, although the
\* last thing it does needs the mutex under which events are published.
ScansEnd == \A k \in Keys : k \in scanning ~> k \notin scanning

=============================================================================
