------------------------------ MODULE Registry ------------------------------
(***************************************************************************)
(* The device registry (internal/registry/registry.go): the devices table, *)
(* the debounce map lastWrite, the goroutines that deliver device.seen     *)
(* events, the offline checker, the HTTP checker's verdict, the web        *)
(* handlers that add, import, change and delete devices, and process death *)
(* and restart.                                                            *)
(*                                                                         *)
(* One action is one region the registry's mutex protects, or one database *)
(* read it does without the mutex; between two of them any other goroutine *)
(* may run.  What a goroutine read earlier and still uses is part of its   *)
(* own state.                                                              *)
(*                                                                         *)
(* A time stamp is modelled by its age: the ticks since it was taken,      *)
(* counted up to OfflineTimeout + 1, past which the code no longer tells   *)
(* ages apart.  Tick makes every stored time stamp one tick older.         *)
(***************************************************************************)
EXTENDS Naturals

CONSTANTS
    MACs,            \* normalised MAC addresses
    IPs,             \* IP addresses
    Names,           \* host names, learnt from mDNS, DHCP or DNS
    Services,        \* mDNS services
    Categories,      \* device categories other than the empty one
    Urls,            \* HTTP check URLs
    Priorities,      \* the values of the priority flag in use
    Senders,         \* collector goroutines publishing device.seen
    MdnsSender,      \* the one of them that is the mDNS collector's, if any is
    Requests,        \* bound: the web requests in use: "add", "import", "pause"
    OfflineTimeout,  \* registry.offlineTimeout, in ticks
    Crashes,         \* whether the process may die
    None             \* the empty string, a missing row, a missing map entry

-----------------------------------------------------------------------------

Age == 0 .. OfflineTimeout + 1

\* A time stamp one tick later.
Older(a) == IF a > OfflineTimeout THEN a ELSE a + 1

OlderIfSet(a) == IF a = None THEN None ELSE Older(a)

\* Faulty variant: the debouncing lasts as long as the offline timeout.
WholeTimeout == OfflineTimeout

DebounceWindow == OfflineTimeout \div 3

\* The columns of a devices row that the registry's control depends on.
Device == [ip       : IPs \cup {None},
           name     : Names \cup {None},
           services : SUBSET Services,
           category : Categories \cup {None},
           priority : Priorities,
           url      : Urls \cup {None},
           approved : BOOLEAN,
           online   : BOOLEAN,
           lastSeen : Age]

\* What a goroutine copies of a row to put it in the event it will publish.
Meta == [mac : MACs, category : Categories \cup {None}, priority : Priorities]

MetaOf(m, d) == [mac |-> m, category |-> d.category, priority |-> d.priority]

\* device.new, device.lost and device.back.
Event == [type   : {"new", "lost", "back"},
          mac    : MACs,
          category : Categories \cup {None},
          priority : Priorities,
          source : {"registry", "http-checker"}]

EventOf(type, meta, source) ==
    [type |-> type, mac |-> meta.mac, category |-> meta.category,
     priority |-> meta.priority, source |-> source]

\* The local variables of one call of handleSeen.  offline, category and
\* priority are those of the row it read; ip, name and svcs what it will write.
Handling == [pc       : {"idle", "resolve", "get", "insert", "debounce", "update"},
             mac      : MACs \cup {None},
             ip       : IPs \cup {None},
             name     : Names \cup {None},
             svcs     : SUBSET Services,
             now      : Age,
             offline  : BOOLEAN,
             category : Categories \cup {None},
             priority : Priorities]

Idle == [pc |-> "idle", mac |-> None, ip |-> None, name |-> None, svcs |-> {},
         now |-> 0, offline |-> FALSE, category |-> None, priority |-> FALSE]

\* A web request that adds or imports a device, between its read and its write.
Request == [op : {"add", "insert", "update"}, mac : MACs]

\* None is told apart from every value it stands in for.
ASSUME RegistryAssumption ==
    /\ OfflineTimeout \in Nat \ {0}
    /\ Crashes \in BOOLEAN
    /\ FALSE \in Priorities /\ Priorities \subseteq BOOLEAN
    /\ None \notin MACs \cup IPs \cup Names \cup Categories \cup Urls
    /\ None \notin Nat \cup Device \cup Meta \cup Request

-----------------------------------------------------------------------------

VARIABLES
    row,         \* the devices table: MAC -> row or None
    lastWrite,   \* Registry.lastWrite: MAC -> time of the last write or None
    paused,      \* Registry.paused
    sender,      \* Senders -> the handleSeen call in progress
    checking,    \* checkOffline: candidates selected and not yet written
    marking,     \* MarkHttpServiceOffline: the row it read, or None
    request,     \* the add or import request in progress, or None
    lookups,     \* MACs whose PTR lookup is running
    up,          \* whether the process runs
    pub          \* the events the last step published

memory == <<lastWrite, paused, sender, checking, marking, request, lookups>>
vars == <<row, lastWrite, paused, sender, checking, marking, request, lookups, up, pub>>

Init ==
    /\ row = [m \in MACs |-> None]
    /\ lastWrite = [m \in MACs |-> None]
    /\ paused \in BOOLEAN
    /\ sender = [s \in Senders |-> Idle]
    /\ checking = {}
    /\ marking = None
    /\ request = None
    /\ lookups = {}
    /\ up = TRUE
    /\ pub = {}

\* The row of m exists and says online.
Online(m) == row[m] # None /\ row[m].online

-----------------------------------------------------------------------------
(* handleSeen: one call per sender at a time, since the bus runs the        *)
(* subscription synchronously on the publishing goroutine.                  *)

\* What each kind of collector can publish as device.seen.  A packet that tells
\* nothing of a device is not published.
FromArp(e)  == e.mac # None /\ e.ip # None /\ e.name = None /\ e.svcs = {}
FromDhcp(e) == e.mac # None /\ e.svcs = {}
FromMdns(e) == e.mac = None /\ (e.ip # None \/ e.name # None)

\* The device a poller reached, as the table said when its round began.
FromPing(e) == e.mac # None /\ e.ip # None /\ e.name = None /\ e.svcs = {}
FromHttp(e) == Urls # {} /\ e.mac # None /\ e.name = None /\ e.svcs = {}

\* Faulty variant: a second goroutine reads mDNS packets.
HeardByAny(s, e) == FromMdns(e) \/ (s # MdnsSender /\ FromArp(e))

\* The mDNS collector is one goroutine; any of the others may be several.
Heard(s, e) == IF s = MdnsSender THEN FromMdns(e)
                                 ELSE FromArp(e) \/ FromDhcp(e) \/ FromPing(e) \/ FromHttp(e)

\* The handler's locals when it has decided to handle e.
Accepted(e) == [Idle EXCEPT !.pc = IF e.mac = None THEN "resolve" ELSE "get",
                            !.mac = e.mac, !.ip = e.ip, !.name = e.name,
                            !.svcs = e.svcs]

\* A sighting arrives.  One without MAC and IP, or while paused, changes nothing.
Hear(s) ==
    /\ sender[s].pc = "idle"
    /\ ~paused
    /\ \E m \in MACs \cup {None}, i \in IPs \cup {None}, n \in Names \cup {None},
          v \in SUBSET Services :
         LET e == [mac |-> m, ip |-> i, name |-> n, svcs |-> v] IN
         /\ Heard(s, e)
         /\ m # None \/ i # None
         /\ sender' = [sender EXCEPT ![s] = Accepted(e)]
    /\ pub' = {}
    /\ UNCHANGED <<row, lastWrite, paused, checking, marking, request, lookups, up>>

MacsByIP(i) == {m \in MACs : Online(m) /\ row[m].ip = i}

\* Faulty variant: goes on when no online row has the IP.
ResolveUnchecked(s) ==
    /\ sender[s].pc = "resolve"
    /\ \E m \in MacsByIP(sender[s].ip) \cup {None} :
         sender' = [sender EXCEPT ![s] =
             [sender[s] EXCEPT !.pc = "get", !.mac = m, !.now = 0]]
    /\ pub' = {}
    /\ UNCHANGED <<row, lastWrite, paused, checking, marking, request, lookups, up>>

\* macByIP, a read without the mutex: any one online row with that IP.
Resolve(s) ==
    /\ sender[s].pc = "resolve"
    /\ \/ \E m \in MacsByIP(sender[s].ip) :
            sender' = [sender EXCEPT ![s] =
                [sender[s] EXCEPT !.pc = "get", !.mac = m, !.now = 0]]
       \/ /\ MacsByIP(sender[s].ip) = {}
          /\ sender' = [sender EXCEPT ![s] = Idle]
    /\ pub' = {}
    /\ UNCHANGED <<row, lastWrite, paused, checking, marking, request, lookups, up>>

\* The handler's locals once it has read row d: what differs from the event.
Compared(e, d) ==
    LET ip   == IF e.ip = d.ip THEN None ELSE e.ip
        name == IF e.name = d.name THEN None ELSE e.name
        svcs == IF e.svcs \subseteq d.services THEN {} ELSE d.services \cup e.svcs
        same == d.online /\ ip = None /\ name = None /\ svcs = {}
    IN  [e EXCEPT !.pc = IF same THEN "debounce" ELSE "update",
                  !.ip = ip, !.name = name, !.svcs = svcs,
                  !.offline = ~d.online,
                  !.category = d.category, !.priority = d.priority]

\* existing, err := r.get(mac) under the mutex, which is then released.
Lookup(s) ==
    LET e == sender[s] IN
    /\ e.pc = "get"
    /\ sender' = [sender EXCEPT ![s] =
           IF row[e.mac] = None THEN [e EXCEPT !.pc = "insert"]
                                ELSE Compared(e, row[e.mac])]
    /\ pub' = {}
    /\ UNCHANGED <<row, lastWrite, paused, checking, marking, request, lookups, up>>

\* The row of a device seen for the first time.
Discovered(e) ==
    [ip |-> e.ip, name |-> e.name, services |-> e.svcs, category |-> None,
     priority |-> FALSE, url |-> None, approved |-> FALSE, online |-> TRUE,
     lastSeen |-> e.now]

\* The second region for an unknown MAC: looks again, inserts, announces, and
\* starts a PTR lookup if the event had no name.
Insert(s) ==
    LET e == sender[s] IN
    /\ e.pc = "insert"
    /\ \/ /\ row[e.mac] = None
          /\ row' = [row EXCEPT ![e.mac] = Discovered(e)]
          /\ lastWrite' = [lastWrite EXCEPT ![e.mac] = e.now]
          /\ pub' = {EventOf("new", MetaOf(e.mac, Discovered(e)), "registry")}
          /\ lookups' = IF e.name = None /\ e.ip # None THEN lookups \cup {e.mac}
                                                        ELSE lookups
       \/ /\ row[e.mac] # None
          /\ pub' = {}
          /\ UNCHANGED <<row, lastWrite, lookups>>
    /\ sender' = [sender EXCEPT ![s] = Idle]
    /\ UNCHANGED <<paused, checking, marking, request, up>>

Recent(m) == lastWrite[m] # None /\ lastWrite[m] < DebounceWindow

\* Nothing changed: the sighting is dropped if the row was written recently.
Debounce(s) ==
    LET e == sender[s] IN
    /\ e.pc = "debounce"
    /\ sender' = [sender EXCEPT ![s] =
           IF Recent(e.mac) THEN Idle ELSE [e EXCEPT !.pc = "update"]]
    /\ pub' = {}
    /\ UNCHANGED <<row, lastWrite, paused, checking, marking, request, lookups, up>>

\* Faulty variant: the UPDATE leaves last_seen alone.
RefreshedUnstamped(d, e) ==
    [d EXCEPT !.online = TRUE,
              !.ip = IF e.ip = None THEN @ ELSE e.ip,
              !.name = IF e.name = None THEN @ ELSE e.name,
              !.services = IF e.svcs = {} THEN @ ELSE e.svcs]

\* Faulty variant: the UPDATE leaves the online flag alone.
RefreshedOffline(d, e) ==
    [d EXCEPT !.lastSeen = e.now,
              !.ip = IF e.ip = None THEN @ ELSE e.ip,
              !.name = IF e.name = None THEN @ ELSE e.name,
              !.services = IF e.svcs = {} THEN @ ELSE e.svcs]

\* The row after the partial UPDATE of a sighting.
Refreshed(d, e) ==
    [d EXCEPT !.lastSeen = e.now,
              !.online = TRUE,
              !.ip = IF e.ip = None THEN @ ELSE e.ip,
              !.name = IF e.name = None THEN @ ELSE e.name,
              !.services = IF e.svcs = {} THEN @ ELSE e.svcs]

\* Faulty variant: an upsert in place of the UPDATE.
RefreshedOrCreated(e) ==
    [row EXCEPT ![e.mac] = IF @ = None THEN Discovered(e) ELSE Refreshed(@, e)]

\* An UPDATE of a row that is gone changes nothing and is no error.
RefreshedRow(e) ==
    IF row[e.mac] = None THEN row
                         ELSE [row EXCEPT ![e.mac] = Refreshed(@, e)]

\* The last region for a known MAC.  Whether device.back is published depends
\* on the row read in the first region, not on the one being updated.
Update(s) ==
    LET e == sender[s] IN
    /\ e.pc = "update"
    /\ row' = RefreshedRow(e)
    /\ lastWrite' = [lastWrite EXCEPT ![e.mac] = e.now]
    /\ pub' = IF e.offline THEN {EventOf("back", MetaOf(e.mac, e), "registry")} ELSE {}
    /\ sender' = [sender EXCEPT ![s] = Idle]
    /\ UNCHANGED <<paused, checking, marking, request, lookups, up>>

\* Faulty variant: the answer replaces whatever name there is.
LookupDoneBlind(m) ==
    /\ m \in lookups
    /\ lookups' = lookups \ {m}
    /\ \/ row' = row
       \/ \E n \in Names \cup {None} :
            /\ row[m] # None
            /\ row' = [row EXCEPT ![m].name = n]
    /\ pub' = {}
    /\ UNCHANGED <<lastWrite, paused, sender, checking, marking, request, up>>

\* A PTR lookup answers, or not; a name is stored only where there is none.
LookupDone(m) ==
    /\ m \in lookups
    /\ lookups' = lookups \ {m}
    /\ \/ row' = row
       \/ \E n \in Names :
            /\ row[m] # None /\ row[m].name = None
            /\ row' = [row EXCEPT ![m].name = n]
    /\ pub' = {}
    /\ UNCHANGED <<lastWrite, paused, sender, checking, marking, request, up>>

-----------------------------------------------------------------------------
(* RunOfflineChecker: one goroutine, at any moment since its ticker is not  *)
(* aligned with anything.                                                   *)

\* The offline checker leaves virtual devices alone, and HTTP services that
\* have a URL.
Exempt(d) == \/ d.category = "virtual"
             \/ d.category = "http-service" /\ d.url # None

Expired(m) == /\ Online(m)
              /\ row[m].lastSeen > OfflineTimeout
              /\ ~Exempt(row[m])

\* Faulty variant: the SELECT finds approved devices only.
SelectApproved ==
    /\ checking = {}
    /\ \E m \in MACs : Expired(m) /\ row[m].approved
    /\ checking' = {MetaOf(m, row[m]) : m \in {x \in MACs : Expired(x) /\ row[x].approved}}
    /\ pub' = {}
    /\ UNCHANGED <<row, lastWrite, paused, sender, marking, request, lookups, up>>

\* checkOffline's SELECT, without the mutex.
SelectExpired ==
    /\ checking = {}
    /\ \E m \in MACs : Expired(m)
    /\ checking' = {MetaOf(m, row[m]) : m \in {x \in MACs : Expired(x)}}
    /\ pub' = {}
    /\ UNCHANGED <<row, lastWrite, paused, sender, marking, request, lookups, up>>

\* The table after UPDATE devices SET online = 0 for the MACs of M.
Offline(M) ==
    [m \in MACs |-> IF m \in M /\ row[m] # None THEN [row[m] EXCEPT !.online = FALSE]
                                                ELSE row[m]]

\* The region that writes all candidates, without looking at their rows again.
MarkExpired ==
    /\ checking # {}
    /\ row' = Offline({c.mac : c \in checking})
    /\ pub' = {EventOf("lost", c, "registry") : c \in checking}
    /\ checking' = {}
    /\ UNCHANGED <<lastWrite, paused, sender, marking, request, lookups, up>>

-----------------------------------------------------------------------------
(* MarkHttpServiceOffline, called by the HTTP checker's goroutine.  The     *)
(* devices it checks had a URL when its round began, and may have none now. *)

HttpFailed(m) ==
    /\ Urls # {}
    /\ marking = None
    /\ Online(m)
    /\ marking' = MetaOf(m, row[m])
    /\ pub' = {}
    /\ UNCHANGED <<row, lastWrite, paused, sender, checking, request, lookups, up>>

\* Faulty variant: the second region does not look again.
MarkHttpBlind ==
    /\ marking # None
    /\ row' = Offline({marking.mac})
    /\ pub' = {EventOf("lost", marking, "http-checker")}
    /\ marking' = None
    /\ UNCHANGED <<lastWrite, paused, sender, checking, request, lookups, up>>

\* The second region, which looks again.
MarkHttp ==
    /\ marking # None
    /\ \/ /\ Online(marking.mac)
          /\ row' = Offline({marking.mac})
          /\ pub' = {EventOf("lost", marking, "http-checker")}
       \/ /\ ~Online(marking.mac)
          /\ row' = row
          /\ pub' = {}
    /\ marking' = None
    /\ UNCHANGED <<lastWrite, paused, sender, checking, request, lookups, up>>

-----------------------------------------------------------------------------
(* The web handlers.                                                        *)

\* AddManual finds no row, and goes on to a PTR lookup.
AddManual(m) ==
    /\ "add" \in Requests
    /\ request = None
    /\ row[m] = None
    /\ request' = [op |-> "add", mac |-> m]
    /\ pub' = {}
    /\ UNCHANGED <<row, lastWrite, paused, sender, checking, marking, lookups, up>>

\* Import reads the row of one record and will insert or update it.
Import(m) ==
    /\ "import" \in Requests
    /\ request = None
    /\ request' = [op |-> IF row[m] = None THEN "insert" ELSE "update", mac |-> m]
    /\ pub' = {}
    /\ UNCHANGED <<row, lastWrite, paused, sender, checking, marking, lookups, up>>

\* What a form and the PTR lookup, or a record of a file, can say of a device;
\* nobody looks at it before it is written.  The last_seen an import inserts is
\* the time at which the whole import began.
Added == {d \in [ip : IPs \cup {None}, name : Names \cup {None}, services : {{}},
                 category : Categories \cup {None}, priority : {FALSE}, url : {None},
                 approved : {TRUE}, online : {FALSE}, lastSeen : {0}] :
            d.ip = None => d.name = None}
Imported == [ip : IPs \cup {None}, name : Names \cup {None}, services : {{}},
             category : Categories \cup {None}, priority : Priorities, url : {None},
             approved : BOOLEAN, online : {FALSE}, lastSeen : Age]

\* Faulty variant: an import overwrites the online flag too.
MergedOffline(d, dev) ==
    [d EXCEPT !.priority = dev.priority,
              !.approved = dev.approved,
              !.online = dev.online,
              !.category = IF dev.category = None THEN @ ELSE dev.category]

\* The row an import of dev leaves of d.
Merged(d, dev) ==
    [d EXCEPT !.priority = dev.priority,
              !.approved = dev.approved,
              !.category = IF dev.category = None THEN @ ELSE dev.category]

\* The region that writes: an INSERT fails if the row exists by now, an UPDATE
\* changes nothing if it is gone by now.
Write ==
    /\ request # None
    /\ LET m == request.mac IN
       \/ /\ request.op # "update" /\ row[m] = None
          /\ \E d \in IF request.op = "add" THEN Added ELSE Imported :
               row' = [row EXCEPT ![m] = d]
       \/ /\ request.op = "update" /\ row[m] # None
          /\ \E d \in Imported : row' = [row EXCEPT ![m] = Merged(@, d)]
       \/ /\ (request.op = "update") = (row[m] = None)
          /\ row' = row
    /\ request' = None
    /\ pub' = {}
    /\ UNCHANGED <<lastWrite, paused, sender, checking, marking, lookups, up>>

\* Delete forgets the row, if there is one, and its debounce entry.
Delete(m) ==
    /\ row' = [row EXCEPT ![m] = None]
    /\ lastWrite' = [lastWrite EXCEPT ![m] = None]
    /\ pub' = {}
    /\ UNCHANGED <<paused, sender, checking, marking, request, lookups, up>>

\* The one-statement setters.
SetPriority(m, p) == row' = [row EXCEPT ![m].priority = p]
SetCategory(m, c) == row' = [row EXCEPT ![m].category = c]
SetHttpUrl(m, u)  == row' = [row EXCEPT ![m].url = u]
Approve(m)        == row' = [row EXCEPT ![m].approved = TRUE]

ApproveAll ==
    row' = [m \in MACs |-> IF row[m] = None THEN None
                                            ELSE [row[m] EXCEPT !.approved = TRUE]]

Edit ==
    /\ \/ \E m \in {x \in MACs : row[x] # None} :
            \/ \E p \in Priorities : SetPriority(m, p)
            \/ \E c \in Categories \cup {None} : SetCategory(m, c)
            \/ \E u \in Urls \cup {None} : SetHttpUrl(m, u)
            \/ Approve(m)
       \/ ApproveAll
    /\ pub' = {}
    /\ UNCHANGED <<memory, up>>

\* Sightings are let through again, or, in an instance that pauses, no more.
SetListening(enabled) ==
    /\ enabled \/ "pause" \in Requests
    /\ paused' = ~enabled
    /\ pub' = {}
    /\ UNCHANGED <<row, lastWrite, sender, checking, marking, request, lookups, up>>

-----------------------------------------------------------------------------
(* Time, death and restart.                                                 *)

Tick ==
    /\ row' = [m \in MACs |-> IF row[m] = None THEN None
                              ELSE [row[m] EXCEPT !.lastSeen = Older(@)]]
    /\ lastWrite' = [m \in MACs |-> OlderIfSet(lastWrite[m])]
    /\ sender' = [s \in Senders |-> IF sender[s].pc = "idle" THEN sender[s]
                                    ELSE [sender[s] EXCEPT !.now = Older(@)]]
    /\ pub' = {}
    /\ UNCHANGED <<paused, checking, marking, request, lookups, up>>

\* The tables the process may leave behind: each region's first statement may
\* have been executed and the rest of the region not.
TornInsert == {[row EXCEPT ![sender[s].mac] = Discovered(sender[s])] :
               s \in {x \in Senders : sender[x].pc = "insert" /\ row[sender[x].mac] = None}}
TornUpdate == {RefreshedRow(sender[s]) : s \in {x \in Senders : sender[x].pc = "update"}}
TornMark   == {Offline(M) : M \in SUBSET {c.mac : c \in checking}}
TornHttp   == IF marking = None THEN {} ELSE {Offline({marking.mac})}

\* Faulty variant: the map outlives the process, written at each change.
LastWriteKept == lastWrite

\* The map a new process starts with.
LastWriteAfterDeath == [m \in MACs |-> None]

\* The process dies: its memory and the events under way are gone.
Crash ==
    /\ Crashes
    /\ up
    /\ row' \in {row} \cup TornInsert \cup TornUpdate \cup TornMark \cup TornHttp
    /\ up' = FALSE
    /\ lastWrite' = LastWriteAfterDeath
    /\ sender' = [s \in Senders |-> Idle]
    /\ checking' = {}
    /\ marking' = None
    /\ request' = None
    /\ lookups' = {}
    /\ pub' = {}
    /\ UNCHANGED paused

\* The rows BackfillReverseDNS looks up; their names are written one by one.
BackfillReverseDNS == {m \in MACs : row[m] # None /\ row[m].name = None /\ row[m].ip # None}

\* main: an empty lastWrite, the backfill of names, and the listening flag the
\* settings file holds.
Boot ==
    /\ ~up
    /\ up' = TRUE
    /\ paused' \in BOOLEAN
    /\ lookups' = BackfillReverseDNS
    /\ pub' = {}
    /\ UNCHANGED <<row, lastWrite, sender, checking, marking, request>>

-----------------------------------------------------------------------------

HandleSeen(s) == Hear(s) \/ Resolve(s) \/ Lookup(s) \/ Insert(s) \/ Debounce(s) \/ Update(s)

CheckOffline == SelectExpired \/ MarkExpired

HttpChecker == MarkHttp \/ \E m \in MACs : HttpFailed(m)

Web == \/ Write \/ Edit
       \/ \E m \in MACs : AddManual(m) \/ Import(m) \/ Delete(m)
       \/ \E b \in BOOLEAN : SetListening(b)

Running == \/ \E s \in Senders : HandleSeen(s)
           \/ \E m \in MACs : LookupDone(m)
           \/ CheckOffline \/ HttpChecker \/ Web

Next == \/ up /\ Running
        \/ Tick
        \/ Crash
        \/ Boot

Spec == Init /\ [][Next]_vars

\* The checker's ticker fires for ever, the mutex is handed to every goroutine
\* that waits for it, and time passes.
Fairness ==
    /\ WF_vars(Tick)
    /\ WF_vars(Boot)
    /\ WF_vars(up /\ SelectExpired)
    /\ WF_vars(up /\ MarkExpired)
    /\ \A s \in Senders : WF_vars(up /\ (Lookup(s) \/ Insert(s) \/ Debounce(s) \/ Update(s)))

FairSpec == Spec /\ Fairness

-----------------------------------------------------------------------------
(* Properties.                                                              *)

\* Type invariant: every variable holds what the code can store in it, and a
\* call of handleSeen that has got past macByIP has a MAC.
TypeOK ==
    /\ row \in [MACs -> Device \cup {None}]
    /\ lastWrite \in [MACs -> Age \cup {None}]
    /\ paused \in BOOLEAN
    /\ sender \in [Senders -> Handling]
    /\ \A s \in Senders : sender[s].pc \notin {"idle", "resolve"} => sender[s].mac \in MACs
    /\ checking \in SUBSET Meta
    /\ marking \in Meta \cup {None}
    /\ request \in Request \cup {None}
    /\ lookups \in SUBSET MACs
    /\ up \in BOOLEAN
    /\ pub \in SUBSET Event

\* The debounce map never disagrees with the table: the entry of an online
\* device is exactly the last_seen of its row, although rows are also written
\* by the checkers, the web handlers and imports, deleted under a sighting in
\* flight, and outlive the map in a restart.  (handleSeen's early return trusts
\* the map alone.)
DebounceConsistent ==
    \A m \in MACs : Online(m) /\ lastWrite[m] # None
                       => row[m].lastSeen = lastWrite[m]

\* A step of DroppedOnlyWhenFresh.
DroppedIsFresh ==
    \A s \in Senders :
      LET m == sender[s].mac IN
      sender[s].pc = "debounce" /\ sender'[s].pc = "idle" /\ up'
      /\ Online(m)
         => 3 * row[m].lastSeen < OfflineTimeout

\* A sighting of an online device is dropped only while the row's last_seen is
\* younger than a third of the offline timeout: debouncing never starves the
\* offline checker of a write ("enough to keep last_seen fresh").
DroppedOnlyWhenFresh == [][DroppedIsFresh]_vars

Published(type, m) == \E e \in pub' : e.type = type /\ e.mac = m

\* A step of NewExactlyOnInsert.
NewIsInsert ==
    up /\ up' => \A m \in MACs :
      Published("new", m) <=> /\ row[m] = None
                              /\ row'[m] # None
                              /\ row'[m].online
                              /\ ~row'[m].approved

\* device.new is published for a MAC exactly when a sighting creates its row,
\* online and not approved: once per row however many collectors see the device
\* at once, never for a row the web handlers made, and a sighting in flight
\* never brings a deleted row back.
NewExactlyOnInsert == [][NewIsInsert]_vars

\* A step of NoSilentLoss.
LossIsPublished ==
    up /\ up' => \A m \in MACs :
      Online(m) /\ row'[m] # None /\ ~row'[m].online
         => Published("lost", m)

\* No device goes offline silently: whichever goroutine clears a row's online
\* flag publishes device.lost in the same step.  (A crash in between can.)
NoSilentLoss == [][LossIsPublished]_vars

\* A step of NameNotOverwritten.
NameIsKept ==
    \A m \in MACs :
      row[m] # None /\ row'[m] # None /\ row[m].name # None
      /\ row'[m].name # row[m].name
         => \E s \in Senders : sender[s].pc = "update" /\ sender[s].mac = m

\* A name learnt from the device itself is never replaced by the answer of a
\* PTR lookup that started before the name was known, nor lost to an import: only
\* another sighting replaces it.
NameNotOverwritten == [][NameIsKept]_vars

\* The services a device has advertised are never forgotten while its row
\* stays: handleSeen writes the union with the list it read two regions earlier,
\* which no other goroutine can have extended, as only the mDNS collector's
\* sightings carry services.
ServicesOnlyGrow ==
    [][\A m \in MACs : row[m] # None /\ row'[m] # None
                          => row[m].services \subseteq row'[m].services]_vars

\* A step of HttpLostIsReal.
HttpLostIsLoss ==
    \A e \in pub' : e.type = "lost" /\ e.source = "http-checker"
      => /\ Online(e.mac)
         /\ row'[e.mac] # None /\ ~row'[e.mac].online

\* The HTTP checker's verdict takes effect, and is announced, only on a row
\* that is online at that moment ("Re-check under lock to prevent a race with
\* handleSeen").
HttpLostIsReal == [][HttpLostIsLoss]_vars

\* Once the process stays up, a device the offline checker watches does not
\* stay online for ever with a last_seen older than the timeout.
ExpiredGoesOffline ==
    \A m \in MACs : <>[]up => [](Expired(m) => <>~Expired(m))

HeardNow(m) == \E s \in Senders : sender[s].pc = "get" /\ sender[s].mac = m

\* Once the process stays up, a device that sightings keep arriving for keeps
\* coming back online (or is deleted): also when a candidate the checker selected
\* before it was heard is marked offline after a sighting that was dropped because
\* its row had just been written, and when the row comes from an import.
HeardComesOnline ==
    \A m \in MACs : <>[]up /\ []<>HeardNow(m)
                       => []<>(row[m] = None \/ row[m].online)

\* device.back is published exactly for the returns of known devices ("Gerät
\* wieder online", docs/architecture.md).
BackExactlyOnReturn ==
    [][up /\ up' => \A m \in MACs :
          Published("back", m) <=> row[m] # None /\ ~Online(m) /\ Online(m)']_vars

\* The offline checker declares lost only a device without a sighting for the
\* whole offline timeout (docs/modules/arp.md).
LostOnlyAfterTimeout ==
    [][\A e \in pub' : e.type = "lost" /\ e.source = "registry"
          => (row[e.mac] # None => row[e.mac].lastSeen > OfflineTimeout)]_vars

=============================================================================
