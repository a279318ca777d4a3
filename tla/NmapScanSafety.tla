--------------------------- MODULE NmapScanSafety ---------------------------
(***************************************************************************)
(* Safety of Bus and NmapScan, for every number of devices, collectors,    *)
(* spellings and goroutines: who has subscribed when somebody publishes,   *)
(* who holds the registry's mutex, and which scans run.                    *)
(***************************************************************************)
EXTENDS NmapScan, TLAPS

-----------------------------------------------------------------------------
(* The bus.                                                                 *)

\* What main does first, and when it starts the goroutines.
LEMMA StartupFacts ==
    /\ Len(Startup) = 7 /\ DOMAIN Startup = 1 .. 7
    /\ \A k \in 1 .. 5 : /\ Startup[k].do = "subscribe"
                         /\ Startup[k].who \in Subscribers
                         /\ Startup[k].type \in Types \cup {"seen"}
    /\ \A k \in 6 .. 7 : Startup[k].do = "start"
BY DEF Startup, Subscribing, Starting, Subscribers, Types

LEMMA NobodyIsNone == None \notin Threads
BY BusAssumption DEF BusAssumption, Threads

\* Who is at rest waits for nothing and holds nothing.
LEMMA RestFacts ==
    /\ Rest \notin Sighting /\ Rest \notin Holding
    /\ \A s \in Sighting : s \notin Holding /\ s.pc = "wait"
                           /\ s.mac \in MACs /\ s.ip \in IPs \cup {None}
    /\ \A h \in Holding : h.pc \in {"unlock", "publish"}
                          /\ (h.pc = "publish" => h.event \in Event)
    /\ [pc |-> "unlock"] \in Holding
    /\ \A e \in Event : [pc |-> "publish", event |-> e] \in Holding
    /\ \A m \in MACs, i \in IPs \cup {None} : [pc |-> "wait", mac |-> m, ip |-> i] \in Sighting
BY DEF Rest, Sighting, Holding

\* What the region writes and publishes is a row and an event.
LEMMA StoredIsRow ==
    ASSUME NEW p, NEW d \in Row \cup {None}, NEW i \in IPs \cup {None}
    PROVE  Stored(p, d, i) \in Row \cup {None}
<1>1. CASE d = None
  BY <1>1 DEF Stored, Row
<1>2. CASE d # None
  BY <1>2 DEF Stored, Row
<1> QED BY <1>1, <1>2

LEMMA PublishedIsType ==
    ASSUME NEW p, NEW d
    PROVE  Published(p, d) \in Types \cup {None}
BY DEF Published, Types

\* What has been subscribed stays so, and only a process that has subscribed
\* everything has goroutines that do anything.
Wired == /\ \A k \in 1 .. 5 : k <= started => Startup[k].who \in handlers[Startup[k].type]
         /\ \A p \in Threads : thread[p] # Rest => started >= 6

BusInv == BusTypeOK /\ Wired

LEMMA BusInitInv == BusInit => BusInv
BY NobodyIsNone, RestFacts, StartupFacts DEF BusInit, BusInv, BusTypeOK, Wired

LEMMA RunningIsStarted ==
    ASSUME NEW p, BusInv, Running(p)
    PROVE  started >= 6
<1>1. PICK k \in DOMAIN Startup : Done(k) /\ Startup[k].do = "start"
  BY DEF Running
<1>2. k \in 6 .. 7
  BY <1>1, StartupFacts
<1>3. k <= started /\ started \in Nat
  BY <1>1, StartupFacts DEF Done, BusInv, BusTypeOK
<1> QED BY <1>2, <1>3

LEMMA MainInv == BusInv /\ Main => BusInv'
<1> SUFFICES ASSUME BusInv, Main PROVE BusInv'
  OBVIOUS
<1>1. started \in 0 .. 6 /\ started' = started + 1 /\ thread' = thread
  BY StartupFacts DEF Main, BusInv, BusTypeOK
<1> DEFINE step == Startup[started + 1]
<1>2. CASE started <= 4
  <2>1. /\ step.do = "subscribe" /\ step.who \in Subscribers
        /\ step.type \in Types \cup {"seen"}
    BY <1>1, <1>2, StartupFacts
  <2>2. handlers' = [handlers EXCEPT ![step.type] = @ \cup {step.who}]
    BY <2>1 DEF Main
  <2>3. handlers' \in [Types \cup {"seen"} -> SUBSET Subscribers]
    BY <2>1, <2>2 DEF BusInv, BusTypeOK
  <2>4. ASSUME NEW k \in 1 .. 5, k <= started'
        PROVE  Startup[k].who \in handlers'[Startup[k].type]
    <3>1. CASE k = started + 1
      BY <2>1, <2>2, <3>1 DEF BusInv, BusTypeOK
    <3>2. CASE k # started + 1
      <4>1. k <= started
        BY <1>1, <2>4, <3>2
      <4>2. Startup[k].who \in handlers[Startup[k].type]
        BY <4>1 DEF BusInv, Wired
      <4>3. Startup[k].type \in Types \cup {"seen"}
        BY StartupFacts
      <4> HIDE DEF step
      <4> QED BY <2>1, <2>2, <4>2, <4>3 DEF BusInv, BusTypeOK
    <3> QED BY <3>1, <3>2
  <2>5. BusTypeOK'
    BY <1>1, <2>3, StartupFacts DEF Main, BusInv, BusTypeOK
  <2> QED BY <1>1, <2>4, <2>5 DEF BusInv, Wired
<1>3. CASE started > 4
  <2>1. step.do = "start"
    <3>1. started + 1 \in 6 .. 7
      BY <1>1, <1>3
    <3> QED BY <3>1, StartupFacts
  <2>2. handlers' = handlers
    BY <2>1 DEF Main
  <2>3. BusTypeOK'
    BY <1>1, <2>2, StartupFacts DEF Main, BusInv, BusTypeOK
  <2> QED BY <1>1, <1>3, <2>2, <2>3, StartupFacts DEF BusInv, Wired
<1> QED BY <1>1, <1>2, <1>3

\* A goroutine goes on to s while the mutex, and who has subscribed, stay.
LEMMA SightedInv ==
    ASSUME BusInv, NEW p \in Threads, thread[p] = Rest, NEW s \in Sighting,
           thread' = [thread EXCEPT ![p] = s], started >= 6,
           UNCHANGED <<started, handlers, row, mu, tasks, up>>
    PROVE  BusInv'
<1>1. thread' \in [Threads -> {Rest} \cup Sighting \cup Holding]
  BY DEF BusInv, BusTypeOK
<1>2. ASSUME NEW q \in Threads PROVE (mu' = q) <=> thread'[q] \in Holding
  BY RestFacts DEF BusInv, BusTypeOK
<1>3. BusTypeOK'
  BY <1>1, <1>2 DEF BusInv, BusTypeOK
<1> QED BY <1>3 DEF BusInv, Wired

LEMMA HearInv ==
    ASSUME BusInv, NEW p \in Threads, NEW m \in MACs, NEW i \in IPs \cup {None}, Hear(p, m, i)
    PROVE  BusInv'
<1>1. started >= 6
  BY RunningIsStarted DEF Hear
<1> DEFINE s == [pc |-> "wait", mac |-> m, ip |-> i]
<1>2. s \in Sighting
  BY RestFacts
<1>3. thread[p] = Rest /\ thread' = [thread EXCEPT ![p] = s]
      /\ UNCHANGED <<started, handlers, row, mu, tasks, up>>
  BY DEF Hear
<1> HIDE DEF s
<1> QED BY <1>1, <1>2, <1>3, SightedInv

LEMMA ExpireInv ==
    ASSUME BusInv, NEW m \in MACs, Expire(m)
    PROVE  BusInv'
<1>1. started >= 6
  BY RunningIsStarted DEF Expire
<1>2. row[m].ip \in IPs \cup {None}
  BY DEF Expire, BusInv, BusTypeOK, Row
<1> DEFINE s == [pc |-> "wait", mac |-> m, ip |-> row[m].ip]
<1>3. s \in Sighting
  BY <1>2, RestFacts
<1>4. thread[Checker] = Rest /\ thread' = [thread EXCEPT ![Checker] = s]
      /\ UNCHANGED <<started, handlers, row, mu, tasks, up>>
  BY DEF Expire
<1>5. Checker \in Threads
  BY DEF Threads
<1> HIDE DEF s
<1> QED BY <1>1, <1>3, <1>4, <1>5, SightedInv

LEMMA RegionInv ==
    ASSUME BusInv, NEW p \in Threads, Region(p)
    PROVE  BusInv'
<1>1. thread[p] \in Sighting
  BY RestFacts DEF Region, BusInv, BusTypeOK, Rest
<1> DEFINE m == thread[p].mac
           i == thread[p].ip
           type == Published(p, row[m])
           h == IF type = None THEN [pc |-> "unlock"]
                ELSE [pc |-> "publish", event |-> [type |-> type, mac |-> m, ip |-> i]]
<1>2. m \in MACs /\ i \in IPs \cup {None}
  BY <1>1, RestFacts
<1>3. /\ row' = [row EXCEPT ![m] = Stored(p, row[m], i)]
      /\ thread' = [thread EXCEPT ![p] = h]
      /\ mu = None /\ mu' = p /\ UNCHANGED <<started, handlers, tasks, up>>
  BY DEF Region
<1>4. type \in Types \cup {None}
  BY PublishedIsType
<1>5. h \in Holding
  <2> HIDE DEF type, m, i
  <2>1. CASE type = None
    BY <2>1, RestFacts
  <2>2. CASE type # None
    <3>1. [type |-> type, mac |-> m, ip |-> i] \in Event
      BY <1>2, <1>4, <2>2 DEF Event
    <3> QED BY <2>2, <3>1, RestFacts
  <2> QED BY <2>1, <2>2
<1> HIDE DEF h, type, m, i
<1>6. row' \in [MACs -> Row \cup {None}]
  <2>1. Stored(p, row[m], i) \in Row \cup {None}
    BY <1>2, StoredIsRow DEF BusInv, BusTypeOK
  <2> QED BY <1>2, <1>3, <2>1 DEF BusInv, BusTypeOK
<1>7. thread' \in [Threads -> {Rest} \cup Sighting \cup Holding]
  BY <1>3, <1>5 DEF BusInv, BusTypeOK
<1>8. ASSUME NEW q \in Threads PROVE (mu' = q) <=> thread'[q] \in Holding
  BY <1>3, <1>5, NobodyIsNone DEF BusInv, BusTypeOK
<1>9. thread[p] # Rest
  BY <1>1, RestFacts
<1>10. BusTypeOK'
  BY <1>3, <1>6, <1>7, <1>8 DEF BusInv, BusTypeOK
<1> QED BY <1>3, <1>9, <1>10 DEF BusInv, BusTypeOK, Wired

LEMMA PublishInv ==
    ASSUME BusInv, NEW p \in Threads, Publish(p)
    PROVE  BusInv'
<1>1. thread[p] \in Holding /\ thread[p].event \in Event
  BY RestFacts DEF Publish, BusInv, BusTypeOK, Rest
<1> DEFINE h == [pc |-> "unlock"]
<1>2. thread' = [thread EXCEPT ![p] = h] /\ h \in Holding
  BY RestFacts DEF Publish
<1>3. tasks' \subseteq Event
  BY <1>1 DEF Publish, BusInv, BusTypeOK
<1> HIDE DEF h
<1>4. thread' \in [Threads -> {Rest} \cup Sighting \cup Holding]
  BY <1>2 DEF BusInv, BusTypeOK
<1>5. ASSUME NEW q \in Threads PROVE (mu' = q) <=> thread'[q] \in Holding
  BY <1>1, <1>2 DEF Publish, BusInv, BusTypeOK
<1>6. thread[p] # Rest
  BY <1>1, RestFacts
<1>7. BusTypeOK'
  BY <1>3, <1>4, <1>5 DEF Publish, BusInv, BusTypeOK
<1> QED BY <1>2, <1>6, <1>7 DEF Publish, BusInv, BusTypeOK, Wired

LEMMA UnlockInv ==
    ASSUME BusInv, NEW p \in Threads, Unlock(p)
    PROVE  BusInv'
<1>1. thread[p] \in Holding
  BY RestFacts DEF Unlock, BusInv, BusTypeOK, Rest
<1>2. thread' = [thread EXCEPT ![p] = Rest] /\ mu' = None /\ mu = p
  BY <1>1 DEF Unlock, BusInv, BusTypeOK
<1>3. thread' \in [Threads -> {Rest} \cup Sighting \cup Holding]
  BY <1>2 DEF BusInv, BusTypeOK
<1>4. ASSUME NEW q \in Threads PROVE (mu' = q) <=> thread'[q] \in Holding
  BY <1>2, RestFacts, NobodyIsNone DEF BusInv, BusTypeOK
<1>5. BusTypeOK'
  BY <1>2, <1>3, <1>4 DEF Unlock, BusInv, BusTypeOK
<1> QED BY <1>2, <1>5 DEF Unlock, BusInv, BusTypeOK, Wired

LEMMA BusStepInv == BusInv /\ BusStep => BusInv'
<1> SUFFICES ASSUME BusInv, BusStep PROVE BusInv'
  OBVIOUS
<1>1. CASE Main
  BY <1>1, MainInv
<1>2. CASE Boot
  BY <1>2 DEF Boot, BusInv, BusTypeOK, Wired
<1>3. CASE \E m \in MACs : Expire(m)
  BY <1>3, ExpireInv
<1>4. CASE \E m \in MACs : Delete(m)
  BY <1>4 DEF Delete, BusInv, BusTypeOK, Wired
<1>5. CASE \E p \in Threads : \E m \in MACs, i \in IPs \cup {None} : Hear(p, m, i)
  BY <1>5, HearInv
<1>6. CASE \E p \in Threads : Region(p) \/ Publish(p) \/ Unlock(p)
  BY <1>6, RegionInv, PublishInv, UnlockInv
<1> QED BY <1>1, <1>2, <1>3, <1>4, <1>5, <1>6 DEF BusStep

LEMMA CrashInv == BusInv /\ Crash => BusInv'
<1> SUFFICES ASSUME BusInv, Crash PROVE BusInv'
  OBVIOUS
<1>1. thread' = [p \in Threads |-> Rest] /\ mu' = None /\ started' = 0
  BY DEF Crash
<1>2. thread' \in [Threads -> {Rest} \cup Sighting \cup Holding]
  BY <1>1
<1>3. \A p \in Threads : (mu' = p) <=> thread'[p] \in Holding
  BY <1>1, NobodyIsNone, RestFacts
<1>4. handlers' \in [Types \cup {"seen"} -> SUBSET Subscribers]
  BY DEF Crash
<1>5. started' \in 0 .. Len(Startup)
  BY <1>1, StartupFacts
<1>6. BusTypeOK'
  BY <1>1, <1>2, <1>3, <1>4, <1>5 DEF Crash, BusInv, BusTypeOK
<1> QED BY <1>1, <1>6 DEF BusInv, Wired

LEMMA BusUnchanged == BusInv /\ UNCHANGED busVars => BusInv'
BY DEF BusInv, BusTypeOK, Wired, busVars

-----------------------------------------------------------------------------
(* The scans.                                                               *)

Busy == [pc : {"schedule", "scan", "log", "release"}, key : Keys, ip : IPs]

NInv == TypeOK /\ Wired /\ OneScanPerKey

\* A goroutine goes from one stage of a scan to the next, or comes to one.
LEMMA JobFacts ==
    ASSUME TypeOK, NEW j \in Jobs
    PROVE  /\ job[j] \in {Free} \cup Busy /\ Free.pc = "free"
           /\ job[j].pc # "free" => job[j] \in Busy /\ job[j].key \in Keys
BY DEF TypeOK, Free, Busy

\* While no goroutine starts or ends a scan, the map stays right.
LEMMA SameScans ==
    ASSUME TypeOK, OneScanPerKey, NEW j \in Jobs, NEW b,
           job' = [job EXCEPT ![j] = b], b.key = job[j].key \/ ~Scanning(j),
           Scanning(j) <=> b.pc \in {"scan", "log", "release"}, scanning' = scanning
    PROVE  OneScanPerKey'
<1>1. ASSUME NEW i \in Jobs
      PROVE  /\ Scanning(i)' <=> Scanning(i)
             /\ Scanning(i) => job'[i].key = job[i].key
  BY <1>1 DEF TypeOK, Scanning
<1>2. {job'[i].key : i \in {x \in Jobs : Scanning(x)'}} = {job[i].key : i \in {x \in Jobs : Scanning(x)}}
  BY <1>1
<1>3. ASSUME NEW i \in Jobs, NEW k \in Jobs, Scanning(i)', Scanning(k)', job'[i].key = job'[k].key
      PROVE  i = k
  BY <1>1, <1>3 DEF OneScanPerKey
<1>4. {job[i].key : i \in {x \in Jobs : Scanning(x)}}' = scanning'
  BY <1>2 DEF OneScanPerKey
<1> HIDE DEF Scanning
<1> QED BY <1>3, <1>4 DEF OneScanPerKey

LEMMA JobType ==
    ASSUME TypeOK, NEW j \in Jobs, NEW b \in {Free} \cup Busy, job' = [job EXCEPT ![j] = b]
    PROVE  job' \in [Jobs -> {Free} \cup Busy]
BY DEF TypeOK, Busy

LEMMA HandleNewInv ==
    ASSUME NInv, NEW j \in Jobs, NEW e \in Event, HandleNew(j, e)
    PROVE  NInv'
<1>1. BusInv'
  BY DEF HandleNew, NInv, TypeOK, BusTypeOK, BusInv, Wired
<1>2. CASE e.ip # None /\ auto
  <2> DEFINE b == At("schedule", e.mac, e.ip)
  <2>1. b \in Busy /\ b.pc = "schedule"
    BY <1>2, NmapAssumption DEF At, Busy, Event, NmapAssumption
  <2>2. job' = [job EXCEPT ![j] = b] /\ job[j] = Free /\ UNCHANGED <<scanning, auto>>
    BY <1>2 DEF HandleNew
  <2> HIDE DEF b
  <2>3. OneScanPerKey'
    BY <2>1, <2>2, SameScans, JobFacts DEF NInv, Scanning
  <2>4. job' \in [Jobs -> {Free} \cup Busy]
    BY <2>1, <2>2, JobType DEF NInv
  <2> QED BY <1>1, <2>2, <2>3, <2>4 DEF NInv, TypeOK, BusInv, Busy
<1>3. CASE ~(e.ip # None /\ auto)
  <2>1. UNCHANGED <<job, scanning, auto>>
    BY <1>3 DEF HandleNew
  <2>2. OneScanPerKey'
    BY <2>1 DEF NInv, OneScanPerKey, Scanning
  <2> QED BY <1>1, <2>1, <2>2 DEF NInv, TypeOK, BusInv
<1> QED BY <1>2, <1>3

LEMMA RunNmapInv ==
    ASSUME NInv, NEW j \in Jobs, NEW k \in Keys, RunNmap(j, k)
    PROVE  NInv'
<1>1. BusInv'
  BY BusUnchanged DEF RunNmap, NInv, TypeOK, BusInv
<1> DEFINE b == At("schedule", k, row[Norm[k]].ip)
<1>2. Norm[k] \in MACs
  BY NmapAssumption DEF NmapAssumption
<1>3. row[Norm[k]].ip \in IPs
  BY <1>2 DEF RunNmap, NInv, TypeOK, BusTypeOK, Row
<1>4. b \in Busy /\ b.pc = "schedule"
  BY <1>3 DEF At, Busy
<1>5. job' = [job EXCEPT ![j] = b] /\ job[j] = Free /\ UNCHANGED <<scanning, auto>>
  BY DEF RunNmap
<1> HIDE DEF b
<1>6. OneScanPerKey'
  BY <1>4, <1>5, SameScans, JobFacts DEF NInv, Scanning
<1>7. job' \in [Jobs -> {Free} \cup Busy]
  BY <1>4, <1>5, JobType DEF NInv
<1> QED BY <1>1, <1>5, <1>6, <1>7 DEF NInv, TypeOK, BusInv, Busy

LEMMA ScheduleInv ==
    ASSUME NInv, NEW j \in Jobs, Schedule(j)
    PROVE  NInv'
<1>1. BusInv'
  BY BusUnchanged DEF Schedule, NInv, TypeOK, BusInv
<1>2. job[j] \in Busy /\ job[j].key \in Keys /\ ~Scanning(j)
  BY JobFacts DEF Schedule, NInv, Scanning
<1>3. CASE job[j].key \in scanning
  <2>1. job' = [job EXCEPT ![j] = Free] /\ UNCHANGED <<scanning, auto>>
    BY <1>3 DEF Schedule
  <2>2. OneScanPerKey'
    BY <1>2, <2>1, SameScans, JobFacts DEF NInv
  <2>3. job' \in [Jobs -> {Free} \cup Busy]
    BY <2>1, JobType DEF NInv
  <2> QED BY <1>1, <2>1, <2>2, <2>3 DEF NInv, TypeOK, BusInv, Busy
<1>4. CASE job[j].key \notin scanning
  <2> DEFINE b == [job[j] EXCEPT !.pc = "scan"]
  <2>1. /\ job' = [job EXCEPT ![j] = b] /\ scanning' = scanning \cup {job[j].key}
        /\ UNCHANGED auto
    BY <1>4 DEF Schedule, NInv, TypeOK
  <2>2. b \in Busy /\ b.pc = "scan" /\ b.key = job[j].key
    BY <1>2 DEF Busy
  <2> HIDE DEF b
  <2>3. job' \in [Jobs -> {Free} \cup Busy]
    BY <2>1, <2>2, JobType DEF NInv
  <2>4. ASSUME NEW i \in Jobs
        PROVE  /\ Scanning(i)' <=> (Scanning(i) \/ i = j)
               /\ job'[i].key = job[i].key
    BY <2>1, <2>2 DEF NInv, TypeOK, Scanning
  <2>5. ASSUME NEW i \in Jobs, Scanning(i) PROVE job[i].key # job[j].key
    BY <1>4, <2>5 DEF NInv, OneScanPerKey
  <2>6. scanning' = {job'[i].key : i \in {x \in Jobs : Scanning(x)'}}
    BY <1>2, <2>1, <2>4 DEF NInv, OneScanPerKey
  <2>7. ASSUME NEW i \in Jobs, NEW k \in Jobs, Scanning(i)', Scanning(k)',
               job'[i].key = job'[k].key
        PROVE  i = k
    BY <2>4, <2>5, <2>7 DEF NInv, OneScanPerKey
  <2>8. OneScanPerKey'
    BY <2>6, <2>7 DEF OneScanPerKey
  <2>9. scanning' \subseteq Keys
    BY <1>2, <2>1 DEF NInv, TypeOK
  <2> QED BY <1>1, <2>1, <2>3, <2>8, <2>9 DEF NInv, TypeOK, BusInv, Busy
<1> QED BY <1>3, <1>4

LEMMA ScannedInv ==
    ASSUME NInv, NEW j \in Jobs, Scanned(j) \/ AddEvent(j)
    PROVE  NInv'
<1>1. BusInv'
  BY BusUnchanged DEF Scanned, AddEvent, NInv, TypeOK, BusInv
<1>2. job[j] \in Busy /\ Scanning(j)
  BY JobFacts DEF Scanned, AddEvent, NInv, Scanning
<1>3. PICK b \in Busy : /\ job' = [job EXCEPT ![j] = b]
                        /\ b.pc \in {"log", "release"} /\ b.key = job[j].key
  <2>1. PICK pc \in {"log", "release"} : job' = [job EXCEPT ![j].pc = pc]
    BY DEF Scanned, AddEvent
  <2> DEFINE b == [job[j] EXCEPT !.pc = pc]
  <2>2. b \in Busy /\ b.pc = pc /\ b.key = job[j].key
    BY <1>2 DEF Busy
  <2>3. job' = [job EXCEPT ![j] = b]
    BY <2>1 DEF NInv, TypeOK
  <2> HIDE DEF b
  <2> QED BY <2>2, <2>3
<1>4. UNCHANGED <<scanning, auto>>
  BY DEF Scanned, AddEvent
<1>5. OneScanPerKey'
  BY <1>2, <1>3, <1>4, SameScans DEF NInv
<1>6. job' \in [Jobs -> {Free} \cup Busy]
  BY <1>3, JobType DEF NInv
<1> QED BY <1>1, <1>4, <1>5, <1>6 DEF NInv, TypeOK, BusInv, Busy

LEMMA ReleaseInv ==
    ASSUME NInv, NEW j \in Jobs, Release(j)
    PROVE  NInv'
<1>1. BusInv'
  BY BusUnchanged DEF Release, NInv, TypeOK, BusInv
<1>2. Scanning(j)
  BY DEF Release, Scanning
<1>3. /\ job' = [job EXCEPT ![j] = Free] /\ scanning' = scanning \ {job[j].key}
      /\ UNCHANGED auto
  BY DEF Release
<1>4. ASSUME NEW i \in Jobs
      PROVE  /\ Scanning(i)' <=> (Scanning(i) /\ i # j)
             /\ i # j => job'[i].key = job[i].key
  BY <1>3, JobFacts DEF NInv, TypeOK, Scanning
<1>5. ASSUME NEW i \in Jobs, Scanning(i), i # j PROVE job[i].key # job[j].key
  BY <1>2, <1>5 DEF NInv, OneScanPerKey
<1>6. scanning' = {job'[i].key : i \in {x \in Jobs : Scanning(x)'}}
  BY <1>3, <1>4, <1>5 DEF NInv, OneScanPerKey
<1>7. ASSUME NEW i \in Jobs, NEW k \in Jobs, Scanning(i)', Scanning(k)', job'[i].key = job'[k].key
      PROVE  i = k
  BY <1>4, <1>7 DEF NInv, OneScanPerKey
<1>8. OneScanPerKey'
  BY <1>6, <1>7 DEF OneScanPerKey
<1>9. job' \in [Jobs -> {Free} \cup Busy]
  BY <1>3, JobType DEF NInv
<1> QED BY <1>1, <1>3, <1>8, <1>9 DEF NInv, TypeOK, BusInv, Busy

LEMMA DieInv == NInv /\ Die => NInv'
<1> SUFFICES ASSUME NInv, Die PROVE NInv'
  OBVIOUS
<1>1. BusInv'
  BY CrashInv DEF Die, NInv, TypeOK, BusInv
<1>2. \A j \in Jobs : ~Scanning(j)'
  BY DEF Die, Scanning, Free
<1>3. OneScanPerKey'
  BY <1>2 DEF Die, OneScanPerKey
<1> QED BY <1>1, <1>3 DEF Die, NInv, TypeOK, BusInv

LEMMA BesideInv == NInv /\ BusStep /\ Beside => NInv'
<1> SUFFICES ASSUME NInv, BusStep, Beside PROVE NInv'
  OBVIOUS
<1>1. BusInv'
  BY BusStepInv DEF NInv, TypeOK, BusInv
<1>2. OneScanPerKey'
  BY DEF Beside, NInv, OneScanPerKey, Scanning
<1> QED BY <1>1, <1>2 DEF Beside, NInv, TypeOK, BusInv

LEMMA NInit == Init => NInv
<1> SUFFICES ASSUME Init PROVE NInv
  OBVIOUS
<1>1. BusInv
  BY BusInitInv DEF Init
<1>2. \A j \in Jobs : ~Scanning(j)
  BY DEF Init, Scanning, Free
<1>3. OneScanPerKey
  BY <1>2 DEF Init, OneScanPerKey
<1> QED BY <1>1, <1>3 DEF Init, NInv, TypeOK, BusInv

LEMMA NStep == NInv /\ [Next]_nvars => NInv'
<1> SUFFICES ASSUME NInv, [Next]_nvars PROVE NInv'
  OBVIOUS
<1>1. CASE BusStep /\ Beside
  BY <1>1, BesideInv
<1>2. CASE Die
  BY <1>2, DieInv
<1>3. CASE SetAutoNmap
  <2>1. BusInv'
    BY <1>3, BusUnchanged DEF SetAutoNmap, NInv, TypeOK, BusInv
  <2>2. OneScanPerKey'
    BY <1>3 DEF SetAutoNmap, NInv, OneScanPerKey, Scanning
  <2> QED BY <1>3, <2>1, <2>2 DEF SetAutoNmap, NInv, TypeOK, BusInv
<1>4. CASE \E j \in Jobs : \E e \in Event : HandleNew(j, e)
  BY <1>4, HandleNewInv
<1>5. CASE \E j \in Jobs : \E k \in Keys : RunNmap(j, k)
  BY <1>5, RunNmapInv
<1>6. CASE \E j \in Jobs : Schedule(j) \/ Release(j)
  BY <1>6, ScheduleInv, ReleaseInv
<1>7. CASE \E j \in Jobs : Scanned(j) \/ AddEvent(j)
  BY <1>7, ScannedInv
<1>8. CASE UNCHANGED nvars
  <2>1. BusInv'
    BY <1>8, BusUnchanged DEF nvars, NInv, TypeOK, BusInv
  <2>2. OneScanPerKey'
    BY <1>8 DEF nvars, NInv, OneScanPerKey, Scanning
  <2> QED BY <1>8, <2>1, <2>2 DEF nvars, NInv, TypeOK, BusInv
<1> QED BY <1>1, <1>2, <1>3, <1>4, <1>5, <1>6, <1>7, <1>8 DEF Next

-----------------------------------------------------------------------------

\* The variables keep their types, and r.mu is held by exactly the goroutine that
\* is in a region of it.
THEOREM TypeCorrect == Spec => []TypeOK
<1>1. NInv => TypeOK
  BY DEF NInv
<1> QED BY <1>1, NInit, NStep, PTL DEF Spec

\* Whoever publishes an event finds everybody subscribed who ever will be.
THEOREM AllSubscribedAlways == Spec => []AllSubscribed
<1>1. NInv => AllSubscribed
  <2> SUFFICES ASSUME NInv, NEW p \in Threads, NEW k \in DOMAIN Startup, thread[p] # Rest,
                      Startup[k].do = "subscribe"
               PROVE  Startup[k].who \in handlers[Startup[k].type]
    BY DEF AllSubscribed
  <2>1. k \in 1 .. 5
    BY StartupFacts
  <2>2. started >= 6 /\ started \in Nat
    BY DEF NInv, Wired, TypeOK, BusTypeOK
  <2> QED BY <2>1, <2>2 DEF NInv, Wired
<1> QED BY <1>1, NInit, NStep, PTL DEF Spec

\* No two scans of one key run at once, and the map names exactly those that do.
THEOREM OneScanPerKeyAlways == Spec => []OneScanPerKey
<1>1. NInv => OneScanPerKey
  BY DEF NInv
<1> QED BY <1>1, NInit, NStep, PTL DEF Spec

=============================================================================
