--------------------------- MODULE RegistrySafety ---------------------------
(***************************************************************************)
(* Safety of Registry, for every value of its constants.  First type       *)
(* correctness: one lemma per action says that the action preserves        *)
(* TypeOK, and each rests on lemmas about the records the action stores.   *)
(* The leaves use the constants' assumptions through a few lemmas only.    *)
(* Then the safety properties: the debounce map agrees with the table,     *)
(* what that gives the dropped sightings, and which steps publish          *)
(* device.new and device.lost.                                             *)
(***************************************************************************)
EXTENDS Registry, TLAPS

-----------------------------------------------------------------------------
(* The constants, and the records the actions store.                        *)

\* Ages are closed under the passing of a tick.
LEMMA AgeFacts ==
    /\ 0 \in Age
    /\ \A a \in Age : Older(a) \in Age
BY RegistryAssumption DEF RegistryAssumption, Age, Older

\* A new row's priority flag is one of the values in use.
LEMMA FalsePriority == FALSE \in Priorities /\ Priorities \subseteq BOOLEAN
BY RegistryAssumption DEF RegistryAssumption

\* The state of a sender between two calls.
LEMMA IdleType == Idle \in Handling /\ Idle.pc = "idle"
BY AgeFacts, FalsePriority DEF Idle, Handling

\* A call past macByIP has a MAC.
Handled(e) == e.pc \notin {"idle", "resolve"} => e.mac \in MACs

\* One sender's call changes to a well-typed one that has a MAC if it needs one.
LEMMA SenderType ==
    ASSUME TypeOK, NEW s \in Senders, NEW e \in Handling, Handled(e),
           sender' = [sender EXCEPT ![s] = e]
    PROVE  /\ sender' \in [Senders -> Handling]
           /\ \A t \in Senders : sender'[t].pc \notin {"idle", "resolve"} => sender'[t].mac \in MACs
<1>1. sender \in [Senders -> Handling] BY DEF TypeOK
<1>2. sender' \in [Senders -> Handling] BY <1>1
<1>3. ASSUME NEW t \in Senders, sender'[t].pc \notin {"idle", "resolve"} PROVE sender'[t].mac \in MACs
  BY <1>1, <1>3 DEF Handled, TypeOK
<1> QED BY <1>2, <1>3

\* The row a first sighting inserts.
LEMMA DiscoveredType ==
    ASSUME NEW e \in Handling PROVE Discovered(e) \in Device
BY FalsePriority DEF Handling, Discovered, Device

\* The row a later sighting leaves.
LEMMA RefreshedType ==
    ASSUME NEW e \in Handling, NEW d \in Device PROVE Refreshed(d, e) \in Device
<1> DEFINE ip   == IF e.ip = None THEN d.ip ELSE e.ip
           name == IF e.name = None THEN d.name ELSE e.name
           svcs == IF e.svcs = {} THEN d.services ELSE e.svcs
<1>1. /\ ip \in IPs \cup {None} /\ name \in Names \cup {None} /\ svcs \in SUBSET Services
      /\ e.now \in Age
  BY DEF Handling, Device
<1>2. Refreshed(d, e) = [d EXCEPT !.lastSeen = e.now, !.online = TRUE, !.ip = ip,
                                  !.name = name, !.services = svcs]
  BY DEF Refreshed, Device
<1> HIDE DEF ip, name, svcs
<1> QED BY <1>1, <1>2 DEF Device

\* The handler's locals after its read; its MAC stays.
LEMMA ComparedType ==
    ASSUME NEW e \in Handling, NEW d \in Device
    PROVE  /\ Compared(e, d) \in Handling
           /\ Compared(e, d).mac = e.mac
<1> DEFINE ip   == IF e.ip = d.ip THEN None ELSE e.ip
           name == IF e.name = d.name THEN None ELSE e.name
           svcs == IF e.svcs \subseteq d.services THEN {} ELSE d.services \cup e.svcs
           same == d.online /\ ip = None /\ name = None /\ svcs = {}
           pc   == IF same THEN "debounce" ELSE "update"
           off  == ~d.online
<1>1. /\ ip \in IPs \cup {None} /\ name \in Names \cup {None} /\ svcs \in SUBSET Services
  BY DEF Handling, Device
<1>2. Compared(e, d) = [e EXCEPT !.pc = pc, !.ip = ip, !.name = name, !.svcs = svcs,
                                 !.offline = off, !.category = d.category,
                                 !.priority = d.priority]
  BY DEF Compared
<1>3. d.category \in Categories \cup {None} /\ d.priority \in Priorities
  BY DEF Device
<1>4. off \in BOOLEAN
  OBVIOUS
<1>5. pc \in {"idle", "resolve", "get", "insert", "debounce", "update"}
  OBVIOUS
<1> HIDE DEF ip, name, svcs, same, pc, off
<1>6. Compared(e, d) = [pc |-> pc, mac |-> e.mac, ip |-> ip, name |-> name, svcs |-> svcs,
                        now |-> e.now, offline |-> off, category |-> d.category,
                        priority |-> d.priority]
  BY <1>2 DEF Handling
<1>7. e.mac \in MACs \cup {None} /\ e.now \in Age
  BY DEF Handling
<1> QED BY <1>1, <1>3, <1>4, <1>5, <1>6, <1>7 DEF Handling

\* An event about a device.
LEMMA EventType ==
    ASSUME NEW type \in {"new", "lost", "back"}, NEW source \in {"registry", "http-checker"},
           NEW meta, meta.mac \in MACs, meta.category \in Categories \cup {None},
           meta.priority \in Priorities
    PROVE  EventOf(type, meta, source) \in Event
BY DEF EventOf, Event

\* What a checker copies of a row.
LEMMA MetaType ==
    ASSUME NEW m \in MACs, NEW d \in Device PROVE MetaOf(m, d) \in Meta
BY DEF MetaOf, Meta, Device

\* The initial states, and then one lemma per action.
LEMMA InitType == Init => TypeOK
<1> SUFFICES ASSUME Init PROVE TypeOK
  OBVIOUS
<1>1. row \in [MACs -> Device \cup {None}] /\ lastWrite \in [MACs -> Age \cup {None}]
  BY DEF Init
<1>2. sender \in [Senders -> Handling]
  BY IdleType DEF Init
<1>3. \A s \in Senders : sender[s].pc \notin {"idle", "resolve"} => sender[s].mac \in MACs
  BY IdleType DEF Init
<1>4. /\ paused \in BOOLEAN /\ checking = {} /\ marking = None /\ request = None
      /\ lookups = {} /\ up = TRUE /\ pub = {}
  BY DEF Init
<1> QED BY <1>1, <1>2, <1>3, <1>4 DEF TypeOK

\* Hear preserves TypeOK.
LEMMA HearType == ASSUME TypeOK, NEW s \in Senders, Hear(s) PROVE TypeOK'
<1>1. PICK m \in MACs \cup {None}, i \in IPs \cup {None}, n \in Names \cup {None},
           v \in SUBSET Services :
        sender' = [sender EXCEPT ![s] =
                      Accepted([mac |-> m, ip |-> i, name |-> n, svcs |-> v])]
  BY DEF Hear
<1> DEFINE e == Accepted([mac |-> m, ip |-> i, name |-> n, svcs |-> v])
<1>2. e \in Handling
  BY IdleType DEF Handling, Accepted
<1>3. Handled(e)
  BY DEF Handled, Accepted, Idle
<1>4. sender' = [sender EXCEPT ![s] = e]
  BY <1>1
<1> HIDE DEF e
<1> QED BY <1>2, <1>3, <1>4, SenderType DEF Hear, TypeOK

\* Resolve preserves TypeOK.
LEMMA ResolveType == ASSUME TypeOK, NEW s \in Senders, Resolve(s) PROVE TypeOK'
<1>1. CASE sender' = [sender EXCEPT ![s] = Idle]
  BY <1>1, IdleType, SenderType DEF Resolve, TypeOK, Handled
<1>2. ASSUME NEW m \in MACs,
             sender' = [sender EXCEPT ![s] =
                [sender[s] EXCEPT !.pc = "get", !.mac = m, !.now = 0]]
      PROVE  TypeOK'
  <2> DEFINE e == [sender[s] EXCEPT !.pc = "get", !.mac = m, !.now = 0]
  <2>1. sender[s] \in Handling
    BY DEF TypeOK
  <2>2. e \in Handling /\ Handled(e)
    BY <2>1, AgeFacts DEF Handling, Handled
  <2>3. sender' = [sender EXCEPT ![s] = e]
    BY <1>2
  <2> HIDE DEF e
  <2> QED BY <2>2, <2>3, SenderType DEF Resolve, TypeOK
<1> QED BY <1>1, <1>2 DEF Resolve, MacsByIP

\* Lookup preserves TypeOK.
LEMMA LookupType == ASSUME TypeOK, NEW s \in Senders, Lookup(s) PROVE TypeOK'
<1> DEFINE e == IF row[sender[s].mac] = None THEN [sender[s] EXCEPT !.pc = "insert"]
                ELSE Compared(sender[s], row[sender[s].mac])
<1>1. sender[s] \in Handling /\ sender[s].mac \in MACs
  BY DEF TypeOK, Lookup
<1>2. e \in Handling /\ e.mac = sender[s].mac
  <2>1. CASE row[sender[s].mac] = None
    BY <1>1, <2>1 DEF Handling
  <2>2. CASE row[sender[s].mac] # None
    BY <1>1, <2>2, ComparedType DEF TypeOK
  <2> QED BY <2>1, <2>2
<1>3. sender' = [sender EXCEPT ![s] = e]
  BY DEF Lookup
<1> HIDE DEF e
<1> QED BY <1>1, <1>2, <1>3, SenderType DEF Lookup, TypeOK, Handled

\* Debounce preserves TypeOK.
LEMMA DebounceType == ASSUME TypeOK, NEW s \in Senders, Debounce(s) PROVE TypeOK'
<1> DEFINE e == IF Recent(sender[s].mac) THEN Idle ELSE [sender[s] EXCEPT !.pc = "update"]
<1>1. sender[s] \in Handling /\ sender[s].mac \in MACs
  BY DEF TypeOK, Debounce
<1>2. e \in Handling /\ Handled(e)
  BY <1>1, IdleType DEF Handling, Handled
<1>3. sender' = [sender EXCEPT ![s] = e]
  BY DEF Debounce
<1> HIDE DEF e
<1> QED BY <1>1, <1>2, <1>3, SenderType DEF Debounce, TypeOK

\* Insert preserves TypeOK.
LEMMA InsertType == ASSUME TypeOK, NEW s \in Senders, Insert(s) PROVE TypeOK'
<1> DEFINE e == sender[s]
           d == Discovered(e)
<1>1. e \in Handling /\ e.mac \in MACs /\ e.now \in Age
  BY DEF TypeOK, Insert, Handling
<1>2. d \in Device
  BY <1>1, DiscoveredType
<1>3. EventOf("new", MetaOf(e.mac, d), "registry") \in Event
  BY <1>1, <1>2, EventType DEF MetaOf, Device
<1>4. sender' = [sender EXCEPT ![s] = Idle]
  BY DEF Insert
<1>5. /\ sender' \in [Senders -> Handling]
      /\ \A t \in Senders : sender'[t].pc \notin {"idle", "resolve"} => sender'[t].mac \in MACs
  BY <1>4, IdleType, SenderType DEF Handled
<1>6. /\ row' \in [MACs -> Device \cup {None}]
      /\ lastWrite' \in [MACs -> Age \cup {None}]
      /\ lookups' \in SUBSET MACs
      /\ pub' \in SUBSET Event
  <2>1. CASE row[e.mac] = None
    <3> HIDE DEF d
    <3> QED BY <1>1, <1>2, <1>3, <2>1 DEF Insert, TypeOK, d
  <2>2. CASE row[e.mac] # None
    BY <2>2 DEF Insert, TypeOK
  <2> QED BY <2>1, <2>2
<1> QED BY <1>5, <1>6 DEF Insert, TypeOK

\* The table after a sighting's UPDATE, whether the row is still there or not.
LEMMA RefreshedRowType ==
    ASSUME TypeOK, NEW e \in Handling, e.mac \in MACs
    PROVE  RefreshedRow(e) \in [MACs -> Device \cup {None}]
<1>1. CASE row[e.mac] = None
  BY <1>1 DEF RefreshedRow, TypeOK
<1>2. CASE row[e.mac] # None
  <2>1. row[e.mac] \in Device
    BY <1>2 DEF TypeOK
  <2>2. Refreshed(row[e.mac], e) \in Device
    BY <2>1, RefreshedType
  <2> QED BY <1>2, <2>2 DEF RefreshedRow, TypeOK
<1> QED BY <1>1, <1>2

\* Update preserves TypeOK.
LEMMA UpdateType == ASSUME TypeOK, NEW s \in Senders, Update(s) PROVE TypeOK'
<1> DEFINE e == sender[s]
<1>1. e \in Handling /\ e.mac \in MACs /\ e.now \in Age
  BY DEF TypeOK, Update, Handling
<1>2. row' \in [MACs -> Device \cup {None}]
  BY <1>1, RefreshedRowType DEF Update
<1>3. EventOf("back", MetaOf(e.mac, e), "registry") \in Event
  BY <1>1, EventType DEF MetaOf, Handling
<1>4. sender' = [sender EXCEPT ![s] = Idle]
  BY DEF Update
<1>5. /\ sender' \in [Senders -> Handling]
      /\ \A t \in Senders : sender'[t].pc \notin {"idle", "resolve"} => sender'[t].mac \in MACs
  BY <1>4, IdleType, SenderType DEF Handled
<1> QED BY <1>1, <1>2, <1>3, <1>5 DEF Update, TypeOK

\* The table after some rows' online flags are cleared.
LEMMA OfflineType ==
    ASSUME TypeOK, NEW M PROVE Offline(M) \in [MACs -> Device \cup {None}]
<1>1. ASSUME NEW d \in Device PROVE [d EXCEPT !.online = FALSE] \in Device
  BY DEF Device
<1> QED BY <1>1 DEF Offline, TypeOK

\* LookupDone preserves TypeOK.
LEMMA LookupDoneType == ASSUME TypeOK, NEW m \in MACs, LookupDone(m) PROVE TypeOK'
<1>1. ASSUME NEW n \in Names, row[m] # None, row' = [row EXCEPT ![m].name = n]
      PROVE  row' \in [MACs -> Device \cup {None}]
  <2>1. row[m] \in Device
    BY <1>1 DEF TypeOK
  <2>2. [row[m] EXCEPT !.name = n] \in Device
    BY <2>1 DEF Device
  <2>3. row' = [row EXCEPT ![m] = [row[m] EXCEPT !.name = n]]
    BY <1>1
  <2> QED BY <2>2, <2>3 DEF TypeOK
<1>2. row' \in [MACs -> Device \cup {None}]
  BY <1>1 DEF LookupDone, TypeOK
<1> QED BY <1>2 DEF LookupDone, TypeOK

\* SelectExpired preserves TypeOK.
LEMMA SelectExpiredType == ASSUME TypeOK, SelectExpired PROVE TypeOK'
<1>1. ASSUME NEW m \in MACs, Expired(m) PROVE MetaOf(m, row[m]) \in Meta
  BY <1>1, MetaType DEF Expired, Online, TypeOK
<1> QED BY <1>1 DEF SelectExpired, TypeOK

\* MarkExpired preserves TypeOK.
LEMMA MarkExpiredType == ASSUME TypeOK, MarkExpired PROVE TypeOK'
<1>1. row' \in [MACs -> Device \cup {None}]
  BY OfflineType DEF MarkExpired
<1>2. ASSUME NEW c \in checking PROVE EventOf("lost", c, "registry") \in Event
  BY EventType DEF TypeOK, Meta
<1> QED BY <1>1, <1>2 DEF MarkExpired, TypeOK

\* HttpFailed preserves TypeOK.
LEMMA HttpFailedType == ASSUME TypeOK, NEW m \in MACs, HttpFailed(m) PROVE TypeOK'
<1>1. MetaOf(m, row[m]) \in Meta
  BY MetaType DEF HttpFailed, Online, TypeOK
<1> QED BY <1>1 DEF HttpFailed, TypeOK

\* MarkHttp preserves TypeOK.
LEMMA MarkHttpType == ASSUME TypeOK, MarkHttp PROVE TypeOK'
<1>1. row' \in [MACs -> Device \cup {None}]
  BY OfflineType DEF MarkHttp, TypeOK
<1>2. EventOf("lost", marking, "http-checker") \in Event
  BY EventType DEF TypeOK, Meta, MarkHttp
<1> QED BY <1>1, <1>2 DEF MarkHttp, TypeOK

\* AddManual and Import preserve TypeOK.
LEMMA AddManualType == ASSUME TypeOK, NEW m \in MACs, AddManual(m) PROVE TypeOK'
BY DEF AddManual, TypeOK, Request

LEMMA ImportType == ASSUME TypeOK, NEW m \in MACs, Import(m) PROVE TypeOK'
BY DEF Import, TypeOK, Request

\* What a form or a file says is an offline device without services.
LEMMA RequestedDevice ==
    ASSUME NEW d \in Added \cup Imported
    PROVE  d \in Device /\ d.online = FALSE /\ d.services = {}
<1>1. FALSE \in Priorities /\ 0 \in Age
  BY AgeFacts, FalsePriority
<1> QED BY <1>1 DEF Added, Imported, Device

\* The ways a request can end.
LEMMA WriteCases ==
    ASSUME TypeOK, Write
    PROVE  \/ row' = row
           \/ \E x \in MACs, d \in Added \cup Imported :
                \/ row[x] = None /\ row' = [row EXCEPT ![x] = d]
                \/ row[x] # None /\ row' = [row EXCEPT ![x] = Merged(row[x], d)]
<1>1. request.mac \in MACs
  BY DEF Write, TypeOK, Request
<1> QED BY <1>1 DEF Write

\* The row an import leaves.
LEMMA MergedType ==
    ASSUME NEW d \in Device, NEW dev \in Device PROVE Merged(d, dev) \in Device
<1> DEFINE c == IF dev.category = None THEN d.category ELSE dev.category
<1>1. Merged(d, dev) = [d EXCEPT !.priority = dev.priority, !.approved = dev.approved,
                                 !.category = c]
  BY DEF Merged, Device
<1>2. c \in Categories \cup {None} /\ dev.priority \in Priorities /\ dev.approved \in BOOLEAN
  BY DEF Device
<1> HIDE DEF c
<1> QED BY <1>1, <1>2 DEF Device

\* Write preserves TypeOK.
LEMMA WriteType == ASSUME TypeOK, Write PROVE TypeOK'
<1>1. ASSUME NEW x \in MACs, NEW d \in Added \cup Imported,
             \/ row' = [row EXCEPT ![x] = d]
             \/ row[x] # None /\ row' = [row EXCEPT ![x] = Merged(row[x], d)]
      PROVE  row' \in [MACs -> Device \cup {None}]
  <2>1. d \in Device
    BY RequestedDevice
  <2>2. row[x] # None => Merged(row[x], d) \in Device
    BY <2>1, MergedType DEF TypeOK
  <2> QED BY <1>1, <2>1, <2>2 DEF TypeOK
<1>2. row' \in [MACs -> Device \cup {None}]
  <2>1. CASE row' = row
    BY <2>1 DEF TypeOK
  <2> QED BY <2>1, <1>1, WriteCases
<1> QED BY <1>2 DEF Write, TypeOK

\* Delete preserves TypeOK.
LEMMA DeleteType == ASSUME TypeOK, NEW m \in MACs, Delete(m) PROVE TypeOK'
BY DEF Delete, TypeOK

\* Edit preserves TypeOK.
LEMMA EditType == ASSUME TypeOK, Edit PROVE TypeOK'
<1>1. row' \in [MACs -> Device \cup {None}]
  <2>1. ASSUME NEW m \in MACs, row[m] # None, NEW p \in Priorities, SetPriority(m, p)
        PROVE  row' \in [MACs -> Device \cup {None}]
    <3>1. row[m] \in Device
      BY <2>1 DEF TypeOK
    <3>2. [row[m] EXCEPT !.priority = p] \in Device
      BY <3>1 DEF Device
    <3> QED BY <2>1, <3>2 DEF SetPriority, TypeOK
  <2>2. ASSUME NEW m \in MACs, row[m] # None, NEW c \in Categories \cup {None}, SetCategory(m, c)
        PROVE  row' \in [MACs -> Device \cup {None}]
    <3>1. row[m] \in Device
      BY <2>2 DEF TypeOK
    <3>2. [row[m] EXCEPT !.category = c] \in Device
      BY <3>1 DEF Device
    <3> QED BY <2>2, <3>2 DEF SetCategory, TypeOK
  <2>3. ASSUME NEW m \in MACs, row[m] # None, NEW u \in Urls \cup {None}, SetHttpUrl(m, u)
        PROVE  row' \in [MACs -> Device \cup {None}]
    <3>1. row[m] \in Device
      BY <2>3 DEF TypeOK
    <3>2. [row[m] EXCEPT !.url = u] \in Device
      BY <3>1 DEF Device
    <3> QED BY <2>3, <3>2 DEF SetHttpUrl, TypeOK
  <2>4. ASSUME NEW d \in Device PROVE [d EXCEPT !.approved = TRUE] \in Device
    BY DEF Device
  <2>5. ASSUME NEW m \in MACs, row[m] # None, Approve(m)
        PROVE  row' \in [MACs -> Device \cup {None}]
    BY <2>5, <2>4 DEF Approve, TypeOK
  <2>6. CASE ApproveAll
    BY <2>6, <2>4 DEF ApproveAll, TypeOK
  <2> QED BY <2>1, <2>2, <2>3, <2>5, <2>6 DEF Edit
<1> QED BY <1>1 DEF Edit, TypeOK, memory

\* SetListening preserves TypeOK.
LEMMA SetListeningType ==
    ASSUME TypeOK, NEW b \in BOOLEAN, SetListening(b) PROVE TypeOK'
<1>1. paused' \in BOOLEAN
  BY DEF SetListening
<1> QED BY <1>1 DEF SetListening, TypeOK

\* Tick preserves TypeOK.
LEMMA TickType == ASSUME TypeOK, Tick PROVE TypeOK'
<1>1. ASSUME NEW d \in Device PROVE [d EXCEPT !.lastSeen = Older(@)] \in Device
  BY AgeFacts DEF Device
<1>2. row' \in [MACs -> Device \cup {None}]
  BY <1>1 DEF Tick, TypeOK
<1>3. ASSUME NEW a \in Age \cup {None} PROVE OlderIfSet(a) \in Age \cup {None}
  BY AgeFacts DEF OlderIfSet
<1>4. lastWrite' \in [MACs -> Age \cup {None}]
  BY <1>3 DEF Tick, TypeOK
<1>5. ASSUME NEW e \in Handling
      PROVE  /\ [e EXCEPT !.now = Older(@)] \in Handling
             /\ [e EXCEPT !.now = Older(@)].pc = e.pc
             /\ [e EXCEPT !.now = Older(@)].mac = e.mac
  BY AgeFacts DEF Handling
<1>6. /\ sender' \in [Senders -> Handling]
      /\ \A s \in Senders : sender'[s].pc \notin {"idle", "resolve"} => sender'[s].mac \in MACs
  BY <1>5 DEF Tick, TypeOK
<1> QED BY <1>2, <1>4, <1>6 DEF Tick, TypeOK

\* Crash preserves TypeOK.
LEMMA CrashType == ASSUME TypeOK, Crash PROVE TypeOK'
<1>1. TornInsert \subseteq [MACs -> Device \cup {None}]
  <2>1. ASSUME NEW s \in Senders
        PROVE  [row EXCEPT ![sender[s].mac] = Discovered(sender[s])]
                  \in [MACs -> Device \cup {None}]
    <3>1. Discovered(sender[s]) \in Device
      BY DiscoveredType DEF TypeOK
    <3> QED BY <3>1 DEF TypeOK
  <2> QED BY <2>1 DEF TornInsert
<1>2. TornUpdate \subseteq [MACs -> Device \cup {None}]
  <2>1. ASSUME NEW s \in Senders, sender[s].pc = "update"
        PROVE  RefreshedRow(sender[s]) \in [MACs -> Device \cup {None}]
    BY <2>1, RefreshedRowType DEF TypeOK
  <2> QED BY <2>1 DEF TornUpdate
<1>3. TornMark \cup TornHttp \subseteq [MACs -> Device \cup {None}]
  BY OfflineType DEF TornMark, TornHttp
<1>4. row' \in [MACs -> Device \cup {None}]
  BY <1>1, <1>2, <1>3 DEF Crash, TypeOK
<1> QED BY <1>4, IdleType DEF Crash, LastWriteAfterDeath, TypeOK

\* Boot preserves TypeOK.
LEMMA BootType == ASSUME TypeOK, Boot PROVE TypeOK'
<1>1. paused' \in BOOLEAN
  BY DEF Boot
<1> QED BY <1>1 DEF Boot, BackfillReverseDNS, TypeOK

\* Every step of the registry.
LEMMA NextType == ASSUME TypeOK, [Next]_vars PROVE TypeOK'
<1>1. CASE UNCHANGED vars
  BY <1>1 DEF vars, TypeOK
<1>2. CASE Running
  <2>1. ASSUME NEW s \in Senders, HandleSeen(s) PROVE TypeOK'
    BY <2>1, HearType, ResolveType, LookupType, InsertType, DebounceType, UpdateType
       DEF HandleSeen
  <2>2. ASSUME NEW m \in MACs, LookupDone(m) PROVE TypeOK'
    BY <2>2, LookupDoneType
  <2>3. CASE CheckOffline
    BY <2>3, SelectExpiredType, MarkExpiredType DEF CheckOffline
  <2>4. CASE HttpChecker
    BY <2>4, HttpFailedType, MarkHttpType DEF HttpChecker
  <2>5. CASE Web
    BY <2>5, WriteType, EditType, AddManualType, ImportType, DeleteType, SetListeningType
       DEF Web
  <2> QED BY <1>2, <2>1, <2>2, <2>3, <2>4, <2>5 DEF Running
<1> QED BY <1>1, <1>2, TickType, CrashType, BootType DEF Next

\* Every variable of the registry always holds a value of its type, and a call
\* of handleSeen past macByIP always has a MAC (handleSeen, checkOffline,
\* MarkHttpServiceOffline, AddManual, Import, Delete and the setters).
THEOREM TypeCorrect == Spec => []TypeOK
<1> QED BY InitType, NextType, PTL DEF Spec

-----------------------------------------------------------------------------
(* The debounce map and the table.                                         *)

\* A row is not None, so a table entry is one or the other.
LEMMA NoneFacts ==
    /\ None \notin Age
    /\ \A d \in Device : d # None
    /\ \A d \in Meta : d # None
    /\ None \notin MACs
BY RegistryAssumption DEF RegistryAssumption, Age

-----------------------------------------------------------------------------
(* DebounceConsistent is inductive together with TypeOK.                    *)

\* Steps that leave the map alone, put no row online and change no last_seen of
\* an online row.
LEMMA MapUntouched ==
    ASSUME DebounceConsistent, UNCHANGED lastWrite,
           \A m \in MACs : Online(m)' => Online(m) /\ row'[m].lastSeen = row[m].lastSeen
    PROVE  DebounceConsistent'
BY DEF DebounceConsistent, Online

\* A first sighting writes the row and the map with the same time.
LEMMA InsertConsistent ==
    ASSUME TypeOK, DebounceConsistent, NEW s \in Senders, Insert(s)
    PROVE  DebounceConsistent'
<1> DEFINE e == sender[s]
<1>1. CASE row[e.mac] # None
  BY <1>1 DEF Insert, DebounceConsistent, Online
<1>2. CASE row[e.mac] = None
  <2>1. /\ row' = [row EXCEPT ![e.mac] = Discovered(e)]
        /\ lastWrite' = [lastWrite EXCEPT ![e.mac] = e.now]
        /\ Discovered(e).lastSeen = e.now
    BY <1>2 DEF Insert, Discovered
  <2>2. ASSUME NEW m \in MACs, Online(m)', lastWrite'[m] # None
        PROVE  row'[m].lastSeen = lastWrite'[m]
    <3>1. CASE m = e.mac
      BY <2>1, <3>1 DEF TypeOK
    <3>2. CASE m # e.mac
      BY <2>1, <2>2, <3>2 DEF TypeOK, DebounceConsistent, Online
    <3> QED BY <3>1, <3>2
  <2> QED BY <2>2 DEF DebounceConsistent
<1> QED BY <1>1, <1>2

\* A later sighting too, unless the row is gone: then it is not online.
LEMMA UpdateConsistent ==
    ASSUME TypeOK, DebounceConsistent, NEW s \in Senders, Update(s)
    PROVE  DebounceConsistent'
<1> DEFINE e == sender[s]
<1>1. /\ lastWrite' = [lastWrite EXCEPT ![e.mac] = e.now]
      /\ row' = RefreshedRow(e)
  BY DEF Update
<1>2. ASSUME NEW m \in MACs, Online(m)', lastWrite'[m] # None
      PROVE  row'[m].lastSeen = lastWrite'[m]
  <2>1. CASE row[e.mac] = None
    <3>1. row' = row
      BY <1>1, <2>1 DEF RefreshedRow
    <3>2. m # e.mac
      BY <1>2, <2>1, <3>1 DEF Online
    <3> QED BY <1>1, <1>2, <3>1, <3>2 DEF TypeOK, DebounceConsistent, Online
  <2>2. CASE row[e.mac] # None
    <3>1. row' = [row EXCEPT ![e.mac] = Refreshed(row[e.mac], e)]
      BY <1>1, <2>2 DEF RefreshedRow
    <3>2. CASE m = e.mac
      <4>1. row[m] \in Device
        BY <2>2, <3>2 DEF TypeOK
      <4>2. Refreshed(row[m], e).lastSeen = e.now
        BY <4>1 DEF Refreshed, Device
      <4> QED BY <1>1, <3>1, <3>2, <4>2 DEF TypeOK
    <3>3. CASE m # e.mac
      BY <1>1, <1>2, <3>1, <3>3 DEF TypeOK, DebounceConsistent, Online
    <3> QED BY <3>2, <3>3
  <2> QED BY <2>1, <2>2
<1> QED BY <1>2 DEF DebounceConsistent

\* Clearing online flags.
LEMMA OfflineKeeps ==
    ASSUME TypeOK, NEW M, row' = Offline(M), NEW m \in MACs, Online(m)'
    PROVE  Online(m) /\ row'[m].lastSeen = row[m].lastSeen
<1>1. CASE m \in M /\ row[m] # None
  <2>1. row[m] \in Device
    BY <1>1 DEF TypeOK
  <2>2. row'[m].online = FALSE
    BY <1>1, <2>1 DEF Offline, Device
  <2> QED BY <2>2 DEF Online
<1>2. CASE ~(m \in M /\ row[m] # None)
  BY <1>2 DEF Offline, Online
<1> QED BY <1>1, <1>2

\* A PTR answer touches the name only.
LEMMA LookupDoneConsistent ==
    ASSUME TypeOK, DebounceConsistent, NEW x \in MACs, LookupDone(x)
    PROVE  DebounceConsistent'
<1>1. ASSUME NEW m \in MACs, Online(m)'
      PROVE  Online(m) /\ row'[m].lastSeen = row[m].lastSeen
  <2>1. CASE row' = row
    BY <1>1, <2>1 DEF Online
  <2>2. ASSUME NEW n \in Names, row[x] # None, row' = [row EXCEPT ![x].name = n]
        PROVE  Online(m) /\ row'[m].lastSeen = row[m].lastSeen
    <3>1. row[x] \in Device
      BY <2>2 DEF TypeOK
    <3>2. /\ row'[m] # None => row[m] # None
          /\ row[m] # None => row'[m].online = row[m].online
                              /\ row'[m].lastSeen = row[m].lastSeen
      BY <2>2, <3>1, NoneFacts DEF TypeOK, Device
    <3> QED BY <1>1, <3>2 DEF Online
  <2> QED BY <2>1, <2>2 DEF LookupDone
<1> QED BY <1>1, MapUntouched DEF LookupDone

\* The setters touch neither the online flag nor last_seen.
LEMMA EditConsistent ==
    ASSUME TypeOK, DebounceConsistent, Edit
    PROVE  DebounceConsistent'
<1>1. ASSUME NEW m \in MACs
      PROVE  /\ row'[m] # None => row[m] # None
             /\ row[m] # None => row'[m].online = row[m].online
                                 /\ row'[m].lastSeen = row[m].lastSeen
  <2>1. ASSUME NEW x \in MACs, row[x] # None,
               \/ \E p \in Priorities : SetPriority(x, p)
               \/ \E c \in Categories \cup {None} : SetCategory(x, c)
               \/ \E u \in Urls \cup {None} : SetHttpUrl(x, u)
               \/ Approve(x)
        PROVE  /\ row'[m] # None => row[m] # None
               /\ row[m] # None => row'[m].online = row[m].online
                                   /\ row'[m].lastSeen = row[m].lastSeen
    <3>1. row[x] \in Device
      BY <2>1 DEF TypeOK
    <3>2. CASE m = x
      BY <2>1, <3>1, <3>2 DEF SetPriority, SetCategory, SetHttpUrl, Approve, TypeOK, Device
    <3>3. CASE m # x
      BY <2>1, <3>3 DEF SetPriority, SetCategory, SetHttpUrl, Approve, TypeOK
    <3> QED BY <3>2, <3>3
  <2>2. CASE ApproveAll
    <3>1. CASE row[m] = None
      BY <2>2, <3>1 DEF ApproveAll
    <3>2. CASE row[m] # None
      <4>1. row[m] \in Device
        BY <3>2 DEF TypeOK
      <4> QED BY <2>2, <3>2, <4>1 DEF ApproveAll, Device
    <3> QED BY <3>1, <3>2
  <2> QED BY <2>1, <2>2 DEF Edit
<1>2. UNCHANGED lastWrite
  BY DEF Edit, memory
<1> QED BY <1>1, <1>2, MapUntouched DEF Online

\* Added and imported rows are offline; an import of a known device touches
\* neither the online flag nor last_seen.
LEMMA WriteConsistent ==
    ASSUME TypeOK, DebounceConsistent, Write
    PROVE  DebounceConsistent'
<1>1. ASSUME NEW x \in MACs, NEW d \in Added \cup Imported, NEW m \in MACs, Online(m)',
             \/ row[x] = None /\ row' = [row EXCEPT ![x] = d]
             \/ row[x] # None /\ row' = [row EXCEPT ![x] = Merged(row[x], d)]
      PROVE  Online(m) /\ row'[m].lastSeen = row[m].lastSeen
  <2>1. CASE row[x] = None /\ row' = [row EXCEPT ![x] = d]
    BY <1>1, <2>1, RequestedDevice DEF Online, TypeOK
  <2>2. CASE row[x] # None /\ row' = [row EXCEPT ![x] = Merged(row[x], d)]
    <3>1. row[x] \in Device
      BY <2>2 DEF TypeOK
    <3>2. /\ Merged(row[x], d).online = row[x].online
          /\ Merged(row[x], d).lastSeen = row[x].lastSeen
      BY <3>1 DEF Merged, Device
    <3> QED BY <1>1, <2>2, <3>2 DEF Online, TypeOK
  <2> QED BY <1>1, <2>1, <2>2
<1>2. ASSUME NEW m \in MACs, Online(m)'
      PROVE  Online(m) /\ row'[m].lastSeen = row[m].lastSeen
  <2>1. CASE row' = row
    BY <1>2, <2>1 DEF Online
  <2> QED BY <1>1, <1>2, <2>1, WriteCases
<1> QED BY <1>2, MapUntouched DEF Write

\* A tick makes both times older by one.
LEMMA TickConsistent ==
    ASSUME TypeOK, DebounceConsistent, Tick
    PROVE  DebounceConsistent'
<1>1. ASSUME NEW m \in MACs, Online(m)', lastWrite'[m] # None
      PROVE  row'[m].lastSeen = lastWrite'[m]
  <2>1. row[m] # None /\ row[m] \in Device
    BY <1>1 DEF Tick, Online, TypeOK
  <2>2. row'[m] = [row[m] EXCEPT !.lastSeen = Older(row[m].lastSeen)]
    BY <2>1 DEF Tick
  <2>3. row'[m].online = row[m].online /\ row'[m].lastSeen = Older(row[m].lastSeen)
    BY <2>1, <2>2 DEF Device
  <2>4. lastWrite[m] # None /\ lastWrite'[m] = Older(lastWrite[m])
    BY <1>1 DEF Tick, OlderIfSet
  <2>5. row[m].lastSeen = lastWrite[m]
    BY <1>1, <2>1, <2>3, <2>4 DEF DebounceConsistent, Online
  <2> QED BY <2>3, <2>4, <2>5
<1> QED BY <1>1 DEF DebounceConsistent

\* Every step keeps the map and the table in agreement.
LEMMA ConsistentStep ==
    ASSUME TypeOK, DebounceConsistent, [Next]_vars
    PROVE  DebounceConsistent'
<1>1. CASE UNCHANGED <<row, lastWrite>>
  BY <1>1 DEF DebounceConsistent, Online
<1>2. ASSUME NEW s \in Senders, HandleSeen(s) PROVE DebounceConsistent'
  <2>1. CASE Insert(s)
    BY <2>1, InsertConsistent
  <2>2. CASE Update(s)
    BY <2>2, UpdateConsistent
  <2> QED BY <1>1, <1>2, <2>1, <2>2 DEF HandleSeen, Hear, Resolve, Lookup, Debounce
<1>3. ASSUME NEW m \in MACs, LookupDone(m) PROVE DebounceConsistent'
  BY <1>3, LookupDoneConsistent
<1>4. CASE CheckOffline
  <2>1. CASE SelectExpired
    BY <1>1, <2>1 DEF SelectExpired
  <2>2. CASE MarkExpired
    BY <2>2, OfflineKeeps, MapUntouched DEF MarkExpired
  <2> QED BY <1>4, <2>1, <2>2 DEF CheckOffline
<1>5. CASE HttpChecker
  <2>1. ASSUME NEW m \in MACs, HttpFailed(m) PROVE DebounceConsistent'
    BY <1>1, <2>1 DEF HttpFailed
  <2>2. CASE MarkHttp
    <3>1. CASE row' = row
      BY <1>1, <2>2, <3>1 DEF MarkHttp
    <3>2. CASE row' = Offline({marking.mac})
      BY <2>2, <3>2, OfflineKeeps, MapUntouched DEF MarkHttp
    <3> QED BY <2>2, <3>1, <3>2 DEF MarkHttp
  <2> QED BY <1>5, <2>1, <2>2 DEF HttpChecker
<1>6. CASE Web
  <2>1. ASSUME NEW m \in MACs, AddManual(m) \/ Import(m) PROVE DebounceConsistent'
    BY <1>1, <2>1 DEF AddManual, Import
  <2>2. ASSUME NEW m \in MACs, Delete(m) PROVE DebounceConsistent'
    BY <2>2 DEF Delete, DebounceConsistent, Online, TypeOK
  <2>3. ASSUME NEW b \in BOOLEAN, SetListening(b) PROVE DebounceConsistent'
    BY <1>1, <2>3 DEF SetListening
  <2> QED BY <1>6, <2>1, <2>2, <2>3, WriteConsistent, EditConsistent DEF Web
<1>7. CASE Crash
  BY <1>7 DEF Crash, LastWriteAfterDeath, DebounceConsistent
<1>8. CASE Boot
  BY <1>1, <1>8 DEF Boot
<1>9. CASE UNCHANGED vars
  BY <1>1, <1>9 DEF vars
<1> QED BY <1>2, <1>3, <1>4, <1>5, <1>6, <1>7, <1>8, <1>9, TickConsistent DEF Next, Running

\* The debounce map never disagrees with the row of an online device, whatever
\* the order of sightings, checks, edits, imports, deletions and restarts
\* (handleSeen's early return reads the map alone).
THEOREM MapAgreesWithTable == Spec => []DebounceConsistent
<1>1. Init => DebounceConsistent
  BY DEF Init, DebounceConsistent, Online
<1> QED BY <1>1, ConsistentStep, TypeCorrect, PTL DEF Spec

-----------------------------------------------------------------------------
(* What a dropped sighting tells about the row.                             *)

\* Only its own step takes a sender out of the debounce check while the process
\* is up, and it returns to idle only if the map's entry is recent.
LEMMA DroppedByDebounce ==
    ASSUME TypeOK, [Next]_vars, NEW s \in Senders,
           sender[s].pc = "debounce", sender'[s].pc = "idle", up'
    PROVE  Recent(sender[s].mac)
<1>1. sender[s] \in Handling
  BY DEF TypeOK
<1>2. sender' # sender
  OBVIOUS
<1>3. ASSUME NEW t \in Senders, HandleSeen(t) PROVE Recent(sender[s].mac)
  <2>1. CASE t # s
    <3>1. PICK e : sender' = [sender EXCEPT ![t] = e]
      BY <1>3 DEF HandleSeen, Hear, Resolve, Lookup, Insert, Debounce, Update
    <3>2. sender'[s] = sender[s]
      BY <2>1, <3>1 DEF TypeOK
    <3> QED BY <3>2
  <2>2. CASE t = s
    <3>1. Debounce(s)
      BY <1>3, <2>2 DEF HandleSeen, Hear, Resolve, Lookup, Insert, Debounce, Update
    <3>2. CASE ~Recent(sender[s].mac)
      <4>1. sender'[s] = [sender[s] EXCEPT !.pc = "update"]
        BY <3>1, <3>2 DEF Debounce, TypeOK
      <4> QED BY <1>1, <4>1 DEF Handling
    <3> QED BY <3>2
  <2> QED BY <2>1, <2>2
<1>4. ~Tick
  <2>1. ASSUME Tick PROVE FALSE
    <3>1. sender'[s] = [sender[s] EXCEPT !.now = Older(sender[s].now)]
      BY <2>1 DEF Tick, TypeOK
    <3> QED BY <1>1, <3>1 DEF Handling
  <2> QED BY <2>1
<1>5. ~Crash /\ ~Boot
  BY <1>2 DEF Crash, Boot
<1>6. ~(\E m \in MACs : LookupDone(m)) /\ ~CheckOffline /\ ~HttpChecker /\ ~Web
  BY <1>2 DEF LookupDone, CheckOffline, SelectExpired, MarkExpired, HttpChecker,
              HttpFailed, MarkHttp, Web, Write, Edit, AddManual, Import, Delete,
              SetListening, memory
<1>7. ~UNCHANGED vars
  BY <1>2 DEF vars
<1> QED BY <1>3, <1>4, <1>5, <1>6, <1>7 DEF Next, Running

\* handleSeen drops a sighting of an online device only while the row itself is
\* younger than a third of the offline timeout.
THEOREM DroppingKeepsRowsFresh == Spec => DroppedOnlyWhenFresh
<1>1. ASSUME TypeOK, DebounceConsistent, [Next]_vars PROVE DroppedIsFresh
  <2> SUFFICES ASSUME NEW s \in Senders,
                      sender[s].pc = "debounce", sender'[s].pc = "idle", up',
                      Online(sender[s].mac)
               PROVE  3 * row[sender[s].mac].lastSeen < OfflineTimeout
    BY DEF DroppedIsFresh
  <2> DEFINE m == sender[s].mac
  <2>1. m \in MACs
    BY <1>1 DEF TypeOK
  <2>2. lastWrite[m] # None /\ lastWrite[m] < DebounceWindow
    BY <1>1, DroppedByDebounce DEF Recent
  <2>3. row[m].lastSeen = lastWrite[m]
    BY <1>1, <2>1, <2>2 DEF DebounceConsistent
  <2>4. lastWrite[m] \in Nat /\ OfflineTimeout \in Nat
    BY <1>1, <2>1, <2>2, RegistryAssumption DEF TypeOK, Age, RegistryAssumption
  <2>5. \A a, t \in Nat : a < t \div 3 => 3 * a < t
    BY SMT
  <2> QED BY <2>2, <2>3, <2>4, <2>5 DEF DebounceWindow
<1> QED BY <1>1, TypeCorrect, MapAgreesWithTable, PTL DEF Spec, DroppedOnlyWhenFresh

-----------------------------------------------------------------------------
(* Which steps make and lose rows, and what they publish.                   *)

\* No row comes or goes, and no online flag changes.
FlagsKept ==
    \A m \in MACs : /\ row[m] = None <=> row'[m] = None
                    /\ row[m] # None => row'[m].online = row[m].online

\* An answered PTR lookup changes at most a name.
LEMMA LookupDoneKeepsFlags ==
    ASSUME TypeOK, NEW x \in MACs, LookupDone(x) PROVE FlagsKept
<1>1. CASE row' = row
  BY <1>1 DEF FlagsKept
<1>2. ASSUME NEW n \in Names, row[x] # None, row' = [row EXCEPT ![x].name = n]
      PROVE  FlagsKept
  <2>1. row[x] \in Device
    BY <1>2 DEF TypeOK
  <2>2. [row[x] EXCEPT !.name = n] \in Device
    BY <2>1 DEF Device
  <2> QED BY <1>2, <2>1, <2>2, NoneFacts DEF TypeOK, Device, FlagsKept
<1> QED BY <1>1, <1>2 DEF LookupDone

\* The setters change neither the set of rows nor a flag.
LEMMA EditKeepsFlags == ASSUME TypeOK, Edit PROVE FlagsKept
<1>2. ASSUME NEW x \in MACs, row[x] # None, NEW d \in Device, d.online = row[x].online,
             row' = [row EXCEPT ![x] = d]
      PROVE  FlagsKept
  BY <1>2, NoneFacts DEF TypeOK, FlagsKept
<1>3. ASSUME NEW x \in MACs, row[x] # None, NEW p \in Priorities, SetPriority(x, p)
      PROVE  FlagsKept
  <2>1. row[x] \in Device /\ row' = [row EXCEPT ![x] = [row[x] EXCEPT !.priority = p]]
    BY <1>3 DEF SetPriority, TypeOK
  <2>2. /\ [row[x] EXCEPT !.priority = p] \in Device
        /\ [row[x] EXCEPT !.priority = p].online = row[x].online
    BY <1>3, <2>1 DEF Device
  <2> QED BY <1>2, <1>3, <2>1, <2>2
<1>4. ASSUME NEW x \in MACs, row[x] # None, NEW c \in Categories \cup {None}, SetCategory(x, c)
      PROVE  FlagsKept
  <2>1. row[x] \in Device /\ row' = [row EXCEPT ![x] = [row[x] EXCEPT !.category = c]]
    BY <1>4 DEF SetCategory, TypeOK
  <2>2. /\ [row[x] EXCEPT !.category = c] \in Device
        /\ [row[x] EXCEPT !.category = c].online = row[x].online
    BY <1>4, <2>1 DEF Device
  <2> QED BY <1>2, <1>4, <2>1, <2>2
<1>5. ASSUME NEW x \in MACs, row[x] # None, NEW u \in Urls \cup {None}, SetHttpUrl(x, u)
      PROVE  FlagsKept
  <2>1. row[x] \in Device /\ row' = [row EXCEPT ![x] = [row[x] EXCEPT !.url = u]]
    BY <1>5 DEF SetHttpUrl, TypeOK
  <2>2. /\ [row[x] EXCEPT !.url = u] \in Device
        /\ [row[x] EXCEPT !.url = u].online = row[x].online
    BY <1>5, <2>1 DEF Device
  <2> QED BY <1>2, <1>5, <2>1, <2>2
<1>6. ASSUME NEW x \in MACs, row[x] # None, Approve(x) PROVE FlagsKept
  <2>1. row[x] \in Device /\ row' = [row EXCEPT ![x] = [row[x] EXCEPT !.approved = TRUE]]
    BY <1>6 DEF Approve, TypeOK
  <2>2. /\ [row[x] EXCEPT !.approved = TRUE] \in Device
        /\ [row[x] EXCEPT !.approved = TRUE].online = row[x].online
    BY <2>1 DEF Device
  <2> QED BY <1>2, <1>6, <2>1, <2>2
<1>7. CASE ApproveAll
  <2>1. ASSUME NEW m \in MACs
        PROVE  /\ row[m] = None <=> row'[m] = None
               /\ row[m] # None => row'[m].online = row[m].online
    <3>1. CASE row[m] = None
      BY <1>7, <3>1 DEF ApproveAll
    <3>2. CASE row[m] # None
      <4>1. row[m] \in Device
        BY <3>2 DEF TypeOK
      <4>2. row'[m] = [row[m] EXCEPT !.approved = TRUE]
        BY <1>7, <3>2 DEF ApproveAll
      <4>3. row'[m] \in Device /\ row'[m].online = row[m].online
        BY <4>1, <4>2 DEF Device
      <4> QED BY <3>2, <4>3, NoneFacts
    <3> QED BY <3>1, <3>2
  <2> QED BY <2>1 DEF FlagsKept
<1> QED BY <1>3, <1>4, <1>5, <1>6, <1>7 DEF Edit

\* Time changes neither the set of rows nor a flag.
LEMMA TickKeepsFlags == ASSUME TypeOK, Tick PROVE FlagsKept
<1>1. ASSUME NEW m \in MACs
      PROVE  /\ row[m] = None <=> row'[m] = None
             /\ row[m] # None => row'[m].online = row[m].online
  <2>1. CASE row[m] = None
    BY <2>1 DEF Tick
  <2>2. CASE row[m] # None
    <3>1. row[m] \in Device
      BY <2>2 DEF TypeOK
    <3>2. row'[m] = [row[m] EXCEPT !.lastSeen = Older(row[m].lastSeen)]
      BY <2>2 DEF Tick
    <3>3. row'[m] \in Device /\ row'[m].online = row[m].online
      BY <3>1, <3>2, AgeFacts DEF Device
    <3> QED BY <2>2, <3>3, NoneFacts
  <2> QED BY <2>1, <2>2
<1> QED BY <1>1 DEF FlagsKept

\* An import does not touch the flag.
LEMMA MergedKeepsOnline ==
    ASSUME NEW d \in Device, NEW e \in Device
    PROVE  Merged(d, e).online = d.online
BY DEF Merged, Device

\* An add or an import makes offline rows only, and an import of a known device
\* keeps its flag.
LEMMA WriteKeepsFlags ==
    ASSUME TypeOK, Write, NEW m \in MACs
    PROVE  /\ row[m] = None => row'[m] = None \/ ~row'[m].online
           /\ row[m] # None => row'[m] # None /\ row'[m].online = row[m].online
<1>1. CASE row' = row
  BY <1>1
<1>2. ASSUME NEW x \in MACs, NEW d \in Added \cup Imported,
             row[x] = None /\ row' = [row EXCEPT ![x] = d]
      PROVE  /\ row[m] = None => row'[m] = None \/ ~row'[m].online
             /\ row[m] # None => row'[m] # None /\ row'[m].online = row[m].online
  BY <1>2, RequestedDevice DEF TypeOK
<1>3. ASSUME NEW x \in MACs, NEW d \in Added \cup Imported,
             row[x] # None /\ row' = [row EXCEPT ![x] = Merged(row[x], d)]
      PROVE  /\ row[m] = None => row'[m] = None \/ ~row'[m].online
             /\ row[m] # None => row'[m] # None /\ row'[m].online = row[m].online
  <2>1. row[x] \in Device /\ d \in Device
    BY <1>3, RequestedDevice DEF TypeOK
  <2>2. Merged(row[x], d) \in Device /\ Merged(row[x], d).online = row[x].online
    BY <2>1, MergedType, MergedKeepsOnline
  <2> QED BY <1>3, <2>2, NoneFacts DEF TypeOK
<1> QED BY <1>1, <1>2, <1>3, WriteCases

-----------------------------------------------------------------------------
(* What the other actions do to the flags.                                  *)

\* A first sighting makes an online row, not approved, and announces it; when
\* another one was faster it does nothing.
LEMMA InsertEffect ==
    ASSUME TypeOK, NEW s \in Senders, Insert(s)
    PROVE  LET x == sender[s].mac IN
           /\ x \in MACs
           /\ \A m \in MACs \ {x} : row'[m] = row[m]
           /\ \/ /\ row[x] = None /\ row'[x] # None
                 /\ row'[x].online /\ ~row'[x].approved
                 /\ \A e \in pub' : e.type = "new" /\ e.mac = x
                 /\ pub' # {}
              \/ row' = row /\ pub' = {}
<1> DEFINE x == sender[s].mac
           d == Discovered(sender[s])
<1>1. x \in MACs /\ d \in Device /\ sender[s] \in Handling
  BY DiscoveredType DEF Insert, TypeOK
<1>2. d.online /\ ~d.approved
  BY DEF Discovered
<1>3. \A t, src : EventOf(t, MetaOf(x, d), src).type = t /\ EventOf(t, MetaOf(x, d), src).mac = x
  BY DEF EventOf, MetaOf
<1>4. CASE row[x] = None /\ row' = [row EXCEPT ![x] = d]
           /\ pub' = {EventOf("new", MetaOf(x, d), "registry")}
  <2> HIDE DEF d
  <2> QED BY <1>1, <1>2, <1>3, <1>4, NoneFacts DEF TypeOK
<1>5. CASE row' = row /\ pub' = {}
  BY <1>1, <1>5
<1> QED BY <1>4, <1>5 DEF Insert

\* A later sighting leaves the row online, if there is one, and announces at
\* most a return.
LEMMA UpdateEffect ==
    ASSUME TypeOK, NEW s \in Senders, Update(s), NEW m \in MACs
    PROVE  /\ row[m] = None <=> row'[m] = None
           /\ Online(m) => row'[m].online
           /\ \A e \in pub' : e.type = "back"
<1> DEFINE x == sender[s].mac
           d == Refreshed(row[x], sender[s])
<1>1. x \in MACs /\ sender[s] \in Handling
  BY DEF Update, TypeOK
<1>2. \A e \in pub' : e.type = "back"
  BY DEF Update, EventOf
<1>3. CASE row[x] = None
  BY <1>2, <1>3 DEF Update, RefreshedRow, Online
<1>4. CASE row[x] # None
  <2>1. row[x] \in Device
    BY <1>1, <1>4 DEF TypeOK
  <2>2. d \in Device
    BY <1>1, <2>1, RefreshedType
  <2>3. d.online
    BY <2>1 DEF Refreshed, Device
  <2>4. row' = [row EXCEPT ![x] = d]
    BY <1>4 DEF Update, RefreshedRow
  <2> HIDE DEF d
  <2> QED BY <1>1, <1>2, <1>4, <2>2, <2>3, <2>4, NoneFacts DEF TypeOK, Online
<1> QED BY <1>3, <1>4

\* Clearing flags keeps the set of rows, and touches only the rows of M.
LEMMA OfflineEffect ==
    ASSUME TypeOK, NEW M, row' = Offline(M), NEW m \in MACs
    PROVE  /\ row[m] = None <=> row'[m] = None
           /\ m \notin M => row'[m] = row[m]
           /\ m \in M /\ row[m] # None => ~row'[m].online
<1>1. CASE row[m] = None \/ m \notin M
  BY <1>1 DEF Offline
<1>2. CASE row[m] # None /\ m \in M
  <2>1. row[m] \in Device
    BY <1>2 DEF TypeOK
  <2>2. row'[m] = [row[m] EXCEPT !.online = FALSE]
    BY <1>2 DEF Offline
  <2>3. row'[m] \in Device /\ ~row'[m].online
    BY <2>1, <2>2 DEF Device
  <2> QED BY <1>2, <2>3, NoneFacts
<1> QED BY <1>1, <1>2

-----------------------------------------------------------------------------
(* The theorems about losing and making rows.                               *)

\* The steps of a running process that change no flag and publish nothing.
Quiet == FlagsKept /\ pub' = {}

\* Every step but six kinds of them is quiet, or is a death or a start.
LEMMA StepCases ==
    ASSUME TypeOK, [Next]_vars
    PROVE  \/ Quiet
           \/ UNCHANGED vars
           \/ Crash \/ Boot
           \/ \E s \in Senders : Insert(s) \/ Update(s)
           \/ MarkExpired \/ MarkHttp \/ Write
           \/ \E m \in MACs : Delete(m)
<1>1. row' = row /\ pub' = {} => Quiet
  BY DEF Quiet, FlagsKept
<1>2. ASSUME NEW s \in Senders, Hear(s) \/ Resolve(s) \/ Lookup(s) \/ Debounce(s)
      PROVE  Quiet
  BY <1>1, <1>2 DEF Hear, Resolve, Lookup, Debounce
<1>3. ASSUME NEW m \in MACs, LookupDone(m) PROVE Quiet
  BY <1>3, LookupDoneKeepsFlags DEF LookupDone, Quiet
<1>4. CASE Edit
  BY <1>4, EditKeepsFlags DEF Edit, Quiet
<1>5. CASE Tick
  BY <1>5, TickKeepsFlags DEF Tick, Quiet
<1>6. CASE SelectExpired
  BY <1>1, <1>6 DEF SelectExpired
<1>7. ASSUME NEW m \in MACs, HttpFailed(m) \/ AddManual(m) \/ Import(m) PROVE Quiet
  BY <1>1, <1>7 DEF HttpFailed, AddManual, Import
<1>8. ASSUME NEW b \in BOOLEAN, SetListening(b) PROVE Quiet
  BY <1>1, <1>8 DEF SetListening
<1> QED BY <1>2, <1>3, <1>4, <1>5, <1>6, <1>7, <1>8
        DEF Next, Running, HandleSeen, CheckOffline, HttpChecker, Web

\* What MarkHttp does, in its two cases.
LEMMA MarkHttpEffect ==
    ASSUME TypeOK, MarkHttp
    PROVE  /\ marking.mac \in MACs
           /\ \/ /\ Online(marking.mac) /\ row' = Offline({marking.mac})
                 /\ pub' = {EventOf("lost", marking, "http-checker")}
              \/ row' = row /\ pub' = {}
BY DEF MarkHttp, TypeOK, Meta

\* A running process that takes a device offline says so in the same step,
\* whichever goroutine does it.
THEOREM LossIsNeverSilent == Spec => NoSilentLoss
<1>1. ASSUME TypeOK, [Next]_vars PROVE LossIsPublished
  <2> SUFFICES ASSUME NEW m \in MACs, up, up', Online(m), row'[m] # None, ~row'[m].online
               PROVE  Published("lost", m)
    BY DEF LossIsPublished
  <2>1. CASE Quiet
    BY <2>1 DEF Quiet, FlagsKept, Online
  <2>2. CASE UNCHANGED vars
    BY <2>2 DEF vars, Online
  <2>3. ASSUME NEW s \in Senders, Insert(s) PROVE FALSE
    BY <1>1, <2>3, InsertEffect DEF Online
  <2>4. ASSUME NEW s \in Senders, Update(s) PROVE FALSE
    BY <1>1, <2>4, UpdateEffect
  <2>5. CASE MarkExpired
    <3>1. m \in {c.mac : c \in checking}
      BY <1>1, <2>5, OfflineEffect DEF MarkExpired, Online
    <3>2. PICK c \in checking : c.mac = m
      BY <3>1
    <3>3. EventOf("lost", c, "registry") \in pub'
      BY <2>5 DEF MarkExpired
    <3> QED BY <3>2, <3>3 DEF Published, EventOf
  <2>6. CASE MarkHttp
    <3>1. row' # row
      BY DEF Online
    <3>2. row' = Offline({marking.mac}) /\ pub' = {EventOf("lost", marking, "http-checker")}
      BY <1>1, <2>6, <3>1, MarkHttpEffect
    <3>3. m = marking.mac
      BY <1>1, <3>2, OfflineEffect DEF Online
    <3> QED BY <3>2, <3>3 DEF Published, EventOf
  <2>7. CASE Write
    BY <1>1, <2>7, WriteKeepsFlags DEF Online
  <2>8. ASSUME NEW x \in MACs, Delete(x) PROVE FALSE
    BY <1>1, <2>8 DEF Delete, TypeOK, Online
  <2> QED BY <1>1, <2>1, <2>2, <2>3, <2>4, <2>5, <2>6, <2>7, <2>8, StepCases DEF Crash, Boot
<1> QED BY <1>1, TypeCorrect, PTL DEF Spec, NoSilentLoss

\* The HTTP checker announces a loss only when it takes an online row offline,
\* whatever happened between its probe, its read and its write.
THEOREM HttpLossIsReal == Spec => HttpLostIsReal
<1>1. ASSUME TypeOK, [Next]_vars PROVE HttpLostIsLoss \/ UNCHANGED vars
  <2> SUFFICES ASSUME NEW e \in pub', e.type = "lost", e.source = "http-checker"
               PROVE  UNCHANGED vars \/ (Online(e.mac) /\ row'[e.mac] # None /\ ~row'[e.mac].online)
    BY DEF HttpLostIsLoss
  <2>1. CASE Quiet \/ Crash \/ Boot \/ Write \/ \E m \in MACs : Delete(m)
    BY <2>1 DEF Quiet, Crash, Boot, Write, Delete
  <2>2. ASSUME NEW s \in Senders, Insert(s) PROVE FALSE
    BY <2>2 DEF Insert, EventOf
  <2>3. ASSUME NEW s \in Senders, Update(s) PROVE FALSE
    BY <2>3 DEF Update, EventOf
  <2>4. CASE MarkExpired
    BY <2>4 DEF MarkExpired, EventOf
  <2>5. CASE MarkHttp
    <3>1. /\ Online(marking.mac) /\ row' = Offline({marking.mac})
          /\ e.mac = marking.mac /\ marking.mac \in MACs
      BY <1>1, <2>5, MarkHttpEffect DEF EventOf
    <3> QED BY <1>1, <3>1, OfflineEffect DEF Online
  <2>6. CASE UNCHANGED vars
    BY <2>6
  <2> QED BY <1>1, <2>1, <2>2, <2>3, <2>4, <2>5, <2>6, StepCases
<1> QED BY <1>1, TypeCorrect, PTL DEF Spec, HttpLostIsReal

\* A row appears online and unapproved in a running process exactly when
\* device.new is published for it, and no sighting in flight revives a deleted row.
THEOREM NewMeansInserted == Spec => NewExactlyOnInsert
<1>1. ASSUME TypeOK, [Next]_vars PROVE NewIsInsert \/ UNCHANGED vars
  <2> DEFINE Made(m) == row[m] = None /\ row'[m] # None /\ row'[m].online /\ ~row'[m].approved
  <2> SUFFICES ASSUME NEW m \in MACs, up, up', ~UNCHANGED vars
               PROVE  Published("new", m) <=> Made(m)
    BY DEF NewIsInsert
  <2>1. CASE Quiet
    BY <2>1 DEF Quiet, FlagsKept, Published
  <2>2. ASSUME NEW s \in Senders, Insert(s) PROVE Published("new", m) <=> Made(m)
    <3> DEFINE x == sender[s].mac
    <3>1. CASE m = x
      BY <1>1, <2>2, <3>1, InsertEffect DEF Published
    <3>2. CASE m # x
      BY <1>1, <2>2, <3>2, InsertEffect DEF Published
    <3> QED BY <3>1, <3>2
  <2>3. ASSUME NEW s \in Senders, Update(s) PROVE Published("new", m) <=> Made(m)
    BY <1>1, <2>3, UpdateEffect DEF Published
  <2>4. CASE MarkExpired
    <3>1. ~Made(m)
      BY <1>1, <2>4, OfflineEffect DEF MarkExpired
    <3>2. ~Published("new", m)
      BY <2>4 DEF MarkExpired, Published, EventOf
    <3> QED BY <3>1, <3>2
  <2>5. CASE MarkHttp
    <3>1. ~Made(m)
      BY <1>1, <2>5, MarkHttpEffect, OfflineEffect
    <3>2. ~Published("new", m)
      BY <1>1, <2>5, MarkHttpEffect DEF Published, EventOf
    <3> QED BY <3>1, <3>2
  <2>6. CASE Write
    BY <1>1, <2>6, WriteKeepsFlags DEF Write, Published
  <2>7. ASSUME NEW x \in MACs, Delete(x) PROVE Published("new", m) <=> Made(m)
    BY <1>1, <2>7 DEF Delete, Published, TypeOK
  <2> QED BY <1>1, <2>1, <2>2, <2>3, <2>4, <2>5, <2>6, <2>7, StepCases DEF Crash, Boot
<1> QED BY <1>1, TypeCorrect, PTL DEF Spec, NewExactlyOnInsert

-----------------------------------------------------------------------------
(* Which steps write names and services.                                    *)

\* A row's name and services are those it had.
DataKept(m) == row'[m].name = row[m].name /\ row'[m].services = row[m].services

\* A goroutine's sighting has just been written over the row it knew, or is the
\* row.
RefreshedBy(m, s) ==
    /\ sender[s].pc = "update" /\ sender[s].mac = m /\ sender'[s] = Idle
    /\ row[m] # None /\ row'[m] = Refreshed(row[m], sender[s])

CreatedBy(m, s) ==
    /\ sender[s].pc = "insert" /\ sender[s].mac = m /\ sender'[s] = Idle
    /\ row[m] = None /\ row'[m] = Discovered(sender[s])

\* The row comes from an add or import request.
Requested(m) == row[m] = None /\ row'[m].services = {}

\* What a step did to the row of m, which it leaves in the table.
RowCases(m) ==
    \/ row[m] # None /\ DataKept(m)
    \/ row[m] # None /\ row[m].name = None /\ row'[m].services = row[m].services
    \/ \E s \in Senders : RefreshedBy(m, s) \/ CreatedBy(m, s)
    \/ Requested(m)

\* Offline flags are neither.
LEMMA OfflineKeepsData ==
    ASSUME TypeOK, NEW M, row' = Offline(M), NEW m \in MACs, row'[m] # None
    PROVE  row[m] # None /\ DataKept(m)
<1>1. CASE m \in M /\ row[m] # None
  <2>1. row[m] \in Device /\ row'[m] = [row[m] EXCEPT !.online = FALSE]
    BY <1>1 DEF TypeOK, Offline
  <2> QED BY <1>1, <2>1 DEF Device, DataKept
<1>2. CASE ~(m \in M /\ row[m] # None)
  BY <1>2 DEF Offline, DataKept
<1> QED BY <1>1, <1>2

\* The setters write other columns.
LEMMA EditKeepsData ==
    ASSUME TypeOK, Edit, NEW m \in MACs, row'[m] # None
    PROVE  row[m] # None /\ DataKept(m)
<1>1. ASSUME NEW x \in MACs, row[x] # None,
             \/ \E p \in Priorities : SetPriority(x, p)
             \/ \E c \in Categories \cup {None} : SetCategory(x, c)
             \/ \E u \in Urls \cup {None} : SetHttpUrl(x, u)
             \/ Approve(x)
      PROVE  row[m] # None /\ DataKept(m)
  <2>1. row[x] \in Device
    BY <1>1 DEF TypeOK
  <2>2. CASE m = x
    BY <1>1, <2>1, <2>2
       DEF SetPriority, SetCategory, SetHttpUrl, Approve, TypeOK, Device, DataKept
  <2>3. CASE m # x
    BY <1>1, <2>3 DEF SetPriority, SetCategory, SetHttpUrl, Approve, TypeOK, DataKept
  <2> QED BY <2>2, <2>3
<1>2. CASE ApproveAll
  <2>1. row[m] # None /\ row'[m] = [row[m] EXCEPT !.approved = TRUE]
    BY <1>2 DEF ApproveAll
  <2>2. row[m] \in Device
    BY <2>1 DEF TypeOK
  <2> QED BY <2>1, <2>2 DEF Device, DataKept
<1> QED BY <1>1, <1>2 DEF Edit

\* Time writes last_seen.
LEMMA TickKeepsData ==
    ASSUME TypeOK, Tick, NEW m \in MACs, row'[m] # None
    PROVE  row[m] # None /\ DataKept(m)
<1>1. row[m] # None /\ row'[m] = [row[m] EXCEPT !.lastSeen = Older(row[m].lastSeen)]
  BY DEF Tick
<1>2. row[m] \in Device
  BY <1>1 DEF TypeOK
<1> QED BY <1>1, <1>2 DEF Device, DataKept

\* An add or import makes a row of its own or changes other columns.
LEMMA WriteRowCases ==
    ASSUME TypeOK, Write, NEW m \in MACs, row'[m] # None
    PROVE  RowCases(m)
<1>1. CASE row'[m] = row[m]
  BY <1>1 DEF RowCases, DataKept
<1>2. ASSUME NEW x \in MACs, NEW d \in Added \cup Imported, row'[m] # row[m],
             row[x] = None /\ row' = [row EXCEPT ![x] = d]
      PROVE  RowCases(m)
  <2>1. m = x /\ row'[m] = d
    BY <1>2 DEF TypeOK
  <2> QED BY <1>2, <2>1, RequestedDevice DEF RowCases, Requested
<1>3. ASSUME NEW x \in MACs, NEW d \in Added \cup Imported, row'[m] # row[m],
             row[x] # None /\ row' = [row EXCEPT ![x] = Merged(row[x], d)]
      PROVE  RowCases(m)
  <2>1. m = x /\ row[m] \in Device /\ row'[m] = Merged(row[m], d)
    BY <1>3 DEF TypeOK
  <2>2. /\ Merged(row[m], d).name = row[m].name
        /\ Merged(row[m], d).services = row[m].services
    BY <2>1 DEF Merged, Device
  <2> QED BY <1>3, <2>1, <2>2 DEF RowCases, DataKept
<1> QED BY <1>1, <1>2, <1>3, WriteCases

\* A PTR answer fills in a name.
LEMMA LookupDoneRowCases ==
    ASSUME TypeOK, NEW x \in MACs, LookupDone(x), NEW m \in MACs, row'[m] # None
    PROVE  RowCases(m)
<1>1. CASE row'[m] = row[m]
  BY <1>1 DEF RowCases, DataKept
<1>2. CASE row'[m] # row[m]
  <2>1. PICK n \in Names : row[x] # None /\ row[x].name = None
                           /\ row' = [row EXCEPT ![x].name = n]
    BY <1>2 DEF LookupDone
  <2>2. m = x /\ row[x] \in Device
    BY <1>2, <2>1 DEF TypeOK
  <2>3. row'[m] = [row[x] EXCEPT !.name = n]
    BY <2>1, <2>2 DEF TypeOK
  <2>4. row'[m].services = row[m].services
    BY <2>2, <2>3 DEF Device
  <2> QED BY <2>1, <2>2, <2>4 DEF RowCases
<1> QED BY <1>1, <1>2

\* Of the steps of handleSeen, the last of its regions write.
LEMMA HandleSeenRowCases ==
    ASSUME TypeOK, NEW s \in Senders, HandleSeen(s), NEW m \in MACs, row'[m] # None
    PROVE  RowCases(m)
<1>1. CASE row'[m] = row[m]
  BY <1>1 DEF RowCases, DataKept
<1>2. CASE row'[m] # row[m] /\ Insert(s)
  <2>1. /\ sender[s].pc = "insert" /\ sender'[s] = Idle
        /\ row[sender[s].mac] = None
        /\ row' = [row EXCEPT ![sender[s].mac] = Discovered(sender[s])]
    BY <1>2 DEF Insert, TypeOK
  <2>2. m = sender[s].mac /\ row'[m] = Discovered(sender[s])
    BY <1>2, <2>1 DEF TypeOK
  <2> QED BY <2>1, <2>2 DEF RowCases, CreatedBy
<1>3. CASE row'[m] # row[m] /\ Update(s)
  <2>1. /\ sender[s].pc = "update" /\ sender'[s] = Idle
        /\ row[sender[s].mac] # None
        /\ row' = [row EXCEPT ![sender[s].mac] = Refreshed(row[sender[s].mac], sender[s])]
    BY <1>3 DEF Update, RefreshedRow, TypeOK
  <2>2. m = sender[s].mac /\ row'[m] = Refreshed(row[m], sender[s])
    BY <1>3, <2>1 DEF TypeOK
  <2> QED BY <2>1, <2>2 DEF RowCases, RefreshedBy
<1> QED BY <1>1, <1>2, <1>3 DEF HandleSeen, Hear, Resolve, Lookup, Debounce

\* A death may cut off a region after its first statement.
LEMMA CrashRowCases ==
    ASSUME TypeOK, Crash, NEW m \in MACs, row'[m] # None
    PROVE  RowCases(m)
<1>1. \A s \in Senders : sender'[s] = Idle
  BY DEF Crash
<1>2. CASE row'[m] = row[m]
  BY <1>2 DEF RowCases, DataKept
<1>3. ASSUME NEW s \in Senders, sender[s].pc = "insert", row[sender[s].mac] = None,
             row'[m] # row[m],
             row' = [row EXCEPT ![sender[s].mac] = Discovered(sender[s])]
      PROVE  RowCases(m)
  <2>1. m = sender[s].mac /\ row'[m] = Discovered(sender[s])
    BY <1>3 DEF TypeOK
  <2> QED BY <1>1, <1>3, <2>1 DEF RowCases, CreatedBy
<1>4. ASSUME NEW s \in Senders, sender[s].pc = "update", row'[m] # row[m],
             row' = RefreshedRow(sender[s])
      PROVE  RowCases(m)
  <2>1. /\ row[sender[s].mac] # None
        /\ row' = [row EXCEPT ![sender[s].mac] = Refreshed(row[sender[s].mac], sender[s])]
    BY <1>4 DEF RefreshedRow
  <2>2. m = sender[s].mac /\ row'[m] = Refreshed(row[m], sender[s])
    BY <1>4, <2>1 DEF TypeOK
  <2> QED BY <1>1, <1>4, <2>1, <2>2 DEF RowCases, RefreshedBy
<1>5. ASSUME NEW M, row' = Offline(M) PROVE RowCases(m)
  BY <1>5, OfflineKeepsData DEF RowCases
<1> QED BY <1>2, <1>3, <1>4, <1>5 DEF Crash, TornInsert, TornUpdate, TornMark, TornHttp

\* Every step writes a name and services in one of these ways.
LEMMA StepRowCases ==
    ASSUME TypeOK, [Next]_vars, NEW m \in MACs, row'[m] # None
    PROVE  RowCases(m)
<1>1. CASE row'[m] = row[m]
  BY <1>1 DEF RowCases, DataKept
<1>2. CASE CheckOffline
  BY <1>1, <1>2, OfflineKeepsData DEF CheckOffline, SelectExpired, MarkExpired, RowCases
<1>3. CASE HttpChecker
  BY <1>1, <1>3, OfflineKeepsData DEF HttpChecker, HttpFailed, MarkHttp, RowCases
<1>4. CASE Web
  <2>1. ASSUME NEW x \in MACs, AddManual(x) \/ Import(x) PROVE RowCases(m)
    BY <1>1, <2>1 DEF AddManual, Import
  <2>2. ASSUME NEW x \in MACs, Delete(x) PROVE RowCases(m)
    BY <1>1, <2>2 DEF Delete, TypeOK
  <2>3. ASSUME NEW b \in BOOLEAN, SetListening(b) PROVE RowCases(m)
    BY <1>1, <2>3 DEF SetListening
  <2> QED BY <1>4, <2>1, <2>2, <2>3, WriteRowCases, EditKeepsData DEF Web, RowCases
<1>5. CASE Boot \/ UNCHANGED vars
  BY <1>1, <1>5 DEF Boot, vars
<1>6. CASE Tick
  BY <1>6, TickKeepsData DEF RowCases
<1> QED BY <1>2, <1>3, <1>4, <1>5, <1>6, HandleSeenRowCases, LookupDoneRowCases, CrashRowCases
        DEF Next, Running

\* A row whose name changes had none, unless a sighting is being written to it
\* (the PTR lookups store a name only where hostname_auto is empty).
THEOREM NamesAreKept == Spec => NameNotOverwritten
<1>1. ASSUME TypeOK, [Next]_vars PROVE NameIsKept
  BY <1>1, StepRowCases DEF NameIsKept, RowCases, DataKept, RefreshedBy, CreatedBy, Requested
<1> QED BY <1>1, TypeCorrect, PTL DEF Spec, NameNotOverwritten

-----------------------------------------------------------------------------
(* The services of a row.  Only the mDNS collector's sightings have any, so *)
(* that the union it writes is with the services the row still has.         *)

OneWriter == \A s \in Senders : sender[s].svcs # {} => s = MdnsSender

NothingToDebounce == \A s \in Senders : sender[s].pc = "debounce" => sender[s].svcs = {}

\* What is about to be written contains what the row has.
UnionIsCurrent ==
    \A s \in Senders :
      LET e == sender[s] IN
      e.pc = "update" /\ e.svcs # {} /\ row[e.mac] # None
         => row[e.mac].services \subseteq e.svcs

Advertised == OneWriter /\ NothingToDebounce /\ UnionIsCurrent

\* What a step did to the call of handleSeen of s.
SenderCases(s) ==
    LET e == sender[s]
        f == sender'[s]
    IN  \/ f = Idle
        \/ f.svcs = e.svcs /\ f.mac = e.mac /\ f.pc = e.pc
        \/ f.svcs = e.svcs /\ f.pc \in {"get", "insert"}
        \/ f.svcs = e.svcs /\ f.pc = "update" /\ e.pc = "debounce"
        \/ f.pc \in {"resolve", "get"} /\ (s # MdnsSender => f.svcs = {})
        \/ row' = row /\ e.mac \in MACs /\ row[e.mac] # None /\ f = Compared(e, row[e.mac])

\* The locals after a comparison with row d.
LEMMA ComparedServices ==
    ASSUME NEW e \in Handling, NEW d \in Device
    PROVE  LET f == Compared(e, d) IN
           /\ f.mac = e.mac
           /\ f.svcs # {} => e.svcs # {} /\ f.svcs = d.services \cup e.svcs
           /\ f.pc = "debounce" => f.svcs = {}
BY DEF Compared, Handling

\* Every step treats a call in one of these ways.
LEMMA StepSenderCases ==
    ASSUME TypeOK, [Next]_vars, NEW s \in Senders
    PROVE  SenderCases(s)
<1>1. sender[s] \in Handling
  BY DEF TypeOK
<1>2. CASE sender'[s] = sender[s]
  BY <1>2 DEF SenderCases
<1>3. CASE Tick
  <2>1. CASE sender[s].pc = "idle"
    BY <1>2, <1>3, <2>1 DEF Tick
  <2>2. CASE sender[s].pc # "idle"
    <3>1. sender'[s] = [sender[s] EXCEPT !.now = Older(sender[s].now)]
      BY <1>3, <2>2 DEF Tick
    <3> QED BY <1>1, <3>1 DEF Handling, SenderCases
  <2> QED BY <2>1, <2>2
<1>4. ASSUME NEW t \in Senders, HandleSeen(t) PROVE SenderCases(s)
  <2>1. CASE t # s
    <3>1. PICK e : sender' = [sender EXCEPT ![t] = e]
      BY <1>4 DEF HandleSeen, Hear, Resolve, Lookup, Insert, Debounce, Update
    <3> QED BY <1>2, <2>1, <3>1 DEF TypeOK
  <2>2. CASE Hear(s)
    <3>1. PICK m \in MACs \cup {None}, i \in IPs \cup {None}, n \in Names \cup {None},
               v \in SUBSET Services :
             LET e == [mac |-> m, ip |-> i, name |-> n, svcs |-> v] IN
             Heard(s, e) /\ sender' = [sender EXCEPT ![s] = Accepted(e)]
      BY <2>2 DEF Hear
    <3> DEFINE e == [mac |-> m, ip |-> i, name |-> n, svcs |-> v]
    <3>2. sender'[s] = Accepted(e)
      BY <3>1 DEF TypeOK
    <3>3. Accepted(e).pc \in {"resolve", "get"} /\ Accepted(e).svcs = v
      BY DEF Accepted, Idle
    <3>4. s # MdnsSender => v = {}
      BY <3>1 DEF Heard, FromArp, FromDhcp, FromPing, FromHttp
    <3> QED BY <3>2, <3>3, <3>4 DEF SenderCases
  <2>3. CASE Resolve(s)
    <3>1. \/ sender'[s] = Idle
          \/ \E m \in MacsByIP(sender[s].ip) :
               sender'[s] = [sender[s] EXCEPT !.pc = "get", !.mac = m, !.now = 0]
      BY <2>3 DEF Resolve, TypeOK
    <3> QED BY <1>1, <3>1 DEF Handling, SenderCases
  <2>4. CASE Lookup(s)
    <3>1. sender[s].mac \in MACs
      BY <2>4 DEF Lookup, TypeOK
    <3>2. CASE row[sender[s].mac] = None
      <4>1. sender'[s] = [sender[s] EXCEPT !.pc = "insert"]
        BY <2>4, <3>2 DEF Lookup, TypeOK
      <4> QED BY <1>1, <4>1 DEF Handling, SenderCases
    <3>3. CASE row[sender[s].mac] # None
      <4>1. row' = row /\ sender'[s] = Compared(sender[s], row[sender[s].mac])
        BY <2>4, <3>3 DEF Lookup, TypeOK
      <4> QED BY <3>1, <3>3, <4>1 DEF SenderCases
    <3> QED BY <3>2, <3>3
  <2>5. CASE Debounce(s)
    <3>1. \/ sender'[s] = Idle
          \/ sender[s].pc = "debounce" /\ sender'[s] = [sender[s] EXCEPT !.pc = "update"]
      BY <2>5 DEF Debounce, TypeOK
    <3> QED BY <1>1, <3>1 DEF Handling, SenderCases
  <2>6. CASE Insert(s) \/ Update(s)
    BY <2>6 DEF Insert, Update, TypeOK, SenderCases
  <2> QED BY <1>4, <2>1, <2>2, <2>3, <2>4, <2>5, <2>6 DEF HandleSeen
<1>5. CASE Crash
  BY <1>5 DEF Crash, SenderCases
<1>6. sender' = sender \/ (\E t \in Senders : HandleSeen(t)) \/ Tick \/ Crash
  BY DEF Next, Running, LookupDone, CheckOffline, SelectExpired, MarkExpired, HttpChecker,
         HttpFailed, MarkHttp, Web, Write, Edit, AddManual, Import, Delete,
         SetListening, memory, Boot, vars
<1> QED BY <1>2, <1>3, <1>4, <1>5, <1>6

\* A call that carries services keeps being the mDNS collector's, and one that
\* is debounced carries none.
LEMMA WriterStep ==
    ASSUME TypeOK, OneWriter, NothingToDebounce, [Next]_vars
    PROVE  OneWriter' /\ NothingToDebounce'
<1>1. ASSUME NEW s \in Senders
      PROVE  /\ sender'[s].svcs # {} => s = MdnsSender
             /\ sender'[s].pc = "debounce" => sender'[s].svcs = {}
  <2>1. sender[s] \in Handling
    BY DEF TypeOK
  <2>2. ASSUME sender[s].mac \in MACs, row[sender[s].mac] # None,
               sender'[s] = Compared(sender[s], row[sender[s].mac])
        PROVE  /\ sender'[s].svcs # {} => sender[s].svcs # {}
               /\ sender'[s].pc = "debounce" => sender'[s].svcs = {}
    <3>1. row[sender[s].mac] \in Device
      BY <2>2 DEF TypeOK
    <3> QED BY <2>1, <2>2, <3>1, ComparedServices
  <2>3. Idle.svcs = {} /\ Idle.pc = "idle"
    BY DEF Idle
  <2>4. SenderCases(s)
    BY StepSenderCases
  <2> QED BY <2>2, <2>3, <2>4 DEF SenderCases, OneWriter, NothingToDebounce
<1> QED BY <1>1 DEF OneWriter, NothingToDebounce

\* Between a comparison and its UPDATE no other step gives the row services.
LEMMA UnionStep ==
    ASSUME TypeOK, Advertised, [Next]_vars
    PROVE  UnionIsCurrent'
<1> SUFFICES ASSUME NEW s \in Senders,
                    sender'[s].pc = "update", sender'[s].svcs # {},
                    row'[sender'[s].mac] # None
             PROVE  row'[sender'[s].mac].services \subseteq sender'[s].svcs
  BY DEF UnionIsCurrent
<1> DEFINE m == sender'[s].mac
<1>1. sender[s] \in Handling /\ sender'[s] \in Handling /\ TypeOK'
  BY NextType DEF TypeOK
<1>2. m \in MACs
  BY <1>1 DEF TypeOK
<1>3. sender'[s] # Idle
  BY DEF Idle
<1>4. CASE row' = row /\ sender[s].mac \in MACs /\ row[sender[s].mac] # None
           /\ sender'[s] = Compared(sender[s], row[sender[s].mac])
  <2>1. row[sender[s].mac] \in Device
    BY <1>4 DEF TypeOK
  <2>2. m = sender[s].mac /\ sender'[s].svcs = row[sender[s].mac].services \cup sender[s].svcs
    BY <1>1, <1>4, <2>1, ComparedServices
  <2> QED BY <1>4, <2>2
<1>5. CASE /\ sender'[s].svcs = sender[s].svcs /\ m = sender[s].mac
           /\ sender[s].pc = "update"
  <2>1. s = MdnsSender
    BY <1>5 DEF Advertised, OneWriter
  <2>2. RowCases(m)
    BY <1>2, StepRowCases
  <2>3. CASE row[m] # None /\ row'[m].services = row[m].services
    BY <1>5, <2>3 DEF Advertised, UnionIsCurrent
  <2>4. ASSUME NEW t \in Senders, RefreshedBy(m, t)
        PROVE  row[m] # None /\ row'[m].services = row[m].services
    <3>1. t # s
      BY <1>3, <2>4 DEF RefreshedBy
    <3>2. sender[t].svcs = {}
      BY <2>1, <3>1 DEF Advertised, OneWriter
    <3>3. row[m] \in Device
      BY <1>2, <2>4 DEF TypeOK, RefreshedBy
    <3> QED BY <2>4, <3>2, <3>3 DEF RefreshedBy, Refreshed, Device
  <2>5. ASSUME NEW t \in Senders, CreatedBy(m, t)
        PROVE  row'[m].services = {}
    <3>1. t # s
      BY <1>3, <2>5 DEF CreatedBy
    <3>2. sender[t].svcs = {}
      BY <2>1, <3>1 DEF Advertised, OneWriter
    <3> QED BY <2>5, <3>2 DEF CreatedBy, Discovered
  <2>6. CASE Requested(m)
    BY <2>6 DEF Requested
  <2> QED BY <2>2, <2>3, <2>4, <2>5, <2>6 DEF RowCases, DataKept
<1>6. \/ /\ row' = row /\ sender[s].mac \in MACs /\ row[sender[s].mac] # None
         /\ sender'[s] = Compared(sender[s], row[sender[s].mac])
      \/ /\ sender'[s].svcs = sender[s].svcs /\ m = sender[s].mac
         /\ sender[s].pc = "update"
  <2>1. SenderCases(s)
    BY StepSenderCases
  <2> QED BY <1>3, <2>1 DEF SenderCases, Advertised, NothingToDebounce
<1> QED BY <1>4, <1>5, <1>6

\* The union stays current in every reachable state.
LEMMA AdvertisedAlways == Spec => []Advertised
<1>1. Init => Advertised
  BY DEF Init, Advertised, OneWriter, NothingToDebounce, UnionIsCurrent, Idle
<1>2. TypeOK /\ Advertised /\ [Next]_vars => Advertised'
  BY WriterStep, UnionStep DEF Advertised
<1> QED BY <1>1, <1>2, TypeCorrect, PTL DEF Spec

\* No step takes a service from a row, although handleSeen writes a union it
\* computed from an earlier read.
THEOREM ServicesAreKept == Spec => ServicesOnlyGrow
<1> DEFINE Grow == \A m \in MACs : row[m] # None /\ row'[m] # None
                      => row[m].services \subseteq row'[m].services
<1>1. ASSUME TypeOK, Advertised, [Next]_vars PROVE Grow
  <2> SUFFICES ASSUME NEW m \in MACs, row[m] # None, row'[m] # None
               PROVE  row[m].services \subseteq row'[m].services
    OBVIOUS
  <2>1. RowCases(m)
    BY <1>1, StepRowCases
  <2>2. ASSUME NEW s \in Senders, RefreshedBy(m, s)
        PROVE  row[m].services \subseteq row'[m].services
    <3>1. row[m] \in Device
      BY <1>1 DEF TypeOK
    <3>2. row'[m].services = IF sender[s].svcs = {} THEN row[m].services ELSE sender[s].svcs
      BY <2>2, <3>1 DEF RefreshedBy, Refreshed, Device
    <3> QED BY <1>1, <2>2, <3>2 DEF RefreshedBy, Advertised, UnionIsCurrent
  <2> QED BY <2>1, <2>2 DEF RowCases, DataKept, CreatedBy, Requested
<1> QED BY <1>1, TypeCorrect, AdvertisedAlways, PTL DEF Spec, ServicesOnlyGrow

=============================================================================
