---------------------------- MODULE LinksSafety ----------------------------
(***************************************************************************)
(* Safety of Links, for every number of devices, groups and requests: the  *)
(* types of its variables, what a deletion leaves behind, how often two    *)
(* devices can be connected, and which relations a backup keeps.           *)
(***************************************************************************)
EXTENDS Links, FiniteSetTheorems, TLAPS

\* A request between requests.
LEMMA IdleIsCall == Idle \in Call /\ Blank \in Parts /\ Idle.pc = "idle"
BY DEF Idle, Blank, Call, Fields, Parts

\* What an INSERT of a connection leaves of the request.
LEMMA ContinuedIsCall ==
    ASSUME NEW k \in Call
    PROVE  Continued(k) \in Call /\ Continued(k).pc \in {"idle", "import"}
<1>1. k.file \in Parts /\ k.todo \in Parts
  BY DEF Call, Fields
<1>2. CASE k.file = Blank
  BY <1>2, IdleIsCall DEF Continued
<1>3. CASE k.file # Blank
  BY <1>1, <1>3, IdleIsCall DEF Continued, Call, Fields
<1> QED BY <1>2, <1>3

\* A pair either way round.
LEMMA PairFacts ==
    ASSUME NEW p \in Pairs
    PROVE  /\ Reversed(p) \in Pairs /\ Reversed(p) # p /\ Reversed(Reversed(p)) = p
           /\ p[1] \in MACs /\ p[2] \in MACs /\ p \in MACs \X MACs
BY DEF Pairs, Reversed

LEMMA NoneIsNoMAC == None \notin MACs
BY LinksAssumption DEF LinksAssumption

\* Every file is made of parts.
LEMMA FileIsParts == \A f \in File : f \in Parts
BY DEF File

-----------------------------------------------------------------------------
(* Types.                                                                   *)

LEMMA InitType == Init => TypeOK
<1> SUFFICES ASSUME Init PROVE TypeOK
  OBVIOUS
<1>1. links \in [Pairs -> Nat]
  BY DEF Init
<1>2. call \in [Clients -> Call]
  BY IdleIsCall DEF Init
<1> QED BY <1>1, <1>2 DEF Init, TypeOK

LEMMA DeviceType ==
    ASSUME TypeOK, NEW m \in MACs, Discover(m) \/ DeleteConnections(m) \/ DeleteRow
    PROVE  TypeOK'
<1>1. CASE Discover(m)
  BY <1>1 DEF TypeOK, Discover
<1>2. CASE DeleteConnections(m)
  <2>1. links' \in [Pairs -> Nat]
    BY <1>2 DEF TypeOK, DeleteConnections
  <2> QED BY <1>2, <2>1 DEF TypeOK, DeleteConnections
<1>3. CASE DeleteRow
  BY <1>3 DEF TypeOK, DeleteRow
<1> QED BY <1>1, <1>2, <1>3


-----------------------------------------------------------------------------
(* Requests that only read: the tables stay, and one request goes on to k.   *)

Goes(c, k) == /\ call' = [call EXCEPT ![c] = k]
              /\ k.pc # "delete"
              /\ k.pc = "connect" => ~Connected(k.pair)

Reads(c) == /\ \E k \in Call : Goes(c, k)
            /\ UNCHANGED <<devs, groups, members, links, deleting, late>>
            /\ quiet' \subseteq Porters

LEMMA AddConnectionReads ==
    ASSUME TypeOK, NEW c \in Clients, NEW p \in Pairs, AddConnection(c, p)
    PROVE  Reads(c)
<1> DEFINE k == [Idle EXCEPT !.pc = "connect", !.pair = p]
<1>1. k \in Call /\ k.pc = "connect" /\ k.pair = p
  BY DEF Idle, Blank, Call, Fields, Parts
<1>2. call[c] = Idle /\ call' = [call EXCEPT ![c].pc = "connect", ![c].pair = p]
  BY DEF AddConnection
<1>3. call' = [call EXCEPT ![c] = [call[c] EXCEPT !.pc = "connect", !.pair = p]]
  BY <1>2 DEF TypeOK
<1>4. call' = [call EXCEPT ![c] = k]
  BY <1>2, <1>3
<1>5. ~Connected(p) /\ UNCHANGED <<devs, groups, members, links, deleting, late, quiet>>
  BY DEF AddConnection
<1> HIDE DEF k
<1> QED BY <1>1, <1>4, <1>5 DEF Reads, Goes, TypeOK

LEMMA ExportReads ==
    ASSUME TypeOK, NEW c \in Clients,
           Export(c) \/ ExportMembers(c) \/ ExportGroups(c) \/ ExportLinks(c) \/ Finish(c)
    PROVE  Reads(c)
<1>1. call[c] \in Call
  BY DEF TypeOK
<1>2. CASE Export(c)
  <2> DEFINE k == [Idle EXCEPT !.pc = "exportMembers", !.file.devs = devs, !.todo.devs = devs]
  <2>1. k \in Call /\ k.pc = "exportMembers"
    BY DEF TypeOK, Idle, Blank, Call, Fields, Parts
  <2>2. call' = [call EXCEPT ![c] = k]
    BY <1>2 DEF Export
  <2>3. quiet' \subseteq Porters
    BY <1>2 DEF TypeOK, Export
  <2> HIDE DEF k
  <2> QED BY <1>2, <2>1, <2>2, <2>3 DEF Export, Reads, Goes
<1>3. CASE ExportMembers(c)
  <2>1. PICK m \in call[c].todo.devs :
          call' = [call EXCEPT ![c].todo.devs = @ \ {m},
                               ![c].file.members = @ \cup GetDeviceGroups(m)]
    BY <1>3 DEF ExportMembers
  <2> DEFINE k == [call[c] EXCEPT !.todo.devs = @ \ {m},
                                  !.file.members = @ \cup GetDeviceGroups(m)]
  <2>2. GetDeviceGroups(m) \subseteq Groups \X MACs
    BY DEF TypeOK, GetDeviceGroups
  <2>3. k \in Call
    BY <1>1, <2>2 DEF Call, Fields, Parts
  <2>4. call' = [call EXCEPT ![c] = k]
    BY <2>1 DEF TypeOK
  <2>5. k.pc = "exportMembers"
    BY <1>1, <1>3 DEF ExportMembers, Call, Fields
  <2> HIDE DEF k
  <2> QED BY <1>3, <2>3, <2>4, <2>5 DEF TypeOK, ExportMembers, Reads, Goes
<1>4. CASE ExportGroups(c)
  <2> DEFINE k == [call[c] EXCEPT !.pc = "exportLinks", !.todo.devs = call[c].file.devs,
                                  !.file.groups = groups]
  <2>1. k \in Call /\ k.pc = "exportLinks"
    BY <1>1 DEF TypeOK, Call, Fields, Parts
  <2>2. call' = [call EXCEPT ![c] = k]
    BY <1>4 DEF TypeOK, ExportGroups
  <2> HIDE DEF k
  <2> QED BY <1>4, <2>1, <2>2 DEF TypeOK, ExportGroups, Reads, Goes
<1>5. CASE ExportLinks(c)
  <2>1. PICK m \in call[c].todo.devs : \E P \in GetConnections(c, m) :
          call' = [call EXCEPT ![c].todo.devs = @ \ {m}, ![c].file.links = @ \cup P]
    BY <1>5 DEF ExportLinks
  <2>2. PICK P \in GetConnections(c, m) :
          call' = [call EXCEPT ![c].todo.devs = @ \ {m}, ![c].file.links = @ \cup P]
    BY <2>1
  <2> DEFINE k == [call[c] EXCEPT !.todo.devs = @ \ {m}, !.file.links = @ \cup P]
  <2>3. P \subseteq Pairs
    BY DEF GetConnections
  <2>4. k \in Call
    BY <1>1, <2>3 DEF Call, Fields, Parts
  <2>5. call' = [call EXCEPT ![c] = k]
    BY <2>2 DEF TypeOK
  <2>6. k.pc = "exportLinks"
    BY <1>1, <1>5 DEF ExportLinks, Call, Fields
  <2> HIDE DEF k
  <2> QED BY <1>5, <2>4, <2>5, <2>6 DEF TypeOK, ExportLinks, Reads, Goes
<1>6. CASE Finish(c)
  <2>1. call' = [call EXCEPT ![c] = Idle]
    BY <1>6 DEF Finish
  <2> QED BY <1>6, <2>1, IdleIsCall DEF TypeOK, Finish, Reads, Goes
<1> QED BY <1>2, <1>3, <1>4, <1>5, <1>6

LEMMA ImportReads ==
    ASSUME TypeOK, NEW c \in Clients,
           \/ \E f \in File : Import(c, f)
           \/ ReadDevice(c) \/ ReadGroup(c) \/ ImportLink(c)
    PROVE  Reads(c)
<1>1. call[c] \in Call
  BY DEF TypeOK
<1>2. CASE \E f \in File : Import(c, f)
  <2>1. PICK f \in File : Import(c, f)
    BY <1>2
  <2> DEFINE k == [Idle EXCEPT !.pc = "import", !.file = f, !.todo = f]
  <2>2. k \in Call /\ k.pc = "import"
    BY FileIsParts DEF Idle, Call, Fields
  <2>3. call' = [call EXCEPT ![c] = k]
    BY <2>1 DEF Import
  <2>4. quiet' \subseteq Porters
    BY <2>1 DEF TypeOK, Import
  <2> HIDE DEF k
  <2> QED BY <2>1, <2>2, <2>3, <2>4 DEF Import, Reads, Goes
<1>3. CASE ReadDevice(c)
  <2>1. PICK m \in call[c].todo.devs :
          call' = [call EXCEPT ![c] = [call[c] EXCEPT !.pc = "device", !.mac = m,
                                            !.found = m \in devs, !.todo.devs = @ \ {m}]]
    BY <1>3 DEF ReadDevice
  <2> DEFINE found == m \in devs
  <2> DEFINE k == [call[c] EXCEPT !.pc = "device", !.mac = m, !.found = found,
                                  !.todo.devs = @ \ {m}]
  <2>2. found \in BOOLEAN
    OBVIOUS
  <2>3. call' = [call EXCEPT ![c] = k]
    BY <2>1
  <2> HIDE DEF found
  <2>4. k \in Call /\ k.pc = "device"
    BY <1>1, <2>2 DEF Call, Fields, Parts
  <2> HIDE DEF k
  <2> QED BY <1>3, <2>3, <2>4 DEF TypeOK, ReadDevice, Reads, Goes
<1>4. CASE ReadGroup(c)
  <2>1. PICK g \in call[c].todo.groups :
          call' = [call EXCEPT ![c] = [call[c] EXCEPT !.pc = "group", !.group = g,
                                            !.found = g \in groups, !.todo.groups = @ \ {g}]]
    BY <1>4 DEF ReadGroup
  <2> DEFINE found == g \in groups
  <2> DEFINE k == [call[c] EXCEPT !.pc = "group", !.group = g, !.found = found,
                                  !.todo.groups = @ \ {g}]
  <2>2. found \in BOOLEAN
    OBVIOUS
  <2>3. call' = [call EXCEPT ![c] = k]
    BY <2>1
  <2> HIDE DEF found
  <2>4. k \in Call /\ k.pc = "group"
    BY <1>1, <2>2 DEF Call, Fields, Parts
  <2> HIDE DEF k
  <2> QED BY <1>4, <2>3, <2>4 DEF TypeOK, ReadGroup, Reads, Goes
<1>5. CASE ImportLink(c)
  <2>1. PICK p \in call[c].todo.links :
          LET k == [call[c] EXCEPT !.todo.links = @ \ {p}]
          IN  call' = [call EXCEPT ![c] = IF Connected(p) THEN k
                                         ELSE [k EXCEPT !.pc = "connect", !.pair = p]]
    BY <1>5 DEF ImportLink
  <2> DEFINE k == [call[c] EXCEPT !.todo.links = @ \ {p}]
             l == [k EXCEPT !.pc = "connect", !.pair = p]
  <2>2. p \in Pairs
    BY <1>1 DEF Call, Fields, Parts
  <2>3. k \in Call /\ k.pc = "import"
    BY <1>1, <1>5 DEF ImportLink, Call, Fields, Parts
  <2>4. l \in Call /\ l.pc = "connect" /\ l.pair = p
    BY <2>2, <2>3 DEF Call, Fields
  <2>5. call' = [call EXCEPT ![c] = IF Connected(p) THEN k ELSE l]
    BY <2>1
  <2> HIDE DEF k, l
  <2>6. CASE Connected(p)
    BY <1>5, <2>3, <2>5, <2>6 DEF TypeOK, ImportLink, Reads, Goes
  <2>7. CASE ~Connected(p)
    BY <1>5, <2>4, <2>5, <2>7 DEF TypeOK, ImportLink, Reads, Goes
  <2> QED BY <2>6, <2>7
<1> QED BY <1>2, <1>3, <1>4, <1>5

LEMMA ReadsType == ASSUME TypeOK, NEW c \in Clients, Reads(c) PROVE TypeOK'
<1>1. call' \in [Clients -> Call]
  BY DEF TypeOK, Reads, Goes
<1> QED BY <1>1 DEF TypeOK, Reads

-----------------------------------------------------------------------------
(* Requests that write.                                                     *)

\* A step of a request reads, or is one of the statements that write.
LEMMA RequestKinds ==
    ASSUME TypeOK, NEW c \in Clients, Request(c)
    PROVE  \/ Reads(c)
           \/ \E g \in Groups : CreateGroup(c, g)
           \/ \E g \in Groups : DeleteMembers(c, g)
           \/ \E g \in Groups, m \in MACs : \/ AddDeviceToGroup(c, m, g)
                                            \/ RemoveDeviceFromGroup(c, m, g)
           \/ DeleteGroup(c) \/ Connect(c) \/ \E p \in Pairs : RemoveConnection(c, p)
           \/ WriteDevice(c) \/ WriteGroup(c) \/ ImportMember(c)
<1>1. CASE \E g \in Groups : \/ CreateGroup(c, g) \/ DeleteMembers(c, g)
                             \/ \E m \in MACs : \/ AddDeviceToGroup(c, m, g)
                                                \/ RemoveDeviceFromGroup(c, m, g)
  BY <1>1
<1>2. CASE \E p \in Pairs : AddConnection(c, p)
  BY <1>2, AddConnectionReads
<1>3. CASE Export(c) \/ ExportMembers(c) \/ ExportGroups(c) \/ ExportLinks(c) \/ Finish(c)
  BY <1>3, ExportReads
<1>4. CASE \/ \E f \in File : Import(c, f)
           \/ ReadDevice(c) \/ ReadGroup(c) \/ ImportLink(c)
  BY <1>4, ImportReads
<1>5. CASE \E p \in Pairs : RemoveConnection(c, p)
  BY <1>5
<1>6. CASE DeleteGroup(c) \/ Connect(c) \/ WriteDevice(c) \/ WriteGroup(c) \/ ImportMember(c)
  BY <1>6
<1>7. \/ \E g \in Groups : \/ CreateGroup(c, g) \/ DeleteMembers(c, g)
                           \/ \E m \in MACs : \/ AddDeviceToGroup(c, m, g)
                                              \/ RemoveDeviceFromGroup(c, m, g)
      \/ \E p \in Pairs : AddConnection(c, p)
      \/ Export(c) \/ ExportMembers(c) \/ ExportGroups(c) \/ ExportLinks(c) \/ Finish(c)
      \/ \/ \E f \in File : Import(c, f)
         \/ ReadDevice(c) \/ ReadGroup(c) \/ ImportLink(c)
      \/ \E p \in Pairs : RemoveConnection(c, p)
      \/ DeleteGroup(c) \/ Connect(c) \/ WriteDevice(c) \/ WriteGroup(c) \/ ImportMember(c)
  BY DEF Request
<1> QED BY <1>1, <1>2, <1>3, <1>4, <1>5, <1>6, <1>7

LEMMA GroupType ==
    ASSUME TypeOK, NEW c \in Clients, NEW g \in Groups,
           CreateGroup(c, g) \/ DeleteMembers(c, g)
    PROVE  TypeOK'
<1>1. CASE CreateGroup(c, g)
  BY <1>1 DEF TypeOK, CreateGroup, Disturb
<1>2. CASE DeleteMembers(c, g)
  <2>1. call' \in [Clients -> Call]
    <3> DEFINE k == [call[c] EXCEPT !.pc = "delete", !.group = g]
    <3>1. k \in Call
      BY DEF TypeOK, Call, Fields
    <3>2. call' = [call EXCEPT ![c] = k]
      BY <1>2 DEF TypeOK, DeleteMembers
    <3> QED BY <3>1, <3>2 DEF TypeOK
  <2> QED BY <1>2, <2>1 DEF TypeOK, DeleteMembers, Disturb
<1> QED BY <1>1, <1>2

LEMMA DeleteGroupType == ASSUME TypeOK, NEW c \in Clients, DeleteGroup(c) PROVE TypeOK'
<1>1. call' \in [Clients -> Call]
  BY IdleIsCall DEF TypeOK, DeleteGroup
<1> QED BY <1>1 DEF TypeOK, DeleteGroup, Disturb

LEMMA MemberType ==
    ASSUME TypeOK, NEW c \in Clients, NEW m \in MACs, NEW g \in Groups,
           AddDeviceToGroup(c, m, g) \/ RemoveDeviceFromGroup(c, m, g)
    PROVE  TypeOK'
BY DEF TypeOK, AddDeviceToGroup, RemoveDeviceFromGroup, Late, Disturb

\* The request that connects two devices, and what Continued leaves of it.
LEMMA ConnectFacts ==
    ASSUME TypeOK, NEW c \in Clients, Connect(c)
    PROVE  \E p \in Pairs : /\ call[c].pc = "connect" /\ call[c].pair = p
                            /\ links' = [links EXCEPT ![p] = links[p] + 1]
                            /\ late' = late \cup {x \in {p[1], p[2]} : Doomed(x)}
                            /\ call' = [call EXCEPT ![c] = Continued(call[c])]
                            /\ UNCHANGED <<devs, groups, members, deleting>>
<1>1. call[c] \in Call /\ call[c].pc = "connect"
  BY DEF TypeOK, Connect
<1>2. call[c].pair \in Pairs
  BY <1>1 DEF Call
<1> QED BY <1>1, <1>2 DEF Connect, Late

LEMMA ConnectionType ==
    ASSUME TypeOK, NEW c \in Clients,
           Connect(c) \/ \E p \in Pairs : RemoveConnection(c, p)
    PROVE  TypeOK'
<1>1. CASE Connect(c)
  <2>1. PICK p \in Pairs : /\ links' = [links EXCEPT ![p] = links[p] + 1]
                           /\ late' = late \cup {x \in {p[1], p[2]} : Doomed(x)}
    BY <1>1, ConnectFacts
  <2>2. call' \in [Clients -> Call]
    BY <1>1, ContinuedIsCall DEF TypeOK, Connect
  <2>3. links' \in [Pairs -> Nat]
    BY <2>1 DEF TypeOK
  <2>4. late' \subseteq Groups \cup MACs
    BY <2>1, PairFacts DEF TypeOK
  <2> QED BY <1>1, <2>2, <2>3, <2>4 DEF TypeOK, Connect, Disturb
<1>2. CASE \E p \in Pairs : RemoveConnection(c, p)
  <2>1. PICK p \in Pairs : RemoveConnection(c, p)
    BY <1>2
  <2>2. links' \in [Pairs -> Nat]
    BY <2>1 DEF TypeOK, RemoveConnection
  <2> QED BY <2>1, <2>2 DEF TypeOK, RemoveConnection, Disturb
<1> QED BY <1>1, <1>2

\* An import's next membership.
LEMMA MemberFacts ==
    ASSUME TypeOK, NEW c \in Clients, ImportMember(c)
    PROVE  \E k \in Call, g \in Groups, m \in MACs :
             /\ call' = [call EXCEPT ![c] = k] /\ k.pc = "import"
             /\ members' = IF g \in call[c].file.groups THEN members \cup {<<g, m>>}
                                                        ELSE members
             /\ late' = late \cup {x \in {g} \cap call[c].file.groups : Doomed(x)}
             /\ UNCHANGED <<devs, groups, links, deleting>>
<1>1. call[c] \in Call
  BY DEF TypeOK
<1>2. PICK x \in call[c].todo.members :
        /\ call' = [call EXCEPT ![c].todo.members = @ \ {x}]
        /\ members' = IF x[1] \in call[c].file.groups THEN members \cup {x} ELSE members
        /\ Late({x[1]} \cap call[c].file.groups)
  BY DEF ImportMember
<1> DEFINE k == [call[c] EXCEPT !.todo.members = @ \ {x}]
<1>3. k \in Call /\ k.pc = "import"
  BY <1>1 DEF ImportMember, Call, Fields, Parts
<1>4. call' = [call EXCEPT ![c] = k]
  BY <1>2 DEF TypeOK
<1>5. x \in Groups \X MACs
  BY <1>1 DEF Call, Fields, Parts
<1>6. PICK g \in Groups, m \in MACs : x = <<g, m>>
  BY <1>5
<1> HIDE DEF k
<1> QED BY <1>2, <1>3, <1>4, <1>6 DEF ImportMember, Late

LEMMA ImportType ==
    ASSUME TypeOK, NEW c \in Clients, WriteDevice(c) \/ WriteGroup(c) \/ ImportMember(c)
    PROVE  TypeOK'
<1>1. call[c] \in Call
  BY DEF TypeOK
<1>2. CASE WriteDevice(c)
  <2>1. call' \in [Clients -> Call]
    BY <1>2, ContinuedIsCall DEF TypeOK, WriteDevice
  <2>2. call[c].mac \in MACs
    BY <1>1, <1>2 DEF WriteDevice, Call
  <2>3. devs' \subseteq MACs
    BY <1>2, <2>2 DEF TypeOK, WriteDevice
  <2> QED BY <1>2, <2>1, <2>3 DEF TypeOK, WriteDevice, Disturb
<1>3. CASE WriteGroup(c)
  <2>1. call' \in [Clients -> Call]
    BY <1>3, ContinuedIsCall DEF TypeOK, WriteGroup
  <2>2. call[c].group \in Groups
    BY <1>1, <1>3 DEF WriteGroup, Call
  <2>3. groups' \subseteq Groups
    BY <1>3, <2>2 DEF TypeOK, WriteGroup
  <2> QED BY <1>3, <2>1, <2>3 DEF TypeOK, WriteGroup, Disturb
<1>4. CASE ImportMember(c)
  <2>1. PICK k \in Call, g \in Groups, m \in MACs :
          /\ call' = [call EXCEPT ![c] = k]
          /\ members' = IF g \in call[c].file.groups THEN members \cup {<<g, m>>}
                                                     ELSE members
          /\ late' = late \cup {x \in {g} \cap call[c].file.groups : Doomed(x)}
    BY <1>4, MemberFacts
  <2>2. call' \in [Clients -> Call]
    BY <2>1 DEF TypeOK
  <2>3. members' \subseteq Groups \X MACs /\ late' \subseteq Groups \cup MACs
    BY <2>1 DEF TypeOK
  <2> QED BY <1>4, <2>2, <2>3 DEF TypeOK, ImportMember, Disturb
<1> QED BY <1>2, <1>3, <1>4

LEMMA RestartType == TypeOK /\ Restart => TypeOK'
BY IdleIsCall DEF TypeOK, Restart

\* The variables keep their types, and a request always has the group, the device
\* or the pair that its next statement is about.
THEOREM TypeCorrect == Spec => []TypeOK
<1>1. TypeOK /\ [Next]_vars => TypeOK'
  <2> SUFFICES ASSUME TypeOK, [Next]_vars PROVE TypeOK'
    OBVIOUS
  <2>1. CASE \E m \in MACs : Discover(m) \/ DeleteConnections(m)
    BY <2>1, DeviceType
  <2>2. CASE DeleteRow
    BY <2>2 DEF TypeOK, DeleteRow
  <2>3. CASE \E c \in Clients : Request(c)
    <3>1. PICK c \in Clients : Request(c)
      BY <2>3
    <3>2. CASE Reads(c) \/ DeleteGroup(c)
      BY <3>2, ReadsType, DeleteGroupType
    <3>3. CASE (\E g \in Groups : CreateGroup(c, g)) \/ \E g \in Groups : DeleteMembers(c, g)
      BY <3>3, GroupType
    <3>4. CASE \E g \in Groups, m \in MACs : \/ AddDeviceToGroup(c, m, g)
                                             \/ RemoveDeviceFromGroup(c, m, g)
      BY <3>4, MemberType
    <3>5. CASE Connect(c) \/ \E p \in Pairs : RemoveConnection(c, p)
      BY <3>5, ConnectionType
    <3>6. CASE WriteDevice(c) \/ WriteGroup(c) \/ ImportMember(c)
      BY <3>6, ImportType
    <3> QED BY <3>1, <3>2, <3>3, <3>4, <3>5, <3>6, RequestKinds
  <2>4. CASE Restart
    BY <2>4, RestartType
  <2>5. CASE UNCHANGED vars
    BY <2>5 DEF vars, TypeOK
  <2> QED BY <2>1, <2>2, <2>3, <2>4, <2>5 DEF Next
<1> QED BY InitType, <1>1, PTL DEF Spec

-----------------------------------------------------------------------------
(* What a deletion leaves.                                                  *)

\* While nothing is newly deleted, what is doomed was so before.
LEMMA DoomedBefore ==
    ASSUME TypeOK, NEW c \in Clients, NEW k \in Call,
           call' = [call EXCEPT ![c] = k], k.pc # "delete",
           groups \subseteq groups', devs \subseteq devs', deleting' = deleting, NEW x, Doomed(x)'
    PROVE  Doomed(x)
<1>1. CASE x \in Groups /\ x \notin groups'
  BY <1>1 DEF Doomed
<1>2. CASE \E d \in Clients : call'[d].pc = "delete" /\ call'[d].group = x
  <2>1. PICK d \in Clients : call'[d].pc = "delete" /\ call'[d].group = x
    BY <1>2
  <2>2. d # c
    BY <2>1 DEF TypeOK
  <2>3. call'[d] = call[d]
    BY <2>2 DEF TypeOK
  <2> QED BY <2>1, <2>3 DEF Doomed
<1>3. CASE x \in MACs /\ (x \notin devs' \/ x = deleting')
  BY <1>3 DEF Doomed
<1> QED BY <1>1, <1>2, <1>3 DEF Doomed

\* It is enough that of what is doomed now, what is left was left before or is late.
LEMMA LeftoversStay ==
    ASSUME LeftoversAreLate, late \subseteq late',
           \A x \in Groups \cup MACs : Doomed(x)' /\ Leftover(x)'
                                         => (Doomed(x) /\ Leftover(x)) \/ x \in late'
    PROVE  LeftoversAreLate'
BY DEF LeftoversAreLate

LEMMA ReadsLate ==
    ASSUME TypeOK, LeftoversAreLate, NEW c \in Clients, Reads(c)
    PROVE  LeftoversAreLate'
<1>1. PICK k \in Call : Goes(c, k)
  BY DEF Reads
<1>2. ASSUME NEW x, Doomed(x)' PROVE Doomed(x)
  BY <1>1, <1>2, DoomedBefore DEF Reads, Goes
<1>3. ASSUME NEW x, Leftover(x)' PROVE Leftover(x)
  BY <1>3 DEF Reads, Leftover
<1> QED BY <1>2, <1>3, LeftoversStay DEF Reads

LEMMA DeviceLate ==
    ASSUME TypeOK, LeftoversAreLate, NEW m \in MACs, Discover(m) \/ DeleteConnections(m)
    PROVE  LeftoversAreLate'
<1>1. CASE Discover(m)
  <2>1. ASSUME NEW x, Doomed(x)', Leftover(x)' PROVE Doomed(x) /\ Leftover(x)
    BY <1>1, <2>1 DEF Discover, Doomed, Leftover
  <2> QED BY <1>1, <2>1, LeftoversStay DEF Discover
<1>2. CASE DeleteConnections(m)
  <2>1. ASSUME NEW x \in Groups \cup MACs, Doomed(x)', Leftover(x)' PROVE x \in late'
    <3>1. x # m
      <4> SUFFICES ASSUME x = m PROVE FALSE
        OBVIOUS
      <4>1. m \notin Groups
        BY LinksAssumption DEF LinksAssumption
      <4>2. \A y \in members' : y[1] # x
        BY <1>2, <4>1 DEF TypeOK, DeleteConnections
      <4>3. \A p \in Pairs : m \in {p[1], p[2]} => links'[p] = 0
        BY <1>2 DEF DeleteConnections
      <4> QED BY <2>1, <4>2, <4>3 DEF Leftover
    <3>2. Doomed(x)
      BY <1>2, <2>1, <3>1 DEF DeleteConnections, Doomed
    <3>3. Leftover(x)
      <4>1. \A p \in Pairs : links'[p] > 0 => links[p] > 0
        BY <1>2 DEF DeleteConnections, TypeOK
      <4> QED BY <1>2, <2>1, <4>1 DEF DeleteConnections, Leftover
    <3> QED BY <1>2, <3>1, <3>2, <3>3 DEF DeleteConnections, LeftoversAreLate
  <2> QED BY <2>1 DEF LeftoversAreLate
<1> QED BY <1>1, <1>2

LEMMA DeleteRowLate ==
    ASSUME TypeOK, LeftoversAreLate, DeleteRow
    PROVE  LeftoversAreLate'
<1>1. ASSUME NEW x, Doomed(x)', Leftover(x)' PROVE Doomed(x) /\ Leftover(x)
  BY <1>1, NoneIsNoMAC DEF DeleteRow, Doomed, Leftover
<1> QED BY <1>1, LeftoversStay DEF DeleteRow

LEMMA CreateGroupLate ==
    ASSUME TypeOK, LeftoversAreLate, NEW c \in Clients, NEW g \in Groups, CreateGroup(c, g)
    PROVE  LeftoversAreLate'
<1>1. ASSUME NEW x, Doomed(x)', Leftover(x)' PROVE Doomed(x) /\ Leftover(x)
  BY <1>1 DEF CreateGroup, Doomed, Leftover
<1> QED BY <1>1, LeftoversStay DEF CreateGroup

LEMMA DeleteMembersLate ==
    ASSUME TypeOK, LeftoversAreLate, NEW c \in Clients, NEW g \in Groups, DeleteMembers(c, g)
    PROVE  LeftoversAreLate'
<1> DEFINE k == [call[c] EXCEPT !.pc = "delete", !.group = g]
<1>1. call' = [call EXCEPT ![c] = k]
  BY DEF TypeOK, DeleteMembers
<1>2. k.group = g
  BY DEF TypeOK, Call, Fields
<1> HIDE DEF k
<1>3. ASSUME NEW x \in Groups \cup MACs, Doomed(x)', Leftover(x)' PROVE x \in late'
  <2>1. x # g
    <3> SUFFICES ASSUME x = g PROVE FALSE
      OBVIOUS
    <3>1. \A y \in members' : y[1] # g
      BY DEF DeleteMembers
    <3>2. \A p \in Pairs : g \notin {p[1], p[2]}
      BY LinksAssumption, PairFacts DEF LinksAssumption
    <3> QED BY <1>3, <3>1, <3>2 DEF Leftover
  <2>2. Doomed(x)
    <3>1. CASE \E d \in Clients : call'[d].pc = "delete" /\ call'[d].group = x
      <4>1. PICK d \in Clients : call'[d].pc = "delete" /\ call'[d].group = x
        BY <3>1
      <4>2. d # c
        BY <1>1, <1>2, <2>1, <4>1 DEF TypeOK
      <4>3. call'[d] = call[d]
        BY <1>1, <4>2 DEF TypeOK
      <4> QED BY <4>1, <4>3 DEF Doomed
    <3>2. CASE ~\E d \in Clients : call'[d].pc = "delete" /\ call'[d].group = x
      BY <1>3, <3>2 DEF DeleteMembers, Doomed
    <3> QED BY <3>1, <3>2
  <2>3. Leftover(x)
    BY <1>3 DEF DeleteMembers, Leftover
  <2> QED BY <2>1, <2>2, <2>3 DEF DeleteMembers, LeftoversAreLate
<1> QED BY <1>3 DEF LeftoversAreLate

\* What the row is gone of was doomed already.
LEMMA DeleteGroupLate ==
    ASSUME TypeOK, LeftoversAreLate, NEW c \in Clients, DeleteGroup(c)
    PROVE  LeftoversAreLate'
<1>1. ASSUME NEW x, Doomed(x)' PROVE Doomed(x)
  <2>1. CASE x \in Groups /\ x \notin groups'
    BY <2>1 DEF DeleteGroup, Doomed
  <2>2. CASE \E d \in Clients : call'[d].pc = "delete" /\ call'[d].group = x
    <3>1. PICK d \in Clients : call'[d].pc = "delete" /\ call'[d].group = x
      BY <2>2
    <3>2. d # c
      BY <3>1, IdleIsCall DEF TypeOK, DeleteGroup
    <3>3. call'[d] = call[d]
      BY <3>2 DEF TypeOK, DeleteGroup
    <3> QED BY <3>1, <3>3 DEF Doomed
  <2>3. CASE x \in MACs /\ (x \notin devs' \/ x = deleting')
    BY <2>3 DEF DeleteGroup, Doomed
  <2> QED BY <1>1, <2>1, <2>2, <2>3 DEF Doomed
<1>2. ASSUME NEW x, Leftover(x)' PROVE Leftover(x)
  BY <1>2 DEF DeleteGroup, Leftover
<1> QED BY <1>1, <1>2, LeftoversStay DEF DeleteGroup

LEMMA MemberLate ==
    ASSUME TypeOK, LeftoversAreLate, NEW c \in Clients, NEW m \in MACs, NEW g \in Groups,
           AddDeviceToGroup(c, m, g) \/ RemoveDeviceFromGroup(c, m, g)
    PROVE  LeftoversAreLate'
<1>1. ASSUME NEW x, Doomed(x)' PROVE Doomed(x)
  BY <1>1 DEF AddDeviceToGroup, RemoveDeviceFromGroup, Doomed
<1>2. CASE AddDeviceToGroup(c, m, g)
  <2>1. ASSUME NEW x, Doomed(x)', Leftover(x)' PROVE (Doomed(x) /\ Leftover(x)) \/ x \in late'
    <3>1. CASE x = g
      BY <1>1, <1>2, <2>1, <3>1 DEF AddDeviceToGroup, Late
    <3>2. CASE x # g
      BY <1>1, <1>2, <2>1, <3>2 DEF AddDeviceToGroup, Leftover
    <3> QED BY <3>1, <3>2
  <2> QED BY <1>2, <2>1, LeftoversStay DEF AddDeviceToGroup, Late
<1>3. CASE RemoveDeviceFromGroup(c, m, g)
  <2>1. ASSUME NEW x, Leftover(x)' PROVE Leftover(x)
    BY <1>3, <2>1 DEF RemoveDeviceFromGroup, Leftover
  <2> QED BY <1>1, <1>3, <2>1, LeftoversStay DEF RemoveDeviceFromGroup
<1> QED BY <1>2, <1>3

LEMMA ConnectLate ==
    ASSUME TypeOK, LeftoversAreLate, NEW c \in Clients, Connect(c)
    PROVE  LeftoversAreLate'
<1>1. PICK p \in Pairs : /\ links' = [links EXCEPT ![p] = links[p] + 1]
                         /\ late' = late \cup {x \in {p[1], p[2]} : Doomed(x)}
                         /\ call' = [call EXCEPT ![c] = Continued(call[c])]
                         /\ UNCHANGED <<devs, groups, members, deleting>>
  BY ConnectFacts
<1>2. Continued(call[c]) \in Call /\ Continued(call[c]).pc # "delete"
  BY ContinuedIsCall DEF TypeOK
<1>3. ASSUME NEW x, Doomed(x)' PROVE Doomed(x)
  BY <1>1, <1>2, <1>3, DoomedBefore
<1>4. ASSUME NEW x, Doomed(x)', Leftover(x)' PROVE (Doomed(x) /\ Leftover(x)) \/ x \in late'
  <2>1. CASE x \in {p[1], p[2]}
    BY <1>1, <1>3, <1>4, <2>1
  <2>2. CASE x \notin {p[1], p[2]}
    <3>1. \A q \in Pairs : x \in {q[1], q[2]} => links'[q] = links[q]
      BY <1>1, <2>2 DEF TypeOK
    <3> QED BY <1>1, <1>3, <1>4, <3>1 DEF Leftover
  <2> QED BY <2>1, <2>2
<1> QED BY <1>1, <1>4, LeftoversStay

LEMMA RemoveConnectionLate ==
    ASSUME TypeOK, LeftoversAreLate, NEW c \in Clients, NEW p \in Pairs, RemoveConnection(c, p)
    PROVE  LeftoversAreLate'
<1>1. ASSUME NEW x, Doomed(x)' PROVE Doomed(x)
  BY <1>1 DEF RemoveConnection, Doomed
<1>2. \A q \in Pairs : links'[q] > 0 => links[q] > 0
  BY DEF TypeOK, RemoveConnection
<1>3. ASSUME NEW x, Leftover(x)' PROVE Leftover(x)
  BY <1>2, <1>3 DEF RemoveConnection, Leftover
<1> QED BY <1>1, <1>3, LeftoversStay DEF RemoveConnection

LEMMA WriteLate ==
    ASSUME TypeOK, LeftoversAreLate, NEW c \in Clients, WriteDevice(c) \/ WriteGroup(c)
    PROVE  LeftoversAreLate'
<1>1. Continued(call[c]) \in Call /\ Continued(call[c]).pc # "delete"
  BY ContinuedIsCall DEF TypeOK
<1>2. /\ call' = [call EXCEPT ![c] = Continued(call[c])]
      /\ devs \subseteq devs' /\ groups \subseteq groups'
      /\ UNCHANGED <<members, links, deleting, late>>
  BY DEF WriteDevice, WriteGroup
<1>3. ASSUME NEW x, Doomed(x)' PROVE Doomed(x)
  BY <1>1, <1>2, <1>3, DoomedBefore
<1>4. ASSUME NEW x, Leftover(x)' PROVE Leftover(x)
  BY <1>2, <1>4 DEF Leftover
<1> QED BY <1>2, <1>3, <1>4, LeftoversStay

LEMMA ImportMemberLate ==
    ASSUME TypeOK, LeftoversAreLate, NEW c \in Clients, ImportMember(c)
    PROVE  LeftoversAreLate'
<1>1. PICK k \in Call, g \in Groups, m \in MACs :
        /\ call' = [call EXCEPT ![c] = k] /\ k.pc = "import"
        /\ members' = IF g \in call[c].file.groups THEN members \cup {<<g, m>>} ELSE members
        /\ late' = late \cup {x \in {g} \cap call[c].file.groups : Doomed(x)}
        /\ UNCHANGED <<devs, groups, links, deleting>>
  BY MemberFacts
<1>2. ASSUME NEW x, Doomed(x)' PROVE Doomed(x)
  BY <1>1, <1>2, DoomedBefore
<1>3. ASSUME NEW x, Doomed(x)', Leftover(x)' PROVE (Doomed(x) /\ Leftover(x)) \/ x \in late'
  <2>1. CASE x = g /\ g \in call[c].file.groups
    BY <1>1, <1>2, <1>3, <2>1
  <2>2. CASE x # g \/ g \notin call[c].file.groups
    BY <1>1, <1>2, <1>3, <2>2 DEF Leftover
  <2> QED BY <2>1, <2>2
<1> QED BY <1>1, <1>3, LeftoversStay

LEMMA RestartLate == ASSUME LeftoversAreLate, Restart PROVE LeftoversAreLate'
<1>1. \A c \in Clients : call'[c].pc = "idle"
  BY IdleIsCall DEF Restart
<1>2. ASSUME NEW x \in Groups \cup MACs, Doomed(x)', Leftover(x)' PROVE x \in late'
  <2>1. Doomed(x)
    BY <1>1, <1>2, NoneIsNoMAC DEF Restart, Doomed
  <2>2. Leftover(x)
    BY <1>2 DEF Restart, Leftover
  <2> QED BY <2>1, <2>2 DEF Restart, LeftoversAreLate
<1> QED BY <1>2 DEF LeftoversAreLate

\* After a deletion no membership of the group and no connection of the device is
\* left, whatever requests were under way and wherever the process died, but for
\* what was written after the deletion had begun.
THEOREM LeftoversAreLateAlways == Spec => []LeftoversAreLate
<1>1. Init => LeftoversAreLate
  BY DEF Init, LeftoversAreLate, Leftover
<1>2. TypeOK /\ LeftoversAreLate /\ [Next]_vars => LeftoversAreLate'
  <2> SUFFICES ASSUME TypeOK, LeftoversAreLate, [Next]_vars PROVE LeftoversAreLate'
    OBVIOUS
  <2>1. CASE \E m \in MACs : Discover(m) \/ DeleteConnections(m)
    BY <2>1, DeviceLate
  <2>2. CASE DeleteRow
    BY <2>2, DeleteRowLate
  <2>3. CASE \E c \in Clients : Request(c)
    <3>1. PICK c \in Clients : Request(c)
      BY <2>3
    <3>2. CASE Reads(c) \/ DeleteGroup(c) \/ Connect(c)
      BY <3>2, ReadsLate, DeleteGroupLate, ConnectLate
    <3>3. CASE \E g \in Groups : CreateGroup(c, g)
      BY <3>3, CreateGroupLate
    <3>4. CASE \E g \in Groups : DeleteMembers(c, g)
      BY <3>4, DeleteMembersLate
    <3>5. CASE \E g \in Groups, m \in MACs : \/ AddDeviceToGroup(c, m, g)
                                             \/ RemoveDeviceFromGroup(c, m, g)
      BY <3>5, MemberLate
    <3>6. CASE \E p \in Pairs : RemoveConnection(c, p)
      BY <3>6, RemoveConnectionLate
    <3>7. CASE WriteDevice(c) \/ WriteGroup(c) \/ ImportMember(c)
      BY <3>7, WriteLate, ImportMemberLate
    <3> QED BY <3>1, <3>2, <3>3, <3>4, <3>5, <3>6, <3>7, RequestKinds
  <2>4. CASE Restart
    BY <2>4, RestartLate
  <2>5. CASE UNCHANGED vars
    BY <2>5 DEF vars, LeftoversAreLate, Doomed, Leftover
  <2> QED BY <2>1, <2>2, <2>3, <2>4, <2>5 DEF Next
<1> QED BY <1>1, <1>2, TypeCorrect, PTL DEF Spec

-----------------------------------------------------------------------------
(* How often two devices are connected.                                     *)

LEMMA ClientsFinite == IsFiniteSet(Clients) /\ Cardinality(Clients) \in Nat
BY LinksAssumption, FS_CardinalityType DEF LinksAssumption

LEMMA ConnectingFinite ==
    ASSUME NEW p
    PROVE  /\ IsFiniteSet(Connecting(p)) /\ Cardinality(Connecting(p)) \in Nat
           /\ Cardinality(Connecting(p)) <= Cardinality(Clients)
<1>1. Connecting(p) \subseteq Clients
  BY DEF Connecting
<1> QED BY <1>1, ClientsFinite, FS_Subset, FS_CardinalityType

\* Two devices have no more connections and no more requests than before.
Calm(p) == /\ links'[p] <= links[p] /\ links'[Reversed(p)] <= links[Reversed(p)]
           /\ Connecting(p)' \subseteq Connecting(p)

Bound(p) == links[p] + links[Reversed(p)] + Cardinality(Connecting(p)) <= Cardinality(Clients)

LEMMA CalmIsBounded ==
    ASSUME TypeOK, TypeOK', NEW p \in Pairs, Bound(p), Calm(p)
    PROVE  Bound(p)'
<1>1. /\ links[p] \in Nat /\ links[Reversed(p)] \in Nat
      /\ links'[p] \in Nat /\ links'[Reversed(p)] \in Nat
  BY PairFacts DEF TypeOK
<1>2. Cardinality(Connecting(p)') <= Cardinality(Connecting(p))
  BY ConnectingFinite, FS_Subset DEF Calm
<1>3. Cardinality(Connecting(p)') \in Nat
  BY ConnectingFinite, FS_Subset, FS_CardinalityType DEF Calm
<1>4. Cardinality(Connecting(p)') = Cardinality(Connecting(p))'
  OBVIOUS
<1> HIDE DEF Connecting
<1> QED BY <1>1, <1>2, <1>3, ConnectingFinite, ClientsFinite DEF Bound, Calm

\* A request that goes on to something else than connecting p.
LEMMA ElsewhereIsCalm ==
    ASSUME TypeOK, NEW c \in Clients, NEW k \in Call, call' = [call EXCEPT ![c] = k],
           NEW p \in Pairs, k.pc # "connect" \/ k.pair \notin {p, Reversed(p)}
    PROVE  Connecting(p)' = Connecting(p) \ {c}
<1>1. ASSUME NEW d \in Clients, d # c PROVE call'[d] = call[d]
  BY <1>1 DEF TypeOK
<1>2. call'[c] = k
  BY DEF TypeOK
<1> QED BY <1>1, <1>2 DEF Connecting

LEMMA ReadsBound ==
    ASSUME TypeOK, TypeOK', NEW c \in Clients, Reads(c), NEW p \in Pairs, Bound(p)
    PROVE  Bound(p)'
<1>1. PICK k \in Call : Goes(c, k)
  BY DEF Reads
<1>2. links' = links
  BY DEF Reads
<1>3. CASE k.pc = "connect" /\ k.pair \in {p, Reversed(p)}
  <2>1. links[p] + links[Reversed(p)] = 0
    <3>1. links[k.pair] + links[Reversed(k.pair)] = 0
      BY <1>1, <1>3, PairFacts DEF Goes, Connected, TypeOK
    <3>2. links[p] \in Nat /\ links[Reversed(p)] \in Nat
      BY PairFacts DEF TypeOK
    <3> QED BY <1>3, <3>1, <3>2, PairFacts
  <2>2. IsFiniteSet(Connecting(p)') /\ Cardinality(Connecting(p)') <= Cardinality(Clients)
    <3>1. Connecting(p)' \subseteq Clients
      BY DEF Connecting
    <3> QED BY <3>1, ClientsFinite, FS_Subset
  <2>3. Cardinality(Connecting(p)') \in Nat
    BY <2>2, FS_CardinalityType
  <2> HIDE DEF Connecting
  <2> QED BY <1>2, <2>1, <2>2, <2>3, ClientsFinite DEF Bound
<1>4. CASE ~(k.pc = "connect" /\ k.pair \in {p, Reversed(p)})
  <2>1. Connecting(p)' \subseteq Connecting(p)
    BY <1>1, <1>4, ElsewhereIsCalm DEF Goes
  <2>2. Calm(p)
    BY <1>2, <2>1, PairFacts DEF Calm, TypeOK
  <2> QED BY <2>2, CalmIsBounded
<1> QED BY <1>3, <1>4

LEMMA ConnectBound ==
    ASSUME TypeOK, TypeOK', NEW c \in Clients, Connect(c), NEW p \in Pairs, Bound(p)
    PROVE  Bound(p)'
<1>1. PICK q \in Pairs : /\ call[c].pc = "connect" /\ call[c].pair = q
                         /\ links' = [links EXCEPT ![q] = links[q] + 1]
                         /\ call' = [call EXCEPT ![c] = Continued(call[c])]
  BY ConnectFacts
<1>2. Continued(call[c]) \in Call /\ Continued(call[c]).pc # "connect"
  BY ContinuedIsCall DEF TypeOK
<1>3. Connecting(p)' = Connecting(p) \ {c}
  BY <1>1, <1>2, ElsewhereIsCalm
<1>4. CASE q \in {p, Reversed(p)}
  <2>1. c \in Connecting(p)
    BY <1>1, <1>4 DEF Connecting
  <2>2. Cardinality(Connecting(p)') = Cardinality(Connecting(p)) - 1
    BY <1>3, <2>1, ConnectingFinite, FS_RemoveElement
  <2>3. links'[p] + links'[Reversed(p)] = links[p] + links[Reversed(p)] + 1
    BY <1>1, <1>4, PairFacts DEF TypeOK
  <2>4. links[p] \in Nat /\ links[Reversed(p)] \in Nat
    BY PairFacts DEF TypeOK
  <2> HIDE DEF Connecting
  <2> QED BY <2>2, <2>3, <2>4, ConnectingFinite, ClientsFinite DEF Bound
<1>5. CASE q \notin {p, Reversed(p)}
  <2>1. links'[p] = links[p] /\ links'[Reversed(p)] = links[Reversed(p)]
    BY <1>1, <1>5, PairFacts DEF TypeOK
  <2>2. Calm(p)
    BY <1>3, <2>1, PairFacts DEF Calm, TypeOK
  <2> QED BY <2>2, CalmIsBounded
<1> QED BY <1>4, <1>5

\* The other statements that write.
LEMMA WriteIsCalm ==
    ASSUME TypeOK, NEW c \in Clients, NEW p \in Pairs,
           \/ \E g \in Groups : DeleteMembers(c, g)
           \/ DeleteGroup(c) \/ WriteDevice(c) \/ WriteGroup(c) \/ ImportMember(c)
    PROVE  Calm(p)
<1>1. links' = links
  BY DEF DeleteMembers, DeleteGroup, WriteDevice, WriteGroup, ImportMember
<1>2. \E k \in Call : call' = [call EXCEPT ![c] = k] /\ k.pc # "connect"
  <2>1. CASE \E g \in Groups : DeleteMembers(c, g)
    <3>1. PICK g \in Groups : DeleteMembers(c, g)
      BY <2>1
    <3> DEFINE k == [call[c] EXCEPT !.pc = "delete", !.group = g]
    <3>2. k \in Call /\ k.pc = "delete"
      BY DEF TypeOK, Call, Fields
    <3>3. call' = [call EXCEPT ![c] = k]
      BY <3>1 DEF TypeOK, DeleteMembers
    <3> HIDE DEF k
    <3> QED BY <3>2, <3>3
  <2>2. CASE DeleteGroup(c)
    BY <2>2, IdleIsCall DEF DeleteGroup
  <2>3. CASE WriteDevice(c) \/ WriteGroup(c)
    <3>1. call' = [call EXCEPT ![c] = Continued(call[c])]
      BY <2>3 DEF WriteDevice, WriteGroup
    <3> QED BY <3>1, ContinuedIsCall DEF TypeOK
  <2>4. CASE ImportMember(c)
    BY <2>4, MemberFacts
  <2> QED BY <2>1, <2>2, <2>3, <2>4
<1>3. Connecting(p)' \subseteq Connecting(p)
  BY <1>2, ElsewhereIsCalm
<1> QED BY <1>1, <1>3, PairFacts DEF Calm, TypeOK

LEMMA QuietIsCalm ==
    ASSUME TypeOK, NEW p \in Pairs, \A q \in Pairs : links'[q] <= links[q],
           \/ call' = call
           \/ call' = [c \in Clients |-> Idle]
    PROVE  Calm(p)
BY PairFacts, IdleIsCall DEF Calm, Connecting

\* Requests at the same time can connect two devices more than once, but never
\* more often than there were requests at the same time, however many come.
THEOREM LinksBoundedAlways == Spec => []LinksBounded
<1>1. Init => LinksBounded
  <2> SUFFICES ASSUME Init, NEW p \in Pairs
               PROVE  Bound(p)
    BY DEF LinksBounded, Bound
  <2>1. Connecting(p) = {}
    BY IdleIsCall DEF Init, Connecting
  <2>2. links[p] = 0 /\ links[Reversed(p)] = 0
    BY PairFacts DEF Init
  <2> QED BY <2>1, <2>2, FS_EmptySet, ClientsFinite DEF Bound
<1>2. TypeOK /\ TypeOK' /\ LinksBounded /\ [Next]_vars => LinksBounded'
  <2> SUFFICES ASSUME TypeOK, TypeOK', LinksBounded, [Next]_vars, NEW p \in Pairs
               PROVE  Bound(p)'
    BY DEF LinksBounded, Bound
  <2>1. Bound(p)
    BY DEF LinksBounded, Bound
  <2>2. CASE Calm(p)
    BY <2>1, <2>2, CalmIsBounded
  <2>3. CASE (\E m \in MACs : Discover(m) \/ DeleteConnections(m)) \/ DeleteRow \/ Restart
             \/ UNCHANGED vars
    <3>1. \A q \in Pairs : links'[q] <= links[q]
      BY <2>3 DEF TypeOK, Discover, DeleteConnections, DeleteRow, Restart, vars
    <3>2. call' = call \/ call' = [c \in Clients |-> Idle]
      BY <2>3 DEF Discover, DeleteConnections, DeleteRow, Restart, vars
    <3> QED BY <2>2, <3>1, <3>2, QuietIsCalm
  <2>4. CASE \E c \in Clients : Request(c)
    <3>1. PICK c \in Clients : Request(c)
      BY <2>4
    <3>2. CASE Reads(c) \/ Connect(c)
      BY <2>1, <3>2, ReadsBound, ConnectBound
    <3>3. CASE \/ \E g \in Groups : DeleteMembers(c, g)
               \/ DeleteGroup(c) \/ WriteDevice(c) \/ WriteGroup(c) \/ ImportMember(c)
      BY <2>2, <3>3, WriteIsCalm
    <3>4. CASE \/ \E g \in Groups : CreateGroup(c, g)
               \/ \E g \in Groups, m \in MACs : \/ AddDeviceToGroup(c, m, g)
                                                \/ RemoveDeviceFromGroup(c, m, g)
               \/ \E q \in Pairs : RemoveConnection(c, q)
      <4>1. \A q \in Pairs : links'[q] <= links[q]
        <5>1. CASE links' = links
          BY <5>1 DEF TypeOK
        <5>2. CASE \E q \in Pairs : RemoveConnection(c, q)
          BY <5>2 DEF TypeOK, RemoveConnection
        <5> QED BY <3>4, <5>1, <5>2 DEF CreateGroup, AddDeviceToGroup, RemoveDeviceFromGroup
      <4>2. call' = call
        BY <3>4 DEF CreateGroup, AddDeviceToGroup, RemoveDeviceFromGroup, RemoveConnection
      <4> QED BY <2>2, <4>1, <4>2, QuietIsCalm
    <3> QED BY <3>1, <3>2, <3>3, <3>4, RequestKinds
  <2> QED BY <2>3, <2>4 DEF Next
<1> QED BY <1>1, <1>2, TypeCorrect, PTL DEF Spec

-----------------------------------------------------------------------------
(* Backups.                                                                 *)

\* The memberships of the devices in D that the pages show.
Shown(D) == {x \in members : x[1] \in groups /\ x[2] \in D}

\* What an undisturbed export has read so far: the memberships of the devices it
\* has come past, and then, with these complete, the connections.
MembersRead(k) ==
    /\ k.file.devs = devs /\ k.todo.devs \subseteq devs
    /\ k.file.groups = {} /\ k.file.links = {}
    /\ k.todo.groups = {} /\ k.todo.members = {} /\ k.todo.links = {}
    /\ k.file.members = Shown(devs \ k.todo.devs)

LinksRead(k) ==
    /\ k.file.devs = devs /\ k.todo.devs \subseteq devs
    /\ k.file.groups = groups /\ k.file.members = Shown(devs)
    /\ \A p \in Pairs : (p \in k.file.links \/ Reversed(p) \in k.file.links)
         <=> Connected(p) /\ {p[1], p[2]} \cap (devs \ k.todo.devs) # {}

\* What an undisturbed import has written so far: all of the file but what is still
\* to do and what it is at.
Restored(k) ==
    /\ k.file \in File /\ k.file # Blank
    /\ k.todo.devs \subseteq k.file.devs /\ k.todo.groups \subseteq k.file.groups
    /\ k.todo.members \subseteq k.file.members /\ k.todo.links \subseteq k.file.links
    /\ devs = {m \in k.file.devs \ k.todo.devs : ~(k.pc = "device" /\ k.mac = m)}
    /\ groups = {g \in k.file.groups \ k.todo.groups : ~(k.pc = "group" /\ k.group = g)}
    /\ members = {x \in k.file.members \ k.todo.members : x[1] \in k.file.groups}
    /\ \A p \in Pairs :
         links[p] = IF p \in k.file.links \ k.todo.links /\ ~(k.pc = "connect" /\ k.pair = p)
                    THEN 1 ELSE 0
    /\ k.pc \in {"device", "group"} => k.found = FALSE
    /\ k.pc = "device" => k.mac \in k.file.devs \ k.todo.devs
    /\ k.pc = "group" => k.group \in k.file.groups \ k.todo.groups
    /\ k.pc = "connect" => k.pair \in k.file.links \ k.todo.links

Faithful(k) ==
    \/ k.pc = "exportMembers" /\ MembersRead(k)
    \/ k.pc = "exportLinks" /\ LinksRead(k)
    \/ k.pc \in {"import", "device", "group", "connect"} /\ Restored(k)

\* The inductive invariant behind BackupKeepsRelations.
QuietIsFaithful == \A c \in quiet, k \in Call : call[c] = k => Faithful(k)

LEMMA QuietIsBusy ==
    ASSUME TypeOK, QuietIsFaithful, NEW c \in quiet
    PROVE  /\ c \in Clients /\ call[c] \in Call /\ call[c] # Idle
           /\ call[c].pc \notin {"idle", "delete"}
<1>1. c \in Clients
  BY LinksAssumption DEF TypeOK, LinksAssumption
<1>2. PICK k \in Call : call[c] = k
  BY <1>1 DEF TypeOK
<1>3. Faithful(k)
  BY <1>2 DEF QuietIsFaithful
<1> QED BY <1>1, <1>2, <1>3, IdleIsCall DEF Faithful

\* What holds of a request does as long as the tables stay.
LEMMA FaithfulStays ==
    ASSUME NEW k, UNCHANGED <<devs, groups, members, links>>, Faithful(k)
    PROVE  Faithful(k)'
BY DEF Faithful, MembersRead, LinksRead, Restored, Shown, Connected

\* A request that reads goes on to k.
LEMMA ReadingIsFaithful ==
    ASSUME TypeOK, QuietIsFaithful, NEW c \in Clients, NEW k \in Call,
           call' = [call EXCEPT ![c] = k], UNCHANGED <<devs, groups, members, links>>,
           quiet' \subseteq quiet \cup {c}, c \in quiet' => Faithful(k)'
    PROVE  QuietIsFaithful'
<1> SUFFICES ASSUME NEW d \in quiet', NEW j \in Call, call'[d] = j
             PROVE  Faithful(j)'
  BY DEF QuietIsFaithful
<1>1. CASE d = c
  BY <1>1 DEF TypeOK
<1>2. CASE d # c
  <2>1. d \in quiet /\ call[d] = j
    BY <1>2, QuietIsBusy DEF TypeOK
  <2>2. Faithful(j)
    BY <2>1 DEF QuietIsFaithful
  <2> QED BY <2>2, FaithfulStays
<1> QED BY <1>1, <1>2

\* A request that writes leaves nobody quiet but itself.
LEMMA WritingIsFaithful ==
    ASSUME TypeOK, NEW c \in Clients, NEW k \in Call, call' = [call EXCEPT ![c] = k],
           Disturb(c), c \in quiet => Faithful(k)'
    PROVE  QuietIsFaithful'
BY DEF TypeOK, Disturb, QuietIsFaithful

-----------------------------------------------------------------------------
(* Exports.                                                                 *)

LEMMA ExportFaithful ==
    ASSUME TypeOK, QuietIsFaithful, NEW c \in Clients, Export(c)
    PROVE  QuietIsFaithful'
<1> DEFINE k == [Idle EXCEPT !.pc = "exportMembers", !.file.devs = devs, !.todo.devs = devs]
<1>1. PICK j \in Call : j = k
  BY DEF TypeOK, Idle, Blank, Call, Fields, Parts
<1>2. call' = [call EXCEPT ![c] = j]
  BY <1>1 DEF Export
<1>3. UNCHANGED <<devs, groups, members, links>> /\ quiet' \subseteq quiet \cup {c}
  BY DEF Export
<1>4. MembersRead(j)
  BY <1>1 DEF MembersRead, Shown, Idle, Blank
<1>5. Faithful(j)
  BY <1>1, <1>4 DEF Faithful
<1> HIDE DEF k
<1> QED BY <1>2, <1>3, <1>5, FaithfulStays, ReadingIsFaithful

LEMMA ExportMembersFaithful ==
    ASSUME TypeOK, QuietIsFaithful, NEW c \in Clients, ExportMembers(c)
    PROVE  QuietIsFaithful'
<1>1. PICK m \in call[c].todo.devs :
        call' = [call EXCEPT ![c].todo.devs = @ \ {m},
                             ![c].file.members = @ \cup GetDeviceGroups(m)]
  BY DEF ExportMembers
<1>2. PICK k \in Call : k = call[c]
  BY DEF TypeOK
<1> DEFINE n == [k EXCEPT !.todo.devs = @ \ {m}, !.file.members = @ \cup GetDeviceGroups(m)]
<1>3. GetDeviceGroups(m) \subseteq Groups \X MACs
  BY DEF TypeOK, GetDeviceGroups
<1>4. PICK j \in Call : j = n
  <2>1. n \in Call
    BY <1>3 DEF Call, Fields, Parts
  <2> HIDE DEF n
  <2> QED BY <2>1
<1>5. call' = [call EXCEPT ![c] = j]
  BY <1>1, <1>2, <1>4 DEF TypeOK
<1>6. UNCHANGED <<devs, groups, members, links, quiet>> /\ k.pc = "exportMembers"
  BY <1>2 DEF ExportMembers
<1>7. ASSUME c \in quiet PROVE Faithful(j)
  <2>1. MembersRead(k)
    BY <1>2, <1>6, <1>7 DEF QuietIsFaithful, Faithful
  <2>2. j.pc = "exportMembers"
    BY <1>4, <1>6 DEF Call, Fields
  <2>3. /\ j.file.devs = k.file.devs /\ j.file.groups = k.file.groups
        /\ j.file.links = k.file.links
        /\ j.file.members = k.file.members \cup GetDeviceGroups(m)
        /\ j.todo.devs = k.todo.devs \ {m} /\ j.todo.groups = k.todo.groups
        /\ j.todo.members = k.todo.members /\ j.todo.links = k.todo.links
    BY <1>4 DEF Call, Fields, Parts
  <2>4. m \in k.todo.devs
    BY <1>2
  <2>5. j.file.members = Shown(devs \ j.todo.devs)
    BY <2>1, <2>3, <2>4 DEF MembersRead, Shown, GetDeviceGroups
  <2> QED BY <2>1, <2>2, <2>3, <2>5 DEF MembersRead, Faithful
<1> HIDE DEF n
<1> QED BY <1>5, <1>6, <1>7, FaithfulStays, ReadingIsFaithful

LEMMA ExportGroupsFaithful ==
    ASSUME TypeOK, QuietIsFaithful, NEW c \in Clients, ExportGroups(c)
    PROVE  QuietIsFaithful'
<1>1. PICK k \in Call : k = call[c]
  BY DEF TypeOK
<1> DEFINE n == [k EXCEPT !.pc = "exportLinks", !.todo.devs = k.file.devs, !.file.groups = groups]
<1>2. PICK j \in Call : j = n
  <2>1. n \in Call
    BY DEF TypeOK, Call, Fields, Parts
  <2> HIDE DEF n
  <2> QED BY <2>1
<1>3. call' = [call EXCEPT ![c] = j]
  BY <1>1, <1>2 DEF TypeOK, ExportGroups
<1>4. /\ UNCHANGED <<devs, groups, members, links, quiet>>
      /\ k.pc = "exportMembers" /\ k.todo.devs = {}
  BY <1>1 DEF ExportGroups
<1>5. ASSUME c \in quiet PROVE Faithful(j)
  <2>1. MembersRead(k)
    BY <1>1, <1>4, <1>5 DEF QuietIsFaithful, Faithful
  <2>2. /\ j.pc = "exportLinks"
        /\ j.file.devs = k.file.devs /\ j.file.groups = groups
        /\ j.file.links = k.file.links /\ j.file.members = k.file.members
        /\ j.todo.devs = k.file.devs
    BY <1>2 DEF Call, Fields, Parts
  <2>3. devs \ k.todo.devs = devs
    BY <1>4
  <2> QED BY <2>1, <2>2, <2>3 DEF MembersRead, LinksRead, Faithful
<1> HIDE DEF n
<1> QED BY <1>3, <1>4, <1>5, FaithfulStays, ReadingIsFaithful

\* The connections the file takes from m: all that m has and that it does not have
\* from the other end.
LEMMA LinksOfDevice ==
    ASSUME TypeOK, NEW c \in Clients, NEW m, NEW P \in GetConnections(c, m)
    PROVE  /\ P \subseteq Pairs
           /\ \A p \in P : m \in {p[1], p[2]} /\ Connected(p)
           /\ \A p \in Pairs : m \in {p[1], p[2]} /\ Connected(p)
                => {p, Reversed(p)} \cap (call[c].file.links \cup P) # {}
<1> DEFINE new == {p \in Pairs : m \in {p[1], p[2]} /\ Connected(p)
                                 /\ {p, Reversed(p)} \cap call[c].file.links = {}}
<1>1. /\ P \subseteq {p \in Pairs : m \in {p[1], p[2]} /\ links[p] > 0}
      /\ P \subseteq new /\ \A p \in new : (p \in P) # (Reversed(p) \in P)
  BY DEF GetConnections
<1>2. P \subseteq Pairs /\ \A p \in P : m \in {p[1], p[2]} /\ Connected(p)
  BY <1>1
<1>3. ASSUME NEW p \in Pairs, m \in {p[1], p[2]} /\ Connected(p)
      PROVE  {p, Reversed(p)} \cap (call[c].file.links \cup P) # {}
  <2>1. CASE p \in new
    <3>1. p \in P \/ Reversed(p) \in P
      BY <1>1, <2>1
    <3> QED BY <3>1
  <2>2. CASE p \notin new
    BY <1>3, <2>2
  <2> QED BY <2>1, <2>2
<1> QED BY <1>2, <1>3

LEMMA ExportLinksFaithful ==
    ASSUME TypeOK, QuietIsFaithful, NEW c \in Clients, ExportLinks(c)
    PROVE  QuietIsFaithful'
<1>1. PICK m \in call[c].todo.devs : \E P \in GetConnections(c, m) :
        call' = [call EXCEPT ![c].todo.devs = @ \ {m}, ![c].file.links = @ \cup P]
  BY DEF ExportLinks
<1>2. PICK P \in GetConnections(c, m) :
        call' = [call EXCEPT ![c].todo.devs = @ \ {m}, ![c].file.links = @ \cup P]
  BY <1>1
<1>3. PICK k \in Call : k = call[c]
  BY DEF TypeOK
<1> DEFINE n == [k EXCEPT !.todo.devs = @ \ {m}, !.file.links = @ \cup P]
<1>4. P \subseteq Pairs
  BY LinksOfDevice
<1>5. PICK j \in Call : j = n
  <2>1. n \in Call
    BY <1>4 DEF Call, Fields, Parts
  <2> HIDE DEF n
  <2> QED BY <2>1
<1>6. call' = [call EXCEPT ![c] = j]
  BY <1>2, <1>3, <1>5 DEF TypeOK
<1>7. UNCHANGED <<devs, groups, members, links, quiet>> /\ k.pc = "exportLinks"
  BY <1>3 DEF ExportLinks
<1>8. ASSUME c \in quiet PROVE Faithful(j)
  <2>1. LinksRead(k)
    BY <1>3, <1>7, <1>8 DEF QuietIsFaithful, Faithful
  <2>2. /\ j.pc = "exportLinks"
        /\ j.file.devs = k.file.devs /\ j.file.groups = k.file.groups
        /\ j.file.members = k.file.members /\ j.file.links = k.file.links \cup P
        /\ j.todo.devs = k.todo.devs \ {m}
    BY <1>5, <1>7 DEF Call, Fields, Parts
  <2>3. m \in devs
    BY <1>3, <2>1 DEF LinksRead
  <2>4. ASSUME NEW p \in Pairs
        PROVE  (p \in j.file.links \/ Reversed(p) \in j.file.links)
                 <=> Connected(p) /\ {p[1], p[2]} \cap (devs \ j.todo.devs) # {}
    <3>1. (p \in k.file.links \/ Reversed(p) \in k.file.links)
            <=> Connected(p) /\ {p[1], p[2]} \cap (devs \ k.todo.devs) # {}
      BY <2>1 DEF LinksRead
    <3>2. devs \ j.todo.devs = (devs \ k.todo.devs) \cup {m}
      BY <2>2, <2>3
    <3>3. m \in {p[1], p[2]} /\ Connected(p)
            => {p, Reversed(p)} \cap (k.file.links \cup P) # {}
      BY <1>3, LinksOfDevice
    <3>4. p \in P => m \in {p[1], p[2]} /\ Connected(p)
      BY LinksOfDevice
    <3>5. Reversed(p) \in P => m \in {p[1], p[2]} /\ Connected(p)
      <4>1. Reversed(p) \in P
              => m \in {Reversed(p)[1], Reversed(p)[2]} /\ Connected(Reversed(p))
        BY LinksOfDevice
      <4>2. {Reversed(p)[1], Reversed(p)[2]} = {p[1], p[2]}
        BY DEF Reversed
      <4>3. Connected(Reversed(p)) => Connected(p)
        BY PairFacts DEF TypeOK, Connected
      <4> QED BY <4>1, <4>2, <4>3
    <3> QED BY <2>2, <3>1, <3>2, <3>3, <3>4, <3>5
  <2> QED BY <2>1, <2>2, <2>4 DEF LinksRead, Faithful
<1> HIDE DEF n
<1> QED BY <1>6, <1>7, <1>8, FaithfulStays, ReadingIsFaithful

LEMMA FinishFaithful ==
    ASSUME TypeOK, QuietIsFaithful, NEW c \in Clients, Finish(c)
    PROVE  QuietIsFaithful'
<1>1. /\ call' = [call EXCEPT ![c] = Idle] /\ UNCHANGED <<devs, groups, members, links>>
      /\ quiet' \subseteq quiet \cup {c} /\ c \notin quiet'
  BY DEF Finish
<1> QED BY <1>1, IdleIsCall, ReadingIsFaithful

-----------------------------------------------------------------------------
(* Imports.                                                                 *)

LEMMA ImportFaithful ==
    ASSUME TypeOK, QuietIsFaithful, NEW c \in Clients, NEW f \in File, Import(c, f)
    PROVE  QuietIsFaithful'
<1> DEFINE n == [Idle EXCEPT !.pc = "import", !.file = f, !.todo = f]
<1>1. PICK j \in Call : j = n
  <2>1. n \in Call
    BY FileIsParts DEF Idle, Call, Fields
  <2> HIDE DEF n
  <2> QED BY <2>1
<1>2. call' = [call EXCEPT ![c] = j] /\ f # Blank /\ call[c] = Idle
  BY <1>1 DEF Import
<1>3. UNCHANGED <<devs, groups, members, links>> /\ quiet' \subseteq quiet \cup {c}
  BY DEF Import
<1>4. j.pc = "import" /\ j.file = f /\ j.todo = f
  BY <1>1 DEF Idle
<1> HIDE DEF n
<1>5. ASSUME c \in quiet' PROVE Faithful(j)
  <2>1. c \notin quiet
    BY <1>2, QuietIsBusy
  <2>2. devs = {} /\ groups = {} /\ members = {} /\ \A p \in Pairs : links[p] = 0
    BY <1>5, <2>1 DEF Import
  <2>3. Restored(j)
    BY <1>2, <1>4, <2>2 DEF Restored
  <2> QED BY <1>4, <2>3 DEF Faithful
<1> QED BY <1>2, <1>3, <1>5, FaithfulStays, ReadingIsFaithful

LEMMA ReadDeviceFaithful ==
    ASSUME TypeOK, QuietIsFaithful, NEW c \in Clients, ReadDevice(c)
    PROVE  QuietIsFaithful'
<1>1. PICK m \in call[c].todo.devs :
        call' = [call EXCEPT ![c] = [call[c] EXCEPT !.pc = "device", !.mac = m,
                                          !.found = m \in devs, !.todo.devs = @ \ {m}]]
  BY DEF ReadDevice
<1>2. PICK k \in Call : k = call[c]
  BY DEF TypeOK
<1> DEFINE found == m \in devs
           n == [k EXCEPT !.pc = "device", !.mac = m, !.found = found, !.todo.devs = @ \ {m}]
<1>3. found \in BOOLEAN
  OBVIOUS
<1>4. call' = [call EXCEPT ![c] = n]
  BY <1>1, <1>2
<1>5. c \in quiet => (found <=> m \in devs)
  OBVIOUS
<1> HIDE DEF found
<1>6. n \in Call
  <2>1. m \in k.todo.devs
    BY <1>2
  <2> QED BY <1>3, <2>1 DEF Call, Fields, Parts
<1>7. /\ n.pc = "device" /\ n.mac = m /\ n.found = found /\ n.file = k.file
      /\ n.todo.devs = k.todo.devs \ {m} /\ n.todo.groups = k.todo.groups
      /\ n.todo.members = k.todo.members /\ n.todo.links = k.todo.links
  BY DEF Call, Fields, Parts
<1> HIDE DEF n
<1>8. PICK j \in Call : j = n
  BY <1>6
<1>9. UNCHANGED <<devs, groups, members, links, quiet>> /\ k.pc = "import"
  BY <1>2 DEF ReadDevice
<1>10. ASSUME c \in quiet PROVE Faithful(j)
  <2>1. Restored(k)
    BY <1>2, <1>9, <1>10 DEF QuietIsFaithful, Faithful
  <2>2. m \in k.todo.devs /\ m \in k.file.devs /\ m \notin devs
    BY <1>2, <1>9, <2>1 DEF Restored
  <2>3. found = FALSE
    BY <1>3, <1>5, <1>10, <2>2
  <2>4. devs = {x \in n.file.devs \ n.todo.devs : n.mac # x}
    BY <1>7, <1>9, <2>1, <2>2 DEF Restored
  <2>5. Restored(n)
    BY <1>7, <1>9, <2>1, <2>2, <2>3, <2>4 DEF Restored
  <2> QED BY <1>7, <1>8, <2>5 DEF Faithful
<1> QED BY <1>4, <1>8, <1>9, <1>10, FaithfulStays, ReadingIsFaithful

LEMMA ReadGroupFaithful ==
    ASSUME TypeOK, QuietIsFaithful, NEW c \in Clients, ReadGroup(c)
    PROVE  QuietIsFaithful'
<1>1. PICK g \in call[c].todo.groups :
        call' = [call EXCEPT ![c] = [call[c] EXCEPT !.pc = "group", !.group = g,
                                          !.found = g \in groups, !.todo.groups = @ \ {g}]]
  BY DEF ReadGroup
<1>2. PICK k \in Call : k = call[c]
  BY DEF TypeOK
<1> DEFINE found == g \in groups
           n == [k EXCEPT !.pc = "group", !.group = g, !.found = found,
                          !.todo.groups = @ \ {g}]
<1>3. found \in BOOLEAN
  OBVIOUS
<1>4. call' = [call EXCEPT ![c] = n]
  BY <1>1, <1>2
<1>5. c \in quiet => (found <=> g \in groups)
  OBVIOUS
<1> HIDE DEF found
<1>6. n \in Call
  <2>1. g \in k.todo.groups
    BY <1>2
  <2> QED BY <1>3, <2>1 DEF Call, Fields, Parts
<1>7. /\ n.pc = "group" /\ n.group = g /\ n.found = found /\ n.file = k.file
      /\ n.todo.groups = k.todo.groups \ {g} /\ n.todo.devs = k.todo.devs
      /\ n.todo.members = k.todo.members /\ n.todo.links = k.todo.links
  BY DEF Call, Fields, Parts
<1> HIDE DEF n
<1>8. PICK j \in Call : j = n
  BY <1>6
<1>9. UNCHANGED <<devs, groups, members, links, quiet>> /\ k.pc = "import"
  BY <1>2 DEF ReadGroup
<1>10. ASSUME c \in quiet PROVE Faithful(j)
  <2>1. Restored(k)
    BY <1>2, <1>9, <1>10 DEF QuietIsFaithful, Faithful
  <2>2. g \in k.todo.groups /\ g \in k.file.groups /\ g \notin groups
    BY <1>2, <1>9, <2>1 DEF Restored
  <2>3. found = FALSE
    BY <1>3, <1>5, <1>10, <2>2
  <2>4. groups = {x \in n.file.groups \ n.todo.groups : n.group # x}
    BY <1>7, <1>9, <2>1, <2>2 DEF Restored
  <2>5. Restored(n)
    BY <1>7, <1>9, <2>1, <2>2, <2>3, <2>4 DEF Restored
  <2> QED BY <1>7, <1>8, <2>5 DEF Faithful
<1> QED BY <1>4, <1>8, <1>9, <1>10, FaithfulStays, ReadingIsFaithful

\* What goes on with an import after a write.
LEMMA ImportContinues ==
    ASSUME NEW k \in Call, k.file # Blank
    PROVE  /\ Continued(k) \in Call /\ Continued(k).pc = "import"
           /\ Continued(k).file = k.file /\ Continued(k).todo = k.todo
BY ContinuedIsCall DEF Continued, Idle

LEMMA WriteFaithful ==
    ASSUME TypeOK, QuietIsFaithful, NEW c \in Clients, WriteDevice(c) \/ WriteGroup(c)
    PROVE  QuietIsFaithful'
<1>1. PICK k \in Call : k = call[c]
  BY DEF TypeOK
<1>2. PICK j \in Call : j = Continued(k)
  BY ContinuedIsCall
<1>3. call' = [call EXCEPT ![c] = j] /\ Disturb(c) /\ UNCHANGED <<members, links>>
  BY <1>1, <1>2 DEF WriteDevice, WriteGroup
<1>4. ASSUME c \in quiet PROVE Faithful(j)'
  <2>1. k.pc \in {"device", "group"} /\ Restored(k)
    BY <1>1, <1>4 DEF QuietIsFaithful, Faithful, WriteDevice, WriteGroup
  <2>2. j.pc = "import" /\ j.file = k.file /\ j.todo = k.todo
    BY <1>2, <2>1, ImportContinues DEF Restored
  <2>3. CASE WriteDevice(c)
    <3>1. devs' = devs \cup {k.mac} /\ groups' = groups /\ k.pc = "device"
      BY <1>1, <2>1, <2>3 DEF WriteDevice, Restored
    <3>2. devs' = k.file.devs \ k.todo.devs
      BY <2>1, <3>1 DEF Restored
    <3>3. Restored(j)'
      BY <1>3, <2>1, <2>2, <3>1, <3>2 DEF Restored
    <3> QED BY <2>2, <3>3 DEF Faithful
  <2>4. CASE WriteGroup(c)
    <3>1. groups' = groups \cup {k.group} /\ devs' = devs /\ k.pc = "group"
      BY <1>1, <2>1, <2>4 DEF WriteGroup, Restored
    <3>2. groups' = k.file.groups \ k.todo.groups
      BY <2>1, <3>1 DEF Restored
    <3>3. Restored(j)'
      BY <1>3, <2>1, <2>2, <3>1, <3>2 DEF Restored
    <3> QED BY <2>2, <3>3 DEF Faithful
  <2> QED BY <2>3, <2>4
<1> QED BY <1>3, <1>4, WritingIsFaithful

LEMMA ImportMemberFaithful ==
    ASSUME TypeOK, QuietIsFaithful, NEW c \in Clients, ImportMember(c)
    PROVE  QuietIsFaithful'
<1>1. PICK x \in call[c].todo.members :
        /\ call' = [call EXCEPT ![c].todo.members = @ \ {x}]
        /\ members' = IF x[1] \in call[c].file.groups THEN members \cup {x} ELSE members
  BY DEF ImportMember
<1>2. PICK k \in Call : k = call[c]
  BY DEF TypeOK
<1> DEFINE n == [k EXCEPT !.todo.members = @ \ {x}]
<1>3. call' = [call EXCEPT ![c] = n]
  BY <1>1, <1>2 DEF TypeOK
<1>4. /\ n \in Call /\ n.pc = k.pc /\ n.file = k.file
      /\ n.todo.members = k.todo.members \ {x} /\ n.todo.devs = k.todo.devs
      /\ n.todo.groups = k.todo.groups /\ n.todo.links = k.todo.links
  BY DEF Call, Fields, Parts
<1> HIDE DEF n
<1>5. PICK j \in Call : j = n
  BY <1>4
<1>6. UNCHANGED <<devs, groups, links>> /\ Disturb(c) /\ k.pc = "import"
  BY <1>2 DEF ImportMember
<1>7. ASSUME c \in quiet PROVE Faithful(j)'
  <2>1. Restored(k)
    BY <1>2, <1>6, <1>7 DEF QuietIsFaithful, Faithful
  <2>2. x \in k.todo.members /\ x \in k.file.members
    BY <1>2, <2>1 DEF Restored
  <2>3. members' = {y \in k.file.members \ (k.todo.members \ {x}) : y[1] \in k.file.groups}
    BY <1>1, <1>2, <2>1, <2>2 DEF Restored
  <2>4. Restored(j)'
    BY <1>4, <1>5, <1>6, <2>1, <2>3 DEF Restored
  <2> QED BY <1>4, <1>5, <1>6, <2>4 DEF Faithful
<1> QED BY <1>3, <1>5, <1>6, <1>7, WritingIsFaithful

\* The file has a connection in one direction only: it is not there yet.
LEMMA ImportLinkFaithful ==
    ASSUME TypeOK, QuietIsFaithful, NEW c \in Clients, ImportLink(c)
    PROVE  QuietIsFaithful'
<1>1. PICK k \in Call : k = call[c]
  BY DEF TypeOK
<1>2. PICK p \in k.todo.links :
        LET l == [call[c] EXCEPT !.todo.links = @ \ {p}]
        IN  call' = [call EXCEPT ![c] = IF Connected(p) THEN l
                                       ELSE [l EXCEPT !.pc = "connect", !.pair = p]]
  BY <1>1 DEF ImportLink
<1> DEFINE n == [k EXCEPT !.todo.links = @ \ {p}]
           q == [n EXCEPT !.pc = "connect", !.pair = p]
<1>3. call' = [call EXCEPT ![c] = IF Connected(p) THEN n ELSE q]
  BY <1>1, <1>2
<1>4. p \in Pairs
  BY DEF Call, Fields, Parts
<1>5. /\ n \in Call /\ n.file = k.file /\ n.pc = k.pc
      /\ n.todo.links = k.todo.links \ {p} /\ n.todo.devs = k.todo.devs
      /\ n.todo.groups = k.todo.groups /\ n.todo.members = k.todo.members
  BY DEF Call, Fields, Parts
<1>6. /\ q \in Call /\ q.pc = "connect" /\ q.pair = p /\ q.file = n.file /\ q.todo = n.todo
  BY <1>4, <1>5 DEF Call, Fields
<1> HIDE DEF n, q
<1>7. UNCHANGED <<devs, groups, members, links, quiet>> /\ k.pc = "import"
  BY <1>1 DEF ImportLink
<1>8. PICK j \in Call : j = IF Connected(p) THEN n ELSE q
  BY <1>5, <1>6
<1>9. ASSUME c \in quiet PROVE Faithful(j)
  <2>1. Restored(k)
    BY <1>1, <1>7, <1>9 DEF QuietIsFaithful, Faithful
  <2>2. p \in k.file.links /\ Reversed(p) \notin k.file.links
    BY <2>1 DEF Restored, File
  <2>3. links[p] = 0 /\ links[Reversed(p)] = 0
    BY <1>4, <1>7, <2>1, <2>2, PairFacts DEF Restored
  <2>4. j = q
    BY <1>8, <2>3 DEF Connected
  <2>5. \A r \in Pairs : links[r] = IF r \in q.file.links \ q.todo.links /\ q.pair # r
                                    THEN 1 ELSE 0
    BY <1>5, <1>6, <1>7, <2>1, <2>2, <2>3 DEF Restored
  <2>6. Restored(q)
    BY <1>5, <1>6, <1>7, <2>1, <2>2, <2>5 DEF Restored
  <2> QED BY <1>6, <2>4, <2>6 DEF Faithful
<1> QED BY <1>3, <1>7, <1>8, <1>9, FaithfulStays, ReadingIsFaithful

LEMMA ConnectFaithful ==
    ASSUME TypeOK, QuietIsFaithful, NEW c \in Clients, Connect(c)
    PROVE  QuietIsFaithful'
<1>1. PICK k \in Call : k = call[c]
  BY DEF TypeOK
<1>2. PICK j \in Call : j = Continued(k)
  BY ContinuedIsCall
<1>3. /\ call' = [call EXCEPT ![c] = j] /\ Disturb(c) /\ UNCHANGED <<devs, groups, members>>
      /\ k.pc = "connect" /\ k.pair \in Pairs
      /\ links' = [links EXCEPT ![k.pair] = links[k.pair] + 1]
  BY <1>1, <1>2, ConnectFacts DEF Connect
<1>4. ASSUME c \in quiet PROVE Faithful(j)'
  <2>1. Restored(k)
    BY <1>1, <1>3, <1>4 DEF QuietIsFaithful, Faithful
  <2>2. j.pc = "import" /\ j.file = k.file /\ j.todo = k.todo
    BY <1>2, <2>1, ImportContinues DEF Restored
  <2>3. \A p \in Pairs : links'[p] = IF p \in k.file.links \ k.todo.links THEN 1 ELSE 0
    BY <1>3, <2>1 DEF Restored, TypeOK
  <2>4. Restored(j)'
    BY <1>3, <2>1, <2>2, <2>3 DEF Restored
  <2> QED BY <2>2, <2>4 DEF Faithful
<1> QED BY <1>3, <1>4, WritingIsFaithful

-----------------------------------------------------------------------------

\* The requests of the pages come from a client that exports and imports nothing.
LEMMA PageFaithful ==
    ASSUME TypeOK, QuietIsFaithful, NEW c \in Clients,
           \/ \E g \in Groups : \/ CreateGroup(c, g) \/ DeleteMembers(c, g)
                                \/ \E m \in MACs : \/ AddDeviceToGroup(c, m, g)
                                                   \/ RemoveDeviceFromGroup(c, m, g)
           \/ DeleteGroup(c) \/ \E p \in Pairs : RemoveConnection(c, p)
    PROVE  QuietIsFaithful'
<1>1. c \notin quiet
  BY QuietIsBusy DEF CreateGroup, DeleteMembers, AddDeviceToGroup, RemoveDeviceFromGroup,
                     DeleteGroup, RemoveConnection
<1>2. Disturb(c)
  BY DEF CreateGroup, DeleteMembers, AddDeviceToGroup, RemoveDeviceFromGroup,
         DeleteGroup, RemoveConnection
<1> QED BY <1>1, <1>2 DEF Disturb, QuietIsFaithful

LEMMA AddConnectionFaithful ==
    ASSUME TypeOK, QuietIsFaithful, NEW c \in Clients, NEW p \in Pairs, AddConnection(c, p)
    PROVE  QuietIsFaithful'
<1>1. c \notin quiet
  BY QuietIsBusy DEF AddConnection
<1>2. PICK k \in Call : call' = [call EXCEPT ![c] = k]
  BY AddConnectionReads DEF Reads, Goes
<1>3. UNCHANGED <<devs, groups, members, links, quiet>>
  BY DEF AddConnection
<1> QED BY <1>1, <1>2, <1>3, ReadingIsFaithful

\* A file has the devices, groups, memberships and connections the pages show, and
\* an import into empty tables leaves those of the file, if nobody else has written
\* meanwhile: for any number of them and of requests, though both read and write
\* one row after the other.  Nothing is said of the columns of devices.
THEOREM BackupKeepsRelationsAlways == Spec => []BackupKeepsRelations
<1>1. Init => QuietIsFaithful
  BY DEF Init, QuietIsFaithful
<1>2. TypeOK /\ QuietIsFaithful /\ [Next]_vars => QuietIsFaithful'
  <2> SUFFICES ASSUME TypeOK, QuietIsFaithful, [Next]_vars PROVE QuietIsFaithful'
    OBVIOUS
  <2>1. CASE (\E m \in MACs : Discover(m) \/ DeleteConnections(m)) \/ DeleteRow \/ Restart
    <3>1. quiet' = {}
      BY <2>1 DEF Discover, DeleteConnections, DeleteRow, Restart
    <3> QED BY <3>1 DEF QuietIsFaithful
  <2>2. ASSUME NEW c \in Clients, Request(c) PROVE QuietIsFaithful'
    BY <2>2, PageFaithful, AddConnectionFaithful, ConnectFaithful, ExportFaithful,
       ExportMembersFaithful, ExportGroupsFaithful, ExportLinksFaithful, FinishFaithful,
       ImportFaithful, ReadDeviceFaithful, WriteFaithful, ReadGroupFaithful,
       ImportMemberFaithful, ImportLinkFaithful DEF Request
  <2>3. CASE UNCHANGED vars
    <3>1. UNCHANGED <<devs, groups, members, links, call, quiet>>
      BY <2>3 DEF vars
    <3> QED BY <3>1, FaithfulStays DEF QuietIsFaithful
  <2> QED BY <2>1, <2>2, <2>3 DEF Next
<1>3. TypeOK /\ QuietIsFaithful => BackupKeepsRelations
  <2> SUFFICES ASSUME TypeOK, QuietIsFaithful, NEW c \in quiet, call[c].todo = Blank
               PROVE  LET f == call[c].file IN
                      /\ call[c].pc = "exportLinks" =>
                           /\ f.devs = devs /\ f.groups = groups /\ SameLinks(f.links)
                           /\ f.members = {x \in members : x[1] \in groups /\ x[2] \in devs}
                      /\ call[c].pc = "import" =>
                           /\ f.devs = devs /\ f.groups = groups
                           /\ members = {x \in f.members : x[1] \in groups}
                           /\ \A p \in Pairs : links[p] = IF p \in f.links THEN 1 ELSE 0
    BY DEF BackupKeepsRelations
  <2>1. PICK k \in Call : k = call[c] /\ Faithful(k)
    BY QuietIsBusy DEF QuietIsFaithful
  <2>2. k.todo.devs = {} /\ k.todo.groups = {} /\ k.todo.members = {} /\ k.todo.links = {}
    BY <2>1 DEF Blank
  <2>3. CASE k.pc = "exportLinks"
    <3>1. LinksRead(k) /\ devs \ k.todo.devs = devs
      BY <2>1, <2>2, <2>3 DEF Faithful
    <3>2. SameLinks(k.file.links)
      BY <3>1 DEF LinksRead, SameLinks
    <3> QED BY <2>1, <2>3, <3>1, <3>2 DEF LinksRead, Shown
  <2>4. CASE k.pc = "import"
    <3>1. Restored(k)
      BY <2>1, <2>4 DEF Faithful
    <3> QED BY <2>1, <2>2, <2>4, <3>1 DEF Restored
  <2> QED BY <2>1, <2>3, <2>4
<1> QED BY <1>1, <1>2, <1>3, TypeCorrect, PTL DEF Spec

=============================================================================
