------------------------------- MODULE Links -------------------------------
(***************************************************************************)
(* Which devices are in which groups, and which devices are connected      *)
(* (internal/registry/registry.go): the tables device_group_members and    *)
(* device_connections next to devices and device_groups, the requests that *)
(* change them, and the export and the import of all four.                 *)
(*                                                                         *)
(* An action is one SQL statement.  Only Delete and the import of a device *)
(* hold the registry's mutex; any other two requests interleave.  The      *)
(* tables refer to each other by identifiers that nothing enforces, and a  *)
(* page may be older than what it refers to.                               *)
(*                                                                         *)
(* The other columns are left out: a device is its MAC, a connection its   *)
(* two ends.  So is what a file carries of them: nothing here is about the *)
(* columns of devices that ExportRecord lacks (http_url, force_ping,       *)
(* notes, services, nmap_ports), which a restore loses.                    *)
(***************************************************************************)
EXTENDS Naturals, FiniteSets

CONSTANTS MACs, Groups,
          Clients,   \* web requests under way at once
          Porters,   \* bound: those of them that may be exports and imports
          None

ASSUME LinksAssumption == /\ IsFiniteSet(Clients) /\ Porters \subseteq Clients
                          /\ None \notin MACs /\ Groups \cap MACs = {}

VARIABLES
    devs,       \* the MACs that have a row in devices
    groups,     \* device_groups
    members,    \* device_group_members: pairs of a group and a MAC
    links,      \* device_connections: how many rows there are for two MACs
    deleting,   \* the MAC whose Delete holds the mutex, or None
    call,       \* Clients -> the request in progress
    late,       \* history: see Late
    quiet       \* history: the porters no other request has written beside

vars == <<devs, groups, members, links, deleting, call, late, quiet>>

Pairs == {p \in MACs \X MACs : p[1] # p[2]}

Reversed(p) == <<p[2], p[1]>>

Parts == [devs : SUBSET MACs, groups : SUBSET Groups,
          members : SUBSET (Groups \X MACs), links : SUBSET Pairs]

\* A file Export can have written, here or elsewhere, now or in other times, as
\* far as it says what there is and what belongs to what.  Its parts are read one
\* after the other, so a membership may be in a group that is not in the file,
\* and a connection may lead to a device that is not.
File == {f \in Parts :
            /\ \A x \in f.members : x[2] \in f.devs
            /\ \A p \in f.links : /\ p[1] \in f.devs \/ p[2] \in f.devs
                                  /\ Reversed(p) \notin f.links}

Blank == [devs |-> {}, groups |-> {}, members |-> {}, links |-> {}]

\* A request: what it does next, to what, and for an export or an import the
\* file and what of it is still to do.
Idle == [pc |-> "idle", found |-> FALSE, pair |-> None, group |-> None, mac |-> None,
         file |-> Blank, todo |-> Blank]

Init ==
    /\ devs = {} /\ groups = {} /\ members = {}
    /\ links = [p \in Pairs |-> 0]
    /\ deleting = None
    /\ call = [c \in Clients |-> Idle]
    /\ late = {}
    /\ quiet = {}

\* What somebody has written of a group or a device that is gone, or is just
\* being deleted, is late.
Doomed(x) == \/ x \in Groups /\ x \notin groups
             \/ \E c \in Clients : call[c].pc = "delete" /\ call[c].group = x
             \/ x \in MACs /\ (x \notin devs \/ x = deleting)

Late(X) == late' = late \cup {x \in X : Doomed(x)}

\* Client c writes: no other porter is alone any more.
Disturb(c) == quiet' = quiet \cap {c}

-----------------------------------------------------------------------------
(* Devices.                                                                 *)

\* A sighting, or AddManual, inserts a row, in a region of the mutex.
Discover(m) ==
    /\ deleting = None
    /\ devs' = devs \cup {m}
    /\ quiet' = {}
    /\ UNCHANGED <<groups, members, links, deleting, call, late>>

\* Faulty variant: only the connections the device is the first end of.
DeleteConnectionsFrom(m) ==
    /\ deleting = None
    /\ deleting' = m
    /\ links' = [p \in Pairs |-> IF p[1] = m THEN 0 ELSE links[p]]
    /\ late' = late \ {m}
    /\ quiet' = {}
    /\ UNCHANGED <<devs, groups, members, call>>

\* Delete: the connections, and then the row.  The memberships stay.
DeleteConnections(m) ==
    /\ deleting = None
    /\ deleting' = m
    /\ links' = [p \in Pairs |-> IF m \in {p[1], p[2]} THEN 0 ELSE links[p]]
    /\ late' = late \ {m}
    /\ quiet' = {}
    /\ UNCHANGED <<devs, groups, members, call>>

DeleteRow ==
    /\ deleting # None
    /\ devs' = devs \ {deleting}
    /\ deleting' = None
    /\ quiet' = {}
    /\ UNCHANGED <<groups, members, links, call, late>>

-----------------------------------------------------------------------------
(* Groups and memberships.                                                  *)

\* A new group's identifier is in no table, no request and no page.
Fresh(g) == /\ g \notin groups \cup late
            /\ \A x \in members : x[1] # g
            /\ \A c \in Clients : /\ call[c].group # g
                                  /\ g \notin call[c].file.groups
                                  /\ \A x \in call[c].file.members : x[1] # g

CreateGroup(c, g) ==
    /\ call[c] = Idle
    /\ Fresh(g)
    /\ groups' = groups \cup {g}
    /\ Disturb(c)
    /\ UNCHANGED <<devs, members, links, deleting, call, late>>

\* DeleteGroup: the memberships, and then the row.
DeleteMembers(c, g) ==
    /\ call[c] = Idle
    /\ members' = {x \in members : x[1] # g}
    /\ call' = [call EXCEPT ![c].pc = "delete", ![c].group = g]
    /\ late' = late \ {g}
    /\ Disturb(c)
    /\ UNCHANGED <<devs, groups, links, deleting>>

DeleteGroup(c) ==
    /\ call[c].pc = "delete"
    /\ groups' = groups \ {call[c].group}
    /\ call' = [call EXCEPT ![c] = Idle]
    /\ Disturb(c)
    /\ UNCHANGED <<devs, members, links, deleting, late>>

\* INSERT OR IGNORE, whether the group and the device are there or not.
AddDeviceToGroup(c, m, g) ==
    /\ call[c] = Idle
    /\ members' = members \cup {<<g, m>>}
    /\ Late({g})
    /\ Disturb(c)
    /\ UNCHANGED <<devs, groups, links, deleting, call>>

RemoveDeviceFromGroup(c, m, g) ==
    /\ call[c] = Idle
    /\ members' = members \ {<<g, m>>}
    /\ Disturb(c)
    /\ UNCHANGED <<devs, groups, links, deleting, call, late>>

-----------------------------------------------------------------------------
(* Connections.                                                             *)

\* Faulty variant: the SELECT finds connections in the same direction only.
ConnectedFrom(p) == links[p] > 0

\* AddConnection's SELECT COUNT, order-independent.
Connected(p) == links[p] + links[Reversed(p)] > 0

AddConnection(c, p) ==
    /\ call[c] = Idle
    /\ ~Connected(p)
    /\ call' = [call EXCEPT ![c].pc = "connect", ![c].pair = p]
    /\ UNCHANGED <<devs, groups, members, links, deleting, late, quiet>>

\* A request to connect two devices ends with its INSERT; an import goes on.
Continued(k) == IF k.file = Blank THEN Idle
            ELSE [Idle EXCEPT !.pc = "import", !.file = k.file, !.todo = k.todo]

\* The INSERT.
Connect(c) ==
    /\ call[c].pc = "connect"
    /\ links' = [links EXCEPT ![call[c].pair] = @ + 1]
    /\ call' = [call EXCEPT ![c] = Continued(call[c])]
    /\ Late({call[c].pair[1], call[c].pair[2]})
    /\ Disturb(c)
    /\ UNCHANGED <<devs, groups, members, deleting>>

\* Faulty variant: a page that still shows the connection removes it again.
RemoveConnectionAgain(c, p) ==
    /\ call[c] = Idle
    /\ links' = [links EXCEPT ![p] = @ - 1]
    /\ Disturb(c)
    /\ UNCHANGED <<devs, groups, members, deleting, call, late>>

\* By the identifier of the row: nothing happens if it is gone.
RemoveConnection(c, p) ==
    /\ call[c] = Idle
    /\ links[p] > 0
    /\ links' = [links EXCEPT ![p] = @ - 1]
    /\ Disturb(c)
    /\ UNCHANGED <<devs, groups, members, deleting, call, late>>

-----------------------------------------------------------------------------
(* Export: the devices, the groups of each, the groups, and the connections *)
(* of each device.                                                          *)

Export(c) ==
    /\ c \in Porters /\ call[c] = Idle
    /\ call' = [call EXCEPT ![c] = [Idle EXCEPT !.pc = "exportMembers",
                                               !.file.devs = devs, !.todo.devs = devs]]
    /\ quiet' = quiet \cup {c}
    /\ UNCHANGED <<devs, groups, members, links, deleting, late>>

\* Faulty variant: the memberships without the join with the groups.
AllGroupsOf(m) == {x \in members : x[2] = m}

\* GetDeviceGroups, a join of memberships and groups.
GetDeviceGroups(m) == {x \in members : x[2] = m /\ x[1] \in groups}

ExportMembers(c) ==
    /\ call[c].pc = "exportMembers"
    /\ \E m \in call[c].todo.devs :
         call' = [call EXCEPT ![c].todo.devs = @ \ {m},
                              ![c].file.members = @ \cup GetDeviceGroups(m)]
    /\ UNCHANGED <<devs, groups, members, links, deleting, late, quiet>>

ExportGroups(c) ==
    /\ call[c].pc = "exportMembers" /\ call[c].todo.devs = {}
    /\ call' = [call EXCEPT ![c].pc = "exportLinks",
                            ![c].todo.devs = call[c].file.devs, ![c].file.groups = groups]
    /\ UNCHANGED <<devs, groups, members, links, deleting, late, quiet>>

\* The connections of m that the file does not have yet, each of them once: of
\* two rows for the same devices the older one.
GetConnections(c, m) ==
    {P \in SUBSET {p \in Pairs : m \in {p[1], p[2]} /\ links[p] > 0} :
        LET new == {p \in Pairs : m \in {p[1], p[2]} /\ Connected(p)
                                  /\ {p, Reversed(p)} \cap call[c].file.links = {}}
        IN  P \subseteq new /\ \A p \in new : (p \in P) # (Reversed(p) \in P)}

ExportLinks(c) ==
    /\ call[c].pc = "exportLinks"
    /\ \E m \in call[c].todo.devs : \E P \in GetConnections(c, m) :
         call' = [call EXCEPT ![c].todo.devs = @ \ {m}, ![c].file.links = @ \cup P]
    /\ UNCHANGED <<devs, groups, members, links, deleting, late, quiet>>

\* The file, or what an import reports, is sent.
Finish(c) ==
    /\ call[c].pc \in {"exportLinks", "import"} /\ call[c].todo = Blank
    /\ call' = [call EXCEPT ![c] = Idle]
    /\ quiet' = quiet \ {c}
    /\ UNCHANGED <<devs, groups, members, links, deleting, late>>

-----------------------------------------------------------------------------
(* Import: devices, groups, memberships and connections, in this order.  For *)
(* a device or a group it looks first, and inserts what was not there.       *)

Import(c, f) ==
    /\ c \in Porters /\ call[c] = Idle
    /\ f # Blank
    /\ call' = [call EXCEPT ![c] = [Idle EXCEPT !.pc = "import", !.file = f, !.todo = f]]
    /\ quiet' = IF devs \cup groups \cup members = {} /\ \A p \in Pairs : links[p] = 0
                THEN quiet \cup {c} ELSE quiet
    /\ UNCHANGED <<devs, groups, members, links, deleting, late>>

ReadDevice(c) ==
    /\ call[c].pc = "import"
    /\ deleting = None
    /\ \E m \in call[c].todo.devs :
         call' = [call EXCEPT ![c] = [call[c] EXCEPT !.pc = "device", !.mac = m,
                                    !.found = m \in devs, !.todo.devs = @ \ {m}]]
    /\ UNCHANGED <<devs, groups, members, links, deleting, late, quiet>>

WriteDevice(c) ==
    /\ call[c].pc = "device"
    /\ deleting = None
    /\ devs' = IF call[c].found THEN devs ELSE devs \cup {call[c].mac}
    /\ call' = [call EXCEPT ![c] = Continued(call[c])]
    /\ Disturb(c)
    /\ UNCHANGED <<groups, members, links, deleting, late>>

ReadGroup(c) ==
    /\ call[c].pc = "import" /\ call[c].todo.devs = {}
    /\ \E g \in call[c].todo.groups :
         call' = [call EXCEPT ![c] = [call[c] EXCEPT !.pc = "group", !.group = g,
                                    !.found = g \in groups, !.todo.groups = @ \ {g}]]
    /\ UNCHANGED <<devs, groups, members, links, deleting, late, quiet>>

WriteGroup(c) ==
    /\ call[c].pc = "group"
    /\ groups' = IF call[c].found THEN groups ELSE groups \cup {call[c].group}
    /\ call' = [call EXCEPT ![c] = Continued(call[c])]
    /\ Disturb(c)
    /\ UNCHANGED <<devs, members, links, deleting, late>>

\* A membership in a group that the file does not have is skipped.
ImportMember(c) ==
    /\ call[c].pc = "import" /\ call[c].todo.devs = {} /\ call[c].todo.groups = {}
    /\ \E x \in call[c].todo.members :
         /\ call' = [call EXCEPT ![c].todo.members = @ \ {x}]
         /\ members' = IF x[1] \in call[c].file.groups THEN members \cup {x} ELSE members
         /\ Late({x[1]} \cap call[c].file.groups)
    /\ Disturb(c)
    /\ UNCHANGED <<devs, groups, links, deleting>>

ImportLink(c) ==
    /\ call[c].pc = "import"
    /\ call[c].todo.devs = {} /\ call[c].todo.groups = {} /\ call[c].todo.members = {}
    /\ \E p \in call[c].todo.links :
         LET k == [call[c] EXCEPT !.todo.links = @ \ {p}]
         IN  call' = [call EXCEPT ![c] = IF Connected(p) THEN k
                                        ELSE [k EXCEPT !.pc = "connect", !.pair = p]]
    /\ UNCHANGED <<devs, groups, members, links, deleting, late, quiet>>

-----------------------------------------------------------------------------

\* The process dies, whatever its requests have come to, and is started again.
Restart ==
    /\ deleting' = None
    /\ call' = [c \in Clients |-> Idle]
    /\ quiet' = {}
    /\ UNCHANGED <<devs, groups, members, links, late>>

Request(c) ==
    \/ \E g \in Groups : \/ CreateGroup(c, g) \/ DeleteMembers(c, g)
                         \/ \E m \in MACs : \/ AddDeviceToGroup(c, m, g)
                                            \/ RemoveDeviceFromGroup(c, m, g)
    \/ DeleteGroup(c)
    \/ \E p \in Pairs : AddConnection(c, p) \/ RemoveConnection(c, p)
    \/ Connect(c)
    \/ Export(c) \/ ExportMembers(c) \/ ExportGroups(c) \/ ExportLinks(c) \/ Finish(c)
    \/ \E f \in File : Import(c, f)
    \/ ReadDevice(c) \/ WriteDevice(c) \/ ReadGroup(c) \/ WriteGroup(c)
    \/ ImportMember(c) \/ ImportLink(c)

Next == \/ \E m \in MACs : Discover(m) \/ DeleteConnections(m)
        \/ DeleteRow
        \/ \E c \in Clients : Request(c)
        \/ Restart

Spec == Init /\ [][Next]_vars

-----------------------------------------------------------------------------

Fields == [pc : {"idle", "delete", "connect", "exportMembers", "exportLinks", "import",
                 "device", "group"},
           found : BOOLEAN, pair : Pairs \cup {None}, group : Groups \cup {None},
           mac : MACs \cup {None}, file : Parts, todo : Parts]

\* A request has what its next statement needs.
Call == {k \in Fields : /\ k.pc \in {"delete", "group"} => k.group \in Groups
                        /\ k.pc = "device" => k.mac \in MACs
                        /\ k.pc = "connect" => k.pair \in Pairs}

\* Type invariant.
TypeOK ==
    /\ devs \subseteq MACs /\ groups \subseteq Groups /\ members \subseteq Groups \X MACs
    /\ links \in [Pairs -> Nat]
    /\ deleting \in MACs \cup {None}
    /\ call \in [Clients -> Call]
    /\ late \subseteq Groups \cup MACs
    /\ quiet \subseteq Porters

\* The requests that will connect the two devices of p.
Connecting(p) == {c \in Clients : call[c].pc = "connect" /\ call[c].pair \in {p, Reversed(p)}}

\* Two devices are connected at most as many times as requests were under way at
\* once, in whichever direction and by whichever import; requests one after the
\* other connect them once.  (AddConnection counts and inserts in two statements.)
LinksBounded ==
    \A p \in Pairs : links[p] + links[Reversed(p)] + Cardinality(Connecting(p))
                       <= Cardinality(Clients)

Leftover(x) == \/ \E y \in members : y[1] = x
               \/ \E p \in Pairs : links[p] > 0 /\ x \in {p[1], p[2]}

\* Of a group or a device that is gone no membership and no connection is left,
\* to come back with it when it is imported or heard again, except what a request
\* wrote after the deletion had begun: from a page that still showed it, or from
\* a file.  (The memberships of a deleted device are not meant: they stay.)
LeftoversAreLate == \A x \in Groups \cup MACs : Doomed(x) /\ Leftover(x) => x \in late

\* The connections of a file are those the pages show, each of them once.
SameLinks(F) ==
    \A p \in Pairs : Connected(p) /\ {p[1], p[2]} \cap devs # {}
                        <=> p \in F \/ Reversed(p) \in F

\* A backup keeps which devices and groups there are, who is in which group and
\* who is connected: a file has those the pages show if nobody has written while
\* it was made, and an import into empty tables beside which nobody has written
\* leaves those of the file.  No membership is lost, none of a group that is gone
\* comes back, and no connection is made twice, however the rows were entered.
\* Columns of devices are not meant, of which a file has only some.
BackupKeepsRelations ==
    \A c \in quiet : call[c].todo = Blank =>
      LET f == call[c].file IN
      /\ call[c].pc = "exportLinks" =>
           /\ f.devs = devs /\ f.groups = groups /\ SameLinks(f.links)
           /\ f.members = {x \in members : x[1] \in groups /\ x[2] \in devs}
      /\ call[c].pc = "import" =>
           /\ f.devs = devs /\ f.groups = groups
           /\ members = {x \in f.members : x[1] \in groups}
           /\ \A p \in Pairs : links[p] = IF p \in f.links THEN 1 ELSE 0

=============================================================================
