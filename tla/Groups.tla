------------------------------- MODULE Groups -------------------------------
(***************************************************************************)
(* The groups and their order (internal/registry/registry.go): web         *)
(* requests create, move and delete groups, export and import them, by     *)
(* several SQL statements each and without a mutex, and every start gives  *)
(* a place to the groups that have none (migrate.go).  A request is a      *)
(* client's call; its pc names the statement it has come to.               *)
(*                                                                         *)
(* A group is a number, and names sort as the numbers do.  Renaming,       *)
(* colours, and which devices are in a group are left out; identifiers are *)
(* fresh, so that a number may be used again once nothing refers to it.    *)
(***************************************************************************)
EXTENDS SequencesExt, Naturals

CONSTANTS Groups, Clients, None,
          MaxOrder,   \* bound of sort_order and rowid
          MaxFile     \* bound of the groups of a file

ASSUME GroupsAssumption == /\ IsFiniteSet(Groups) /\ Groups \subseteq Nat
                           /\ MaxOrder \in Nat /\ MaxFile \in Nat
                           /\ None \notin [order : Nat, rowid : Nat]

VARIABLES
    group,       \* device_groups: id -> its row, or None
    call,        \* client -> the request it is in
    restored,    \* history: the page an import into an empty table should bring back
    disturbed    \* history: one of the four disturbances below has happened

vars == <<group, call, restored, disturbed>>

Rows == [order : 0 .. MaxOrder, rowid : 1 .. MaxOrder]

\* The groups of the files that Export can have written here or elsewhere, in
\* the order of ListGroups, which is that of the page.
Files == {s \in BoundedSeq(Groups, MaxFile) : IsInjective(s)}

Idle == [pc |-> "idle"]
Calls == {Idle}
    \cup [pc : {"insert"}, id : Groups, order : 1 .. MaxOrder]
    \cup [pc : {"adjacent"}, id : Groups, cur : 0 .. MaxOrder, up : BOOLEAN]
    \cup [pc : {"first", "second"}, id : Groups, cur : 0 .. MaxOrder,
          adj : Groups, adjOrder : 0 .. MaxOrder]
    \cup [pc : {"import"}, rest : Files \ {<<>>}, found : BOOLEAN]

Existing == {g \in Groups : group[g] # None}
Highest(field) == IF Existing = {} THEN 0
                  ELSE CHOOSE n \in {group[g][field] : g \in Existing} :
                         \A g \in Existing : group[g][field] <= n

\* Between the two UPDATEs of a move, the group it moves counts as not moved.
Place(g) == LET moving == {c \in Clients : call[c].pc = "second" /\ call[c].id = g}
            IN  IF moving = {} THEN group[g].order ELSE call[CHOOSE c \in moving : TRUE].cur

\* ORDER BY sort_order, name, of pairs of a place and a group: a group stands
\* where as many of them come before it.
Earlier(x, y) == \/ x[1] < y[1]
                 \/ /\ x[1] = y[1]
                    /\ x[2] < y[2]
Before(R, r) == {q \in R : Earlier(q, r)}
InOrder(R) == [i \in 1 .. Cardinality(R) |->
                  (CHOOSE r \in R : Cardinality(Before(R, r)) = i - 1)[2]]

ListGroups == InOrder({<<group[g].order, g>> : g \in Existing})

\* The page, when a move is taken to happen at its end.
Page == InOrder({<<Place(g), g>> : g \in Existing})

\* A disturbance: another request that creates or moves a group is under way.
Overlapping(c) == \E d \in Clients \ {c} :
                     call[d].pc \in {"insert", "adjacent", "first", "second"}

\* A disturbance, if g is deleted: a move that gives g's place 0 away is under
\* way.
GivingZero(g) == \E d \in Clients :
    \/ /\ call[d].pc \in {"adjacent", "first", "second"}
       /\ call[d].id = g /\ call[d].cur = 0
    \/ /\ call[d].pc \in {"first", "second"}
       /\ call[d].adj = g /\ call[d].adjOrder = 0

Init ==
    /\ group = [g \in Groups |-> None]
    /\ call = [c \in Clients |-> Idle]
    /\ restored = <<>>
    /\ disturbed = FALSE

-----------------------------------------------------------------------------

\* The fresh identifier: unknown to the table and to the requests under way.
Fresh(g) == /\ group[g] = None
            /\ \A c \in Clients : /\ call[c].pc = "insert" => call[c].id # g
                                  /\ call[c].pc = "import" => g \notin Range(call[c].rest)
                                  /\ call[c].pc \in {"adjacent", "first", "second"} => call[c].id # g
                                  /\ call[c].pc \in {"first", "second"} => call[c].adj # g

Return(c) == call' = [call EXCEPT ![c] = Idle]

\* Faulty variant: the number of groups instead of the highest place.
CountGroups == Cardinality(Existing)

NextPlace == Highest("order")

\* CreateGroup: SELECT MAX, then INSERT.
CreateGroup(c, g) ==
    /\ call[c] = Idle /\ Fresh(g)
    /\ NextPlace < MaxOrder
    /\ call' = [call EXCEPT ![c] = [pc |-> "insert", id |-> g, order |-> NextPlace + 1]]
    /\ disturbed' = (disturbed \/ Overlapping(c))
    /\ restored' = <<>>
    /\ UNCHANGED group

InsertGroup(c) ==
    /\ call[c].pc = "insert"
    /\ Highest("rowid") < MaxOrder
    /\ group' = [group EXCEPT ![call[c].id] =
                    [order |-> call[c].order, rowid |-> Highest("rowid") + 1]]
    /\ Return(c)
    /\ UNCHANGED <<restored, disturbed>>

\* MoveGroup: SELECT the place, SELECT the neighbour, and two UPDATEs.
MoveGroup(c, g, up) ==
    /\ call[c] = Idle /\ group[g] # None
    /\ call' = [call EXCEPT ![c] =
                   [pc |-> "adjacent", id |-> g, cur |-> group[g].order, up |-> up]]
    /\ disturbed' = (disturbed \/ Overlapping(c))
    /\ restored' = <<>>
    /\ UNCHANGED group

\* Faulty variant: ORDER BY without DESC when moving up.
FarNeighbours(cur, up) ==
    LET side == {g \in Existing : IF up THEN group[g].order < cur ELSE group[g].order > cur}
    IN  {g \in side : \A h \in side : group[g].order <= group[h].order}

Neighbours(cur, up) ==
    LET side == {g \in Existing : IF up THEN group[g].order < cur ELSE group[g].order > cur}
    IN  {g \in side : \A h \in side : IF up THEN group[h].order <= group[g].order
                                            ELSE group[g].order <= group[h].order}

FindAdjacent(c) ==
    /\ call[c].pc = "adjacent"
    /\ LET k == call[c]
           near == Neighbours(k.cur, k.up)
       IN  \/ near = {} /\ Return(c)
           \/ \E a \in near :
                call' = [call EXCEPT ![c] = [pc |-> "first", id |-> k.id, cur |-> k.cur,
                                             adj |-> a, adjOrder |-> group[a].order]]
    /\ UNCHANGED <<group, restored, disturbed>>

\* UPDATE device_groups SET sort_order = n WHERE id = g.
Placed(g, n) == IF group[g] = None THEN group ELSE [group EXCEPT ![g].order = n]

FirstUpdate(c) ==
    /\ call[c].pc = "first"
    /\ group' = Placed(call[c].id, call[c].adjOrder)
    /\ call' = [call EXCEPT ![c].pc = "second"]
    /\ UNCHANGED <<restored, disturbed>>

SecondUpdate(c) ==
    /\ call[c].pc = "second"
    /\ group' = Placed(call[c].adj, call[c].cur)
    /\ Return(c)
    /\ UNCHANGED <<restored, disturbed>>

\* DeleteGroup; the DELETE of its members before it is left out.
DeleteGroup(c, g) ==
    /\ call[c] = Idle /\ group[g] # None
    /\ group' = [group EXCEPT ![g] = None]
    /\ disturbed' = (disturbed \/ GivingZero(g))
    /\ restored' = <<>>
    /\ UNCHANGED call

\* Import: for each group of the file ListGroups, then an UPDATE of name and
\* colour, or INSERT OR IGNORE with the default place 0.  The SELECT for a group
\* is one step with what comes before it.
Importing(rest) == IF rest = <<>> THEN Idle
                   ELSE [pc |-> "import", rest |-> rest, found |-> group[Head(rest)] # None]

StartImport(c) ==
    /\ call[c] = Idle
    /\ \E file \in Files \ {<<>>} :
         /\ \A d \in Clients : call[d].pc = "insert" => call[d].id \notin Range(file)
         /\ call' = [call EXCEPT ![c] = Importing(file)]
         /\ restored' = IF Existing = {} /\ \A d \in Clients : call[d] = Idle
                        THEN file ELSE <<>>
    /\ UNCHANGED <<group, disturbed>>

InsertOrIgnore(g) ==
    IF group[g] # None THEN group
    ELSE [group EXCEPT ![g] = [order |-> 0, rowid |-> Highest("rowid") + 1]]

\* A disturbance: a group that was deleted between the UPDATEs of its move comes
\* back.
Reviving(g) == /\ group[g] = None
               /\ \E d \in Clients : call[d].pc = "second" /\ call[d].id = g

ImportGroup(c) ==
    /\ call[c].pc = "import"
    /\ Highest("rowid") < MaxOrder
    /\ LET g == Head(call[c].rest)
       IN  /\ group' = IF call[c].found THEN group ELSE InsertOrIgnore(g)
           /\ disturbed' = (disturbed \/ (~call[c].found /\ Reviving(g)))
    /\ call' = [call EXCEPT ![c] = Importing(Tail(call[c].rest))]
    /\ UNCHANGED restored

\* Faulty variant: the numbers go after the places that are taken.
NumberedAfter == [g \in Groups |-> IF group[g] # None /\ group[g].order = 0
                                   THEN [group[g] EXCEPT !.order = Highest("order") + group[g].rowid]
                                   ELSE group[g]]

\* Faulty variant: one number for all of them.
NumberedAlike == [g \in Groups |-> IF group[g] # None /\ group[g].order = 0
                                   THEN [group[g] EXCEPT !.order = Highest("order") + 1]
                                   ELSE group[g]]

\* The places a start leaves: rowid for the groups that have none.
Numbered == [g \in Groups |-> IF group[g] # None /\ group[g].order = 0
                              THEN [group[g] EXCEPT !.order = group[g].rowid] ELSE group[g]]

Collide(table) == \E g, h \in Existing : g # h /\ table[g].order = table[h].order

\* The process dies, whatever the requests have come to, and is started again.
\* A move cut in two, or a number that is taken, is a disturbance.
Restart ==
    /\ group' = Numbered
    /\ call' = [c \in Clients |-> Idle]
    /\ disturbed' = (disturbed \/ Collide(Numbered)
                               \/ \E c \in Clients : call[c].pc = "second")
    /\ restored' = <<>>

Next ==
    \/ \E c \in Clients :
         \/ \E g \in Groups : \/ CreateGroup(c, g) \/ DeleteGroup(c, g)
                              \/ \E up \in BOOLEAN : MoveGroup(c, g, up)
         \/ InsertGroup(c) \/ FindAdjacent(c) \/ FirstUpdate(c) \/ SecondUpdate(c)
         \/ StartImport(c) \/ ImportGroup(c)
    \/ Restart

Spec == Init /\ [][Next]_vars

-----------------------------------------------------------------------------

\* Type invariant.
TypeOK ==
    /\ group \in [Groups -> Rows \cup {None}]
    /\ call \in [Clients -> Calls]
    /\ restored \in Files
    /\ disturbed \in BOOLEAN

\* Groups without a place apart, no two groups have the same place, whatever
\* creates, moves, deletes, imports and deaths went on, until one of the
\* disturbances happened; a delete may overlap with a create or a move.
PlacesDistinct ==
    ~disturbed => \A g, h \in Existing :
                      g # h /\ Place(g) = Place(h) => Place(g) = 0

\* The page shows a list in which a new group comes last, a move exchanges two
\* neighbours, and nothing else changes the order of two groups.
L == INSTANCE GroupList WITH
         list <- Page,
         unplaced <- {g \in Existing : Place(g) = 0},
         trusted <- ~disturbed
ListSpec == L!Spec

\* A backup imported into an instance without groups shows the groups in the
\* order of the page it was taken from, once the instance has been restarted
\* ("Full JSON backup including groups", README.md).
RestoreKeepsOrder ==
    [][Restart /\ restored # <<>> /\ (\A c \in Clients : call[c] = Idle)
         => (ListGroups)' = restored]_vars

=============================================================================
