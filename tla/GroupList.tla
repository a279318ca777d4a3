----------------------------- MODULE GroupList -----------------------------
(***************************************************************************)
(* What the groups page promises: the groups form a list that is kept      *)
(* ("reorder groups ... order is persisted in the database",               *)
(* CHANGELOG.md), in which a new group comes last and the buttons exchange *)
(* two neighbours.  Two things are outside the promise: imported groups    *)
(* have no place of their own before the next start, and once `trusted` is *)
(* FALSE nothing is promised.                                              *)
(***************************************************************************)
EXTENDS SequencesExt

VARIABLES
    list,       \* the groups in the order of the page
    unplaced,   \* the imported groups that have no place yet
    trusted     \* nothing has happened that the promise excludes

lvars == <<list, unplaced, trusted>>

Init == list = <<>> /\ unplaced = {} /\ trusted = TRUE

AddLast(g) == /\ list' = Append(list, g)
              /\ UNCHANGED unplaced

Exchange == /\ unplaced = {}
            /\ \E i \in 1 .. Len(list) - 1 :
                 list' = [list EXCEPT ![i] = list[i + 1], ![i + 1] = list[i]]
            /\ UNCHANGED unplaced

TakeOut(g) == /\ \E i \in 1 .. Len(list) : list[i] = g /\ list' = RemoveAt(list, i)
              /\ unplaced' = unplaced \ {g}

\* The others keep their order, and the placed ones come after the new group.
Import(g) == /\ \E i \in 1 .. Len(list) + 1 :
                    /\ \A j \in 1 .. i - 1 : list[j] \in unplaced
                    /\ list' = InsertAt(list, i, g)
             /\ unplaced' = unplaced \cup {g}

\* While imported groups are unplaced, a move or a restart may give any order.
Reorder == /\ unplaced # {}
           /\ Len(list') = Len(list) /\ Range(list') = Range(list)
           /\ unplaced' \subseteq Range(list)

Next == \/ /\ trusted' = trusted
           /\ \/ \E g \in Range(list') \ Range(list) : AddLast(g) \/ Import(g)
              \/ \E g \in Range(list) \ Range(list') : TakeOut(g)
              \/ Exchange \/ Reorder
        \/ ~trusted'

Spec == Init /\ [][Next]_lvars

=============================================================================
