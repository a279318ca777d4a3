---------------------------- MODULE GroupsSafety ----------------------------
(***************************************************************************)
(* Safety of Groups, for any groups, clients and bounds: the types of its  *)
(* variables, the distinct places, the order a restored backup shows, and  *)
(* that the page is the list of GroupList.                                 *)
(***************************************************************************)
EXTENDS Groups, FiniteSetTheorems, FunctionTheorems, SequenceTheorems, TLAPS

-----------------------------------------------------------------------------
(* ORDER BY: any finite set of groups has exactly one sorted sequence.       *)

\* A group with its place.
At(place, g) == <<place[g], g>>

Precedes(place, g, h) == Earlier(At(place, g), At(place, h))

IsSortingOf(s, S, place) ==
    /\ s \in [1 .. Cardinality(S) -> S]
    /\ \A i, j \in 1 .. Cardinality(S) : i < j => Precedes(place, s[i], s[j])

\* What comes before x, and x's number in the sorted sequence.
Below(S, place, x) == {y \in S : Precedes(place, y, x)}
Rank(S, place, x) == Cardinality(Below(S, place, x)) + 1

LEMMA PrecedingIsStrictOrder ==
    ASSUME NEW S \in SUBSET Nat, NEW place \in [S -> Nat]
    PROVE  /\ \A x \in S : ~Precedes(place, x, x)
           /\ \A x, y \in S : x # y => Precedes(place, x, y) \/ Precedes(place, y, x)
           /\ \A x, y, z \in S : Precedes(place, x, y) /\ Precedes(place, y, z)
                                   => Precedes(place, x, z)
BY DEF Precedes, Earlier, At

LEMMA BelowFacts ==
    ASSUME NEW S \in SUBSET Nat, IsFiniteSet(S), NEW place \in [S -> Nat], NEW x \in S
    PROVE  /\ IsFiniteSet(Below(S, place, x)) /\ Cardinality(Below(S, place, x)) \in Nat
           /\ Rank(S, place, x) \in 1 .. Cardinality(S)
<1>1. Below(S, place, x) \subseteq S \ {x}
  BY PrecedingIsStrictOrder DEF Below
<1>2. /\ IsFiniteSet(S \ {x}) /\ Cardinality(S \ {x}) = Cardinality(S) - 1
      /\ Cardinality(S) \in Nat
  BY FS_RemoveElement, FS_CardinalityType
<1>3. /\ IsFiniteSet(Below(S, place, x)) /\ Cardinality(Below(S, place, x)) \in Nat
      /\ Cardinality(Below(S, place, x)) <= Cardinality(S \ {x})
  BY <1>1, <1>2, FS_Subset, FS_CardinalityType
<1> QED BY <1>2, <1>3 DEF Rank

LEMMA RankIsMonotonic ==
    ASSUME NEW S \in SUBSET Nat, IsFiniteSet(S), NEW place \in [S -> Nat],
           NEW x \in S, NEW y \in S, Precedes(place, x, y)
    PROVE  Rank(S, place, x) < Rank(S, place, y)
<1>1. Below(S, place, x) \subseteq Below(S, place, y)
  BY PrecedingIsStrictOrder DEF Below
<1>2. Below(S, place, x) # Below(S, place, y)
  BY PrecedingIsStrictOrder DEF Below
<1>3. /\ Cardinality(Below(S, place, x)) <= Cardinality(Below(S, place, y))
      /\ Cardinality(Below(S, place, x)) # Cardinality(Below(S, place, y))
  BY <1>1, <1>2, BelowFacts, FS_Subset
<1> QED BY <1>3, BelowFacts DEF Rank

LEMMA RankIsInjective ==
    ASSUME NEW S \in SUBSET Nat, IsFiniteSet(S), NEW place \in [S -> Nat],
           NEW x \in S, NEW y \in S, Rank(S, place, x) = Rank(S, place, y)
    PROVE  x = y
<1>1. Rank(S, place, x) \in Nat
  BY BelowFacts
<1>2. ~Precedes(place, x, y)
  BY <1>1, RankIsMonotonic
<1>3. ~Precedes(place, y, x)
  BY <1>1, RankIsMonotonic
<1> QED BY <1>2, <1>3, PrecedingIsStrictOrder

LEMMA SortingExists ==
    ASSUME NEW S \in SUBSET Nat, IsFiniteSet(S), NEW place \in [S -> Nat]
    PROVE  \E s : IsSortingOf(s, S, place)
<1> DEFINE n == Cardinality(S)
           r == [x \in S |-> Rank(S, place, x)]
           s == [i \in 1 .. n |-> CHOOSE x \in S : r[x] = i]
<1>1. n \in Nat /\ IsFiniteSet(1 .. n) /\ Cardinality(1 .. n) = n
  <2>1. n \in Nat
    BY FS_CardinalityType
  <2> QED BY <2>1, FS_Interval
<1>2. r \in [S -> 1 .. n]
  BY BelowFacts
<1>3. \A x, y \in S : r[x] = r[y] => x = y
  <2> SUFFICES ASSUME NEW x \in S, NEW y \in S, r[x] = r[y], x # y PROVE FALSE
    OBVIOUS
  <2>1. r[x] < r[y] \/ r[y] < r[x]
    BY PrecedingIsStrictOrder, RankIsMonotonic
  <2> HIDE DEF r
  <2> QED BY <1>1, <1>2, <2>1
<1> HIDE DEF r, n
<1>4. r \in Injection(S, 1 .. n)
  BY <1>2, <1>3 DEF Injection, IsInjective
<1>5. r \in Surjection(S, 1 .. n)
  BY <1>1, <1>4, FS_Injection DEF n
<1>6. \A i \in 1 .. n : s[i] \in S /\ r[s[i]] = i
  BY <1>5 DEF Surjection
<1>7. s \in [1 .. n -> S]
  BY <1>6
<1>8. ASSUME NEW i \in 1 .. n, NEW j \in 1 .. n, i < j PROVE Precedes(place, s[i], s[j])
  <2>1. s[i] # s[j] /\ ~(r[s[j]] < r[s[i]])
    BY <1>1, <1>6, <1>8
  <2>2. ~Precedes(place, s[j], s[i])
    BY <1>6, <2>1, RankIsMonotonic DEF r
  <2> HIDE DEF s
  <2> QED BY <1>6, <2>1, <2>2, PrecedingIsStrictOrder
<1> HIDE DEF s
<1> QED BY <1>7, <1>8 DEF IsSortingOf, n

\* In a sorted sequence everything stands where its rank says.
LEMMA SortingIsByRank ==
    ASSUME NEW S \in SUBSET Nat, IsFiniteSet(S), NEW place \in [S -> Nat],
           NEW s, IsSortingOf(s, S, place), NEW i \in 1 .. Cardinality(S)
    PROVE  Rank(S, place, s[i]) = i
<1> DEFINE n == Cardinality(S)
<1>1. n \in Nat /\ IsFiniteSet(1 .. n) /\ Cardinality(1 .. n) = n
  <2>1. n \in Nat
    BY FS_CardinalityType
  <2> QED BY <2>1, FS_Interval
<1>2. s \in [1 .. n -> S] /\ \A j, k \in 1 .. n : j < k => Precedes(place, s[j], s[k])
  BY DEF IsSortingOf
<1>8. /\ \A x \in S : ~Precedes(place, x, x)
      /\ \A x, y \in S : Precedes(place, x, y) => ~Precedes(place, y, x)
  BY PrecedingIsStrictOrder
<1> HIDE DEF n
<1>3. \A j, k \in 1 .. n : s[j] = s[k] => j = k
  <2> SUFFICES ASSUME NEW j \in 1 .. n, NEW k \in 1 .. n, j # k PROVE s[j] # s[k]
    OBVIOUS
  <2>1. s[j] \in S /\ s[k] \in S /\ (j < k \/ k < j)
    BY <1>1, <1>2
  <2>2. Precedes(place, s[j], s[k]) \/ Precedes(place, s[k], s[j])
    BY <1>2, <2>1
  <2> QED BY <1>8, <2>1, <2>2
<1>4. s \in Surjection(1 .. n, S)
  BY <1>1, <1>2, <1>3, FS_Injection DEF n, Injection, IsInjective
<1>5. \A j \in 1 .. n : Precedes(place, s[j], s[i]) <=> j < i
  <2> SUFFICES ASSUME NEW j \in 1 .. n PROVE Precedes(place, s[j], s[i]) <=> j < i
    OBVIOUS
  <2>1. s[j] \in S /\ s[i] \in S /\ i \in 1 .. n
    BY <1>2 DEF n
  <2>2. CASE j < i
    BY <1>2, <2>1, <2>2
  <2>3. CASE j = i
    <3>1. ~Precedes(place, s[j], s[i])
      BY <1>8, <2>1, <2>3
    <3>2. ~(j < i)
      BY <1>1, <2>1, <2>3
    <3> QED BY <3>1, <3>2
  <2>4. CASE i < j
    <3>1. Precedes(place, s[i], s[j])
      BY <1>2, <2>1, <2>4
    <3>2. ~Precedes(place, s[j], s[i])
      BY <1>8, <2>1, <3>1
    <3>3. ~(j < i)
      BY <1>1, <2>1, <2>4
    <3> QED BY <3>2, <3>3
  <2> QED BY <1>1, <2>1, <2>2, <2>3, <2>4
<1> DEFINE b == [j \in 1 .. i - 1 |-> s[j]]
<1>6. b \in Bijection(1 .. i - 1, Below(S, place, s[i]))
  <2>1. b \in [1 .. i - 1 -> Below(S, place, s[i])]
    BY <1>1, <1>2, <1>5 DEF Below, n
  <2>2. \A j, k \in 1 .. i - 1 : b[j] = b[k] => j = k
    BY <1>1, <1>3 DEF n
  <2>3. ASSUME NEW y \in Below(S, place, s[i]) PROVE \E j \in 1 .. i - 1 : b[j] = y
    <3>1. PICK j \in 1 .. n : s[j] = y
      BY <1>4 DEF Surjection, Below
    <3>2. j \in 1 .. i - 1
      BY <1>1, <1>5, <3>1 DEF Below
    <3> QED BY <3>1, <3>2
  <2> HIDE DEF b
  <2> QED BY <2>1, <2>2, <2>3 DEF Bijection, Injection, Surjection, IsInjective
<1>7. Cardinality(Below(S, place, s[i])) = i - 1
  <2>1. i - 1 \in Nat
    BY <1>1 DEF n
  <2>3. IsFiniteSet(1 .. i - 1) /\ Cardinality(1 .. i - 1) = i - 1
    BY <2>1, FS_Interval
  <2>2. ExistsBijection(1 .. i - 1, Below(S, place, s[i]))
    BY <1>6 DEF ExistsBijection
  <2> QED BY <2>2, <2>3, FS_Bijection
<1> QED BY <1>1, <1>7 DEF Rank, n

LEMMA SortingIsUnique ==
    ASSUME NEW S \in SUBSET Nat, IsFiniteSet(S), NEW place \in [S -> Nat],
           NEW s, IsSortingOf(s, S, place), NEW t, IsSortingOf(t, S, place)
    PROVE  t = s
<1>1. s \in [1 .. Cardinality(S) -> S] /\ t \in [1 .. Cardinality(S) -> S]
  BY DEF IsSortingOf
<1>2. ASSUME NEW i \in 1 .. Cardinality(S) PROVE s[i] = t[i]
  <2>1. Rank(S, place, s[i]) = i /\ Rank(S, place, t[i]) = i
    BY SortingIsByRank
  <2>2. s[i] \in S /\ t[i] \in S
    BY <1>1
  <2> QED BY <2>1, <2>2, RankIsInjective
<1>3. /\ s = [i \in 1 .. Cardinality(S) |-> s[i]]
      /\ t = [i \in 1 .. Cardinality(S) |-> t[i]]
  BY <1>1
<1>4. [i \in 1 .. Cardinality(S) |-> s[i]] = [i \in 1 .. Cardinality(S) |-> t[i]]
  BY <1>2
<1> QED BY <1>3, <1>4

\* The rows of an ORDER BY, their number and what comes before one of them.
Lines(S, place) == {At(place, g) : g \in S}

LEMMA RowFacts ==
    ASSUME NEW S \in SUBSET Nat, IsFiniteSet(S), NEW place \in [S -> Nat]
    PROVE  /\ Cardinality(Lines(S, place)) = Cardinality(S)
           /\ \A g \in S : Cardinality(Before(Lines(S, place), At(place, g)))
                             = Cardinality(Below(S, place, g))
<1>1. ASSUME NEW T \in SUBSET S
      PROVE  Cardinality({At(place, g) : g \in T}) = Cardinality(T)
  <2> DEFINE f == [g \in T |-> At(place, g)]
  <2>1. f \in Bijection(T, {At(place, g) : g \in T})
    BY DEF Bijection, Injection, Surjection, IsInjective, At
  <2>2. IsFiniteSet(T)
    BY FS_Subset
  <2>3. ExistsBijection(T, {At(place, g) : g \in T})
    BY <2>1 DEF ExistsBijection
  <2> QED BY <2>2, <2>3, FS_Bijection
<1>2. Cardinality(Lines(S, place)) = Cardinality(S)
  BY <1>1 DEF Lines
<1>3. ASSUME NEW g \in S
      PROVE  Cardinality(Before(Lines(S, place), At(place, g))) = Cardinality(Below(S, place, g))
  <2>1. Before(Lines(S, place), At(place, g)) = {At(place, h) : h \in Below(S, place, g)}
    BY DEF Before, Lines, Below, Precedes
  <2>2. Below(S, place, g) \in SUBSET S
    BY DEF Below
  <2> QED BY <1>1, <2>1, <2>2
<1> QED BY <1>2, <1>3

\* What ORDER BY returns is sorted, and what is sorted is what ORDER BY returns.
LEMMA InOrderIsSorting ==
    ASSUME NEW S \in SUBSET Nat, IsFiniteSet(S), NEW place \in [S -> Nat]
    PROVE  IsSortingOf(InOrder(Lines(S, place)), S, place)
<1>1. PICK s : IsSortingOf(s, S, place)
  BY SortingExists
<1>2. ASSUME NEW i \in 1 .. Cardinality(S)
      PROVE  (CHOOSE r \in Lines(S, place) : Cardinality(Before(Lines(S, place), r)) = i - 1)
               = At(place, s[i])
  <2>1. s[i] \in S /\ Rank(S, place, s[i]) = i
    <3>1. s[i] \in S
      BY <1>1 DEF IsSortingOf
    <3> QED BY <1>1, <3>1, SortingIsByRank
  <2>2. /\ At(place, s[i]) \in Lines(S, place)
        /\ Cardinality(Before(Lines(S, place), At(place, s[i]))) = i - 1
    <3>1. Cardinality(Below(S, place, s[i])) \in Nat
      BY <2>1, BelowFacts
    <3>2. Cardinality(Below(S, place, s[i])) = i - 1
      BY <2>1, <3>1 DEF Rank
    <3> QED BY <2>1, <3>2, RowFacts DEF Lines
  <2>3. ASSUME NEW r \in Lines(S, place), Cardinality(Before(Lines(S, place), r)) = i - 1
        PROVE  r = At(place, s[i])
    <3>1. PICK x \in S : r = At(place, x)
      BY DEF Lines
    <3>2. Cardinality(Below(S, place, x)) = i - 1
      BY <2>3, <3>1, RowFacts
    <3>3. Rank(S, place, x) = i
      BY <3>2 DEF Rank
    <3>4. x = s[i]
      BY <2>1, <3>3, RankIsInjective
    <3> QED BY <3>1, <3>4
  <2> QED BY <2>2, <2>3
<1>3. InOrder(Lines(S, place)) = [i \in 1 .. Cardinality(S) |-> s[i]]
  <2>1. \A i \in 1 .. Cardinality(S) : At(place, s[i])[2] = s[i]
    BY DEF At
  <2>2. Cardinality(Lines(S, place)) = Cardinality(S)
    BY RowFacts
  <2>3. InOrder(Lines(S, place))
          = [i \in 1 .. Cardinality(S) |->
              (CHOOSE r \in Lines(S, place) : Cardinality(Before(Lines(S, place), r)) = i - 1)[2]]
    BY <2>2 DEF InOrder
  <2> QED BY <1>2, <2>1, <2>3
<1>4. [i \in 1 .. Cardinality(S) |-> s[i]] = s
  BY <1>1 DEF IsSortingOf
<1> QED BY <1>1, <1>3, <1>4

LEMMA SortingIsInOrder ==
    ASSUME NEW S \in SUBSET Nat, IsFiniteSet(S), NEW place \in [S -> Nat],
           NEW s, IsSortingOf(s, S, place)
    PROVE  InOrder(Lines(S, place)) = s
BY InOrderIsSorting, SortingIsUnique

\* The facts about the page that the steps need.
LEMMA SortingFacts ==
    ASSUME NEW S \in SUBSET Nat, IsFiniteSet(S), NEW place \in [S -> Nat],
           NEW s, IsSortingOf(s, S, place)
    PROVE  /\ s \in Seq(S) /\ s \in Seq(Nat) /\ Len(s) = Cardinality(S) /\ Len(s) \in Nat
           /\ DOMAIN s = 1 .. Len(s) /\ Range(s) = S
           /\ \A i, j \in 1 .. Len(s) : /\ i < j => Precedes(place, s[i], s[j])
                                        /\ s[i] = s[j] => i = j
           /\ \A x \in S : \E i \in 1 .. Len(s) : s[i] = x
<1> DEFINE n == Cardinality(S)
<1>1. n \in Nat
  BY FS_CardinalityType
<1>2. s \in [1 .. n -> S] /\ \A i, j \in 1 .. n : i < j => Precedes(place, s[i], s[j])
  BY DEF IsSortingOf
<1>3. \A i, j \in 1 .. n : s[i] = s[j] => i = j
  BY SortingIsByRank
<1>4. s \in Surjection(1 .. n, S)
  <2>1. s \in Injection(1 .. n, S)
    BY <1>2, <1>3 DEF Injection, IsInjective
  <2>2. IsFiniteSet(1 .. n) /\ Cardinality(1 .. n) = n
    BY <1>1, FS_Interval
  <2> QED BY <2>1, <2>2, FS_Injection
<1>5. \A x \in S : \E i \in 1 .. n : s[i] = x
  BY <1>4 DEF Surjection
<1> HIDE DEF n
<1>6. s \in Seq(S) /\ s \in Seq(Nat) /\ Len(s) = n
  <2>1. s \in [1 .. n -> Nat]
    BY <1>2
  <2>2. s \in Seq(S) /\ s \in Seq(Nat)
    BY <1>1, <1>2, <2>1, SeqDef
  <2>3. DOMAIN s = 1 .. n /\ DOMAIN s = 1 .. Len(s) /\ Len(s) \in Nat
    BY <1>2, <2>2, LenProperties
  <2> QED BY <1>1, <2>2, <2>3
<1>7. Range(s) = S
  BY <1>2, <1>5 DEF Range
<1> QED BY <1>1, <1>2, <1>3, <1>5, <1>6, <1>7 DEF n

-----------------------------------------------------------------------------
(* Types.                                                                   *)

LEMMA RowsAreNoNone == \A r \in Rows : r # None /\ r.order \in 0 .. MaxOrder /\ r.rowid \in 1 .. MaxOrder
BY GroupsAssumption DEF GroupsAssumption, Rows

LEMMA ExistingFacts ==
    ASSUME TypeOK
    PROVE  /\ Existing \in SUBSET Nat /\ Existing \subseteq Groups /\ IsFiniteSet(Existing)
           /\ \A g \in Existing : /\ group[g] \in Rows
                                  /\ group[g].order \in 0 .. MaxOrder
                                  /\ group[g].rowid \in 1 .. MaxOrder
<1>1. Existing \subseteq Groups
  BY DEF Existing
<1>2. IsFiniteSet(Existing) /\ Existing \in SUBSET Nat
  BY <1>1, GroupsAssumption, FS_Subset DEF GroupsAssumption
<1>3. \A g \in Existing : group[g] \in Rows
  BY DEF TypeOK, Existing
<1> QED BY <1>1, <1>2, <1>3, RowsAreNoNone

\* The highest value of a column, which the last of a sorted sequence has.
LEMMA HighestFacts ==
    ASSUME TypeOK, NEW field \in {"order", "rowid"}
    PROVE  /\ Highest(field) \in 0 .. MaxOrder
           /\ \A g \in Existing : group[g][field] <= Highest(field)
           /\ Existing = {} => Highest(field) = 0
           /\ Existing # {} => \E g \in Existing : group[g][field] = Highest(field)
<1>1. \A g \in Existing : group[g][field] \in 0 .. MaxOrder
  <2>1. CASE field = "order"
    BY <2>1, ExistingFacts
  <2>2. CASE field = "rowid"
    <3>1. \A g \in Existing : group[g].rowid \in 0 .. MaxOrder
      BY ExistingFacts, GroupsAssumption DEF GroupsAssumption
    <3> QED BY <2>2, <3>1
  <2> QED BY <2>1, <2>2
<1>2. CASE Existing = {}
  BY <1>2, GroupsAssumption DEF Highest, GroupsAssumption
<1>3. CASE Existing # {}
  <2> DEFINE place == [g \in Existing |-> group[g][field]]
             values == {group[g][field] : g \in Existing}
  <2>1. place \in [Existing -> Nat]
    BY <1>1
  <2>2. Existing \in SUBSET Nat /\ IsFiniteSet(Existing)
    BY ExistingFacts
  <2>3. PICK s : IsSortingOf(s, Existing, place)
    BY <2>1, <2>2, SortingExists
  <2> HIDE DEF place
  <2>4. /\ Len(s) \in Nat /\ s \in Seq(Existing)
        /\ \A i, j \in 1 .. Len(s) : i < j => Precedes(place, s[i], s[j])
        /\ \A x \in Existing : \E i \in 1 .. Len(s) : s[i] = x
    BY <2>1, <2>2, <2>3, SortingFacts
  <2> DEFINE n == Len(s)
  <2>5. n \in 1 .. n /\ s[n] \in Existing
    <3>1. n \in 1 .. n
      BY <1>3, <2>4
    <3> QED BY <2>4, <3>1
  <2> HIDE DEF n
  <2>6. \A g \in Existing : place[g] <= place[s[n]]
    <3> SUFFICES ASSUME NEW g \in Existing PROVE place[g] <= place[s[n]]
      OBVIOUS
    <3>1. PICK i \in 1 .. n : s[i] = g
      BY <2>4 DEF n
    <3>2. place[g] \in Nat /\ place[s[n]] \in Nat
      BY <2>1, <2>5
    <3>3. CASE i = n
      BY <3>1, <3>2, <3>3
    <3>4. CASE i # n
      <4>1. i < n
        BY <2>4, <3>4 DEF n
      <4>2. Precedes(place, g, s[n])
        BY <2>4, <2>5, <3>1, <4>1 DEF n
      <4> QED BY <3>2, <4>2 DEF Precedes, At, Earlier
    <3> QED BY <3>3, <3>4
  <2>7. place[s[n]] \in values /\ \A g \in Existing : group[g][field] <= place[s[n]]
    BY <2>5, <2>6 DEF place
  <2>8. Highest(field) \in values /\ \A g \in Existing : group[g][field] <= Highest(field)
    BY <1>3, <2>7 DEF Highest
  <2> QED BY <1>1, <1>3, <2>8
<1> QED BY <1>2, <1>3

LEMMA FileFacts ==
    /\ <<>> \in Files
    /\ \A f \in Files \ {<<>>} : /\ Head(f) \in Groups /\ Tail(f) \in Files
                                 /\ f \in Seq(Groups) /\ Head(f) = f[1]
                                 /\ Range(f) = {Head(f)} \cup Range(Tail(f))
                                 /\ Head(f) \notin Range(Tail(f))
<1>1. \A f : f \in Files <=> /\ \E m \in 0 .. MaxFile : f \in [1 .. m -> Groups]
                             /\ \A i, j \in DOMAIN f : f[i] = f[j] => i = j
  BY DEF Files, BoundedSeq, SeqOf, IsInjective
<1>2. <<>> \in Files
  <2>1. <<>> \in [1 .. 0 -> Groups] /\ 0 \in 0 .. MaxFile /\ DOMAIN <<>> = {}
    BY GroupsAssumption DEF GroupsAssumption
  <2> QED BY <1>1, <2>1
<1>3. ASSUME NEW f \in Files, f # <<>>
      PROVE  /\ Head(f) \in Groups /\ Tail(f) \in Files /\ f \in Seq(Groups) /\ Head(f) = f[1]
             /\ Range(f) = {Head(f)} \cup Range(Tail(f)) /\ Head(f) \notin Range(Tail(f))
  <2>1. PICK m \in 0 .. MaxFile : f \in [1 .. m -> Groups]
    BY <1>1
  <2>2. m \in Nat /\ MaxFile \in Nat
    BY GroupsAssumption DEF GroupsAssumption
  <2>3. f \in Seq(Groups)
    BY <2>1, <2>2, SeqDef
  <2>4. Len(f) = m /\ DOMAIN f = 1 .. m
    BY <2>1, <2>2, <2>3, LenProperties
  <2>5. m # 0
    BY <1>3, <2>3, <2>4, EmptySeq
  <2>6. /\ Tail(f) \in Seq(Groups) /\ Len(Tail(f)) = m - 1
        /\ \A i \in 1 .. m - 1 : Tail(f)[i] = f[i + 1]
        /\ Head(f) \in Groups
    BY <1>3, <2>3, <2>4, HeadTailProperties
  <2>7. Tail(f) \in [1 .. m - 1 -> Groups] /\ DOMAIN Tail(f) = 1 .. m - 1
    BY <2>6, LenProperties
  <2>8. Head(f) = f[1]
    BY <2>3 DEF Head
  <2>9. \A i, j \in 1 .. m : f[i] = f[j] => i = j
    BY <1>1, <2>4
  <2>10. Tail(f) \in Files
    <3>1. \A i, j \in 1 .. m - 1 : Tail(f)[i] = Tail(f)[j] => i = j
      BY <2>2, <2>6, <2>9
    <3>2. m - 1 \in 0 .. MaxFile
      BY <2>1, <2>2, <2>5
    <3> QED BY <1>1, <2>7, <3>1, <3>2
  <2>11. Range(f) = {f[1]} \cup Range(Tail(f))
    <3>1. Range(f) = {f[i] : i \in 1 .. m} /\ Range(Tail(f)) = {f[i + 1] : i \in 1 .. m - 1}
      BY <2>4, <2>6, <2>7 DEF Range
    <3>2. \A i \in 1 .. m : i = 1 \/ (i - 1 \in 1 .. m - 1 /\ i = (i - 1) + 1)
      BY <2>2
    <3>3. 1 \in 1 .. m /\ \A i \in 1 .. m - 1 : i + 1 \in 1 .. m
      BY <2>2, <2>5
    <3> QED BY <3>1, <3>2, <3>3
  <2>12. f[1] \notin Range(Tail(f))
    <3>1. Range(Tail(f)) = {f[i + 1] : i \in 1 .. m - 1}
      BY <2>6, <2>7 DEF Range
    <3>2. \A i \in 1 .. m - 1 : i + 1 \in 1 .. m /\ i + 1 # 1
      BY <2>2
    <3>3. 1 \in 1 .. m
      BY <2>2, <2>5
    <3> QED BY <2>9, <3>1, <3>2, <3>3
  <2> QED BY <2>3, <2>6, <2>8, <2>10, <2>11, <2>12
<1> QED BY <1>2, <1>3

LEMMA ImportingIsCall ==
    ASSUME TypeOK, NEW f \in Files
    PROVE  /\ Importing(f) \in Calls
           /\ f = <<>> => Importing(f) = Idle
           /\ f # <<>> => Importing(f).pc = "import" /\ Importing(f).rest = f
           /\ f # <<>> => Importing(f).found = (group[Head(f)] # None)
BY DEF Importing, Calls, Idle

LEMMA CallFacts ==
    ASSUME TypeOK, NEW c \in Clients
    PROVE  /\ call[c].pc \in {"idle", "insert", "adjacent", "first", "second", "import"}
           /\ call[c].pc = "idle" <=> call[c] = Idle
           /\ call[c].pc = "insert" => /\ call[c].id \in Groups
                                       /\ call[c].order \in 1 .. MaxOrder
           /\ call[c].pc \in {"adjacent", "first", "second"} =>
                 /\ call[c].id \in Groups /\ call[c].cur \in 0 .. MaxOrder
           /\ call[c].pc = "adjacent" => call[c].up \in BOOLEAN
           /\ call[c].pc \in {"first", "second"} =>
                 /\ call[c].adj \in Groups /\ call[c].adjOrder \in 0 .. MaxOrder
                 /\ call[c] = [pc |-> call[c].pc, id |-> call[c].id, cur |-> call[c].cur,
                               adj |-> call[c].adj, adjOrder |-> call[c].adjOrder]
           /\ call[c].pc = "import" => /\ call[c].rest \in Files /\ call[c].rest # <<>>
                                       /\ call[c].found \in BOOLEAN
<1> DEFINE k == call[c]
<1>1. k \in Calls
  BY DEF TypeOK
<1> HIDE DEF k
<1>2. k.pc \in {"idle", "insert", "adjacent", "first", "second", "import"}
  BY <1>1 DEF Calls, Idle
<1>3. k.pc = "idle" <=> k = Idle
  BY <1>1 DEF Calls, Idle
<1>4. k.pc = "insert" => k.id \in Groups /\ k.order \in 1 .. MaxOrder
  BY <1>1 DEF Calls, Idle
<1>5. k.pc \in {"adjacent", "first", "second"} => k.id \in Groups /\ k.cur \in 0 .. MaxOrder
  BY <1>1 DEF Calls, Idle
<1>6. k.pc = "adjacent" => k.up \in BOOLEAN
  BY <1>1 DEF Calls, Idle
<1>7. k.pc \in {"first", "second"} =>
         /\ k.adj \in Groups /\ k.adjOrder \in 0 .. MaxOrder
         /\ k = [pc |-> k.pc, id |-> k.id, cur |-> k.cur,
                 adj |-> k.adj, adjOrder |-> k.adjOrder]
  BY <1>1 DEF Calls, Idle
<1>8. k.pc = "import" => k.rest \in Files /\ k.rest # <<>> /\ k.found \in BOOLEAN
  BY <1>1 DEF Calls, Idle
<1> QED BY <1>2, <1>3, <1>4, <1>5, <1>6, <1>7, <1>8 DEF k

\* A step that leaves the history variables to their types.
LEMMA WellTyped ==
    ASSUME TypeOK, group' \in [Groups -> Rows \cup {None}], call' \in [Clients -> Calls],
           restored' \in Files, disturbed' \in BOOLEAN
    PROVE  TypeOK'
BY DEF TypeOK

LEMMA CreateTypes ==
    ASSUME TypeOK, NEW c \in Clients, NEW g \in Groups, CreateGroup(c, g) PROVE TypeOK'
<1>1. NextPlace + 1 \in 1 .. MaxOrder
  BY HighestFacts, GroupsAssumption DEF CreateGroup, NextPlace, GroupsAssumption
<1>2. [pc |-> "insert", id |-> g, order |-> NextPlace + 1] \in Calls
  BY <1>1 DEF Calls
<1>3. restored' \in Files /\ disturbed' \in BOOLEAN
  BY FileFacts DEF CreateGroup, TypeOK, Overlapping
<1>4. call' \in [Clients -> Calls] /\ group' \in [Groups -> Rows \cup {None}]
  BY <1>2 DEF CreateGroup, TypeOK
<1> QED BY <1>3, <1>4, WellTyped

LEMMA InsertTypes ==
    ASSUME TypeOK, NEW c \in Clients, InsertGroup(c) PROVE TypeOK'
<1>1. [order |-> call[c].order, rowid |-> Highest("rowid") + 1] \in Rows
  <2>1. call[c].order \in 0 .. MaxOrder
    <3>1. call[c].pc = "insert"
      BY DEF InsertGroup
    <3>2. call[c].order \in 1 .. MaxOrder
      BY <3>1, CallFacts
    <3> QED BY <3>2, GroupsAssumption DEF GroupsAssumption
  <2>2. Highest("rowid") + 1 \in 1 .. MaxOrder
    BY HighestFacts, GroupsAssumption DEF InsertGroup, GroupsAssumption
  <2> QED BY <2>1, <2>2 DEF Rows
<1>2. group' \in [Groups -> Rows \cup {None}]
  BY <1>1, CallFacts DEF InsertGroup, TypeOK
<1>3. call' \in [Clients -> Calls]
  BY DEF InsertGroup, Return, TypeOK, Calls
<1>4. restored' \in Files /\ disturbed' \in BOOLEAN
  BY DEF InsertGroup, TypeOK
<1> QED BY <1>2, <1>3, <1>4, WellTyped

LEMMA MoveTypes ==
    ASSUME TypeOK, NEW c \in Clients, NEW g \in Groups, NEW up \in BOOLEAN, MoveGroup(c, g, up)
    PROVE  TypeOK'
<1>1. group[g].order \in 0 .. MaxOrder
  BY ExistingFacts DEF MoveGroup, Existing
<1>2. [pc |-> "adjacent", id |-> g, cur |-> group[g].order, up |-> up] \in Calls
  BY <1>1 DEF Calls
<1>3. restored' \in Files /\ disturbed' \in BOOLEAN
  BY FileFacts DEF MoveGroup, TypeOK, Overlapping
<1>4. call' \in [Clients -> Calls] /\ group' \in [Groups -> Rows \cup {None}]
  BY <1>2 DEF MoveGroup, TypeOK
<1> QED BY <1>3, <1>4, WellTyped

LEMMA FindTypes ==
    ASSUME TypeOK, NEW c \in Clients, FindAdjacent(c) PROVE TypeOK'
<1>1. group' \in [Groups -> Rows \cup {None}] /\ restored' \in Files /\ disturbed' \in BOOLEAN
  BY DEF FindAdjacent, TypeOK
<1>2. Idle \in Calls
  BY DEF Calls
<1>3. ASSUME NEW a \in Neighbours(call[c].cur, call[c].up)
      PROVE  [pc |-> "first", id |-> call[c].id, cur |-> call[c].cur,
              adj |-> a, adjOrder |-> group[a].order] \in Calls
  <2>1. a \in Existing
    BY <1>3 DEF Neighbours
  <2>2. a \in Groups /\ group[a].order \in 0 .. MaxOrder
    BY <2>1, ExistingFacts
  <2>3. call[c].id \in Groups /\ call[c].cur \in 0 .. MaxOrder
    BY CallFacts DEF FindAdjacent
  <2> QED BY <2>2, <2>3 DEF Calls
<1>4. call' \in [Clients -> Calls]
  BY <1>2, <1>3 DEF FindAdjacent, Return, TypeOK
<1> QED BY <1>1, <1>4, WellTyped

LEMMA PlacedTypes ==
    ASSUME TypeOK, NEW g \in Groups, NEW n \in 0 .. MaxOrder
    PROVE  /\ Placed(g, n) \in [Groups -> Rows \cup {None}]
           /\ \A h \in Groups : Placed(g, n)[h] # None <=> group[h] # None
           /\ \A h \in Groups \ {g} : Placed(g, n)[h] = group[h]
           /\ g \in Existing => Placed(g, n)[g].order = n
<1>1. CASE group[g] = None
  BY <1>1 DEF Placed, TypeOK, Existing
<1>2. CASE group[g] # None
  <2>1. group[g] \in Rows
    BY <1>2 DEF TypeOK
  <2>2. [group[g] EXCEPT !.order = n] \in Rows /\ [group[g] EXCEPT !.order = n].order = n
    BY <2>1 DEF Rows
  <2>3. Placed(g, n) = [group EXCEPT ![g] = [group[g] EXCEPT !.order = n]]
    BY <1>2 DEF Placed, TypeOK
  <2> QED BY <1>2, <2>2, <2>3, RowsAreNoNone DEF TypeOK
<1> QED BY <1>1, <1>2

LEMMA FirstTypes ==
    ASSUME TypeOK, NEW c \in Clients, FirstUpdate(c) PROVE TypeOK'
<1>1. group' \in [Groups -> Rows \cup {None}]
  BY CallFacts, PlacedTypes DEF FirstUpdate
<1>2. [call[c] EXCEPT !.pc = "second"] \in Calls
  <2>1. /\ call[c] = [pc |-> "first", id |-> call[c].id, cur |-> call[c].cur,
                      adj |-> call[c].adj, adjOrder |-> call[c].adjOrder]
        /\ call[c].id \in Groups /\ call[c].cur \in 0 .. MaxOrder
        /\ call[c].adj \in Groups /\ call[c].adjOrder \in 0 .. MaxOrder
    BY CallFacts DEF FirstUpdate
  <2>2. [call[c] EXCEPT !.pc = "second"]
          = [pc |-> "second", id |-> call[c].id, cur |-> call[c].cur,
             adj |-> call[c].adj, adjOrder |-> call[c].adjOrder]
    BY <2>1
  <2> QED BY <2>1, <2>2 DEF Calls
<1>3. call' \in [Clients -> Calls]
  BY <1>2 DEF FirstUpdate, TypeOK
<1>4. restored' \in Files /\ disturbed' \in BOOLEAN
  BY DEF FirstUpdate, TypeOK
<1> QED BY <1>1, <1>3, <1>4, WellTyped

LEMMA SecondTypes ==
    ASSUME TypeOK, NEW c \in Clients, SecondUpdate(c) PROVE TypeOK'
<1>1. group' \in [Groups -> Rows \cup {None}]
  BY CallFacts, PlacedTypes DEF SecondUpdate
<1>2. call' \in [Clients -> Calls]
  BY DEF SecondUpdate, Return, TypeOK, Calls
<1>3. restored' \in Files /\ disturbed' \in BOOLEAN
  BY DEF SecondUpdate, TypeOK
<1> QED BY <1>1, <1>2, <1>3, WellTyped

LEMMA DeleteTypes ==
    ASSUME TypeOK, NEW c \in Clients, NEW g \in Groups, DeleteGroup(c, g) PROVE TypeOK'
<1>1. restored' \in Files /\ disturbed' \in BOOLEAN
  BY FileFacts DEF DeleteGroup, TypeOK, GivingZero
<1>2. call' \in [Clients -> Calls] /\ group' \in [Groups -> Rows \cup {None}]
  BY DEF DeleteGroup, TypeOK
<1> QED BY <1>1, <1>2, WellTyped

LEMMA StartImportTypes ==
    ASSUME TypeOK, NEW c \in Clients, StartImport(c) PROVE TypeOK'
<1>1. PICK file \in Files \ {<<>>} :
         /\ call' = [call EXCEPT ![c] = Importing(file)]
         /\ restored' = IF Existing = {} /\ \A d \in Clients : call[d] = Idle
                        THEN file ELSE <<>>
  BY DEF StartImport
<1>2. call' \in [Clients -> Calls]
  BY <1>1, ImportingIsCall DEF TypeOK
<1>3. restored' \in Files
  BY <1>1, FileFacts
<1>4. group' \in [Groups -> Rows \cup {None}] /\ disturbed' \in BOOLEAN
  BY DEF StartImport, TypeOK
<1> QED BY <1>2, <1>3, <1>4, WellTyped

LEMMA ImportTypes ==
    ASSUME TypeOK, NEW c \in Clients, ImportGroup(c) PROVE TypeOK'
<1>1. /\ call[c].rest \in Files /\ call[c].rest # <<>> /\ call[c].found \in BOOLEAN
      /\ Head(call[c].rest) \in Groups /\ Tail(call[c].rest) \in Files
  BY CallFacts, FileFacts DEF ImportGroup
<1>2. [order |-> 0, rowid |-> Highest("rowid") + 1] \in Rows
  BY HighestFacts, GroupsAssumption DEF ImportGroup, Rows, GroupsAssumption
<1>3. InsertOrIgnore(Head(call[c].rest)) \in [Groups -> Rows \cup {None}]
  BY <1>1, <1>2 DEF InsertOrIgnore, TypeOK
<1>4. group' \in [Groups -> Rows \cup {None}]
  BY <1>3 DEF ImportGroup, TypeOK
<1>5. call' \in [Clients -> Calls]
  BY <1>1, ImportingIsCall DEF ImportGroup, TypeOK
<1>6. restored' \in Files /\ disturbed' \in BOOLEAN
  BY <1>1 DEF ImportGroup, TypeOK, Reviving
<1> QED BY <1>4, <1>5, <1>6, WellTyped

LEMMA NumberedFacts ==
    ASSUME TypeOK
    PROVE  /\ Numbered \in [Groups -> Rows \cup {None}]
           /\ \A g \in Groups : Numbered[g] # None <=> group[g] # None
           /\ \A g \in Existing : Numbered[g].order = IF group[g].order = 0
                                                      THEN group[g].rowid ELSE group[g].order
           /\ \A g \in Existing : Numbered[g].order # 0
<1>1. ASSUME NEW g \in Existing
      PROVE  /\ Numbered[g] \in Rows
             /\ Numbered[g].order = IF group[g].order = 0 THEN group[g].rowid ELSE group[g].order
             /\ Numbered[g].order # 0
  <2>1. /\ g \in Groups /\ group[g] # None /\ group[g] \in Rows
        /\ group[g].order \in 0 .. MaxOrder /\ group[g].rowid \in 1 .. MaxOrder
    BY ExistingFacts DEF Existing
  <2>2. CASE group[g].order = 0
    <3>1. Numbered[g] = [group[g] EXCEPT !.order = group[g].rowid]
      BY <2>1, <2>2 DEF Numbered
    <3>2. MaxOrder \in Nat
      BY GroupsAssumption DEF GroupsAssumption
    <3> QED BY <2>1, <2>2, <3>1, <3>2 DEF Rows
  <2>3. CASE group[g].order # 0
    <3>1. Numbered[g] = group[g]
      BY <2>1, <2>3 DEF Numbered
    <3> QED BY <2>1, <2>3, <3>1
  <2> QED BY <2>2, <2>3
<1>2. ASSUME NEW g \in Groups, group[g] = None PROVE Numbered[g] = None
  BY <1>2 DEF Numbered
<1>3. \A g \in Groups : Numbered[g] # None <=> group[g] # None
  BY <1>1, <1>2, RowsAreNoNone DEF Existing
<1>4. Numbered \in [Groups -> Rows \cup {None}]
  <2>1. Numbered = [g \in Groups |-> Numbered[g]]
    BY DEF Numbered
  <2>2. \A g \in Groups : Numbered[g] \in Rows \cup {None}
    BY <1>1, <1>2 DEF Existing
  <2> QED BY <2>1, <2>2
<1> QED BY <1>1, <1>3, <1>4

LEMMA RestartTypes == TypeOK /\ Restart => TypeOK'
<1> SUFFICES ASSUME TypeOK, Restart PROVE TypeOK'
  OBVIOUS
<1>1. group' \in [Groups -> Rows \cup {None}]
  BY NumberedFacts DEF Restart
<1>2. call' \in [Clients -> Calls]
  BY DEF Restart, Calls
<1>3. restored' \in Files /\ disturbed' \in BOOLEAN
  BY FileFacts DEF Restart, TypeOK, Collide
<1> QED BY <1>1, <1>2, <1>3, WellTyped

LEMMA TypeInvariant == TypeOK /\ [Next]_vars => TypeOK'
<1> SUFFICES ASSUME TypeOK, [Next]_vars PROVE TypeOK'
  OBVIOUS
<1>1. CASE UNCHANGED vars
  BY <1>1 DEF vars, TypeOK
<1>2. CASE Next
  BY <1>2, CreateTypes, InsertTypes, MoveTypes, FindTypes, FirstTypes, SecondTypes,
     DeleteTypes, StartImportTypes, ImportTypes, RestartTypes DEF Next
<1> QED BY <1>1, <1>2

\* Rows, calls, the restored page and the history keep their types, whatever
\* requests and restarts overlap.
THEOREM TypeCorrect == Spec => []TypeOK
<1>1. Init => TypeOK
  BY FileFacts DEF Init, TypeOK, Calls
<1> QED BY <1>1, TypeInvariant, PTL DEF Spec

-----------------------------------------------------------------------------
(* The inductive invariant of the distinct places.                          *)

\* The requests that create or move a group.
Busy(c) == call[c].pc \in {"insert", "adjacent", "first", "second"}

\* A group under creation comes after all others, and is in nobody's hands.
Reserved(k) == /\ group[k.id] = None
               /\ \A g \in Existing : group[g].order < k.order
               /\ \A c \in Clients : call[c].pc = "import" => k.id \notin Range(call[c].rest)

\* A place that was g's when a move began is g's, or 0: an import has brought g
\* back without a place; and if it is 0, g has not been deleted.
Keeps(g, n) == /\ g \in Existing => group[g].order \in {n, 0}
               /\ n = 0 => g \in Existing

\* Nobody else has place n.
Alone(G, n) == \A h \in Existing \ G : group[h].order = n => n = 0

\* Between the places that are exchanged there is nothing.
Neighbouring(m, n) == /\ m # n
                      /\ \A h \in Existing : ~(m < group[h].order /\ group[h].order < n)
                      /\ \A h \in Existing : ~(n < group[h].order /\ group[h].order < m)

Moving(k) ==
    /\ k.pc \in {"adjacent", "first"} => Keeps(k.id, k.cur) /\ Alone({k.id}, k.cur)
    /\ k.pc = "first" => Keeps(k.adj, k.adjOrder) /\ Alone({k.adj}, k.adjOrder)
    /\ k.pc = "second" =>
         /\ k.id \in Existing => group[k.id].order = k.adjOrder
         /\ k.cur = 0 => k.id \in Existing
         /\ k.adj # k.id => Keeps(k.adj, k.adjOrder)
         /\ Alone({k.id, k.adj}, k.cur) /\ Alone({k.id, k.adj}, k.adjOrder)
    /\ k.pc \in {"first", "second"} => /\ Neighbouring(k.cur, k.adjOrder)
                                       /\ k.adj = k.id => k.adjOrder = 0

\* Until a disturbance, one request at a time creates or moves a group.
OneAtATime == \A c, d \in Clients : Busy(c) /\ Busy(d) => c = d

Orderly == ~disturbed => /\ OneAtATime
                         /\ \A c \in Clients : /\ call[c].pc = "insert" => Reserved(call[c])
                                               /\ Moving(call[c])

\* What the induction step may assume: the invariant before the step, and that
\* no disturbance has happened after it.
Undisturbed == TypeOK /\ ~disturbed /\ OneAtATime /\ PlacesDistinct
               /\ \A c \in Clients : /\ call[c].pc = "insert" => Reserved(call[c])
                                     /\ Moving(call[c])

\* The moves of g that are between their two UPDATEs.
Movers(g) == {c \in Clients : call[c].pc = "second" /\ call[c].id = g}

LEMMA PlaceFacts ==
    ASSUME TypeOK
    PROVE  /\ \A g \in Existing : Place(g) \in 0 .. MaxOrder
           /\ \A g \in Groups : Movers(g) = {} => Place(g) = group[g].order
           /\ \A c \in Clients : OneAtATime /\ call[c].pc = "second"
                                   => Place(call[c].id) = call[c].cur
<1>1. ASSUME NEW g \in Existing PROVE Place(g) \in 0 .. MaxOrder
  <2>1. CASE Movers(g) = {}
    BY <2>1, ExistingFacts DEF Place, Movers
  <2>2. CASE Movers(g) # {}
    <3> DEFINE m == CHOOSE c \in Movers(g) : TRUE
    <3>1. Place(g) = call[m].cur
      BY <2>2 DEF Place, Movers
    <3>2. m \in Clients /\ call[m].pc = "second"
      BY <2>2 DEF Movers
    <3> HIDE DEF m
    <3> QED BY <3>1, <3>2, CallFacts
  <2> QED BY <2>1, <2>2
<1>2. \A g \in Groups : Movers(g) = {} => Place(g) = group[g].order
  BY DEF Place, Movers
<1>3. ASSUME NEW c \in Clients, OneAtATime, call[c].pc = "second"
      PROVE  Place(call[c].id) = call[c].cur
  <2>1. Movers(call[c].id) = {c}
    BY <1>3 DEF Movers, OneAtATime, Busy
  <2>2. (CHOOSE d \in Movers(call[c].id) : TRUE) = c
    BY <2>1
  <2> QED BY <2>1, <2>2 DEF Place, Movers
<1> QED BY <1>1, <1>2, <1>3

\* A place changes only with its group's row or its group's move.
LEMMA SamePlace ==
    ASSUME NEW g \in Groups, group'[g] = group[g], Movers(g)' = Movers(g),
           \A c \in Movers(g) : call'[c] = call[c]
    PROVE  Place(g)' = Place(g)
<1> DEFINE m == CHOOSE c \in Movers(g) : TRUE
<1>1. CASE Movers(g) = {}
  BY <1>1 DEF Place, Movers
<1>2. CASE Movers(g) # {}
  <2>1. Place(g) = call[m].cur
    BY <1>2 DEF Place, Movers
  <2>2. Place(g)' = call'[CHOOSE c \in Movers(g)' : TRUE].cur
    BY <1>2 DEF Place, Movers
  <2>3. call'[m] = call[m] /\ (CHOOSE c \in Movers(g)' : TRUE) = m
    BY <1>2
  <2> QED BY <2>1, <2>2, <2>3
<1> QED BY <1>1, <1>2

\* Whoever is busy is so alone.
LEMMA NobodyElse ==
    ASSUME TypeOK, OneAtATime, NEW c \in Clients, Busy(c)
    PROVE  \A d \in Clients \ {c} : ~Busy(d)
BY DEF OneAtATime

\* A step of c that leaves the table alone and neither begins nor ends the
\* second UPDATE leaves the places alone.
LEMMA PlacesStay ==
    ASSUME TypeOK, NEW c \in Clients, UNCHANGED group,
           \A d \in Clients \ {c} : call'[d] = call[d],
           call[c].pc # "second", call'[c].pc # "second"
    PROVE  Existing' = Existing /\ \A g \in Groups : Place(g)' = Place(g)
<1>1. \A g \in Groups : Movers(g)' = Movers(g) /\ c \notin Movers(g)
  BY DEF Movers
<1>2. \A g \in Groups : \A d \in Movers(g) : d \in Clients \ {c}
  BY <1>1 DEF Movers
<1> QED BY <1>1, <1>2, SamePlace DEF Existing

LEMMA DistinctStay ==
    ASSUME TypeOK, PlacesDistinct, ~disturbed, Existing' \subseteq Existing,
           \A g \in Existing : Place(g)' = Place(g)
    PROVE  PlacesDistinct'
BY DEF PlacesDistinct

LEMMA CreateOrder ==
    ASSUME Undisturbed, NEW c \in Clients, NEW g \in Groups, CreateGroup(c, g), ~disturbed'
    PROVE  Orderly' /\ PlacesDistinct'
<1>1. /\ TypeOK /\ UNCHANGED group /\ call[c].pc = "idle"
      /\ call'[c] = [pc |-> "insert", id |-> g, order |-> NextPlace + 1]
      /\ \A d \in Clients \ {c} : call'[d] = call[d] /\ ~Busy(d)
  BY CallFacts DEF CreateGroup, Undisturbed, TypeOK, Overlapping, Busy, Idle
<1>2. \A d \in Clients \ {c} : call'[d].pc # "insert" /\ Moving(call[d])'
  BY <1>1 DEF Busy, Moving
<1>3. Reserved(call[c])' /\ Moving(call[c])'
  <2>1. group[g] = None
    BY DEF CreateGroup, Fresh
  <2>2. \A h \in Existing : group[h].order < NextPlace + 1
    BY <1>1, HighestFacts, ExistingFacts DEF NextPlace
  <2>3. \A d \in Clients : call'[d].pc = "import" => g \notin Range(call'[d].rest)
    BY <1>1 DEF CreateGroup, Fresh
  <2> QED BY <1>1, <2>1, <2>2, <2>3 DEF Reserved, Existing, Moving
<1>4. OneAtATime'
  BY <1>1 DEF OneAtATime, Busy
<1>5. PlacesDistinct'
  BY <1>1, PlacesStay, DistinctStay DEF Undisturbed, Existing
<1> QED BY <1>2, <1>3, <1>4, <1>5 DEF Orderly

LEMMA InsertOrder ==
    ASSUME Undisturbed, NEW c \in Clients, NEW k \in Calls, k = call[c], InsertGroup(c)
    PROVE  /\ Orderly' /\ PlacesDistinct'
           /\ Existing' = Existing \cup {k.id} /\ k.id \in Groups \ Existing
           /\ \A h \in Existing : Place(h)' = Place(h) /\ Place(h) < Place(k.id)'
           /\ Place(k.id)' \in 1 .. MaxOrder
<1>1. /\ TypeOK /\ k.pc = "insert" /\ call'[c] = Idle
      /\ \A d \in Clients \ {c} : call'[d] = call[d]
  BY DEF InsertGroup, Undisturbed, TypeOK, Return
<1>2. k.id \in Groups /\ k.order \in 1 .. MaxOrder
  BY <1>1, CallFacts
<1>3. \A d \in Clients \ {c} : ~Busy(d)
  BY <1>1, NobodyElse DEF Undisturbed, Busy
<1>4. \A d \in Clients : call'[d].pc \notin {"insert", "adjacent", "first", "second"}
  BY <1>1, <1>3 DEF Busy, Idle
<1>5. OneAtATime' /\ Orderly'
  BY <1>4 DEF OneAtATime, Busy, Orderly, Moving
<1>6. \A h \in Groups : Movers(h) = {} /\ Movers(h)' = {}
  BY <1>1, <1>3, <1>4 DEF Movers, Busy
<1>7. k.id \notin Existing /\ \A h \in Existing : group[h].order < k.order
  BY <1>1 DEF Undisturbed, Reserved, Existing
<1>8. /\ group'[k.id] = [order |-> k.order, rowid |-> Highest("rowid") + 1]
      /\ \A h \in Groups \ {k.id} : group'[h] = group[h]
  BY <1>1, <1>2 DEF InsertGroup, TypeOK
<1>9. TypeOK'
  BY <1>1, InsertTypes
<1>10. Existing' = Existing \cup {k.id}
  <2>1. group'[k.id] # None
    <3>1. group'[k.id] \in [order : Nat, rowid : Nat]
      BY <1>1, <1>2, <1>8, HighestFacts, GroupsAssumption DEF GroupsAssumption
    <3> QED BY <3>1, GroupsAssumption DEF GroupsAssumption
  <2> QED BY <1>2, <1>8, <2>1 DEF Existing
<1>11. Place(k.id)' = k.order
  <2>1. Place(k.id)' = group'[k.id].order
    BY <1>2, <1>6 DEF Place, Movers
  <2> QED BY <1>8, <2>1
<1>12. \A h \in Existing : /\ Place(h)' = Place(h) /\ Place(h) = group[h].order
                           /\ Place(h) \in Nat /\ Place(h) < k.order
  <2> SUFFICES ASSUME NEW h \in Existing PROVE /\ Place(h)' = Place(h) /\ Place(h) = group[h].order
                                                   /\ Place(h) \in Nat /\ Place(h) < k.order
    OBVIOUS
  <2>1. h \in Groups \ {k.id}
    BY <1>7 DEF Existing
  <2>2. Place(h)' = group'[h].order /\ Place(h) = group[h].order
    BY <1>6, <2>1 DEF Place, Movers
  <2>3. group[h].order \in Nat /\ group[h].order < k.order
    BY <1>1, <1>7, ExistingFacts
  <2> QED BY <1>8, <2>1, <2>2, <2>3
<1>13. PlacesDistinct'
  <2> SUFFICES ASSUME NEW h \in Existing', NEW i \in Existing', h # i, Place(h)' = Place(i)'
               PROVE  Place(h)' = 0
    BY DEF PlacesDistinct
  <2>2. CASE h \in Existing /\ i \in Existing
    BY <1>12, <2>2 DEF Undisturbed, PlacesDistinct
  <2>3. CASE h = k.id \/ i = k.id
    BY <1>2, <1>10, <1>11, <1>12, <2>3
  <2> QED BY <1>10, <2>2, <2>3
<1> QED BY <1>2, <1>5, <1>7, <1>10, <1>11, <1>12, <1>13

LEMMA MoveOrder ==
    ASSUME Undisturbed, NEW c \in Clients, NEW g \in Groups, NEW up \in BOOLEAN,
           MoveGroup(c, g, up), ~disturbed'
    PROVE  Orderly' /\ PlacesDistinct'
<1>1. /\ TypeOK /\ UNCHANGED group /\ call[c].pc = "idle" /\ g \in Existing
      /\ call'[c] = [pc |-> "adjacent", id |-> g, cur |-> group[g].order, up |-> up]
      /\ \A d \in Clients \ {c} : call'[d] = call[d] /\ ~Busy(d)
  BY CallFacts DEF MoveGroup, Undisturbed, TypeOK, Overlapping, Busy, Idle, Existing
<1>2. \A d \in Clients \ {c} : call'[d].pc # "insert" /\ Moving(call[d])'
  BY <1>1 DEF Busy, Moving
<1>3. \A h \in Groups : Movers(h) = {}
  BY <1>1 DEF Movers, Busy
<1>4. \A h \in Existing \ {g} : group[h].order = group[g].order => group[g].order = 0
  BY <1>1, <1>3, PlaceFacts DEF Undisturbed, PlacesDistinct, Existing
<1>5. Moving(call[c])'
  BY <1>1, <1>4 DEF Moving, Keeps, Alone, Existing
<1>6. OneAtATime'
  BY <1>1 DEF OneAtATime, Busy
<1>7. PlacesDistinct'
  BY <1>1, PlacesStay, DistinctStay DEF Undisturbed, Existing
<1> QED BY <1>1, <1>2, <1>5, <1>6, <1>7 DEF Orderly

LEMMA FindOrder ==
    ASSUME Undisturbed, NEW c \in Clients, NEW k \in Calls, k = call[c], FindAdjacent(c)
    PROVE  /\ Orderly' /\ PlacesDistinct' /\ Existing' = Existing
           /\ \A g \in Groups : Place(g)' = Place(g)
<1>1. /\ TypeOK /\ UNCHANGED group /\ k.pc = "adjacent" /\ Busy(c) /\ Moving(k)
      /\ \A d \in Clients \ {c} : call'[d] = call[d]
  BY DEF FindAdjacent, Undisturbed, TypeOK, Return, Busy
<1>2. \A d \in Clients \ {c} : ~Busy(d)
  BY <1>1, NobodyElse DEF Undisturbed
<1>3. \A d \in Clients \ {c} : call'[d].pc # "insert" /\ Moving(call[d])'
  BY <1>1, <1>2 DEF Busy, Moving
<1>4. \A h \in Groups : Movers(h) = {}
  BY <1>1, <1>2 DEF Movers, Busy
<1>5. OneAtATime'
  BY <1>1, <1>2 DEF OneAtATime, Busy
<1>6. ASSUME call'[c].pc # "second"
      PROVE  PlacesDistinct' /\ Existing' = Existing /\ \A g \in Groups : Place(g)' = Place(g)
  BY <1>1, <1>6, PlacesStay, DistinctStay DEF Undisturbed, Existing
<1>7. CASE call'[c] = Idle
  <2>1. Moving(call[c])' /\ call'[c].pc = "idle"
    BY <1>7 DEF Moving, Idle
  <2>2. Orderly'
    BY <1>3, <1>5, <2>1 DEF Orderly
  <2> QED BY <1>6, <2>1, <2>2
<1>8. ASSUME NEW a \in Neighbours(k.cur, k.up), NEW n, n = group[a].order,
             call'[c] = [pc |-> "first", id |-> k.id, cur |-> k.cur, adj |-> a, adjOrder |-> n]
      PROVE  Orderly' /\ PlacesDistinct' /\ Existing' = Existing
             /\ \A g \in Groups : Place(g)' = Place(g)
  <2>1. /\ k.id \in Groups /\ k.cur \in 0 .. MaxOrder /\ k.up \in BOOLEAN
        /\ Keeps(k.id, k.cur) /\ Alone({k.id}, k.cur)
    BY <1>1, CallFacts DEF Moving
  <2>2. a \in Existing /\ n \in Nat /\ n = group[a].order
    BY <1>1, <1>8, ExistingFacts DEF Neighbours
  <2>3. k.cur # n /\ \A h \in Existing : /\ ~(k.cur < group[h].order /\ group[h].order < n)
                                         /\ ~(n < group[h].order /\ group[h].order < k.cur)
    <3>1. \A h \in Existing : group[h].order \in Nat
      BY <1>1, ExistingFacts
    <3>2. k.cur \in Nat
      BY <2>1
    <3>3. CASE k.up
      <4>1. n < k.cur /\ \A h \in Existing : group[h].order < k.cur => group[h].order <= n
        BY <1>8, <2>2, <3>3 DEF Neighbours
      <4> QED BY <2>2, <3>1, <3>2, <4>1
    <3>4. CASE ~k.up
      <4>1. n > k.cur /\ \A h \in Existing : group[h].order > k.cur => n <= group[h].order
        BY <1>8, <2>2, <3>4 DEF Neighbours
      <4> QED BY <2>2, <3>1, <3>2, <4>1
    <3> QED BY <2>1, <3>3, <3>4
  <2>4. a = k.id => n = 0
    BY <2>1, <2>2, <2>3 DEF Keeps
  <2>5. Keeps(a, n)
    BY <2>2 DEF Keeps
  <2>6. Alone({a}, n)
    BY <1>1, <1>4, <2>2, PlaceFacts DEF Alone, Undisturbed, PlacesDistinct, Existing
  <2>7. /\ Keeps(k.id, k.cur)' /\ Alone({k.id}, k.cur)' /\ Keeps(a, n)' /\ Alone({a}, n)'
        /\ Neighbouring(k.cur, n)'
    BY <1>1, <2>1, <2>3, <2>5, <2>6 DEF Keeps, Alone, Neighbouring, Existing
  <2>8. Moving(call[c])'
    BY <1>8, <2>4, <2>7 DEF Moving
  <2>9. Orderly'
    BY <1>3, <1>5, <1>8, <2>8 DEF Orderly
  <2> QED BY <1>6, <1>8, <2>9
<1>9. \/ call'[c] = Idle
      \/ \E a \in Neighbours(k.cur, k.up) :
           call'[c] = [pc |-> "first", id |-> k.id, cur |-> k.cur,
                       adj |-> a, adjOrder |-> group[a].order]
  BY DEF FindAdjacent, Return, Undisturbed, TypeOK
<1> QED BY <1>7, <1>8, <1>9

\* The first UPDATE: the group that moves has the place it counts with.
LEMMA FirstOrder ==
    ASSUME Undisturbed, NEW c \in Clients, NEW k \in Calls, k = call[c], FirstUpdate(c)
    PROVE  /\ Orderly' /\ PlacesDistinct' /\ Existing' = Existing
           /\ \A g \in Existing \ {k.id} : Place(g)' = Place(g)
           /\ k.id \in Existing => Place(k.id) \in {0, k.cur} /\ Place(k.id)' = k.cur
<1>1. /\ TypeOK /\ k.pc = "first" /\ Busy(c) /\ Moving(k)
      /\ \A d \in Clients \ {c} : call'[d] = call[d]
      /\ call'[c] = [k EXCEPT !.pc = "second"] /\ group' = Placed(k.id, k.adjOrder)
  BY DEF FirstUpdate, Undisturbed, TypeOK, Busy
<1>2. /\ k.id \in Groups /\ k.cur \in 0 .. MaxOrder
      /\ k.adj \in Groups /\ k.adjOrder \in 0 .. MaxOrder
      /\ call'[c].pc = "second" /\ call'[c].id = k.id /\ call'[c].cur = k.cur
      /\ call'[c].adj = k.adj /\ call'[c].adjOrder = k.adjOrder
  <2>1. /\ k = [pc |-> k.pc, id |-> k.id, cur |-> k.cur, adj |-> k.adj, adjOrder |-> k.adjOrder]
        /\ k.id \in Groups /\ k.cur \in 0 .. MaxOrder
        /\ k.adj \in Groups /\ k.adjOrder \in 0 .. MaxOrder
    BY <1>1, CallFacts
  <2>2. call'[c] = [pc |-> "second", id |-> k.id, cur |-> k.cur,
                    adj |-> k.adj, adjOrder |-> k.adjOrder]
    BY <1>1, <2>1
  <2> QED BY <2>1, <2>2
<1>3. \A d \in Clients \ {c} : ~Busy(d)
  BY <1>1, NobodyElse DEF Undisturbed
<1>4. \A d \in Clients \ {c} : call'[d].pc # "insert" /\ Moving(call[d])'
  BY <1>1, <1>3 DEF Busy, Moving
<1>5. OneAtATime'
  BY <1>1, <1>3 DEF OneAtATime, Busy
<1>6. /\ Existing' = Existing
      /\ \A h \in Groups \ {k.id} : group'[h] = group[h]
      /\ k.id \in Existing => group'[k.id].order = k.adjOrder
  BY <1>1, <1>2, PlacedTypes DEF Existing
<1>8. \A h \in Existing : group[h].order \in Nat /\ group'[h].order \in Nat
  <2>1. \A h \in Existing : group[h].order \in Nat
    BY <1>1, ExistingFacts
  <2> QED BY <1>2, <1>6, <2>1 DEF Existing
<1>9. Moving(call[c])'
  <2>1. k.id \in Existing' => group'[k.id].order = k.adjOrder
    BY <1>6
  <2>2. k.cur = 0 => k.id \in Existing'
    BY <1>1, <1>6 DEF Moving, Keeps
  <2>3. k.adj # k.id => Keeps(k.adj, k.adjOrder)'
    BY <1>1, <1>2, <1>6 DEF Moving, Keeps
  <2>4. Alone({k.id, k.adj}, k.cur)' /\ Alone({k.id, k.adj}, k.adjOrder)'
    BY <1>1, <1>6 DEF Moving, Alone, Existing
  <2>5. Neighbouring(k.cur, k.adjOrder)'
    BY <1>1, <1>2, <1>6 DEF Moving, Neighbouring, Existing
  <2>6. k.adj = k.id => k.adjOrder = 0
    BY <1>1 DEF Moving
  <2> QED BY <1>2, <2>1, <2>2, <2>3, <2>4, <2>5, <2>6 DEF Moving
<1>10. /\ \A h \in Groups : Movers(h) = {}
       /\ \A h \in Groups \ {k.id} : Movers(h)' = {}
       /\ Movers(k.id)' = {c}
  <2>1. \A d \in Clients : call[d].pc # "second"
    BY <1>1, <1>3 DEF Busy
  <2>2. \A d \in Clients \ {c} : call'[d].pc # "second"
    BY <1>1, <2>1
  <2>3. \A h \in Groups \ {k.id} : Movers(h)' = {}
    BY <1>2, <2>2 DEF Movers
  <2>4. Movers(k.id)' = {d \in Clients : call'[d].pc = "second" /\ call'[d].id = k.id}
    BY DEF Movers
  <2>5. \A d \in Clients : call'[d].pc = "second" /\ call'[d].id = k.id <=> d = c
    BY <1>2, <2>2
  <2>6. Movers(k.id)' = {c}
    BY <2>4, <2>5
  <2> QED BY <2>1, <2>3, <2>6 DEF Movers
<1>11. \A h \in Existing \ {k.id} : Place(h)' = group[h].order /\ Place(h) = group[h].order
  <2> SUFFICES ASSUME NEW h \in Existing \ {k.id}
               PROVE  Place(h)' = group[h].order /\ Place(h) = group[h].order
    OBVIOUS
  <2>1. h \in Groups /\ group'[h] = group[h] /\ Movers(h) = {} /\ Movers(h)' = {}
    BY <1>6, <1>10 DEF Existing
  <2>2. Place(h) = group[h].order
    BY <2>1 DEF Place, Movers
  <2>3. Place(h)' = group'[h].order
    <3>1. ~\E d \in Clients : call'[d].pc = "second" /\ call'[d].id = h
      BY <2>1 DEF Movers
    <3>2. {d \in Clients : call'[d].pc = "second" /\ call'[d].id = h} = {}
      BY <3>1
    <3> QED BY <3>2 DEF Place
  <2> QED BY <2>1, <2>2, <2>3
<1>12. Place(k.id)' = k.cur
  <2>1. (CHOOSE d \in Movers(k.id)' : TRUE) = c
    BY <1>10
  <2> QED BY <1>2, <1>10, <2>1 DEF Place, Movers
<1>13. k.id \in Existing => Place(k.id) = group[k.id].order /\ Place(k.id) \in {0, k.cur}
  <2>1. Place(k.id) = group[k.id].order
    BY <1>1, <1>2, <1>10, PlaceFacts
  <2> QED BY <1>1, <2>1 DEF Moving, Keeps
<1>14. PlacesDistinct'
  <2> SUFFICES ASSUME NEW h \in Existing, NEW i \in Existing, h # i, Place(h)' = Place(i)'
               PROVE  Place(h)' = 0
    BY <1>6 DEF PlacesDistinct
  <2>1. CASE h # k.id /\ i # k.id
    BY <1>11, <2>1 DEF Undisturbed, PlacesDistinct
  <2>2. CASE h = k.id
    BY <1>1, <1>11, <1>12, <2>2 DEF Moving, Alone
  <2>3. CASE i = k.id
    BY <1>1, <1>11, <1>12, <2>3 DEF Moving, Alone
  <2> QED BY <2>1, <2>2, <2>3
<1>15. Orderly'
  BY <1>2, <1>4, <1>5, <1>9 DEF Orderly
<1> QED BY <1>6, <1>11, <1>12, <1>13, <1>14, <1>15

\* The second UPDATE: the two groups exchange the places they count with.
LEMMA SecondOrder ==
    ASSUME Undisturbed, NEW c \in Clients, NEW k \in Calls, k = call[c], SecondUpdate(c)
    PROVE  /\ Orderly' /\ PlacesDistinct' /\ Existing' = Existing
           /\ \A g \in Existing \ {k.id, k.adj} : /\ Place(g)' = Place(g)
                                                  /\ Place(g) = group[g].order
           /\ k.id = k.adj => \A g \in Existing : Place(g)' = Place(g)
           /\ k.id # k.adj /\ k.id \in Existing => /\ Place(k.id) = k.cur
                                                   /\ Place(k.id)' = k.adjOrder
           /\ k.id # k.adj /\ k.adj \in Existing => /\ Place(k.adj) \in {0, k.adjOrder}
                                                    /\ Place(k.adj)' = k.cur
<1>1. /\ TypeOK /\ k.pc = "second" /\ Busy(c) /\ Moving(k) /\ OneAtATime
      /\ \A d \in Clients \ {c} : call'[d] = call[d]
      /\ call'[c] = Idle /\ group' = Placed(k.adj, k.cur)
  BY DEF SecondUpdate, Undisturbed, TypeOK, Busy, Return
<1>2. /\ k.id \in Groups /\ k.cur \in 0 .. MaxOrder
      /\ k.adj \in Groups /\ k.adjOrder \in 0 .. MaxOrder
  BY <1>1, CallFacts
<1>3. \A d \in Clients \ {c} : ~Busy(d)
  BY <1>1, NobodyElse
<1>4. \A d \in Clients : call'[d].pc \notin {"insert", "adjacent", "first", "second"}
  BY <1>1, <1>3 DEF Busy, Idle
<1>5. Orderly'
  BY <1>4 DEF OneAtATime, Busy, Orderly, Moving
<1>6. /\ Existing' = Existing
      /\ \A h \in Groups \ {k.adj} : group'[h] = group[h]
      /\ k.adj \in Existing => group'[k.adj].order = k.cur
  BY <1>1, <1>2, PlacedTypes DEF Existing
<1>7. \A h \in Existing : Place(h)' = group'[h].order
  <2>1. \A h \in Groups : Movers(h)' = {}
    BY <1>4 DEF Movers
  <2> QED BY <2>1 DEF Place, Movers, Existing
<1>8. \A h \in Existing \ {k.id} : Place(h) = group[h].order
  <2>1. \A h \in Groups \ {k.id} : Movers(h) = {}
    BY <1>1, <1>3 DEF Movers, Busy
  <2> QED BY <2>1 DEF Place, Movers, Existing
<1>9. Place(k.id) = k.cur
  BY <1>1, PlaceFacts
<1>10. \A g \in Existing \ {k.id, k.adj} : Place(g)' = Place(g) /\ Place(g) = group[g].order
  BY <1>6, <1>7, <1>8 DEF Existing
<1>11. k.id = k.adj => \A g \in Existing : Place(g)' = Place(g)
  BY <1>6, <1>7, <1>9, <1>10
<1>12. k.id # k.adj /\ k.id \in Existing => Place(k.id)' = k.adjOrder
  BY <1>1, <1>2, <1>6, <1>7 DEF Moving
<1>13. k.id # k.adj /\ k.adj \in Existing =>
          Place(k.adj) \in {0, k.adjOrder} /\ Place(k.adj)' = k.cur
  BY <1>1, <1>6, <1>7, <1>8 DEF Moving, Keeps
<1>14. PlacesDistinct'
  <2>1. CASE k.id = k.adj
    BY <1>1, <1>6, <1>11, <2>1, DistinctStay DEF Undisturbed
  <2>2. CASE k.id # k.adj
    <3> SUFFICES ASSUME NEW h \in Existing, NEW i \in Existing, h # i, Place(h)' = Place(i)'
                 PROVE  Place(h)' = 0
      BY <1>6 DEF PlacesDistinct
    <3>1. /\ \A g \in Existing \ {k.id, k.adj} : /\ Place(g) = k.cur => k.cur = 0
                                                 /\ Place(g) = k.adjOrder => k.adjOrder = 0
          /\ k.cur # k.adjOrder
      BY <1>1, <1>10 DEF Moving, Alone, Neighbouring
    <3>2. CASE h \notin {k.id, k.adj} /\ i \notin {k.id, k.adj}
      BY <1>10, <3>2 DEF Undisturbed, PlacesDistinct
    <3>3. CASE h \in {k.id, k.adj} /\ i \in {k.id, k.adj}
      BY <1>12, <1>13, <2>2, <3>1, <3>3
    <3>4. CASE h \in {k.id, k.adj} /\ i \notin {k.id, k.adj}
      BY <1>10, <1>12, <1>13, <2>2, <3>1, <3>4
    <3>5. CASE h \notin {k.id, k.adj} /\ i \in {k.id, k.adj}
      BY <1>10, <1>12, <1>13, <2>2, <3>1, <3>5
    <3> QED BY <3>2, <3>3, <3>4, <3>5
  <2> QED BY <2>1, <2>2
<1> QED BY <1>5, <1>6, <1>9, <1>10, <1>11, <1>12, <1>13, <1>14

LEMMA DeleteOrder ==
    ASSUME Undisturbed, NEW c \in Clients, NEW g \in Groups, DeleteGroup(c, g), ~disturbed'
    PROVE  /\ Orderly' /\ PlacesDistinct' /\ Existing' = Existing \ {g} /\ g \in Existing
           /\ \A h \in Existing \ {g} : Place(h)' = Place(h)
<1>1. /\ TypeOK /\ UNCHANGED call /\ ~GivingZero(g) /\ g \in Existing
      /\ group'[g] = None /\ \A h \in Groups \ {g} : group'[h] = group[h]
  BY DEF DeleteGroup, Undisturbed, TypeOK, Existing
<1>2. Existing' = Existing \ {g}
  BY <1>1 DEF Existing
<1>3. \A h \in Existing' : h \in Existing /\ group'[h] = group[h]
  BY <1>1, <1>2 DEF Existing
<1>4. OneAtATime'
  BY <1>1 DEF Undisturbed, OneAtATime, Busy
<1>5. ASSUME NEW d \in Clients, call[d].pc = "insert" PROVE Reserved(call[d])'
  <2>1. call[d].id \in Groups /\ Reserved(call[d])
    BY <1>1, <1>5, CallFacts DEF Undisturbed
  <2>2. group'[call[d].id] = None
    BY <1>1, <2>1 DEF Reserved
  <2> QED BY <1>1, <1>3, <2>1, <2>2 DEF Reserved
<1>6. ASSUME NEW d \in Clients, NEW k \in Calls, k = call[d] PROVE Moving(k)'
  <2>1. Moving(k)
    BY <1>6 DEF Undisturbed
  <2>2. /\ k.pc \in {"adjacent", "first", "second"} => ~(k.id = g /\ k.cur = 0)
        /\ k.pc \in {"first", "second"} => ~(k.adj = g /\ k.adjOrder = 0)
    BY <1>1, <1>6 DEF GivingZero
  <2>3. \A x, n : Keeps(x, n) /\ ~(x = g /\ n = 0) => Keeps(x, n)'
    BY <1>2, <1>3 DEF Keeps
  <2>4. \A G, n : Alone(G, n) => Alone(G, n)'
    BY <1>3 DEF Alone
  <2>5. \A m, n : Neighbouring(m, n) => Neighbouring(m, n)'
    BY <1>3 DEF Neighbouring
  <2>6. k.pc \in {"adjacent", "first"} => Keeps(k.id, k.cur)' /\ Alone({k.id}, k.cur)'
    BY <2>1, <2>2, <2>3, <2>4 DEF Moving
  <2>7. k.pc = "first" => Keeps(k.adj, k.adjOrder)' /\ Alone({k.adj}, k.adjOrder)'
    BY <2>1, <2>2, <2>3, <2>4 DEF Moving
  <2>8. k.pc = "second" => /\ k.id \in Existing' => group'[k.id].order = k.adjOrder
                           /\ k.cur = 0 => k.id \in Existing'
    BY <1>2, <1>3, <2>1, <2>2 DEF Moving
  <2>9. k.pc = "second" => /\ k.adj # k.id => Keeps(k.adj, k.adjOrder)'
                           /\ Alone({k.id, k.adj}, k.cur)' /\ Alone({k.id, k.adj}, k.adjOrder)'
    BY <2>1, <2>2, <2>3, <2>4 DEF Moving
  <2>10. k.pc \in {"first", "second"} => /\ Neighbouring(k.cur, k.adjOrder)'
                                         /\ k.adj = k.id => k.adjOrder = 0
    BY <2>1, <2>5 DEF Moving
  <2> QED BY <2>6, <2>7, <2>8, <2>9, <2>10 DEF Moving
<1>7. \A d \in Clients : Moving(call[d])'
  <2>1. \A d \in Clients : call[d] \in Calls /\ call'[d] = call[d]
    BY <1>1 DEF TypeOK
  <2>2. \A d \in Clients, k \in Calls : k = call[d] => Moving(k)'
    BY <1>6
  <2> QED BY <2>1, <2>2 DEF Moving
<1>8. \A h \in Existing \ {g} : Place(h)' = Place(h)
  <2>1. \A h \in Existing \ {g} : /\ h \in Groups /\ group'[h] = group[h]
                                  /\ Movers(h)' = Movers(h) /\ \A d \in Movers(h) : call'[d] = call[d]
    BY <1>1 DEF Existing, Movers
  <2> QED BY <2>1, SamePlace
<1>9. PlacesDistinct'
  BY <1>2, <1>8 DEF Undisturbed, PlacesDistinct
<1> QED BY <1>1, <1>2, <1>4, <1>5, <1>7, <1>8, <1>9 DEF Orderly

LEMMA StartImportOrder ==
    ASSUME Undisturbed, NEW c \in Clients, StartImport(c)
    PROVE  /\ Orderly' /\ PlacesDistinct' /\ Existing' = Existing
           /\ \A g \in Groups : Place(g)' = Place(g)
<1>1. PICK file \in Files \ {<<>>} :
         /\ \A d \in Clients : call[d].pc = "insert" => call[d].id \notin Range(file)
         /\ call' = [call EXCEPT ![c] = Importing(file)]
  BY DEF StartImport
<1>2. /\ TypeOK /\ UNCHANGED group /\ call[c].pc = "idle"
      /\ \A d \in Clients \ {c} : call'[d] = call[d]
      /\ call'[c].pc = "import" /\ call'[c].rest = file
  BY <1>1, ImportingIsCall DEF StartImport, Undisturbed, TypeOK, Idle
<1>3. PlacesDistinct' /\ Existing' = Existing /\ \A g \in Groups : Place(g)' = Place(g)
  BY <1>2, PlacesStay, DistinctStay DEF Undisturbed, Existing
<1>4. OneAtATime'
  BY <1>2 DEF Undisturbed, OneAtATime, Busy
<1>5. \A d \in Clients \ {c} : call[d].pc = "insert" => Reserved(call[d])'
  BY <1>1, <1>2, <1>3 DEF Undisturbed, Reserved
<1>6. \A d \in Clients \ {c} : Moving(call[d])'
  BY <1>2, <1>3 DEF Undisturbed, Moving, Keeps, Alone, Neighbouring
<1>7. Moving(call[c])'
  BY <1>2 DEF Moving
<1> QED BY <1>2, <1>3, <1>4, <1>5, <1>6, <1>7 DEF Orderly

\* An import leaves the groups that exist alone, or adds one without a place.
LEMMA ImportOrder ==
    ASSUME Undisturbed, NEW c \in Clients, NEW g \in Groups, g = Head(call[c].rest),
           ImportGroup(c), ~disturbed'
    PROVE  /\ Orderly' /\ PlacesDistinct' /\ \A h \in Existing : Place(h)' = Place(h)
           /\ \/ Existing' = Existing
              \/ g \notin Existing /\ Existing' = Existing \cup {g} /\ Place(g)' = 0
<1>1. /\ TypeOK /\ call[c].pc = "import" /\ call[c].rest \in Files /\ call[c].rest # <<>>
      /\ \A d \in Clients \ {c} : call'[d] = call[d]
      /\ call'[c] = Importing(Tail(call[c].rest))
  BY CallFacts DEF ImportGroup, Undisturbed, TypeOK
<1>2. /\ Tail(call[c].rest) \in Files
      /\ Range(call[c].rest) = {g} \cup Range(Tail(call[c].rest))
  BY <1>1, FileFacts
<1>3. /\ call'[c].pc \in {"idle", "import"}
      /\ call'[c].pc = "import" => call'[c].rest = Tail(call[c].rest)
  BY <1>1, <1>2, ImportingIsCall DEF Idle
<1>4. \/ group' = group
      \/ /\ group[g] = None /\ \A d \in Clients : ~(call[d].pc = "second" /\ call[d].id = g)
         /\ group' = [group EXCEPT ![g] = [order |-> 0, rowid |-> Highest("rowid") + 1]]
  BY DEF ImportGroup, InsertOrIgnore, Undisturbed, Reviving
<1>5. \A h \in Groups \ {g} : group'[h] = group[h]
  BY <1>1, <1>4 DEF TypeOK
<1>6. CASE group' = group
  <2>1. Existing' = Existing /\ PlacesDistinct' /\ \A h \in Groups : Place(h)' = Place(h)
    BY <1>1, <1>3, <1>6, PlacesStay, DistinctStay DEF Undisturbed, Existing
  <2>2. \A d \in Clients \ {c} : call[d].pc = "insert" => Reserved(call[d])'
    BY <1>1, <1>2, <1>3, <1>6, <2>1 DEF Undisturbed, Reserved
  <2>3. \A d \in Clients \ {c} : Moving(call[d])'
    BY <1>1, <1>6, <2>1 DEF Undisturbed, Moving, Keeps, Alone, Neighbouring
  <2>4. Moving(call[c])'
    BY <1>3 DEF Moving
  <2>5. OneAtATime'
    BY <1>1, <1>3 DEF Undisturbed, OneAtATime, Busy
  <2> QED BY <1>1, <1>3, <2>1, <2>2, <2>3, <2>4, <2>5 DEF Orderly, Existing
<1>7. CASE group' # group
  <2>1. /\ group[g] = None /\ g \notin Existing
        /\ \A d \in Clients : ~(call[d].pc = "second" /\ call[d].id = g)
        /\ group'[g] = [order |-> 0, rowid |-> Highest("rowid") + 1]
    BY <1>1, <1>4, <1>7 DEF TypeOK, Existing
  <2>2. group'[g] # None
    <3>1. group'[g] \in [order : Nat, rowid : Nat]
      BY <1>1, <2>1, HighestFacts, GroupsAssumption DEF GroupsAssumption
    <3> QED BY <3>1, GroupsAssumption DEF GroupsAssumption
  <2>3. /\ Existing' = Existing \cup {g} /\ group'[g].order = 0
        /\ \A h \in Existing : group'[h] = group[h]
    BY <1>5, <2>1, <2>2 DEF Existing
  <2>4. OneAtATime'
    BY <1>1, <1>3 DEF Undisturbed, OneAtATime, Busy
  <2>5. ASSUME NEW d \in Clients \ {c}, call[d].pc = "insert" PROVE Reserved(call[d])'
    <3>1. /\ Reserved(call[d]) /\ call[d].id \in Groups /\ call[d].order \in 1 .. MaxOrder
          /\ call'[d] = call[d] /\ call[d].id # g
      BY <1>1, <1>2, <2>5, CallFacts DEF Undisturbed, Reserved
    <3>2. group'[call[d].id] = None
      BY <1>5, <3>1 DEF Reserved
    <3>3. \A h \in Existing' : group'[h].order < call[d].order
      BY <2>3, <3>1 DEF Reserved
    <3>4. \A e \in Clients : call'[e].pc = "import" => call[d].id \notin Range(call'[e].rest)
      BY <1>1, <1>2, <1>3, <3>1 DEF Reserved
    <3> QED BY <3>1, <3>2, <3>3, <3>4 DEF Reserved
  <2>6. ASSUME NEW d \in Clients \ {c}, NEW k \in Calls, k = call[d] PROVE Moving(k)'
    <3>1. Moving(k) /\ ~(k.pc = "second" /\ k.id = g)
      BY <2>1, <2>6 DEF Undisturbed
    <3>2. \A x, n : Keeps(x, n) => Keeps(x, n)'
      BY <2>3 DEF Keeps
    <3>3. \A G, n : Alone(G, n) => Alone(G, n)'
      BY <2>3 DEF Alone
    <3>4. \A m \in Nat, n \in Nat : Neighbouring(m, n) => Neighbouring(m, n)'
      BY <2>3 DEF Neighbouring
    <3>5. k.pc \in {"first", "second"} => Neighbouring(k.cur, k.adjOrder)'
      <4>1. k.pc \in {"first", "second"} => k.cur \in Nat /\ k.adjOrder \in Nat
        <5>1. k.pc \in {"first", "second"} => k.cur \in 0 .. MaxOrder /\ k.adjOrder \in 0 .. MaxOrder
          <6>1. d \in Clients /\ k = call[d]
            BY <2>6
          <6> QED BY <1>1, <6>1, CallFacts
        <5> QED BY <5>1
      <4> QED BY <3>1, <3>4, <4>1 DEF Moving
    <3>6. k.pc = "second" => /\ k.id \in Existing' => group'[k.id].order = k.adjOrder
                             /\ k.cur = 0 => k.id \in Existing'
      BY <2>3, <3>1 DEF Moving
    <3> QED BY <3>1, <3>2, <3>3, <3>5, <3>6 DEF Moving
  <2>7. \A d \in Clients \ {c} : Moving(call[d])'
    <3>1. \A d \in Clients \ {c} : call[d] \in Calls /\ call'[d] = call[d]
      BY <1>1 DEF TypeOK
    <3>2. \A d \in Clients \ {c}, k \in Calls : k = call[d] => Moving(k)'
      BY <2>6
    <3> QED BY <3>1, <3>2 DEF Moving
  <2>8. Moving(call[c])'
    BY <1>3 DEF Moving
  <2>9. \A h \in Groups : Movers(h)' = Movers(h) /\ \A d \in Movers(h) : call'[d] = call[d]
    <3>1. \A d \in Clients : call'[d].pc = "second" <=> call[d].pc = "second"
      BY <1>1, <1>3
    <3>2. \A d \in Clients : call[d].pc = "second" => call'[d] = call[d]
      BY <1>1
    <3> QED BY <3>1, <3>2 DEF Movers
  <2>10. \A h \in Existing : Place(h)' = Place(h)
    BY <2>3, <2>9, SamePlace DEF Existing
  <2>11. Place(g)' = 0
    <3>1. ~\E d \in Clients : call'[d].pc = "second" /\ call'[d].id = g
      BY <1>1, <1>3, <2>1
    <3>2. {d \in Clients : call'[d].pc = "second" /\ call'[d].id = g} = {}
      BY <3>1
    <3> QED BY <2>3, <3>2 DEF Place
  <2>12. PlacesDistinct'
    BY <2>3, <2>10, <2>11 DEF Undisturbed, PlacesDistinct
  <2>13. Orderly'
    BY <1>1, <1>3, <2>4, <2>5, <2>7, <2>8 DEF Orderly
  <2> QED BY <2>1, <2>3, <2>10, <2>11, <2>12, <2>13
<1> QED BY <1>6, <1>7

\* A start gives the places that are missing.
LEMMA RestartOrder ==
    ASSUME Undisturbed, Restart, ~disturbed'
    PROVE  /\ Orderly' /\ PlacesDistinct' /\ Existing' = Existing
           /\ \A h \in Existing : /\ Place(h)' # 0
                                  /\ Place(h) # 0 => Place(h)' = Place(h)
<1>1. /\ TypeOK /\ group' = Numbered /\ call' = [d \in Clients |-> Idle]
      /\ ~Collide(Numbered) /\ \A d \in Clients : call[d].pc # "second"
  BY DEF Restart, Undisturbed
<1>2. \A d \in Clients : call'[d].pc = "idle"
  BY <1>1 DEF Idle
<1>3. Orderly'
  BY <1>2 DEF Orderly, OneAtATime, Busy, Moving
<1>4. Existing' = Existing
  BY <1>1, NumberedFacts DEF Existing
<1>5. \A h \in Groups : Movers(h) = {} /\ Movers(h)' = {}
  BY <1>1, <1>2 DEF Movers
<1>6. \A h \in Existing : Place(h) = group[h].order /\ Place(h)' = Numbered[h].order
  <2>1. \A h \in Existing : Place(h) = group[h].order
    BY <1>1, <1>5, PlaceFacts DEF Existing
  <2>2. \A h \in Existing : Place(h)' = group'[h].order
    BY <1>5 DEF Place, Movers, Existing
  <2> QED BY <1>1, <2>1, <2>2
<1>7. PlacesDistinct'
  BY <1>1, <1>4, <1>6 DEF PlacesDistinct, Collide
<1> QED BY <1>1, <1>3, <1>4, <1>6, <1>7, NumberedFacts

LEMMA OrderlyStep ==
    TypeOK /\ Orderly /\ PlacesDistinct /\ [Next]_vars => Orderly' /\ PlacesDistinct'
<1> SUFFICES ASSUME TypeOK, Orderly, PlacesDistinct, [Next]_vars
             PROVE  Orderly' /\ PlacesDistinct'
  OBVIOUS
<1>1. CASE UNCHANGED vars
  <2>1. UNCHANGED <<group, call, disturbed>>
    BY <1>1 DEF vars
  <2> QED BY <2>1 DEF Orderly, OneAtATime, Busy, Reserved, Moving, Keeps, Alone, Neighbouring,
                      PlacesDistinct, Place, Existing
<1>2. CASE disturbed'
  BY <1>2 DEF Orderly, PlacesDistinct
<1>3. CASE Next /\ ~disturbed'
  <2>1. Undisturbed
    <3>1. disturbed => disturbed'
      BY <1>3 DEF Next, CreateGroup, InsertGroup, MoveGroup, FindAdjacent, FirstUpdate,
                  SecondUpdate, DeleteGroup, StartImport, ImportGroup, Restart
    <3> QED BY <1>3, <3>1 DEF Undisturbed, Orderly
  <2>2. ASSUME NEW c \in Clients, NEW g \in Groups, CreateGroup(c, g)
        PROVE  Orderly' /\ PlacesDistinct'
    BY <1>3, <2>1, <2>2, CreateOrder
  <2>3. ASSUME NEW c \in Clients, NEW g \in Groups, NEW up \in BOOLEAN, MoveGroup(c, g, up)
        PROVE  Orderly' /\ PlacesDistinct'
    BY <1>3, <2>1, <2>3, MoveOrder
  <2>4. ASSUME NEW c \in Clients, NEW g \in Groups, DeleteGroup(c, g)
        PROVE  Orderly' /\ PlacesDistinct'
    BY <1>3, <2>1, <2>4, DeleteOrder
  <2>5. ASSUME NEW c \in Clients,
               InsertGroup(c) \/ FindAdjacent(c) \/ FirstUpdate(c) \/ SecondUpdate(c)
        PROVE  Orderly' /\ PlacesDistinct'
    <3>1. call[c] \in Calls
      BY DEF TypeOK
    <3> QED BY <2>1, <2>5, <3>1, InsertOrder, FindOrder, FirstOrder, SecondOrder
  <2>6. ASSUME NEW c \in Clients, StartImport(c) PROVE Orderly' /\ PlacesDistinct'
    BY <2>1, <2>6, StartImportOrder
  <2>7. ASSUME NEW c \in Clients, ImportGroup(c) PROVE Orderly' /\ PlacesDistinct'
    <3>1. Head(call[c].rest) \in Groups
      BY <2>7, CallFacts, FileFacts DEF ImportGroup
    <3> QED BY <1>3, <2>1, <2>7, <3>1, ImportOrder
  <2>8. CASE Restart
    BY <1>3, <2>1, <2>8, RestartOrder
  <2> QED BY <1>3, <2>2, <2>3, <2>4, <2>5, <2>6, <2>7, <2>8 DEF Next
<1> QED BY <1>1, <1>2, <1>3

LEMMA OrderlyInvariant == Spec => [](TypeOK /\ Orderly /\ PlacesDistinct)
<1>1. Init => Orderly /\ PlacesDistinct
  <2> SUFFICES ASSUME Init PROVE Orderly /\ PlacesDistinct
    OBVIOUS
  <2>1. Existing = {} /\ \A c \in Clients : call[c].pc = "idle"
    BY DEF Init, Existing, Idle
  <2> QED BY <2>1 DEF Orderly, OneAtATime, Busy, Moving, PlacesDistinct
<1> QED BY <1>1, OrderlyStep, TypeCorrect, PTL DEF Spec

\* Until a disturbance no two groups have the same place, whatever creates,
\* moves, deletes, imports and deaths went on.
THEOREM PlacesDistinctAlways == Spec => []PlacesDistinct
BY OrderlyInvariant, PTL

-----------------------------------------------------------------------------
(* The inductive invariant of the restored backup: the groups of its file   *)
(* exist as far as the import has come, in the order of their insertion.    *)

Restoring == restored # <<>> =>
    \E k \in 0 .. Len(restored) :
       /\ Existing = {restored[i] : i \in 1 .. k}
       /\ \A i \in 1 .. k : group[restored[i]] = [order |-> 0, rowid |-> i]
       /\ \/ k = Len(restored) /\ \A c \in Clients : call[c] = Idle
          \/ \E c \in Clients :
                /\ call[c].pc = "import" /\ call[c].found = FALSE
                /\ Len(call[c].rest) = Len(restored) - k
                /\ \A j \in 1 .. Len(restored) - k : call[c].rest[j] = restored[k + j]
                /\ \A d \in Clients \ {c} : call[d] = Idle

LEMMA FileIsInjective ==
    ASSUME NEW f \in Files
    PROVE  /\ f \in Seq(Groups) /\ Len(f) \in Nat /\ DOMAIN f = 1 .. Len(f)
           /\ f \in [1 .. Len(f) -> Groups]
           /\ \A i, j \in 1 .. Len(f) : f[i] = f[j] => i = j
<1>1. /\ \E m \in 0 .. MaxFile : f \in [1 .. m -> Groups]
      /\ \A i, j \in DOMAIN f : f[i] = f[j] => i = j
  BY DEF Files, BoundedSeq, SeqOf, IsInjective
<1>2. PICK m \in Nat : f \in [1 .. m -> Groups]
  BY <1>1, GroupsAssumption DEF GroupsAssumption
<1>3. f \in Seq(Groups)
  BY <1>2, SeqDef
<1>4. Len(f) = m /\ DOMAIN f = 1 .. Len(f)
  BY <1>2, <1>3, LenProperties
<1> QED BY <1>1, <1>2, <1>3, <1>4

LEMMA RestoringStart ==
    ASSUME TypeOK, NEW c \in Clients, StartImport(c), restored' # <<>> PROVE Restoring'
<1>1. PICK file \in Files \ {<<>>} :
         /\ call' = [call EXCEPT ![c] = Importing(file)]
         /\ restored' = file /\ Existing = {} /\ \A d \in Clients : call[d] = Idle
  BY DEF StartImport
<1>2. /\ Len(file) \in Nat /\ Head(file) \in Groups
      /\ call'[c].pc = "import" /\ call'[c].rest = file
      /\ call'[c].found = (group[Head(file)] # None)
      /\ \A d \in Clients \ {c} : call'[d] = Idle
  BY <1>1, ImportingIsCall, FileFacts, FileIsInjective DEF TypeOK
<1>3. call'[c].found = FALSE
  BY <1>1, <1>2 DEF Existing
<1>4. Existing' = {}
  BY <1>1 DEF StartImport, Existing
<1>5. /\ 0 \in 0 .. Len(file) /\ Existing' = {file[i] : i \in 1 .. 0}
      /\ \A i \in 1 .. 0 : group'[file[i]] = [order |-> 0, rowid |-> i]
      /\ Len(call'[c].rest) = Len(file) - 0
      /\ \A j \in 1 .. Len(file) - 0 : call'[c].rest[j] = file[0 + j]
  BY <1>2, <1>4
<1> QED BY <1>1, <1>2, <1>3, <1>5 DEF Restoring

\* The import has come to group k + 1 of the file: it is not there, its row
\* gets the rowid k + 1, and the group after it is not there either.
LEMMA RestoringImport ==
    ASSUME TypeOK, Restoring, NEW c \in Clients, ImportGroup(c), restored' # <<>>
    PROVE  Restoring'
<1> DEFINE f == restored
           n == Len(f)
           rest == call[c].rest
<1>1. /\ restored' = f /\ f # <<>> /\ call[c].pc = "import" /\ f \in Files
  BY DEF ImportGroup, TypeOK
<1>2. /\ n \in Nat /\ f \in [1 .. n -> Groups] /\ \A i, j \in 1 .. n : f[i] = f[j] => i = j
  BY <1>1, FileIsInjective
<1>3. PICK k \in 0 .. n :
         /\ Existing = {f[i] : i \in 1 .. k}
         /\ \A i \in 1 .. k : group[f[i]] = [order |-> 0, rowid |-> i]
         /\ call[c].found = FALSE /\ Len(rest) = n - k
         /\ \A j \in 1 .. n - k : rest[j] = f[k + j]
         /\ \A d \in Clients \ {c} : call[d] = Idle
  <2>1. call[c] # Idle
    BY <1>1 DEF Idle
  <2> QED BY <1>1, <2>1 DEF Restoring
<1>4. /\ rest \in Files /\ rest # <<>> /\ rest \in Seq(Groups) /\ Head(rest) = rest[1]
      /\ Tail(rest) \in Files
  BY <1>1, CallFacts, FileFacts
<1>5. /\ Tail(rest) \in Seq(Groups) /\ Len(Tail(rest)) = Len(rest) - 1 /\ Len(rest) \in Nat \ {0}
      /\ \A j \in 1 .. Len(Tail(rest)) : Tail(rest)[j] = rest[j + 1]
  <2>1. Len(rest) \in Nat /\ Len(rest) # 0
    BY <1>4, EmptySeq, LenProperties
  <2> QED BY <1>4, <2>1, HeadTailProperties
<1> DEFINE tail == Tail(rest)
<1>6. tail # <<>> => Head(tail) = tail[1] /\ 1 \in 1 .. Len(tail)
  <2> SUFFICES ASSUME tail # <<>> PROVE Head(tail) = tail[1] /\ 1 \in 1 .. Len(tail)
    OBVIOUS
  <2>1. tail \in Files \ {<<>>} /\ tail \in Seq(Groups)
    BY <1>4, <1>5
  <2> HIDE DEF tail
  <2>2. Head(tail) = tail[1]
    BY <2>1, FileFacts
  <2>3. Len(tail) \in Nat /\ Len(tail) # 0
    BY <2>1, EmptySeq, LenProperties
  <2> QED BY <2>2, <2>3
<1>7. tail = <<>> => Len(tail) = 0
  <2> HIDE DEF tail
  <2> QED BY EmptySeq
<1> HIDE DEF tail, rest, f, n
<1>8. /\ k \in Nat /\ k + 1 \in 1 .. n /\ Len(tail) = n - (k + 1)
      /\ Head(rest) = f[k + 1] /\ f[k + 1] \in Groups
      /\ \A j \in 1 .. n - (k + 1) : tail[j] = f[(k + 1) + j]
  <2>1. k \in Nat /\ k + 1 \in 1 .. n /\ Len(tail) = n - (k + 1)
    BY <1>2, <1>3, <1>5 DEF tail
  <2>2. Head(rest) = f[k + 1]
    <3>1. 1 \in 1 .. n - k
      BY <1>2, <2>1
    <3> QED BY <1>3, <1>4, <3>1
  <2>3. ASSUME NEW j \in 1 .. n - (k + 1) PROVE tail[j] = f[(k + 1) + j]
    <3>1. j + 1 \in 1 .. n - k /\ k + (j + 1) = (k + 1) + j /\ j \in 1 .. Len(tail)
      BY <1>2, <2>1
    <3>2. tail[j] = rest[j + 1] /\ rest[j + 1] = f[k + (j + 1)]
      BY <1>3, <1>5, <3>1 DEF tail
    <3> QED BY <3>1, <3>2
  <2> QED BY <1>2, <2>1, <2>2, <2>3
<1>9. \A j \in k + 1 .. n : f[j] \in Groups /\ f[j] \notin Existing
  <2>1. \A j \in k + 1 .. n : j \in 1 .. n /\ \A i \in 1 .. k : i \in 1 .. n /\ i # j
    BY <1>2, <1>8
  <2> QED BY <1>2, <1>3, <2>1
<1>10. Highest("rowid") = k
  <2>1. ASSUME NEW i \in 1 .. k PROVE f[i] \in Existing /\ group[f[i]].rowid = i
    <3>1. group[f[i]] = [order |-> 0, rowid |-> i]
      BY <1>3
    <3>2. f[i] \in Existing
      BY <1>3
    <3> QED BY <3>1, <3>2
  <2>2. CASE k = 0
    BY <1>3, <2>2, HighestFacts
  <2>3. CASE k # 0
    <3>1. k \in 1 .. k
      BY <1>8, <2>3
    <3>2. Existing # {} /\ k <= Highest("rowid")
      BY <2>1, <3>1, HighestFacts
    <3>3. PICK g \in Existing : group[g].rowid = Highest("rowid")
      BY <3>2, HighestFacts
    <3>4. group[g].rowid \in 1 .. k
      BY <1>3, <2>1, <3>3
    <3> QED BY <1>8, <3>2, <3>3, <3>4
  <2> QED BY <2>2, <2>3
<1>11. /\ group'[f[k + 1]] = [order |-> 0, rowid |-> k + 1]
      /\ \A g \in Groups \ {f[k + 1]} : group'[g] = group[g]
  <2>1. group[f[k + 1]] = None /\ f[k + 1] \in Groups
    BY <1>8, <1>9 DEF Existing
  <2>2. group' = [group EXCEPT ![f[k + 1]] = [order |-> 0, rowid |-> k + 1]]
    BY <1>3, <1>8, <1>10, <2>1 DEF ImportGroup, InsertOrIgnore, rest
  <2> QED BY <2>1, <2>2 DEF TypeOK
<1>12. group'[f[k + 1]] # None
  <2>1. group'[f[k + 1]] \in [order : Nat, rowid : Nat]
    BY <1>8, <1>11
  <2> QED BY <2>1, GroupsAssumption DEF GroupsAssumption
<1>13. Existing' = {f[i] : i \in 1 .. k + 1}
  <2>1. Existing' = Existing \cup {f[k + 1]}
    BY <1>8, <1>9, <1>11, <1>12 DEF Existing
  <2>2. \A i : i \in 1 .. k + 1 <=> i \in 1 .. k \/ i = k + 1
    BY <1>8
  <2> QED BY <1>3, <2>1, <2>2
<1>14. ASSUME NEW i \in 1 .. k + 1 PROVE group'[f[i]] = [order |-> 0, rowid |-> i]
  <2>1. CASE i = k + 1
    BY <1>11, <2>1
  <2>2. CASE i # k + 1
    <3>1. i \in 1 .. k /\ i \in 1 .. n /\ k + 1 \in 1 .. n
      BY <1>2, <1>8, <2>2
    <3>2. f[i] # f[k + 1] /\ f[i] \in Groups
      BY <1>2, <2>2, <3>1
    <3> QED BY <1>3, <1>11, <3>1, <3>2
  <2> QED BY <2>1, <2>2
<1>15. /\ call'[c] = Importing(tail)
       /\ \A d \in Clients \ {c} : call'[d] = Idle
  BY <1>3 DEF ImportGroup, TypeOK, rest, tail
<1>16. CASE tail = <<>>
  <2>1. k + 1 = n
    <3>1. Len(tail) = 0
      BY <1>16, <1>7
    <3> QED BY <1>2, <1>8, <3>1
  <2>2. \A d \in Clients : call'[d] = Idle
    BY <1>15, <1>16 DEF Importing
  <2> QED BY <1>1, <1>8, <1>13, <1>14, <2>1, <2>2 DEF Restoring, f, n
<1>17. CASE tail # <<>>
  <2>1. call'[c].pc = "import" /\ call'[c].rest = tail
        /\ call'[c].found = (group[Head(tail)] # None)
    BY <1>4, <1>15, <1>17, ImportingIsCall DEF tail
  <2>2. Head(tail) = f[(k + 1) + 1] /\ (k + 1) + 1 \in k + 1 .. n
    <3>1. Head(tail) = tail[1] /\ 1 \in 1 .. Len(tail)
      BY <1>17, <1>6
    <3>2. 1 \in 1 .. n - (k + 1) /\ (k + 1) + 1 \in k + 1 .. n
      BY <1>2, <1>8, <3>1
    <3> QED BY <1>8, <3>1, <3>2
  <2>3. call'[c].found = FALSE
    BY <1>9, <2>1, <2>2 DEF Existing
  <2>4. k + 1 \in 0 .. n
    BY <1>8
  <2>5. /\ call'[c].pc = "import" /\ call'[c].found = FALSE
        /\ Len(call'[c].rest) = n - (k + 1)
        /\ \A j \in 1 .. n - (k + 1) : call'[c].rest[j] = f[(k + 1) + j]
        /\ \A d \in Clients \ {c} : call'[d] = Idle
    BY <1>8, <1>15, <2>1, <2>3
  <2>6. /\ Existing' = {restored'[i] : i \in 1 .. k + 1} /\ k + 1 \in 0 .. Len(restored')
        /\ \A i \in 1 .. k + 1 : group'[restored'[i]] = [order |-> 0, rowid |-> i]
    BY <1>1, <1>13, <1>14, <2>4 DEF f, n
  <2>7. /\ Len(call'[c].rest) = Len(restored') - (k + 1)
        /\ \A j \in 1 .. Len(restored') - (k + 1) : call'[c].rest[j] = restored'[(k + 1) + j]
    BY <1>1, <2>5 DEF f, n
  <2> QED BY <2>5, <2>6, <2>7 DEF Restoring
<1> QED BY <1>16, <1>17

LEMMA RestoringStep == TypeOK /\ Restoring /\ [Next]_vars => Restoring'
<1> SUFFICES ASSUME TypeOK, Restoring, [Next]_vars, restored' # <<>> PROVE Restoring'
  BY DEF Restoring
<1>1. CASE UNCHANGED vars
  BY <1>1 DEF vars, Restoring, Existing
<1>2. ASSUME NEW c \in Clients,
             InsertGroup(c) \/ FindAdjacent(c) \/ FirstUpdate(c) \/ SecondUpdate(c)
      PROVE  FALSE
  <2>1. restored # <<>> /\ call[c].pc \in {"insert", "adjacent", "first", "second"}
    BY <1>2 DEF InsertGroup, FindAdjacent, FirstUpdate, SecondUpdate
  <2>2. call[c].pc \in {"idle", "import"}
    BY <2>1 DEF Restoring, Idle
  <2> QED BY <2>1, <2>2
<1>3. CASE Next
  BY <1>2, <1>3, RestoringStart, RestoringImport
     DEF Next, CreateGroup, MoveGroup, DeleteGroup, Restart
<1> QED BY <1>1, <1>3

LEMMA RestoringInvariant == Spec => [](TypeOK /\ Restoring)
<1>1. Init => Restoring
  BY DEF Init, Restoring
<1> QED BY <1>1, RestoringStep, TypeCorrect, PTL DEF Spec

\* The start after a complete restore numbers the rows in the order of the file.
LEMMA RestartRestores ==
    ASSUME TypeOK, Restoring, Restart, restored # <<>>, \A c \in Clients : call[c] = Idle
    PROVE  (ListGroups)' = restored
<1> DEFINE f == restored
           n == Len(f)
           place == [g \in Existing |-> group'[g].order]
<1>1. /\ n \in Nat /\ f \in [1 .. n -> Groups] /\ \A i, j \in 1 .. n : f[i] = f[j] => i = j
  BY FileIsInjective DEF TypeOK
<1>2. /\ Existing = {f[i] : i \in 1 .. n}
      /\ \A i \in 1 .. n : group[f[i]] = [order |-> 0, rowid |-> i]
  <2>1. \A c \in Clients : call[c].pc # "import"
    BY DEF Idle
  <2> QED BY <2>1 DEF Restoring
<1>3. Existing' = Existing
  BY NumberedFacts DEF Restart, Existing
<1> HIDE DEF f, n
<1>4. \A i \in 1 .. n : f[i] \in Existing /\ group'[f[i]].order = i
  <2>1. \A g \in Existing : group'[g].order = IF group[g].order = 0
                                              THEN group[g].rowid ELSE group[g].order
    BY NumberedFacts DEF Restart
  <2>2. ASSUME NEW i \in 1 .. n
        PROVE  f[i] \in Existing /\ group[f[i]].order = 0 /\ group[f[i]].rowid = i
    <3>1. group[f[i]] = [order |-> 0, rowid |-> i]
      BY <1>2
    <3>2. f[i] \in Existing
      BY <1>2
    <3> QED BY <3>1, <3>2
  <2> QED BY <2>1, <2>2
<1>5. \A i \in 1 .. n : place[f[i]] = i
  BY <1>4
<1>6. place \in [Existing -> Nat]
  BY <1>1, <1>2, <1>4
<1>7. (ListGroups)' = InOrder(Lines(Existing, place))
  <2>1. {<<group'[g].order, g>> : g \in Existing'} = Lines(Existing, place)
    BY <1>3 DEF Lines, At
  <2>2. (ListGroups)' = InOrder({<<group'[g].order, g>> : g \in Existing'})
    BY DEF ListGroups, InOrder, Before
  <2> QED BY <2>1, <2>2
<1> HIDE DEF place
<1>8. Existing \in SUBSET Nat /\ IsFiniteSet(Existing)
  BY ExistingFacts
<1>9. Cardinality(Existing) = n
  <2>1. f \in Bijection(1 .. n, Existing)
    BY <1>1, <1>2 DEF Bijection, Injection, Surjection, IsInjective
  <2>2. IsFiniteSet(1 .. n) /\ Cardinality(1 .. n) = n
    BY <1>1, FS_Interval
  <2>3. ExistsBijection(1 .. n, Existing)
    BY <2>1 DEF ExistsBijection
  <2> QED BY <2>2, <2>3, FS_Bijection
<1>10. IsSortingOf(f, Existing, place)
  <2>1. f \in [1 .. n -> Existing]
    BY <1>1, <1>4
  <2>2. \A i, j \in 1 .. n : i < j => Precedes(place, f[i], f[j])
    BY <1>5 DEF Precedes, At, Earlier
  <2> QED BY <1>9, <2>1, <2>2 DEF IsSortingOf
<1>11. InOrder(Lines(Existing, place)) = f
  BY <1>6, <1>8, <1>10, SortingIsInOrder
<1> QED BY <1>7, <1>11 DEF f

\* A backup imported into an instance without groups shows its groups, after
\* the next start, in the order of the page it was taken from.
THEOREM BackupKeepsOrder == Spec => RestoreKeepsOrder
<1>1. TypeOK /\ Restoring /\ [Next]_vars
        => [Restart /\ restored # <<>> /\ (\A c \in Clients : call[c] = Idle)
              => (ListGroups)' = restored]_vars
  BY RestartRestores
<1> QED BY <1>1, RestoringInvariant, PTL DEF Spec, RestoreKeepsOrder

-----------------------------------------------------------------------------
(* The page is a list: what each step does to a sorted sequence.            *)

LEMMA RemoveAtFacts ==
    ASSUME NEW S, NEW s \in Seq(S), NEW i \in 1 .. Len(s)
    PROVE  /\ RemoveAt(s, i) \in Seq(S) /\ Len(RemoveAt(s, i)) = Len(s) - 1
           /\ \A j \in 1 .. Len(s) - 1 : RemoveAt(s, i)[j] = IF j < i THEN s[j] ELSE s[j + 1]
<1> DEFINE n == Len(s)
           a == SubSeq(s, 1, i - 1)
           b == SubSeq(s, i + 1, n)
<1>1. n \in Nat /\ i \in Int /\ n \in Int /\ \A j \in 1 .. n : s[j] \in S
  <2>1. n \in Nat
    BY LenProperties
  <2> QED BY <2>1, ElementOfSeq
<1>2. /\ a \in Seq(S) /\ Len(a) = i - 1 /\ \A j \in 1 .. i - 1 : a[j] = s[j]
  <2>1. \A j \in 1 .. i - 1 : s[j] \in S
    BY <1>1
  <2>2. /\ a \in Seq(S) /\ Len(a) = IF 1 <= i - 1 THEN (i - 1) - 1 + 1 ELSE 0
        /\ \A j \in 1 .. (i - 1) - 1 + 1 : a[j] = s[1 + j - 1]
    BY <1>1, <2>1, SubSeqProperties
  <2> HIDE DEF a
  <2> QED BY <1>1, <2>2
<1>3. /\ b \in Seq(S) /\ Len(b) = n - i /\ \A j \in 1 .. n - i : b[j] = s[i + j]
  <2>1. \A j \in i + 1 .. n : s[j] \in S
    BY <1>1
  <2>2. /\ b \in Seq(S) /\ Len(b) = IF i + 1 <= n THEN n - (i + 1) + 1 ELSE 0
        /\ \A j \in 1 .. n - (i + 1) + 1 : b[j] = s[i + 1 + j - 1]
    BY <1>1, <2>1, SubSeqProperties
  <2> HIDE DEF b
  <2> QED BY <1>1, <2>2
<1>4. RemoveAt(s, i) = a \o b
  BY DEF RemoveAt
<1> HIDE DEF a, b, n
<1>5. /\ a \o b \in Seq(S) /\ Len(a \o b) = n - 1
      /\ \A j \in 1 .. n - 1 : (a \o b)[j] = IF j <= i - 1 THEN a[j] ELSE b[j - (i - 1)]
  <2> DEFINE m == i - 1
             k == n - 1
  <2>1. Len(a) = m /\ Len(a) + Len(b) = k
    BY <1>1, <1>2, <1>3
  <2> HIDE DEF m, k
  <2>2. /\ a \o b \in Seq(S) /\ Len(a \o b) = k
        /\ \A j \in 1 .. k : (a \o b)[j] = IF j <= m THEN a[j] ELSE b[j - m]
    <3>1. a \in Seq(S) /\ b \in Seq(S)
      BY <1>2, <1>3
    <3>2. /\ a \o b \in Seq(S) /\ Len(a \o b) = Len(a) + Len(b)
          /\ \A j \in 1 .. Len(a) + Len(b) :
               (a \o b)[j] = IF j <= Len(a) THEN a[j] ELSE b[j - Len(a)]
      BY <3>1, ConcatProperties
    <3> QED BY ONLY <2>1, <3>2
  <2> QED BY <2>2 DEF m, k
<1>6. ASSUME NEW j \in 1 .. n - 1 PROVE (a \o b)[j] = IF j < i THEN s[j] ELSE s[j + 1]
  <2>1. CASE j < i
    BY <1>1, <1>2, <1>5, <2>1
  <2>2. CASE ~(j < i)
    <3>1. j - (i - 1) \in 1 .. n - i /\ i + (j - (i - 1)) = j + 1 /\ ~(j <= i - 1)
      BY <1>1, <2>2
    <3> QED BY <1>3, <1>5, <2>2, <3>1
  <2> QED BY <2>1, <2>2
<1> QED BY <1>4, <1>5, <1>6 DEF n

LEMMA InsertAtFacts ==
    ASSUME NEW S, NEW s \in Seq(S), NEW i \in 1 .. Len(s) + 1, NEW e \in S
    PROVE  /\ InsertAt(s, i, e) \in Seq(S) /\ Len(InsertAt(s, i, e)) = Len(s) + 1
           /\ \A j \in 1 .. Len(s) + 1 :
                InsertAt(s, i, e)[j] = IF j < i THEN s[j] ELSE IF j = i THEN e ELSE s[j - 1]
<1> DEFINE n == Len(s)
           a == SubSeq(s, 1, i - 1)
           b == SubSeq(s, i, n)
<1>1. n \in Nat /\ i \in Int /\ n \in Int /\ \A j \in 1 .. n : s[j] \in S
  <2>1. n \in Nat
    BY LenProperties
  <2> QED BY <2>1, ElementOfSeq
<1>2. /\ a \in Seq(S) /\ Len(a) = i - 1 /\ \A j \in 1 .. i - 1 : a[j] = s[j]
  <2>1. \A j \in 1 .. i - 1 : s[j] \in S
    BY <1>1
  <2>2. /\ a \in Seq(S) /\ Len(a) = IF 1 <= i - 1 THEN (i - 1) - 1 + 1 ELSE 0
        /\ \A j \in 1 .. (i - 1) - 1 + 1 : a[j] = s[1 + j - 1]
    BY <1>1, <2>1, SubSeqProperties
  <2> HIDE DEF a
  <2> QED BY <1>1, <2>2
<1>3. /\ b \in Seq(S) /\ Len(b) = n - i + 1 /\ \A j \in 1 .. n - i + 1 : b[j] = s[i + j - 1]
  <2>1. \A j \in i .. n : s[j] \in S
    BY <1>1
  <2>2. /\ b \in Seq(S) /\ Len(b) = IF i <= n THEN n - i + 1 ELSE 0
        /\ \A j \in 1 .. n - i + 1 : b[j] = s[i + j - 1]
    BY <1>1, <2>1, SubSeqProperties
  <2> HIDE DEF b
  <2> QED BY <1>1, <2>2
<1>4. InsertAt(s, i, e) = a \o <<e>> \o b
  BY DEF InsertAt
<1>5. <<e>> \in Seq(S) /\ Len(<<e>>) = 1 /\ <<e>>[1] = e
  OBVIOUS
<1> DEFINE c == a \o <<e>>
           x == <<e>>
<1> HIDE DEF a, b, n, x
<1>6. /\ c \in Seq(S) /\ Len(c) = i
      /\ \A j \in 1 .. i : c[j] = IF j <= i - 1 THEN a[j] ELSE x[j - (i - 1)]
  <2>1. x \in Seq(S) /\ Len(x) = 1 /\ c = a \o x
    BY <1>5 DEF x
  <2>2. Len(a) + Len(x) = i
    BY <1>1, <1>2, <2>1
  <2>3. a \in Seq(S)
    BY <1>2
  <2>4. /\ a \o x \in Seq(S) /\ Len(a \o x) = Len(a) + Len(x)
        /\ \A j \in 1 .. Len(a) + Len(x) :
             (a \o x)[j] = IF j <= Len(a) THEN a[j] ELSE x[j - Len(a)]
    BY <2>1, <2>3, ConcatProperties
  <2>5. Len(a) = i - 1 /\ c = a \o x
    BY <1>2, <2>1
  <2> HIDE DEF c
  <2> QED BY ONLY <2>2, <2>4, <2>5
<1>7. \A j \in 1 .. i : c[j] = IF j < i THEN s[j] ELSE e
  <2> SUFFICES ASSUME NEW j \in 1 .. i PROVE c[j] = IF j < i THEN s[j] ELSE e
    OBVIOUS
  <2> HIDE DEF c
  <2>1. CASE j < i
    BY <1>1, <1>2, <1>6, <2>1
  <2>2. CASE j = i
    <3>1. j - (i - 1) = 1 /\ ~(j <= i - 1)
      BY <1>1, <2>2
    <3>2. x[1] = e
      BY DEF x
    <3> QED BY <1>6, <2>2, <3>1, <3>2
  <2> QED BY <1>1, <2>1, <2>2
<1> HIDE DEF c
<1>8. /\ c \o b \in Seq(S) /\ Len(c \o b) = n + 1
      /\ \A j \in 1 .. n + 1 : (c \o b)[j] = IF j <= i THEN c[j] ELSE b[j - i]
  <2> DEFINE k == n + 1
  <2>1. Len(c) = i /\ Len(c) + Len(b) = k
    BY <1>1, <1>3, <1>6
  <2> HIDE DEF k
  <2>2. /\ c \o b \in Seq(S) /\ Len(c \o b) = k
        /\ \A j \in 1 .. k : (c \o b)[j] = IF j <= i THEN c[j] ELSE b[j - i]
    <3>1. c \in Seq(S) /\ b \in Seq(S)
      BY <1>3, <1>6
    <3>2. /\ c \o b \in Seq(S) /\ Len(c \o b) = Len(c) + Len(b)
          /\ \A j \in 1 .. Len(c) + Len(b) :
               (c \o b)[j] = IF j <= Len(c) THEN c[j] ELSE b[j - Len(c)]
      BY <3>1, ConcatProperties
    <3> QED BY ONLY <2>1, <3>2
  <2> QED BY <2>2 DEF k
<1>9. ASSUME NEW j \in 1 .. n + 1
      PROVE  (c \o b)[j] = IF j < i THEN s[j] ELSE IF j = i THEN e ELSE s[j - 1]
  <2>1. CASE j <= i
    <3>1. j \in 1 .. i
      BY <1>1, <2>1
    <3> QED BY <1>1, <1>7, <1>8, <2>1, <3>1
  <2>2. CASE ~(j <= i)
    <3>1. j - i \in 1 .. n - i + 1 /\ i + (j - i) - 1 = j - 1 /\ ~(j < i) /\ j # i
      BY <1>1, <2>2
    <3> QED BY <1>3, <1>8, <2>2, <3>1
  <2> QED BY <2>1, <2>2
<1>10. InsertAt(s, i, e) = c \o b
  BY <1>4 DEF c
<1> QED BY <1>8, <1>9, <1>10 DEF n

LEMMA InsertionUndoesRemoval ==
    ASSUME NEW S, NEW s \in Seq(S), NEW i \in 1 .. Len(s)
    PROVE  /\ InsertAt(RemoveAt(s, i), i, s[i]) = s
           /\ i = Len(s) => Append(RemoveAt(s, i), s[i]) = s
<1> DEFINE n == Len(s)
           t == RemoveAt(s, i)
<1>1. n \in Nat /\ s[i] \in S
  BY LenProperties, ElementOfSeq
<1>2. /\ t \in Seq(S) /\ Len(t) = n - 1
      /\ \A j \in 1 .. n - 1 : t[j] = IF j < i THEN s[j] ELSE s[j + 1]
  BY RemoveAtFacts
<1> HIDE DEF t
<1>3. InsertAt(t, i, s[i]) = s
  <2> DEFINE u == InsertAt(t, i, s[i])
  <2>1. i \in 1 .. Len(t) + 1
    BY <1>1, <1>2
  <2>2. /\ u \in Seq(S) /\ Len(u) = Len(t) + 1
        /\ \A j \in 1 .. Len(t) + 1 :
             u[j] = IF j < i THEN t[j] ELSE IF j = i THEN s[i] ELSE t[j - 1]
    <3> DEFINE e == s[i]
    <3>1. t \in Seq(S) /\ e \in S
      BY <1>1, <1>2
    <3> HIDE DEF e
    <3>2. /\ InsertAt(t, i, e) \in Seq(S) /\ Len(InsertAt(t, i, e)) = Len(t) + 1
          /\ \A j \in 1 .. Len(t) + 1 :
               InsertAt(t, i, e)[j] = IF j < i THEN t[j] ELSE IF j = i THEN e ELSE t[j - 1]
      BY <2>1, <3>1, InsertAtFacts
    <3> QED BY <3>2 DEF e
  <2> HIDE DEF u
  <2>3. ASSUME NEW j \in 1 .. n PROVE u[j] = s[j]
    <3>1. j \in 1 .. Len(t) + 1
      BY <1>1, <1>2
    <3>2. CASE j < i
      <4>1. j \in 1 .. n - 1
        BY <1>1, <3>2
      <4> QED BY <1>2, <2>2, <3>1, <3>2, <4>1
    <3>3. CASE j = i
      BY <2>2, <3>1, <3>3
    <3>4. CASE i < j
      <4>1. j - 1 \in 1 .. n - 1 /\ ~(j - 1 < i) /\ (j - 1) + 1 = j /\ ~(j < i) /\ j # i
        BY <1>1, <3>4
      <4>2. u[j] = t[j - 1] /\ t[j - 1] = s[(j - 1) + 1]
        BY <1>2, <2>2, <3>1, <4>1
      <4> QED BY <4>1, <4>2
    <3> QED BY <1>1, <3>2, <3>3, <3>4
  <2>4. Len(u) = n
    BY <1>1, <1>2, <2>2
  <2> QED BY <2>2, <2>3, <2>4, SeqEqual DEF u
<1>4. ASSUME i = n PROVE Append(t, s[i]) = s
  <2> DEFINE u == Append(t, s[i])
  <2>1. /\ u \in Seq(S) /\ Len(u) = Len(t) + 1
        /\ \A j \in 1 .. Len(t) : u[j] = t[j]
        /\ u[Len(t) + 1] = s[i]
    BY <1>1, <1>2, AppendProperties
  <2> HIDE DEF u
  <2>2. ASSUME NEW j \in 1 .. n PROVE u[j] = s[j]
    <3>1. CASE j = n
      <4>1. n = Len(t) + 1
        BY <1>1, <1>2
      <4> QED BY <1>4, <2>1, <3>1, <4>1
    <3>2. CASE j # n
      <4>1. j \in 1 .. n - 1 /\ j < i /\ j \in 1 .. Len(t)
        BY <1>1, <1>2, <1>4, <3>2
      <4> QED BY <1>2, <2>1, <4>1
    <3> QED BY <3>1, <3>2
  <2>3. Len(u) = n
    BY <1>1, <1>2, <2>1
  <2> QED BY <2>1, <2>2, <2>3, SeqEqual DEF u
<1> QED BY <1>3, <1>4 DEF t

\* What is left when one group is taken out of a sorted sequence is sorted.
LEMMA RemovalIsSorted ==
    ASSUME NEW S \in SUBSET Nat, IsFiniteSet(S), NEW place \in [S -> Nat], NEW x \in S,
           NEW rest \in [S \ {x} -> Nat], \A y \in S \ {x} : rest[y] = place[y],
           NEW s, IsSortingOf(s, S, place), NEW i \in 1 .. Len(s), s[i] = x
    PROVE  IsSortingOf(RemoveAt(s, i), S \ {x}, rest)
<1> DEFINE n == Len(s)
           t == RemoveAt(s, i)
           from(j) == IF j < i THEN j ELSE j + 1
<1>1. /\ s \in Seq(S) /\ n = Cardinality(S) /\ n \in Nat
      /\ \A j, k \in 1 .. n : /\ j < k => Precedes(place, s[j], s[k])
                              /\ s[j] = s[k] => j = k
  BY SortingFacts
<1>2. /\ t \in Seq(S) /\ Len(t) = n - 1
      /\ \A j \in 1 .. n - 1 : t[j] = IF j < i THEN s[j] ELSE s[j + 1]
  BY <1>1, RemoveAtFacts
<1>3. Cardinality(S \ {x}) = n - 1
  BY <1>1, FS_RemoveElement
<1> HIDE DEF n, t
<1>4. i \in 1 .. n /\ i \in Nat
  BY <1>1 DEF n
<1>5. \A j \in 1 .. n - 1 : from(j) \in 1 .. n /\ from(j) # i /\ t[j] = s[from(j)]
  BY <1>1, <1>2, <1>4
<1>6. \A j, k \in 1 .. n - 1 : j < k => from(j) < from(k)
  BY <1>1, <1>4
<1> HIDE DEF from
<1>7. \A j \in 1 .. n - 1 : t[j] \in S \ {x}
  <2> SUFFICES ASSUME NEW j \in 1 .. n - 1 PROVE t[j] \in S \ {x}
    OBVIOUS
  <2>1. t[j] \in S
    <3>1. j \in 1 .. Len(t)
      BY <1>2
    <3> QED BY <1>2, <3>1, ElementOfSeq
  <2>2. t[j] # x
    BY <1>1, <1>4, <1>5
  <2> QED BY <2>1, <2>2
<1>8. t \in [1 .. n - 1 -> S \ {x}]
  <2>1. t \in [1 .. Len(t) -> S]
    BY <1>2, LenProperties
  <2> QED BY <1>2, <1>7, <2>1
<1>9. ASSUME NEW j \in 1 .. n - 1, NEW k \in 1 .. n - 1, j < k PROVE Precedes(rest, t[j], t[k])
  <2>1. Precedes(place, t[j], t[k])
    BY <1>1, <1>5, <1>6, <1>9
  <2>2. t[j] \in S \ {x} /\ t[k] \in S \ {x}
    BY <1>7
  <2>3. rest[t[j]] = place[t[j]] /\ rest[t[k]] = place[t[k]]
    BY <2>2
  <2> QED BY <2>1, <2>3 DEF Precedes, At, Earlier
<1> QED BY <1>3, <1>8, <1>9 DEF IsSortingOf, t

\* New places that keep the order of every two groups keep the sequence.
LEMMA SameOrder ==
    ASSUME NEW S, NEW place, NEW new, NEW s, IsSortingOf(s, S, place),
           \A x, y \in S : Precedes(place, x, y) => Precedes(new, x, y)
    PROVE  IsSortingOf(s, S, new)
<1>1. \A i \in 1 .. Cardinality(S) : s[i] \in S
  BY DEF IsSortingOf
<1> QED BY <1>1 DEF IsSortingOf

\* Two groups between which nobody stands exchange their places, and so the
\* sequence exchanges two neighbours.
LEMMA ExchangeIsSorted ==
    ASSUME NEW S \in SUBSET Nat, IsFiniteSet(S), NEW place \in [S -> Nat], NEW new \in [S -> Nat],
           NEW x \in S, NEW y \in S, place[x] < place[y],
           new[x] = place[y], new[y] = place[x],
           \A z \in S \ {x, y} : /\ new[z] = place[z]
                                 /\ place[z] < place[x] \/ place[y] < place[z],
           NEW s, IsSortingOf(s, S, place)
    PROVE  \E i \in 1 .. Len(s) - 1 :
              IsSortingOf([s EXCEPT ![i] = s[i + 1], ![i + 1] = s[i]], S, new)
<1> DEFINE n == Len(s)
<1>1. /\ s \in [1 .. n -> S] /\ n = Cardinality(S) /\ n \in Nat
      /\ \A j, k \in 1 .. n : /\ j < k => Precedes(place, s[j], s[k])
                              /\ s[j] = s[k] => j = k
      /\ \A z \in S : \E j \in 1 .. n : s[j] = z
  <2>1. /\ n = Cardinality(S) /\ n \in Nat
        /\ \A j, k \in 1 .. n : /\ j < k => Precedes(place, s[j], s[k])
                                /\ s[j] = s[k] => j = k
        /\ \A z \in S : \E j \in 1 .. n : s[j] = z
    <3>1. n = Cardinality(S) /\ n \in Nat
      BY SortingFacts
    <3>2. \A j, k \in 1 .. n : j < k => Precedes(place, s[j], s[k])
      BY SortingFacts
    <3>3. \A j, k \in 1 .. n : s[j] = s[k] => j = k
      BY SortingFacts
    <3>4. \A z \in S : \E j \in 1 .. n : s[j] = z
      BY SortingFacts
    <3> QED BY <3>1, <3>2, <3>3, <3>4
  <2>2. s \in [1 .. Cardinality(S) -> S]
    BY DEF IsSortingOf
  <2> HIDE DEF n
  <2> QED BY <2>1, <2>2
<1> HIDE DEF n
<1>2. PICK i \in 1 .. n : s[i] = x
  BY <1>1
<1>3. PICK k \in 1 .. n : s[k] = y
  BY <1>1
<1>4. i \in Nat /\ k \in Nat /\ place[x] \in Nat /\ place[y] \in Nat /\ x # y
  BY <1>1
<1>5. i < k
  <2>1. ~Precedes(place, y, x)
    BY <1>4 DEF Precedes, At, Earlier
  <2>2. ~(k < i)
    BY <1>1, <1>2, <1>3, <2>1
  <2> QED BY <1>2, <1>3, <1>4, <2>2
<1>6. \A j \in 1 .. n : place[s[j]] \in Nat /\ s[j] \in S
  BY <1>1
<1>7. \A j, l \in 1 .. n : j < l => place[s[j]] <= place[s[l]]
  <2> SUFFICES ASSUME NEW j \in 1 .. n, NEW l \in 1 .. n, j < l
               PROVE  place[s[j]] <= place[s[l]]
    OBVIOUS
  <2>1. Precedes(place, s[j], s[l])
    BY <1>1
  <2> QED BY <1>6, <2>1 DEF Precedes, At, Earlier
<1>8. k = i + 1
  <2> SUFFICES ASSUME k # i + 1 PROVE FALSE
    OBVIOUS
  <2> DEFINE m == i + 1
  <2>1. m \in 1 .. n /\ i < m /\ m < k /\ m # i /\ m # k
    BY <1>1, <1>4, <1>5
  <2> HIDE DEF m
  <2>2. s[m] \in S \ {x, y}
    BY <1>1, <1>2, <1>3, <2>1
  <2>3. place[x] <= place[s[m]] /\ place[s[m]] <= place[y]
    BY <1>2, <1>3, <1>7, <2>1
  <2>4. place[s[m]] < place[x] \/ place[y] < place[s[m]]
    BY <2>2
  <2>5. place[s[m]] \in Nat
    BY <1>6, <2>1
  <2> QED BY <1>4, <2>3, <2>4, <2>5
<1>9. i \in 1 .. n - 1
  BY <1>1, <1>4, <1>8
<1> DEFINE t == [s EXCEPT ![i] = s[i + 1], ![i + 1] = s[i]]
<1>10. /\ t \in [1 .. n -> S] /\ t[i] = y /\ t[k] = x
       /\ \A j \in 1 .. n \ {i, k} : t[j] = s[j] /\ s[j] \in S \ {x, y}
  BY <1>1, <1>2, <1>3, <1>4, <1>5, <1>8
<1> HIDE DEF t
<1>11. ASSUME NEW j \in 1 .. n, NEW l \in 1 .. n, j < l PROVE Precedes(new, t[j], t[l])
  <2>1. Precedes(place, s[j], s[l])
    BY <1>1, <1>11
  <2>2. CASE j \notin {i, k} /\ l \notin {i, k}
    <3>1. /\ t[j] = s[j] /\ t[l] = s[l]
          /\ new[s[j]] = place[s[j]] /\ new[s[l]] = place[s[l]]
      BY <1>10, <2>2
    <3> QED BY <2>1, <3>1 DEF Precedes, At, Earlier
  <2>3. CASE j \in {i, k} /\ l \in {i, k}
    <3>1. j = i /\ l = k
      BY <1>4, <1>5, <1>11, <2>3
    <3>2. new[t[j]] < new[t[l]]
      BY <1>10, <3>1
    <3> QED BY <3>2 DEF Precedes, At, Earlier
  <2>4. CASE j \in {i, k} /\ l \notin {i, k}
    <3>1. t[l] = s[l] /\ s[l] \in S \ {x, y} /\ l \in Nat
      BY <1>1, <1>10, <2>4
    <3>2. i < l
      BY <1>4, <1>5, <1>11, <2>4, <3>1
    <3>3. place[x] <= place[s[l]]
      BY <1>2, <1>7, <3>2
    <3>4. place[y] < place[s[l]]
      <4>1. place[s[l]] < place[x] \/ place[y] < place[s[l]]
        BY <3>1
      <4>2. place[s[l]] \in Nat
        BY <1>6
      <4> QED BY <1>4, <3>3, <4>1, <4>2
    <3>5. new[t[l]] = place[s[l]] /\ new[t[j]] \in {place[x], place[y]}
      BY <1>10, <2>4, <3>1
    <3>6. new[t[j]] < new[t[l]]
      BY <1>4, <1>6, <3>4, <3>5
    <3> QED BY <3>6 DEF Precedes, At, Earlier
  <2>5. CASE j \notin {i, k} /\ l \in {i, k}
    <3>1. t[j] = s[j] /\ s[j] \in S \ {x, y} /\ j \in Nat
      BY <1>1, <1>10, <2>5
    <3>2. j < k
      BY <1>4, <1>5, <1>11, <2>5, <3>1
    <3>3. place[s[j]] <= place[y]
      BY <1>3, <1>7, <3>2
    <3>4. place[s[j]] < place[x]
      <4>1. place[s[j]] < place[x] \/ place[y] < place[s[j]]
        BY <3>1
      <4>2. place[s[j]] \in Nat
        BY <1>6
      <4> QED BY <1>4, <3>3, <4>1, <4>2
    <3>5. new[t[j]] = place[s[j]] /\ new[t[l]] \in {place[x], place[y]}
      BY <1>10, <2>5, <3>1
    <3>6. new[t[j]] < new[t[l]]
      BY <1>4, <1>6, <3>4, <3>5
    <3> QED BY <3>6 DEF Precedes, At, Earlier
  <2> QED BY <2>2, <2>3, <2>4, <2>5
<1>12. IsSortingOf(t, S, new)
  BY <1>1, <1>10, <1>11 DEF IsSortingOf
<1> QED BY <1>9, <1>12 DEF n, t

\* One group changes its place, but passes nobody.
LEMMA NobodyPassed ==
    ASSUME NEW S \in SUBSET Nat, NEW place \in [S -> Nat], NEW new \in [S -> Nat], NEW x \in S,
           \A z \in S \ {x} : /\ new[z] = place[z]
                              /\ \/ place[z] < place[x] /\ place[z] < new[x]
                                 \/ place[x] < place[z] /\ new[x] < place[z]
    PROVE  \A a, b \in S : Precedes(place, a, b) => Precedes(new, a, b)
<1> SUFFICES ASSUME NEW a \in S, NEW b \in S, Precedes(place, a, b) PROVE Precedes(new, a, b)
  OBVIOUS
<1>1. /\ place[a] \in Nat /\ place[b] \in Nat /\ place[x] \in Nat /\ new[x] \in Nat /\ a # b
      /\ place[a] <= place[b]
  BY DEF Precedes, At, Earlier
<1>2. CASE a # x /\ b # x
  <2>1. new[a] = place[a] /\ new[b] = place[b]
    BY <1>2
  <2> QED BY <2>1 DEF Precedes, At, Earlier
<1>3. CASE a = x
  <2>1. new[b] = place[b] /\ (place[b] < place[x] \/ new[x] < place[b])
    BY <1>1, <1>3
  <2>2. new[a] < new[b]
    BY <1>1, <1>3, <2>1
  <2> QED BY <2>2 DEF Precedes, At, Earlier
<1>4. CASE b = x
  <2>1. new[a] = place[a] /\ (place[x] < place[a] \/ place[a] < new[x])
    BY <1>1, <1>4
  <2>2. new[a] < new[b]
    BY <1>1, <1>4, <2>1
  <2> QED BY <2>2 DEF Precedes, At, Earlier
<1> QED BY <1>2, <1>3, <1>4

\* The places the page is sorted by, and the groups that have none.
Places == [g \in Existing |-> Place(g)]
Unplaced == {g \in Existing : Place(g) = 0}

LEMMA PageNow ==
    ASSUME TypeOK
    PROVE  /\ Existing \in SUBSET Nat /\ IsFiniteSet(Existing) /\ Places \in [Existing -> Nat]
           /\ IsSortingOf(Page, Existing, Places)
           /\ Page \in Seq(Nat) /\ Range(Page) = Existing /\ Len(Page) = Cardinality(Existing)
<1>1. Existing \in SUBSET Nat /\ IsFiniteSet(Existing)
  BY ExistingFacts
<1>2. Places \in [Existing -> Nat]
  <2>1. \A g \in Existing : Place(g) \in Nat
    BY PlaceFacts
  <2> QED BY <2>1 DEF Places
<1>3. Page = InOrder(Lines(Existing, Places))
  <2>1. {<<Place(g), g>> : g \in Existing} = Lines(Existing, Places)
    BY DEF Lines, At, Places
  <2> QED BY <2>1 DEF Page
<1>4. IsSortingOf(Page, Existing, Places)
  BY <1>1, <1>2, <1>3, InOrderIsSorting
<1>5. Page \in Seq(Nat) /\ Range(Page) = Existing /\ Len(Page) = Cardinality(Existing)
  BY <1>1, <1>2, <1>4, SortingFacts
<1> QED BY <1>1, <1>2, <1>4, <1>5

LEMMA PageNext ==
    ASSUME NEW S \in SUBSET Groups, S = Existing', NEW p \in [S -> Nat],
           \A g \in S : Place(g)' = p[g]
    PROVE  /\ S \in SUBSET Nat /\ IsFiniteSet(S) /\ IsSortingOf(Page', S, p)
           /\ Page' = InOrder(Lines(S, p))
           /\ Page' \in Seq(Nat) /\ Range(Page') = S /\ Len(Page') = Cardinality(S)
<1>1. S \in SUBSET Nat /\ IsFiniteSet(S)
  BY GroupsAssumption, FS_Subset DEF GroupsAssumption
<1>2. Page' = InOrder(Lines(S, p))
  <2>1. {<<Place(g)', g>> : g \in S} = Lines(S, p)
    BY DEF Lines, At
  <2>2. Page' = InOrder({<<Place(g)', g>> : g \in S})
    BY DEF Page, InOrder, Before
  <2> QED BY <2>1, <2>2
<1>3. IsSortingOf(Page', S, p)
  BY <1>1, <1>2, InOrderIsSorting
<1>4. Page' \in Seq(Nat) /\ Range(Page') = S /\ Len(Page') = Cardinality(S)
  BY <1>1, <1>3, SortingFacts
<1> QED BY <1>1, <1>2, <1>3, <1>4

\* The operators that GroupList takes from the library are the library's.
LEMMA LibraryOperators ==
    /\ \A s : L!Range(s) = Range(s)
    /\ \A s, i : L!RemoveAt(s, i) = RemoveAt(s, i)
    /\ \A s, i, e : L!InsertAt(s, i, e) = InsertAt(s, i, e)
BY DEF L!Range, Range, L!RemoveAt, RemoveAt, L!InsertAt, InsertAt

LEMMA ListSame ==
    ASSUME Undisturbed, ~disturbed', Existing' = Existing, \A g \in Existing : Place(g)' = Place(g)
    PROVE  UNCHANGED L!lvars
<1>1. {<<Place(g)', g>> : g \in Existing'} = {<<Place(g), g>> : g \in Existing}
  OBVIOUS
<1>2. Page' = InOrder({<<Place(g)', g>> : g \in Existing'})
  BY DEF Page, InOrder, Before
<1>3. Page' = Page
  BY <1>1, <1>2 DEF Page
<1>4. {g \in Existing : Place(g) = 0}' = {g \in Existing : Place(g) = 0}
  OBVIOUS
<1>5. (~disturbed)' = ~disturbed
  BY DEF Undisturbed
<1> QED BY <1>3, <1>4, <1>5 DEF L!lvars

LEMMA ListReorder ==
    ASSUME Undisturbed, ~disturbed', Existing' = Existing,
           \A g \in Existing : Place(g)' \in Nat, Unplaced # {}
    PROVE  L!Next
<1>1. Existing' \in SUBSET Groups
  BY DEF Existing
<1> DEFINE p == [g \in Existing |-> Place(g)']
<1>2. p \in [Existing -> Nat] /\ \A g \in Existing : Place(g)' = p[g]
  OBVIOUS
<1> HIDE DEF p
<1>3. Range(Page') = Existing /\ Len(Page') = Cardinality(Existing)
  BY <1>1, <1>2, PageNext
<1>4. Range(Page) = Existing /\ Len(Page) = Cardinality(Existing)
  BY PageNow DEF Undisturbed
<1>5. {g \in Existing : Place(g) = 0}' \subseteq Existing
  OBVIOUS
<1>6. (~disturbed)' = ~disturbed
  BY DEF Undisturbed
<1>7. L!Reorder
  BY <1>3, <1>4, <1>5, LibraryOperators DEF L!Reorder, Unplaced
<1> QED BY <1>6, <1>7 DEF L!Next

\* s, sorted by p, is r with x at position i.
IsOneMore(s, r, S, x, p, i) ==
    /\ s[i] = x /\ r = RemoveAt(s, i) /\ s = InsertAt(r, i, x)
    /\ i = Len(s) => s = Append(r, x)
    /\ i \in 1 .. Len(r) + 1
    /\ \A j \in 1 .. i - 1 : r[j] \in S /\ Precedes(p, r[j], x)
    /\ i # Len(s) => \E y \in S : Precedes(p, x, y)

LEMMA OneMore ==
    ASSUME NEW T \in SUBSET Nat, IsFiniteSet(T), NEW p \in [T -> Nat], NEW x \in T,
           NEW q \in [T \ {x} -> Nat], \A h \in T \ {x} : q[h] = p[h],
           NEW s, IsSortingOf(s, T, p), NEW r, IsSortingOf(r, T \ {x}, q)
    PROVE  \E i \in 1 .. Len(s) : IsOneMore(s, r, T \ {x}, x, p, i)
<1> DEFINE n == Len(s)
<1>1. s \in Seq(T) /\ n \in Nat
  BY SortingFacts
<1>2. \A j, k \in 1 .. n : j < k => Precedes(p, s[j], s[k])
  BY SortingFacts
<1>3. \A j, k \in 1 .. n : s[j] = s[k] => j = k
  BY SortingFacts
<1>4. PICK i \in 1 .. n : s[i] = x
  <2>1. \A y \in T : \E j \in 1 .. n : s[j] = y
    BY SortingFacts
  <2> QED BY <2>1
<1>5. \A j \in 1 .. n : s[j] \in T
  BY <1>1, ElementOfSeq
<1>6. r = RemoveAt(s, i)
  <2>1. IsSortingOf(RemoveAt(s, i), T \ {x}, q)
    BY <1>4, RemovalIsSorted
  <2>2. T \ {x} \in SUBSET Nat /\ IsFiniteSet(T \ {x})
    BY FS_RemoveElement
  <2> QED BY <2>1, <2>2, SortingIsUnique
<1>7. s = InsertAt(r, i, x) /\ (i = n => s = Append(r, x))
  BY <1>1, <1>4, <1>6, InsertionUndoesRemoval
<1>8. Len(r) = n - 1 /\ \A j \in 1 .. n - 1 : j < i => r[j] = s[j]
  BY <1>1, <1>4, <1>6, RemoveAtFacts
<1> HIDE DEF n
<1>9. i \in 1 .. Len(r) + 1
  BY <1>1, <1>4, <1>8
<1>10. ASSUME NEW j \in 1 .. i - 1 PROVE r[j] \in T \ {x} /\ Precedes(p, r[j], x)
  <2>1. j \in 1 .. n /\ j < i /\ j \in 1 .. n - 1 /\ j # i
    BY <1>1, <1>4
  <2>2. r[j] = s[j] /\ s[j] \in T /\ s[j] # x
    BY <1>3, <1>4, <1>5, <1>8, <2>1
  <2> QED BY <1>2, <1>4, <2>1, <2>2
<1>11. ASSUME i # n PROVE \E y \in T \ {x} : Precedes(p, x, y)
  <2>1. n \in 1 .. n /\ i < n
    BY <1>1, <1>4, <1>11
  <2>2. s[n] \in T /\ s[n] # x /\ Precedes(p, x, s[n])
    BY <1>2, <1>3, <1>4, <1>5, <2>1
  <2> QED BY <2>2
<1>12. IsOneMore(s, r, T \ {x}, x, p, i)
  BY <1>4, <1>6, <1>7, <1>9, <1>10, <1>11 DEF n, IsOneMore
<1> QED BY <1>4, <1>12 DEF n

LEMMA ListInsert ==
    ASSUME Undisturbed, ~disturbed', NEW c \in Clients, InsertGroup(c) PROVE L!Next
<1> DEFINE S == Existing
<1>1. PICK k \in Calls : k = call[c]
  BY DEF Undisturbed, TypeOK
<1> DEFINE x == k.id
           T == S \cup {x}
           p == [g \in T |-> Place(g)']
<1>2. /\ T = Existing' /\ x \in Groups \ S
      /\ \A h \in S : Place(h)' = Place(h) /\ Place(h) < Place(x)'
      /\ Place(x)' \in 1 .. MaxOrder
  BY <1>1, InsertOrder
<1>3. /\ S \in SUBSET Nat /\ IsFiniteSet(S) /\ Places \in [S -> Nat]
      /\ IsSortingOf(Page, S, Places) /\ Range(Page) = S
  BY PageNow DEF Undisturbed
<1>4. p \in [T -> Nat] /\ \A h \in S : p[h] = Places[h] /\ Places[h] < p[x]
  <2>1. \A h \in S : Places[h] = Place(h) /\ Places[h] \in Nat
    BY <1>3 DEF Places
  <2>2. \A h \in T : Place(h)' \in Nat
    BY <1>2, <2>1
  <2> QED BY <1>2, <2>1, <2>2
<1>5. \A g \in T : Place(g)' = p[g]
  OBVIOUS
<1>6. T \ {x} = S /\ x \in T /\ T \in SUBSET Groups
  BY <1>2 DEF Existing
<1> HIDE DEF p, T, x
<1>7. /\ T \in SUBSET Nat /\ IsFiniteSet(T) /\ IsSortingOf(Page', T, p) /\ Range(Page') = T
  BY <1>2, <1>4, <1>5, <1>6, PageNext
<1>8. PICK i \in 1 .. Len(Page') : IsOneMore(Page', Page, S, x, p, i)
  <2>1. IsSortingOf(Page, T \ {x}, Places) /\ Places \in [T \ {x} -> Nat]
    BY <1>3, <1>6
  <2>2. \A h \in T \ {x} : Places[h] = p[h]
    BY <1>4, <1>6
  <2>3. \E i \in 1 .. Len(Page') : IsOneMore(Page', Page, T \ {x}, x, p, i)
    BY <1>4, <1>6, <1>7, <2>1, <2>2, OneMore
  <2> QED BY <1>6, <2>3
<1>9. \A y \in S : ~Precedes(p, x, y)
  <2>1. \A y \in S : p[y] \in Nat /\ p[x] \in Nat /\ p[y] < p[x]
    BY <1>3, <1>4, <1>6
  <2> QED BY <2>1 DEF Precedes, At, Earlier
<1>10. Page' = Append(Page, x)
  BY <1>8, <1>9 DEF IsOneMore
<1>11. {g \in Existing : Place(g) = 0}' = {g \in Existing : Place(g) = 0}
  BY <1>2 DEF T
<1>12. x \in L!Range(Page') \ L!Range(Page)
  BY <1>2, <1>3, <1>6, <1>7, LibraryOperators
<1>13. (~disturbed)' = ~disturbed
  BY DEF Undisturbed
<1>14. L!AddLast(x)
  BY <1>10, <1>11 DEF L!AddLast
<1> QED BY <1>12, <1>13, <1>14 DEF L!Next

LEMMA ListDelete ==
    ASSUME Undisturbed, ~disturbed', NEW c \in Clients, NEW x \in Groups, DeleteGroup(c, x)
    PROVE  L!Next
<1> DEFINE T == Existing
           S == T \ {x}
           p == [g \in S |-> Place(g)]
<1>1. S = Existing' /\ x \in T /\ \A h \in S : Place(h)' = Place(h)
  BY DeleteOrder
<1>2. /\ T \in SUBSET Nat /\ IsFiniteSet(T) /\ Places \in [T -> Nat]
      /\ IsSortingOf(Page, T, Places) /\ Range(Page) = T
  BY PageNow DEF Undisturbed
<1>3. p \in [S -> Nat] /\ \A h \in S : p[h] = Places[h]
  <2>1. \A h \in S : Places[h] = Place(h) /\ Places[h] \in Nat
    BY <1>2 DEF Places
  <2> QED BY <2>1
<1>4. S \in SUBSET Groups /\ \A g \in S : Place(g)' = p[g]
  BY <1>1 DEF Existing
<1> HIDE DEF p
<1>5. IsSortingOf(Page', S, p) /\ Range(Page') = S
  BY <1>1, <1>3, <1>4, PageNext
<1>6. PICK i \in 1 .. Len(Page) : Page[i] = x /\ Page' = RemoveAt(Page, i)
  <2>1. \E i \in 1 .. Len(Page) : IsOneMore(Page, Page', T \ {x}, x, Places, i)
    BY <1>1, <1>2, <1>3, <1>5, OneMore
  <2> QED BY <2>1 DEF IsOneMore
<1>7. {g \in Existing : Place(g) = 0}' = {g \in Existing : Place(g) = 0} \ {x}
  BY <1>1
<1>8. x \in L!Range(Page) \ L!Range(Page')
  BY <1>1, <1>2, <1>5, LibraryOperators
<1>9. (~disturbed)' = ~disturbed
  BY DEF Undisturbed
<1>10. L!TakeOut(x)
  BY <1>6, <1>7, LibraryOperators DEF L!TakeOut
<1> QED BY <1>8, <1>9, <1>10 DEF L!Next

LEMMA ListImport ==
    ASSUME Undisturbed, ~disturbed', NEW c \in Clients, ImportGroup(c)
    PROVE  L!Next \/ UNCHANGED L!lvars
<1>1. PICK x \in Groups : x = Head(call[c].rest)
  <2>1. Head(call[c].rest) \in Groups
    BY CallFacts, FileFacts DEF ImportGroup, Undisturbed
  <2> QED BY <2>1
<1>2. /\ \A h \in Existing : Place(h)' = Place(h)
      /\ \/ Existing' = Existing
         \/ x \notin Existing /\ Existing' = Existing \cup {x} /\ Place(x)' = 0
  BY <1>1, ImportOrder
<1>3. CASE Existing' = Existing
  BY <1>2, <1>3, ListSame
<1>4. CASE x \notin Existing /\ Existing' = Existing \cup {x} /\ Place(x)' = 0
  <2> DEFINE S == Existing
             T == S \cup {x}
             p == [g \in T |-> Place(g)']
  <2>1. /\ S \in SUBSET Nat /\ IsFiniteSet(S) /\ Places \in [S -> Nat]
        /\ IsSortingOf(Page, S, Places) /\ Range(Page) = S
    BY PageNow DEF Undisturbed
  <2>2. \A h \in S : Places[h] = Place(h) /\ Places[h] \in Nat
    BY <2>1 DEF Places
  <2>3. p \in [T -> Nat] /\ p[x] = 0 /\ \A h \in S : p[h] = Places[h]
    <3>1. \A h \in T : Place(h)' \in Nat
      BY <1>2, <1>4, <2>2
    <3> QED BY <1>2, <1>4, <2>2, <3>1
  <2>4. \A g \in T : Place(g)' = p[g]
    OBVIOUS
  <2>5. T \ {x} = S /\ x \in T /\ T \in SUBSET Groups /\ T = Existing'
    BY <1>4 DEF Existing
  <2> HIDE DEF p, T
  <2>6. /\ T \in SUBSET Nat /\ IsFiniteSet(T) /\ IsSortingOf(Page', T, p) /\ Range(Page') = T
    BY <2>3, <2>4, <2>5, PageNext
  <2>7. PICK i \in 1 .. Len(Page') : IsOneMore(Page', Page, S, x, p, i)
    <3>1. IsSortingOf(Page, T \ {x}, Places) /\ Places \in [T \ {x} -> Nat]
      BY <2>1, <2>5
    <3>2. \A h \in T \ {x} : Places[h] = p[h]
      BY <2>3, <2>5
    <3>3. \E i \in 1 .. Len(Page') : IsOneMore(Page', Page, T \ {x}, x, p, i)
      BY <2>3, <2>5, <2>6, <3>1, <3>2, OneMore
    <3> QED BY <2>5, <3>3
  <2>8. ASSUME NEW j \in 1 .. i - 1 PROVE Page[j] \in {g \in Existing : Place(g) = 0}
    <3>1. Page[j] \in S /\ Precedes(p, Page[j], x)
      BY <2>7 DEF IsOneMore
    <3>2. p[Page[j]] = Place(Page[j]) /\ p[Page[j]] \in Nat
      BY <2>2, <2>3, <3>1
    <3>3. p[Page[j]] = 0
      BY <2>3, <3>1, <3>2 DEF Precedes, At, Earlier
    <3> QED BY <3>1, <3>2, <3>3
  <2>9. {g \in Existing : Place(g) = 0}' = {g \in Existing : Place(g) = 0} \cup {x}
    BY <1>2, <1>4
  <2>10. x \in L!Range(Page') \ L!Range(Page)
    BY <1>4, <2>1, <2>5, <2>6, LibraryOperators
  <2>11. (~disturbed)' = ~disturbed
    BY DEF Undisturbed
  <2>12. L!Import(x)
    BY <2>7, <2>8, <2>9, LibraryOperators DEF L!Import, IsOneMore
  <2> QED BY <2>10, <2>11, <2>12 DEF L!Next
<1> QED BY <1>2, <1>3, <1>4

LEMMA ListFirst ==
    ASSUME Undisturbed, ~disturbed', NEW c \in Clients, FirstUpdate(c)
    PROVE  L!Next \/ UNCHANGED L!lvars
<1>1. PICK k \in Calls : k = call[c]
  BY DEF Undisturbed, TypeOK
<1>2. /\ Existing' = Existing
      /\ \A g \in Existing \ {k.id} : Place(g)' = Place(g)
      /\ k.id \in Existing => Place(k.id) \in {0, k.cur} /\ Place(k.id)' = k.cur
  BY <1>1, FirstOrder
<1>3. \A g \in Existing : Place(g) \in Nat
  BY PlaceFacts DEF Undisturbed
<1>4. CASE \A g \in Existing : Place(g)' = Place(g)
  BY <1>2, <1>4, ListSame
<1>5. CASE k.id \in Existing /\ Place(k.id)' # Place(k.id)
  <2>1. k.id \in Unplaced
    BY <1>2, <1>5 DEF Unplaced
  <2>2. \A g \in Existing : Place(g)' \in Nat
    <3>1. k.cur \in 0 .. MaxOrder
      BY <1>1, CallFacts DEF FirstUpdate, Undisturbed
    <3> QED BY <1>2, <1>3, <3>1
  <2> QED BY <1>2, <2>1, <2>2, ListReorder
<1> QED BY <1>2, <1>4, <1>5

LEMMA ListRestart ==
    ASSUME Undisturbed, ~disturbed', Restart PROVE L!Next \/ UNCHANGED L!lvars
<1>1. /\ Existing' = Existing
      /\ \A h \in Existing : Place(h) # 0 => Place(h)' = Place(h)
  BY RestartOrder
<1>2. CASE Unplaced = {}
  <2>1. \A h \in Existing : Place(h)' = Place(h)
    BY <1>1, <1>2 DEF Unplaced
  <2> QED BY <1>1, <2>1, ListSame
<1>3. CASE Unplaced # {}
  <2>1. \A h \in Existing : Place(h)' = Numbered[h].order
    <3>1. \A d \in Clients : call'[d].pc # "second"
      BY DEF Restart, Idle
    <3>2. \A h \in Groups : Place(h)' = group'[h].order
      BY <3>1 DEF Place
    <3> QED BY <3>2 DEF Restart, Existing
  <2>2. \A h \in Existing : Place(h)' \in Nat
    BY <2>1, NumberedFacts, ExistingFacts DEF Undisturbed
  <2> QED BY <1>1, <1>3, <2>2, ListReorder
<1> QED BY <1>2, <1>3

\* The second UPDATE, when every group has a place.  If one of the two groups
\* has been deleted since, the other passes nobody.
LEMMA ListSecondPlaced ==
    ASSUME Undisturbed, ~disturbed', NEW c \in Clients, SecondUpdate(c), Unplaced = {}
    PROVE  L!Next \/ UNCHANGED L!lvars
<1>1. PICK k \in Calls : k = call[c]
  BY DEF Undisturbed, TypeOK
<1> DEFINE S == Existing
           m == k.cur
           n == k.adjOrder
           p == [g \in S |-> Place(g)']
<1>2. /\ Existing' = S
      /\ \A g \in S \ {k.id, k.adj} : Place(g)' = Place(g) /\ Place(g) = group[g].order
      /\ k.id = k.adj => \A g \in S : Place(g)' = Place(g)
      /\ k.id # k.adj /\ k.id \in S => Place(k.id) = m /\ Place(k.id)' = n
      /\ k.id # k.adj /\ k.adj \in S => Place(k.adj) \in {0, n} /\ Place(k.adj)' = m
  BY <1>1, SecondOrder
<1>3. /\ S \in SUBSET Nat /\ IsFiniteSet(S) /\ Places \in [S -> Nat]
      /\ IsSortingOf(Page, S, Places)
  BY PageNow DEF Undisturbed
<1>4. /\ k.pc = "second" /\ Moving(k) /\ m \in Nat /\ n \in Nat
  <2>1. k.pc = "second" /\ TypeOK
    BY <1>1 DEF SecondUpdate, Undisturbed
  <2>2. Moving(k)
    BY <1>1, <2>1 DEF Undisturbed, Orderly
  <2>3. k.cur \in Nat /\ k.adjOrder \in Nat
    <3>1. call[c].pc = "second"
      BY <1>1, <2>1
    <3>2. call[c].cur \in 0 .. MaxOrder /\ call[c].adjOrder \in 0 .. MaxOrder
      BY <2>1, <3>1, CallFacts
    <3> QED BY <1>1, <3>2
  <2> QED BY <2>1, <2>2, <2>3
<1>5. \A g \in S : Places[g] = Place(g) /\ Place(g) \in Nat \ {0}
  BY <1>3 DEF Places, Unplaced
<1>6. CASE \A g \in S : Place(g)' = Place(g)
  BY <1>2, <1>6, ListSame
<1>7. CASE k.id # k.adj /\ (k.id \in S \/ k.adj \in S)
  <2>1. m # 0 /\ n # 0 /\ m # n
    <3>1. m # n
      BY <1>4 DEF Moving, Neighbouring
    <3>2. m # 0
      BY <1>2, <1>4, <1>5, <1>7 DEF Moving
    <3>3. n # 0
      BY <1>2, <1>4, <1>5, <1>7 DEF Moving, Keeps
    <3> QED BY <3>1, <3>2, <3>3
  <2>2. ASSUME NEW z \in S \ {k.id, k.adj}
        PROVE  (Places[z] < m /\ Places[z] < n) \/ (m < Places[z] /\ n < Places[z])
    <3>1. Places[z] = group[z].order /\ Places[z] \in Nat
      BY <1>2, <1>5
    <3>2. Places[z] # m /\ Places[z] # n
      BY <1>4, <2>1, <3>1 DEF Moving, Alone
    <3>3. /\ ~(m < Places[z] /\ Places[z] < n)
          /\ ~(n < Places[z] /\ Places[z] < m)
      BY <1>4, <3>1 DEF Moving, Neighbouring
    <3> QED BY <1>4, <3>1, <3>2, <3>3
  <2>3. /\ \A z \in S \ {k.id, k.adj} : p[z] = Places[z]
        /\ k.id \in S => Places[k.id] = m /\ p[k.id] = n
        /\ k.adj \in S => Places[k.adj] = n /\ p[k.adj] = m
    BY <1>2, <1>5, <1>7
  <2>4. p \in [S -> Nat]
    <3>1. \A g \in S : Place(g)' \in Nat
      BY <1>2, <1>4, <1>5, <1>7
    <3> QED BY <3>1
  <2>5. S \in SUBSET Groups /\ \A g \in S : Place(g)' = p[g]
    BY DEF Existing
  <2> HIDE DEF p, m, n
  <2>6. IsSortingOf(Page', S, p)
    BY <1>2, <2>4, <2>5, PageNext
  <2>7. {g \in Existing : Place(g) = 0}' = {} /\ {g \in Existing : Place(g) = 0} = {}
    <3>1. \A g \in S : p[g] # 0
      BY <1>5, <2>1, <2>3
    <3> QED BY <1>2, <1>5, <2>5, <3>1
  <2>8. (~disturbed)' = ~disturbed
    BY DEF Undisturbed
  <2>9. CASE ~(k.id \in S /\ k.adj \in S)
    <3>1. PICK x \in S : x \in {k.id, k.adj} /\ \A z \in S \ {x} : z \notin {k.id, k.adj}
      BY <1>7, <2>9
    <3>2. {Places[x], p[x]} = {m, n}
      BY <2>3, <3>1
    <3>3. \A z \in S \ {x} : /\ p[z] = Places[z]
                             /\ \/ Places[z] < Places[x] /\ Places[z] < p[x]
                                \/ Places[x] < Places[z] /\ p[x] < Places[z]
      BY <2>2, <2>3, <3>1
    <3>4. \A a, b \in S : Precedes(Places, a, b) => Precedes(p, a, b)
      BY <1>3, <2>4, <3>3, NobodyPassed
    <3>5. IsSortingOf(Page, S, p)
      BY <1>3, <3>4, SameOrder
    <3>6. Page' = Page
      BY <1>3, <2>4, <2>6, <3>5, SortingIsUnique
    <3> QED BY <2>7, <2>8, <3>6 DEF L!lvars
  <2>10. CASE k.id \in S /\ k.adj \in S
    <3>1. \E x, y \in S : /\ Places[x] < Places[y] /\ p[x] = Places[y] /\ p[y] = Places[x]
                          /\ {x, y} = {k.id, k.adj}
      <4>1. CASE m < n
        BY <2>3, <2>10, <4>1
      <4>2. CASE n < m
        BY <2>3, <2>10, <4>2
      <4> QED BY <1>4, <2>1, <4>1, <4>2 DEF m, n
    <3>2. PICK x \in S, y \in S : /\ Places[x] < Places[y] /\ p[x] = Places[y] /\ p[y] = Places[x]
                                  /\ {x, y} = {k.id, k.adj}
      BY <3>1
    <3>3. \A z \in S \ {x, y} : /\ p[z] = Places[z]
                                /\ Places[z] < Places[x] \/ Places[y] < Places[z]
      BY <2>2, <2>3, <3>2
    <3>4. PICK i \in 1 .. Len(Page) - 1 :
             IsSortingOf([Page EXCEPT ![i] = Page[i + 1], ![i + 1] = Page[i]], S, p)
      BY <1>3, <2>4, <3>2, <3>3, ExchangeIsSorted
    <3>5. Page' = [Page EXCEPT ![i] = Page[i + 1], ![i + 1] = Page[i]]
      BY <1>3, <2>4, <2>6, <3>4, SortingIsUnique
    <3>6. L!Exchange
      BY <2>7, <3>5 DEF L!Exchange
    <3> QED BY <2>8, <3>6 DEF L!Next
  <2> QED BY <2>9, <2>10
<1> QED BY <1>2, <1>6, <1>7

LEMMA ListSecond ==
    ASSUME Undisturbed, ~disturbed', NEW c \in Clients, SecondUpdate(c)
    PROVE  L!Next \/ UNCHANGED L!lvars
<1>1. CASE Unplaced = {}
  BY <1>1, ListSecondPlaced
<1>2. CASE Unplaced # {}
  <2>1. PICK k \in Calls : k = call[c]
    BY DEF Undisturbed, TypeOK
  <2>2. /\ Existing' = Existing
        /\ \A g \in Existing \ {k.id, k.adj} : Place(g)' = Place(g)
        /\ k.id = k.adj => \A g \in Existing : Place(g)' = Place(g)
        /\ k.id # k.adj /\ k.id \in Existing => Place(k.id)' = k.adjOrder
        /\ k.id # k.adj /\ k.adj \in Existing => Place(k.adj)' = k.cur
    BY <2>1, SecondOrder
  <2>3. k.cur \in Nat /\ k.adjOrder \in Nat
    <3>1. call[c].pc = "second" /\ TypeOK
      BY DEF SecondUpdate, Undisturbed
    <3>2. call[c].cur \in 0 .. MaxOrder /\ call[c].adjOrder \in 0 .. MaxOrder
      BY <3>1, CallFacts
    <3> QED BY <2>1, <3>2
  <2>4. \A g \in Existing : Place(g) \in Nat
    BY PlaceFacts DEF Undisturbed
  <2>5. \A g \in Existing : Place(g)' \in Nat
    BY <2>2, <2>3, <2>4
  <2> QED BY <1>2, <2>2, <2>5, ListReorder
<1> QED BY <1>1, <1>2

LEMMA ListStep ==
    TypeOK /\ Orderly /\ PlacesDistinct /\ [Next]_vars => [L!Next]_(L!lvars)
<1> SUFFICES ASSUME TypeOK, Orderly, PlacesDistinct, [Next]_vars
             PROVE  L!Next \/ UNCHANGED L!lvars
  OBVIOUS
<1>1. CASE UNCHANGED vars
  <2>1. UNCHANGED <<group, call, disturbed>>
    BY <1>1 DEF vars
  <2>2. Existing' = Existing /\ \A g \in Existing : Place(g)' = Place(g)
    BY <2>1 DEF Existing, Place
  <2>3. Page' = Page
    BY <2>1 DEF Page, Existing, Place, InOrder, Before
  <2> QED BY <2>1, <2>2, <2>3 DEF L!lvars
<1>2. CASE disturbed'
  BY <1>2 DEF L!Next
<1>3. CASE Next /\ ~disturbed'
  <2>1. Undisturbed
    <3>1. disturbed => disturbed'
      BY <1>3 DEF Next, CreateGroup, InsertGroup, MoveGroup, FindAdjacent, FirstUpdate,
                  SecondUpdate, DeleteGroup, StartImport, ImportGroup, Restart
    <3> QED BY <1>3, <3>1 DEF Undisturbed, Orderly
  <2>2. ASSUME NEW c \in Clients, NEW g \in Groups, NEW up \in BOOLEAN,
               CreateGroup(c, g) \/ MoveGroup(c, g, up)
        PROVE  UNCHANGED L!lvars
    <3>1. /\ UNCHANGED group /\ call[c].pc = "idle"
          /\ \A d \in Clients \ {c} : call'[d] = call[d]
          /\ call'[c].pc \in {"insert", "adjacent"}
      BY <2>2 DEF CreateGroup, MoveGroup, TypeOK, Idle
    <3>2. Existing' = Existing /\ \A h \in Groups : Place(h)' = Place(h)
      BY <3>1, PlacesStay
    <3> QED BY <1>3, <2>1, <3>2, ListSame DEF Existing
  <2>3. ASSUME NEW c \in Clients, FindAdjacent(c) PROVE UNCHANGED L!lvars
    <3>1. call[c] \in Calls
      BY DEF TypeOK
    <3>2. Existing' = Existing /\ \A h \in Groups : Place(h)' = Place(h)
      BY <2>1, <2>3, <3>1, FindOrder
    <3> QED BY <1>3, <2>1, <3>2, ListSame DEF Existing
  <2>4. ASSUME NEW c \in Clients, StartImport(c) PROVE UNCHANGED L!lvars
    BY <1>3, <2>1, <2>4, StartImportOrder, ListSame DEF Existing
  <2>5. ASSUME NEW c \in Clients, NEW g \in Groups, DeleteGroup(c, g) PROVE L!Next
    BY <1>3, <2>1, <2>5, ListDelete
  <2>6. ASSUME NEW c \in Clients,
               InsertGroup(c) \/ FirstUpdate(c) \/ SecondUpdate(c) \/ ImportGroup(c)
        PROVE  L!Next \/ UNCHANGED L!lvars
    BY <1>3, <2>1, <2>6, ListInsert, ListFirst, ListSecond, ListImport
  <2>7. CASE Restart
    BY <1>3, <2>1, <2>7, ListRestart
  <2> QED BY <1>3, <2>2, <2>3, <2>4, <2>5, <2>6, <2>7 DEF Next
<1> QED BY <1>1, <1>2, <1>3

\* Groups implements GroupList: whatever requests and restarts overlap, until a
\* disturbance the page is a list to which new groups are appended, imported
\* ones inserted before the placed ones, in which a move exchanges two
\* neighbours, and which a delete or a restart does not reorder.
THEOREM GroupsImplementList == Spec => ListSpec
<1>1. Init => L!Init
  <2> SUFFICES ASSUME Init PROVE L!Init
    OBVIOUS
  <2>1. Existing = {} /\ ~disturbed
    BY DEF Init, Existing
  <2>2. {<<Place(g), g>> : g \in Existing} = {}
    BY <2>1
  <2>3. Page = <<>>
    <3>1. Cardinality({}) = 0
      BY FS_EmptySet
    <3>2. Page = InOrder({})
      BY <2>2 DEF Page
    <3> QED BY <3>1, <3>2 DEF InOrder
  <2> QED BY <2>1, <2>3 DEF L!Init
<1> QED BY <1>1, ListStep, OrderlyInvariant, PTL DEF Spec, ListSpec, L!Spec

=============================================================================
