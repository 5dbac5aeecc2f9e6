----------------------------- MODULE Setup_proofs -----------------------------
(***************************************************************************)
(* Proofs about module Setup, for lists of any length with any constants:  *)
(* the three tables stay in step, and a list that is in order reaches      *)
(* subword whole.                                                          *)
(***************************************************************************)
EXTENDS Setup, FiniteSetTheorems, TLAPS

(* Tables and borders. *)

LEMMA StoreField ==
    ASSUME NEW t, NEW x, NEW v
    PROVE  /\ DOMAIN Store(t, x, v) = DOMAIN t \cup {x}
           /\ Store(t, x, v)[x] = v
           /\ \A y \in DOMAIN t : y # x => Store(t, x, v)[y] = t[y]
  BY DEF Store

\* A table without holes has one border.
LEMMA OneBorder ==
    ASSUME NEW t, NEW m \in Nat, DOMAIN t = 1..m
    PROVE  Borders(t) = {m}
  BY DEF Borders

\* table.insert takes no other's place.
LEMMA BorderFree ==
    ASSUME NEW t, DOMAIN t \subseteq Nat \ {0}, NEW b \in Borders(t)
    PROVE  b \in Nat /\ b + 1 \in Nat \ {0} /\ b + 1 \notin DOMAIN t
  BY DEF Borders

(* The places of the entries of a list. *)

LEMMA EntriesFinite ==
    ASSUME list \in Seq(Line)
    PROVE  /\ Entries \subseteq 1..Len(list) /\ IsFiniteSet(Entries)
           /\ Cardinality(Entries) \in Nat
  <1>1. Len(list) \in Nat /\ DOMAIN list = 1..Len(list)
    OBVIOUS
  <1>2. Entries \subseteq 1..Len(list)
    BY <1>1 DEF Entries
  <1>3. IsFiniteSet(1..Len(list))
    BY <1>1, FS_Interval
  <1> QED BY <1>2, <1>3, FS_Subset, FS_CardinalityType

\* The numbers in a set, counted from below.
CountTo(E, m) == Cardinality({j \in E : j <= m})

LEMMA Counting ==
    ASSUME NEW L \in Nat, NEW E \in SUBSET (1..L), NEW k \in Nat
    PROVE  /\ CountTo(E, k) \in Nat
           /\ \A m \in E : m <= k => CountTo(E, m) \in 1..CountTo(E, k)
           /\ k + 1 \in E => CountTo(E, k + 1) = CountTo(E, k) + 1
           /\ k + 1 \notin E => CountTo(E, k + 1) = CountTo(E, k)
           /\ k >= L => CountTo(E, k) = Cardinality(E)
           /\ CountTo(E, 0) = 0
  <1> DEFINE UpTo(m) == {j \in E : j <= m}
  <1>1. IsFiniteSet(E)
    <2>1. IsFiniteSet(1..L)
      BY FS_Interval
    <2> QED BY <2>1, FS_Subset
  <1>0. \A j \in E : j \in Nat /\ 1 <= j /\ j <= L
    OBVIOUS
  <1>2. ASSUME NEW m PROVE IsFiniteSet(UpTo(m)) /\ Cardinality(UpTo(m)) \in Nat
    <2>1. UpTo(m) \in SUBSET E
      OBVIOUS
    <2> QED BY <1>1, <2>1, FS_Subset, FS_CardinalityType
  <1>3. ASSUME NEW m \in E, m <= k
        PROVE  Cardinality(UpTo(m)) \in 1..Cardinality(UpTo(k))
    <2>0. m <= m /\ \A j \in E : j <= m => j <= k
      BY <1>0, <1>3
    <2>1. UpTo(m) \in SUBSET UpTo(k) /\ m \in UpTo(m)
      BY <2>0, Zenon
    <2> HIDE DEF UpTo
    <2>2. Cardinality(UpTo(m)) <= Cardinality(UpTo(k))
      BY <1>2, <2>1, FS_Subset
    <2>3. Cardinality(UpTo(m)) # 0
      BY <1>2, <2>1, FS_EmptySet
    <2> QED BY <1>2, <2>2, <2>3
  <1>4. /\ k + 1 \in E => Cardinality(UpTo(k + 1)) = Cardinality(UpTo(k)) + 1
        /\ k + 1 \notin E => Cardinality(UpTo(k + 1)) = Cardinality(UpTo(k))
    <2>1. CASE k + 1 \in E
      <3>0. /\ \A j \in E : j <= k + 1 <=> j <= k \/ j = k + 1
            /\ k + 1 <= k + 1 /\ ~(k + 1 <= k)
        BY <1>0
      <3>1. UpTo(k + 1) = UpTo(k) \cup {k + 1} /\ k + 1 \notin UpTo(k)
        BY <2>1, <3>0, Zenon
      <3> HIDE DEF UpTo
      <3> QED BY <1>2, <2>1, <3>1, FS_AddElement
    <2>2. CASE k + 1 \notin E
      <3>0. \A j \in E : j <= k + 1 <=> j <= k \/ j = k + 1
        BY <1>0
      <3>1. UpTo(k + 1) = UpTo(k)
        BY <2>2, <3>0, Zenon
      <3> HIDE DEF UpTo
      <3> QED BY <1>2, <2>2, <3>1
    <2> QED BY <2>1, <2>2
  <1>5. k >= L => UpTo(k) = E
    <2>1. k >= L => \A j \in E : j <= k
      BY <1>0
    <2> QED BY <2>1, Zenon
  <1>6. UpTo(0) = {}
    <2>1. \A j \in E : ~(j <= 0)
      BY <1>0
    <2> QED BY <2>1, Zenon
  <1>7. Cardinality(UpTo(0)) = 0
    BY <1>6, FS_EmptySet
  <1> QED BY <1>2, <1>3, <1>4, <1>5, <1>7 DEF CountTo

\* An entry comes behind all entries before it, and directly behind them.
LEMMA Places ==
    ASSUME list \in Seq(Line), NEW k \in Nat
    PROVE  /\ Place(k) \in Nat
           /\ \A j \in Entries : j <= k => Place(j) \in 1..Place(k)
           /\ k + 1 \in Entries => Place(k + 1) = Place(k) + 1
           /\ k + 1 \notin Entries => Place(k + 1) = Place(k)
           /\ k >= Len(list) => Place(k) = Cardinality(Entries)
           /\ Place(0) = 0
  <1>1. PICK E, L : E = Entries /\ L = Len(list)
    OBVIOUS
  <1>2. L \in Nat /\ E \in SUBSET (1..L)
    BY <1>1, EntriesFinite
  <1>3. ASSUME NEW m PROVE Place(m) = CountTo(E, m)
    BY <1>1 DEF Place, CountTo
  <1>4. CountTo(E, k) \in Nat /\ CountTo(E, 0) = 0
    BY <1>2, Counting
  <1>5. \A m \in E : m <= k => CountTo(E, m) \in 1..CountTo(E, k)
    BY <1>2, Counting
  <1>6. /\ k + 1 \in E => CountTo(E, k + 1) = CountTo(E, k) + 1
        /\ k + 1 \notin E => CountTo(E, k + 1) = CountTo(E, k)
    BY <1>2, Counting
  <1>7. k >= L => CountTo(E, k) = Cardinality(E)
    BY <1>2, Counting
  <1> QED BY <1>1, <1>3, <1>4, <1>5, <1>6, <1>7
----------------------------------------------------------------------------
(* The tables stay in step. *)

TablesInv == Counters /\ SidesMatch /\ EntriesKept

LEMMA TablesInitially == Init => TablesInv
  <1> SUFFICES ASSUME Init PROVE TablesInv
    OBVIOUS
  <1>1. list \in Seq(Line) /\ Len(list) <= MaxLines /\ pairs \in Nat
    BY SetupAssumption DEF Init, BoundedSeq, SeqOf
  <1> QED BY <1>1 DEF Init, TablesInv, Counters, SidesMatch, EntriesKept, FirstIndex,
                      EmptyTable, Entries

LEMMA ReadingKeepsTables ==
    ASSUME TablesInv, ReadEntry
    PROVE  TablesInv'
  <1> USE SetupAssumption DEF TablesInv
  <1>1. /\ pc = "read" /\ n \in 1..Len(list) /\ n <= MaxLines
        /\ UNCHANGED <<list, pairs, pc>>
        /\ i' = i + 1 /\ n' = n + 1
        /\ list[n].kind \in {"entry", "unreadable"}
    BY DEF ReadEntry, AtLine, Current, Counters
  <1>2. Counters'
    BY <1>1 DEF Counters
  <1>3. i \notin DOMAIN origtbl /\ i \in Nat \ {0} /\ i \in 1..(i' - 1)
        /\ 1..(i - 1) \subseteq 1..(i' - 1)
    BY <1>1 DEF EntriesKept, Counters
  <1>4. Entries' = Entries
    BY <1>1 DEF Entries
  <1>5. CASE list[n].kind = "unreadable"
    <2>1. UNCHANGED <<origtbl, repltbl, modtbl>> /\ n \notin Entries
      BY <1>5 DEF ReadEntry, Current, Modified, Entries
    <2>2. EntriesKept'
      BY <1>1, <1>3, <1>4, <2>1 DEF EntriesKept, Entries, Counters
    <2> QED BY <1>1, <1>2, <2>1, <2>2 DEF SidesMatch
  <1>6. CASE list[n].kind = "entry"
    <2>1. /\ origtbl' = Store(origtbl, i, n) /\ repltbl' = Store(repltbl, i, n)
          /\ modtbl' = IF list[n].modified THEN Store(modtbl, i, n) ELSE modtbl
      BY <1>6 DEF ReadEntry, Current, Modified
    <2>2. /\ DOMAIN origtbl' = DOMAIN origtbl \cup {i} /\ origtbl'[i] = n
          /\ DOMAIN repltbl' = DOMAIN repltbl \cup {i} /\ repltbl'[i] = n
          /\ \A x \in DOMAIN origtbl : origtbl'[x] = origtbl[x] /\ repltbl'[x] = repltbl[x]
      BY <1>3, <2>1 DEF SidesMatch, Store
    <2>3. /\ DOMAIN modtbl' \subseteq DOMAIN origtbl'
          /\ i \in DOMAIN modtbl' <=> list[n].modified
          /\ i \in DOMAIN modtbl' => modtbl'[i] = n
          /\ \A x \in DOMAIN origtbl : /\ x \in DOMAIN modtbl' <=> x \in DOMAIN modtbl
                                       /\ x \in DOMAIN modtbl => modtbl'[x] = modtbl[x]
      <3>1. i \notin DOMAIN modtbl /\ DOMAIN modtbl \subseteq DOMAIN origtbl
        BY <1>3 DEF EntriesKept
      <3>2. CASE list[n].modified
        BY <1>3, <2>1, <2>2, <3>1, <3>2 DEF Store
      <3>3. CASE ~list[n].modified
        BY <1>3, <2>1, <2>2, <3>1, <3>3
      <3> QED BY <3>2, <3>3
    <2>4. SidesMatch'
      BY <1>1, <2>2, <2>3 DEF SidesMatch
    <2>5. EntriesKept'
      <3>1. ASSUME NEW k \in Entries, k < n + 1
            PROVE  \E x \in DOMAIN origtbl' : origtbl'[x] = k
        <4>1. CASE k = n
          BY <2>2, <4>1
        <4>2. CASE k # n
          <5>1. k < n
            BY <1>1, <3>1, <4>2, EntriesFinite DEF Counters
          <5> QED BY <2>2, <5>1 DEF EntriesKept
        <4> QED BY <4>1, <4>2
      <3> QED BY <1>1, <1>3, <1>4, <2>2, <2>3, <3>1 DEF EntriesKept
    <2> QED BY <1>2, <2>4, <2>5
  <1> QED BY <1>1, <1>5, <1>6

LEMMA PairsKeepTables ==
    ASSUME TablesInv, AddPair
    PROVE  TablesInv'
  <1> USE SetupAssumption DEF TablesInv
  <1>1. /\ pc = "add" /\ n <= pairs /\ n' = n + 1
        /\ UNCHANGED <<list, pairs, i, modtbl, pc>>
    BY DEF AddPair
  <1>2. PICK b \in Borders(repltbl) : /\ origtbl' = Store(origtbl, b + 1, Pair(n))
                                      /\ repltbl' = Store(repltbl, b + 1, Pair(n))
    BY DEF AddPair
  <1>3. b + 1 \in Nat \ {0} /\ b + 1 \notin DOMAIN origtbl
    BY BorderFree DEF SidesMatch, EntriesKept
  <1>4. /\ DOMAIN origtbl' = DOMAIN origtbl \cup {b + 1} /\ origtbl'[b + 1] = Pair(n)
        /\ DOMAIN repltbl' = DOMAIN repltbl \cup {b + 1} /\ repltbl'[b + 1] = Pair(n)
        /\ \A x \in DOMAIN origtbl : origtbl'[x] = origtbl[x] /\ repltbl'[x] = repltbl[x]
    BY <1>2, <1>3 DEF SidesMatch, Store
  <1>5. Counters'
    BY <1>1 DEF Counters
  <1>6. ~(Pair(n) <= MaxLines)
    BY DEF Counters, Pair
  <1>7. SidesMatch'
    BY <1>1, <1>3, <1>4, <1>6 DEF SidesMatch, EntriesKept
  <1>8. EntriesKept'
    <2>1. Entries' = Entries
      BY <1>1 DEF Entries
    <2> QED BY <1>1, <1>3, <1>4, <2>1 DEF EntriesKept
  <1> QED BY <1>5, <1>7, <1>8

LEMMA TablesStay ==
    ASSUME TablesInv, [Next]_vars
    PROVE  TablesInv'
  <1> USE SetupAssumption DEF TablesInv
  <1>1. CASE Declare \/ Refuse
    <2>1. /\ pc = "read" /\ n \in 1..Len(list) /\ n' = n + 1 /\ list[n].kind # "entry"
          /\ UNCHANGED <<list, pairs, i, origtbl, repltbl, modtbl, pc>>
      BY <1>1 DEF Declare, Refuse, AtLine, Current, tables, Counters
    <2>2. Entries' = Entries /\ n \notin Entries /\ Entries \subseteq Nat
      BY <2>1, EntriesFinite DEF Entries, Counters
    <2>3. \A k \in Entries : k < n + 1 => k < n
      BY <2>1, <2>2
    <2>4. EntriesKept'
      BY <2>1, <2>2, <2>3 DEF EntriesKept
    <2> QED BY <2>1, <2>4 DEF Counters, SidesMatch
  <1>2. CASE Fail
    <2>1. pc' = "failed" /\ UNCHANGED <<list, pairs, i, n, origtbl, repltbl, modtbl>>
          /\ pc = "read"
      BY <1>2 DEF Fail, tables, AtLine
    <2>2. Entries' = Entries
      BY <2>1 DEF Entries
    <2> QED BY <2>1, <2>2 DEF Counters, SidesMatch, EntriesKept
  <1>3. CASE EndOfList
    <2>1. /\ pc = "read" /\ n > Len(list) /\ pc' = "add" /\ n' = 1
          /\ UNCHANGED <<list, pairs, i, origtbl, repltbl, modtbl>>
      BY <1>3 DEF EndOfList, tables
    <2>2. Entries' = Entries /\ \A k \in Entries : k < n
      BY <2>1, EntriesFinite DEF Entries, Counters
    <2> QED BY <2>1, <2>2 DEF Counters, SidesMatch, EntriesKept
  <1>4. CASE Finish
    <2>1. /\ pc = "add" /\ pc' = "done"
          /\ UNCHANGED <<list, pairs, i, n, origtbl, repltbl, modtbl>>
      BY <1>4 DEF Finish, tables
    <2>2. Entries' = Entries
      BY <2>1 DEF Entries
    <2> QED BY <2>1, <2>2 DEF Counters, SidesMatch, EntriesKept
  <1>5. CASE UNCHANGED vars
    <2>1. UNCHANGED <<list, pairs, i, n, origtbl, repltbl, modtbl, pc>>
      BY <1>5 DEF vars, tables
    <2>2. Entries' = Entries
      BY <2>1 DEF Entries
    <2> QED BY <2>1, <2>2 DEF Counters, SidesMatch, EntriesKept
  <1> QED BY <1>1, <1>2, <1>3, <1>4, <1>5, ReadingKeepsTables, PairsKeepTables DEF Next

\* What stands at one index of the tables of setupsubs comes from one line of the list, the
\* pairs of initialize get no modifiers and take no entry's place, whatever table.insert
\* takes for the end of a table with holes.
THEOREM RulesStayWhole == Spec => []RulesMatch
  <1>1. TablesInv => RulesMatch
    BY DEF TablesInv, EntriesKept, RulesMatch
  <1> QED BY <1>1, TablesInitially, TablesStay, PTL DEF Spec
----------------------------------------------------------------------------
(* A list that is in order. *)

LEMMA InOrderInitially == Init => InOrder
  <1> SUFFICES ASSUME Init PROVE InOrder
    OBVIOUS
  <1>1. list \in Seq(Line)
    BY SetupAssumption DEF Init, BoundedSeq, SeqOf
  <1>2. Place(0) = 0 /\ \A k \in Entries : ~(k < 1)
    BY <1>1, Places, EntriesFinite
  <1> QED BY <1>2 DEF Init, InOrder, FirstIndex, EmptyTable

LEMMA ReadingKeepsOrder ==
    ASSUME TablesInv, InOrder, Declare \/ Refuse \/ Fail \/ ReadEntry
    PROVE  InOrder'
  <1> USE DEF TablesInv
  <1> SUFFICES ASSUME Orderly' PROVE InOrder'
    BY DEF InOrder
  <1>1. /\ pc = "read" /\ n \in 1..Len(list) /\ list' = list /\ pairs' = pairs
        /\ n \in Nat \ {0} /\ n - 1 \in Nat /\ list \in Seq(Line)
    BY DEF Declare, Refuse, Fail, ReadEntry, AtLine, Counters
  <1>2. /\ Entries' = Entries /\ \A k : Place(k)' = Place(k)
        /\ Orderly
    BY <1>1 DEF Entries, Place, Orderly
  <1>3. /\ constanttbl \cap Malformed = {}
        /\ ~sublinetbl => n = 1 /\ constanttbl = {}
        /\ i = Place(n - 1) + 1 /\ DOMAIN repltbl = 1..(i - 1)
        /\ \A k \in Entries : k < n => repltbl[Place(k)] = k
    BY <1>1, <1>2 DEF InOrder
  <1>4. /\ list[n].kind \notin {"unreadable", "bare"}
        /\ list[n].kind = "declare" => list[n].const \notin Malformed
        /\ n = 1 => list[n].kind = "entry"
    BY <1>1, <1>2 DEF Orderly
  <1>5. /\ n \in Entries => Place(n) = Place(n - 1) + 1
        /\ n \notin Entries => Place(n) = Place(n - 1)
        /\ Place(n - 1) \in Nat
        /\ \A k \in Entries : k <= n - 1 => Place(k) \in 1..Place(n - 1)
    <2>1. (n - 1) + 1 = n
      BY <1>1
    <2> QED BY <1>1, <2>1, Places
  <1>6. \A k \in Entries : k \in Nat
    BY <1>1, EntriesFinite
  <1>7. ~Fail
    <2>1. ~Breaks
      BY <1>3, <1>4 DEF Breaks, Found, Current
    <2> QED BY <1>4, <2>1 DEF Fail, Current, AtLine
  <1>8. CASE Declare \/ Refuse
    <2>1. /\ n' = n + 1 /\ UNCHANGED <<pc, repltbl, sublinetbl, i>>
          /\ list[n].kind # "entry"
          /\ constanttbl' \subseteq constanttbl \cup {list[n].const}
          /\ list[n].kind = "refused" => constanttbl' = constanttbl
          /\ list[n].kind \in {"declare", "refused"}
      BY <1>8 DEF Declare, Refuse, AtLine, Current, tables
    <2>2. n \notin Entries /\ n # 1
      BY <1>4, <2>1 DEF Entries
    <2>3. constanttbl' \cap Malformed = {}
      BY <1>3, <1>4, <2>1
    <2>4. Place(n - 1)' = Place(n - 1)
      <3>1. n' - 1 = n
        BY <1>1, <2>1
      <3>2. Place(n - 1)' = Place(n)
        BY <1>2, <3>1 DEF Place
      <3> QED BY <1>5, <2>2, <3>2
    <2>5. \A k \in Entries : k < n' => k < n
      BY <1>1, <1>6, <2>1, <2>2
    <2>6. i' = Place(n - 1)' + 1 /\ DOMAIN repltbl' = 1..(i' - 1)
      BY <1>3, <2>1, <2>4
    <2>7. \A k \in Entries' : k < n' => repltbl'[Place(k)'] = k
      BY <1>2, <1>3, <2>1, <2>5
    <2> QED BY <1>1, <1>3, <2>1, <2>2, <2>3, <2>6, <2>7 DEF InOrder
  <1>9. CASE ReadEntry
    <2>1. /\ n' = n + 1 /\ i' = i + 1 /\ sublinetbl' = TRUE
          /\ UNCHANGED <<pc, constanttbl>>
          /\ list[n].kind = "entry"
          /\ repltbl' = Store(repltbl, i, n)
      BY <1>4, <1>9 DEF ReadEntry, AtLine, Current
    <2>2. n \in Entries
      BY <1>1, <2>1 DEF Entries
    <2>3. Place(n) = i /\ i \in Nat /\ i # 0
      BY <1>3, <1>5, <2>2
    <2>4. /\ DOMAIN repltbl' = 1..i /\ repltbl'[i] = n
          /\ \A x \in 1..(i - 1) : repltbl'[x] = repltbl[x]
      BY <1>3, <2>1, <2>3 DEF Store
    <2>5. ASSUME NEW k \in Entries, k < n + 1
          PROVE  repltbl'[Place(k)] = k
      <3>1. CASE k = n
        BY <2>3, <2>4, <3>1
      <3>2. CASE k # n
        <4>1. k < n /\ k <= n - 1
          BY <1>1, <1>6, <2>5, <3>2
        <4>2. Place(k) \in 1..(i - 1)
          BY <1>3, <1>5, <4>1
        <4> QED BY <1>3, <2>4, <4>1, <4>2
      <3> QED BY <3>1, <3>2
    <2>6. i' = Place(n - 1)' + 1 /\ DOMAIN repltbl' = 1..(i' - 1)
      <3>1. n' - 1 = n /\ i' - 1 = i
        BY <1>1, <2>1, <2>3
      <3>2. Place(n - 1)' = Place(n)
        BY <1>2, <3>1 DEF Place
      <3> QED BY <2>1, <2>3, <2>4, <3>1, <3>2
    <2>7. \A k \in Entries' : k < n' => repltbl'[Place(k)'] = k
      BY <1>2, <2>1, <2>5
    <2> QED BY <1>1, <1>3, <2>1, <2>6, <2>7 DEF InOrder
  <1> QED BY <1>7, <1>8, <1>9

LEMMA AddingKeepsOrder ==
    ASSUME TablesInv, InOrder, EndOfList \/ AddPair \/ Finish
    PROVE  InOrder'
  <1> USE DEF TablesInv
  <1> SUFFICES ASSUME Orderly' PROVE InOrder'
    BY DEF InOrder
  <1>1. /\ list' = list /\ pairs' = pairs /\ list \in Seq(Line) /\ pairs \in Nat
        /\ n \in Nat \ {0} /\ n - 1 \in Nat /\ constanttbl' = constanttbl
    BY DEF EndOfList, AddPair, Finish, Counters
  <1>2. /\ Entries' = Entries /\ \A k : Place(k)' = Place(k)
        /\ Orderly
    BY <1>1 DEF Entries, Place, Orderly
  <1>3. PICK c : c = Cardinality(Entries)
    OBVIOUS
  <1>4. /\ c \in Nat
        /\ Place(n - 1) \in Nat /\ (n > Len(list) => Place(n - 1) = c)
        /\ \A k \in Entries : Place(k) \in 1..c /\ k <= Len(list) /\ k \in Nat
    <2>1. Len(list) \in Nat /\ \A k \in Entries : k \in Nat /\ k <= Len(list)
      BY <1>1, EntriesFinite
    <2>0. PICK L : L = Len(list)
      OBVIOUS
    <2>4. L \in Nat /\ L >= Len(list)
      BY <2>0, <2>1
    <2>2. Place(L) = c /\ \A k \in Entries : Place(k) \in 1..Place(L)
      BY <1>1, <1>3, <2>0, <2>1, <2>4, Places
    <2>3. n > Len(list) => n - 1 >= Len(list)
      BY <1>1, <2>1
    <2> QED BY <1>1, <1>3, <2>1, <2>2, <2>3, Places, EntriesFinite
  <1>5. CASE EndOfList
    <2>1. pc = "read" /\ n > Len(list) /\ pc' = "add" /\ n' = 1 /\ repltbl' = repltbl
      BY <1>5 DEF EndOfList, tables
    <2>2. /\ constanttbl \cap Malformed = {}
          /\ i = c + 1 /\ DOMAIN repltbl = 1..(i - 1)
          /\ \A k \in Entries : k < n => repltbl[Place(k)] = k
      BY <1>2, <1>4, <2>1 DEF InOrder
    <2>3. \A k \in Entries : repltbl[Place(k)] = k
      BY <1>1, <1>4, <2>1, <2>2
    <2>4. DOMAIN repltbl' = 1..(c + n' - 1)
      BY <1>4, <2>1, <2>2
    <2>5. \A k \in Entries' : repltbl'[Place(k)'] = k
      BY <1>2, <2>1, <2>3
    <2>6. 1..(n' - 1) = {}
      BY <2>1
    <2>7. c = Cardinality(Entries)'
      BY <1>2, <1>3
    <2> QED BY <1>1, <2>1, <2>2, <2>4, <2>5, <2>6, <2>7 DEF InOrder
  <1>6. ASSUME pc = "add"
        PROVE  /\ constanttbl \cap Malformed = {}
               /\ DOMAIN repltbl = 1..(c + n - 1) /\ c + n - 1 \in Nat
               /\ \A k \in Entries : repltbl[Place(k)] = k
               /\ \A k \in 1..(n - 1) : repltbl[c + k] = Pair(k)
    BY <1>1, <1>2, <1>3, <1>4, <1>6 DEF InOrder
  <1>7. CASE AddPair
    <2>1. pc = "add" /\ n <= pairs /\ n' = n + 1 /\ pc' = "add"
      BY <1>7 DEF AddPair
    <2>2. Borders(repltbl) = {c + n - 1}
      BY <1>6, <2>1, OneBorder
    <2>3. repltbl' = Store(repltbl, c + n, Pair(n))
      <3>1. (c + n - 1) + 1 = c + n
        BY <1>1, <1>4
      <3> QED BY <1>7, <2>2, <3>1 DEF AddPair
    <2>4. /\ DOMAIN repltbl' = 1..(c + n) /\ repltbl'[c + n] = Pair(n)
          /\ \A x \in 1..(c + n - 1) : repltbl'[x] = repltbl[x]
      <3>1. PICK d : d = c + n
        OBVIOUS
      <3>2. /\ d \in Nat \ {0} /\ DOMAIN repltbl = 1..(d - 1)
            /\ repltbl' = Store(repltbl, d, Pair(n))
        BY <1>1, <1>4, <1>6, <2>1, <2>3, <3>1
      <3>3. /\ DOMAIN repltbl' = 1..d /\ repltbl'[d] = Pair(n)
            /\ \A x \in 1..(d - 1) : repltbl'[x] = repltbl[x]
        BY <3>2 DEF Store
      <3>4. d - 1 = c + n - 1
        BY <1>1, <1>4, <3>1
      <3> QED BY <3>1, <3>3, <3>4
    <2>5. DOMAIN repltbl' = 1..(c + n' - 1)
      BY <1>1, <1>4, <2>1, <2>4
    <2>6. ASSUME NEW k \in Entries PROVE repltbl'[Place(k)] = k
      <3>1. Place(k) \in 1..(c + n - 1)
        BY <1>1, <1>4
      <3> QED BY <1>6, <2>1, <2>4, <3>1
    <2>7. ASSUME NEW k \in 1..(n' - 1) PROVE repltbl'[c + k] = Pair(k)
      <3>1. CASE k = n
        BY <2>4, <3>1
      <3>2. CASE k # n
        <4>1. k \in 1..(n - 1) /\ c + k \in 1..(c + n - 1)
          BY <1>1, <1>4, <2>1, <3>2
        <4> QED BY <1>6, <2>1, <2>4, <4>1
      <3> QED BY <3>1, <3>2
    <2>8. c = Cardinality(Entries)'
      BY <1>2, <1>3
    <2>9. \A k \in Entries' : repltbl'[Place(k)'] = k
      BY <1>2, <2>6
    <2>10. \A k \in 1..(n' - 1) : repltbl'[c + k] = Pair(k)'
      BY <2>7 DEF Pair
    <2> QED BY <1>1, <1>6, <2>1, <2>5, <2>8, <2>9, <2>10 DEF InOrder
  <1>8. CASE Finish
    <2>1. /\ pc = "add" /\ n > pairs /\ pc' = "done" /\ n' = n /\ repltbl' = repltbl
          /\ len' \in Borders(repltbl) /\ n <= pairs + 1
      BY <1>8 DEF Finish, tables, Counters
    <2>2. n = pairs + 1 /\ len' = c + pairs
      <3>1. n = pairs + 1
        BY <1>1, <2>1
      <3>2. c + n - 1 = c + pairs
        BY <1>1, <1>4, <3>1
      <3> QED BY <1>6, <2>1, <3>1, <3>2, OneBorder
    <2>3. c = Cardinality(Entries)' /\ \A k \in Entries' : repltbl'[Place(k)'] = k
      BY <1>2, <1>3, <1>6, <2>1
    <2>4. \A k \in 1..(n' - 1) : repltbl'[c + k] = Pair(k)'
      BY <1>6, <2>1 DEF Pair
    <2> QED BY <1>1, <1>6, <2>1, <2>2, <2>3, <2>4 DEF InOrder
  <1> QED BY <1>5, <1>7, <1>8

LEMMA InOrderStays ==
    ASSUME TablesInv, InOrder, [Next]_vars
    PROVE  InOrder'
  <1>1. CASE UNCHANGED vars
    <2>1. UNCHANGED <<list, pairs, n, constanttbl, sublinetbl, i, repltbl, len, pc>>
      BY <1>1 DEF vars, tables
    <2>2. /\ Entries' = Entries /\ Orderly' = Orderly
          /\ \A k : Place(k)' = Place(k) /\ Pair(k)' = Pair(k)
      BY <2>1 DEF Entries, Orderly, Place, Pair
    <2> QED BY <2>1, <2>2 DEF InOrder
  <1> QED BY <1>1, ReadingKeepsOrder, AddingKeepsOrder DEF Next

\* From a list that has only what setupsubs can read, begins with an entry, and has no
\* constant that string.find rejects, subword gets each entry with its own sides, in the
\* order of the lines, and the pairs of initialize behind them; it loses none.
THEOREM OrderlyListsWork == Spec => []OrderlyWorks
  <1>1. Init => TablesInv /\ InOrder
    BY TablesInitially, InOrderInitially
  <1>2. TablesInv /\ InOrder /\ [Next]_vars => TablesInv' /\ InOrder'
    BY TablesStay, InOrderStays
  <1>3. TablesInv /\ InOrder => OrderlyWorks
    <2> SUFFICES ASSUME TablesInv, InOrder, Orderly PROVE OrderlyWorks
      BY DEF OrderlyWorks
    <2>1. pc # "failed"
      BY DEF InOrder
    <2>2. ASSUME pc = "done"
          PROVE  /\ len = Cardinality(Entries) + pairs
                 /\ \A k \in Entries : repltbl[Place(k)] = k
                 /\ \A k \in 1..pairs : repltbl[Cardinality(Entries) + k] = Pair(k)
      <3>1. n = pairs + 1 /\ pairs \in Nat
        BY <2>2 DEF InOrder, TablesInv, Counters
      <3>2. n - 1 = pairs
        BY <3>1
      <3> QED BY <2>2, <3>2 DEF InOrder
    <2> QED BY <2>1, <2>2 DEF OrderlyWorks
  <1> QED BY <1>1, <1>2, <1>3, PTL DEF Spec
===============================================================================
