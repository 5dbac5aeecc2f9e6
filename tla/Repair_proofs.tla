--------------------------- MODULE Repair_proofs ---------------------------
(***************************************************************************)
(* Proofs about module Repair: corrections move occurrences in the key and *)
(* lose none, and the key stays in step with the texts if these get the    *)
(* same corrections; corrections of different words are all made, take out *)
(* nothing that is added, leave no form twice and agree with the history;  *)
(* for every order of pairs(), kills and restored backups.                 *)
(***************************************************************************)
EXTENDS Repair, FunctionTheorems, FiniteSetTheorems, WellFoundedInduction, TLAPS

----------------------------------------------------------------------------
(* The word key: where the counting loop of getpars stops. *)

\* A nonempty set of naturals has a least element.
LEMMA LeastElement ==
    ASSUME NEW T, T \subseteq Nat, T # {}
    PROVE  \E n \in T : \A m \in T : n <= m
  <1>1. IsWellFoundedOn(OpToRel(<, Nat), Nat)
    BY NatLessThanWellFounded
  <1>2. PICK n \in T : \A m \in T : ~(<<m, n>> \in OpToRel(<, Nat))
    BY <1>1, WFMin, Zenon
  <1>3. ASSUME NEW m \in T PROVE n <= m
    <2>1. ~(m < n)
      BY <1>2 DEF OpToRel
    <2> QED BY <2>1
  <1> QED BY <1>3

\* A nonempty set of naturals with an upper bound has a greatest element.
LEMMA GreatestElement ==
    ASSUME NEW T, NEW b \in Nat, T \subseteq 0..b, T # {}
    PROVE  \E n \in T : \A m \in T : m <= n
  <1>1. PICK U : U = {n \in 0..b : b - n \in T}
    OBVIOUS
  <1>2. U \subseteq Nat /\ U # {}
    <2>1. PICK n \in T : TRUE
      OBVIOUS
    <2>2. b - n \in 0..b /\ b - (b - n) = n
      OBVIOUS
    <2>3. b - n \in U
      BY <1>1, <2>1, <2>2
    <2>4. U \subseteq Nat
      BY <1>1
    <2> QED BY <2>3, <2>4
  <1>3. PICK k \in U : \A m \in U : k <= m
    BY <1>2, LeastElement
  <1>4. k \in 0..b /\ b - k \in T
    BY <1>1, <1>3
  <1>5. ASSUME NEW m \in T PROVE m <= b - k
    <2>1. b - m \in 0..b /\ b - (b - m) = m
      OBVIOUS
    <2>2. b - m \in U
      BY <1>1, <2>1
    <2>3. k <= b - m
      BY <1>3, <2>2
    <2> QED BY <1>4, <2>3
  <1> QED BY <1>4, <1>5

\* The loop of getpars stops at the first number that is not in use.
LEMMA ParCountStops ==
    ASSUME NEW K, DOMAIN K \subseteq Slot, NEW p \in Plains
    PROVE  /\ ParCount(K, p) \in 0..(MaxPar + 1)
           /\ <<p, ParCount(K, p)>> \notin DOMAIN K
           /\ \A n \in 0..(ParCount(K, p) - 1) : <<p, n>> \in DOMAIN K
  <1> USE WordKeyAssumption
  <1>1. MaxPar + 1 \in FreePars(K, p)
    BY DEF FreePars, Slot
  <1>2. FreePars(K, p) \subseteq Nat
    BY DEF FreePars
  <1>3. \E n \in FreePars(K, p) : \A m \in FreePars(K, p) : n <= m
    BY <1>1, <1>2, LeastElement
  <1>4. /\ ParCount(K, p) \in FreePars(K, p)
        /\ \A m \in FreePars(K, p) : ParCount(K, p) <= m
    BY <1>3 DEF ParCount
  <1>5. ASSUME NEW n \in 0..(ParCount(K, p) - 1) PROVE <<p, n>> \in DOMAIN K
    <2>1. n \in 0..(MaxPar + 1) /\ ~(ParCount(K, p) <= n)
      BY <1>4 DEF FreePars
    <2>2. n \notin FreePars(K, p)
      BY <1>4, <2>1
    <2> QED BY <2>1, <2>2 DEF FreePars
  <1>6. /\ ParCount(K, p) \in 0..(MaxPar + 1)
        /\ <<p, ParCount(K, p)>> \notin DOMAIN K
    BY <1>4 DEF FreePars
  <1> QED BY <1>5, <1>6

\* A key with its slots, its forms filed under their plain words.
GoodKey(K) == /\ DOMAIN K \subseteq Slot
              /\ \A s \in DOMAIN K : K[s] \in Forms /\ PlainOf[K[s]] = s[1]

\* A form that getpars returns has a last slot, which SlotNumber finds.
LEMMA SlotFound ==
    ASSUME NEW K, GoodKey(K), NEW w \in Forms, w \in Parallels(K, PlainOf[w])
    PROVE  /\ PlainOf[w] \in Plains
           /\ SlotNumber(K, w) \in 0..(ParCount(K, PlainOf[w]) - 1)
           /\ K[<<PlainOf[w], SlotNumber(K, w)>>] = w
           /\ \A m \in (SlotNumber(K, w) + 1)..(ParCount(K, PlainOf[w]) - 1) :
                 K[<<PlainOf[w], m>>] # w
  <1> USE WordKeyAssumption
  <1> DEFINE p == PlainOf[w]
             c == ParCount(K, p)
             T == {n \in 0..(c - 1) : K[<<p, n>>] = w}
  <1>1. p \in Plains /\ c \in 0..(MaxPar + 1)
    BY ParCountStops DEF GoodKey
  <1>2. T # {} /\ T \subseteq 0..(MaxPar + 1)
    <2>1. PICK n \in 0..(c - 1) : w = K[<<p, n>>]
      BY DEF Parallels
    <2>2. n \in T
      BY <2>1
    <2>3. T \subseteq 0..(MaxPar + 1)
      BY <1>1
    <2> QED BY <2>2, <2>3
  <1>3. PICK n \in T : \A m \in T : m <= n
    <2>1. MaxPar + 1 \in Nat
      OBVIOUS
    <2> HIDE DEF T
    <2> QED BY <1>2, <2>1, GreatestElement
  <1>4. n \in 0..(c - 1) /\ K[<<p, n>>] = w
    BY <1>3
  <1>5. \A m \in (n + 1)..(c - 1) : K[<<p, m>>] # w
    <2>1. SUFFICES ASSUME NEW m \in (n + 1)..(c - 1), K[<<p, m>>] = w PROVE FALSE
      OBVIOUS
    <2>2. m \in T
      BY <1>1, <1>4, <2>1
    <2>3. m <= n
      BY <1>3, <2>2
    <2> QED BY <1>1, <1>4, <2>1, <2>3
  <1> QED BY <1>1, <1>4, <1>5 DEF SlotNumber

\* A form is put into the key unless getpars finds it there.
LEMMA WithFormKey ==
    ASSUME NEW K, GoodKey(K), NEW w \in Forms, Fits(K, w),
           NEW L, L = WithForm(K, w)
    PROVE  /\ GoodKey(L)
           /\ DOMAIN K \subseteq DOMAIN L /\ \A s \in DOMAIN K : L[s] = K[s]
           /\ \A s \in DOMAIN L \ DOMAIN K :
                 L[s] = w /\ s = <<PlainOf[w], ParCount(K, PlainOf[w])>>
           /\ \E s \in DOMAIN L : L[s] = w
  <1> USE WordKeyAssumption
  <1>1. /\ PlainOf[w] \in Plains
        /\ ParCount(K, PlainOf[w]) \in 0..(MaxPar + 1)
        /\ \A n \in 0..(ParCount(K, PlainOf[w]) - 1) : <<PlainOf[w], n>> \in DOMAIN K
    BY ParCountStops DEF GoodKey
  <1>2. CASE w \in Parallels(K, PlainOf[w])
    <2>1. L = K
      BY <1>2 DEF WithForm
    <2>2. PICK n \in 0..(ParCount(K, PlainOf[w]) - 1) : w = K[<<PlainOf[w], n>>]
      BY <1>2 DEF Parallels
    <2>3. <<PlainOf[w], n>> \in DOMAIN L /\ L[<<PlainOf[w], n>>] = w
      BY <1>1, <2>1, <2>2
    <2> QED BY <2>1, <2>3
  <1>3. CASE w \notin Parallels(K, PlainOf[w])
    <2>1. PICK x : x = <<PlainOf[w], ParCount(K, PlainOf[w])>>
      OBVIOUS
    <2>2. L = [y \in DOMAIN K \cup {x} |-> IF y = x THEN w ELSE K[y]]
      BY <1>3, <2>1 DEF WithForm, Store, GetNextKey
    <2>3. x \in Slot /\ x \notin DOMAIN K /\ x[1] = PlainOf[w]
      <3>1. ParCount(K, PlainOf[w]) <= MaxPar
        BY <1>3 DEF Fits, HasRoom
      <3>2. <<PlainOf[w], ParCount(K, PlainOf[w])>> \notin DOMAIN K
        BY <1>1, ParCountStops DEF GoodKey
      <3> QED BY <1>1, <2>1, <3>1, <3>2 DEF Slot
    <2>4. DOMAIN L = DOMAIN K \cup {x} /\ L[x] = w /\ \A s \in DOMAIN K : L[s] = K[s]
      BY <2>2, <2>3
    <2>5. GoodKey(L)
      BY <2>3, <2>4 DEF GoodKey
    <2> HIDE <2>2
    <2> QED BY <2>1, <2>4, <2>5
  <1> QED BY <1>2, <1>3

\* What replaceword does to the key: orig leaves one slot, repl is there, and every
\* other form stays.
LEMMA RekeyedKey ==
    ASSUME NEW K, GoodKey(K), NEW orig \in Forms, NEW repl \in Forms, orig # repl,
           orig \in Parallels(K, PlainOf[orig]), Fits(K, repl),
           NEW L, L = Rekeyed(K, orig, repl)
    PROVE  /\ GoodKey(L)
           /\ \A w \in FormsIn(K) : w # orig => w \in FormsIn(L)
           /\ repl \in FormsIn(L)
           /\ FormsIn(L) \subseteq FormsIn(K) \cup {repl}
  <1> USE WordKeyAssumption
  <1>1. PICK M : M = WithForm(K, repl)
    OBVIOUS
  <1>2. /\ GoodKey(M)
        /\ DOMAIN K \subseteq DOMAIN M /\ \A s \in DOMAIN K : M[s] = K[s]
        /\ \A s \in DOMAIN M \ DOMAIN K : M[s] = repl
        /\ \E s \in DOMAIN M : M[s] = repl
    BY <1>1, WithFormKey
  <1>3. PICK p, c, n : p = PlainOf[orig] /\ c = ParCount(K, p) /\ n = SlotNumber(K, orig)
    OBVIOUS
  <1>4. /\ p \in Plains /\ c \in 0..(MaxPar + 1) /\ n \in 0..(c - 1)
        /\ K[<<p, n>>] = orig
        /\ \A m \in 0..(c - 1) : <<p, m>> \in DOMAIN K
    BY <1>3, SlotFound, ParCountStops DEF GoodKey
  <1>5. L = [s \in DOMAIN M \ {<<p, c - 1>>} |->
                IF s[1] = p /\ n <= s[2] /\ s[2] < c - 1 THEN M[<<p, s[2] + 1>>] ELSE M[s]]
    BY <1>1, <1>3 DEF Rekeyed, KeyRemove
  <1>6. ASSUME NEW s \in DOMAIN L
        PROVE  /\ s \in Slot /\ s \in DOMAIN M
               /\ \E t \in DOMAIN M : L[s] = M[t] /\ t[1] = s[1]
    <2>1. s \in DOMAIN M /\ s \in Slot
      BY <1>2, <1>5 DEF GoodKey
    <2>2. s[1] \in Plains /\ s[2] \in 0..MaxPar
      BY <2>1 DEF Slot
    <2>3. CASE s[1] = p /\ n <= s[2] /\ s[2] < c - 1
      <3>1. s[2] + 1 \in 0..(c - 1)
        BY <1>4, <2>2, <2>3
      <3>2. <<p, s[2] + 1>> \in DOMAIN M
        BY <1>2, <1>4, <3>1
      <3>3. L[s] = M[<<p, s[2] + 1>>]
        BY <1>5, <2>3
      <3> QED BY <2>1, <2>3, <3>2, <3>3
    <2>4. CASE ~(s[1] = p /\ n <= s[2] /\ s[2] < c - 1)
      <3>1. L[s] = M[s]
        BY <1>5, <2>4
      <3> QED BY <2>1, <3>1
    <2> QED BY <2>3, <2>4
  <1>7. GoodKey(L)
    BY <1>2, <1>6 DEF GoodKey
  <1>8. ASSUME NEW s \in DOMAIN M, M[s] # orig PROVE M[s] \in FormsIn(L)
    <2>1. s \in Slot /\ s[1] \in Plains /\ s[2] \in 0..MaxPar /\ s = <<s[1], s[2]>>
      BY <1>2 DEF GoodKey, Slot
    <2>2. CASE s[1] = p /\ n < s[2] /\ s[2] <= c - 1
      <3>1. PICK t : t = <<p, s[2] - 1>>
        OBVIOUS
      <3>2. /\ s[2] - 1 \in 0..(c - 1) /\ s[2] - 1 # c - 1 /\ s[2] - 1 < c - 1
            /\ n <= s[2] - 1 /\ (s[2] - 1) + 1 = s[2]
        BY <1>4, <2>1, <2>2
      <3>3. t \in DOMAIN M /\ t # <<p, c - 1>> /\ t[1] = p /\ t[2] = s[2] - 1
        BY <1>2, <1>4, <3>1, <3>2
      <3>4. t \in DOMAIN L /\ L[t] = M[<<p, t[2] + 1>>]
        BY <1>5, <3>2, <3>3
      <3>5. L[t] = M[s]
        BY <2>1, <2>2, <3>2, <3>3, <3>4
      <3> QED BY <3>4, <3>5 DEF FormsIn
    <2>3. CASE ~(s[1] = p /\ n < s[2] /\ s[2] <= c - 1)
      <3>1. s # <<p, n>>
        <4>1. n \in 0..(c - 1) /\ <<p, n>> \in DOMAIN K
          BY <1>4
        <4>2. M[<<p, n>>] = orig
          BY <1>2, <1>4, <4>1
        <4> QED BY <1>8, <4>2
      <3>2. ~(s[1] = p /\ n <= s[2] /\ s[2] <= c - 1)
        BY <1>4, <2>1, <2>3, <3>1
      <3>3. s # <<p, c - 1>> /\ ~(s[1] = p /\ n <= s[2] /\ s[2] < c - 1)
        BY <1>4, <2>1, <3>2
      <3>4. s \in DOMAIN L /\ L[s] = M[s]
        BY <1>5, <3>3
      <3> QED BY <3>4 DEF FormsIn
    <2> QED BY <2>2, <2>3
  <1>9. \A w \in FormsIn(K) : w # orig => w \in FormsIn(L)
    BY <1>2, <1>8 DEF FormsIn
  <1>10. repl \in FormsIn(L)
    BY <1>2, <1>8
  <1>11. FormsIn(L) \subseteq FormsIn(K) \cup {repl}
    BY <1>2, <1>6 DEF FormsIn
  <1> QED BY <1>7, <1>9, <1>10, <1>11
----------------------------------------------------------------------------
(* Loading the key. *)

\* A key file with its slots, its lines filed under their plain words.
GoodFile(L) == /\ DOMAIN L \subseteq Slot
               /\ \A s \in DOMAIN L :
                     /\ L[s].form \in Forms /\ PlainOf[L[s].form] = s[1]
                     /\ L[s].freq \in Nat /\ L[s].srcs \subseteq Headers

\* The lines of one plain word that come before slot s.
Earlier(L, s) == {t \in DOMAIN L : t[1] = s[1] /\ t[2] < s[2]}

\* No more lines come before a slot than its number says.
LEMMA RankBounded ==
    ASSUME NEW L, DOMAIN L \subseteq Slot, NEW s \in DOMAIN L
    PROVE  /\ IsFiniteSet(Earlier(L, s))
           /\ Rank(L, s) = Cardinality(Earlier(L, s))
           /\ Rank(L, s) \in 0..s[2]
  <1> USE WordKeyAssumption
  <1> DEFINE E == Earlier(L, s)
             f == [t \in E |-> t[2]]
  <1>1. s[2] \in 0..MaxPar
    BY DEF Slot
  <1>2. f \in [E -> 0..(s[2] - 1)]
    BY <1>1 DEF Earlier, Slot
  <1>3. \A t, u \in E : f[t] = f[u] => t = u
    BY DEF Earlier, Slot
  <1>4. f \in Injection(E, 0..(s[2] - 1))
    <2> HIDE DEF f, E
    <2> QED BY <1>2, <1>3, Fun_IsInj
  <1>5. IsFiniteSet(0..(s[2] - 1)) /\ Cardinality(0..(s[2] - 1)) = s[2]
    <2>1. PICK b \in Int : b = s[2] - 1
      BY <1>1
    <2>2. IsFiniteSet(0..b) /\ Cardinality(0..b) = IF 0 > b THEN 0 ELSE b - 0 + 1
      BY FS_Interval
    <2>3. Cardinality(0..b) = b + 1
      BY <1>1, <2>1, <2>2
    <2>4. b + 1 = s[2]
      BY <1>1, <2>1
    <2> QED BY <2>1, <2>2, <2>3, <2>4
  <1>6. IsFiniteSet(E) /\ Cardinality(E) <= s[2]
    <2> HIDE DEF f, E
    <2> QED BY <1>4, <1>5, FS_Injection
  <1>7. Cardinality(E) \in Nat
    BY <1>6, FS_CardinalityType
  <1>8. Rank(L, s) = Cardinality(E)
    BY DEF Rank, Earlier
  <1> QED BY <1>1, <1>6, <1>7, <1>8

\* A line further down has a higher rank.
LEMMA RankGrows ==
    ASSUME NEW L, DOMAIN L \subseteq Slot, NEW s \in DOMAIN L, NEW t \in DOMAIN L,
           s[1] = t[1], s[2] < t[2]
    PROVE  Rank(L, s) < Rank(L, t)
  <1> USE WordKeyAssumption
  <1>1. s[2] \in Nat /\ t[2] \in Nat
    BY DEF Slot
  <1>2. Earlier(L, s) \subseteq Earlier(L, t)
    BY <1>1 DEF Earlier, Slot
  <1>3. s \in Earlier(L, t) /\ s \notin Earlier(L, s)
    BY <1>1 DEF Earlier
  <1>4. /\ IsFiniteSet(Earlier(L, t)) /\ Rank(L, t) = Cardinality(Earlier(L, t))
        /\ Rank(L, t) \in Nat
    BY <1>1, RankBounded
  <1>5. Rank(L, s) = Cardinality(Earlier(L, s)) /\ Rank(L, s) \in Nat
    BY <1>1, RankBounded
  <1>6. /\ Cardinality(Earlier(L, s)) <= Cardinality(Earlier(L, t))
        /\ Cardinality(Earlier(L, t)) # Cardinality(Earlier(L, s))
    BY <1>2, <1>3, <1>4, FS_Subset
  <1> QED BY <1>4, <1>5, <1>6

\* Two lines are not given the same number.
LEMMA RankInjective ==
    ASSUME NEW L, DOMAIN L \subseteq Slot, NEW s \in DOMAIN L, NEW t \in DOMAIN L,
           s[1] = t[1], Rank(L, s) = Rank(L, t)
    PROVE  s = t
  <1> USE WordKeyAssumption
  <1>1. s[2] \in Nat /\ t[2] \in Nat /\ s = <<s[1], s[2]>> /\ t = <<t[1], t[2]>>
    BY DEF Slot
  <1>2. Rank(L, s) \in Nat
    BY <1>1, RankBounded
  <1>3. ~(s[2] < t[2]) /\ ~(t[2] < s[2])
    BY <1>1, <1>2, RankGrows
  <1> QED BY <1>1, <1>3

\* Loading keeps every form, under its plain word.
LEMMA KeyLoads ==
    ASSUME NEW L, GoodFile(L), NEW K, K = LoadedKey(L)
    PROVE  /\ GoodKey(K)
           /\ FormsIn(K) = {L[s].form : s \in DOMAIN L}
           /\ DOMAIN K = {<<t[1], Rank(L, t)>> : t \in DOMAIN L}
           /\ \A t \in DOMAIN L : K[<<t[1], Rank(L, t)>>] = L[t].form
  <1> USE WordKeyAssumption
  <1>1. DOMAIN L \subseteq Slot
    BY DEF GoodFile
  <1>2. K = [s \in {<<t[1], Rank(L, t)>> : t \in DOMAIN L} |->
                L[CHOOSE t \in DOMAIN L : <<t[1], Rank(L, t)>> = s].form]
    BY DEF LoadedKey
  <1>3. ASSUME NEW t \in DOMAIN L
        PROVE  K[<<t[1], Rank(L, t)>>] = L[t].form
    <2>1. PICK s : s = <<t[1], Rank(L, t)>>
      OBVIOUS
    <2>2. PICK u : u = CHOOSE v \in DOMAIN L : <<v[1], Rank(L, v)>> = s
      OBVIOUS
    <2>3. u \in DOMAIN L /\ <<u[1], Rank(L, u)>> = s
      BY <2>1, <2>2
    <2>4. u[1] = t[1] /\ Rank(L, u) = Rank(L, t)
      BY <2>1, <2>3
    <2>5. u = t
      BY <1>1, <2>3, <2>4, RankInjective
    <2>6. s \in DOMAIN K /\ K[s] = L[u].form
      BY <1>2, <2>1, <2>2
    <2> QED BY <2>1, <2>5, <2>6
  <1>4. DOMAIN K = {<<t[1], Rank(L, t)>> : t \in DOMAIN L}
    BY <1>2
  <1>5. ASSUME NEW t \in DOMAIN L
        PROVE  /\ <<t[1], Rank(L, t)>> \in Slot /\ L[t].form \in Forms
               /\ PlainOf[L[t].form] = t[1]
    <2>1. t[1] \in Plains /\ t[2] \in 0..MaxPar
      BY <1>1 DEF Slot
    <2>2. Rank(L, t) \in 0..MaxPar
      BY <1>1, <2>1, RankBounded
    <2> QED BY <2>1, <2>2 DEF Slot, GoodFile
  <1>6. GoodKey(K)
    BY <1>3, <1>4, <1>5 DEF GoodKey
  <1>7. FormsIn(K) = {L[s].form : s \in DOMAIN L}
    <2>1. ASSUME NEW s \in DOMAIN K PROVE \E t \in DOMAIN L : K[s] = L[t].form
      <3>1. PICK t \in DOMAIN L : s = <<t[1], Rank(L, t)>>
        BY <1>4
      <3> QED BY <1>3, <3>1
    <2>2. ASSUME NEW t \in DOMAIN L PROVE \E s \in DOMAIN K : K[s] = L[t].form
      BY <1>3, <1>4
    <2> QED BY <2>1, <2>2 DEF FormsIn
  <1> QED BY <1>3, <1>4, <1>6, <1>7

\* I has the forms of the lines L, and for each of them what one of its lines says.
FromLines(I, L) ==
    /\ DOMAIN I = {L[s].form : s \in DOMAIN L}
    /\ \A w \in DOMAIN I : \E s \in DOMAIN L :
          /\ L[s].form = w
          /\ I[w] = [freq |-> L[s].freq, srcs |-> L[s].srcs]

\* loadkey gives a form the frequency and sources of one of its lines.
LEMMA InfoLoads ==
    ASSUME NEW L, GoodFile(L), NEW I, I = LoadedInfo(L)
    PROVE  FromLines(I, L)
  <1> USE WordKeyAssumption
  <1>1. DOMAIN I = {L[s].form : s \in DOMAIN L}
    BY DEF LoadedInfo
  <1>2. ASSUME NEW w \in DOMAIN I
        PROVE  \E s \in DOMAIN L : /\ L[s].form = w
                                   /\ I[w] = [freq |-> L[s].freq, srcs |-> L[s].srcs]
    <2>1. PICK S : S = {s \in DOMAIN L : L[s].form = w}
      OBVIOUS
    <2>2. PICK T : T = {s[2] : s \in S}
      OBVIOUS
    <2>3. S # {} /\ \A s \in S : s[1] = PlainOf[w] /\ s[2] \in 0..MaxPar /\ s = <<s[1], s[2]>>
      BY <1>1, <2>1 DEF GoodFile, Slot
    <2>4. PICK n \in T : \A m \in T : m <= n
      <3>1. T # {} /\ T \subseteq 0..MaxPar
        BY <2>2, <2>3
      <3> QED BY <3>1, GreatestElement
    <2>5. PICK last \in S : last[2] = n
      BY <2>2, <2>4
    <2>6. ASSUME NEW t \in S PROVE t = last \/ Before(t, last)
      <3>1. t[2] <= last[2]
        BY <2>2, <2>4, <2>5
      <3>2. /\ t[1] = last[1] /\ t[2] \in 0..MaxPar /\ last[2] \in 0..MaxPar
            /\ t = <<t[1], t[2]>> /\ last = <<last[1], last[2]>>
        BY <2>3
      <3>3. t[2] = last[2] \/ t[2] < last[2]
        BY <3>1, <3>2
      <3> QED BY <3>2, <3>3 DEF Before
    <2>7. PICK u : u = CHOOSE s \in DOMAIN L :
                          /\ L[s].form = w
                          /\ \A t \in DOMAIN L : L[t].form = w => t = s \/ Before(t, s)
      OBVIOUS
    <2>8. u \in DOMAIN L /\ L[u].form = w
      BY <2>1, <2>5, <2>6, <2>7
    <2>9. I[w] = [freq |-> L[u].freq, srcs |-> L[u].srcs]
      BY <1>1, <2>7 DEF LoadedInfo
    <2> QED BY <2>8, <2>9
  <1> QED BY <1>1, <1>2 DEF FromLines
----------------------------------------------------------------------------
(* Frequencies and places. *)

GoodInfo(I) == /\ DOMAIN I \subseteq Forms
               /\ \A w \in DOMAIN I : I[w].freq \in Nat /\ I[w].srcs \subseteq Headers

GoodTexts(ts) == /\ DOMAIN ts \subseteq Headers
                 /\ \A h \in DOMAIN ts : ts[h] \in Seq(Token)

\* What has been counted: each form as often as its frequency says.
TallyOf(I) == UNION {{w} \X (1..I[w].freq) : w \in DOMAIN I}

\* The places in the texts that are counted.
Positions(ts) ==
    {o \in UNION {{h} \X DOMAIN ts[h] : h \in DOMAIN ts} :
        ts[o[1]][o[2]].at # "comment"}

LEMMA InTally ==
    ASSUME NEW I, NEW x
    PROVE  x \in TallyOf(I) <=> \E w \in DOMAIN I : \E k \in 1..I[w].freq : x = <<w, k>>
  <1>1. x \in TallyOf(I) <=> \E w \in DOMAIN I : x \in {w} \X (1..I[w].freq)
    BY DEF TallyOf
  <1>2. ASSUME NEW w
        PROVE  x \in {w} \X (1..I[w].freq) <=> \E k \in 1..I[w].freq : x = <<w, k>>
    OBVIOUS
  <1> QED BY <1>1, <1>2

LEMMA InPositions ==
    ASSUME NEW ts, NEW x
    PROVE  x \in Positions(ts) <=>
              \E h \in DOMAIN ts : \E i \in DOMAIN ts[h] :
                 x = <<h, i>> /\ ts[h][i].at # "comment"
  <1>1. x \in Positions(ts) <=>
           /\ \E h \in DOMAIN ts : x \in {h} \X DOMAIN ts[h]
           /\ ts[x[1]][x[2]].at # "comment"
    BY DEF Positions
  <1>2. ASSUME NEW h
        PROVE  x \in {h} \X DOMAIN ts[h] <=> \E i \in DOMAIN ts[h] : x = <<h, i>>
    OBVIOUS
  <1> QED BY <1>1, <1>2

LEMMA InOccurrences ==
    ASSUME NEW w, NEW ts, NEW x
    PROVE  x \in Occurrences(w, ts) <=>
              \E h \in DOMAIN ts : \E i \in DOMAIN ts[h] :
                 /\ x = <<h, i>> /\ ts[h][i].at # "comment" /\ ts[h][i].form = w
  <1>1. x \in Occurrences(w, ts) <=>
           /\ \E h \in DOMAIN ts : x \in {h} \X DOMAIN ts[h]
           /\ ts[x[1]][x[2]].form = w /\ ts[x[1]][x[2]].at # "comment"
    BY DEF Occurrences
  <1>2. ASSUME NEW h
        PROVE  x \in {h} \X DOMAIN ts[h] <=> \E i \in DOMAIN ts[h] : x = <<h, i>>
    OBVIOUS
  <1> QED BY <1>1, <1>2

\* There are finitely many places.
LEMMA PlacesFinite ==
    ASSUME NEW ts, GoodTexts(ts)
    PROVE  /\ IsFiniteSet(Positions(ts))
           /\ \A w : /\ IsFiniteSet(Occurrences(w, ts))
                     /\ Cardinality(Occurrences(w, ts)) \in Nat
  <1> DEFINE f == [h \in DOMAIN ts |-> {h} \X DOMAIN ts[h]]
             U == UNION {{h} \X DOMAIN ts[h] : h \in DOMAIN ts}
             R == {{h} \X DOMAIN ts[h] : h \in DOMAIN ts}
  <1>1. IsFiniteSet(DOMAIN ts)
    BY RepairAssumption, FS_Subset DEF GoodTexts
  <1>2. IsFiniteSet(R)
    <2>1. f \in [DOMAIN ts -> R] /\ \A r \in R : \E h \in DOMAIN ts : f[h] = r
      OBVIOUS
    <2>2. f \in Surjection(DOMAIN ts, R)
      <3> HIDE DEF f, R
      <3> QED BY <2>1, Fun_IsSurj
    <2> HIDE DEF f, R
    <2> QED BY <1>1, <2>2, FS_Surjection
  <1>3. ASSUME NEW r \in R PROVE IsFiniteSet(r)
    <2>1. PICK h \in DOMAIN ts : r = {h} \X DOMAIN ts[h]
      OBVIOUS
    <2>2. ts[h] \in Seq(Token)
      BY DEF GoodTexts
    <2>3. DOMAIN ts[h] = 1..Len(ts[h]) /\ Len(ts[h]) \in Nat
      BY <2>2
    <2>4. IsFiniteSet(1..Len(ts[h]))
      BY <2>3, FS_Interval
    <2>5. IsFiniteSet({h})
      BY FS_Singleton
    <2> QED BY <2>1, <2>3, <2>4, <2>5, FS_Product
  <1>4. IsFiniteSet(U)
    BY <1>2, <1>3, FS_UNION
  <1>5. Positions(ts) \subseteq U
    BY DEF Positions
  <1>6. \A w : Occurrences(w, ts) \subseteq U
    BY DEF Occurrences
  <1> HIDE DEF U
  <1>7. IsFiniteSet(Positions(ts)) /\ \A w : IsFiniteSet(Occurrences(w, ts))
    BY <1>4, <1>5, <1>6, FS_Subset
  <1> QED BY <1>7, FS_CardinalityType

\* The frequencies and sources are those of the texts.
Agrees(I, ts) ==
    \A w \in Forms :
       IF w \in DOMAIN I
       THEN /\ I[w].freq = Cardinality(Occurrences(w, ts))
            /\ I[w].srcs = {o[1] : o \in Occurrences(w, ts)}
       ELSE Occurrences(w, ts) = {}

\* As many forms have been counted as there are places to count.
Balanced(I, ts) == ExistsBijection(TallyOf(I), Positions(ts))

\* Frequencies that are those of the texts add up to the number of places.
LEMMA AgreesBalanced ==
    ASSUME NEW I, NEW ts, GoodTexts(ts), DOMAIN I \subseteq Forms, Agrees(I, ts)
    PROVE  Balanced(I, ts)
  <1> DEFINE O(w) == Occurrences(w, ts)
             G(w) == CHOOSE g : g \in Bijection(O(w), 1..Cardinality(O(w)))
             W(o) == ts[o[1]][o[2]].form
             F == [o \in Positions(ts) |-> <<W(o), G(W(o))[o]>>]
  <1>1. ASSUME NEW w
        PROVE  /\ G(w) \in [O(w) -> 1..Cardinality(O(w))]
               /\ \A a, b \in O(w) : G(w)[a] = G(w)[b] => a = b
               /\ \A k \in 1..Cardinality(O(w)) : \E a \in O(w) : G(w)[a] = k
    <2>1. IsFiniteSet(O(w))
      BY PlacesFinite
    <2>2. PICK S, T : S = O(w) /\ T = 1..Cardinality(O(w))
      OBVIOUS
    <2>3. ExistsBijection(T, S)
      BY <2>1, <2>2, FS_CardinalityType
    <2>4. ExistsBijection(S, T)
      BY <2>3, Fun_ExistsBijSymmetric
    <2>5. Bijection(S, T) # {}
      BY <2>4, Fun_ExistsBij
    <2>6. PICK g : g = G(w)
      OBVIOUS
    <2>7. g \in Bijection(S, T)
      BY <2>2, <2>5, <2>6
    <2>8. /\ g \in [S -> T]
          /\ \A a, b \in S : g[a] = g[b] => a = b
          /\ \A k \in T : \E a \in S : g[a] = k
      BY <2>7, Fun_BijectionProperties
    <2> HIDE DEF G, O
    <2> QED BY <2>2, <2>6, <2>8
  <1>2. ASSUME NEW o \in Positions(ts)
        PROVE  o \in O(W(o)) /\ W(o) \in Forms
    <2>1. PICK h \in DOMAIN ts : \E i \in DOMAIN ts[h] : o = <<h, i>> /\ ts[h][i].at # "comment"
      BY InPositions
    <2>2. PICK i \in DOMAIN ts[h] : o = <<h, i>> /\ ts[h][i].at # "comment"
      BY <2>1
    <2>3. ts[h] \in Seq(Token)
      BY DEF GoodTexts
    <2>4. ts[h][i] \in Token
      BY <2>3
    <2>5. W(o) = ts[h][i].form
      BY <2>2
    <2>6. o \in O(W(o))
      BY <2>2, <2>5, InOccurrences
    <2> QED BY <2>4, <2>5, <2>6 DEF Token
  <1>3. ASSUME NEW w \in Forms, NEW o \in O(w) PROVE o \in Positions(ts) /\ W(o) = w
    <2>1. PICK h \in DOMAIN ts : \E i \in DOMAIN ts[h] :
             o = <<h, i>> /\ ts[h][i].at # "comment" /\ ts[h][i].form = w
      BY InOccurrences
    <2>2. PICK i \in DOMAIN ts[h] :
             o = <<h, i>> /\ ts[h][i].at # "comment" /\ ts[h][i].form = w
      BY <2>1
    <2> QED BY <2>2, InPositions
  <1> HIDE DEF O, G, W
  <1>4. ASSUME NEW o \in Positions(ts) PROVE F[o] \in TallyOf(I)
    <2>1. o \in O(W(o)) /\ W(o) \in Forms
      BY <1>2
    <2>2. W(o) \in DOMAIN I
      BY <2>1 DEF Agrees, O
    <2>3. I[W(o)].freq = Cardinality(O(W(o)))
      BY <2>1, <2>2 DEF Agrees, O
    <2>4. G(W(o))[o] \in 1..I[W(o)].freq
      BY <1>1, <2>1, <2>3
    <2> QED BY <2>2, <2>4, InTally
  <1>5. ASSUME NEW a \in Positions(ts), NEW b \in Positions(ts), F[a] = F[b] PROVE a = b
    <2>1. W(a) = W(b) /\ G(W(a))[a] = G(W(b))[b]
      BY <1>5
    <2>2. a \in O(W(a)) /\ b \in O(W(a))
      BY <1>2, <2>1
    <2> QED BY <1>1, <2>1, <2>2
  <1>6. ASSUME NEW x \in TallyOf(I) PROVE \E o \in Positions(ts) : F[o] = x
    <2>1. PICK w \in DOMAIN I : \E k \in 1..I[w].freq : x = <<w, k>>
      BY InTally
    <2>2. PICK k \in 1..I[w].freq : x = <<w, k>>
      BY <2>1
    <2>3. w \in Forms /\ I[w].freq = Cardinality(O(w))
      BY DEF Agrees, O
    <2>4. PICK o \in O(w) : G(w)[o] = k
      BY <1>1, <2>3
    <2>5. o \in Positions(ts) /\ W(o) = w
      BY <1>3, <2>3
    <2> QED BY <2>2, <2>4, <2>5
  <1>7. F \in [Positions(ts) -> TallyOf(I)]
    BY <1>4
  <1>8. F \in Bijection(Positions(ts), TallyOf(I))
    <2> HIDE DEF F
    <2> QED BY <1>5, <1>6, <1>7, Fun_IsBij
  <1>9. ExistsBijection(Positions(ts), TallyOf(I))
    <2> HIDE DEF F
    <2> QED BY <1>8, Fun_ExistsBij
  <1> QED BY <1>9, Fun_ExistsBijSymmetric DEF Balanced
----------------------------------------------------------------------------
(* What replaceword does to frequencies and texts. *)

\* In J the frequency and the sources of orig have gone to repl.
IsMerge(J, I, orig, repl) ==
    /\ DOMAIN J = (DOMAIN I \ {orig}) \cup {repl}
    /\ \A w \in DOMAIN J : w # repl => J[w] = I[w]
    /\ repl \in DOMAIN I => /\ J[repl].freq = I[repl].freq + I[orig].freq
                            /\ J[repl].srcs = I[repl].srcs \cup I[orig].srcs
    /\ repl \notin DOMAIN I => /\ J[repl].freq = I[orig].freq
                               /\ J[repl].srcs = I[orig].srcs

\* What replaceword does to the frequencies and the sources.
LEMMA MergedIs ==
    ASSUME NEW I, GoodInfo(I), NEW orig \in DOMAIN I, NEW repl \in Forms, orig # repl,
           NEW J, J = Merged(I, orig, repl)
    PROVE  GoodInfo(J) /\ IsMerge(J, I, orig, repl)
  <1>1. PICK had : had = IF repl \in DOMAIN I THEN I[repl] ELSE [freq |-> 0, srcs |-> {}]
    OBVIOUS
  <1>2. J = [w \in (DOMAIN I \ {orig}) \cup {repl} |->
               IF w = repl THEN [freq |-> had.freq + I[orig].freq,
                                 srcs |-> had.srcs \cup I[orig].srcs]
               ELSE I[w]]
    BY <1>1 DEF Merged
  <1>3. /\ DOMAIN J = (DOMAIN I \ {orig}) \cup {repl}
        /\ \A w \in DOMAIN J : w # repl => J[w] = I[w]
        /\ J[repl] = [freq |-> had.freq + I[orig].freq, srcs |-> had.srcs \cup I[orig].srcs]
    BY <1>2
  <1>4. I[orig].freq \in Nat /\ I[orig].srcs \subseteq Headers
    BY DEF GoodInfo
  <1> HIDE <1>2
  <1>5. CASE repl \in DOMAIN I
    <2>1. had = I[repl] /\ I[repl].freq \in Nat /\ I[repl].srcs \subseteq Headers
      BY <1>1, <1>5 DEF GoodInfo
    <2>2. GoodInfo(J)
      BY <1>3, <1>4, <2>1 DEF GoodInfo
    <2> QED BY <1>3, <1>5, <2>1, <2>2 DEF IsMerge
  <1>6. CASE repl \notin DOMAIN I
    <2>1. had.freq = 0 /\ had.srcs = {}
      BY <1>1, <1>6
    <2>2. J[repl].freq = I[orig].freq /\ J[repl].srcs = I[orig].srcs
      BY <1>3, <1>4, <2>1
    <2>3. GoodInfo(J)
      BY <1>3, <1>4, <2>2 DEF GoodInfo
    <2> QED BY <1>3, <1>6, <2>2, <2>3 DEF IsMerge
  <1> QED BY <1>5, <1>6

\* No occurrence is lost or counted twice.
LEMMA MergedTally ==
    ASSUME NEW I, GoodInfo(I), NEW orig \in DOMAIN I, NEW repl \in Forms, orig # repl,
           NEW J, J = Merged(I, orig, repl)
    PROVE  ExistsBijection(TallyOf(I), TallyOf(J))
  <1>1. /\ DOMAIN J = (DOMAIN I \ {orig}) \cup {repl}
        /\ \A w \in DOMAIN J : w # repl => J[w] = I[w]
        /\ repl \in DOMAIN I => J[repl].freq = I[repl].freq + I[orig].freq
        /\ repl \notin DOMAIN I => J[repl].freq = I[orig].freq
    <2>1. IsMerge(J, I, orig, repl)
      BY MergedIs
    <2> QED BY <2>1 DEF IsMerge
  <1>2. PICK n : n = I[orig].freq
    OBVIOUS
  <1>3. PICK b \in Nat : /\ J[repl].freq = b + n
                         /\ repl \in DOMAIN I => I[repl].freq = b
                         /\ repl \notin DOMAIN I => b = 0
    <2>1. n \in Nat
      BY <1>2 DEF GoodInfo
    <2>2. CASE repl \in DOMAIN I
      <3>1. I[repl].freq \in Nat
        BY <2>2 DEF GoodInfo
      <3> QED BY <1>1, <1>2, <2>2, <3>1
    <2>3. CASE repl \notin DOMAIN I
      BY <1>1, <1>2, <2>1, <2>3
    <2> QED BY <2>2, <2>3
  <1>4. n \in Nat
    BY <1>2 DEF GoodInfo
  <1> DEFINE f == [x \in TallyOf(I) |-> IF x[1] = orig THEN <<repl, b + x[2]>> ELSE x]
  <1>5. ASSUME NEW x \in TallyOf(I)
        PROVE  /\ f[x] \in TallyOf(J)
               /\ x[1] = orig => f[x] = <<repl, b + x[2]>> /\ x = <<orig, x[2]>> /\ x[2] \in 1..n
               /\ x[1] # orig => /\ f[x] = x
                                 /\ x[1] = repl => x[2] \in 1..b
    <2>1. PICK w \in DOMAIN I : \E k \in 1..I[w].freq : x = <<w, k>>
      BY InTally
    <2>2. PICK k \in 1..I[w].freq : x = <<w, k>>
      BY <2>1
    <2>3. CASE w = orig
      <3>1. f[x] = <<repl, b + k>>
        BY <2>2, <2>3
      <3>2. b + k \in 1..J[repl].freq
        BY <1>2, <1>3, <1>4, <2>2, <2>3
      <3>3. f[x] \in TallyOf(J)
        BY <1>1, <3>1, <3>2, InTally
      <3> QED BY <1>2, <2>2, <2>3, <3>1, <3>3
    <2>4. CASE w # orig
      <3>1. f[x] = x
        BY <2>2, <2>4
      <3>2. w \in DOMAIN J
        BY <1>1, <2>4
      <3>3. k \in 1..J[w].freq
        <4>1. CASE w = repl
          BY <1>3, <1>4, <2>2, <4>1
        <4>2. CASE w # repl
          BY <1>1, <2>2, <3>2, <4>2
        <4> QED BY <4>1, <4>2
      <3>4. w = repl => k \in 1..b
        BY <1>3, <2>2
      <3>5. x \in TallyOf(J)
        BY <2>2, <3>2, <3>3, InTally
      <3> QED BY <2>2, <2>4, <3>1, <3>4, <3>5
    <2> QED BY <2>3, <2>4
  <1>6. f \in [TallyOf(I) -> TallyOf(J)]
    BY <1>5
  <1> HIDE DEF f
  <1>7. ASSUME NEW x \in TallyOf(I), NEW y \in TallyOf(I), f[x] = f[y] PROVE x = y
    <2>1. CASE x[1] = orig /\ y[1] = orig
      <3>1. b + x[2] = b + y[2] /\ x[2] \in 1..n /\ y[2] \in 1..n
        BY <1>5, <1>7, <2>1
      <3>2. x[2] = y[2]
        BY <1>4, <3>1
      <3> QED BY <1>5, <2>1, <3>2
    <2>2. CASE x[1] = orig /\ y[1] # orig
      <3>1. y = <<repl, b + x[2]>> /\ x[2] \in 1..n
        BY <1>5, <1>7, <2>2
      <3>2. b + x[2] \in 1..b
        BY <1>5, <2>2, <3>1
      <3> QED BY <1>4, <3>1, <3>2
    <2>3. CASE x[1] # orig /\ y[1] = orig
      <3>1. x = <<repl, b + y[2]>> /\ y[2] \in 1..n
        BY <1>5, <1>7, <2>3
      <3>2. b + y[2] \in 1..b
        BY <1>5, <2>3, <3>1
      <3> QED BY <1>4, <3>1, <3>2
    <2>4. CASE x[1] # orig /\ y[1] # orig
      BY <1>5, <1>7, <2>4
    <2> QED BY <2>1, <2>2, <2>3, <2>4
  <1>8. ASSUME NEW y \in TallyOf(J) PROVE \E x \in TallyOf(I) : f[x] = y
    <2>1. PICK w \in DOMAIN J : \E k \in 1..J[w].freq : y = <<w, k>>
      BY InTally
    <2>2. PICK k \in 1..J[w].freq : y = <<w, k>>
      BY <2>1
    <2>3. CASE w # repl
      <3>1. w \in DOMAIN I /\ w # orig /\ k \in 1..I[w].freq
        BY <1>1, <2>2, <2>3
      <3>2. y \in TallyOf(I)
        BY <2>2, <3>1, InTally
      <3>3. f[y] = y
        BY <1>5, <2>2, <3>1, <3>2
      <3> QED BY <3>2, <3>3
    <2>4. CASE w = repl /\ k \in 1..b
      <3>1. repl \in DOMAIN I /\ k \in 1..I[repl].freq
        BY <1>3, <2>4
      <3>2. y \in TallyOf(I)
        BY <2>2, <2>4, <3>1, InTally
      <3>3. f[y] = y
        BY <1>5, <2>2, <2>4, <3>2
      <3> QED BY <3>2, <3>3
    <2>5. CASE w = repl /\ k \notin 1..b
      <3>1. k - b \in 1..n /\ b + (k - b) = k
        BY <1>3, <1>4, <2>2, <2>5
      <3>2. PICK x : x = <<orig, k - b>>
        OBVIOUS
      <3>3. x \in TallyOf(I)
        BY <1>2, <3>1, <3>2, InTally
      <3>4. f[x] = <<repl, b + (k - b)>>
        BY <1>5, <3>2, <3>3
      <3> QED BY <2>2, <2>5, <3>1, <3>3, <3>4
    <2> QED BY <2>3, <2>4, <2>5
  <1>9. f \in Bijection(TallyOf(I), TallyOf(J))
    BY <1>6, <1>7, <1>8, Fun_IsBij
  <1> QED BY <1>9, Fun_ExistsBij

\* The words of text u are in comments where those of t are.
SamePlaces(u, t) ==
    /\ u \in Seq(Token) /\ DOMAIN u = DOMAIN t
    /\ \A i \in DOMAIN t : u[i].at = "comment" <=> t[i].at = "comment"

\* A word in a text may get another form or lose its capital; a word in a comment
\* stays one, and no other becomes one.
LEMMA RetokenType ==
    ASSUME NEW t \in Seq(Token), NEW orig \in Forms, NEW repl \in Forms,
           NEW u, u = ReplaceInText(t, orig, repl)
    PROVE  SamePlaces(u, t)
  <1>1. DOMAIN t = 1..Len(t) /\ Len(t) \in Nat
    OBVIOUS
  <1>2. u = [i \in DOMAIN t |-> Retoken(t, i, orig, repl)]
    BY DEF ReplaceInText
  <1>3. ASSUME NEW i \in DOMAIN t
        PROVE  u[i] \in Token /\ (u[i].at = "comment" <=> t[i].at = "comment")
    <2>1. u[i] = Retoken(t, i, orig, repl) /\ t[i] \in Token
      BY <1>2
    <2>2. CASE t[i] = [form |-> orig, at |-> "plain"] /\ ~Stopped(t, i, orig)
      <3>1. u[i] = [form |-> repl, at |-> "plain"]
        BY <2>1, <2>2 DEF Retoken
      <3> QED BY <2>2, <3>1 DEF Token, Places
    <2>3. CASE t[i] = [form |-> orig, at |-> "capital"] /\ orig \notin MacronFirst
      <3>1. u[i] = [form |-> repl, at |-> IF repl \in MacronFirst THEN "plain" ELSE "capital"]
        BY <2>1, <2>3 DEF Retoken
      <3> QED BY <2>3, <3>1 DEF Token, Places
    <2>4. CASE /\ ~(t[i] = [form |-> orig, at |-> "plain"] /\ ~Stopped(t, i, orig))
               /\ ~(t[i] = [form |-> orig, at |-> "capital"] /\ orig \notin MacronFirst)
      <3>1. u[i] = t[i]
        BY <2>1, <2>4 DEF Retoken
      <3> QED BY <2>1, <3>1
    <2> QED BY <2>2, <2>3, <2>4
  <1>4. DOMAIN u = 1..Len(t)
    BY <1>1, <1>2
  <1>5. u \in Seq(Token)
    BY <1>1, <1>2, <1>3
  <1> QED BY <1>1, <1>3, <1>4, <1>5 DEF SamePlaces

\* The places in the texts are the same before and after a correction.
LEMMA RetextedPlaces ==
    ASSUME NEW ts, GoodTexts(ts), NEW I, NEW orig \in Forms, NEW repl \in Forms,
           orig \in DOMAIN WithEnc => repl \in DOMAIN WithEnc,
           NEW us, us = Retexted(ts, I, orig, repl)
    PROVE  /\ GoodTexts(us) /\ DOMAIN us = DOMAIN ts
           /\ Positions(us) = Positions(ts)
  <1>1. DOMAIN us = DOMAIN ts
    BY DEF Retexted
  <1>2. ASSUME NEW h \in DOMAIN ts
        PROVE  SamePlaces(us[h], ts[h])
    <2>1. ts[h] \in Seq(Token)
      BY DEF GoodTexts
    <2>2. PICK t : t = ReplaceInText(ts[h], orig, repl)
      OBVIOUS
    <2>3. SamePlaces(t, ts[h])
      BY <2>1, <2>2, RetokenType
    <2>4. us[h] = IF h \notin I[orig].srcs THEN ts[h]
                  ELSE IF orig \in DOMAIN WithEnc
                       THEN ReplaceInText(t, WithEnc[orig], WithEnc[repl]) ELSE t
      BY <2>2 DEF Retexted
    <2>5. CASE h \notin I[orig].srcs
      BY <2>1, <2>4, <2>5 DEF SamePlaces
    <2>6. CASE h \in I[orig].srcs /\ orig \notin DOMAIN WithEnc
      BY <2>3, <2>4, <2>6
    <2>7. CASE h \in I[orig].srcs /\ orig \in DOMAIN WithEnc
      <3>1. PICK v \in Forms, w \in Forms : v = WithEnc[orig] /\ w = WithEnc[repl]
        BY <2>7, RepairAssumption
      <3>2. us[h] = ReplaceInText(t, v, w)
        BY <2>4, <2>7, <3>1
      <3>3. t \in Seq(Token)
        BY <2>3 DEF SamePlaces
      <3>4. SamePlaces(us[h], t)
        BY <3>2, <3>3, RetokenType
      <3> QED BY <2>3, <3>4 DEF SamePlaces
    <2> QED BY <2>5, <2>6, <2>7
  <1>3. GoodTexts(us)
    BY <1>1, <1>2 DEF GoodTexts, SamePlaces
  <1>4. ASSUME NEW x PROVE x \in Positions(us) <=> x \in Positions(ts)
    <2>1. x \in Positions(us) <=> \E h \in DOMAIN ts : \E i \in DOMAIN us[h] :
                                     x = <<h, i>> /\ us[h][i].at # "comment"
      BY <1>1, InPositions
    <2>2. x \in Positions(ts) <=> \E h \in DOMAIN ts : \E i \in DOMAIN ts[h] :
                                     x = <<h, i>> /\ ts[h][i].at # "comment"
      BY InPositions
    <2> QED BY <1>2, <2>1, <2>2 DEF SamePlaces
  <1> QED BY <1>1, <1>3, <1>4
----------------------------------------------------------------------------
(* Corrections of the key and the texts at once. *)

\* No word of the texts stands at an edge or in a comment.
PlainTexts(ts) ==
    \A h \in DOMAIN ts : \A i \in DOMAIN ts[h] : ts[h][i].at \in {"plain", "capital"}

\* In u every orig of t is a repl, and nothing else has changed.
AllReplaced(u, t, orig, repl) ==
    /\ DOMAIN u = DOMAIN t
    /\ \A i \in DOMAIN t :
          /\ u[i].at \in {"plain", "capital"}
          /\ t[i].form = orig => u[i].form = repl
          /\ t[i].form # orig => u[i].form = t[i].form

\* A text without comments and edges is corrected throughout.
LEMMA TextCorrected ==
    ASSUME NEW t \in Seq(Token), \A i \in DOMAIN t : t[i].at \in {"plain", "capital"},
           NEW orig \in Forms, NEW repl \in Forms, orig \notin MacronFirst,
           NEW u, u = ReplaceInText(t, orig, repl)
    PROVE  AllReplaced(u, t, orig, repl)
  <1>1. u = [i \in DOMAIN t |-> Retoken(t, i, orig, repl)]
    BY DEF ReplaceInText
  <1>2. ASSUME NEW i \in DOMAIN t
        PROVE  /\ u[i].at \in {"plain", "capital"}
               /\ t[i].form = orig => u[i].form = repl
               /\ t[i].form # orig => u[i].form = t[i].form
    <2>1. DOMAIN t = 1..Len(t) /\ Len(t) \in Nat
      OBVIOUS
    <2>2. t[i] \in Token /\ t[i].at \in {"plain", "capital"}
      OBVIOUS
    <2>3. t[i] = [form |-> t[i].form, at |-> t[i].at]
      BY <2>2 DEF Token
    <2>4. ~Stopped(t, i, orig)
      <3>1. ASSUME NEW j \in 1..i PROVE t[j] # [form |-> orig, at |-> "comment"]
        <4>1. j \in DOMAIN t
          BY <2>1
        <4>2. t[j].at # "comment"
          BY <4>1
        <4> QED BY <4>2
      <3> QED BY <3>1 DEF Stopped
    <2>5. u[i] = Retoken(t, i, orig, repl)
      BY <1>1
    <2>6. CASE t[i].form = orig /\ t[i].at = "plain"
      <3>1. t[i] = [form |-> orig, at |-> "plain"]
        BY <2>3, <2>6
      <3>2. u[i] = [form |-> repl, at |-> "plain"]
        BY <2>4, <2>5, <3>1 DEF Retoken
      <3> QED BY <2>6, <3>2
    <2>7. CASE t[i].form = orig /\ t[i].at = "capital"
      <3>1. t[i] = [form |-> orig, at |-> "capital"] /\ t[i] # [form |-> orig, at |-> "plain"]
        BY <2>3, <2>7
      <3>2. u[i] = [form |-> repl, at |-> IF repl \in MacronFirst THEN "plain" ELSE "capital"]
        BY <2>5, <3>1 DEF Retoken
      <3>3. u[i].form = repl /\ u[i].at \in {"plain", "capital"}
        BY <3>2
      <3> QED BY <2>7, <3>3
    <2>8. CASE t[i].form # orig
      <3>1. t[i] # [form |-> orig, at |-> "capital"] /\ t[i] # [form |-> orig, at |-> "plain"]
        BY <2>8
      <3>2. u[i] = t[i]
        BY <2>5, <3>1 DEF Retoken
      <3> QED BY <2>2, <2>8, <3>2
    <2> QED BY <2>2, <2>6, <2>7, <2>8
  <1>3. DOMAIN u = DOMAIN t
    BY <1>1
  <1> QED BY <1>2, <1>3 DEF AllReplaced

\* When the counts are those of the texts, each text with orig is corrected.
LEMMA TextsCorrected ==
    ASSUME NEW ts, GoodTexts(ts), PlainTexts(ts),
           NEW I, Agrees(I, ts), NEW orig \in DOMAIN I, orig \in Forms, NEW repl \in Forms,
           orig \notin MacronFirst, orig \notin DOMAIN WithEnc,
           NEW us, us = Retexted(ts, I, orig, repl)
    PROVE  /\ DOMAIN us = DOMAIN ts
           /\ \A h \in DOMAIN ts : AllReplaced(us[h], ts[h], orig, repl)
  <1>1. DOMAIN us = DOMAIN ts
    BY DEF Retexted
  <1>2. ASSUME NEW h \in DOMAIN ts PROVE AllReplaced(us[h], ts[h], orig, repl)
    <2>1. ts[h] \in Seq(Token) /\ \A i \in DOMAIN ts[h] : ts[h][i].at \in {"plain", "capital"}
      BY DEF GoodTexts, PlainTexts
    <2>2. CASE h \in I[orig].srcs
      <3>1. us[h] = ReplaceInText(ts[h], orig, repl)
        BY <2>2 DEF Retexted
      <3> QED BY <2>1, <3>1, TextCorrected
    <2>3. CASE h \notin I[orig].srcs
      <3>1. us[h] = ts[h]
        BY <2>3 DEF Retexted
      <3>2. ASSUME NEW i \in DOMAIN ts[h] PROVE ts[h][i].form # orig
        <4>1. SUFFICES ASSUME ts[h][i].form = orig PROVE FALSE
          OBVIOUS
        <4>2. PICK o : o = <<h, i>>
          OBVIOUS
        <4>3. o \in Occurrences(orig, ts)
          BY <2>1, <4>1, <4>2, InOccurrences
        <4>4. I[orig].srcs = {x[1] : x \in Occurrences(orig, ts)}
          BY DEF Agrees
        <4>5. o[1] \in I[orig].srcs
          BY <4>3, <4>4
        <4> QED BY <2>3, <4>2, <4>5
      <3> QED BY <2>1, <3>1, <3>2 DEF AllReplaced
    <2> QED BY <2>2, <2>3
  <1> QED BY <1>1, <1>2

\* The occurrences of orig have become occurrences of repl.
LEMMA OccurrencesMoved ==
    ASSUME NEW ts, PlainTexts(ts), NEW us, DOMAIN us = DOMAIN ts,
           NEW orig, NEW repl, orig # repl,
           \A h \in DOMAIN ts : AllReplaced(us[h], ts[h], orig, repl)
    PROVE  /\ PlainTexts(us)
           /\ Occurrences(orig, us) = {}
           /\ Occurrences(repl, us) = Occurrences(repl, ts) \cup Occurrences(orig, ts)
           /\ \A w : w # orig /\ w # repl => Occurrences(w, us) = Occurrences(w, ts)
  <1>1. PlainTexts(us)
    BY DEF AllReplaced, PlainTexts
  <1>2. ASSUME NEW w, NEW x
        PROVE  x \in Occurrences(w, us) <=>
                  \E h \in DOMAIN ts : \E i \in DOMAIN ts[h] :
                     x = <<h, i>> /\ us[h][i].form = w
    <2>1. x \in Occurrences(w, us) <=>
              \E h \in DOMAIN us : \E i \in DOMAIN us[h] :
                 /\ x = <<h, i>> /\ us[h][i].at # "comment" /\ us[h][i].form = w
      BY InOccurrences
    <2>2. \A h \in DOMAIN ts : /\ DOMAIN us[h] = DOMAIN ts[h]
                               /\ \A i \in DOMAIN us[h] : us[h][i].at # "comment"
      BY DEF AllReplaced
    <2> QED BY <2>1, <2>2
  <1>3. ASSUME NEW w, NEW x
        PROVE  x \in Occurrences(w, ts) <=>
                  \E h \in DOMAIN ts : \E i \in DOMAIN ts[h] :
                     x = <<h, i>> /\ ts[h][i].form = w
    <2>1. x \in Occurrences(w, ts) <=>
              \E h \in DOMAIN ts : \E i \in DOMAIN ts[h] :
                 /\ x = <<h, i>> /\ ts[h][i].at # "comment" /\ ts[h][i].form = w
      BY InOccurrences
    <2>2. \A h \in DOMAIN ts : \A i \in DOMAIN ts[h] : ts[h][i].at # "comment"
      BY DEF PlainTexts
    <2> QED BY <2>1, <2>2
  <1>4. ASSUME NEW h \in DOMAIN ts, NEW i \in DOMAIN ts[h]
        PROVE  /\ ts[h][i].form = orig => us[h][i].form = repl
               /\ ts[h][i].form # orig => us[h][i].form = ts[h][i].form
    BY DEF AllReplaced
  <1>5. Occurrences(orig, us) = {}
    <2>1. SUFFICES ASSUME NEW x \in Occurrences(orig, us) PROVE FALSE
      OBVIOUS
    <2>2. PICK h \in DOMAIN ts : \E i \in DOMAIN ts[h] : us[h][i].form = orig
      BY <1>2
    <2>3. PICK i \in DOMAIN ts[h] : us[h][i].form = orig
      BY <2>2
    <2> QED BY <1>4, <2>3
  <1>6. ASSUME NEW x
        PROVE  x \in Occurrences(repl, us) <=>
                  x \in Occurrences(repl, ts) \/ x \in Occurrences(orig, ts)
    BY <1>2, <1>3, <1>4
  <1>7. ASSUME NEW w, w # orig, w # repl, NEW x
        PROVE  x \in Occurrences(w, us) <=> x \in Occurrences(w, ts)
    BY <1>2, <1>3, <1>4, <1>7
  <1>8. Occurrences(repl, us) = Occurrences(repl, ts) \cup Occurrences(orig, ts)
    BY <1>6
  <1>9. ASSUME NEW w, w # orig, w # repl PROVE Occurrences(w, us) = Occurrences(w, ts)
    BY <1>7, <1>9
  <1> QED BY <1>1, <1>5, <1>8, <1>9

\* So the counts are those of the texts after the correction, too.
LEMMA CorrectedAgrees ==
    ASSUME NEW ts, GoodTexts(ts), PlainTexts(ts),
           NEW I, GoodInfo(I), Agrees(I, ts), NEW orig \in DOMAIN I, orig \in Forms,
           NEW repl \in Forms, orig # repl,
           orig \notin MacronFirst, orig \notin DOMAIN WithEnc,
           NEW us, us = Retexted(ts, I, orig, repl),
           NEW J, J = Merged(I, orig, repl)
    PROVE  PlainTexts(us) /\ Agrees(J, us)
  <1>1. DOMAIN us = DOMAIN ts /\ \A h \in DOMAIN ts : AllReplaced(us[h], ts[h], orig, repl)
    BY TextsCorrected
  <1>2. /\ PlainTexts(us)
        /\ Occurrences(orig, us) = {}
        /\ Occurrences(repl, us) = Occurrences(repl, ts) \cup Occurrences(orig, ts)
        /\ \A w : w # orig /\ w # repl => Occurrences(w, us) = Occurrences(w, ts)
    BY <1>1, OccurrencesMoved
  <1>3. IsMerge(J, I, orig, repl)
    BY MergedIs
  <1>4. /\ DOMAIN J = (DOMAIN I \ {orig}) \cup {repl}
        /\ \A w \in DOMAIN J : w # repl => J[w] = I[w]
        /\ repl \in DOMAIN I => /\ J[repl].freq = I[repl].freq + I[orig].freq
                                /\ J[repl].srcs = I[repl].srcs \cup I[orig].srcs
        /\ repl \notin DOMAIN I => /\ J[repl].freq = I[orig].freq
                                   /\ J[repl].srcs = I[orig].srcs
    BY <1>3 DEF IsMerge
  <1>5. PICK A, B : A = Occurrences(repl, ts) /\ B = Occurrences(orig, ts)
    OBVIOUS
  <1>6. /\ I[orig].freq = Cardinality(B) /\ I[orig].srcs = {o[1] : o \in B}
        /\ repl \in DOMAIN I =>
              I[repl].freq = Cardinality(A) /\ I[repl].srcs = {o[1] : o \in A}
        /\ repl \notin DOMAIN I => A = {}
    BY <1>5 DEF Agrees
  <1>7. /\ IsFiniteSet(A) /\ IsFiniteSet(B) /\ A \cap B = {}
        /\ Cardinality(A) \in Nat /\ Cardinality(B) \in Nat
    <2>1. A \cap B = {}
      <3>1. SUFFICES ASSUME NEW x \in A, x \in B PROVE FALSE
        OBVIOUS
      <3>2. \E h \in DOMAIN ts : \E i \in DOMAIN ts[h] : x = <<h, i>> /\ ts[h][i].form = repl
        BY <1>5, <3>1, InOccurrences
      <3>3. \E h \in DOMAIN ts : \E i \in DOMAIN ts[h] : x = <<h, i>> /\ ts[h][i].form = orig
        BY <1>5, <3>1, InOccurrences
      <3> QED BY <3>2, <3>3
    <2> QED BY <1>5, <2>1, PlacesFinite
  <1>8. Cardinality(A \cup B) = Cardinality(A) + Cardinality(B)
    <2>1. Cardinality(A \cup B) = Cardinality(A) + Cardinality(B) - Cardinality(A \cap B)
      BY <1>7, FS_Union
    <2>2. Cardinality(A \cap B) = 0
      BY <1>7, FS_EmptySet
    <2> QED BY <1>7, <2>1, <2>2
  <1>9. J[repl].freq = Cardinality(A \cup B) /\ J[repl].srcs = {o[1] : o \in A \cup B}
    <2>1. CASE repl \in DOMAIN I
      BY <1>4, <1>6, <1>8, <2>1
    <2>2. CASE repl \notin DOMAIN I
      <3>1. A \cup B = B
        BY <1>6, <2>2
      <3> QED BY <1>4, <1>6, <2>2, <3>1
    <2> QED BY <2>1, <2>2
  <1>10. ASSUME NEW w \in Forms
         PROVE  IF w \in DOMAIN J
                THEN /\ J[w].freq = Cardinality(Occurrences(w, us))
                     /\ J[w].srcs = {o[1] : o \in Occurrences(w, us)}
                ELSE Occurrences(w, us) = {}
    <2>1. CASE w = orig
      BY <1>2, <1>4, <2>1
    <2>2. CASE w = repl
      BY <1>2, <1>4, <1>5, <1>9, <2>2
    <2>3. CASE w # orig /\ w # repl
      <3>1. Occurrences(w, us) = Occurrences(w, ts)
        BY <1>2, <2>3
      <3>2. (w \in DOMAIN J <=> w \in DOMAIN I) /\ (w \in DOMAIN J => J[w] = I[w])
        BY <1>4, <2>3
      <3> QED BY <3>1, <3>2 DEF Agrees
    <2> QED BY <2>1, <2>2, <2>3
  <1> QED BY <1>2, <1>10 DEF Agrees
----------------------------------------------------------------------------
(* Saving the key. *)

\* R has the entries of I, and for other forms entries that count nothing.
SameAccount(R, I) ==
    /\ DOMAIN I \subseteq DOMAIN R
    /\ \A w \in DOMAIN I : R[w].freq = I[w].freq /\ R[w].srcs = I[w].srcs
    /\ \A w \in DOMAIN R : w \notin DOMAIN I => R[w].freq = 0 /\ R[w].srcs = {}

\* The lines savekey writes for key K and entries I.
LinesFor(K, I) ==
    [s \in DOMAIN K |->
        LET w == K[s] IN
        IF w \in DOMAIN I THEN [form |-> w, freq |-> I[w].freq, srcs |-> I[w].srcs]
        ELSE [form |-> w, freq |-> 0, srcs |-> {}]]

\* What loadkey finds in a key that has been saved is what was in memory.
LEMMA SavedLoads ==
    ASSUME NEW K, GoodKey(K), NEW I, GoodInfo(I), DOMAIN I \subseteq FormsIn(K),
           NEW L, L = LinesFor(K, I), NEW R, R = LoadedInfo(L)
    PROVE  GoodFile(L) /\ SameAccount(R, I) /\ DOMAIN R = FormsIn(K)
  <1>1. DOMAIN L = DOMAIN K
    BY DEF LinesFor
  <1>2. ASSUME NEW s \in DOMAIN K
        PROVE  /\ L[s].form = K[s]
               /\ K[s] \in DOMAIN I => L[s].freq = I[K[s]].freq /\ L[s].srcs = I[K[s]].srcs
               /\ K[s] \notin DOMAIN I => L[s].freq = 0 /\ L[s].srcs = {}
    <2>1. CASE K[s] \in DOMAIN I
      <3>1. L[s] = [form |-> K[s], freq |-> I[K[s]].freq, srcs |-> I[K[s]].srcs]
        BY <2>1 DEF LinesFor
      <3> QED BY <2>1, <3>1
    <2>2. CASE K[s] \notin DOMAIN I
      <3>1. L[s] = [form |-> K[s], freq |-> 0, srcs |-> {}]
        BY <2>2 DEF LinesFor
      <3> QED BY <2>2, <3>1
    <2> QED BY <2>1, <2>2
  <1>3. ASSUME NEW s \in DOMAIN L
        PROVE  /\ s \in Slot /\ L[s].form \in Forms /\ PlainOf[L[s].form] = s[1]
               /\ L[s].freq \in Nat /\ L[s].srcs \subseteq Headers
    <2>1. s \in DOMAIN K
      BY <1>1
    <2>2. s \in Slot /\ K[s] \in Forms /\ PlainOf[K[s]] = s[1]
      BY <2>1 DEF GoodKey
    <2>3. CASE K[s] \in DOMAIN I
      BY <1>2, <2>1, <2>2, <2>3 DEF GoodInfo
    <2>4. CASE K[s] \notin DOMAIN I
      BY <1>2, <2>1, <2>2, <2>4
    <2> QED BY <2>3, <2>4
  <1>4. GoodFile(L)
    BY <1>3 DEF GoodFile
  <1>5. /\ DOMAIN R = {L[s].form : s \in DOMAIN L}
        /\ \A w \in DOMAIN R : \E s \in DOMAIN L :
              L[s].form = w /\ R[w] = [freq |-> L[s].freq, srcs |-> L[s].srcs]
    <2>1. FromLines(R, L)
      BY <1>4, InfoLoads
    <2> QED BY <2>1 DEF FromLines
  <1>6. DOMAIN R = FormsIn(K)
    BY <1>1, <1>2, <1>5 DEF FormsIn
  <1>7. ASSUME NEW w \in DOMAIN R
        PROVE  /\ w \in DOMAIN I => R[w].freq = I[w].freq /\ R[w].srcs = I[w].srcs
               /\ w \notin DOMAIN I => R[w].freq = 0 /\ R[w].srcs = {}
    <2>1. PICK s \in DOMAIN L : L[s].form = w /\ R[w] = [freq |-> L[s].freq, srcs |-> L[s].srcs]
      BY <1>5
    <2>2. s \in DOMAIN K /\ K[s] = w /\ R[w].freq = L[s].freq /\ R[w].srcs = L[s].srcs
      BY <1>1, <1>2, <2>1
    <2> QED BY <1>2, <2>2
  <1>8. DOMAIN I \subseteq DOMAIN R
    BY <1>6
  <1> QED BY <1>4, <1>6, <1>7, <1>8 DEF SameAccount

\* Corrections of which the texts get all that the key gets.
PlainRepairs ==
    /\ \A ts \in StartTexts : PlainTexts(ts)
    /\ \A f \in RepairFiles : \A i \in DOMAIN f :
          /\ f[i].does \notin {"abv", "enc"}
          /\ f[i].does \in {"replace", "multi"} =>
                f[i].orig \notin MacronFirst \cup DOMAIN WithEnc

\* Key and texts are in step, as long as all of the texts are there.
Right(I, ts) ==
    DOMAIN ts = Headers => /\ Balanced(I, ts)
                           /\ PlainRepairs => PlainTexts(ts) /\ Agrees(I, ts)

\* Entries that count nothing make no difference.
LEMMA RightSaved ==
    ASSUME NEW I, NEW R, GoodInfo(I), SameAccount(R, I), NEW ts, Right(I, ts)
    PROVE  Right(R, ts)
  <1>1. ASSUME NEW x PROVE x \in TallyOf(R) <=> x \in TallyOf(I)
    <2>1. x \in TallyOf(R) <=> \E w \in DOMAIN R : \E k \in 1..R[w].freq : x = <<w, k>>
      BY InTally
    <2>2. x \in TallyOf(I) <=> \E w \in DOMAIN I : \E k \in 1..I[w].freq : x = <<w, k>>
      BY InTally
    <2>3. \A w \in DOMAIN R : w \notin DOMAIN I => 1..R[w].freq = {}
      BY DEF SameAccount
    <2>4. \A w \in DOMAIN I : w \in DOMAIN R /\ R[w].freq = I[w].freq
      BY DEF SameAccount
    <2> QED BY <2>1, <2>2, <2>3, <2>4
  <1>2. TallyOf(R) = TallyOf(I)
    BY <1>1
  <1>3. ASSUME Agrees(I, ts) PROVE Agrees(R, ts)
    <2>1. SUFFICES ASSUME NEW w \in Forms
                   PROVE  IF w \in DOMAIN R
                          THEN /\ R[w].freq = Cardinality(Occurrences(w, ts))
                               /\ R[w].srcs = {o[1] : o \in Occurrences(w, ts)}
                          ELSE Occurrences(w, ts) = {}
      BY DEF Agrees
    <2>2. CASE w \in DOMAIN I
      BY <1>3, <2>2 DEF Agrees, SameAccount
    <2>3. CASE w \notin DOMAIN I
      <3>1. Occurrences(w, ts) = {}
        BY <1>3, <2>3 DEF Agrees
      <3>2. Cardinality(Occurrences(w, ts)) = 0
        BY <3>1, FS_EmptySet
      <3>3. w \in DOMAIN R => R[w].freq = 0 /\ R[w].srcs = {}
        BY <2>3 DEF SameAccount
      <3> QED BY <3>1, <3>2, <3>3
    <2> QED BY <2>2, <2>3
  <1> QED BY <1>2, <1>3 DEF Right, Balanced

\* A correction of the key, and of the texts if inTexts, keeps them in step.
LEMMA CorrectionRight ==
    ASSUME NEW I, GoodInfo(I), NEW ts, GoodTexts(ts), Right(I, ts),
           NEW orig \in DOMAIN I, orig \in Forms, NEW repl \in Forms, orig # repl,
           orig \in DOMAIN WithEnc => repl \in DOMAIN WithEnc,
           NEW inTexts \in BOOLEAN,
           PlainRepairs => inTexts /\ orig \notin MacronFirst \cup DOMAIN WithEnc,
           NEW J, J = Merged(I, orig, repl),
           NEW us, us = IF inTexts THEN Retexted(ts, I, orig, repl) ELSE ts
    PROVE  Right(J, us)
  <1>1. SUFFICES ASSUME DOMAIN us = Headers
                 PROVE  /\ Balanced(J, us)
                        /\ PlainRepairs => PlainTexts(us) /\ Agrees(J, us)
    BY DEF Right
  <1>2. DOMAIN us = DOMAIN ts /\ Positions(us) = Positions(ts)
    <2>1. CASE inTexts
      <3>1. us = Retexted(ts, I, orig, repl)
        BY <2>1
      <3> QED BY <3>1, RetextedPlaces
    <2>2. CASE ~inTexts
      BY <2>2
    <2> QED BY <2>1, <2>2
  <1>3. Balanced(I, ts) /\ (PlainRepairs => PlainTexts(ts) /\ Agrees(I, ts))
    BY <1>1, <1>2 DEF Right
  <1>4. ExistsBijection(TallyOf(J), TallyOf(I))
    BY MergedTally, Fun_ExistsBijSymmetric
  <1>5. ExistsBijection(TallyOf(J), Positions(us))
    BY <1>2, <1>3, <1>4, Fun_ExistsBijTransitive DEF Balanced
  <1>6. ASSUME PlainRepairs PROVE PlainTexts(us) /\ Agrees(J, us)
    <2>1. us = Retexted(ts, I, orig, repl)
      BY <1>6
    <2>2. orig \notin MacronFirst /\ orig \notin DOMAIN WithEnc
      BY <1>6
    <2>3. PlainTexts(ts) /\ Agrees(I, ts)
      BY <1>3, <1>6
    <2> QED BY <2>1, <2>2, <2>3, CorrectedAgrees
  <1> QED BY <1>5, <1>6 DEF Balanced
----------------------------------------------------------------------------
(* The invariant. *)

\* A line of _repairs.txt, and what is made of its corrections in memory.
GoodEntry(e) ==
    /\ e \in Entry /\ TakesEnclitic(e)
    /\ PlainRepairs => /\ e.does \notin {"abv", "enc"}
                       /\ e.does \in {"replace", "multi"} =>
                             e.orig \notin MacronFirst \cup DOMAIN WithEnc

GoodEntries(es) == es \in Seq(Entry) /\ \A i \in DOMAIN es : GoodEntry(es[i])

GoodRepl(t) ==
    \A o \in DOMAIN t :
       /\ o \in Forms /\ t[o] \in Forms
       /\ o \in DOMAIN WithEnc => t[o] \in DOMAIN WithEnc
       /\ PlainRepairs => o \notin MacronFirst \cup DOMAIN WithEnc

\* Key and texts in memory are well formed, and in step unless they were not (tn)
\* when they were loaded.
InMemory(K, I, ts, tn) ==
    /\ GoodKey(K) /\ GoodInfo(I) /\ DOMAIN I \subseteq FormsIn(K) /\ GoodTexts(ts)
    /\ ~tn => Right(I, ts)

\* The same of the files.
OnDisk(L, ts, tn) ==
    /\ GoodFile(L) /\ GoodTexts(ts)
    /\ ~tn => Right(LoadedInfo(L), ts)

\* What the user asks for.
AskedInv == /\ GoodEntries(repairs) /\ GoodEntries(entries)
            /\ GoodRepl(repltbl) /\ addtbl \in Seq(Forms)

\* The program in memory.
MemoryInv ==
    /\ pc \in {"idle", "read", "merge", "replace", "record", "openKey", "saveKey", "texts"}
    /\ pc # "idle" => /\ InMemory(keytbl, info, textstbl, torn)
                      /\ DOMAIN texts = DOMAIN textstbl

\* The files, between the moments at which they are written.
DiskInv == /\ OnDisk(keyFile, texts, torn \/ pc \in {"saveKey", "texts"})
           /\ pc = "texts" => keyFile = LinesFor(keytbl, info)
           /\ OnDisk(backup.key, backup.texts, backup.torn)

StepInv == AskedInv /\ MemoryInv /\ DiskInv

\* Tables that are empty have all of these properties.
LEMMA EmptyTables ==
    /\ DOMAIN EmptyTable = {} /\ GoodFile(EmptyTable)
    /\ GoodRepl(EmptyTable) /\ GoodEntries(<< >>) /\ << >> \in Seq(Forms)
  <1>1. DOMAIN EmptyTable = {}
    BY DEF EmptyTable
  <1>2. GoodFile(EmptyTable)
    BY <1>1 DEF GoodFile
  <1>3. GoodRepl(EmptyTable)
    BY <1>1 DEF GoodRepl
  <1>4. GoodEntries(<< >>)
    BY DEF GoodEntries
  <1> QED BY <1>1, <1>2, <1>3, <1>4

\* The first line, and the lines after it.
LEMMA EntriesGoOn ==
    ASSUME NEW es, GoodEntries(es), es # << >>
    PROVE  GoodEntry(Head(es)) /\ GoodEntries(Tail(es))
  <1>1. es \in Seq(Entry) /\ \A i \in DOMAIN es : GoodEntry(es[i])
    BY DEF GoodEntries
  <1>2. Len(es) \in Nat \ {0} /\ DOMAIN es = 1..Len(es) /\ Head(es) = es[1]
    BY <1>1
  <1>3. GoodEntry(Head(es))
    <2>1. 1 \in DOMAIN es
      BY <1>2
    <2> QED BY <1>1, <1>2, <2>1
  <1>4. /\ Tail(es) \in Seq(Entry)
        /\ DOMAIN Tail(es) = 1..(Len(es) - 1)
        /\ \A i \in 1..(Len(es) - 1) : Tail(es)[i] = es[i + 1]
    BY <1>1, <1>2
  <1>5. ASSUME NEW i \in DOMAIN Tail(es) PROVE GoodEntry(Tail(es)[i])
    <2>1. i \in 1..(Len(es) - 1) /\ i + 1 \in DOMAIN es
      BY <1>2, <1>4
    <2>2. Tail(es)[i] = es[i + 1]
      BY <1>4, <2>1
    <2>3. GoodEntry(es[i + 1])
      BY <1>1, <2>1
    <2> QED BY <2>2, <2>3
  <1> QED BY <1>3, <1>4, <1>5 DEF GoodEntries

\* replaceword keeps key and texts in step.
LEMMA ReplaceWordKeeps ==
    ASSUME NEW orig \in Forms, NEW repl \in Forms, NEW inTexts \in BOOLEAN,
           InMemory(keytbl, info, textstbl, torn), ReplaceWord(orig, repl, inTexts),
           orig \in DOMAIN WithEnc => repl \in DOMAIN WithEnc,
           PlainRepairs => inTexts /\ orig \notin MacronFirst \cup DOMAIN WithEnc
    PROVE  /\ InMemory(keytbl', info', textstbl', torn)
           /\ DOMAIN textstbl' = DOMAIN textstbl
  <1>1. CASE orig \notin Parallels(keytbl, PlainOf[orig])
    BY <1>1 DEF ReplaceWord, tables
  <1>2. CASE orig \in Parallels(keytbl, PlainOf[orig])
    <2>1. PICK K, I, ts, L, J, us : /\ K = keytbl /\ I = info /\ ts = textstbl
                                    /\ L = keytbl' /\ J = info' /\ us = textstbl'
      OBVIOUS
    <2>2. /\ orig \in DOMAIN I /\ orig # repl /\ Fits(K, repl)
          /\ L = Rekeyed(K, orig, repl) /\ J = Merged(I, orig, repl)
          /\ us = IF inTexts THEN Retexted(ts, I, orig, repl) ELSE ts
      BY <1>2, <2>1 DEF ReplaceWord
    <2>3. /\ GoodKey(K) /\ GoodInfo(I) /\ DOMAIN I \subseteq FormsIn(K) /\ GoodTexts(ts)
          /\ orig \in Parallels(K, PlainOf[orig])
      BY <1>2, <2>1 DEF InMemory
    <2>4. /\ GoodKey(L)
          /\ \A w \in FormsIn(K) : w # orig => w \in FormsIn(L)
          /\ repl \in FormsIn(L)
      BY <2>2, <2>3, RekeyedKey
    <2>5. GoodInfo(J) /\ IsMerge(J, I, orig, repl)
      BY <2>2, <2>3, MergedIs
    <2>6. DOMAIN J \subseteq FormsIn(L)
      BY <2>3, <2>4, <2>5 DEF IsMerge
    <2>7. GoodTexts(us) /\ DOMAIN us = DOMAIN ts
      <3>1. CASE inTexts
        <4>1. us = Retexted(ts, I, orig, repl)
          BY <2>2, <3>1
        <4> QED BY <2>3, <4>1, RetextedPlaces
      <3>2. CASE ~inTexts
        BY <2>2, <2>3, <3>2
      <3> QED BY <3>1, <3>2
    <2>8. ASSUME ~torn PROVE Right(J, us)
      <3>1. Right(I, ts)
        BY <2>1, <2>8 DEF InMemory
      <3> QED BY <2>2, <2>3, <3>1, CorrectionRight
    <2> QED BY <2>1, <2>4, <2>5, <2>6, <2>7, <2>8 DEF InMemory
  <1> QED BY <1>1, <1>2

\* Initially the key has been learned from the texts.
LEMMA StartInv ==
    Init => StepInv
  <1> SUFFICES ASSUME Init PROVE StepInv
    OBVIOUS
  <1>1. PICK ts \in StartTexts : ts = texts
    BY DEF Init
  <1>2. PICK L, I : L = keyFile /\ I = LoadedInfo(L)
    OBVIOUS
  <1>3. L = [s \in DOMAIN StartKey |-> LineOf(StartKey[s], ts)]
    BY <1>1, <1>2 DEF Init
  <1>4. ts \in [Headers -> Seq(Token)] /\ Learned(ts)
    BY <1>1, RepairAssumption
  <1>5. GoodTexts(ts)
    BY <1>4 DEF GoodTexts
  <1>6. ASSUME NEW s \in DOMAIN StartKey
        PROVE  /\ s \in Slot /\ StartKey[s] \in Forms /\ PlainOf[StartKey[s]] = s[1]
               /\ L[s].form = StartKey[s]
               /\ L[s].freq = Cardinality(Occurrences(StartKey[s], ts))
               /\ L[s].srcs = {o[1] : o \in Occurrences(StartKey[s], ts)}
    <2>1. s \in Slot /\ StartKey[s] \in Forms /\ PlainOf[StartKey[s]] = s[1]
      BY RepairAssumption DEF FormsIn, FiledUnderPlain
    <2>2. L[s] = LineOf(StartKey[s], ts)
      BY <1>3
    <2> QED BY <2>1, <2>2 DEF LineOf
  <1>7. DOMAIN L = DOMAIN StartKey
    BY <1>3
  <1>8. GoodFile(L)
    <2>1. SUFFICES ASSUME NEW s \in DOMAIN L
                   PROVE  /\ s \in Slot /\ L[s].form \in Forms /\ PlainOf[L[s].form] = s[1]
                          /\ L[s].freq \in Nat /\ L[s].srcs \subseteq Headers
      BY DEF GoodFile
    <2>2. L[s].freq \in Nat
      BY <1>5, <1>6, <1>7, PlacesFinite
    <2>3. ASSUME NEW o \in Occurrences(StartKey[s], ts) PROVE o[1] \in Headers
      <3>1. PICK h \in DOMAIN ts : \E i \in DOMAIN ts[h] : o = <<h, i>>
        BY InOccurrences
      <3> QED BY <1>4, <3>1
    <2> QED BY <1>6, <1>7, <2>2, <2>3
  <1>9. FromLines(I, L)
    BY <1>2, <1>8, InfoLoads
  <1>10. Agrees(I, ts)
    <2>1. SUFFICES ASSUME NEW w \in Forms
                   PROVE  IF w \in DOMAIN I
                          THEN /\ I[w].freq = Cardinality(Occurrences(w, ts))
                               /\ I[w].srcs = {o[1] : o \in Occurrences(w, ts)}
                          ELSE Occurrences(w, ts) = {}
      BY DEF Agrees
    <2>2. CASE w \in DOMAIN I
      <3>1. PICK s \in DOMAIN L :
               /\ L[s].form = w
               /\ I[w] = [freq |-> L[s].freq, srcs |-> L[s].srcs]
        BY <1>9, <2>2 DEF FromLines
      <3>2. StartKey[s] = w /\ I[w].freq = L[s].freq /\ I[w].srcs = L[s].srcs
        BY <1>6, <1>7, <3>1
      <3> QED BY <1>6, <1>7, <2>2, <3>2
    <2>3. CASE w \notin DOMAIN I
      <3>1. SUFFICES ASSUME NEW o \in Occurrences(w, ts) PROVE FALSE
        BY <2>3
      <3>2. PICK h \in DOMAIN ts : \E i \in DOMAIN ts[h] :
               ts[h][i].at # "comment" /\ ts[h][i].form = w
        BY InOccurrences
      <3>3. w \in FormsIn(StartKey)
        BY <1>4, <3>2 DEF Learned
      <3>4. PICK s \in DOMAIN StartKey : StartKey[s] = w
        BY <3>3 DEF FormsIn
      <3>5. w \in DOMAIN I
        BY <1>6, <1>7, <1>9, <3>4 DEF FromLines
      <3> QED BY <2>3, <3>5
    <2> QED BY <2>2, <2>3
  <1>11. Right(I, ts)
    <2>1. DOMAIN I \subseteq Forms
      BY <1>8, <1>9 DEF FromLines, GoodFile
    <2>2. Balanced(I, ts)
      BY <1>5, <1>10, <2>1, AgreesBalanced
    <2>3. PlainRepairs => PlainTexts(ts)
      BY <1>1 DEF PlainRepairs
    <2> QED BY <1>10, <2>2, <2>3 DEF Right
  <1>12. OnDisk(L, ts, FALSE)
    BY <1>2, <1>5, <1>8, <1>11 DEF OnDisk
  <1>13. /\ pc = "idle" /\ torn = FALSE
         /\ backup.key = L /\ backup.texts = ts /\ backup.torn = FALSE
    BY <1>1, <1>2 DEF Init
  <1>14. DiskInv
    BY <1>1, <1>2, <1>12, <1>13 DEF DiskInv, OnDisk
  <1>15. MemoryInv
    BY <1>13 DEF MemoryInv
  <1>16. AskedInv
    <2>1. repairs = << >> /\ entries = << >> /\ repltbl = EmptyTable /\ addtbl = << >>
      BY DEF Init
    <2> QED BY <2>1, EmptyTables DEF AskedInv
  <1> QED BY <1>14, <1>15, <1>16 DEF StepInv
----------------------------------------------------------------------------
(* Each step keeps the invariant. *)

\* A program that ends leaves nothing in memory.
LEMMA EndedKeeps ==
    ASSUME StepInv, NEW how, Ended(how), UNCHANGED repairs,
           OnDisk(keyFile', texts', torn'),
           OnDisk(backup.key, backup.texts, backup.torn), UNCHANGED backup
    PROVE  StepInv'
  <1>1. /\ pc' = "idle" /\ entries' = << >> /\ repltbl' = EmptyTable /\ addtbl' = << >>
    BY DEF Ended
  <1>2. AskedInv'
    BY <1>1, EmptyTables DEF AskedInv, StepInv
  <1>3. MemoryInv'
    BY <1>1 DEF MemoryInv
  <1>4. DiskInv'
    BY <1>1 DEF DiskInv, OnDisk
  <1> QED BY <1>2, <1>3, <1>4 DEF StepInv

\* The files are loaded as they are.
LEMMA StartRepairKeeps ==
    ASSUME StepInv, StartRepair PROVE StepInv'
  <1>1. /\ pc = "idle" /\ pc' = "read"
        /\ backup' = [key |-> keyFile, texts |-> texts, torn |-> torn]
        /\ keytbl' = LoadedKey(keyFile) /\ info' = LoadedInfo(keyFile)
        /\ textstbl' = texts /\ entries' = repairs
        /\ UNCHANGED <<keyFile, texts, repairs, repltbl, addtbl, torn>>
    BY DEF StartRepair, disk
  <1>2. OnDisk(keyFile, texts, torn)
    BY <1>1 DEF StepInv, DiskInv, OnDisk
  <1>3. AskedInv'
    BY <1>1 DEF AskedInv, StepInv
  <1>4. InMemory(keytbl', info', textstbl', torn')
    <2>1. GoodFile(keyFile) /\ GoodTexts(texts) /\ (~torn => Right(LoadedInfo(keyFile), texts))
      BY <1>2 DEF OnDisk
    <2>2. PICK L, I, K : L = keyFile /\ I = info' /\ K = keytbl'
      OBVIOUS
    <2>3. GoodKey(K) /\ FormsIn(K) = {L[s].form : s \in DOMAIN L}
      <3>1. GoodFile(L) /\ K = LoadedKey(L)
        BY <1>1, <2>1, <2>2
      <3>2. GoodKey(K)
        BY <3>1, KeyLoads
      <3>3. FormsIn(K) = {L[s].form : s \in DOMAIN L}
        BY <3>1, KeyLoads
      <3> QED BY <3>2, <3>3
    <2>4. FromLines(I, L)
      BY <1>1, <2>1, <2>2, InfoLoads
    <2>5. DOMAIN I = FormsIn(K)
      BY <2>3, <2>4 DEF FromLines
    <2>6. ASSUME NEW w \in DOMAIN I PROVE w \in Forms /\ I[w].freq \in Nat /\ I[w].srcs \subseteq Headers
      <3>1. PICK s \in DOMAIN L :
               /\ L[s].form = w
               /\ I[w] = [freq |-> L[s].freq, srcs |-> L[s].srcs]
        BY <2>4 DEF FromLines
      <3>2. I[w].freq = L[s].freq /\ I[w].srcs = L[s].srcs
        BY <3>1
      <3> QED BY <2>1, <2>2, <3>1, <3>2 DEF GoodFile
    <2>7. GoodInfo(I)
      BY <2>6 DEF GoodInfo
    <2> QED BY <1>1, <2>1, <2>2, <2>3, <2>5, <2>7 DEF InMemory
  <1>5. MemoryInv'
    BY <1>1, <1>4 DEF MemoryInv
  <1>6. DiskInv'
    <2>1. /\ backup'.key = keyFile /\ backup'.texts = texts /\ backup'.torn = torn
          /\ keyFile' = keyFile /\ texts' = texts /\ torn' = torn /\ pc' = "read"
      BY <1>1
    <2>2. OnDisk(keyFile', texts', torn' \/ pc' \in {"saveKey", "texts"})
      BY <1>2, <2>1 DEF OnDisk
    <2>3. OnDisk(backup'.key, backup'.texts, backup'.torn)
      BY <1>2, <2>1
    <2> QED BY <2>1, <2>2, <2>3 DEF DiskInv
  <1> QED BY <1>3, <1>5, <1>6 DEF StepInv

\* Steps that change neither the files nor what is to be written there.
LEMMA QuietKeeps ==
    ASSUME StepInv, pc \in {"read", "merge", "replace", "record"},
           pc' \in {"read", "merge", "replace", "record", "openKey"},
           UNCHANGED <<keyFile, texts, repairs, backup, torn>>,
           InMemory(keytbl', info', textstbl', torn), DOMAIN textstbl' = DOMAIN textstbl,
           GoodEntries(entries'), GoodRepl(repltbl'), addtbl' \in Seq(Forms)
    PROVE  StepInv'
  <1>1. AskedInv'
    BY DEF AskedInv, StepInv
  <1>2. MemoryInv'
    BY DEF MemoryInv, StepInv
  <1>3. DiskInv'
    BY DEF DiskInv, StepInv, OnDisk
  <1> QED BY <1>1, <1>2, <1>3 DEF StepInv

\* A line is read.
LEMMA ReadEntryKeeps ==
    ASSUME StepInv, ReadEntry, UNCHANGED <<repairs, backup, torn>> PROVE StepInv'
  <1>1. /\ pc = "read" /\ pc' = "read" /\ entries # << >>
        /\ entries' = Tail(entries)
        /\ UNCHANGED <<keyFile, texts>>
    BY DEF ReadEntry, ReadReplace, ReadAdd, ReadOk, ReadMulti, ReadAbv, ReadEnc, Asks, disk
  <1>2. PICK e : e = Head(entries)
    OBVIOUS
  <1>3. GoodEntry(e) /\ GoodEntries(entries')
    BY <1>1, <1>2, EntriesGoOn DEF StepInv, AskedInv
  <1>4. /\ e.orig \in Forms /\ e.repl \in Forms
        /\ e.orig \in DOMAIN WithEnc => e.repl \in DOMAIN WithEnc
    BY <1>3 DEF GoodEntry, Entry, TakesEnclitic
  <1>5. /\ InMemory(keytbl, info, textstbl, torn)
        /\ GoodRepl(repltbl) /\ addtbl \in Seq(Forms)
    BY <1>1 DEF StepInv, MemoryInv, AskedInv
  <1>6. /\ InMemory(keytbl', info', textstbl', torn) /\ DOMAIN textstbl' = DOMAIN textstbl
        /\ GoodRepl(repltbl') /\ addtbl' \in Seq(Forms)
    <2>1. CASE ReadReplace
      <3>1. repltbl' = Store(repltbl, e.orig, e.repl) /\ UNCHANGED <<tables, addtbl>>
        BY <1>2, <2>1 DEF ReadReplace
      <3>2. e.does = "replace"
        BY <1>2, <2>1 DEF ReadReplace, Asks
      <3>3. PlainRepairs => e.orig \notin MacronFirst \cup DOMAIN WithEnc
        BY <1>3, <3>2 DEF GoodEntry
      <3>4. GoodRepl(repltbl')
        BY <1>4, <1>5, <3>1, <3>3 DEF GoodRepl, Store
      <3> QED BY <1>5, <3>1, <3>4 DEF tables
    <2>2. CASE ReadAdd
      <3>1. addtbl' = Append(addtbl, e.orig) /\ UNCHANGED <<tables, repltbl>>
        BY <1>2, <2>2 DEF ReadAdd
      <3> QED BY <1>4, <1>5, <3>1 DEF tables
    <2>3. CASE ReadOk
      <3>1. UNCHANGED <<tables, repltbl, addtbl>>
        BY <2>3 DEF ReadOk
      <3> QED BY <1>5, <3>1 DEF tables
    <2>4. CASE ReadMulti
      <3>1. /\ e.does = "multi" /\ ReplaceWord(e.orig, e.repl, TRUE)
            /\ UNCHANGED <<repltbl, addtbl>>
        BY <1>2, <2>4 DEF ReadMulti, Asks, lists
      <3>2. PlainRepairs => TRUE /\ e.orig \notin MacronFirst \cup DOMAIN WithEnc
        BY <1>3, <3>1 DEF GoodEntry
      <3>3. InMemory(keytbl', info', textstbl', torn) /\ DOMAIN textstbl' = DOMAIN textstbl
        BY <1>4, <1>5, <3>1, <3>2, ReplaceWordKeeps
      <3> QED BY <1>5, <3>1, <3>3
    <2>5. CASE ReadAbv \/ ReadEnc
      <3>1. /\ e.does \in {"abv", "enc"} /\ ReplaceWord(e.orig, e.repl, FALSE)
            /\ UNCHANGED <<repltbl, addtbl>>
        BY <1>2, <2>5 DEF ReadAbv, ReadEnc, Asks
      <3>2. ~PlainRepairs
        BY <1>3, <3>1 DEF GoodEntry
      <3>3. InMemory(keytbl', info', textstbl', torn) /\ DOMAIN textstbl' = DOMAIN textstbl
        BY <1>4, <1>5, <3>1, <3>2, ReplaceWordKeeps
      <3> QED BY <1>5, <3>1, <3>3
    <2> QED BY <2>1, <2>2, <2>3, <2>4, <2>5 DEF ReadEntry
  <1> QED BY <1>1, <1>3, <1>6, QuietKeeps

\* A form is added to the key.
LEMMA AddWordKeeps ==
    ASSUME StepInv, AddWord, UNCHANGED <<repairs, backup, torn>> PROVE StepInv'
  <1>1. /\ pc = "read" /\ pc' = "read" /\ addtbl # << >>
        /\ Fits(keytbl, Head(addtbl)) /\ keytbl' = WithForm(keytbl, Head(addtbl))
        /\ addtbl' = Tail(addtbl)
        /\ UNCHANGED <<keyFile, texts, entries, info, textstbl, repltbl>>
    BY DEF AddWord, Added, disk
  <1>2. /\ InMemory(keytbl, info, textstbl, torn)
        /\ GoodEntries(entries) /\ GoodRepl(repltbl) /\ addtbl \in Seq(Forms)
    BY <1>1 DEF StepInv, MemoryInv, AskedInv
  <1>3. Head(addtbl) \in Forms /\ Tail(addtbl) \in Seq(Forms)
    BY <1>1, <1>2
  <1>4. PICK K, L, w : K = keytbl /\ L = keytbl' /\ w = Head(addtbl)
    OBVIOUS
  <1>5. GoodKey(K) /\ Fits(K, w) /\ L = WithForm(K, w) /\ w \in Forms
    BY <1>1, <1>2, <1>3, <1>4 DEF InMemory
  <1>6. GoodKey(L) /\ DOMAIN K \subseteq DOMAIN L /\ \A s \in DOMAIN K : L[s] = K[s]
    BY <1>5, WithFormKey
  <1>7. FormsIn(K) \subseteq FormsIn(L)
    BY <1>6 DEF FormsIn
  <1>8. InMemory(keytbl', info', textstbl', torn)
    BY <1>1, <1>2, <1>4, <1>6, <1>7 DEF InMemory
  <1> QED BY <1>1, <1>2, <1>3, <1>8, QuietKeeps

\* The loops over the corrections.
LEMMA LoopKeeps ==
    ASSUME StepInv, UNCHANGED <<repairs, backup, torn>>,
           StartMerge \/ MergeChain \/ NextLoop \/ RecordOne
    PROVE  StepInv'
  <1>1. /\ pc \in {"read", "merge", "replace", "record"}
        /\ UNCHANGED <<keyFile, texts, entries, keytbl, info, textstbl, addtbl>>
    BY DEF StartMerge, MergeChain, NextLoop, RecordOne, disk, tables, lists
  <1>2. pc' \in {"read", "merge", "replace", "record", "openKey"}
    <2>1. CASE StartMerge
      BY <2>1 DEF StartMerge
    <2>2. CASE MergeChain \/ RecordOne
      BY <2>2 DEF MergeChain, RecordOne
    <2>3. CASE NextLoop
      BY <2>3 DEF NextLoop, NextPhase
    <2> QED BY <2>1, <2>2, <2>3
  <1>3. /\ InMemory(keytbl, info, textstbl, torn)
        /\ GoodEntries(entries) /\ GoodRepl(repltbl) /\ addtbl \in Seq(Forms)
    BY <1>1 DEF StepInv, MemoryInv, AskedInv
  <1>4. GoodRepl(repltbl')
    <2>1. CASE repltbl' = repltbl
      BY <1>3, <2>1
    <2>2. CASE MergeChain
      <3>1. PICK t, u, o : t = repltbl /\ u = repltbl' /\ o = Head(todo)
        OBVIOUS
      <3>2. u = IF Chained(t, o)
                THEN [x \in DOMAIN t \ {t[o]} |-> IF x = o THEN t[t[o]] ELSE t[x]]
                ELSE t
        BY <2>2, <3>1 DEF MergeChain
      <3>3. GoodRepl(t)
        BY <1>3, <3>1
      <3>4. GoodRepl(u)
        <4>1. CASE ~Chained(t, o)
          BY <3>2, <3>3, <4>1
        <4>2. CASE Chained(t, o)
          <5>1. o \in DOMAIN t /\ t[o] \in DOMAIN t
            BY <4>2 DEF Chained
          <5>2. /\ DOMAIN u \subseteq DOMAIN t
                /\ \A x \in DOMAIN u : x # o => u[x] = t[x]
                /\ o \in DOMAIN u => u[o] = t[t[o]]
            BY <3>2, <4>2
          <5>3. ASSUME NEW x \in DOMAIN u
                PROVE  /\ x \in Forms /\ u[x] \in Forms
                       /\ x \in DOMAIN WithEnc => u[x] \in DOMAIN WithEnc
                       /\ PlainRepairs => x \notin MacronFirst \cup DOMAIN WithEnc
            <6>1. x \in DOMAIN t
              BY <5>2
            <6>2. /\ x \in Forms /\ t[x] \in Forms
                  /\ x \in DOMAIN WithEnc => t[x] \in DOMAIN WithEnc
                  /\ PlainRepairs => x \notin MacronFirst \cup DOMAIN WithEnc
              BY <3>3, <6>1 DEF GoodRepl
            <6>3. CASE x # o
              BY <5>2, <6>2, <6>3
            <6>4. CASE x = o
              <7>1. /\ t[t[o]] \in Forms
                    /\ t[o] \in DOMAIN WithEnc => t[t[o]] \in DOMAIN WithEnc
                BY <3>3, <5>1 DEF GoodRepl
              <7> QED BY <5>2, <6>2, <6>4, <7>1
            <6> QED BY <6>3, <6>4
          <5> QED BY <5>3 DEF GoodRepl
        <4> QED BY <4>1, <4>2
      <3> QED BY <3>1, <3>4
    <2> QED BY <2>1, <2>2 DEF StartMerge, NextLoop, RecordOne, lists
  <1> QED BY <1>1, <1>2, <1>3, <1>4, QuietKeeps

\* A correction is carried out.
LEMMA ReplaceOneKeeps ==
    ASSUME StepInv, ReplaceOne, UNCHANGED <<repairs, backup, torn>> PROVE StepInv'
  <1>1. /\ pc = "replace" /\ pc' = "replace"
        /\ UNCHANGED <<keyFile, texts, entries, repltbl, addtbl>>
    BY DEF ReplaceOne, disk, lists
  <1>2. /\ InMemory(keytbl, info, textstbl, torn)
        /\ GoodEntries(entries) /\ GoodRepl(repltbl) /\ addtbl \in Seq(Forms)
    BY <1>1 DEF StepInv, MemoryInv, AskedInv
  <1>3. InMemory(keytbl', info', textstbl', torn) /\ DOMAIN textstbl' = DOMAIN textstbl
    <2>1. CASE UNCHANGED tables
      BY <1>2, <2>1 DEF tables
    <2>2. CASE /\ Head(todo) \in DOMAIN repltbl
               /\ ReplaceWord(Head(todo), repltbl[Head(todo)], TRUE)
      <3>1. PICK o, r : o = Head(todo) /\ r = repltbl[o]
        OBVIOUS
      <3>2. /\ o \in Forms /\ r \in Forms
            /\ o \in DOMAIN WithEnc => r \in DOMAIN WithEnc
            /\ PlainRepairs => TRUE /\ o \notin MacronFirst \cup DOMAIN WithEnc
        BY <1>2, <2>2, <3>1 DEF GoodRepl
      <3>3. ReplaceWord(o, r, TRUE)
        BY <2>2, <3>1
      <3> QED BY <1>2, <3>2, <3>3, ReplaceWordKeeps
    <2> QED BY <2>1, <2>2 DEF ReplaceOne
  <1> QED BY <1>1, <1>2, <1>3, QuietKeeps
\* key.txt is opened and so emptied, and then written.
LEMMA WriteKeyKeeps ==
    ASSUME StepInv, OpenKey \/ SaveKey, UNCHANGED <<repairs, backup, torn>>
    PROVE  StepInv'
  <1>1. /\ pc \in {"openKey", "saveKey"} /\ pc' \in {"saveKey", "texts"}
        /\ UNCHANGED <<texts, entries, keytbl, info, textstbl, repltbl, addtbl>>
    BY DEF OpenKey, SaveKey, tables, lists
  <1>2. AskedInv'
    BY <1>1 DEF StepInv, AskedInv
  <1>3. MemoryInv'
    BY <1>1 DEF StepInv, MemoryInv
  <1>4. GoodFile(keyFile') /\ (pc' = "texts" => keyFile' = LinesFor(keytbl, info))
    <2>1. CASE OpenKey
      BY <2>1, EmptyTables DEF OpenKey
    <2>2. CASE SaveKey
      <3>1. PICK K, I, L : K = keytbl /\ I = info /\ L = keyFile'
        OBVIOUS
      <3>2. L = LinesFor(K, I)
        BY <2>2, <3>1 DEF SaveKey, SavedLines, LinesFor
      <3>3. GoodKey(K) /\ GoodInfo(I) /\ DOMAIN I \subseteq FormsIn(K)
        BY <1>1, <3>1 DEF StepInv, MemoryInv, InMemory
      <3>4. GoodFile(L)
        BY <3>2, <3>3, SavedLoads
      <3> QED BY <3>1, <3>2, <3>4
    <2> QED BY <2>1, <2>2
  <1>5. DiskInv'
    BY <1>1, <1>4 DEF StepInv, DiskInv, OnDisk
  <1> QED BY <1>2, <1>3, <1>5 DEF StepInv

\* The texts are written.
LEMMA SaveTextKeeps ==
    ASSUME StepInv, SaveText, UNCHANGED <<repairs, backup, torn>> PROVE StepInv'
  <1>1. /\ pc = "texts" /\ pc' = "texts"
        /\ UNCHANGED <<keyFile, entries, keytbl, info, textstbl, repltbl, addtbl>>
    BY DEF SaveText, tables, lists
  <1>2. PICK h \in DOMAIN textstbl : texts' = [texts EXCEPT ![h] = textstbl[h]]
    BY DEF SaveText
  <1>3. DOMAIN texts' = DOMAIN texts /\ DOMAIN texts = DOMAIN textstbl
    BY <1>1, <1>2 DEF StepInv, MemoryInv
  <1>4. AskedInv'
    BY <1>1 DEF StepInv, AskedInv
  <1>5. MemoryInv'
    BY <1>1, <1>3 DEF StepInv, MemoryInv
  <1>6. GoodTexts(texts')
    <2>1. GoodTexts(texts) /\ GoodTexts(textstbl)
      BY <1>1 DEF StepInv, DiskInv, MemoryInv, OnDisk, InMemory
    <2>2. \A g \in DOMAIN texts : texts'[g] = IF g = h THEN textstbl[g] ELSE texts[g]
      BY <1>2, <1>3
    <2>3. \A g \in DOMAIN texts : texts'[g] \in Seq(Token)
      BY <1>3, <2>1, <2>2 DEF GoodTexts
    <2> QED BY <1>3, <2>1, <2>3 DEF GoodTexts
  <1>7. DiskInv'
    BY <1>1, <1>6 DEF StepInv, DiskInv, OnDisk
  <1> QED BY <1>4, <1>5, <1>7 DEF StepInv

\* When all texts are written, the files hold what was in memory.
LEMMA AllWritten ==
    ASSUME StepInv, pc = "texts", texts = textstbl
    PROVE  OnDisk(keyFile, texts, torn)
  <1>1. PICK K, I, L, R : K = keytbl /\ I = info /\ L = keyFile /\ R = LoadedInfo(L)
    OBVIOUS
  <1>2. L = LinesFor(K, I)
    BY <1>1 DEF StepInv, DiskInv
  <1>3. /\ GoodKey(K) /\ GoodInfo(I) /\ DOMAIN I \subseteq FormsIn(K) /\ GoodTexts(texts)
        /\ ~torn => Right(I, texts)
    BY <1>1 DEF StepInv, MemoryInv, InMemory
  <1>4. GoodFile(L) /\ SameAccount(R, I)
    BY <1>1, <1>2, <1>3, SavedLoads
  <1>5. ~torn => Right(R, texts)
    BY <1>3, <1>4, RightSaved
  <1> QED BY <1>1, <1>3, <1>4, <1>5 DEF OnDisk

\* A run ends, is stopped, or fails before it has written anything.
LEMMA EndKeeps ==
    ASSUME StepInv,
           \/ (SaveHistory \/ ReadFails \/ ReplaceFails) /\ UNCHANGED <<repairs, backup, torn>>
           \/ Kill
    PROVE  StepInv'
  <1>1. OnDisk(backup.key, backup.texts, backup.torn)
    BY DEF StepInv, DiskInv
  <1>2. pc \notin {"saveKey", "texts"} => OnDisk(keyFile, texts, torn)
    BY DEF StepInv, DiskInv, OnDisk
  <1>3. CASE SaveHistory /\ UNCHANGED <<repairs, backup, torn>>
    <2>1. pc = "texts" /\ texts = textstbl /\ Ended("done") /\ UNCHANGED <<keyFile, texts>>
      BY <1>3 DEF SaveHistory
    <2>2. OnDisk(keyFile, texts, torn)
      BY <2>1, AllWritten
    <2> QED BY <1>1, <1>3, <2>1, <2>2, EndedKeeps
  <1>4. CASE (ReadFails \/ ReplaceFails) /\ UNCHANGED <<repairs, backup, torn>>
    <2>1. /\ pc \in {"read", "replace"} /\ Ended("failed") /\ UNCHANGED <<keyFile, texts>>
      BY <1>4 DEF ReadFails, ReplaceFails, Failed, disk
    <2> QED BY <1>1, <1>2, <1>4, <2>1, EndedKeeps
  <1>5. CASE Kill
    <2>1. /\ Ended("killed") /\ UNCHANGED <<keyFile, texts, repairs, backup>>
          /\ torn' = (torn \/ pc = "saveKey" \/ (pc = "texts" /\ texts # textstbl))
      BY <1>5 DEF Kill, disk
    <2>2. GoodFile(keyFile) /\ GoodTexts(texts)
      BY DEF StepInv, DiskInv, OnDisk
    <2>3. OnDisk(keyFile', texts', torn')
      <3>1. CASE torn \/ pc = "saveKey" \/ (pc = "texts" /\ texts # textstbl)
        BY <2>1, <2>2, <3>1 DEF OnDisk
      <3>2. CASE ~torn /\ pc = "texts" /\ texts = textstbl
        BY <2>1, <3>2, AllWritten DEF OnDisk
      <3>3. CASE ~torn /\ pc \notin {"saveKey", "texts"}
        BY <1>2, <2>1, <3>3 DEF OnDisk
      <3> QED BY <3>1, <3>2, <3>3
    <2> QED BY <1>1, <2>1, <2>3, EndedKeeps
  <1> QED BY <1>3, <1>4, <1>5

\* Between runs the user edits _repairs.txt, takes a text away or restores backups.
LEMMA UserKeeps ==
    ASSUME StepInv, EditRepairs \/ RemoveText \/ RestoreBackup PROVE StepInv'
  <1>1. /\ pc = "idle" /\ pc' = "idle"
        /\ UNCHANGED <<backup, entries, repltbl, addtbl>>
    BY DEF EditRepairs, RemoveText, RestoreBackup, lists
  <1>2. MemoryInv'
    BY <1>1 DEF MemoryInv
  <1>3. AskedInv'
    <2>1. GoodEntries(repairs')
      <3>1. CASE UNCHANGED repairs
        BY <3>1 DEF StepInv, AskedInv
      <3>2. CASE EditRepairs
        <4>1. PICK f \in RepairFiles : repairs' = f
          BY <3>2 DEF EditRepairs
        <4>2. f \in Seq(Entry) /\ \A i \in DOMAIN f : TakesEnclitic(f[i])
          BY RepairAssumption
        <4>3. DOMAIN f = 1..Len(f) /\ \A i \in DOMAIN f : f[i] \in Entry
          BY <4>2
        <4>4. \A i \in DOMAIN f : GoodEntry(f[i])
          BY <4>2, <4>3 DEF GoodEntry, PlainRepairs
        <4> QED BY <4>1, <4>2, <4>4 DEF GoodEntries
      <3> QED BY <3>1, <3>2 DEF RemoveText, RestoreBackup
    <2> QED BY <1>1, <2>1 DEF StepInv, AskedInv
  <1>4. OnDisk(keyFile', texts', torn')
    <2>1. OnDisk(keyFile, texts, torn) /\ OnDisk(backup.key, backup.texts, backup.torn)
      BY <1>1 DEF StepInv, DiskInv, OnDisk
    <2>2. CASE EditRepairs
      BY <2>1, <2>2 DEF EditRepairs, disk
    <2>3. CASE RestoreBackup
      BY <2>1, <2>3 DEF RestoreBackup
    <2>4. CASE RemoveText
      <3>1. PICK h \in DOMAIN texts : texts' = [g \in DOMAIN texts \ {h} |-> texts[g]]
        BY <2>4 DEF RemoveText
      <3>2. PICK us : us = texts'
        OBVIOUS
      <3>3. /\ DOMAIN us = DOMAIN texts \ {h}
            /\ \A g \in DOMAIN us : us[g] = texts[g]
        BY <3>1, <3>2
      <3>4. GoodTexts(texts)
        BY <2>1 DEF OnDisk
      <3>5. GoodTexts(us) /\ DOMAIN us # Headers
        BY <3>3, <3>4 DEF GoodTexts
      <3>6. UNCHANGED <<keyFile, torn>>
        BY <2>4 DEF RemoveText
      <3> QED BY <2>1, <3>2, <3>5, <3>6 DEF OnDisk, Right
    <2> QED BY <2>2, <2>3, <2>4
  <1>5. DiskInv'
    BY <1>1, <1>4 DEF StepInv, DiskInv, OnDisk
  <1> QED BY <1>2, <1>3, <1>5 DEF StepInv

\* Nothing happens.
LEMMA StutterKeeps ==
    ASSUME StepInv, UNCHANGED vars PROVE StepInv'
  <1>1. UNCHANGED <<keyFile, texts, repairs, backup, torn, pc, entries, keytbl, info, textstbl,
                    repltbl, addtbl>>
    BY DEF vars, disk, tables, lists
  <1>2. AskedInv'
    BY <1>1 DEF StepInv, AskedInv
  <1>3. MemoryInv'
    BY <1>1 DEF StepInv, MemoryInv
  <1>4. DiskInv'
    BY <1>1 DEF StepInv, DiskInv
  <1> QED BY <1>2, <1>3, <1>4 DEF StepInv

\* No step breaks the invariant.
LEMMA NextKeeps ==
    ASSUME StepInv, [Next]_vars PROVE StepInv'
  <1>1. CASE StartRepair
    BY <1>1, StartRepairKeeps
  <1>2. CASE RepairStep
    <2>1. UNCHANGED <<repairs, backup, torn>>
      BY <1>2 DEF RepairStep
    <2>2. CASE ReadEntry
      BY <2>1, <2>2, ReadEntryKeeps
    <2>3. CASE AddWord
      BY <2>1, <2>3, AddWordKeeps
    <2>4. CASE StartMerge \/ MergeChain \/ NextLoop \/ RecordOne
      BY <2>1, <2>4, LoopKeeps
    <2>5. CASE ReplaceOne
      BY <2>1, <2>5, ReplaceOneKeeps
    <2>6. CASE OpenKey \/ SaveKey
      BY <2>1, <2>6, WriteKeyKeeps
    <2>7. CASE SaveText
      BY <2>1, <2>7, SaveTextKeeps
    <2>8. CASE SaveHistory \/ ReadFails \/ ReplaceFails
      BY <2>1, <2>8, EndKeeps
    <2> QED BY <1>2, <2>2, <2>3, <2>4, <2>5, <2>6, <2>7, <2>8 DEF RepairStep
  <1>3. CASE EditRepairs \/ RemoveText \/ RestoreBackup
    BY <1>3, UserKeeps
  <1>4. CASE Kill
    BY <1>4, EndKeeps
  <1>5. CASE UNCHANGED vars
    BY <1>5, StutterKeeps
  <1> QED BY <1>1, <1>2, <1>3, <1>4, <1>5 DEF Next

\* It holds throughout.
LEMMA StepInvHolds ==
    Spec => []StepInv
  <1>1. Init => StepInv
    BY StartInv
  <1>2. StepInv /\ [Next]_vars => StepInv'
    BY NextKeeps
  <1> QED BY <1>1, <1>2, PTL DEF Spec
----------------------------------------------------------------------------
(* What the invariant says of the files. *)

\* Loaded is what loadkey makes of the forms in the file.
LEMMA LoadedIs ==
    ASSUME NEW w
    PROVE  /\ w \in FileForms <=> w \in DOMAIN LoadedInfo(keyFile)
           /\ w \in FileForms => Loaded(w) = LoadedInfo(keyFile)[w]
           /\ w \notin FileForms => Loaded(w) = [freq |-> 0, srcs |-> {}]
  <1>1. w \in FileForms <=> w \in DOMAIN LoadedInfo(keyFile)
    BY DEF FileForms, LoadedInfo
  <1> QED BY <1>1 DEF Loaded

\* The matching gives the equality of the sums.
LEMMA CountsRight ==
    ASSUME StepInv PROVE CountsConserved
  <1> SUFFICES ASSUME Settled, DOMAIN texts = Headers
               PROVE  Cardinality(Tally) = Cardinality(AllOccurrences)
    BY DEF CountsConserved
  <1>1. PICK I : I = LoadedInfo(keyFile)
    OBVIOUS
  <1>2. /\ GoodFile(keyFile) /\ GoodTexts(texts) /\ Right(I, texts)
    BY <1>1 DEF StepInv, DiskInv, OnDisk, Settled
  <1>3. Balanced(I, texts)
    BY <1>2 DEF Right
  <1>4. DOMAIN I \subseteq Forms
    <2>1. FromLines(I, keyFile)
      BY <1>1, <1>2, InfoLoads
    <2> QED BY <1>2, <2>1 DEF FromLines, GoodFile
  <1>5. Tally = TallyOf(I)
    <2>1. ASSUME NEW x PROVE x \in Tally <=> x \in TallyOf(I)
      <3>1. x \in Tally <=> \E w \in Forms : x \in {w} \X (1..Loaded(w).freq)
        BY DEF Tally
      <3>2. \A w \in Forms : w \notin DOMAIN I => {w} \X (1..Loaded(w).freq) = {}
        <4>1. ASSUME NEW w \in Forms, w \notin DOMAIN I PROVE 1..Loaded(w).freq = {}
          <5>1. Loaded(w).freq = 0
            BY <1>1, <4>1, LoadedIs
          <5> QED BY <5>1
        <4> QED BY <4>1
      <3>3. \A w \in DOMAIN I : Loaded(w).freq = I[w].freq
        BY <1>1, LoadedIs
      <3>4. x \in TallyOf(I) <=> \E w \in DOMAIN I : x \in {w} \X (1..I[w].freq)
        BY DEF TallyOf
      <3> QED BY <1>4, <3>1, <3>2, <3>3, <3>4
    <2> QED BY <2>1
  <1>6. AllOccurrences = Positions(texts)
    <2>1. ASSUME NEW x PROVE x \in AllOccurrences <=> x \in Positions(texts)
      <3>1. x \in AllOccurrences <=> \E w \in Forms : x \in Occurrences(w, texts)
        BY DEF AllOccurrences
      <3>2. ASSUME NEW w \in Forms, x \in Occurrences(w, texts) PROVE x \in Positions(texts)
        BY <3>2, InOccurrences, InPositions
      <3>3. ASSUME x \in Positions(texts) PROVE \E w \in Forms : x \in Occurrences(w, texts)
        <4>1. PICK h \in DOMAIN texts : \E i \in DOMAIN texts[h] :
                 x = <<h, i>> /\ texts[h][i].at # "comment"
          BY <3>3, InPositions
        <4>2. PICK i \in DOMAIN texts[h] : x = <<h, i>> /\ texts[h][i].at # "comment"
          BY <4>1
        <4>3. texts[h] \in Seq(Token)
          BY <1>2 DEF GoodTexts
        <4>4. PICK w \in Forms : w = texts[h][i].form
          <5>1. texts[h][i] \in Token
            BY <4>3
          <5> QED BY <5>1 DEF Token
        <4>5. x \in Occurrences(w, texts)
          BY <4>2, <4>4, InOccurrences
        <4> QED BY <4>5
      <3> QED BY <3>1, <3>2, <3>3
    <2> QED BY <2>1
  <1>7. ExistsBijection(Positions(texts), TallyOf(I))
    BY <1>3, Fun_ExistsBijSymmetric DEF Balanced
  <1>8. IsFiniteSet(Positions(texts))
    BY <1>2, PlacesFinite
  <1> QED BY <1>5, <1>6, <1>7, <1>8, FS_Bijection

\* The entries are those of the places of each form.
LEMMA TextsRight ==
    ASSUME PlainRepairs, StepInv PROVE TextsAgree
  <1> SUFFICES ASSUME Settled, DOMAIN texts = Headers, NEW w \in Forms
               PROVE  /\ Loaded(w).freq = LineOf(w, texts).freq
                      /\ Loaded(w).srcs = LineOf(w, texts).srcs
    BY DEF TextsAgree
  <1>1. Agrees(LoadedInfo(keyFile), texts)
    BY DEF StepInv, DiskInv, OnDisk, Settled, Right
  <1>2. PICK I : I = LoadedInfo(keyFile)
    OBVIOUS
  <1>3. /\ LineOf(w, texts).freq = Cardinality(Occurrences(w, texts))
        /\ LineOf(w, texts).srcs = {o[1] : o \in Occurrences(w, texts)}
    BY DEF LineOf
  <1>4. CASE w \in DOMAIN I
    <2>1. Loaded(w) = I[w]
      BY <1>2, <1>4, LoadedIs
    <2> QED BY <1>1, <1>2, <1>3, <1>4, <2>1 DEF Agrees
  <1>5. CASE w \notin DOMAIN I
    <2>1. Loaded(w) = [freq |-> 0, srcs |-> {}]
      BY <1>2, <1>5, LoadedIs
    <2>2. Occurrences(w, texts) = {}
      BY <1>1, <1>2, <1>5 DEF Agrees
    <2>3. Cardinality(Occurrences(w, texts)) = 0
      BY <2>2, FS_EmptySet
    <2> QED BY <1>3, <2>1, <2>2, <2>3
  <1> QED BY <1>4, <1>5
----------------------------------------------------------------------------
(* Keys without gaps. *)

\* The forms of plain word p are numbered without a gap.
DenseAt(K, p) == \A s \in DOMAIN K : s[1] = p => \A n \in 0..s[2] : <<p, n>> \in DOMAIN K

\* A form that getpars does not return is not in the key, unless a gap hides it.
LEMMA AbsentForm ==
    ASSUME NEW K, GoodKey(K), NEW w \in Forms, DenseAt(K, PlainOf[w]),
           w \notin Parallels(K, PlainOf[w])
    PROVE  w \notin FormsIn(K)
  <1> USE WordKeyAssumption
  <1>1. SUFFICES ASSUME NEW s \in DOMAIN K, K[s] = w PROVE FALSE
    BY DEF FormsIn
  <1>2. /\ s[1] = PlainOf[w] /\ s[2] \in 0..MaxPar /\ s = <<s[1], s[2]>>
        /\ PlainOf[w] \in Plains
    BY <1>1 DEF GoodKey, Slot
  <1>3. /\ ParCount(K, PlainOf[w]) \in 0..(MaxPar + 1)
        /\ <<PlainOf[w], ParCount(K, PlainOf[w])>> \notin DOMAIN K
    BY <1>2, ParCountStops DEF GoodKey
  <1>4. \A n \in 0..s[2] : <<PlainOf[w], n>> \in DOMAIN K
    BY <1>2 DEF DenseAt
  <1>5. s[2] \in 0..(ParCount(K, PlainOf[w]) - 1)
    BY <1>2, <1>3, <1>4
  <1> QED BY <1>1, <1>2, <1>5 DEF Parallels

\* A form getpars returns is in the key.
LEMMA PresentForm ==
    ASSUME NEW K, GoodKey(K), NEW w \in Forms, w \in Parallels(K, PlainOf[w])
    PROVE  w \in FormsIn(K)
  <1> USE WordKeyAssumption
  <1>1. PlainOf[w] \in Plains
    OBVIOUS
  <1>2. PICK n \in 0..(ParCount(K, PlainOf[w]) - 1) : w = K[<<PlainOf[w], n>>]
    BY DEF Parallels
  <1>3. <<PlainOf[w], n>> \in DOMAIN K
    BY <1>1, <1>2, ParCountStops DEF GoodKey
  <1> QED BY <1>2, <1>3 DEF FormsIn

\* Putting a form into the key makes no gap and no double.
LEMMA WithFormDense ==
    ASSUME NEW K, GoodKey(K), OncePerForm(K), NEW w \in Forms, Fits(K, w),
           DenseAt(K, PlainOf[w]), NEW L, L = WithForm(K, w)
    PROVE  /\ OncePerForm(L)
           /\ \A p : DenseAt(K, p) => DenseAt(L, p)
           /\ FormsIn(L) = FormsIn(K) \cup {w}
  <1> USE WordKeyAssumption
  <1>1. /\ GoodKey(L)
        /\ DOMAIN K \subseteq DOMAIN L /\ \A s \in DOMAIN K : L[s] = K[s]
        /\ \A s \in DOMAIN L \ DOMAIN K :
              L[s] = w /\ s = <<PlainOf[w], ParCount(K, PlainOf[w])>>
        /\ \E s \in DOMAIN L : L[s] = w
    BY WithFormKey
  <1>2. FormsIn(L) = FormsIn(K) \cup {w}
    BY <1>1 DEF FormsIn
  <1>3. CASE w \in Parallels(K, PlainOf[w])
    <2>1. L = K
      BY <1>3 DEF WithForm
    <2> QED BY <1>2, <2>1
  <1>4. CASE w \notin Parallels(K, PlainOf[w])
    <2>1. w \notin FormsIn(K)
      BY <1>4, AbsentForm
    <2>2. OncePerForm(L)
      BY <1>1, <2>1 DEF OncePerForm, FormsIn
    <2>3. ASSUME NEW p, DenseAt(K, p) PROVE DenseAt(L, p)
      <3>1. SUFFICES ASSUME NEW s \in DOMAIN L, s[1] = p, NEW n \in 0..s[2]
                     PROVE  <<p, n>> \in DOMAIN L
        BY DEF DenseAt
      <3>2. CASE s \in DOMAIN K
        BY <1>1, <2>3, <3>1, <3>2 DEF DenseAt
      <3>3. CASE s \notin DOMAIN K
        <4>1. s = <<PlainOf[w], ParCount(K, PlainOf[w])>> /\ p = PlainOf[w]
          BY <1>1, <3>1, <3>3
        <4>2. /\ PlainOf[w] \in Plains /\ ParCount(K, p) \in 0..(MaxPar + 1)
              /\ \A m \in 0..(ParCount(K, p) - 1) : <<p, m>> \in DOMAIN K
          BY <4>1, ParCountStops DEF GoodKey
        <4>3. CASE n = ParCount(K, p)
          BY <4>1, <4>3
        <4>4. CASE n # ParCount(K, p)
          <5>1. n \in 0..(ParCount(K, p) - 1)
            BY <3>1, <4>1, <4>2, <4>4
          <5> QED BY <1>1, <4>2, <5>1
        <4> QED BY <4>3, <4>4
      <3> QED BY <3>2, <3>3
    <2> QED BY <1>2, <2>2, <2>3
  <1> QED BY <1>3, <1>4

\* In a key without doubles, where getpars sees orig and would see repl, replaceword
\* takes orig out of the key.  Only orig's plain word may be left with a gap.
Replaced(L, K, orig, repl) ==
    /\ OncePerForm(L)
    /\ \A p : p # PlainOf[orig] /\ DenseAt(K, p) => DenseAt(L, p)
    /\ FormsIn(L) = (FormsIn(K) \ {orig}) \cup {repl}

LEMMA RekeyedOnce ==
    ASSUME NEW K, GoodKey(K), OncePerForm(K), NEW orig \in Forms, NEW repl \in Forms,
           orig # repl, orig \in Parallels(K, PlainOf[orig]), Fits(K, repl),
           DenseAt(K, PlainOf[repl]), NEW L, L = Rekeyed(K, orig, repl)
    PROVE  Replaced(L, K, orig, repl)
  <1> USE WordKeyAssumption
  <1>1. PICK M : M = WithForm(K, repl)
    OBVIOUS
  <1>2. /\ GoodKey(M)
        /\ DOMAIN K \subseteq DOMAIN M /\ \A s \in DOMAIN K : M[s] = K[s]
    BY <1>1, WithFormKey
  <1>3. OncePerForm(M) /\ (\A p : DenseAt(K, p) => DenseAt(M, p))
    BY <1>1, WithFormDense
  <1>4. PICK q, c, n : q = PlainOf[orig] /\ c = ParCount(K, q) /\ n = SlotNumber(K, orig)
    OBVIOUS
  <1>5. /\ q \in Plains /\ c \in 0..(MaxPar + 1) /\ n \in 0..(c - 1)
        /\ K[<<q, n>>] = orig
        /\ \A m \in 0..(c - 1) : <<q, m>> \in DOMAIN K
    BY <1>4, SlotFound, ParCountStops DEF GoodKey
  <1>6. L = [s \in DOMAIN M \ {<<q, c - 1>>} |->
                IF s[1] = q /\ n <= s[2] /\ s[2] < c - 1 THEN M[<<q, s[2] + 1>>] ELSE M[s]]
    BY <1>1, <1>4 DEF Rekeyed, KeyRemove
  <1>7. <<q, n>> \in DOMAIN M /\ M[<<q, n>>] = orig
    BY <1>2, <1>5
  <1>8. DOMAIN L = DOMAIN M \ {<<q, c - 1>>}
    BY <1>6
  <1>9. ASSUME NEW s \in DOMAIN L
        PROVE  /\ s = <<s[1], s[2]>> /\ s[2] \in 0..MaxPar
               /\ \/ /\ s[1] = q /\ n <= s[2] /\ s[2] < c - 1
                     /\ L[s] = M[<<q, s[2] + 1>>] /\ <<q, s[2] + 1>> \in DOMAIN M
                  \/ /\ ~(s[1] = q /\ n <= s[2] /\ s[2] <= c - 1)
                     /\ L[s] = M[s] /\ s \in DOMAIN M
    <2>1. s \in DOMAIN M /\ s # <<q, c - 1>>
      BY <1>8
    <2>2. s[2] \in 0..MaxPar /\ s = <<s[1], s[2]>>
      BY <1>2, <2>1 DEF GoodKey, Slot
    <2>3. CASE s[1] = q /\ n <= s[2] /\ s[2] < c - 1
      <3>1. L[s] = M[<<q, s[2] + 1>>]
        BY <1>6, <2>3
      <3>2. s[2] + 1 \in 0..(c - 1)
        BY <1>5, <2>2, <2>3
      <3> QED BY <1>2, <1>5, <2>2, <2>3, <3>1, <3>2
    <2>4. CASE ~(s[1] = q /\ n <= s[2] /\ s[2] < c - 1)
      <3>1. L[s] = M[s]
        BY <1>6, <2>4
      <3>2. ~(s[1] = q /\ n <= s[2] /\ s[2] <= c - 1)
        BY <1>5, <2>1, <2>2, <2>4
      <3> QED BY <2>1, <2>2, <3>1, <3>2
    <2> QED BY <2>3, <2>4
  <1> HIDE <1>6
  <1>9a. \A s \in DOMAIN L : s[2] \in Nat
    <2>1. \A s \in DOMAIN M : s[2] \in 0..MaxPar
      BY <1>2 DEF GoodKey, Slot
    <2>2. \A m \in 0..MaxPar : m \in Nat
      OBVIOUS
    <2> QED BY <1>8, <2>1, <2>2
  <1>10. OncePerForm(L)
    <2>1. SUFFICES ASSUME NEW s \in DOMAIN L, NEW t \in DOMAIN L, L[s] = L[t] PROVE s = t
      BY DEF OncePerForm
    <2>2. \A x, y \in DOMAIN M : M[x] = M[y] => x = y
      BY <1>3 DEF OncePerForm
    <2>3. CASE /\ L[s] = M[<<q, s[2] + 1>>] /\ <<q, s[2] + 1>> \in DOMAIN M
               /\ L[t] = M[<<q, t[2] + 1>>] /\ <<q, t[2] + 1>> \in DOMAIN M
               /\ s[1] = q /\ t[1] = q
      <3>1. <<q, s[2] + 1>> = <<q, t[2] + 1>>
        BY <2>1, <2>2, <2>3
      <3>2. s[2] + 1 = t[2] + 1
        BY <3>1
      <3>3. s[2] \in Nat /\ t[2] \in Nat
        BY <1>9a
      <3>4. s[2] = t[2]
        BY <3>2, <3>3
      <3> QED BY <1>9, <2>3, <3>4
    <2>4. CASE L[s] = M[s] /\ s \in DOMAIN M /\ L[t] = M[t] /\ t \in DOMAIN M
      BY <2>1, <2>2, <2>4
    <2>5. CASE /\ s[1] = q /\ n <= s[2] /\ s[2] < c - 1
               /\ L[s] = M[<<q, s[2] + 1>>] /\ <<q, s[2] + 1>> \in DOMAIN M
               /\ ~(t[1] = q /\ n <= t[2] /\ t[2] <= c - 1)
               /\ L[t] = M[t] /\ t \in DOMAIN M
      <3>1. t = <<q, s[2] + 1>>
        BY <2>1, <2>2, <2>5
      <3>2. t[1] = q /\ t[2] = s[2] + 1
        BY <3>1
      <3> QED BY <1>5, <1>9, <2>5, <3>2
    <2>6. CASE /\ t[1] = q /\ n <= t[2] /\ t[2] < c - 1
               /\ L[t] = M[<<q, t[2] + 1>>] /\ <<q, t[2] + 1>> \in DOMAIN M
               /\ ~(s[1] = q /\ n <= s[2] /\ s[2] <= c - 1)
               /\ L[s] = M[s] /\ s \in DOMAIN M
      <3>1. s = <<q, t[2] + 1>>
        BY <2>1, <2>2, <2>6
      <3>2. s[1] = q /\ s[2] = t[2] + 1
        BY <3>1
      <3> QED BY <1>5, <1>9, <2>6, <3>2
    <2> QED BY <1>9, <2>3, <2>4, <2>5, <2>6
  <1>11. orig \notin FormsIn(L)
    <2>1. SUFFICES ASSUME NEW s \in DOMAIN L, L[s] = orig PROVE FALSE
      BY DEF FormsIn
    <2>2. CASE /\ s[1] = q /\ n <= s[2] /\ s[2] < c - 1
               /\ L[s] = M[<<q, s[2] + 1>>] /\ <<q, s[2] + 1>> \in DOMAIN M
      <3>1. <<q, s[2] + 1>> = <<q, n>>
        BY <1>3, <1>7, <2>1, <2>2 DEF OncePerForm
      <3> QED BY <1>5, <1>9, <2>2, <3>1
    <2>3. CASE ~(s[1] = q /\ n <= s[2] /\ s[2] <= c - 1) /\ L[s] = M[s] /\ s \in DOMAIN M
      <3>1. s = <<q, n>>
        BY <1>3, <1>7, <2>1, <2>3 DEF OncePerForm
      <3> QED BY <1>5, <1>9, <2>3, <3>1
    <2> QED BY <1>9, <2>2, <2>3
  <1>12. ASSUME NEW p, p # PlainOf[orig], DenseAt(K, p) PROVE DenseAt(L, p)
    <2>1. DenseAt(M, p)
      BY <1>3, <1>12
    <2>2. SUFFICES ASSUME NEW s \in DOMAIN L, s[1] = p, NEW m \in 0..s[2]
                   PROVE  <<p, m>> \in DOMAIN L
      BY DEF DenseAt
    <2>3. <<p, m>> \in DOMAIN M
      BY <1>8, <2>1, <2>2 DEF DenseAt
    <2> QED BY <1>4, <1>8, <1>12, <2>3
  <1>13. FormsIn(L) = (FormsIn(K) \ {orig}) \cup {repl}
    <2>1. /\ \A w \in FormsIn(K) : w # orig => w \in FormsIn(L)
          /\ repl \in FormsIn(L)
          /\ FormsIn(L) \subseteq FormsIn(K) \cup {repl}
      BY RekeyedKey
    <2> QED BY <1>11, <2>1
  <1> QED BY <1>10, <1>12, <1>13 DEF Replaced

\* Each form has one line.
OncePerLine(L) == \A s, t \in DOMAIN L : L[s].form = L[t].form => s = t

\* Loading numbers the lines of a plain word without a gap.
LEMMA LoadedDense ==
    ASSUME NEW L, GoodFile(L), OncePerLine(L), NEW K, K = LoadedKey(L)
    PROVE  OncePerForm(K) /\ \A p : DenseAt(K, p)
  <1> USE WordKeyAssumption
  <1>1. DOMAIN L \subseteq Slot
    BY DEF GoodFile
  <1>2. GoodKey(K)
    BY KeyLoads
  <1>3. DOMAIN K = {<<t[1], Rank(L, t)>> : t \in DOMAIN L}
    BY KeyLoads
  <1>4. \A t \in DOMAIN L : K[<<t[1], Rank(L, t)>>] = L[t].form
    BY KeyLoads
  <1>5. OncePerForm(K)
    <2>1. SUFFICES ASSUME NEW x \in DOMAIN K, NEW y \in DOMAIN K, K[x] = K[y] PROVE x = y
      BY DEF OncePerForm
    <2>2. PICK s \in DOMAIN L : x = <<s[1], Rank(L, s)>>
      BY <1>3
    <2>3. PICK t \in DOMAIN L : y = <<t[1], Rank(L, t)>>
      BY <1>3
    <2>4. L[s].form = L[t].form
      BY <1>4, <2>1, <2>2, <2>3
    <2> QED BY <2>2, <2>3, <2>4 DEF OncePerLine
  <1>6. ASSUME NEW t \in DOMAIN L, NEW n \in 0..Rank(L, t)
        PROVE  \E u \in DOMAIN L : u[1] = t[1] /\ Rank(L, u) = n
    <2>1. PICK S : S = {u[2] : u \in {v \in DOMAIN L : v[1] = t[1] /\ n <= Rank(L, v)}}
      OBVIOUS
    <2>2. \A v \in DOMAIN L : v[2] \in 0..MaxPar /\ v = <<v[1], v[2]>>
      BY <1>1 DEF Slot
    <2>3. \A v \in DOMAIN L : Rank(L, v) \in Nat
      <3>1. SUFFICES ASSUME NEW v \in DOMAIN L PROVE Rank(L, v) \in Nat
        OBVIOUS
      <3>2. v[2] \in Nat /\ Rank(L, v) \in 0..v[2]
        BY <1>1, <2>2, RankBounded
      <3> QED BY <3>2
    <2>4. S # {} /\ S \subseteq Nat
      BY <2>1, <2>2, <2>3
    <2>5. PICK m \in S : \A k \in S : m <= k
      BY <2>4, LeastElement
    <2>6. PICK u \in DOMAIN L : u[1] = t[1] /\ n <= Rank(L, u) /\ u[2] = m
      BY <2>1
    <2>7. ASSUME NEW v \in DOMAIN L, v[1] = t[1], v[2] < u[2] PROVE Rank(L, v) < n
      <3>1. v[2] \notin S
        BY <2>2, <2>5, <2>6, <2>7
      <3>2. ~(n <= Rank(L, v))
        BY <2>1, <2>7, <3>1
      <3> QED BY <2>3, <3>2
    <2>8. CASE Earlier(L, u) = {}
      <3>1. Rank(L, u) = 0
        BY <1>1, <2>8, RankBounded, FS_EmptySet
      <3> QED BY <2>6, <3>1
    <2>9. CASE Earlier(L, u) # {}
      <3>1. PICK T : T = {v[2] : v \in Earlier(L, u)}
        OBVIOUS
      <3>2. T # {} /\ T \subseteq 0..MaxPar
        BY <2>2, <2>9, <3>1 DEF Earlier
      <3>3. PICK k \in T : \A j \in T : j <= k
        BY <3>2, GreatestElement
      <3>4. PICK v \in Earlier(L, u) : v[2] = k
        BY <3>1
      <3>5. v \in DOMAIN L /\ v[1] = u[1] /\ v[2] < u[2]
        BY <3>4 DEF Earlier
      <3>6. Earlier(L, u) = Earlier(L, v) \cup {v}
        <4>1. ASSUME NEW x \in Earlier(L, u) PROVE x \in Earlier(L, v) \cup {v}
          <5>1. x \in DOMAIN L /\ x[1] = u[1] /\ x[2] \in T
            BY <3>1 DEF Earlier
          <5>2. x[2] <= v[2]
            BY <3>3, <3>4, <5>1
          <5>3. x[2] < v[2] \/ x[2] = v[2]
            BY <2>2, <3>5, <5>1, <5>2
          <5>4. CASE x[2] < v[2]
            BY <3>5, <5>1, <5>4 DEF Earlier
          <5>5. CASE x[2] = v[2]
            <6>1. x = v
              BY <2>2, <3>5, <5>1, <5>5
            <6> QED BY <6>1
          <5> QED BY <5>3, <5>4, <5>5
        <4>2. ASSUME NEW x \in Earlier(L, v) PROVE x \in Earlier(L, u)
          <5>1. x \in DOMAIN L /\ x[1] = u[1] /\ x[2] < v[2]
            BY <3>5 DEF Earlier
          <5>2. x[2] < u[2]
            BY <2>2, <3>5, <5>1
          <5> QED BY <5>1, <5>2 DEF Earlier
        <4> QED BY <3>4, <4>1, <4>2
      <3>7. v \notin Earlier(L, v)
        BY <2>2, <3>5 DEF Earlier
      <3>8. Rank(L, u) = Rank(L, v) + 1
        <4>1. /\ IsFiniteSet(Earlier(L, v)) /\ Rank(L, v) = Cardinality(Earlier(L, v))
              /\ Rank(L, u) = Cardinality(Earlier(L, u))
          BY <1>1, <3>5, RankBounded
        <4>2. Cardinality(Earlier(L, v) \cup {v}) = Cardinality(Earlier(L, v)) + 1
          BY <3>7, <4>1, FS_AddElement
        <4> QED BY <3>6, <4>1, <4>2
      <3>9. Rank(L, v) < n
        BY <2>6, <2>7, <3>5
      <3> QED BY <2>3, <2>6, <3>5, <3>8, <3>9
    <2> QED BY <2>8, <2>9
  <1>7. ASSUME NEW p PROVE DenseAt(K, p)
    <2>1. SUFFICES ASSUME NEW s \in DOMAIN K, s[1] = p, NEW n \in 0..s[2]
                   PROVE  <<p, n>> \in DOMAIN K
      BY DEF DenseAt
    <2>2. PICK t \in DOMAIN L : s = <<t[1], Rank(L, t)>>
      BY <1>3
    <2>3. t[1] = p /\ n \in 0..Rank(L, t)
      BY <2>1, <2>2
    <2>4. PICK u \in DOMAIN L : u[1] = t[1] /\ Rank(L, u) = n
      BY <1>6, <2>3
    <2> QED BY <1>3, <2>3, <2>4
  <1> QED BY <1>5, <1>7
----------------------------------------------------------------------------
(* Corrections of different words. *)

Corrects == {"replace", "multi", "abv", "enc"}

\* The plain words that a line is about.
Concerns(e) == CASE e.does \in Corrects -> {PlainOf[e.orig], PlainOf[e.repl]}
                 [] e.does = "add"      -> {PlainOf[e.orig]}
                 [] OTHER               -> {}

\* The key has no doubles, and no two lines of a file are about the same plain word.
SeparateRepairs ==
    /\ OncePerForm(StartKey)
    /\ \A f \in RepairFiles : \A i \in DOMAIN f :
          /\ f[i].does = "replace" => f[i].orig # f[i].repl
          /\ \A j \in DOMAIN f \ {i} : Concerns(f[i]) \cap Concerns(f[j]) = {}

\* How many lines have been read.
ReadSoFar == Len(repairs) - Len(entries)

LinesRead ==
    /\ repairs \in RepairFiles \cup {<< >>}
    /\ Len(entries) <= Len(repairs)
    /\ \A k \in 1..Len(entries) : entries[k] = repairs[ReadSoFar + k]
    /\ \A k \in DOMAIN addtbl : \E i \in 1..ReadSoFar :
          repairs[i].does = "add" /\ repairs[i].orig = addtbl[k]
    /\ \A o \in DOMAIN repltbl : \E i \in 1..ReadSoFar :
          repairs[i].does = "replace" /\ repairs[i].orig = o /\ repairs[i].repl = repltbl[o]
    /\ \A i \in 1..ReadSoFar : repairs[i].does = "replace" => repairs[i].orig \in DOMAIN repltbl

\* The loops have all the corrections before them, each once.
LoopsAhead ==
    /\ pc # "read" => entries = << >> /\ addtbl = << >>
    /\ IsFiniteSet(DOMAIN repltbl)
    /\ pc \in {"merge", "replace", "record"} =>
          /\ order \in Seq(DOMAIN repltbl) /\ Range(order) = DOMAIN repltbl /\ IsInjective(order)
          /\ todo \in Seq(DOMAIN repltbl) /\ IsInjective(todo)

\* The forms that have been corrected: at once, and in the loop.
AtOnce == {repairs[i].orig : i \in {j \in 1..ReadSoFar : repairs[j].does \in {"multi", "abv", "enc"}}}

InLoop == CASE pc \in {"read", "merge"} -> {}
            [] pc = "replace"           -> DOMAIN repltbl \ Range(todo)
            [] OTHER                    -> DOMAIN repltbl

Gone == AtOnce \cup InLoop

\* The forms that are to be added, and those that have been.
ToAdd == {repairs[i].orig : i \in {j \in 1..ReadSoFar : repairs[j].does = "add"}}

There == ToAdd \ Range(addtbl)

\* A key without doubles that has only the forms there of those there and gone, and is
\* dense but where a form has gone.
Corrected(K, gone, there) ==
    /\ OncePerForm(K)
    /\ \A p : DenseAt(K, p) \/ \E w \in gone : p = PlainOf[w]
    /\ gone \cap FormsIn(K) = {}
    /\ there \subseteq FormsIn(K)

FilesCorrected ==
    /\ OncePerLine(keyFile) /\ OncePerLine(backup.key)
    /\ pc # "idle" => outcome # "done"
    /\ CorrectionsMade /\ AddedKept

RepairsInv ==
    /\ repairs \in RepairFiles \cup {<< >>}
    /\ pc = "idle" => repltbl = EmptyTable /\ addtbl = << >>
    /\ pc # "idle" => LinesRead /\ LoopsAhead /\ Corrected(keytbl, Gone, There)
    /\ FilesCorrected

\* Two lines of one file are about different words.
LEMMA LinesApart ==
    ASSUME SeparateRepairs, StepInv, LinesRead, NEW i \in DOMAIN repairs, NEW j \in DOMAIN repairs,
           i # j, repairs[i].does \in Corrects, repairs[j].does \in Corrects \cup {"add"}
    PROVE  /\ PlainOf[repairs[j].orig] # PlainOf[repairs[i].orig]
           /\ PlainOf[repairs[j].orig] # PlainOf[repairs[i].repl]
  <1>1. PICK f : f = repairs
    OBVIOUS
  <1>2. f \in RepairFiles
    BY <1>1 DEF LinesRead
  <1>3. Concerns(f[i]) \cap Concerns(f[j]) = {}
    BY <1>1, <1>2 DEF SeparateRepairs
  <1>4. Concerns(f[i]) = {PlainOf[f[i].orig], PlainOf[f[i].repl]}
    <2>1. f[i].does \in Corrects /\ f[i].does # "add"
      BY <1>1 DEF Corrects
    <2> QED BY <2>1 DEF Concerns
  <1>5. PlainOf[f[j].orig] \in Concerns(f[j])
    <2>1. CASE f[j].does \in Corrects
      BY <2>1 DEF Concerns, Corrects
    <2>2. CASE f[j].does = "add"
      BY <2>2 DEF Concerns, Corrects
    <2> QED BY <1>1, <2>1, <2>2
  <1> QED BY <1>1, <1>3, <1>4, <1>5

\* No form is to be replaced by itself.
LEMMA NoSelf ==
    ASSUME SeparateRepairs, LinesRead, NEW i \in DOMAIN repairs, repairs[i].does = "replace"
    PROVE  repairs[i].orig # repairs[i].repl
  <1>1. PICK f : f = repairs
    OBVIOUS
  <1>2. f \in RepairFiles
    BY <1>1 DEF LinesRead
  <1> QED BY <1>1, <1>2 DEF SeparateRepairs

\* The lines read are lines of the file; the next one is that after them.
LEMMA NextLine ==
    ASSUME StepInv, LinesRead
    PROVE  /\ ReadSoFar \in Nat /\ ReadSoFar = Len(repairs) - Len(entries)
           /\ \A i \in 1..ReadSoFar : i \in DOMAIN repairs
           /\ entries # << >> => /\ ReadSoFar + 1 \in DOMAIN repairs
                                 /\ repairs[ReadSoFar + 1] = Head(entries)
  <1>1. repairs \in Seq(Entry) /\ entries \in Seq(Entry)
    BY DEF StepInv, AskedInv, GoodEntries
  <1>2. /\ Len(repairs) \in Nat /\ Len(entries) \in Nat /\ Len(entries) <= Len(repairs)
        /\ DOMAIN repairs = 1..Len(repairs)
    BY <1>1 DEF LinesRead
  <1>3. ReadSoFar = Len(repairs) - Len(entries)
    BY DEF ReadSoFar
  <1>4. ASSUME entries # << >>
        PROVE  ReadSoFar + 1 \in DOMAIN repairs /\ repairs[ReadSoFar + 1] = Head(entries)
    <2>1. 1 \in 1..Len(entries) /\ Head(entries) = entries[1]
      BY <1>1, <1>4
    <2>2. entries[1] = repairs[ReadSoFar + 1]
      BY <2>1 DEF LinesRead
    <2> QED BY <1>2, <1>3, <2>1, <2>2
  <1> QED BY <1>2, <1>3, <1>4

\* A form that has been corrected or added comes from a line.
LEMMA GoneRead ==
    ASSUME StepInv, LinesRead
    PROVE  /\ \A w \in AtOnce : \E i \in 1..ReadSoFar :
                 repairs[i].does \in {"multi", "abv", "enc"} /\ repairs[i].orig = w
           /\ \A w \in InLoop : /\ w \in DOMAIN repltbl
                                /\ pc = "replace" => w \notin Range(todo)
           /\ \A w \in There : \E i \in 1..ReadSoFar :
                 repairs[i].does = "add" /\ repairs[i].orig = w
  <1>1. \A w \in AtOnce : \E i \in 1..ReadSoFar :
           repairs[i].does \in {"multi", "abv", "enc"} /\ repairs[i].orig = w
    BY DEF AtOnce
  <1>2. \A w \in InLoop : w \in DOMAIN repltbl /\ (pc = "replace" => w \notin Range(todo))
    <2>1. CASE pc \in {"read", "merge"}
      BY <2>1 DEF InLoop
    <2>2. CASE pc = "replace"
      BY <2>2 DEF InLoop
    <2>3. CASE pc \notin {"read", "merge", "replace"}
      BY <2>3 DEF InLoop
    <2> QED BY <2>1, <2>2, <2>3
  <1>3. \A w \in There : \E i \in 1..ReadSoFar :
           repairs[i].does = "add" /\ repairs[i].orig = w
    BY DEF There, ToAdd
  <1> QED BY <1>1, <1>2, <1>3

\* replaceword takes a form out of a key that has no gap where it looks.
LEMMA TakenOut ==
    ASSUME NEW K, GoodKey(K), NEW gone, NEW there, Corrected(K, gone, there),
           NEW orig \in Forms, NEW repl \in Forms, orig \notin there,
           \A w \in gone : PlainOf[w] # PlainOf[orig] /\ PlainOf[w] # PlainOf[repl],
           NEW L,
           \/ orig \notin Parallels(K, PlainOf[orig]) /\ L = K
           \/ /\ orig \in Parallels(K, PlainOf[orig]) /\ orig # repl /\ Fits(K, repl)
              /\ L = Rekeyed(K, orig, repl)
    PROVE  Corrected(L, gone \cup {orig}, there)
  <1>1. /\ OncePerForm(K)
        /\ \A p : DenseAt(K, p) \/ \E w \in gone : p = PlainOf[w]
        /\ gone \cap FormsIn(K) = {} /\ there \subseteq FormsIn(K)
    BY DEF Corrected
  <1>2. DenseAt(K, PlainOf[orig]) /\ DenseAt(K, PlainOf[repl])
    BY <1>1
  <1>3. CASE orig \notin Parallels(K, PlainOf[orig])
    <2>1. L = K
      BY <1>3
    <2>2. orig \notin FormsIn(K)
      BY <1>2, <1>3, AbsentForm
    <2> QED BY <1>1, <2>1, <2>2 DEF Corrected
  <1>4. CASE orig \in Parallels(K, PlainOf[orig])
    <2>1. orig # repl /\ Fits(K, repl) /\ L = Rekeyed(K, orig, repl)
      BY <1>4
    <2>2. Replaced(L, K, orig, repl)
      BY <1>1, <1>2, <1>4, <2>1, RekeyedOnce
    <2>3. /\ OncePerForm(L)
          /\ \A p : p # PlainOf[orig] /\ DenseAt(K, p) => DenseAt(L, p)
          /\ FormsIn(L) = (FormsIn(K) \ {orig}) \cup {repl}
      BY <2>2 DEF Replaced
    <2>4. \A p : DenseAt(L, p) \/ \E w \in gone \cup {orig} : p = PlainOf[w]
      BY <1>1, <2>3
    <2>5. repl \notin gone
      OBVIOUS
    <2>6. (gone \cup {orig}) \cap FormsIn(L) = {}
      BY <1>1, <2>1, <2>3, <2>5
    <2>7. there \subseteq FormsIn(L)
      BY <1>1, <2>3
    <2> QED BY <2>3, <2>4, <2>6, <2>7 DEF Corrected
  <1> QED BY <1>3, <1>4

\* addword puts a form into such a key.
LEMMA PutIn ==
    ASSUME NEW K, GoodKey(K), NEW gone, NEW there, Corrected(K, gone, there),
           NEW w \in Forms, \A v \in gone : PlainOf[v] # PlainOf[w],
           Fits(K, w), NEW L, L = WithForm(K, w)
    PROVE  Corrected(L, gone, there \cup {w})
  <1>1. /\ OncePerForm(K)
        /\ \A p : DenseAt(K, p) \/ \E v \in gone : p = PlainOf[v]
        /\ gone \cap FormsIn(K) = {} /\ there \subseteq FormsIn(K)
    BY DEF Corrected
  <1>2. DenseAt(K, PlainOf[w])
    BY <1>1
  <1>3. /\ OncePerForm(L)
        /\ \A p : DenseAt(K, p) => DenseAt(L, p)
        /\ FormsIn(L) = FormsIn(K) \cup {w}
    BY <1>1, <1>2, WithFormDense
  <1>4. \A p : DenseAt(L, p) \/ \E v \in gone : p = PlainOf[v]
    BY <1>1, <1>3
  <1>5. w \notin gone
    OBVIOUS
  <1> QED BY <1>1, <1>3, <1>4, <1>5 DEF Corrected

\* A line is carried out: no line before it was about its words.
LEMMA LineCarriedOut ==
    ASSUME SeparateRepairs, StepInv, pc # "idle", LinesRead, Corrected(keytbl, Gone, There),
           NEW i \in DOMAIN repairs, repairs[i].does \in Corrects,
           \A w \in Gone : \E j \in DOMAIN repairs :
              j # i /\ repairs[j].does \in Corrects /\ repairs[j].orig = w,
           NEW inTexts \in BOOLEAN,
           ReplaceWord(repairs[i].orig, repairs[i].repl, inTexts)
    PROVE  Corrected(keytbl', Gone \cup {repairs[i].orig}, There)
  <1>1. PICK K, L, o, r : /\ K = keytbl /\ L = keytbl'
                          /\ o = repairs[i].orig /\ r = repairs[i].repl
    OBVIOUS
  <1>2. GoodKey(K)
    BY <1>1 DEF StepInv, MemoryInv, InMemory
  <1>3. o \in Forms /\ r \in Forms
    <2>1. repairs[i] \in Entry
      BY DEF StepInv, AskedInv, GoodEntries
    <2> QED BY <1>1, <2>1 DEF Entry
  <1>4. \A w \in Gone : PlainOf[w] # PlainOf[o] /\ PlainOf[w] # PlainOf[r]
    <2>1. SUFFICES ASSUME NEW w \in Gone PROVE PlainOf[w] # PlainOf[o] /\ PlainOf[w] # PlainOf[r]
      OBVIOUS
    <2>2. PICK j \in DOMAIN repairs :
             j # i /\ repairs[j].does \in Corrects /\ repairs[j].orig = w
      OBVIOUS
    <2> QED BY <1>1, <2>2, LinesApart
  <1>5. o \notin There
    <2>1. SUFFICES ASSUME o \in There PROVE FALSE
      OBVIOUS
    <2>2. PICK j \in 1..ReadSoFar : repairs[j].does = "add" /\ repairs[j].orig = o
      BY <2>1, GoneRead
    <2>3. j \in DOMAIN repairs /\ j # i
      BY <2>2, NextLine DEF Corrects
    <2>4. PlainOf[repairs[j].orig] # PlainOf[o]
      BY <1>1, <2>2, <2>3, LinesApart
    <2> QED BY <2>2, <2>4
  <1>6. \/ o \notin Parallels(K, PlainOf[o]) /\ L = K
        \/ /\ o \in Parallels(K, PlainOf[o]) /\ o # r /\ Fits(K, r)
           /\ L = Rekeyed(K, o, r)
    BY <1>1 DEF ReplaceWord, tables
  <1>7. PICK gone, there : gone = Gone /\ there = There
    OBVIOUS
  <1>8. Corrected(K, gone, there) /\ o \notin there
        /\ \A w \in gone : PlainOf[w] # PlainOf[o] /\ PlainOf[w] # PlainOf[r]
    BY <1>1, <1>4, <1>5, <1>7
  <1>9. Corrected(L, gone \cup {o}, there)
    BY <1>2, <1>3, <1>6, <1>8, TakenOut
  <1> QED BY <1>1, <1>7, <1>9
----------------------------------------------------------------------------
(* Each step keeps it so. *)

\* One more line has been read.
LEMMA ReadOn ==
    ASSUME StepInv, LinesRead, entries # << >>, entries' = Tail(entries), repairs' = repairs,
           NEW i, i = ReadSoFar + 1
    PROVE  /\ ReadSoFar' = i /\ 1..i = (1..ReadSoFar) \cup {i}
           /\ Len(entries') <= Len(repairs')
           /\ \A k \in 1..Len(entries') : entries'[k] = repairs'[i + k]
           /\ AtOnce' = AtOnce \cup {repairs[j].orig : j \in
                 {k \in {i} : repairs[k].does \in {"multi", "abv", "enc"}}}
           /\ ToAdd' = ToAdd \cup {repairs[j].orig : j \in {k \in {i} : repairs[k].does = "add"}}
  <1>1. entries \in Seq(Entry) /\ repairs \in Seq(Entry)
    BY DEF StepInv, AskedInv, GoodEntries
  <1>2. /\ Len(entries) \in Nat \ {0} /\ Len(entries') = Len(entries) - 1
        /\ \A k \in 1..Len(entries') : entries'[k] = entries[k + 1] /\ k + 1 \in 1..Len(entries)
        /\ Len(repairs) \in Nat /\ Len(entries) <= Len(repairs)
    BY <1>1 DEF LinesRead
  <1>3. ReadSoFar \in Nat /\ ReadSoFar = Len(repairs) - Len(entries)
    BY NextLine
  <1>4. ReadSoFar' = i
    BY <1>2, <1>3 DEF ReadSoFar
  <1>5. 1..i = (1..ReadSoFar) \cup {i}
    BY <1>3
  <1>6. \A k \in 1..Len(entries') : entries'[k] = repairs'[i + k]
    <2>1. SUFFICES ASSUME NEW k \in 1..Len(entries') PROVE entries'[k] = repairs[i + k]
      OBVIOUS
    <2>2. entries'[k] = entries[k + 1] /\ k + 1 \in 1..Len(entries)
      BY <1>2
    <2>3. entries[k + 1] = repairs[ReadSoFar + (k + 1)]
      BY <2>2 DEF LinesRead
    <2>4. ReadSoFar + (k + 1) = i + k
      BY <1>2, <1>3, <2>1
    <2> QED BY <2>2, <2>3, <2>4
  <1>7. PICK n, f : n = ReadSoFar /\ f = repairs
    OBVIOUS
  <1>8. /\ AtOnce = {f[j].orig : j \in {k \in 1..n : f[k].does \in {"multi", "abv", "enc"}}}
        /\ AtOnce' = {f[j].orig : j \in {k \in 1..i : f[k].does \in {"multi", "abv", "enc"}}}
    BY <1>4, <1>7 DEF AtOnce
  <1>9. /\ ToAdd = {f[j].orig : j \in {k \in 1..n : f[k].does = "add"}}
        /\ ToAdd' = {f[j].orig : j \in {k \in 1..i : f[k].does = "add"}}
    BY <1>4, <1>7 DEF ToAdd
  <1>10. 1..i = (1..n) \cup {i}
    BY <1>5, <1>7
  <1>11. AtOnce' = AtOnce \cup {f[j].orig : j \in
            {k \in {i} : f[k].does \in {"multi", "abv", "enc"}}}
    BY <1>8, <1>10
  <1>12. ToAdd' = ToAdd \cup {f[j].orig : j \in {k \in {i} : f[k].does = "add"}}
    BY <1>9, <1>10
  <1> QED BY <1>2, <1>4, <1>5, <1>6, <1>7, <1>11, <1>12

\* Unless a run has ended, what it promises is not yet asked for.
LEMMA NotDone ==
    ASSUME outcome' # "done", OncePerLine(keyFile'), OncePerLine(backup'.key)
    PROVE  FilesCorrected'
  BY DEF FilesCorrected, CorrectionsMade, AddedKept

\* Fewer forms are known to be there.
LEMMA FewerThere ==
    ASSUME NEW K, NEW gone, NEW there, Corrected(K, gone, there), NEW S, S \subseteq there
    PROVE  Corrected(K, gone, S)
  BY DEF Corrected

\* Reading a line, and carrying it out if it is of a kind that is carried out at once.
LEMMA ReadCorrects ==
    ASSUME SeparateRepairs, StepInv, RepairsInv, ReadEntry, UNCHANGED <<repairs, backup, torn>>
    PROVE  RepairsInv'
  <1>1. /\ pc = "read" /\ pc' = "read" /\ entries # << >> /\ entries' = Tail(entries)
        /\ UNCHANGED <<keyFile, order, todo, outcome>>
    BY DEF ReadEntry, ReadReplace, ReadAdd, ReadOk, ReadMulti, ReadAbv, ReadEnc, Asks, disk
  <1>2. LinesRead /\ LoopsAhead /\ Corrected(keytbl, Gone, There)
    BY <1>1 DEF RepairsInv
  <1>3. PICK i, e : i = ReadSoFar + 1 /\ e = Head(entries)
    OBVIOUS
  <1>4. i \in DOMAIN repairs /\ repairs[i] = e
    BY <1>1, <1>2, <1>3, NextLine
  <1>5. /\ ReadSoFar' = i /\ 1..i = (1..ReadSoFar) \cup {i}
        /\ Len(entries') <= Len(repairs')
        /\ \A k \in 1..Len(entries') : entries'[k] = repairs'[i + k]
    BY <1>1, <1>2, <1>3, ReadOn
  <1>6. /\ AtOnce' = AtOnce \cup {repairs[j].orig : j \in
              {k \in {i} : repairs[k].does \in {"multi", "abv", "enc"}}}
        /\ ToAdd' = ToAdd \cup {repairs[j].orig : j \in {k \in {i} : repairs[k].does = "add"}}
    BY <1>1, <1>2, <1>3, ReadOn
  <1>7. Gone = AtOnce /\ Gone' = AtOnce'
    BY <1>1 DEF Gone, InLoop
  <1>8. FilesCorrected'
    BY <1>1, NotDone DEF RepairsInv, FilesCorrected
  <1>9. /\ \A k \in DOMAIN addtbl' : \E j \in 1..i :
              repairs[j].does = "add" /\ repairs[j].orig = addtbl'[k]
        /\ \A o \in DOMAIN repltbl' : \E j \in 1..i :
              /\ repairs[j].does = "replace" /\ repairs[j].orig = o
              /\ repairs[j].repl = repltbl'[o]
        /\ \A j \in 1..i : repairs[j].does = "replace" => repairs[j].orig \in DOMAIN repltbl'
        /\ IsFiniteSet(DOMAIN repltbl')
    <2>1. /\ \A k \in DOMAIN addtbl : \E j \in 1..i :
                repairs[j].does = "add" /\ repairs[j].orig = addtbl[k]
          /\ \A o \in DOMAIN repltbl : \E j \in 1..i :
                /\ repairs[j].does = "replace" /\ repairs[j].orig = o
                /\ repairs[j].repl = repltbl[o]
          /\ \A j \in 1..i : j # i /\ repairs[j].does = "replace" =>
                repairs[j].orig \in DOMAIN repltbl
          /\ IsFiniteSet(DOMAIN repltbl)
      BY <1>2, <1>5 DEF LinesRead, LoopsAhead
    <2>2. i \in 1..i
      BY <1>5
    <2>3. CASE ReadReplace
      <3>1. /\ repltbl' = Store(repltbl, e.orig, e.repl) /\ addtbl' = addtbl
            /\ e.does = "replace"
        BY <1>3, <2>3 DEF ReadReplace, Asks
      <3>2. PICK t, u : t = repltbl /\ u = repltbl'
        OBVIOUS
      <3>3. /\ DOMAIN u = DOMAIN t \cup {e.orig} /\ u[e.orig] = e.repl
            /\ \A o \in DOMAIN t : o # e.orig => u[o] = t[o]
        BY <3>1, <3>2 DEF Store
      <3>4. IsFiniteSet(DOMAIN u)
        BY <2>1, <3>2, <3>3, FS_AddElement
      <3>5. ASSUME NEW o \in DOMAIN u
            PROVE  \E j \in 1..i : /\ repairs[j].does = "replace" /\ repairs[j].orig = o
                                   /\ repairs[j].repl = u[o]
        <4>1. CASE o = e.orig
          BY <1>4, <2>2, <3>1, <3>3, <4>1
        <4>2. CASE o # e.orig
          BY <2>1, <3>2, <3>3, <3>5, <4>2
        <4> QED BY <4>1, <4>2
      <3>6. ASSUME NEW j \in 1..i, repairs[j].does = "replace" PROVE repairs[j].orig \in DOMAIN u
        <4>1. CASE j = i
          BY <1>4, <3>3, <4>1
        <4>2. CASE j # i
          BY <2>1, <3>2, <3>3, <3>6, <4>2
        <4> QED BY <4>1, <4>2
      <3> QED BY <2>1, <3>1, <3>2, <3>4, <3>5, <3>6
    <2>4. CASE ReadAdd
      <3>1. addtbl' = Append(addtbl, e.orig) /\ repltbl' = repltbl /\ e.does = "add"
        BY <1>3, <2>4 DEF ReadAdd, Asks
      <3>2. addtbl \in Seq(Forms)
        BY DEF StepInv, AskedInv
      <3>3. ASSUME NEW k \in DOMAIN addtbl'
            PROVE  \E j \in 1..i : repairs[j].does = "add" /\ repairs[j].orig = addtbl'[k]
        <4>1. CASE k \in DOMAIN addtbl
          <5>1. addtbl'[k] = addtbl[k]
            BY <3>1, <3>2, <4>1
          <5> QED BY <2>1, <4>1, <5>1
        <4>2. CASE k \notin DOMAIN addtbl
          <5>1. addtbl'[k] = e.orig
            BY <3>1, <3>2, <3>3, <4>2
          <5> QED BY <1>4, <2>2, <3>1, <5>1
        <4> QED BY <4>1, <4>2
      <3> QED BY <1>4, <2>1, <3>1, <3>3
    <2>5. CASE ReadOk \/ ReadMulti \/ ReadAbv \/ ReadEnc
      <3>1. repltbl' = repltbl /\ addtbl' = addtbl /\ e.does # "replace"
        BY <1>3, <2>5 DEF ReadOk, ReadMulti, ReadAbv, ReadEnc, Asks, lists
      <3> QED BY <1>4, <2>1, <3>1
    <2> QED BY <2>3, <2>4, <2>5 DEF ReadEntry
  <1>10. LinesRead'
    BY <1>2, <1>5, <1>9 DEF LinesRead
  <1>11. LoopsAhead'
    BY <1>1, <1>9 DEF LoopsAhead
  <1>12. Corrected(keytbl', Gone', There')
    <2>1. CASE ReadReplace \/ ReadOk
      <3>1. UNCHANGED <<keytbl, addtbl>> /\ e.does \in {"replace", "ok"}
        BY <1>3, <2>1 DEF ReadReplace, ReadOk, Asks, tables
      <3>2. AtOnce' = AtOnce /\ ToAdd' = ToAdd
        BY <1>4, <1>6, <3>1
      <3>3. Gone' = Gone /\ There' = There
        BY <1>7, <3>1, <3>2 DEF There
      <3> QED BY <1>2, <3>1, <3>3
    <2>2. CASE ReadAdd
      <3>1. keytbl' = keytbl /\ addtbl' = Append(addtbl, e.orig) /\ e.does = "add"
        BY <1>3, <2>2 DEF ReadAdd, Asks, tables
      <3>2. AtOnce' = AtOnce /\ ToAdd' = ToAdd \cup {e.orig}
        BY <1>4, <1>6, <3>1
      <3>3. Range(addtbl') = Range(addtbl) \cup {e.orig}
        <4>1. PICK a, b, o : a = addtbl /\ b = addtbl' /\ o = e.orig
          OBVIOUS
        <4>2. a \in Seq(Forms) /\ b = Append(a, o)
          BY <3>1, <4>1 DEF StepInv, AskedInv
        <4>3. /\ DOMAIN b = DOMAIN a \cup {Len(a) + 1} /\ b[Len(a) + 1] = o
              /\ \A k \in DOMAIN a : b[k] = a[k]
          BY <4>2
        <4>4. Range(b) = Range(a) \cup {o}
          BY <4>3 DEF Range
        <4> QED BY <4>1, <4>4
      <3>4. There' \subseteq There
        BY <3>2, <3>3 DEF There
      <3>5. PICK K, gone, there, S : K = keytbl /\ gone = Gone /\ there = There /\ S = There'
        OBVIOUS
      <3>6. Corrected(K, gone, S)
        BY <1>2, <3>4, <3>5, FewerThere
      <3> QED BY <1>7, <3>1, <3>2, <3>5, <3>6
    <2>3. CASE ReadMulti \/ ReadAbv \/ ReadEnc
      <3>1. /\ addtbl' = addtbl /\ e.does \in {"multi", "abv", "enc"}
            /\ \E x \in BOOLEAN : ReplaceWord(e.orig, e.repl, x)
        BY <1>3, <2>3 DEF ReadMulti, ReadAbv, ReadEnc, Asks, lists
      <3>2. AtOnce' = AtOnce \cup {e.orig} /\ ToAdd' = ToAdd
        BY <1>4, <1>6, <3>1
      <3>3. Gone' = Gone \cup {e.orig} /\ There' = There
        BY <1>7, <3>1, <3>2 DEF There
      <3>4. \A w \in Gone : \E j \in DOMAIN repairs :
               j # i /\ repairs[j].does \in Corrects /\ repairs[j].orig = w
        <4>1. SUFFICES ASSUME NEW w \in AtOnce
                       PROVE  \E j \in DOMAIN repairs :
                                 j # i /\ repairs[j].does \in Corrects /\ repairs[j].orig = w
          BY <1>7
        <4>2. PICK j \in 1..ReadSoFar :
                 repairs[j].does \in {"multi", "abv", "enc"} /\ repairs[j].orig = w
          BY <1>2, GoneRead
        <4>3. j \in DOMAIN repairs /\ j # i
          BY <1>2, <1>3, NextLine
        <4> QED BY <4>2, <4>3 DEF Corrects
      <3>5. PICK x \in BOOLEAN : ReplaceWord(repairs[i].orig, repairs[i].repl, x)
        BY <1>4, <3>1
      <3>6. repairs[i].does \in Corrects
        BY <1>4, <3>1 DEF Corrects
      <3>7. Corrected(keytbl', Gone \cup {repairs[i].orig}, There)
        BY <1>1, <1>2, <1>4, <3>4, <3>5, <3>6, LineCarriedOut
      <3> QED BY <1>4, <3>3, <3>7
    <2> QED BY <2>1, <2>2, <2>3 DEF ReadEntry
  <1> QED BY <1>1, <1>2, <1>8, <1>10, <1>11, <1>12 DEF RepairsInv, LinesRead

\* What has been read stays so.
LEMMA SameLines ==
    ASSUME UNCHANGED <<repairs, entries>>
    PROVE  /\ ReadSoFar' = ReadSoFar /\ AtOnce' = AtOnce /\ ToAdd' = ToAdd
           /\ addtbl' = addtbl => There' = There
           /\ LinesRead /\ UNCHANGED <<addtbl, repltbl>> => LinesRead'
  <1>1. ReadSoFar' = ReadSoFar
    BY DEF ReadSoFar
  <1>2. AtOnce' = AtOnce /\ ToAdd' = ToAdd
    BY <1>1 DEF AtOnce, ToAdd
  <1>3. addtbl' = addtbl => There' = There
    BY <1>2 DEF There
  <1>4. LinesRead /\ UNCHANGED <<addtbl, repltbl>> => LinesRead'
    BY <1>1 DEF LinesRead
  <1> QED BY <1>1, <1>2, <1>3, <1>4

\* The rest of a list in which nothing is twice.
LEMMA Rest ==
    ASSUME NEW S, NEW s \in Seq(S), s # << >>
    PROVE  /\ Head(s) \in Range(s) /\ Head(s) \in S /\ Tail(s) \in Seq(S)
           /\ Range(s) = Range(Tail(s)) \cup {Head(s)}
           /\ IsInjective(s) => IsInjective(Tail(s)) /\ Head(s) \notin Range(Tail(s))
  <1>1. PICK t, n : t = Tail(s) /\ n = Len(s)
    OBVIOUS
  <1>2. /\ n \in Nat \ {0} /\ DOMAIN s = 1..n /\ Head(s) = s[1] /\ s[1] \in S
        /\ t \in Seq(S) /\ DOMAIN t = 1..(n - 1)
        /\ \A i \in 1..(n - 1) : t[i] = s[i + 1]
    BY <1>1
  <1>3. ASSUME NEW x PROVE x \in Range(s) <=> x \in Range(t) \cup {s[1]}
    <2>1. ASSUME x \in Range(s) PROVE x \in Range(t) \cup {s[1]}
      <3>1. PICK i \in 1..n : s[i] = x
        BY <1>2, <2>1 DEF Range
      <3>2. CASE i = 1
        BY <3>1, <3>2
      <3>3. CASE i # 1
        <4>1. i - 1 \in DOMAIN t /\ t[i - 1] = s[(i - 1) + 1] /\ (i - 1) + 1 = i
          BY <1>2, <3>1, <3>3
        <4> QED BY <3>1, <4>1 DEF Range
      <3> QED BY <3>2, <3>3
    <2>2. ASSUME x \in Range(t) \cup {s[1]} PROVE x \in Range(s)
      <3>1. CASE x = s[1]
        BY <1>2, <3>1 DEF Range
      <3>2. CASE x \in Range(t)
        <4>1. PICK i \in 1..(n - 1) : t[i] = x
          BY <1>2, <3>2 DEF Range
        <4>2. i + 1 \in DOMAIN s /\ s[i + 1] = x
          BY <1>2, <4>1
        <4> QED BY <4>2 DEF Range
      <3> QED BY <2>2, <3>1, <3>2
    <2> QED BY <2>1, <2>2
  <1>4. ASSUME IsInjective(s) PROVE IsInjective(t) /\ s[1] \notin Range(t)
    <2>1. \A i, j \in 1..n : s[i] = s[j] => i = j
      BY <1>2, <1>4 DEF IsInjective
    <2>2. ASSUME NEW i \in DOMAIN t, NEW j \in DOMAIN t, t[i] = t[j] PROVE i = j
      <3>1. /\ i \in 1..(n - 1) /\ j \in 1..(n - 1)
            /\ i + 1 \in 1..n /\ j + 1 \in 1..n /\ s[i + 1] = s[j + 1]
        BY <1>2, <2>2
      <3>2. i + 1 = j + 1
        BY <2>1, <3>1
      <3> QED BY <3>1, <3>2
    <2>3. ASSUME s[1] \in Range(t) PROVE FALSE
      <3>1. PICK i \in 1..(n - 1) : t[i] = s[1]
        BY <1>2, <2>3 DEF Range
      <3>2. i + 1 \in 1..n /\ 1 \in 1..n /\ s[i + 1] = s[1]
        BY <1>2, <3>1
      <3>3. i + 1 = 1
        BY <2>1, <3>2
      <3> QED BY <3>1, <3>3
    <2> QED BY <2>2, <2>3 DEF IsInjective
  <1>5. s[1] \in Range(s)
    BY <1>2 DEF Range
  <1>6. Range(s) = Range(t) \cup {s[1]}
    BY <1>3
  <1> QED BY <1>1, <1>2, <1>4, <1>5, <1>6

\* Adding a form, where no correction has left a gap.
LEMMA AddCorrects ==
    ASSUME SeparateRepairs, StepInv, RepairsInv, AddWord, UNCHANGED <<repairs, backup, torn>>
    PROVE  RepairsInv'
  <1>1. /\ pc = "read" /\ pc' = "read" /\ entries = << >> /\ addtbl # << >>
        /\ Fits(keytbl, Head(addtbl)) /\ keytbl' = WithForm(keytbl, Head(addtbl))
        /\ addtbl' = Tail(addtbl)
        /\ UNCHANGED <<keyFile, entries, repltbl, order, todo, outcome>>
    BY DEF AddWord, Added, disk
  <1>2. LinesRead /\ LoopsAhead /\ Corrected(keytbl, Gone, There)
    BY <1>1 DEF RepairsInv
  <1>3. PICK a, b, w : a = addtbl /\ b = addtbl' /\ w = Head(addtbl)
    OBVIOUS
  <1>4. a \in Seq(Forms) /\ a # << >> /\ b = Tail(a) /\ w = Head(a)
    BY <1>1, <1>3 DEF StepInv, AskedInv
  <1>5. w \in Range(a) /\ w \in Forms /\ Range(a) = Range(b) \cup {w}
    BY <1>4, Rest
  <1>6. ReadSoFar' = ReadSoFar /\ AtOnce' = AtOnce /\ ToAdd' = ToAdd
    BY <1>1, SameLines
  <1>7. \A v \in Range(a) : \E i \in 1..ReadSoFar :
           repairs[i].does = "add" /\ repairs[i].orig = v
    BY <1>2, <1>3 DEF LinesRead, Range
  <1>8. LinesRead'
    <2>1. ASSUME NEW k \in DOMAIN b
          PROVE  \E i \in 1..ReadSoFar : repairs[i].does = "add" /\ repairs[i].orig = b[k]
      <3>1. b[k] \in Range(a)
        BY <1>5, <2>1 DEF Range
      <3> QED BY <1>7, <3>1
    <2> QED BY <1>1, <1>2, <1>3, <1>6, <2>1 DEF LinesRead
  <1>9. LoopsAhead'
    BY <1>1, <1>2 DEF LoopsAhead
  <1>10. FilesCorrected'
    BY <1>1, NotDone DEF RepairsInv, FilesCorrected
  <1>11. Gone = AtOnce /\ Gone' = Gone
    BY <1>1, <1>6 DEF Gone, InLoop
  <1>12. There' \subseteq There \cup {w}
    BY <1>3, <1>5, <1>6 DEF There
  <1>13. \A v \in Gone : PlainOf[v] # PlainOf[w]
    <2>1. SUFFICES ASSUME NEW v \in AtOnce PROVE PlainOf[v] # PlainOf[w]
      BY <1>11
    <2>2. PICK j \in 1..ReadSoFar :
             repairs[j].does \in {"multi", "abv", "enc"} /\ repairs[j].orig = v
      BY <1>2, GoneRead
    <2>3. PICK i \in 1..ReadSoFar : repairs[i].does = "add" /\ repairs[i].orig = w
      BY <1>5, <1>7
    <2>4. i \in DOMAIN repairs /\ j \in DOMAIN repairs /\ i # j
      BY <1>2, <2>2, <2>3, NextLine
    <2>5. repairs[j].does \in Corrects /\ repairs[i].does \in Corrects \cup {"add"}
      BY <2>2, <2>3 DEF Corrects
    <2>6. PlainOf[repairs[i].orig] # PlainOf[repairs[j].orig]
      BY <1>2, <2>4, <2>5, LinesApart
    <2> QED BY <2>2, <2>3, <2>6
  <1>14. Corrected(keytbl', Gone', There')
    <2>1. PICK K, L, gone, there, S : /\ K = keytbl /\ L = keytbl' /\ gone = Gone
                                      /\ there = There /\ S = There'
      OBVIOUS
    <2>2. GoodKey(K)
      BY <1>1, <2>1 DEF StepInv, MemoryInv, InMemory
    <2>3. /\ Corrected(K, gone, there) /\ \A v \in gone : PlainOf[v] # PlainOf[w]
          /\ Fits(K, w) /\ L = WithForm(K, w) /\ S \subseteq there \cup {w}
      BY <1>1, <1>2, <1>3, <1>12, <1>13, <2>1
    <2>4. Corrected(L, gone, there \cup {w})
      BY <1>5, <2>2, <2>3, PutIn
    <2>5. Corrected(L, gone, S)
      BY <2>3, <2>4, FewerThere
    <2> QED BY <1>11, <2>1, <2>5
  <1> QED BY <1>1, <1>8, <1>9, <1>10, <1>14 DEF RepairsInv, LinesRead

\* The corrections are listed, merged, recorded; no form is in two of them, and so
\* nothing is merged.
LEMMA LoopsCorrect ==
    ASSUME SeparateRepairs, StepInv, RepairsInv, StartMerge \/ MergeChain \/ NextLoop \/ RecordOne,
           UNCHANGED <<repairs, backup, torn>>
    PROVE  RepairsInv'
  <1>1. /\ pc \in {"read", "merge", "replace", "record"}
        /\ pc' \in {"merge", "replace", "record", "openKey"}
        /\ UNCHANGED <<keyFile, entries, keytbl, addtbl, outcome>>
    <2>1. CASE StartMerge
      BY <2>1 DEF StartMerge, disk, tables, lists
    <2>2. CASE MergeChain \/ RecordOne
      BY <2>2 DEF MergeChain, RecordOne, disk, tables
    <2>3. CASE NextLoop
      BY <2>3 DEF NextLoop, NextPhase, disk, tables, lists
    <2> QED BY <2>1, <2>2, <2>3
  <1>2. LinesRead /\ LoopsAhead /\ Corrected(keytbl, Gone, There)
    BY <1>1 DEF RepairsInv
  <1>3. entries = << >> /\ addtbl = << >>
    BY <1>1, <1>2 DEF LoopsAhead, StartMerge, MergeChain, NextLoop, RecordOne
  <1>4. repltbl' = repltbl
    <2>1. CASE MergeChain
      <3>1. PICK t, o : t = repltbl /\ o = Head(todo)
        OBVIOUS
      <3>2. ~Chained(t, o)
        <4>1. SUFFICES ASSUME o \in DOMAIN t, t[o] \in DOMAIN t PROVE FALSE
          BY DEF Chained
        <4>2. PICK i \in 1..ReadSoFar : /\ repairs[i].does = "replace" /\ repairs[i].orig = o
                                        /\ repairs[i].repl = t[o]
          BY <1>2, <3>1, <4>1 DEF LinesRead
        <4>3. PICK j \in 1..ReadSoFar : repairs[j].does = "replace" /\ repairs[j].orig = t[o]
          BY <1>2, <3>1, <4>1 DEF LinesRead
        <4>4. i \in DOMAIN repairs /\ j \in DOMAIN repairs
          BY <1>2, NextLine
        <4>5. CASE i = j
          BY <1>2, <4>2, <4>3, <4>4, <4>5, NoSelf
        <4>6. CASE i # j
          <5>1. repairs[i].does \in Corrects /\ repairs[j].does \in Corrects \cup {"add"}
            BY <4>2, <4>3 DEF Corrects
          <5>2. PlainOf[repairs[j].orig] # PlainOf[repairs[i].repl]
            BY <1>2, <4>4, <4>6, <5>1, LinesApart
          <5> QED BY <4>2, <4>3, <5>2
        <4> QED BY <4>5, <4>6
      <3> QED BY <2>1, <3>1, <3>2 DEF MergeChain
    <2>2. CASE StartMerge \/ NextLoop \/ RecordOne
      BY <2>2 DEF StartMerge, NextLoop, RecordOne, lists
    <2> QED BY <2>1, <2>2
  <1>5. AtOnce' = AtOnce /\ There' = There /\ LinesRead'
    BY <1>1, <1>2, <1>4, SameLines
  <1>6. FilesCorrected'
    BY <1>1, NotDone DEF RepairsInv, FilesCorrected
  <1>7. PICK D : D = DOMAIN repltbl
    OBVIOUS
  <1>8. IsFiniteSet(D) /\ DOMAIN repltbl' = D
    BY <1>2, <1>4, <1>7 DEF LoopsAhead
  <1>9. LoopsAhead' /\ InLoop' = InLoop
    <2>1. CASE StartMerge
      <3>1. PICK o \in Bijection(1..Cardinality(D), D) : order' = o /\ todo' = o
        BY <1>7, <2>1 DEF StartMerge
      <3>2. Cardinality(D) \in Nat
        BY <1>8, FS_CardinalityType
      <3>3. o \in [1..Cardinality(D) -> D] /\ IsInjective(o) /\ Range(o) = D
        BY DEF Bijection, Injection, Surjection, Range
      <3>4. o \in Seq(D)
        BY <3>2, <3>3
      <3>5. pc = "read" /\ pc' = "merge"
        BY <2>1 DEF StartMerge
      <3> QED BY <1>1, <1>3, <1>7, <1>8, <3>1, <3>3, <3>4, <3>5 DEF LoopsAhead, InLoop
    <2>2. CASE MergeChain \/ RecordOne
      <3>1. pc \in {"merge", "record"} /\ pc' = pc /\ todo # << >> /\ todo' = Tail(todo) /\ order' = order
        BY <2>2 DEF MergeChain, RecordOne
      <3>2. /\ order \in Seq(D) /\ Range(order) = D /\ IsInjective(order)
            /\ todo \in Seq(D) /\ IsInjective(todo)
        BY <1>2, <1>7, <3>1 DEF LoopsAhead
      <3>3. PICK s : s = todo
        OBVIOUS
      <3>4. Tail(s) \in Seq(D) /\ IsInjective(Tail(s))
        BY <3>1, <3>2, <3>3, Rest
      <3> QED BY <1>1, <1>3, <1>4, <1>7, <1>8, <3>1, <3>2, <3>3, <3>4 DEF LoopsAhead, InLoop
    <2>3. CASE NextLoop
      <3>1. /\ pc \in {"merge", "replace", "record"} /\ todo = << >> /\ order' = order
            /\ pc' = NextPhase(pc) /\ todo' = IF pc = "record" THEN << >> ELSE order
        BY <2>3 DEF NextLoop
      <3>2. order \in Seq(D) /\ Range(order) = D /\ IsInjective(order)
        BY <1>2, <1>7, <3>1 DEF LoopsAhead
      <3>3. CASE pc = "merge"
        BY <1>1, <1>3, <1>7, <1>8, <3>1, <3>2, <3>3 DEF LoopsAhead, InLoop, NextPhase
      <3>4. CASE pc = "replace"
        <4>1. Range(todo) = {}
          BY <3>1 DEF Range
        <4> QED BY <1>1, <1>3, <1>7, <1>8, <3>1, <3>2, <3>4, <4>1 DEF LoopsAhead, InLoop, NextPhase
      <3>5. CASE pc = "record"
        BY <1>1, <1>3, <1>7, <1>8, <3>1, <3>5 DEF LoopsAhead, InLoop, NextPhase
      <3> QED BY <3>1, <3>3, <3>4, <3>5
    <2> QED BY <2>1, <2>2, <2>3
  <1>10. Corrected(keytbl', Gone', There')
    BY <1>1, <1>2, <1>5, <1>9 DEF Gone
  <1> QED BY <1>1, <1>5, <1>6, <1>9, <1>10 DEF RepairsInv, LinesRead

\* A correction is carried out in the loop.
LEMMA LoopCorrects ==
    ASSUME SeparateRepairs, StepInv, RepairsInv, ReplaceOne, UNCHANGED <<repairs, backup, torn>>
    PROVE  RepairsInv'
  <1>1. /\ pc = "replace" /\ pc' = "replace" /\ todo # << >> /\ todo' = Tail(todo)
        /\ UNCHANGED <<keyFile, entries, repltbl, addtbl, order, outcome>>
    BY DEF ReplaceOne, disk, lists
  <1>2. LinesRead /\ LoopsAhead /\ Corrected(keytbl, Gone, There)
    BY <1>1 DEF RepairsInv
  <1>3. PICK s, D, o : s = todo /\ D = DOMAIN repltbl /\ o = Head(todo)
    OBVIOUS
  <1>4. s \in Seq(D) /\ IsInjective(s) /\ s # << >>
    BY <1>1, <1>2, <1>3 DEF LoopsAhead
  <1>5. /\ o \in D /\ Tail(s) \in Seq(D) /\ IsInjective(Tail(s))
        /\ Range(s) = Range(Tail(s)) \cup {o} /\ o \notin Range(Tail(s)) /\ o \in Range(s)
    BY <1>3, <1>4, Rest
  <1>6. AtOnce' = AtOnce /\ There' = There /\ LinesRead'
    BY <1>1, <1>2, SameLines
  <1>7. LoopsAhead'
    BY <1>1, <1>2, <1>3, <1>5 DEF LoopsAhead
  <1>8. FilesCorrected'
    BY <1>1, NotDone DEF RepairsInv, FilesCorrected
  <1>9. InLoop = D \ Range(s) /\ InLoop' = D \ Range(Tail(s))
    BY <1>1, <1>3 DEF InLoop
  <1>10. Gone' = Gone \cup {o}
    <2>1. InLoop' = InLoop \cup {o}
      BY <1>5, <1>9
    <2> QED BY <1>6, <2>1 DEF Gone
  <1>11. PICK i \in 1..ReadSoFar : /\ repairs[i].does = "replace" /\ repairs[i].orig = o
                                   /\ repairs[i].repl = repltbl[o]
    BY <1>2, <1>3, <1>5 DEF LinesRead
  <1>12. i \in DOMAIN repairs /\ repairs[i].does \in Corrects
    BY <1>2, <1>11, NextLine DEF Corrects
  <1>13. ReplaceWord(repairs[i].orig, repairs[i].repl, TRUE)
    <2>1. ReplaceWord(o, repltbl[o], TRUE)
      BY <1>3, <1>5 DEF ReplaceOne
    <2> QED BY <1>11, <2>1
  <1>14. \A w \in Gone : \E j \in DOMAIN repairs :
            j # i /\ repairs[j].does \in Corrects /\ repairs[j].orig = w
    <2>1. SUFFICES ASSUME NEW w \in Gone
                   PROVE  \E j \in DOMAIN repairs :
                             j # i /\ repairs[j].does \in Corrects /\ repairs[j].orig = w
      OBVIOUS
    <2>2. CASE w \in AtOnce
      <3>1. PICK j \in 1..ReadSoFar :
               repairs[j].does \in {"multi", "abv", "enc"} /\ repairs[j].orig = w
        BY <1>2, <2>2, GoneRead
      <3>2. j \in DOMAIN repairs /\ j # i
        BY <1>2, <1>11, <3>1, NextLine
      <3> QED BY <3>1, <3>2 DEF Corrects
    <2>3. CASE w \in InLoop
      <3>1. w \in D /\ w # o
        BY <1>5, <1>9, <2>3
      <3>2. PICK j \in 1..ReadSoFar : repairs[j].does = "replace" /\ repairs[j].orig = w
        BY <1>2, <1>3, <3>1 DEF LinesRead
      <3>3. j \in DOMAIN repairs /\ j # i
        BY <1>2, <1>11, <3>1, <3>2, NextLine
      <3> QED BY <3>2, <3>3 DEF Corrects
    <2> QED BY <2>1, <2>2, <2>3 DEF Gone
  <1>15. Corrected(keytbl', Gone \cup {repairs[i].orig}, There)
    BY <1>1, <1>2, <1>12, <1>13, <1>14, LineCarriedOut
  <1>16. Corrected(keytbl', Gone', There')
    BY <1>6, <1>10, <1>11, <1>15
  <1> QED BY <1>1, <1>6, <1>7, <1>8, <1>16 DEF RepairsInv, LinesRead

FormsOf(L) == {L[s].form : s \in DOMAIN L}

\* The file that is written has the forms of the key.
LEMMA LinesOf ==
    ASSUME NEW K, NEW I, NEW L, L = LinesFor(K, I)
    PROVE  FormsOf(L) = FormsIn(K) /\ (OncePerForm(K) => OncePerLine(L))
  <1>1. DOMAIN L = DOMAIN K
    BY DEF LinesFor
  <1>2. \A s \in DOMAIN K : L[s].form = K[s]
    <2>1. SUFFICES ASSUME NEW s \in DOMAIN K PROVE L[s].form = K[s]
      OBVIOUS
    <2>2. CASE K[s] \in DOMAIN I
      <3>1. L[s] = [form |-> K[s], freq |-> I[K[s]].freq, srcs |-> I[K[s]].srcs]
        BY <2>2 DEF LinesFor
      <3> QED BY <3>1
    <2>3. CASE K[s] \notin DOMAIN I
      <3>1. L[s] = [form |-> K[s], freq |-> 0, srcs |-> {}]
        BY <2>3 DEF LinesFor
      <3> QED BY <3>1
    <2> QED BY <2>2, <2>3
  <1> QED BY <1>1, <1>2 DEF FormsOf, FormsIn, OncePerForm, OncePerLine

\* The files are written.
LEMMA WriteCorrects ==
    ASSUME StepInv, RepairsInv, OpenKey \/ SaveKey \/ SaveText,
           UNCHANGED <<repairs, backup, torn>>
    PROVE  RepairsInv'
  <1>1. /\ pc \in {"openKey", "saveKey", "texts"} /\ pc' \in {"saveKey", "texts"}
        /\ UNCHANGED <<entries, keytbl, repltbl, addtbl, order, todo, outcome>>
    BY DEF OpenKey, SaveKey, SaveText, tables, lists
  <1>2. LinesRead /\ LoopsAhead /\ Corrected(keytbl, Gone, There)
    BY <1>1 DEF RepairsInv
  <1>3. AtOnce' = AtOnce /\ There' = There /\ LinesRead'
    BY <1>1, <1>2, SameLines
  <1>4. LoopsAhead'
    BY <1>1, <1>2 DEF LoopsAhead
  <1>5. InLoop' = InLoop
    BY <1>1 DEF InLoop
  <1>6. Corrected(keytbl', Gone', There')
    BY <1>1, <1>2, <1>3, <1>5 DEF Gone
  <1>7. OncePerLine(keyFile')
    <2>1. CASE OpenKey
      <3>1. keyFile' = EmptyTable
        BY <2>1 DEF OpenKey
      <3> QED BY <3>1, EmptyTables DEF OncePerLine
    <2>2. CASE SaveKey
      <3>1. PICK K, I, L : K = keytbl /\ I = info /\ L = keyFile'
        OBVIOUS
      <3>2. L = LinesFor(K, I)
        BY <2>2, <3>1 DEF SaveKey, SavedLines, LinesFor
      <3>3. OncePerForm(K)
        BY <1>2, <3>1 DEF Corrected
      <3>4. OncePerLine(L)
        BY <3>2, <3>3, LinesOf
      <3> QED BY <3>1, <3>4
    <2>3. CASE SaveText
      <3>1. keyFile' = keyFile
        BY <2>3 DEF SaveText
      <3> QED BY <3>1 DEF RepairsInv, FilesCorrected
    <2> QED BY <2>1, <2>2, <2>3
  <1>8. FilesCorrected'
    BY <1>1, <1>7, NotDone DEF RepairsInv, FilesCorrected
  <1> QED BY <1>1, <1>3, <1>4, <1>6, <1>8 DEF RepairsInv, LinesRead

\* A run is done: what was asked for is in the file.
LEMMA DoneCorrect ==
    ASSUME StepInv, RepairsInv, SaveHistory, UNCHANGED <<repairs, backup, torn>>
    PROVE  RepairsInv'
  <1>1. /\ pc = "texts" /\ pc' = "idle" /\ UNCHANGED keyFile
        /\ repltbl' = EmptyTable /\ addtbl' = << >>
    BY DEF SaveHistory, Ended
  <1>2. LinesRead /\ LoopsAhead /\ Corrected(keytbl, Gone, There)
    BY <1>1 DEF RepairsInv
  <1>3. entries = << >> /\ addtbl = << >>
    BY <1>1, <1>2 DEF LoopsAhead
  <1>4. ReadSoFar = Len(repairs) /\ DOMAIN repairs = 1..ReadSoFar
    <2>1. repairs \in Seq(Entry)
      BY DEF StepInv, AskedInv, GoodEntries
    <2> QED BY <1>3, <2>1 DEF ReadSoFar
  <1>5. FileForms = FormsIn(keytbl)
    <2>1. PICK K, I, L : K = keytbl /\ I = info /\ L = keyFile
      OBVIOUS
    <2>2. L = LinesFor(K, I)
      BY <1>1, <2>1 DEF StepInv, DiskInv
    <2>3. FormsOf(L) = FormsIn(K)
      BY <2>2, LinesOf
    <2> QED BY <2>1, <2>3 DEF FileForms, FormsOf
  <1>6. ASSUME NEW i \in DOMAIN repairs, repairs[i].does = "replace"
        PROVE  repairs[i].orig \notin FileForms
    <2>1. repairs[i].orig \in DOMAIN repltbl
      BY <1>2, <1>4, <1>6 DEF LinesRead
    <2>2. InLoop = DOMAIN repltbl
      BY <1>1 DEF InLoop
    <2>3. Gone \cap FormsIn(keytbl) = {}
      BY <1>2 DEF Corrected
    <2> QED BY <1>5, <2>1, <2>2, <2>3 DEF Gone
  <1>7. ASSUME NEW i \in DOMAIN repairs, repairs[i].does = "add"
        PROVE  repairs[i].orig \in FileForms
    <2>1. repairs[i].orig \in ToAdd
      BY <1>4, <1>7 DEF ToAdd
    <2>2. Range(addtbl) = {}
      BY <1>3 DEF Range
    <2>3. There \subseteq FormsIn(keytbl)
      BY <1>2 DEF Corrected
    <2> QED BY <1>5, <2>1, <2>2, <2>3 DEF There
  <1>8. FileForms' = FileForms
    BY <1>1 DEF FileForms
  <1>9. CorrectionsMade' /\ AddedKept'
    BY <1>6, <1>7, <1>8 DEF CorrectionsMade, AddedKept
  <1>10. FilesCorrected'
    BY <1>1, <1>9 DEF RepairsInv, FilesCorrected
  <1> QED BY <1>1, <1>10 DEF RepairsInv

\* A run fails or is stopped, and the user does this and that.
LEMMA BetweenCorrect ==
    ASSUME RepairsInv,
           \/ (ReadFails \/ ReplaceFails) /\ UNCHANGED <<repairs, backup, torn>>
           \/ Kill \/ EditRepairs \/ RemoveText \/ RestoreBackup
    PROVE  RepairsInv'
  <1>1. /\ pc' = "idle" /\ UNCHANGED backup
        /\ repltbl' = EmptyTable /\ addtbl' = << >>
    BY DEF ReadFails, ReplaceFails, Failed, Kill, Ended, EditRepairs, RemoveText, RestoreBackup,
           RepairsInv, lists
  <1>2. repairs' \in RepairFiles \cup {<< >>}
    BY DEF ReadFails, ReplaceFails, Kill, EditRepairs, RemoveText, RestoreBackup, RepairsInv
  <1>3. OncePerLine(keyFile) /\ OncePerLine(backup.key)
    BY DEF RepairsInv, FilesCorrected
  <1>4. FilesCorrected'
    <2>1. CASE RemoveText
      <3>1. UNCHANGED <<keyFile, repairs, outcome>>
        BY <2>1 DEF RemoveText
      <3>2. CorrectionsMade' /\ AddedKept'
        BY <3>1 DEF RepairsInv, FilesCorrected, CorrectionsMade, AddedKept, FileForms
      <3> QED BY <1>1, <1>3, <3>1, <3>2 DEF FilesCorrected
    <2>2. CASE RestoreBackup
      <3>1. keyFile' = backup.key /\ outcome' # "done"
        BY <2>2 DEF RestoreBackup
      <3> QED BY <1>1, <1>3, <3>1, NotDone
    <2>3. CASE \/ (ReadFails \/ ReplaceFails) /\ UNCHANGED <<repairs, backup, torn>>
               \/ Kill \/ EditRepairs
      <3>1. keyFile' = keyFile /\ outcome' # "done"
        BY <2>3 DEF ReadFails, ReplaceFails, Failed, Kill, Ended, EditRepairs, disk
      <3> QED BY <1>1, <1>3, <3>1, NotDone
    <2> QED BY <2>1, <2>2, <2>3
  <1> QED BY <1>1, <1>2, <1>4 DEF RepairsInv

\* Loading the key numbers it anew.
LEMMA StartCorrects ==
    ASSUME StepInv, RepairsInv, StartRepair PROVE RepairsInv'
  <1>1. /\ pc = "idle" /\ pc' = "read" /\ outcome' = "none"
        /\ backup'.key = keyFile /\ keytbl' = LoadedKey(keyFile) /\ entries' = repairs
        /\ UNCHANGED <<keyFile, repairs, repltbl, addtbl>>
    BY DEF StartRepair, disk
  <1>2. repairs \in Seq(Entry) /\ repairs \in RepairFiles \cup {<< >>}
    BY DEF StepInv, AskedInv, GoodEntries, RepairsInv
  <1>3. repltbl = EmptyTable /\ addtbl = << >>
    BY <1>1 DEF RepairsInv
  <1>4. ReadSoFar' = 0
    BY <1>1, <1>2 DEF ReadSoFar
  <1>5. DOMAIN repltbl' = {} /\ DOMAIN addtbl' = {} /\ Range(addtbl') = {}
    BY <1>1, <1>3, EmptyTables DEF Range
  <1>6. LinesRead'
    BY <1>1, <1>2, <1>4, <1>5 DEF LinesRead
  <1>7. LoopsAhead'
    BY <1>1, <1>5, FS_EmptySet DEF LoopsAhead
  <1>8. Gone' = {} /\ There' = {}
    <2>1. AtOnce' = {} /\ ToAdd' = {}
      BY <1>4 DEF AtOnce, ToAdd
    <2>2. InLoop' = {}
      BY <1>1 DEF InLoop
    <2> QED BY <2>1, <2>2 DEF Gone, There
  <1>9. Corrected(keytbl', Gone', There')
    <2>1. PICK K, L : K = keytbl' /\ L = keyFile
      OBVIOUS
    <2>2. GoodFile(L) /\ OncePerLine(L) /\ K = LoadedKey(L)
      BY <1>1, <2>1 DEF StepInv, DiskInv, OnDisk, RepairsInv, FilesCorrected
    <2>3. OncePerForm(K) /\ \A p : DenseAt(K, p)
      BY <2>2, LoadedDense
    <2>4. Corrected(K, {}, {})
      BY <2>3 DEF Corrected
    <2> QED BY <1>8, <2>1, <2>4
  <1>10. FilesCorrected'
    BY <1>1, NotDone DEF RepairsInv, FilesCorrected
  <1> QED BY <1>1, <1>2, <1>6, <1>7, <1>9, <1>10 DEF RepairsInv, LinesRead

\* A key without doubles at the beginning.
LEMMA StartsCorrect ==
    ASSUME SeparateRepairs, Init PROVE RepairsInv
  <1>1. /\ pc = "idle" /\ outcome = "none" /\ repairs = << >> /\ backup.key = keyFile
        /\ repltbl = EmptyTable /\ addtbl = << >>
        /\ keyFile = [s \in DOMAIN StartKey |-> LineOf(StartKey[s], texts)]
    BY DEF Init
  <1>2. OncePerLine(keyFile)
    <2>1. \A s \in DOMAIN StartKey : keyFile[s].form = StartKey[s]
      BY <1>1 DEF LineOf
    <2> QED BY <1>1, <2>1 DEF OncePerLine, SeparateRepairs, OncePerForm
  <1>3. FilesCorrected
    BY <1>1, <1>2 DEF FilesCorrected, CorrectionsMade, AddedKept
  <1> QED BY <1>1, <1>3 DEF RepairsInv

\* No step breaks it.
LEMMA NextCorrects ==
    ASSUME SeparateRepairs, StepInv, RepairsInv, [Next]_vars PROVE RepairsInv'
  <1>1. CASE StartRepair
    BY <1>1, StartCorrects
  <1>2. CASE RepairStep
    <2>1. UNCHANGED <<repairs, backup, torn>>
      BY <1>2 DEF RepairStep
    <2>2. CASE ReadEntry
      BY <2>1, <2>2, ReadCorrects
    <2>3. CASE AddWord
      BY <2>1, <2>3, AddCorrects
    <2>4. CASE StartMerge \/ MergeChain \/ NextLoop \/ RecordOne
      BY <2>1, <2>4, LoopsCorrect
    <2>5. CASE ReplaceOne
      BY <2>1, <2>5, LoopCorrects
    <2>6. CASE OpenKey \/ SaveKey \/ SaveText
      BY <2>1, <2>6, WriteCorrects
    <2>7. CASE SaveHistory
      BY <2>1, <2>7, DoneCorrect
    <2>8. CASE ReadFails \/ ReplaceFails
      BY <2>1, <2>8, BetweenCorrect
    <2> QED BY <1>2, <2>2, <2>3, <2>4, <2>5, <2>6, <2>7, <2>8 DEF RepairStep
  <1>3. CASE EditRepairs \/ RemoveText \/ RestoreBackup \/ Kill
    BY <1>3, BetweenCorrect
  <1>4. CASE UNCHANGED vars
    <2>1. UNCHANGED <<keyFile, repairs, backup, pc, entries, keytbl, repltbl, addtbl, order,
                      todo, outcome>>
      BY <1>4 DEF vars, disk, tables, lists
    <2>2. AtOnce' = AtOnce /\ There' = There /\ (LinesRead => LinesRead')
      BY <2>1, SameLines
    <2>3. Gone' = Gone
      BY <2>1, <2>2 DEF Gone, InLoop
    <2>4. LoopsAhead => LoopsAhead'
      BY <2>1 DEF LoopsAhead
    <2>5. FilesCorrected'
      BY <2>1 DEF RepairsInv, FilesCorrected, CorrectionsMade, AddedKept, FileForms
    <2> QED BY <2>1, <2>2, <2>3, <2>4, <2>5 DEF RepairsInv
  <1> QED BY <1>1, <1>2, <1>3, <1>4 DEF Next

\* It holds throughout, if no two lines are about the same words.
LEMMA RepairsInvHolds ==
    ASSUME SeparateRepairs PROVE Spec => [](StepInv /\ RepairsInv)
  <1>1. Init => RepairsInv
    BY StartsCorrect
  <1>2. StepInv /\ RepairsInv /\ [Next]_vars => RepairsInv'
    BY NextCorrects
  <1> QED BY <1>1, <1>2, StepInvHolds, PTL DEF Spec
----------------------------------------------------------------------------
(* The history. *)

ReplacedForms == {w \in Forms : \E f \in RepairFiles : \E i \in DOMAIN f :
                     f[i].does = "replace" /\ f[i].orig = w}

\* The user does not change his mind: what he has replaced once does not come back.
NeverBack ==
    \A f \in RepairFiles : \A i \in DOMAIN f :
       /\ f[i].does \in Corrects => f[i].repl \notin ReplacedForms
       /\ f[i].does = "add" => f[i].orig \notin ReplacedForms

Fields == {"abv", "enc", "auto", "ok"}

HistoryInv ==
    /\ DOMAIN hist = Fields /\ DOMAIN memory = Fields
    /\ DOMAIN hist.auto \subseteq ReplacedForms
    /\ DOMAIN hist.auto \cap FormsOf(keyFile) = {}
    /\ pc # "idle" =>
          /\ DOMAIN hist.auto \subseteq DOMAIN memory.auto
          /\ DOMAIN memory.auto \subseteq ReplacedForms
          /\ DOMAIN memory.auto \cap FormsIn(keytbl) = {}
    /\ pc # "idle" \/ outcome = "killed" => DOMAIN hist.auto \cap FormsOf(backup.key) = {}

\* A line brings no form into the key that has been replaced.
LEMMA NoneBack ==
    ASSUME NeverBack, StepInv, LinesRead, pc # "idle", NEW i \in DOMAIN repairs
    PROVE  /\ \A x \in BOOLEAN :
                 repairs[i].does \in Corrects /\ ReplaceWord(repairs[i].orig, repairs[i].repl, x) =>
                    FormsIn(keytbl') \cap ReplacedForms \subseteq FormsIn(keytbl)
           /\ repairs[i].does = "add" /\ Fits(keytbl, repairs[i].orig)
              /\ keytbl' = WithForm(keytbl, repairs[i].orig) =>
                    FormsIn(keytbl') \cap ReplacedForms \subseteq FormsIn(keytbl)
           /\ repairs[i].does = "replace" => repairs[i].orig \in ReplacedForms
  <1>1. PICK f, K, L, o, r : /\ f = repairs /\ K = keytbl /\ L = keytbl'
                             /\ o = repairs[i].orig /\ r = repairs[i].repl
    OBVIOUS
  <1>2. f \in RepairFiles /\ i \in DOMAIN f
    BY <1>1 DEF LinesRead
  <1>3. o \in Forms /\ r \in Forms
    <2>1. repairs[i] \in Entry
      BY DEF StepInv, AskedInv, GoodEntries
    <2> QED BY <1>1, <2>1 DEF Entry
  <1>4. GoodKey(K)
    BY <1>1 DEF StepInv, MemoryInv, InMemory
  <1>5. ASSUME NEW x \in BOOLEAN, f[i].does \in Corrects, ReplaceWord(o, r, x)
        PROVE  FormsIn(L) \cap ReplacedForms \subseteq FormsIn(K)
    <2>1. r \notin ReplacedForms
      BY <1>1, <1>2, <1>5 DEF NeverBack
    <2>2. CASE o \notin Parallels(K, PlainOf[o])
      <3>1. L = K
        BY <1>1, <1>5, <2>2 DEF ReplaceWord, tables
      <3> QED BY <3>1
    <2>3. CASE o \in Parallels(K, PlainOf[o])
      <3>1. Fits(K, r) /\ L = Rekeyed(K, o, r) /\ o # r
        BY <1>1, <1>5, <2>3 DEF ReplaceWord
      <3>2. FormsIn(L) \subseteq FormsIn(K) \cup {r}
        BY <1>3, <1>4, <2>3, <3>1, RekeyedKey
      <3> QED BY <2>1, <3>2
    <2> QED BY <2>2, <2>3
  <1>6. ASSUME f[i].does = "add", Fits(K, o), L = WithForm(K, o)
        PROVE  FormsIn(L) \cap ReplacedForms \subseteq FormsIn(K)
    <2>1. o \notin ReplacedForms
      BY <1>1, <1>2, <1>6 DEF NeverBack
    <2>2. \A s \in DOMAIN L : (s \in DOMAIN K /\ L[s] = K[s]) \/ L[s] = o
      BY <1>3, <1>4, <1>6, WithFormKey
    <2>3. FormsIn(L) \subseteq FormsIn(K) \cup {o}
      BY <2>2 DEF FormsIn
    <2> QED BY <2>1, <2>3
  <1>7. f[i].does = "replace" => o \in ReplacedForms
    BY <1>1, <1>2, <1>3 DEF ReplacedForms
  <1> QED BY <1>1, <1>5, <1>6, <1>7

\* Steps of a run before its end.
LEMMA HistoryWaits ==
    ASSUME HistoryInv, pc # "idle", pc' # "idle", UNCHANGED <<hist, backup>>,
           NEW m, m = memory', DOMAIN m = Fields, DOMAIN memory.auto \subseteq DOMAIN m.auto,
           DOMAIN m.auto \subseteq ReplacedForms, DOMAIN m.auto \cap FormsIn(keytbl') = {},
           DOMAIN hist.auto \cap FormsOf(keyFile') = {}
    PROVE  HistoryInv'
  <1>1. /\ DOMAIN hist = Fields /\ DOMAIN hist.auto \subseteq ReplacedForms
        /\ DOMAIN hist.auto \subseteq DOMAIN memory.auto
        /\ DOMAIN hist.auto \cap FormsOf(backup.key) = {}
    BY DEF HistoryInv
  <1>2. DOMAIN hist.auto \subseteq DOMAIN m.auto
    BY <1>1
  <1> QED BY <1>1, <1>2 DEF HistoryInv

\* Steps before the files are written, but for RecordOne.
LEMMA HistoryUntouched ==
    ASSUME HistoryInv, pc # "idle", pc' # "idle", UNCHANGED <<keyFile, hist, backup>>,
           NEW m, m = memory', DOMAIN m = Fields, m.auto = memory.auto,
           FormsIn(keytbl') \cap ReplacedForms \subseteq FormsIn(keytbl)
    PROVE  HistoryInv'
  <1>1. /\ DOMAIN memory.auto \subseteq ReplacedForms
        /\ DOMAIN memory.auto \cap FormsIn(keytbl) = {}
        /\ DOMAIN hist.auto \cap FormsOf(keyFile) = {}
    BY DEF HistoryInv
  <1>2. DOMAIN m.auto \cap FormsIn(keytbl') = {}
    BY <1>1
  <1>3. DOMAIN hist.auto \cap FormsOf(keyFile') = {}
    BY <1>1
  <1> QED BY <1>1, <1>2, <1>3, HistoryWaits

\* Reading a line brings back no form that has been replaced.
LEMMA ReadHistory ==
    ASSUME NeverBack, StepInv, RepairsInv, HistoryInv, ReadEntry,
           UNCHANGED <<repairs, backup, torn>>
    PROVE  HistoryInv'
  <1>1. /\ pc = "read" /\ pc' = "read" /\ entries # << >> /\ UNCHANGED <<keyFile, hist>>
    BY DEF ReadEntry, ReadReplace, ReadAdd, ReadOk, ReadMulti, ReadAbv, ReadEnc, Asks, disk
  <1>2. LinesRead
    BY <1>1 DEF RepairsInv
  <1>3. PICK i, e : i = ReadSoFar + 1 /\ e = Head(entries)
    OBVIOUS
  <1>4. i \in DOMAIN repairs /\ repairs[i] = e
    BY <1>1, <1>2, <1>3, NextLine
  <1>5. PICK m : m = memory'
    OBVIOUS
  <1>6. DOMAIN m = Fields /\ m.auto = memory.auto
    <2>1. DOMAIN memory = Fields
      BY DEF HistoryInv
    <2>2. CASE memory' = memory
      BY <1>5, <2>1, <2>2
    <2>3. CASE ReadOk \/ ReadAbv \/ ReadEnc
      <3>1. \/ m = [memory EXCEPT !.ok = @ \cup {e.orig}]
            \/ m = [memory EXCEPT !.abv = @ \cup {e.orig}]
            \/ m = [memory EXCEPT !.enc = @ \cup {e.orig}]
        BY <1>3, <1>5, <2>3 DEF ReadOk, ReadAbv, ReadEnc
      <3> QED BY <2>1, <3>1 DEF Fields
    <2> QED BY <2>2, <2>3 DEF ReadEntry, ReadReplace, ReadAdd, ReadMulti, lists
  <1>7. FormsIn(keytbl') \cap ReplacedForms \subseteq FormsIn(keytbl)
    <2>1. CASE ReadReplace \/ ReadAdd \/ ReadOk
      <3>1. keytbl' = keytbl
        BY <2>1 DEF ReadReplace, ReadAdd, ReadOk, tables
      <3> QED BY <3>1
    <2>2. CASE ReadMulti \/ ReadAbv \/ ReadEnc
      <3>1. /\ e.does \in {"multi", "abv", "enc"}
            /\ \E x \in BOOLEAN : ReplaceWord(e.orig, e.repl, x)
        BY <1>3, <2>2 DEF ReadMulti, ReadAbv, ReadEnc, Asks
      <3>2. e.does \in Corrects
        BY <3>1 DEF Corrects
      <3> QED BY <1>1, <1>2, <1>4, <3>1, <3>2, NoneBack
    <2> QED BY <2>1, <2>2 DEF ReadEntry
  <1> QED BY <1>1, <1>5, <1>6, <1>7, HistoryUntouched

\* Nor does adding a form.
LEMMA AddHistory ==
    ASSUME NeverBack, StepInv, RepairsInv, HistoryInv, AddWord, UNCHANGED <<repairs, backup, torn>>
    PROVE  HistoryInv'
  <1>1. /\ pc = "read" /\ pc' = "read" /\ addtbl # << >> /\ UNCHANGED <<keyFile, hist, memory>>
        /\ Fits(keytbl, Head(addtbl)) /\ keytbl' = WithForm(keytbl, Head(addtbl))
    BY DEF AddWord, Added, disk
  <1>2. LinesRead
    BY <1>1 DEF RepairsInv
  <1>3. 1 \in DOMAIN addtbl /\ Head(addtbl) = addtbl[1]
    BY <1>1 DEF StepInv, AskedInv
  <1>4. PICK i \in 1..ReadSoFar : repairs[i].does = "add" /\ repairs[i].orig = Head(addtbl)
    BY <1>2, <1>3 DEF LinesRead
  <1>5. i \in DOMAIN repairs
    BY <1>2, NextLine
  <1>6. Fits(keytbl, repairs[i].orig) /\ keytbl' = WithForm(keytbl, repairs[i].orig)
    BY <1>1, <1>4
  <1>7. FormsIn(keytbl') \cap ReplacedForms \subseteq FormsIn(keytbl)
    BY <1>1, <1>2, <1>4, <1>5, <1>6, NoneBack
  <1>8. DOMAIN memory = Fields
    BY DEF HistoryInv
  <1>9. PICK m : m = memory'
    OBVIOUS
  <1> QED BY <1>1, <1>7, <1>8, <1>9, HistoryUntouched

\* What is recorded has gone from the key.
LEMMA LoopHistory ==
    ASSUME NeverBack, StepInv, RepairsInv, HistoryInv,
           StartMerge \/ MergeChain \/ NextLoop \/ RecordOne \/ ReplaceOne,
           UNCHANGED <<repairs, backup, torn>>
    PROVE  HistoryInv'
  <1>1. pc # "idle" /\ pc' # "idle" /\ UNCHANGED <<keyFile, hist>>
    <2>1. CASE NextLoop
      BY <2>1 DEF NextLoop, NextPhase, disk
    <2>2. CASE StartMerge \/ MergeChain \/ RecordOne \/ ReplaceOne
      BY <2>2 DEF StartMerge, MergeChain, RecordOne, ReplaceOne, disk
    <2> QED BY <2>1, <2>2
  <1>2. LinesRead /\ LoopsAhead /\ Corrected(keytbl, Gone, There)
    BY <1>1 DEF RepairsInv
  <1>3. /\ DOMAIN memory = Fields
        /\ DOMAIN memory.auto \subseteq ReplacedForms
        /\ DOMAIN memory.auto \cap FormsIn(keytbl) = {}
        /\ DOMAIN hist.auto \cap FormsOf(keyFile) = {}
    BY <1>1 DEF HistoryInv
  <1>4. PICK m : m = memory'
    OBVIOUS
  <1>5. ASSUME pc \in {"replace", "record"}, todo # << >>
        PROVE  /\ Head(todo) \in DOMAIN repltbl
               /\ \E i \in 1..ReadSoFar : /\ repairs[i].does = "replace"
                                          /\ repairs[i].orig = Head(todo)
                                          /\ repairs[i].repl = repltbl[Head(todo)]
    <2>1. todo \in Seq(DOMAIN repltbl)
      BY <1>2, <1>5 DEF LoopsAhead
    <2>2. PICK s, D : s = todo /\ D = DOMAIN repltbl
      OBVIOUS
    <2>3. Head(s) \in D
      BY <1>5, <2>1, <2>2
    <2> QED BY <1>2, <2>2, <2>3 DEF LinesRead
  <1>6. CASE StartMerge \/ MergeChain \/ NextLoop
    <2>1. UNCHANGED <<keytbl, memory>>
      BY <1>6 DEF StartMerge, MergeChain, NextLoop, tables, lists
    <2> QED BY <1>1, <1>3, <1>4, <2>1, HistoryUntouched
  <1>7. CASE ReplaceOne
    <2>1. pc = "replace" /\ todo # << >> /\ memory' = memory
      BY <1>7 DEF ReplaceOne, lists
    <2>2. PICK i \in 1..ReadSoFar : /\ repairs[i].does = "replace"
                                    /\ repairs[i].orig = Head(todo)
                                    /\ repairs[i].repl = repltbl[Head(todo)]
      BY <1>5, <2>1
    <2>3. i \in DOMAIN repairs /\ repairs[i].does \in Corrects
      BY <1>2, <2>2, NextLine DEF Corrects
    <2>4. ReplaceWord(Head(todo), repltbl[Head(todo)], TRUE)
      BY <1>5, <1>7, <2>1 DEF ReplaceOne
    <2>5. ReplaceWord(repairs[i].orig, repairs[i].repl, TRUE)
      BY <2>2, <2>4
    <2>6. FormsIn(keytbl') \cap ReplacedForms \subseteq FormsIn(keytbl)
      BY <1>1, <1>2, <2>3, <2>5, NoneBack
    <2> QED BY <1>1, <1>3, <1>4, <2>1, <2>6, HistoryUntouched
  <1>8. CASE RecordOne
    <2>1. pc = "record" /\ todo # << >> /\ UNCHANGED keytbl
      BY <1>8 DEF RecordOne, tables
    <2>2. PICK o, r : o = Head(todo) /\ r = repltbl[o]
      OBVIOUS
    <2>3. PICK i \in 1..ReadSoFar : repairs[i].does = "replace" /\ repairs[i].orig = o
      BY <1>5, <2>1, <2>2
    <2>4. o \in DOMAIN repltbl
      BY <1>5, <2>1, <2>2
    <2>5. m = Recorded(memory, o, r)
      BY <1>4, <1>8, <2>2, <2>4 DEF RecordOne
    <2>6. m = [memory EXCEPT !.ok = (@ \ {o}) \cup {r}, !.auto = Store(@, o, r)]
      BY <2>5 DEF Recorded
    <2>7. DOMAIN m = Fields /\ m.auto = Store(memory.auto, o, r)
      BY <1>3, <2>6 DEF Fields
    <2>8. DOMAIN m.auto = DOMAIN memory.auto \cup {o}
      BY <2>7 DEF Store
    <2>9. o \in ReplacedForms
      <3>1. i \in DOMAIN repairs
        BY <1>2, NextLine
      <3> QED BY <1>1, <1>2, <2>3, <3>1, NoneBack
    <2>10. o \notin FormsIn(keytbl)
      <3>1. o \in Gone
        BY <2>1, <2>4 DEF Gone, InLoop
      <3> QED BY <1>2, <3>1 DEF Corrected
    <2>11. DOMAIN m.auto \cap FormsIn(keytbl') = {}
      BY <1>3, <2>1, <2>8, <2>10
    <2>12. DOMAIN m.auto \subseteq ReplacedForms
      BY <1>3, <2>8, <2>9
    <2>13. DOMAIN hist.auto \cap FormsOf(keyFile') = {}
      BY <1>1, <1>3
    <2> QED BY <1>1, <1>4, <2>7, <2>8, <2>11, <2>12, <2>13, HistoryWaits
  <1> QED BY <1>6, <1>7, <1>8

\* The files are written.
LEMMA WriteHistory ==
    ASSUME StepInv, HistoryInv, OpenKey \/ SaveKey \/ SaveText,
           UNCHANGED <<repairs, backup, torn>>
    PROVE  HistoryInv'
  <1>1. pc # "idle" /\ pc' # "idle" /\ UNCHANGED <<hist, keytbl, memory>>
    BY DEF OpenKey, SaveKey, SaveText, tables, lists
  <1>2. /\ DOMAIN memory = Fields
        /\ DOMAIN memory.auto \subseteq ReplacedForms
        /\ DOMAIN memory.auto \cap FormsIn(keytbl) = {}
        /\ DOMAIN hist.auto \subseteq DOMAIN memory.auto
        /\ DOMAIN hist.auto \cap FormsOf(keyFile) = {}
    BY <1>1 DEF HistoryInv
  <1>3. DOMAIN hist.auto \cap FormsOf(keyFile') = {}
    <2>1. CASE OpenKey
      <3>1. keyFile' = EmptyTable
        BY <2>1 DEF OpenKey
      <3>2. FormsOf(keyFile') = {}
        BY <3>1, EmptyTables DEF FormsOf
      <3> QED BY <3>2
    <2>2. CASE SaveKey
      <3>1. PICK K, I, L : K = keytbl /\ I = info /\ L = keyFile'
        OBVIOUS
      <3>2. L = LinesFor(K, I)
        BY <2>2, <3>1 DEF SaveKey, SavedLines, LinesFor
      <3>3. FormsOf(L) = FormsIn(K)
        BY <3>2, LinesOf
      <3> QED BY <1>2, <3>1, <3>3
    <2>3. CASE SaveText
      <3>1. keyFile' = keyFile
        BY <2>3 DEF SaveText
      <3> QED BY <1>2, <3>1
    <2> QED BY <2>1, <2>2, <2>3
  <1>4. PICK m : m = memory'
    OBVIOUS
  <1>5. DOMAIN m.auto \cap FormsIn(keytbl') = {}
    BY <1>1, <1>2, <1>4
  <1> QED BY <1>1, <1>2, <1>3, <1>4, <1>5, HistoryWaits

\* Steps after which no program runs.
LEMMA HistoryBetween ==
    ASSUME StepInv, HistoryInv,
           \/ (SaveHistory \/ ReadFails \/ ReplaceFails) /\ UNCHANGED <<repairs, backup, torn>>
           \/ Kill \/ EditRepairs \/ RemoveText \/ RestoreBackup
    PROVE  HistoryInv'
  <1>1. pc' = "idle" /\ backup' = backup
    BY DEF SaveHistory, ReadFails, ReplaceFails, Failed, Kill, Ended, EditRepairs, RemoveText,
           RestoreBackup
  <1>2. /\ DOMAIN hist = Fields /\ DOMAIN memory = Fields
        /\ DOMAIN hist.auto \subseteq ReplacedForms
        /\ DOMAIN hist.auto \cap FormsOf(keyFile) = {}
        /\ pc # "idle" =>
              /\ DOMAIN memory.auto \subseteq ReplacedForms
              /\ DOMAIN memory.auto \cap FormsIn(keytbl) = {}
        /\ pc # "idle" \/ outcome = "killed" => DOMAIN hist.auto \cap FormsOf(backup.key) = {}
    BY DEF HistoryInv
  <1>3. DOMAIN memory' = Fields
    <2>1. DOMAIN NoHist = Fields
      BY DEF NoHist, Fields
    <2>2. memory' = NoHist \/ memory' = memory
      BY DEF SaveHistory, ReadFails, ReplaceFails, Failed, Kill, Ended, EditRepairs, RemoveText,
             RestoreBackup, lists
    <2> QED BY <1>2, <2>1, <2>2
  <1>4. CASE SaveHistory
    <2>1. /\ pc = "texts" /\ hist' = memory /\ keyFile' = keyFile /\ outcome' = "done"
      BY <1>4 DEF SaveHistory, Ended
    <2>2. PICK K, I, L : K = keytbl /\ I = info /\ L = keyFile
      OBVIOUS
    <2>3. L = LinesFor(K, I)
      BY <2>1, <2>2 DEF StepInv, DiskInv
    <2>4. FormsOf(L) = FormsIn(K)
      BY <2>3, LinesOf
    <2>5. FormsOf(keyFile') = FormsIn(keytbl)
      BY <2>1, <2>2, <2>4
    <2>6. /\ DOMAIN hist' = Fields /\ DOMAIN (hist'.auto) \subseteq ReplacedForms
          /\ DOMAIN (hist'.auto) \cap FormsOf(keyFile') = {}
      BY <1>2, <2>1, <2>5
    <2> QED BY <1>1, <1>3, <2>1, <2>6 DEF HistoryInv
  <1>5. CASE ReadFails \/ ReplaceFails \/ Kill
    <2>1. hist' = hist /\ keyFile' = keyFile /\ pc # "idle"
      BY <1>5 DEF ReadFails, ReplaceFails, Failed, Kill, disk
    <2>2. DOMAIN hist.auto \cap FormsOf(keyFile') = {}
      BY <1>2, <2>1
    <2>3. DOMAIN hist.auto \cap FormsOf(backup.key) = {}
      BY <1>2, <2>1
    <2> QED BY <1>1, <1>2, <1>3, <2>1, <2>2, <2>3 DEF HistoryInv
  <1>6. CASE EditRepairs \/ RemoveText
    <2>1. /\ hist' = hist /\ keyFile' = keyFile
          /\ outcome' = "killed" => outcome = "killed"
      BY <1>6 DEF EditRepairs, RemoveText, disk
    <2>2. DOMAIN hist.auto \cap FormsOf(keyFile') = {}
      BY <1>2, <2>1
    <2> QED BY <1>1, <1>2, <1>3, <2>1, <2>2 DEF HistoryInv
  <1>7. CASE RestoreBackup
    <2>1. /\ hist' = hist /\ keyFile' = backup.key /\ outcome = "killed" /\ outcome' = "none"
      BY <1>7 DEF RestoreBackup
    <2>2. DOMAIN hist.auto \cap FormsOf(keyFile') = {}
      BY <1>2, <2>1
    <2> QED BY <1>1, <1>2, <1>3, <2>1, <2>2 DEF HistoryInv
  <1> QED BY <1>4, <1>5, <1>6, <1>7

\* The history is loaded as it is, and the backup is the key.
LEMMA StartHistory ==
    ASSUME StepInv, HistoryInv, StartRepair PROVE HistoryInv'
  <1>1. /\ pc' = "read" /\ hist' = hist /\ keyFile' = keyFile /\ backup'.key = keyFile
        /\ keytbl' = LoadedKey(keyFile) /\ memory' = LoadedHist
    BY DEF StartRepair, disk
  <1>2. /\ DOMAIN hist = Fields /\ DOMAIN hist.auto \subseteq ReplacedForms
        /\ DOMAIN hist.auto \cap FormsOf(keyFile) = {}
    BY DEF HistoryInv
  <1>3. PICK K, L, m : K = keytbl' /\ L = keyFile /\ m = memory'
    OBVIOUS
  <1>4. DOMAIN m = Fields /\ m.auto = hist.auto
    <2>1. m = [hist EXCEPT !.ok = @ \cup Range(hist.auto)]
      BY <1>1, <1>3 DEF LoadedHist
    <2> QED BY <1>2, <2>1 DEF Fields
  <1>5. FormsIn(K) = FormsOf(L)
    <2>1. GoodFile(L) /\ K = LoadedKey(L)
      BY <1>1, <1>3 DEF StepInv, DiskInv, OnDisk
    <2>2. FormsIn(K) = {L[s].form : s \in DOMAIN L}
      BY <2>1, KeyLoads
    <2> QED BY <2>2 DEF FormsOf
  <1>6. /\ DOMAIN m.auto \cap FormsIn(keytbl') = {}
        /\ DOMAIN hist.auto \cap FormsOf(keyFile') = {}
        /\ DOMAIN hist.auto \cap FormsOf(backup'.key) = {}
    BY <1>1, <1>2, <1>3, <1>4, <1>5
  <1> QED BY <1>1, <1>2, <1>3, <1>4, <1>6 DEF HistoryInv

\* There is no history at the beginning.
LEMMA FirstHistory ==
    Init => HistoryInv
  <1> SUFFICES ASSUME Init PROVE HistoryInv
    OBVIOUS
  <1>1. hist = NoHist /\ memory = NoHist /\ pc = "idle" /\ outcome = "none"
    BY DEF Init
  <1>2. DOMAIN NoHist = Fields /\ DOMAIN NoHist.auto = {}
    BY EmptyTables DEF NoHist, Fields
  <1> QED BY <1>1, <1>2 DEF HistoryInv

\* No step makes the history wrong.
LEMMA NextHistory ==
    ASSUME NeverBack, StepInv, RepairsInv, HistoryInv, [Next]_vars PROVE HistoryInv'
  <1>1. CASE StartRepair
    BY <1>1, StartHistory
  <1>2. CASE RepairStep
    <2>1. UNCHANGED <<repairs, backup, torn>>
      BY <1>2 DEF RepairStep
    <2>2. CASE ReadEntry
      BY <2>1, <2>2, ReadHistory
    <2>3. CASE AddWord
      BY <2>1, <2>3, AddHistory
    <2>4. CASE StartMerge \/ MergeChain \/ NextLoop \/ RecordOne \/ ReplaceOne
      BY <2>1, <2>4, LoopHistory
    <2>5. CASE OpenKey \/ SaveKey \/ SaveText
      BY <2>1, <2>5, WriteHistory
    <2>6. CASE SaveHistory \/ ReadFails \/ ReplaceFails
      BY <2>1, <2>6, HistoryBetween
    <2> QED BY <1>2, <2>2, <2>3, <2>4, <2>5, <2>6 DEF RepairStep
  <1>3. CASE EditRepairs \/ RemoveText \/ RestoreBackup \/ Kill
    BY <1>3, HistoryBetween
  <1>4. CASE UNCHANGED vars
    <2>1. UNCHANGED <<keyFile, hist, backup, pc, keytbl, memory, outcome>>
      BY <1>4 DEF vars, disk, tables, lists
    <2> QED BY <2>1 DEF HistoryInv
  <1> QED BY <1>1, <1>2, <1>3, <1>4 DEF Next
----------------------------------------------------------------------------
(* What the user is promised. *)

\* Corrections lose no occurrence and count none twice, whatever they are, in whatever
\* order pairs() takes them, and wherever a program is stopped.
THEOREM OccurrencesConserved ==
    Spec => []CountsConserved
  <1>1. StepInv => CountsConserved
    BY CountsRight
  <1> QED BY <1>1, StepInvHolds, PTL

\* When the texts get all corrections that the key gets, the frequencies and sources in
\* the key are those of the corrected texts.
THEOREM TextsStayInStep ==
    ASSUME PlainRepairs
    PROVE  Spec => []TextsAgree
  <1>1. StepInv => TextsAgree
    BY TextsRight
  <1> QED BY <1>1, StepInvHolds, PTL

\* If no two lines of _repairs.txt are about the same words, each form that a run was
\* asked to replace has gone from key.txt when it is done, wherever the forms are numbered.
THEOREM CorrectionsAreMade ==
    ASSUME SeparateRepairs
    PROVE  Spec => []CorrectionsMade
  <1>1. RepairsInv => CorrectionsMade
    BY DEF RepairsInv, FilesCorrected
  <1> QED BY <1>1, RepairsInvHolds, PTL

\* Under the same condition each form that a run was asked to add is in key.txt when it
\* is done, and no correction has taken it out again.
THEOREM AddedFormsStay ==
    ASSUME SeparateRepairs
    PROVE  Spec => []AddedKept
  <1>1. RepairsInv => AddedKept
    BY DEF RepairsInv, FilesCorrected
  <1> QED BY <1>1, RepairsInvHolds, PTL

\* Under this condition no form is ever in two lines of key.txt: what a stale parallel hides
\* from getpars is numbered anew before it can be stored again.
THEOREM FormsStayUnique ==
    ASSUME SeparateRepairs
    PROVE  Spec => []UniqueForms
  <1>1. RepairsInv => UniqueForms
    BY DEF RepairsInv, FilesCorrected, OncePerLine, UniqueForms
  <1> QED BY <1>1, RepairsInvHolds, PTL

\* If, in addition, no form comes back that has been replaced once, repair-replace.txt and
\* key.txt agree between runs: kills, failures and restored backups cannot bring back what
\* the history says has gone.
THEOREM HistoryStaysTrue ==
    ASSUME SeparateRepairs, NeverBack
    PROVE  Spec => []HistoryTrue
  <1>1. Init => HistoryInv
    BY FirstHistory
  <1>2. (StepInv /\ RepairsInv) /\ HistoryInv /\ [Next]_vars => HistoryInv'
    BY NextHistory
  <1>3. HistoryInv => HistoryTrue
    <2>1. FileForms = FormsOf(keyFile)
      BY DEF FileForms, FormsOf
    <2> QED BY <2>1 DEF HistoryInv, HistoryTrue
  <1> QED BY <1>1, <1>2, <1>3, RepairsInvHolds, PTL DEF Spec
============================================================================
