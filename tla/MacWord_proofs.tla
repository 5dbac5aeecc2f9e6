--------------------------- MODULE MacWord_proofs ---------------------------
(***************************************************************************)
(* Proofs about the variation loop of Macronize, for every key and list of  *)
(* affixes: what replaces a word spells it, the variations are tried in     *)
(* their order, and a guess outweighs the other forms together.             *)
(***************************************************************************)
EXTENDS MacWord, SequenceTheorems, NaturalsInduction, WellFoundedInduction, TLAPS

\* A non-empty set of numbers has a least one.
LEMMA LeastElement ==
    ASSUME NEW T, T \subseteq Nat, T # {}
    PROVE  \E n \in T : \A m \in T : n <= m
  <1>1. IsWellFoundedOn(OpToRel(<, Nat), Nat)
    BY NatLessThanWellFounded
  <1>2. PICK n \in T : \A m \in T : ~(<<m, n>> \in OpToRel(<, Nat))
    BY <1>1, WFMin, Zenon
  <1>3. ASSUME NEW m \in T PROVE n <= m
    <2>1. ~(m < n)
      BY <1>2 DEF OpToRel
    <2> QED BY <2>1
  <1> QED BY <1>3
----------------------------------------------------------------------------
\* Sequences: what is cut off one, and what fits to its ends.

LEMMA Cut ==
    ASSUME NEW s \in Plain, NEW m \in Int, NEW n \in Int, m >= 1, n <= Len(s)
    PROVE  /\ SubSeq(s, m, n) \in Plain
           /\ Len(SubSeq(s, m, n)) = IF m <= n THEN n - m + 1 ELSE 0
           /\ \A i \in 1..(n - m + 1) : SubSeq(s, m, n)[i] = s[m + i - 1]
  <1>1. \A i \in m..n : s[i] \in Parts
    BY DEF Plain
  <1> QED BY <1>1, SubSeqProperties DEF Plain

LEMMA EmptyIsPlain == << >> \in Plain /\ Len(<< >>) = 0
  BY DEF Plain

\* Nothing else is empty, and nothing of length 0 is known.
LEMMA NoLength ==
    ASSUME NEW s \in Plain, Len(s) = 0
    PROVE  s = << >>
  BY DEF Plain

LEMMA WithoutFits ==
    ASSUME NEW s \in Plain, NEW n \in Nat, n <= Len(s)
    PROVE  /\ Without(s, n) = SubSeq(s, 1, Len(s) - n)
           /\ Without(s, n) \in Plain
           /\ Len(Without(s, n)) = Len(s) - n
           /\ \A i \in 1..(Len(s) - n) : Without(s, n)[i] = s[i]
  <1>1. Len(s) \in Nat
    BY DEF Plain
  <1>2. Without(s, n) = SubSeq(s, 1, Len(s) - n)
    BY DEF Without
  <1>3. Len(s) - n \in Int /\ Len(s) - n <= Len(s) /\ Len(s) - n >= 0
    BY <1>1
  <1>4. /\ SubSeq(s, 1, Len(s) - n) \in Plain
        /\ Len(SubSeq(s, 1, Len(s) - n)) = IF 1 <= Len(s) - n THEN Len(s) - n - 1 + 1 ELSE 0
        /\ \A i \in 1..(Len(s) - n - 1 + 1) : SubSeq(s, 1, Len(s) - n)[i] = s[1 + i - 1]
    BY <1>3, Cut
  <1> QED BY <1>1, <1>2, <1>3, <1>4

\* Nothing cut off leaves the whole.
LEMMA WithoutNothing ==
    ASSUME NEW s \in Plain
    PROVE  Without(s, 0) = s
  <1>1. Len(s) \in Nat /\ s \in Seq(Parts)
    BY DEF Plain
  <1>2. SubSeq(s, 1, Len(s)) = s
    BY <1>1, SubSeqFull
  <1> QED BY <1>1, <1>2 DEF Without

\* A negative end counts from the back, and leaves no more than the whole.
LEMMA WithoutShort ==
    ASSUME NEW s \in Plain, NEW n \in Nat, n > Len(s), n <= 3
    PROVE  Without(s, n) = s \/ Without(s, n) = << >>
  <1>1. Len(s) \in Nat /\ s \in Seq(Parts)
    BY DEF Plain
  <1>2. Without(s, n) = SubSeq(s, 1, 2 * Len(s) - n + 1)
    BY <1>1 DEF Without
  <1>3. CASE 2 * Len(s) - n + 1 = Len(s)
    BY <1>1, <1>2, <1>3, SubSeqFull
  <1>4. CASE 2 * Len(s) - n + 1 # Len(s)
    <2>1. 2 * Len(s) - n + 1 < 1 /\ 2 * Len(s) - n + 1 \in Int
      BY <1>1, <1>4
    <2> QED BY <1>2, <2>1, SubSeqEmpty
  <1> QED BY <1>3, <1>4

LEMMA WithoutIsPlain ==
    ASSUME NEW s \in Plain, NEW n \in Nat
    PROVE  Without(s, n) \in Plain
  <1>1. Len(s) \in Nat
    BY DEF Plain
  <1>2. CASE n <= Len(s)
    BY <1>2, WithoutFits
  <1>3. CASE n > Len(s)
    <2>1. 2 * Len(s) - n + 1 \in Int /\ 2 * Len(s) - n + 1 <= Len(s)
      BY <1>1, <1>3
    <2>2. SubSeq(s, 1, 2 * Len(s) - n + 1) \in Plain
      BY <2>1, Cut
    <2> QED BY <1>1, <1>3, <2>2 DEF Without
  <1> QED BY <1>1, <1>2, <1>3

LEMMA SuffixFits ==
    ASSUME NEW s \in Plain, NEW t \in Plain, IsSuffix(s, t)
    PROVE  /\ Len(s) <= Len(t)
           /\ \A i \in 1..Len(s) : s[i] = t[Len(t) - Len(s) + i]
  <1>1. Len(s) \in Nat /\ Len(t) \in Nat
    BY DEF Plain
  <1>2. /\ Reverse(s) \in Plain /\ Len(Reverse(s)) = Len(s)
        /\ Reverse(t) \in Plain /\ Len(Reverse(t)) = Len(t)
    BY DEF Reverse, Plain
  <1>3. /\ Len(s) <= Len(t)
        /\ SubSeq(Reverse(s), 1, Len(s)) = SubSeq(Reverse(t), 1, Len(s))
    BY <1>2 DEF IsSuffix, IsPrefix
  <1>4. ASSUME NEW i \in 1..Len(s) PROVE s[i] = t[Len(t) - Len(s) + i]
    <2> DEFINE j == Len(s) - i + 1
    <2>1. j \in 1..Len(s) /\ Len(s) - j + 1 = i /\ Len(t) - j + 1 = Len(t) - Len(s) + i
      BY <1>1
    <2>2. /\ SubSeq(Reverse(s), 1, Len(s))[j] = Reverse(s)[j]
          /\ SubSeq(Reverse(t), 1, Len(s))[j] = Reverse(t)[j]
      <3>1. \A k \in 1..(Len(s) - 1 + 1) :
               /\ SubSeq(Reverse(s), 1, Len(s))[k] = Reverse(s)[1 + k - 1]
               /\ SubSeq(Reverse(t), 1, Len(s))[k] = Reverse(t)[1 + k - 1]
        BY <1>1, <1>2, <1>3, Cut
      <3> QED BY <1>1, <2>1, <3>1
    <2>3. Reverse(s)[j] = s[i] /\ Reverse(t)[j] = t[Len(t) - Len(s) + i]
      BY <1>1, <1>3, <2>1 DEF Reverse
    <2> QED BY <1>3, <2>2, <2>3
  <1> QED BY <1>3, <1>4

LEMMA PrefixFits ==
    ASSUME NEW s \in Plain, NEW t \in Plain, IsPrefix(s, t)
    PROVE  /\ Len(s) <= Len(t)
           /\ \A i \in 1..Len(s) : s[i] = t[i]
  <1>1. Len(s) \in Nat /\ Len(t) \in Nat
    BY DEF Plain
  <1>2. Len(s) <= Len(t) /\ SubSeq(s, 1, Len(s)) = SubSeq(t, 1, Len(s))
    BY DEF IsPrefix
  <1>3. \A k \in 1..(Len(s) - 1 + 1) :
           /\ SubSeq(s, 1, Len(s))[k] = s[1 + k - 1]
           /\ SubSeq(t, 1, Len(s))[k] = t[1 + k - 1]
    BY <1>1, <1>2, Cut
  <1>4. ASSUME NEW i \in 1..Len(s) PROVE s[i] = t[i]
    <2>1. i \in 1..(Len(s) - 1 + 1) /\ 1 + i - 1 = i
      BY <1>1
    <2> QED BY <1>2, <1>3, <2>1
  <1> QED BY <1>2, <1>4

\* Three pieces that lie one behind the other in w make up w.
LEMMA Rejoined ==
    ASSUME NEW w \in Plain, NEW p \in Plain, NEW m \in Plain, NEW e \in Plain,
           Len(p) + Len(m) + Len(e) = Len(w),
           \A i \in 1..Len(p) : p[i] = w[i],
           \A i \in 1..Len(m) : m[i] = w[Len(p) + i],
           \A i \in 1..Len(e) : e[i] = w[Len(p) + Len(m) + i]
    PROVE  p \o m \o e = w
  <1>1. /\ Len(p) \in Nat /\ Len(m) \in Nat /\ Len(e) \in Nat /\ Len(w) \in Nat
        /\ p \in Seq(Parts) /\ m \in Seq(Parts) /\ e \in Seq(Parts) /\ w \in Seq(Parts)
    BY DEF Plain
  <1>2. /\ p \o m \in Seq(Parts) /\ Len(p \o m) = Len(p) + Len(m)
        /\ \A i \in 1..(Len(p) + Len(m)) :
              (p \o m)[i] = IF i <= Len(p) THEN p[i] ELSE m[i - Len(p)]
    BY <1>1, ConcatProperties
  <1>3. /\ (p \o m) \o e \in Seq(Parts) /\ Len((p \o m) \o e) = Len(p) + Len(m) + Len(e)
        /\ \A i \in 1..(Len(p) + Len(m) + Len(e)) :
              ((p \o m) \o e)[i] = IF i <= Len(p) + Len(m) THEN (p \o m)[i]
                                   ELSE e[i - (Len(p) + Len(m))]
    BY <1>1, <1>2, ConcatProperties
  <1>4. ASSUME NEW i \in 1..Len(w) PROVE ((p \o m) \o e)[i] = w[i]
    <2>1. CASE i <= Len(p)
      <3>1. i \in 1..Len(p) /\ i \in 1..(Len(p) + Len(m)) /\ i \in 1..(Len(p) + Len(m) + Len(e))
            /\ i <= Len(p) + Len(m)
        BY <1>1, <2>1
      <3> QED BY <1>2, <1>3, <2>1, <3>1
    <2>2. CASE i > Len(p) /\ i <= Len(p) + Len(m)
      <3>1. /\ i - Len(p) \in 1..Len(m) /\ Len(p) + (i - Len(p)) = i /\ ~(i <= Len(p))
            /\ i \in 1..(Len(p) + Len(m)) /\ i \in 1..(Len(p) + Len(m) + Len(e))
        BY <1>1, <2>2
      <3>2. (p \o m)[i] = m[i - Len(p)]
        BY <1>2, <3>1
      <3>3. m[i - Len(p)] = w[Len(p) + (i - Len(p))]
        BY <3>1
      <3> QED BY <1>3, <2>2, <3>1, <3>2, <3>3
    <2>3. CASE i > Len(p) + Len(m)
      <3> DEFINE k == i - (Len(p) + Len(m))
      <3>1. /\ k \in 1..Len(e) /\ Len(p) + Len(m) + k = i
            /\ ~(i <= Len(p) + Len(m)) /\ i \in 1..(Len(p) + Len(m) + Len(e))
        BY <1>1, <2>3
      <3>2. ((p \o m) \o e)[i] = e[k]
        BY <1>3, <3>1
      <3>3. e[k] = w[Len(p) + Len(m) + k]
        BY <3>1
      <3> QED BY <3>1, <3>2, <3>3
    <2> QED BY <1>1, <2>1, <2>2, <2>3
  <1> QED BY <1>1, <1>3, <1>4, SeqEqual
----------------------------------------------------------------------------
\* Affixes that fit, and the variations without them.

LEMMA FittingFits ==
    ASSUME NEW w \in Plain, NEW e \in Fitting(w)
    PROVE  /\ e \in Enclitics \cup {<< >>} /\ e \in Plain
           /\ e # << >> => IsSuffix(e, w)
           /\ Len(e) \in Nat /\ Len(w) \in Nat /\ Len(e) <= Len(w)
           /\ \A i \in 1..Len(e) : e[i] = w[Len(w) - Len(e) + i]
  <1>1. e \in Enclitics \cup {<< >>} /\ (e # << >> => IsSuffix(e, w))
    BY DEF Fitting
  <1>2. e \in Plain
    BY <1>1, EmptyIsPlain, MacWordAssumption
  <1>3. Len(e) \in Nat /\ Len(w) \in Nat
    BY <1>2 DEF Plain
  <1>4. CASE e = << >>
    BY <1>1, <1>2, <1>3, <1>4, EmptyIsPlain
  <1>5. CASE e # << >>
    BY <1>1, <1>2, <1>3, <1>5, SuffixFits
  <1> QED BY <1>4, <1>5

LEMMA SomeFits ==
    ASSUME NEW w \in Plain
    PROVE  \E e \in Fitting(w) : TRUE
  BY DEF Fitting

LEMMA FirstPrefixFits ==
    ASSUME NEW w \in Plain
    PROVE  /\ FirstPrefix(w) \in ToSet(PrefixList) \cup {<< >>} /\ FirstPrefix(w) \in Plain
           /\ Len(FirstPrefix(w)) \in Nat /\ Len(FirstPrefix(w)) <= Len(w)
           /\ \A i \in 1..Len(FirstPrefix(w)) : FirstPrefix(w)[i] = w[i]
  <1> DEFINE fits == {i \in DOMAIN PrefixList : IsPrefix(PrefixList[i], w)}
  <1>1. CASE fits = {}
    <2>1. FirstPrefix(w) = << >>
      BY <1>1 DEF FirstPrefix
    <2>2. Len(w) \in Nat
      BY DEF Plain
    <2> QED BY <2>1, <2>2, EmptyIsPlain
  <1>2. CASE fits # {}
    <2>1. fits \subseteq Nat
      BY MacWordAssumption
    <2>2. \E n \in fits : \A m \in fits : n <= m
      BY <1>2, <2>1, LeastElement
    <2>3. Min(fits) \in fits
      BY <2>2 DEF Min
    <2>4. FirstPrefix(w) = PrefixList[Min(fits)]
      BY <1>2 DEF FirstPrefix
    <2> HIDE DEF fits
    <2>5. PICK i \in DOMAIN PrefixList : IsPrefix(PrefixList[i], w) /\ FirstPrefix(w) = PrefixList[i]
      BY <2>3, <2>4 DEF fits
    <2>6. PrefixList[i] \in Plain /\ PrefixList[i] \in ToSet(PrefixList)
      BY MacWordAssumption DEF ToSet
    <2>7. Len(PrefixList[i]) \in Nat
      BY <2>6 DEF Plain
    <2> QED BY <2>5, <2>6, <2>7, PrefixFits
  <1> QED BY <1>1, <1>2

\* What is cut off a word and what is left make up the word.
LEMMA VariationsSpell ==
    ASSUME NEW w \in Plain, NEW e \in Fitting(w)
    PROVE  LET v == Variations(w, e)
               p == FirstPrefix(w)
           IN  /\ v[1] = w
               /\ v[2] \o e = w
               /\ p \o v[3] = w
               /\ v[4] # << >> => (p \o v[4]) \o e = w
               /\ p = << >> => v[3] = w /\ v[4] = v[2]
               /\ \A i \in 1..4 : v[i] \in Plain
               /\ v[2] = Without(w, Len(e)) /\ v[3] = SubSeq(w, Len(p) + 1, Len(w))
               /\ DOMAIN v = 1..4
  <1> DEFINE v == Variations(w, e)
             p == FirstPrefix(w)
  <1>1. /\ e \in Plain /\ Len(e) \in Nat /\ Len(e) <= Len(w) /\ Len(w) \in Nat
        /\ \A i \in 1..Len(e) : e[i] = w[Len(w) - Len(e) + i]
    BY FittingFits
  <1>2. /\ p \in Plain /\ Len(p) \in Nat /\ Len(p) <= Len(w)
        /\ \A i \in 1..Len(p) : p[i] = w[i]
    BY FirstPrefixFits
  <1>3. /\ v[1] = w /\ v[2] = Without(w, Len(e))
        /\ v[3] = SubSeq(w, Len(p) + 1, Len(w))
        /\ v[4] = SubSeq(w, Len(p) + 1, Len(w) - Len(e))
        /\ DOMAIN v = 1..4
    BY DEF Variations
  <1> HIDE DEF v, p
  <1>4. /\ v[2] \in Plain /\ Len(v[2]) = Len(w) - Len(e)
        /\ v[2] = SubSeq(w, 1, Len(w) - Len(e))
        /\ \A i \in 1..(Len(w) - Len(e)) : v[2][i] = w[i]
    <2>1. /\ Without(w, Len(e)) = SubSeq(w, 1, Len(w) - Len(e))
          /\ Without(w, Len(e)) \in Plain
          /\ Len(Without(w, Len(e))) = Len(w) - Len(e)
          /\ \A i \in 1..(Len(w) - Len(e)) : Without(w, Len(e))[i] = w[i]
      BY <1>1, WithoutFits
    <2> QED BY <1>3, <2>1, Zenon
  <1>5. /\ v[3] \in Plain /\ Len(v[3]) = Len(w) - Len(p)
        /\ \A i \in 1..Len(v[3]) : v[3][i] = w[Len(p) + i]
    <2>1. /\ SubSeq(w, Len(p) + 1, Len(w)) \in Plain
          /\ Len(SubSeq(w, Len(p) + 1, Len(w))) =
                IF Len(p) + 1 <= Len(w) THEN Len(w) - (Len(p) + 1) + 1 ELSE 0
          /\ \A i \in 1..(Len(w) - (Len(p) + 1) + 1) :
                SubSeq(w, Len(p) + 1, Len(w))[i] = w[Len(p) + 1 + i - 1]
      BY <1>1, <1>2, Cut
    <2>2. \A i \in Int : Len(p) + 1 + i - 1 = Len(p) + i
      BY <1>2
    <2> QED BY <1>1, <1>2, <1>3, <2>1, <2>2
  <1>6. /\ v[4] \in Plain
        /\ Len(v[4]) = IF Len(p) + 1 <= Len(w) - Len(e) THEN Len(w) - Len(e) - Len(p) ELSE 0
        /\ \A i \in 1..Len(v[4]) : v[4][i] = w[Len(p) + i]
    <2>1. /\ SubSeq(w, Len(p) + 1, Len(w) - Len(e)) \in Plain
          /\ Len(SubSeq(w, Len(p) + 1, Len(w) - Len(e))) =
                IF Len(p) + 1 <= Len(w) - Len(e) THEN Len(w) - Len(e) - (Len(p) + 1) + 1 ELSE 0
          /\ \A i \in 1..(Len(w) - Len(e) - (Len(p) + 1) + 1) :
                SubSeq(w, Len(p) + 1, Len(w) - Len(e))[i] = w[Len(p) + 1 + i - 1]
      <3>1. Len(w) - Len(e) \in Int /\ Len(w) - Len(e) <= Len(w) /\ Len(p) + 1 \in Int /\ Len(p) + 1 >= 1
        BY <1>1, <1>2
      <3> QED BY <3>1, Cut
    <2>2. \A i \in Int : Len(p) + 1 + i - 1 = Len(p) + i
      BY <1>2
    <2>3. \A i \in 1..Len(v[4]) : i \in 1..(Len(w) - Len(e) - (Len(p) + 1) + 1)
      BY <1>1, <1>2, <1>3, <2>1
    <2> QED BY <1>1, <1>2, <1>3, <2>1, <2>2, <2>3
  <1>7. << >> \o v[2] \o e = w
    <2>1. PICK n \in Plain : n = << >> /\ Len(n) = 0
      BY EmptyIsPlain
    <2>2. Len(n) + Len(v[2]) + Len(e) = Len(w) /\ Len(n) + Len(v[2]) = Len(w) - Len(e)
      BY <1>1, <1>4, <2>1
    <2>3. \A i \in 1..Len(n) : n[i] = w[i]
      BY <2>1
    <2>4. \A i \in 1..Len(v[2]) : v[2][i] = w[Len(n) + i]
      BY <1>1, <1>4, <2>1
    <2>5. \A i \in 1..Len(e) : e[i] = w[Len(n) + Len(v[2]) + i]
      BY <1>1, <2>2, Zenon
    <2>6. n \o v[2] \o e = w
      BY <1>1, <1>4, <2>2, <2>3, <2>4, <2>5, Rejoined, Zenon
    <2> QED BY <2>1, <2>6
  <1>8. p \o v[3] \o << >> = w
    <2>1. PICK n \in Plain : n = << >> /\ Len(n) = 0
      BY EmptyIsPlain
    <2>2. Len(p) + Len(v[3]) + Len(n) = Len(w)
      BY <1>1, <1>2, <1>5, <2>1
    <2>3. \A i \in 1..Len(n) : n[i] = w[Len(p) + Len(v[3]) + i]
      BY <2>1
    <2>4. p \o v[3] \o n = w
      BY <1>2, <1>5, <2>2, <2>3, Rejoined, Zenon
    <2> QED BY <2>1, <2>4
  <1>9. ASSUME v[4] # << >> PROVE (p \o v[4]) \o e = w
    <2>1. Len(v[4]) # 0
      BY <1>6, <1>9, NoLength
    <2>2. Len(v[4]) = Len(w) - Len(e) - Len(p)
      BY <1>6, <2>1
    <2>3. Len(p) + Len(v[4]) + Len(e) = Len(w) /\ Len(p) + Len(v[4]) = Len(w) - Len(e)
      BY <1>1, <1>2, <2>2
    <2>4. \A i \in 1..Len(e) : e[i] = w[Len(p) + Len(v[4]) + i]
      BY <1>1, <2>3, Zenon
    <2> QED BY <1>1, <1>2, <1>6, <2>3, <2>4, Rejoined, Zenon
  <1>10. << >> \o v[2] = v[2] /\ (p \o v[3]) \o << >> = p \o v[3]
    <2>1. p \o v[3] \in Seq(Parts) /\ v[2] \in Seq(Parts)
      BY <1>2, <1>4, <1>5, ConcatProperties DEF Plain
    <2> QED BY <2>1, ConcatEmptySeq
  <1>11. ASSUME p = << >> PROVE v[3] = w /\ v[4] = v[2]
    <2>1. Len(p) + 1 = 1
      BY <1>11, EmptyIsPlain
    <2>2. SubSeq(w, 1, Len(w)) = w
      BY SubSeqFull DEF Plain
    <2> QED BY <1>3, <1>4, <2>1, <2>2
  <1>12. \A i \in 1..4 : v[i] \in Plain
    <2>1. \A i \in 1..4 : i = 1 \/ i = 2 \/ i = 3 \/ i = 4
      OBVIOUS
    <2> QED BY <1>3, <1>4, <1>5, <1>6, <2>1
  <1> QED BY <1>3, <1>7, <1>8, <1>9, <1>10, <1>11, <1>12 DEF v, p
----------------------------------------------------------------------------
\* Sums of sequences of numbers.

IsSum(f, u) == u = [n \in 0..Len(f) |-> IF n = 0 THEN 0 ELSE u[n - 1] + f[n]]

\* u sums the first n numbers of f, n <= Len(f).
SumsTo(f, u, n) ==
    /\ u \in [0..n -> Nat]
    /\ u[0] = 0
    /\ \A k \in 1..n : u[k] = u[k - 1] + f[k]

LEMMA SumExists ==
    ASSUME NEW f \in Seq(Nat)
    PROVE  \E u : IsSum(f, u)
  <1> DEFINE None == {n \in 0..Len(f) : ~ \E u : SumsTo(f, u, n)}
  <1>1. Len(f) \in Nat /\ \A n \in 1..Len(f) : f[n] \in Nat
    OBVIOUS
  <1>2. None = {}
    <2>1. SUFFICES ASSUME None # {} PROVE FALSE
      OBVIOUS
    <2>2. PICK n \in None : \A m \in None : n <= m
      <3>1. None \subseteq Nat
        OBVIOUS
      <3> HIDE DEF None
      <3> QED BY <2>1, <3>1, LeastElement
    <2>3. n \in 0..Len(f) /\ ~ \E u : SumsTo(f, u, n)
      BY <2>2
    <2>4. n # 0
      <3>1. SumsTo(f, [k \in {0} |-> 0], 0)
        BY DEF SumsTo
      <3> QED BY <2>3, <3>1
    <2>5. n - 1 \in 0..Len(f) /\ n - 1 \notin None
      <3>1. n - 1 \in 0..Len(f) /\ ~(n <= n - 1)
        BY <1>1, <2>3, <2>4
      <3> QED BY <2>2, <3>1, Zenon
    <2>6. PICK u : SumsTo(f, u, n - 1)
      BY <2>5
    <2> DEFINE g == [k \in 0..n |-> IF k = n THEN u[n - 1] + f[n] ELSE u[k]]
    <2>7. u[n - 1] \in Nat /\ f[n] \in Nat /\ n \in 1..Len(f)
      BY <1>1, <2>3, <2>4, <2>6 DEF SumsTo
    <2>8. g \in [0..n -> Nat]
      BY <2>3, <2>6, <2>7 DEF SumsTo
    <2>9. g[0] = 0
      BY <2>3, <2>4, <2>6 DEF SumsTo
    <2>10. ASSUME NEW k \in 1..n PROVE g[k] = g[k - 1] + f[k]
      <3>1. k - 1 \in 0..n /\ k - 1 # n
        BY <2>3
      <3>2. CASE k = n
        BY <2>3, <3>1, <3>2
      <3>3. CASE k # n
        <4>1. k \in 1..(n - 1)
          BY <2>3, <3>3
        <4>2. u[k] = u[k - 1] + f[k]
          BY <2>6, <4>1 DEF SumsTo
        <4> QED BY <2>3, <3>1, <3>3, <4>2
      <3> QED BY <3>2, <3>3
    <2>11. SumsTo(f, g, n)
      <3> HIDE DEF g
      <3> QED BY <2>8, <2>9, <2>10 DEF SumsTo
    <2> QED BY <2>3, <2>11
  <1>3. PICK u : SumsTo(f, u, Len(f))
    BY <1>1, <1>2
  <1>4. \A n \in 0..Len(f) : u[n] = IF n = 0 THEN 0 ELSE u[n - 1] + f[n]
    BY <1>1, <1>3 DEF SumsTo
  <1>5. u = [n \in 0..Len(f) |-> u[n]]
    BY <1>3 DEF SumsTo
  <1>6. IsSum(f, u)
    BY <1>4, <1>5, Zenon DEF IsSum
  <1> QED BY <1>6

LEMMA TotalIsSum ==
    ASSUME NEW f \in Seq(Nat)
    PROVE  \E u : /\ u[0] = 0 /\ \A n \in 1..Len(f) : u[n] = u[n - 1] + f[n]
                  /\ \A n \in 0..Len(f) : u[n] \in Nat
                  /\ Total(f) = u[Len(f)]
  <1>1. PICK u : IsSum(f, u) /\ Total(f) = u[Len(f)]
    BY SumExists DEF Total, IsSum
  <1>2. Len(f) \in Nat /\ \A n \in 1..Len(f) : f[n] \in Nat
    OBVIOUS
  <1>3. u[0] = 0 /\ \A n \in 1..Len(f) : u[n] = u[n - 1] + f[n]
    <2>1. \A n \in 0..Len(f) : u[n] = IF n = 0 THEN 0 ELSE u[n - 1] + f[n]
      BY <1>1, Zenon DEF IsSum
    <2>2. 0 \in 0..Len(f) /\ \A n \in 1..Len(f) : n \in 0..Len(f) /\ n # 0
      BY <1>2
    <2> QED BY <2>1, <2>2, Zenon
  <1> DEFINE Wrong == {n \in 0..Len(f) : u[n] \notin Nat}
  <1>4. Wrong = {}
    <2>1. SUFFICES ASSUME Wrong # {} PROVE FALSE
      OBVIOUS
    <2>2. PICK n \in Wrong : \A m \in Wrong : n <= m
      <3>1. Wrong \subseteq Nat
        OBVIOUS
      <3> HIDE DEF Wrong
      <3> QED BY <2>1, <3>1, LeastElement
    <2>3. n \in 1..Len(f) /\ n - 1 \in 0..Len(f) /\ n - 1 \notin Wrong
      BY <1>2, <1>3, <2>2
    <2>4. u[n - 1] \in Nat /\ f[n] \in Nat
      BY <1>2, <2>3
    <2> QED BY <1>3, <2>2, <2>3, <2>4
  <1> QED BY <1>1, <1>3, <1>4

\* One of them apart.
LEMMA TotalWithout ==
    ASSUME NEW f \in Seq(Nat), NEW i \in 1..Len(f)
    PROVE  /\ Total([f EXCEPT ![i] = 0]) \in Nat
           /\ Total(f) = Total([f EXCEPT ![i] = 0]) + f[i]
  <1> DEFINE g == [f EXCEPT ![i] = 0]
  <1>1. /\ Len(f) \in Nat /\ g \in Seq(Nat) /\ Len(g) = Len(f)
        /\ \A n \in 1..Len(f) : f[n] \in Nat /\ g[n] = IF n = i THEN 0 ELSE f[n]
    BY ExceptSeq
  <1> HIDE DEF g
  <1>2. PICK u : /\ u[0] = 0 /\ \A n \in 1..Len(f) : u[n] = u[n - 1] + f[n]
                 /\ \A n \in 0..Len(f) : u[n] \in Nat
                 /\ Total(f) = u[Len(f)]
    BY TotalIsSum
  <1>3. PICK v : /\ v[0] = 0 /\ \A n \in 1..Len(f) : v[n] = v[n - 1] + g[n]
                 /\ \A n \in 0..Len(f) : v[n] \in Nat
                 /\ Total(g) = v[Len(f)]
    BY <1>1, TotalIsSum
  <1> DEFINE Right(n) == /\ n < i => u[n] = v[n]
                         /\ n >= i => u[n] = v[n] + f[i]
             Wrong == {n \in 0..Len(f) : ~Right(n)}
  <1>4. Wrong = {}
    <2>1. SUFFICES ASSUME Wrong # {} PROVE FALSE
      OBVIOUS
    <2>2. PICK n \in Wrong : \A m \in Wrong : n <= m
      <3>1. Wrong \subseteq Nat
        OBVIOUS
      <3> HIDE DEF Wrong
      <3> QED BY <2>1, <3>1, LeastElement
    <2>3. n \in 0..Len(f) /\ ~Right(n)
      BY <2>2
    <2>4. n # 0
      BY <1>2, <1>3, <2>3
    <2>5. n \in 1..Len(f) /\ n - 1 \in 0..Len(f) /\ Right(n - 1)
      BY <1>1, <2>2, <2>3, <2>4
    <2>6. /\ u[n] = u[n - 1] + f[n] /\ v[n] = v[n - 1] + g[n]
          /\ u[n - 1] \in Nat /\ v[n - 1] \in Nat /\ f[n] \in Nat /\ f[i] \in Nat
      BY <1>1, <1>2, <1>3, <2>5
    <2>7. CASE n = i
      <3>1. g[n] = 0 /\ n - 1 < i
        BY <1>1, <2>5, <2>7
      <3> QED BY <2>3, <2>5, <2>6, <2>7, <3>1
    <2>8. CASE n < i
      <3>1. g[n] = f[n] /\ n - 1 < i
        BY <1>1, <2>5, <2>8
      <3> QED BY <2>3, <2>5, <2>6, <2>8, <3>1
    <2>9. CASE n > i
      <3>1. g[n] = f[n] /\ n - 1 >= i
        BY <1>1, <2>5, <2>9
      <3> QED BY <2>3, <2>5, <2>6, <2>9, <3>1
    <2> QED BY <2>5, <2>7, <2>8, <2>9
  <1>5. Len(f) \in 0..Len(f) /\ Len(f) >= i
    BY <1>1
  <1>6. Right(Len(f))
    BY <1>4, <1>5
  <1> QED BY <1>2, <1>3, <1>5, <1>6 DEF g

LEMMA GreaterOfTwo ==
    ASSUME NEW f \in Seq(Nat), NEW n \in 1..Len(f), n # 1,
           NEW i \in 1..(n - 1), \A j \in 1..(n - 1) : f[j] <= f[i]
    PROVE  \E k \in 1..n : \A j \in 1..n : f[j] <= f[k]
  <1>1. /\ \A j \in 1..n : f[j] \in Nat
        /\ i \in 1..n /\ n \in 1..n
        /\ \A j \in 1..n : j = n \/ j \in 1..(n - 1)
    <2>1. Len(f) \in Nat
      OBVIOUS
    <2>2. \A j \in 1..n : j \in 1..Len(f)
      BY <2>1
    <2> QED BY <2>1, <2>2
  <1>2. CASE f[n] <= f[i]
    BY <1>1, <1>2
  <1>3. CASE ~(f[n] <= f[i])
    <2>1. f[i] <= f[n] /\ f[n] <= f[n]
      BY <1>1, <1>3
    <2>2. ASSUME NEW j \in 1..n PROVE f[j] <= f[n]
      <3>1. CASE j = n
        BY <2>1, <3>1
      <3>2. CASE j \in 1..(n - 1)
        BY <1>1, <2>1, <3>2
      <3> QED BY <1>1, <3>1, <3>2
    <2> QED BY <1>1, <2>2
  <1> QED BY <1>2, <1>3

\* A non-empty sequence of numbers has a greatest one.
LEMMA MaxOfSeq ==
    ASSUME NEW f \in Seq(Nat), f # << >>
    PROVE  \E i \in DOMAIN f : Max(Range(f)) = f[i]
  <1> DEFINE Has(n) == \E i \in 1..n : \A j \in 1..n : f[j] <= f[i]
             Wrong == {n \in 1..Len(f) : ~Has(n)}
  <1>1. Len(f) \in Nat \ {0} /\ DOMAIN f = 1..Len(f) /\ \A n \in 1..Len(f) : f[n] \in Nat
    BY EmptySeq
  <1>2. Wrong = {}
    <2>1. SUFFICES ASSUME Wrong # {} PROVE FALSE
      OBVIOUS
    <2>2. PICK n \in Wrong : \A m \in Wrong : n <= m
      <3>1. Wrong \subseteq Nat
        OBVIOUS
      <3> HIDE DEF Wrong
      <3> QED BY <2>1, <3>1, LeastElement
    <2>3. n \in 1..Len(f) /\ ~Has(n)
      BY <2>2
    <2>4. n # 1
      BY <1>1, <2>3
    <2>5. n - 1 \in 1..Len(f) /\ Has(n - 1)
      <3>1. n - 1 \in 1..Len(f) /\ ~(n <= n - 1)
        BY <1>1, <2>3, <2>4
      <3>2. n - 1 \notin Wrong
        BY <2>2, <3>1, Zenon
      <3> QED BY <3>1, <3>2
    <2> QED BY <2>3, <2>4, <2>5, GreaterOfTwo
  <1>3. PICK i \in 1..Len(f) : \A j \in 1..Len(f) : f[j] <= f[i]
    <2>1. Len(f) \in 1..Len(f)
      BY <1>1
    <2> QED BY <1>2, <2>1
  <1>4. f[i] \in Range(f) /\ \A y \in Range(f) : f[i] >= y
    BY <1>1, <1>3 DEF Range
  <1>5. Max(Range(f)) \in Range(f)
    BY <1>4 DEF Max
  <1> QED BY <1>5 DEF Range
----------------------------------------------------------------------------
\* Types.

LEMMA WordTypes ==
    ASSUME TypeOK
    PROVE  /\ word.sure \in Plain /\ OnePeriod(word.sure)
           /\ word.doubts \in Seq(Plain)
           /\ \A n \in 1..Len(word.doubts) : word.doubts[n] \in Plain /\ OnePeriod(word.doubts[n])
           /\ Len(word.doubts) \in Nat
           /\ << >> \notin DOMAIN key
           /\ \A p \in DOMAIN key : key[p] \in Seq(Nat) /\ key[p] # << >>
  BY MacWordAssumption DEF TypeOK

\* What subword returns after its last word is nothing new.
LEMMA NothingNew ==
    ASSUME TypeOK, IsNew(subs + 1)
    PROVE  subs + 1 \in 1..Len(word.doubts)
  <1>1. subs \in 0..Len(word.doubts) /\ Len(word.doubts) \in Nat /\ word.doubts \in Seq(Plain)
    BY WordTypes DEF TypeOK
  <1>2. CASE subs = Len(word.doubts)
    <2>1. CASE word.doubts = << >>
      <3>1. subs + 1 # 0 /\ ~(subs + 1 <= Len(word.doubts))
        BY <1>1, <1>2
      <3>2. Doubtful(subs + 1) = word.sure
        BY <2>1, <3>1 DEF Doubtful
      <3> QED BY <3>2 DEF IsNew
    <2>2. CASE word.doubts # << >>
      <3>1. /\ subs # 0 /\ subs <= Len(word.doubts) /\ subs + 1 - 1 = subs /\ subs + 1 # 1
            /\ subs + 1 # 0 /\ ~(subs + 1 <= Len(word.doubts))
        BY <1>1, <1>2, <2>2, EmptySeq
      <3>2. Doubtful(subs + 1) = word.doubts[Len(word.doubts)]
        BY <2>2, <3>1 DEF Doubtful, Last
      <3>3. Doubtful(subs) = word.doubts[subs]
        BY <3>1 DEF Doubtful
      <3> QED BY <1>2, <3>1, <3>2, <3>3 DEF IsNew
    <2> QED BY <2>1, <2>2
  <1> QED BY <1>1, <1>2

LEMMA DoubtfulIs ==
    ASSUME TypeOK, NEW n \in 1..Len(word.doubts)
    PROVE  Doubtful(n) = word.doubts[n] /\ Doubtful(n) \in Plain
  <1>1. n # 0 /\ n <= Len(word.doubts)
    BY WordTypes
  <1> QED BY <1>1, WordTypes DEF Doubtful

LEMMA TypeInit == Init => TypeOK
  <1> SUFFICES ASSUME Init PROVE TypeOK
    OBVIOUS
  <1>1. word.sure \in Plain /\ Len(word.doubts) \in Nat
    BY MacWordAssumption DEF Init
  <1>2. \A b \in {triedenclitics, triedprefixes, triedencliticstwice, periodremoved} : b = FALSE
    BY Zenon DEF Init
  <1>3. subs \in 0..Len(word.doubts)
    BY <1>1 DEF Init
  <1> QED BY <1>1, <1>2, <1>3 DEF Init, TypeOK

LEMMA TypeNext == TypeOK /\ [Next]_vars => TypeOK'
  <1> SUFFICES ASSUME TypeOK, [Next]_vars PROVE TypeOK'
    OBVIOUS
  <1>1. CASE Apply
    BY <1>1 DEF Apply, TypeOK, input, base, affixes, tried
  <1>2. CASE TryEnclitic
    <2>1. PICK e \in Fitting(plainwtry) : enclitic' = e /\ plainwtry' = Without(plainwtry, Len(e))
      BY <1>2 DEF TryEnclitic
    <2>2. plainwtry \in Plain
      BY DEF TypeOK
    <2>3. e \in Enclitics \cup {<< >>} /\ Len(e) \in Nat
      BY <2>2, FittingFits
    <2>4. plainwtry' \in Plain
      BY <2>1, <2>2, <2>3, WithoutIsPlain
    <2> QED BY <1>2, <2>1, <2>3, <2>4 DEF TryEnclitic, Miss, TypeOK, input, base
  <1>3. CASE TryBoth
    <2>1. plainwtry \in Plain /\ enclitic \in Plain
      BY EmptyIsPlain, MacWordAssumption DEF TypeOK
    <2>2. Len(enclitic) \in Nat
      BY <2>1 DEF Plain
    <2>3. Without(plainwtry, Len(enclitic)) \in Plain
      BY <2>1, <2>2, WithoutIsPlain
    <2> QED BY <1>3, <2>3 DEF TryBoth, Miss, TypeOK, input, base, affixes
  <1>4. CASE TryPrefix
    <2>1. plainw \in Plain /\ plainwtry \in Plain
      BY DEF TypeOK
    <2>2. /\ FirstPrefix(plainw) \in ToSet(PrefixList) \cup {<< >>}
          /\ Len(FirstPrefix(plainw)) \in Nat
      BY <2>1, FirstPrefixFits
    <2>3. SubSeq(plainw, Len(FirstPrefix(plainw)) + 1, Len(plainw)) \in Plain
      <3>1. Len(plainw) \in Nat
        BY <2>1 DEF Plain
      <3> QED BY <2>1, <2>2, <3>1, Cut
    <2> QED BY <1>4, <2>1, <2>2, <2>3 DEF TryPrefix, Whole, Miss, TypeOK, input, base
  <1>5. CASE TryEncliticsAgain
    BY <1>5 DEF TryEncliticsAgain, AllTried, Miss, Twice, TypeOK, input, base, affixes
  <1>6. CASE RemovePeriod
    <2>1. Without(plainw, 1) \in Plain
      BY WithoutIsPlain DEF TypeOK
    <2> QED BY <1>6, <2>1 DEF RemovePeriod, Restart, NoAffixes, AllTried, Miss, TypeOK, input
  <1>7. CASE TryDoubtful
    <2>1. subs + 1 \in 1..Len(word.doubts)
      BY <1>7, NothingNew DEF TryDoubtful
    <2>2. Doubtful(subs + 1) \in Plain /\ subs + 1 \in 0..Len(word.doubts)
      BY <2>1, DoubtfulIs
    <2> QED BY <1>7, <2>2 DEF TryDoubtful, Restart, NoAffixes, AllTried, Miss, TypeOK, input
  <1>8. CASE NotFound
    BY <1>8 DEF NotFound, TypeOK, input, affixes, tried
  <1>9. CASE UNCHANGED vars
    BY <1>9 DEF TypeOK, vars, input, base, affixes, tried
  <1> QED BY <1>1, <1>2, <1>3, <1>4, <1>5, <1>6, <1>7, <1>8, <1>9 DEF Next
----------------------------------------------------------------------------
\* Guesses.

LEMMA FoundInit == Init => Found
  BY DEF Init, Found, found

\* Only Apply finds a word; nothing happens after it.
LEMMA FoundNext == Found /\ [Next]_vars => Found'
  <1> SUFFICES ASSUME Found, [Next]_vars PROVE Found'
    OBVIOUS
  <1>1. CASE Apply
    <2>1. Known' /\ (Likely => Likely')
      BY <1>1 DEF Apply, Known, Likely, TopFreq, Freqs, input
    <2> QED BY <1>1, <2>1 DEF Apply, Found, found
  <1>2. CASE result' = "none" \/ result' = "notfound"
    BY <1>2 DEF Found, found
  <1>3. CASE UNCHANGED vars
    BY <1>3 DEF Found, found, Known, Likely, TopFreq, Freqs, vars, input
  <1>4. Apply \/ result' = "none" \/ result' = "notfound" \/ UNCHANGED vars
    BY DEF Next, Miss, AllTried, TryEnclitic, TryBoth, TryPrefix, TryEncliticsAgain, RemovePeriod,
           TryDoubtful, NotFound
  <1> QED BY <1>1, <1>2, <1>3, <1>4

LEMMA GuessIsSound == TypeOK /\ Found => GuessSound
  <1> SUFFICES ASSUME TypeOK, Found, result = "guess" PROVE GuessSound
    BY DEF GuessSound
  <1>1. plainwtry \in DOMAIN key /\ Likely
    BY DEF Found, found, Known
  <1>2. key[plainwtry] \in Seq(Nat) /\ key[plainwtry] # << >>
    BY <1>1, WordTypes
  <1>3. Freqs \in Seq(Nat) /\ Freqs # << >> /\ DOMAIN Freqs = 1..Len(Freqs)
    BY <1>2, EmptySeq DEF Freqs
  <1>4. PICK i \in DOMAIN Freqs : TopFreq = Freqs[i]
    BY <1>3, MaxOfSeq DEF TopFreq
  <1>5. /\ Total([Freqs EXCEPT ![i] = 0]) \in Nat
        /\ Total(Freqs) = Total([Freqs EXCEPT ![i] = 0]) + Freqs[i]
        /\ Freqs[i] \in Nat
    <2>1. PICK f \in Seq(Nat) : f = Freqs
      BY <1>3
    <2>2. i \in 1..Len(f) /\ f[i] \in Nat
      BY <1>3, <2>1
    <2>3. Total([f EXCEPT ![i] = 0]) \in Nat /\ Total(f) = Total([f EXCEPT ![i] = 0]) + f[i]
      BY <2>2, TotalWithout
    <2> QED BY <2>1, <2>2, <2>3
  <1>6. 4 * Freqs[i] >= 3 * Total(Freqs) /\ Total(Freqs) > 0
    BY <1>1, <1>4 DEF Likely
  <1>7. Freqs[i] > 0 /\ Freqs[i] >= 3 * Total([Freqs EXCEPT ![i] = 0])
    BY <1>5, <1>6
  <1> QED BY <1>7 DEF GuessSound

\* Macronize guesses (mac.lua, topfreq / totalfreq) only a form that the texts have, three
\* times as often as all the other forms of its word together: it is the same in every
\* order in which pairs() gives them, and forms that were typed never outweigh it.
THEOREM GuessesOutweigh == Spec => []GuessSound
  <1>1. Init => TypeOK /\ Found
    BY TypeInit, FoundInit
  <1>2. TypeOK /\ Found /\ [Next]_vars => (TypeOK /\ Found)'
    BY TypeNext, FoundNext
  <1> QED BY <1>1, <1>2, GuessIsSound, PTL DEF Spec
----------------------------------------------------------------------------
\* The phases of the variation loop.

\* Without an enclitic the second variation is the first, the fourth the third.
LEMMA NoEnclitic ==
    ASSUME NEW w \in Plain
    PROVE  /\ Variations(w, << >>)[2] = Variations(w, << >>)[1]
           /\ Variations(w, << >>)[4] = Variations(w, << >>)[3]
  <1>1. Len(w) \in Nat /\ Len(w) - Len(<< >>) = Len(w)
    BY EmptyIsPlain DEF Plain
  <1>2. Without(w, Len(<< >>)) = w
    BY EmptyIsPlain, WithoutNothing
  <1> QED BY <1>1, <1>2 DEF Variations

\* What TryBoth leaves of the third variation: the fourth, or nothing that is new.
LEMMA FourthVariation ==
    ASSUME ShortEnclitics, NEW w \in Plain, NEW e \in Fitting(w)
    PROVE  LET v == Variations(w, e)
               t == Without(v[3], Len(e))
           IN  \/ t = v[4]
               \/ v[4] = << >> /\ (t = << >> \/ t = v[3])
  <1> DEFINE v == Variations(w, e)
             p == FirstPrefix(w)
  <1>1. e \in Enclitics \cup {<< >>} /\ e \in Plain /\ Len(e) \in Nat /\ Len(w) \in Nat
    BY FittingFits
  <1>2. p \in Plain /\ Len(p) \in Nat /\ Len(p) <= Len(w)
    BY FirstPrefixFits
  <1>3. /\ v[3] = SubSeq(w, Len(p) + 1, Len(w))
        /\ v[4] = SubSeq(w, Len(p) + 1, Len(w) - Len(e))
    BY DEF Variations
  <1> HIDE DEF v, p
  <1>4. /\ v[3] \in Plain
        /\ Len(v[3]) = IF Len(p) + 1 <= Len(w) THEN Len(w) - (Len(p) + 1) + 1 ELSE 0
        /\ \A i \in 1..(Len(w) - (Len(p) + 1) + 1) : v[3][i] = w[Len(p) + 1 + i - 1]
    BY <1>1, <1>2, <1>3, Cut
  <1>5. Len(v[3]) = Len(w) - Len(p)
    BY <1>1, <1>2, <1>4
  <1>6. CASE Len(e) <= Len(v[3])
    <2>1. /\ Without(v[3], Len(e)) \in Plain
          /\ Len(Without(v[3], Len(e))) = Len(v[3]) - Len(e)
          /\ \A i \in 1..(Len(v[3]) - Len(e)) : Without(v[3], Len(e))[i] = v[3][i]
      BY <1>1, <1>4, <1>6, WithoutFits
    <2>2. Len(w) - Len(e) \in Int /\ Len(w) - Len(e) <= Len(w) /\ Len(p) + 1 \in Int /\ Len(p) + 1 >= 1
      BY <1>1, <1>2
    <2>3. /\ v[4] \in Plain
          /\ Len(v[4]) = IF Len(p) + 1 <= Len(w) - Len(e)
                         THEN Len(w) - Len(e) - (Len(p) + 1) + 1 ELSE 0
          /\ \A i \in 1..(Len(w) - Len(e) - (Len(p) + 1) + 1) : v[4][i] = w[Len(p) + 1 + i - 1]
      BY <1>3, <2>2, Cut
    <2>4. Len(v[4]) = Len(v[3]) - Len(e)
      BY <1>1, <1>2, <1>5, <1>6, <2>3
    <2>5. ASSUME NEW i \in 1..Len(v[4]) PROVE Without(v[3], Len(e))[i] = v[4][i]
      <3>1. /\ i \in 1..(Len(v[3]) - Len(e))
            /\ i \in 1..(Len(w) - (Len(p) + 1) + 1)
            /\ i \in 1..(Len(w) - Len(e) - (Len(p) + 1) + 1)
        BY <1>1, <1>2, <1>5, <1>6, <2>4
      <3> QED BY <1>4, <2>1, <2>3, <3>1
    <2>6. Without(v[3], Len(e)) = v[4]
      <3>1. v[4] \in Seq(Parts) /\ Without(v[3], Len(e)) \in Seq(Parts)
        BY <2>1, <2>3 DEF Plain
      <3>2. Len(v[4]) = Len(Without(v[3], Len(e)))
        BY <2>1, <2>4
      <3>3. \A i \in 1..Len(v[4]) : v[4][i] = Without(v[3], Len(e))[i]
        BY <2>5
      <3>4. v[4] = Without(v[3], Len(e))
        BY <3>1, <3>2, <3>3, SeqEqual, Zenon
      <3> QED BY <3>4
    <2> QED BY <2>6 DEF v
  <1>7. CASE ~(Len(e) <= Len(v[3]))
    <2>1. Len(e) <= 3 /\ Len(e) > Len(v[3])
      BY <1>1, <1>2, <1>5, <1>7, EmptyIsPlain DEF ShortEnclitics
    <2>2. Without(v[3], Len(e)) = v[3] \/ Without(v[3], Len(e)) = << >>
      BY <1>1, <1>4, <2>1, WithoutShort
    <2>3. Len(w) - Len(e) \in Int /\ Len(p) + 1 \in Int /\ Len(w) - Len(e) < Len(p) + 1
      BY <1>1, <1>2, <1>5, <2>1
    <2>4. v[4] = << >>
      BY <1>3, <2>3, SubSeqEmpty
    <2> QED BY <2>2, <2>4 DEF v
  <1> QED BY <1>6, <1>7

LEMMA PhaseInit == Init => Phase
  BY DEF Init, Phase

LEMMA PhaseNext ==
    ASSUME ShortEnclitics, TypeOK, Phase, Next, result' # "notfound"
    PROVE  Phase'
  <1> DEFINE v == Variations(plainw, enclitic)
  <1>w. plainw \in Plain /\ plainwtry \in Plain /\ << >> \notin DOMAIN key
    BY WordTypes DEF TypeOK
  <1>u. \A k \in {1, 2, 3, 4} : 1..k = {i \in {1, 2, 3, 4} : i <= k}
    OBVIOUS
  <1>1. CASE Apply
    BY <1>1 DEF Apply, Phase, Unknown, Known, input, base, affixes, tried
  <1>2. CASE TryEnclitic
    <2>1. plainwtry = plainw /\ ~triedprefixes /\ ~triedencliticstwice /\ prefix = << >>
      BY <1>2 DEF TryEnclitic, Phase
    <2>2. PICK e \in Fitting(plainw) : enclitic' = e /\ plainwtry' = Without(plainw, Len(e))
      BY <1>2, <2>1 DEF TryEnclitic
    <2>3. Variations(plainw, e)[2] = Without(plainw, Len(e)) /\ Variations(plainw, e)[1] = plainw
      BY <1>w, VariationsSpell
    <2>4. plainw \notin DOMAIN key
      BY <1>2, <2>1 DEF TryEnclitic, Miss, Known
    <2>5. /\ UNCHANGED <<key, plainw, prefix, triedprefixes, triedencliticstwice>>
          /\ triedenclitics'
      BY <1>2 DEF TryEnclitic, Miss, input, base
    <2>6. Unknown(1)'
      BY <2>2, <2>3, <2>4, <2>5 DEF Unknown
    <2> QED BY <2>1, <2>2, <2>3, <2>5, <2>6 DEF Phase
  <1>3. CASE TryBoth
    <2>1. /\ enclitic \in Fitting(plainw) /\ triedprefixes /\ triedencliticstwice /\ Unknown(3)
          /\ prefix = FirstPrefix(plainw) /\ prefix # << >> /\ plainwtry = v[3]
      BY <1>3 DEF TryBoth, Phase
    <2>2. /\ plainwtry' = Without(v[3], Len(enclitic)) /\ v[3] \notin DOMAIN key
          /\ UNCHANGED <<key, plainw, enclitic, prefix, triedprefixes, triedencliticstwice>>
          /\ triedenclitics'
      BY <1>3, <2>1 DEF TryBoth, Miss, Known, input, base, affixes
    <2>3. \/ plainwtry' = v[4]
          \/ v[4] = << >> /\ (plainwtry' = << >> \/ plainwtry' = v[3])
      BY <1>w, <2>1, <2>2, FourthVariation
    <2>4. Unknown(1) /\ Unknown(2) /\ (v[4] \notin DOMAIN key => Unknown(4))
      BY <2>1 DEF Unknown
    <2>5. \A k \in {1, 2, 3, 4} : Unknown(k)' <=> Unknown(k)
      BY <2>2 DEF Unknown
    <2>6. Known' <=> plainwtry' \in DOMAIN key
      BY <2>2 DEF Known
    <2>7. plainwtry' = v[4] \/ (Unknown(4) /\ ~Known')
      BY <1>w, <2>2, <2>3, <2>4, <2>6
    <2> QED BY <2>1, <2>2, <2>4, <2>5, <2>7 DEF Phase
  <1>4. CASE TryPrefix
    <2>1. /\ enclitic \in Fitting(plainw) /\ Unknown(1) /\ ~triedencliticstwice
          /\ plainwtry = v[2]
      BY <1>4 DEF TryPrefix, Phase
    <2>2. /\ v[2] \notin DOMAIN key /\ prefix' = FirstPrefix(plainw)
          /\ plainwtry' = IF FirstPrefix(plainw) = << >> THEN v[2]
                          ELSE SubSeq(plainw, Len(FirstPrefix(plainw)) + 1, Len(plainw))
          /\ UNCHANGED <<key, plainw, enclitic, triedenclitics, triedencliticstwice>>
          /\ triedenclitics /\ triedprefixes'
      BY <1>4, <2>1 DEF TryPrefix, Whole, Miss, Known, input, base
    <2>3. \A k \in {1, 2, 3, 4} : Unknown(k)' <=> Unknown(k)
      BY <2>2 DEF Unknown
    <2>4. Unknown(2)
      BY <2>1, <2>2 DEF Unknown
    <2>5. /\ v[1] = plainw /\ v[3] = SubSeq(plainw, Len(FirstPrefix(plainw)) + 1, Len(plainw))
          /\ FirstPrefix(plainw) = << >> => v[3] = plainw /\ v[4] = v[2]
      BY <1>w, <2>1, VariationsSpell
    <2>6. CASE FirstPrefix(plainw) = << >>
      <3>1. Unknown(4)
        BY <2>4, <2>5, <2>6 DEF Unknown
      <3> QED BY <2>1, <2>2, <2>3, <2>6, <3>1 DEF Phase
    <2>7. CASE FirstPrefix(plainw) # << >>
      <3>1. plainwtry' = v[3]
        BY <2>2, <2>5, <2>7
      <3> QED BY <2>1, <2>2, <2>3, <2>4, <2>7, <3>1 DEF Phase
    <2> QED BY <2>6, <2>7
  <1>5. CASE TryEncliticsAgain
    <2>1. /\ enclitic \in Fitting(plainw) /\ Unknown(1) /\ Unknown(2)
          /\ triedprefixes /\ prefix = FirstPrefix(plainw) /\ prefix # << >> /\ enclitic # << >>
          /\ plainwtry = v[3] /\ v[3] \notin DOMAIN key
      BY <1>5 DEF TryEncliticsAgain, AllTried, BothLeft, Miss, Known, Phase
    <2>2. /\ UNCHANGED <<key, plainw, plainwtry, enclitic, prefix, triedprefixes>>
          /\ ~triedenclitics' /\ triedencliticstwice'
      BY <1>5 DEF TryEncliticsAgain, AllTried, Miss, Twice, input, base, affixes
    <2>3. Unknown(3)
      BY <2>1 DEF Unknown
    <2>4. \A k \in {1, 2, 3, 4} : Unknown(k)' <=> Unknown(k)
      BY <2>2 DEF Unknown
    <2> QED BY <2>1, <2>2, <2>3, <2>4 DEF Phase
  <1>6. CASE RemovePeriod \/ TryDoubtful
    <2>1. \E w : Restart(w)
      BY <1>6 DEF RemovePeriod, TryDoubtful
    <2> QED BY <2>1 DEF Restart, NoAffixes, Phase
  <1>7. CASE NotFound
    BY <1>7 DEF NotFound
  <1> QED BY <1>1, <1>2, <1>3, <1>4, <1>5, <1>6, <1>7 DEF Next

\* When all has been tried, no variation of the word is known.
LEMMA AllTriedUnknown ==
    ASSUME TypeOK, Phase, ~Known, triedenclitics, triedprefixes, ~BothLeft
    PROVE  NoneKnown(plainw)
  <1> DEFINE v == Variations(plainw, enclitic)
  <1>1. plainw \in Plain
    BY DEF TypeOK
  <1>2. enclitic \in Fitting(plainw) /\ Unknown(1)
    BY DEF Phase
  <1>3. CASE prefix = << >>
    <2>1. Unknown(4)
      BY <1>3 DEF Phase
    <2> QED BY <1>2, <2>1 DEF Unknown, NoneKnown
  <1>4. CASE prefix # << >> /\ ~triedencliticstwice
    <2>1. enclitic = << >> /\ Unknown(2) /\ plainwtry = v[3]
      BY <1>4 DEF Phase, BothLeft
    <2>2. v[3] \notin DOMAIN key /\ v[4] = v[3]
      BY <1>1, <2>1, NoEnclitic DEF Known
    <2>3. Unknown(4)
      BY <2>1, <2>2 DEF Unknown
    <2> QED BY <1>2, <2>3 DEF Unknown, NoneKnown
  <1>5. CASE prefix # << >> /\ triedencliticstwice
    <2>1. Unknown(3) /\ (plainwtry = v[4] \/ Unknown(4))
      BY <1>5 DEF Phase
    <2>2. Unknown(4)
      BY <2>1 DEF Unknown, Known
    <2> QED BY <1>2, <2>2 DEF Unknown, NoneKnown
  <1> QED BY <1>3, <1>4, <1>5
----------------------------------------------------------------------------
\* The words that are tried.

LEMMA BasesAre ==
    ASSUME TypeOK, NEW n \in 0..Len(word.doubts)
    PROVE  LET w == Bases(n)[1]
           IN  /\ w = IF n = 0 THEN word.sure ELSE word.doubts[n]
               /\ w \in Plain /\ OnePeriod(w)
               /\ IF w # << >> /\ Last(w) = Period
                  THEN DOMAIN Bases(n) = {1, 2} /\ Bases(n)[2] = Without(w, 1)
                  ELSE DOMAIN Bases(n) = {1}
  <1> DEFINE w == IF n = 0 THEN word.sure ELSE word.doubts[n]
  <1>1. w \in Plain /\ OnePeriod(w)
    <2>1. n # 0 => n \in 1..Len(word.doubts)
      BY WordTypes
    <2> QED BY <2>1, WordTypes
  <1> HIDE DEF w
  <1>2. Bases(n) = IF w # << >> /\ Last(w) = Period THEN <<w, Without(w, 1)>> ELSE <<w>>
    BY DEF Bases, w
  <1>3. CASE w # << >> /\ Last(w) = Period
    <2>1. Bases(n) = <<w, Without(w, 1)>>
      BY <1>2, <1>3
    <2> QED BY <1>1, <1>3, <2>1 DEF w
  <1>4. CASE ~(w # << >> /\ Last(w) = Period)
    <2>1. Bases(n) = <<w>>
      BY <1>2, <1>4
    <2> QED BY <1>1, <1>4, <2>1 DEF w
  <1> QED BY <1>3, <1>4

\* A word has one period to be removed, which is its last part.
LEMMA PeriodRemoved ==
    ASSUME NEW w \in Plain, OnePeriod(w), w # << >>, Last(w) = Period
    PROVE  /\ Without(w, 1) \in Plain
           /\ Without(w, 1) \o <<Period>> = w
           /\ Without(w, 1) # << >> => Last(Without(w, 1)) # Period
  <1>1. Len(w) \in Nat \ {0}
    BY EmptySeq DEF Plain
  <1>2. /\ Without(w, 1) \in Plain /\ Len(Without(w, 1)) = Len(w) - 1
        /\ \A i \in 1..(Len(w) - 1) : Without(w, 1)[i] = w[i]
    BY <1>1, WithoutFits
  <1>3. <<Period>> \in Plain /\ Len(<<Period>>) = 1 /\ <<Period>>[1] = Period
    BY MacWordAssumption DEF Plain
  <1>4. << >> \o Without(w, 1) \o <<Period>> = w
    <2>1. PICK n \in Plain : n = << >> /\ Len(n) = 0
      BY EmptyIsPlain
    <2>2. Len(n) + Len(Without(w, 1)) + Len(<<Period>>) = Len(w)
      BY <1>1, <1>2, <1>3, <2>1
    <2>3. /\ \A i \in 1..Len(n) : n[i] = w[i]
          /\ \A i \in 1..Len(Without(w, 1)) : Without(w, 1)[i] = w[Len(n) + i]
      BY <1>1, <1>2, <2>1
    <2>4. \A i \in 1..Len(<<Period>>) : <<Period>>[i] = w[Len(n) + Len(Without(w, 1)) + i]
      <3>1. /\ Len(n) + Len(Without(w, 1)) + 1 = Len(w)
            /\ \A i \in 1..Len(<<Period>>) : i = 1
        BY <1>1, <1>2, <1>3, <2>1
      <3>2. w[Len(w)] = Period
        BY DEF Last
      <3> QED BY <1>3, <3>1, <3>2, Zenon
    <2>5. n \o Without(w, 1) \o <<Period>> = w
      BY <1>2, <1>3, <2>2, <2>3, <2>4, Rejoined, Zenon
    <2> QED BY <2>1, <2>5
  <1>5. << >> \o Without(w, 1) = Without(w, 1)
    BY <1>2, ConcatEmptySeq DEF Plain
  <1>6. ASSUME Without(w, 1) # << >> PROVE Last(Without(w, 1)) # Period
    <2>1. Len(w) - 1 # 0
      BY <1>2, <1>6, NoLength
    <2>2. Len(w) - 1 \in 1..(Len(w) - 1)
      <3>1. Len(w) \in Nat /\ Len(w) # 0 /\ Len(w) # 1
        BY <1>1, <2>1
      <3>2. \A k \in Nat : k # 0 /\ k # 1 => k - 1 \in 1..(k - 1)
        OBVIOUS
      <3> QED BY <3>1, <3>2, Zenon
    <2>3. Last(Without(w, 1)) = w[Len(w) - 1]
      BY <1>2, <2>2 DEF Last
    <2> QED BY <2>2, <2>3 DEF OnePeriod
  <1> QED BY <1>2, <1>4, <1>5, <1>6

LEMMA BaseInit == Init => Base
  <1> SUFFICES ASSUME Init PROVE Base
    OBVIOUS
  <1>1. TypeOK
    BY TypeInit
  <1>2. subs = 0 /\ PeriodsOff = 1 /\ plainw = word.sure
    BY DEF Init, PeriodsOff
  <1>3. 0 \in 0..Len(word.doubts)
    BY <1>1, WordTypes
  <1>4. Bases(0)[1] = word.sure /\ 1 \in DOMAIN Bases(0)
    BY <1>1, <1>3, BasesAre
  <1>5. \A c \in DOMAIN Bases(0) : c \in {1, 2}
    BY <1>1, <1>3, BasesAre
  <1>6. 0 \in Tried
    BY <1>3 DEF Tried
  <1>7. NoneBefore(0, 1)
    <2>1. ASSUME NEW m \in Tried, NEW c \in DOMAIN Bases(m), m < 0 \/ (m = 0 /\ c < 1)
          PROVE  FALSE
      <3>1. m \in 0..Len(word.doubts)
        BY DEF Tried
      <3> QED BY <1>5, <2>1, <3>1
    <2> QED BY <2>1 DEF NoneBefore
  <1> QED BY <1>2, <1>4, <1>6, <1>7 DEF Base

\* The bases in their order: behind the b-th for substitution n come the next for n, and
\* when there is none, the first for the next substitution.
LEMMA NextBase ==
    ASSUME TypeOK, Base, NoneKnown(plainw)
    PROVE  /\ NoneBefore(subs, PeriodsOff + 1)
           /\ PeriodsOff + 1 \notin DOMAIN Bases(subs) => NoneBefore(subs + 1, 1)
  <1>1. /\ subs \in Nat /\ PeriodsOff \in {1, 2}
        /\ plainw = Bases(subs)[PeriodsOff] /\ NoneBefore(subs, PeriodsOff)
        /\ subs \in 0..Len(word.doubts)
    BY DEF Base, PeriodsOff, Tried
  <1>2. \A m \in Tried : m \in 0..Len(word.doubts) /\ DOMAIN Bases(m) \subseteq {1, 2}
    BY BasesAre DEF Tried
  <1>3. ASSUME NEW m \in Tried, NEW c \in DOMAIN Bases(m),
               m < subs \/ (m = subs /\ c < PeriodsOff + 1)
        PROVE  NoneKnown(Bases(m)[c])
    <2>1. CASE m < subs \/ (m = subs /\ c < PeriodsOff)
      BY <1>1, <2>1 DEF NoneBefore
    <2>2. CASE m = subs /\ c = PeriodsOff
      BY <1>1, <2>2
    <2>3. c < PeriodsOff + 1 => c < PeriodsOff \/ c = PeriodsOff
      BY <1>1, <1>2
    <2> QED BY <1>3, <2>1, <2>2, <2>3
  <1>4. ASSUME PeriodsOff + 1 \notin DOMAIN Bases(subs),
               NEW m \in Tried, NEW c \in DOMAIN Bases(m), m < subs + 1 \/ (m = subs + 1 /\ c < 1)
        PROVE  NoneKnown(Bases(m)[c])
    <2>1. m < subs \/ m = subs
      BY <1>1, <1>2, <1>4
    <2>2. CASE m < subs
      BY <1>3, <2>2
    <2>3. CASE m = subs
      <3>1. c < PeriodsOff + 1
        <4>1. c \in {1, 2} /\ c # PeriodsOff + 1
          BY <1>2, <1>4, <2>3
        <4> QED BY <1>1, <4>1
      <3> QED BY <1>3, <2>3, <3>1
    <2> QED BY <2>1, <2>2, <2>3
  <1> QED BY <1>3, <1>4 DEF NoneBefore

LEMMA BaseNext ==
    ASSUME TypeOK, Phase, Base, Next, result' # "notfound"
    PROVE  Base'
  <1>1. TypeOK'
    BY TypeNext
  <1>2. plainw \in Plain /\ subs \in 0..Len(word.doubts) /\ Len(word.doubts) \in Nat
    BY WordTypes DEF TypeOK
  <1>3. ASSUME UNCHANGED <<key, word>>
        PROVE  /\ Tried' = Tried
               /\ \A n : Bases(n)' = Bases(n)
               /\ \A w : NoneKnown(w)' <=> NoneKnown(w)
               /\ \A n, b : NoneBefore(n, b)' <=> NoneBefore(n, b)
    <2>1. Tried' = Tried /\ \A n : Bases(n)' = Bases(n)
      BY <1>3 DEF Tried, IsNew, Doubtful, Bases
    <2>2. \A w : NoneKnown(w)' <=> NoneKnown(w)
      BY <1>3 DEF NoneKnown
    <2>3. \A n, b : NoneBefore(n, b)' <=> NoneBefore(n, b)
      BY <2>1, <2>2 DEF NoneBefore
    <2> QED BY <2>1, <2>2, <2>3
  <1>4. CASE UNCHANGED <<key, word, plainw, periodremoved, subs>>
    <2>1. PeriodsOff' = PeriodsOff /\ subs' = subs /\ plainw' = plainw
      BY <1>4 DEF PeriodsOff
    <2>2. /\ subs \in Tried' /\ PeriodsOff \in DOMAIN Bases(subs)
          /\ plainw = Bases(subs)[PeriodsOff] /\ NoneBefore(subs, PeriodsOff)
      BY <1>3, <1>4 DEF Base
    <2> QED BY <1>3, <1>4, <2>1, <2>2 DEF Base, Bases, NoneBefore
  <1>5. CASE RemovePeriod
    <2>1. /\ UNCHANGED <<key, word, subs>> /\ periodremoved' = TRUE /\ plainw' = Without(plainw, 1)
          /\ ~Known /\ triedenclitics /\ triedprefixes /\ ~BothLeft
          /\ plainw # << >> /\ Last(plainw) = Period
      BY <1>5 DEF RemovePeriod, AllTried, Miss, Restart, Abbreviated, input
    <2>2. NoneKnown(plainw)
      BY <2>1, AllTriedUnknown
    <2>3. PeriodsOff = 1
      <3>1. SUFFICES ASSUME PeriodsOff = 2 PROVE FALSE
        BY DEF PeriodsOff
      <3>2. 2 \in DOMAIN Bases(subs) /\ plainw = Bases(subs)[2]
        BY <3>1 DEF Base
      <3>3. PICK w \in Plain : /\ OnePeriod(w) /\ w # << >> /\ Last(w) = Period
                               /\ plainw = Without(w, 1)
        BY <1>2, <3>2, BasesAre
      <3> QED BY <2>1, <3>3, PeriodRemoved
    <2>4. plainw = Bases(subs)[1]
      BY <2>3 DEF Base
    <2>5. 2 \in DOMAIN Bases(subs) /\ Bases(subs)[2] = Without(plainw, 1)
      BY <1>2, <2>1, <2>4, BasesAre
    <2>6. NoneBefore(subs, 2)
      <3>1. PeriodsOff + 1 = 2
        BY <2>3
      <3> QED BY <2>2, <3>1, NextBase
    <2>7. PeriodsOff' = 2
      BY <2>1 DEF PeriodsOff
    <2>8. subs \in Tried
      BY DEF Base
    <2>9. /\ subs' \in Tried' /\ PeriodsOff' \in DOMAIN Bases(subs)'
          /\ plainw' = Bases(subs)'[PeriodsOff'] /\ NoneBefore(subs, 2)'
      BY <1>3, <2>1, <2>5, <2>6, <2>7, <2>8
    <2> QED BY <2>1, <2>7, <2>9 DEF Base, Bases, NoneBefore
  <1>6. CASE TryDoubtful
    <2>1. /\ UNCHANGED <<key, word>> /\ subs' = subs + 1 /\ periodremoved' = FALSE
          /\ plainw' = Doubtful(subs + 1)
          /\ ~Known /\ triedenclitics /\ triedprefixes /\ ~BothLeft
          /\ ~(plainw # << >> /\ Last(plainw) = Period) /\ IsNew(subs + 1)
      BY <1>6 DEF TryDoubtful, AllTried, Miss, Restart, Abbreviated, input
    <2>2. NoneKnown(plainw)
      BY <2>1, AllTriedUnknown
    <2>3. subs + 1 \in 1..Len(word.doubts)
      BY <2>1, NothingNew
    <2>4. subs + 1 \in Tried
      <3>1. \A m \in 1..(subs + 1) : m = subs + 1 \/ m \in 1..subs
        BY <1>2
      <3>2. \A m \in 1..subs : IsNew(m)
        BY DEF Base, Tried
      <3> QED BY <2>1, <2>3, <3>1, <3>2 DEF Tried
    <2>5. PeriodsOff + 1 \notin DOMAIN Bases(subs)
      <3>1. PeriodsOff = 1 \/ PeriodsOff = 2
        BY DEF PeriodsOff
      <3>2. CASE PeriodsOff = 1
        BY <1>2, <2>1, <3>2, BasesAre DEF Base
      <3>3. CASE PeriodsOff = 2
        BY <1>2, <3>3, BasesAre
      <3> QED BY <3>1, <3>2, <3>3
    <2>6. NoneBefore(subs + 1, 1)
      BY <2>2, <2>5, NextBase
    <2>7. 1 \in DOMAIN Bases(subs + 1) /\ Bases(subs + 1)[1] = Doubtful(subs + 1)
      <3>1. subs + 1 \in 0..Len(word.doubts) /\ subs + 1 # 0
        BY <1>2, <2>3
      <3>2. Doubtful(subs + 1) = word.doubts[subs + 1]
        BY <2>3, DoubtfulIs
      <3> QED BY <3>1, <3>2, BasesAre
    <2>8. PeriodsOff' = 1
      BY <2>1 DEF PeriodsOff
    <2>9. /\ subs' \in Tried' /\ PeriodsOff' \in DOMAIN Bases(subs + 1)
          /\ plainw' = Bases(subs + 1)[PeriodsOff'] /\ NoneBefore(subs + 1, 1)
      BY <1>3, <2>1, <2>4, <2>6, <2>7, <2>8
    <2> QED BY <1>3, <2>1, <2>8, <2>9 DEF Base, Bases, NoneBefore
  <1>7. UNCHANGED <<key, word, plainw, periodremoved, subs>> \/ RemovePeriod \/ TryDoubtful
    BY DEF Next, Apply, TryEnclitic, TryBoth, TryPrefix, TryEncliticsAgain, AllTried, Miss, NotFound,
           input, base
  <1> QED BY <1>4, <1>5, <1>6, <1>7
----------------------------------------------------------------------------
\* The invariant, and what follows from it.

LEMMA InvInit == Init => IInv
  BY TypeInit, FoundInit, PhaseInit, BaseInit DEF IInv, Init

LEMMA InvNext == ShortEnclitics /\ IInv /\ [Next]_vars => IInv'
  <1> SUFFICES ASSUME ShortEnclitics, IInv, [Next]_vars PROVE IInv'
    OBVIOUS
  <1>1. TypeOK' /\ Found'
    BY TypeNext, FoundNext DEF IInv
  <1>2. CASE Next /\ result' # "notfound"
    <2>1. result = "none"
      BY <1>2 DEF Next, Apply, TryEnclitic, TryBoth, TryPrefix, TryEncliticsAgain, RemovePeriod, TryDoubtful,
              AllTried, Miss, NotFound
    <2>2. Phase' /\ Base'
      BY <1>2, <2>1, PhaseNext, BaseNext DEF IInv
    <2> QED BY <1>1, <1>2, <2>2 DEF IInv
  <1>3. CASE Next /\ result' = "notfound"
    <2>1. NotFound
      BY <1>3 DEF Next, Apply, TryEnclitic, TryBoth, TryPrefix, TryEncliticsAgain, RemovePeriod, TryDoubtful,
              AllTried, Miss
    <2>2. /\ ~Known /\ triedenclitics /\ triedprefixes /\ ~BothLeft /\ ~IsNew(subs + 1)
          /\ ~(plainw # << >> /\ Last(plainw) = Period) /\ UNCHANGED <<key, word>>
          /\ TypeOK /\ Phase /\ Base
      BY <2>1 DEF NotFound, Abbreviated, IInv, input
    <2>3. NoneKnown(plainw)
      BY <2>2, AllTriedUnknown
    <2>4. subs \in 0..Len(word.doubts) /\ Len(word.doubts) \in Nat
      BY <2>2, WordTypes DEF TypeOK
    <2>5. PeriodsOff + 1 \notin DOMAIN Bases(subs)
      <3>1. PeriodsOff = 1 \/ PeriodsOff = 2
        BY DEF PeriodsOff
      <3>2. CASE PeriodsOff = 1
        BY <2>2, <2>4, <3>2, BasesAre DEF Base
      <3>3. CASE PeriodsOff = 2
        BY <2>2, <2>4, <3>3, BasesAre
      <3> QED BY <3>1, <3>2, <3>3
    <2>6. NoneBefore(subs + 1, 1)
      BY <2>2, <2>3, <2>5, NextBase
    <2>7. \A n \in Tried : n \in Nat /\ n < subs + 1
      <3>1. ASSUME NEW n \in Tried, n > subs PROVE FALSE
        <4>1. n \in 0..Len(word.doubts) /\ \A m \in 1..n : IsNew(m)
          BY DEF Tried
        <4>2. subs + 1 \in 1..n
          BY <2>4, <3>1, <4>1
        <4> QED BY <2>2, <4>1, <4>2
      <3>2. \A n \in Tried : n \in Nat
        BY <2>4 DEF Tried
      <3> QED BY <2>4, <3>1, <3>2
    <2>8. NotThere
      BY <2>6, <2>7 DEF NotThere, NoneBefore
    <2>9. Tried' = Tried /\ (\A n : Bases(n)' = Bases(n)) /\ \A w : NoneKnown(w)' <=> NoneKnown(w)
      BY <2>2 DEF Tried, IsNew, Doubtful, Bases, NoneKnown
    <2>10. NotThere'
      BY <2>8, <2>9 DEF NotThere
    <2> QED BY <1>1, <1>3, <2>10 DEF IInv
  <1>4. CASE UNCHANGED vars
    <2>1. UNCHANGED <<key, word, plainw, plainwtry, enclitic, prefix, triedenclitics, triedprefixes,
                      triedencliticstwice, periodremoved, subs, result>>
      BY <1>4 DEF vars, input, base, affixes, tried
    <2>2. Tried' = Tried /\ (\A n : Bases(n)' = Bases(n)) /\ \A w : NoneKnown(w)' <=> NoneKnown(w)
      BY <2>1 DEF Tried, IsNew, Doubtful, Bases, NoneKnown
    <2>3. NotThere' <=> NotThere
      BY <2>2 DEF NotThere
    <2>4. Phase' <=> Phase
      <3>1. \A k : Unknown(k)' <=> Unknown(k)
        BY <2>1 DEF Unknown
      <3> QED BY <2>1, <3>1 DEF Phase, Known, Unknown
    <2>5. Base' <=> Base
      <3>1. \A n, b : NoneBefore(n, b)' <=> NoneBefore(n, b)
        BY <2>2 DEF NoneBefore
      <3>2. PeriodsOff' = PeriodsOff
        BY <2>1 DEF PeriodsOff
      <3> QED BY <2>1, <2>2, <3>1, <3>2 DEF Base, NoneBefore, Bases
    <2> QED BY <1>1, <2>1, <2>3, <2>4, <2>5 DEF IInv
  <1> QED BY <1>2, <1>3, <1>4

LEMMA InvFirst == IInv => FirstVariation
  <1> SUFFICES ASSUME IInv PROVE FirstVariation
    OBVIOUS
  <1>1. ASSUME found
        PROVE  \E n \in Tried : \E b \in DOMAIN Bases(n) :
                  /\ \E e \in Fitting(Bases(n)[b]) : FirstKnown(Variations(Bases(n)[b], e))
                  /\ NoneBefore(n, b)
    <2>1. Known /\ Phase /\ Base /\ TypeOK
      BY <1>1 DEF IInv, Found, found
    <2>2. plainw \in Plain
      BY <2>1 DEF TypeOK
    <2>3. \E e \in Fitting(plainw) : FirstKnown(Variations(plainw, e))
      <3>1. CASE plainwtry = plainw
        <4>1. PICK e \in Fitting(plainw) : TRUE
          BY <2>2, SomeFits
        <4>2. Variations(plainw, e)[1] = plainw /\ 1 \in DOMAIN Variations(plainw, e)
          BY <2>2, VariationsSpell
        <4> QED BY <2>1, <3>1, <4>2 DEF FirstKnown, Known
      <3>2. CASE plainwtry # plainw
        <4> DEFINE v == Variations(plainw, enclitic)
        <4>1. /\ enclitic \in Fitting(plainw)
              /\ \E k \in {2, 3, 4} : plainwtry = v[k] /\ Unknown(k - 1)
          BY <2>1, <3>2 DEF Phase
        <4>2. PICK k \in {2, 3, 4} : plainwtry = v[k] /\ Unknown(k - 1)
          BY <4>1
        <4>3. DOMAIN v = 1..4
          BY <2>2, <4>1, VariationsSpell
        <4>4. k \in DOMAIN v /\ v[k] = plainwtry /\ v[k] \in DOMAIN key
              /\ \A j \in 1..(k - 1) : v[j] \notin DOMAIN key
          BY <2>1, <4>2, <4>3 DEF Known, Unknown
        <4> QED BY <4>1, <4>4 DEF FirstKnown
      <3> QED BY <3>1, <3>2
    <2> QED BY <2>1, <2>3 DEF Base
  <1> QED BY <1>1 DEF IInv, FirstVariation

LEMMA InvSpells == IInv => SpellsUpToEnclitic
  <1> SUFFICES ASSUME IInv, found PROVE SpellsUpToEnclitic
    BY DEF SpellsUpToEnclitic
  <1> DEFINE period == IF periodremoved THEN <<Period>> ELSE << >>
             v == Variations(plainw, enclitic)
  <1>1. Known /\ Phase /\ Base /\ TypeOK
    BY DEF IInv, Found, found
  <1>2. /\ plainw \in Plain /\ plainwtry \in Plain /\ enclitic \in Plain /\ prefix \in Plain
        /\ << >> \notin DOMAIN key /\ subs \in 0..Len(word.doubts)
    BY <1>1, WordTypes, EmptyIsPlain, MacWordAssumption DEF TypeOK, ToSet
  <1>3. plainw \o period = CurrentWord
    <2>1. Bases(subs)[1] = CurrentWord /\ CurrentWord \in Plain /\ OnePeriod(CurrentWord)
      BY <1>1, <1>2, BasesAre DEF CurrentWord
    <2>2. CASE periodremoved
      <3>1. 2 \in DOMAIN Bases(subs) /\ plainw = Bases(subs)[2]
        BY <1>1, <2>2 DEF Base, PeriodsOff
      <3>2. CurrentWord # << >> /\ Last(CurrentWord) = Period /\ plainw = Without(CurrentWord, 1)
        BY <1>1, <1>2, <2>1, <3>1, BasesAre
      <3> QED BY <2>1, <2>2, <3>2, PeriodRemoved
    <2>3. CASE ~periodremoved
      <3>1. plainw = CurrentWord
        BY <1>1, <2>1, <2>3 DEF Base, PeriodsOff
      <3> QED BY <2>1, <2>3, <3>1, ConcatEmptySeq DEF Plain
    <2> QED BY <2>2, <2>3
  <1> HIDE DEF period
  <1>4. Written = ((prefix \o plainwtry) \o enclitic) \o period
    BY DEF Written, period
  <1>5. \A s \in Plain : << >> \o s = s /\ s \o << >> = s
    BY ConcatEmptySeq DEF Plain
  <1>6. CASE plainwtry = plainw /\ prefix = << >> /\ enclitic = << >>
    BY <1>2, <1>3, <1>4, <1>5, <1>6 DEF SpellsUpToEnclitic
  <1>7. CASE ~(plainwtry = plainw /\ prefix = << >> /\ enclitic = << >>)
    <2>1. /\ enclitic \in Fitting(plainw)
          /\ \/ prefix = << >> /\ plainwtry = v[2]
             \/ /\ prefix # << >> /\ prefix = FirstPrefix(plainw)
                /\ plainwtry = v[3] \/ plainwtry = v[4]
      BY <1>1, <1>7 DEF Phase
    <2>2. /\ v[2] \o enclitic = plainw /\ FirstPrefix(plainw) \o v[3] = plainw
          /\ v[4] # << >> => (FirstPrefix(plainw) \o v[4]) \o enclitic = plainw
          /\ enclitic # << >> => IsSuffix(enclitic, plainw)
      BY <1>2, <2>1, VariationsSpell, FittingFits
    <2>3. plainwtry # << >>
      BY <1>1, <1>2 DEF Known
    <2>4. CASE prefix = << >>
      <3>1. (prefix \o plainwtry) \o enclitic = plainw
        BY <1>2, <1>5, <2>1, <2>2, <2>4
      <3> QED BY <1>3, <1>4, <3>1 DEF SpellsUpToEnclitic
    <2>5. CASE prefix # << >> /\ plainwtry = v[3]
      <3>1. prefix \o plainwtry = plainw
        BY <2>1, <2>2, <2>5
      <3>2. CASE enclitic = << >>
        BY <1>2, <1>3, <1>4, <1>5, <3>1, <3>2 DEF SpellsUpToEnclitic
      <3>3. CASE enclitic # << >>
        BY <1>4, <2>2, <2>5, <3>1, <3>3 DEF SpellsUpToEnclitic, period
      <3> QED BY <3>2, <3>3
    <2>6. CASE prefix # << >> /\ plainwtry = v[4]
      <3>1. (prefix \o plainwtry) \o enclitic = plainw
        BY <2>1, <2>2, <2>3, <2>6
      <3> QED BY <1>3, <1>4, <3>1 DEF SpellsUpToEnclitic
    <2> QED BY <2>1, <2>4, <2>5, <2>6
  <1> QED BY <1>6, <1>7

\* What replaces a word in the text spells it, with its affixes and its period, but for the
\* enclitic that is written once more behind a word known without its prefix.
THEOREM WordsStaySpelled ==
    ASSUME ShortEnclitics
    PROVE  Spec => []SpellsUpToEnclitic
  <1>1. IInv /\ [Next]_vars => IInv'
    BY InvNext
  <1> QED BY <1>1, InvInit, InvSpells, PTL DEF Spec

\* The form taken is that of the first variation known, in the order of the comment above
\* the loop, and for a word not found no variation is known.
THEOREM VariationsInOrder ==
    ASSUME ShortEnclitics
    PROVE  Spec => []FirstVariation
  <1>1. IInv /\ [Next]_vars => IInv'
    BY InvNext
  <1> QED BY <1>1, InvInit, InvFirst, PTL DEF Spec
============================================================================
