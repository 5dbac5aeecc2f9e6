--------------------------- MODULE SubWord_proofs ---------------------------
(***************************************************************************)
(* Proofs about module SubWord: the spelling of the text is put back where *)
(* no substitution disturbs the positions of the earlier ones, and an      *)
(* entry without exceptions is applied wherever it can be.  They hold for  *)
(* any words and any series of calls.                                      *)
(***************************************************************************)
EXTENDS SubWord, SequenceTheorems, WellFoundedInduction, TLAPS

----------------------------------------------------------------------------
(* Parts of words. *)

\* A nonempty set of naturals has a least element.
LEMMA LeastElement ==
    ASSUME NEW T, T \subseteq Nat, T # {}
    PROVE  \E n \in T : \A m \in T : n <= m
  <1>1. IsWellFoundedOn(OpToRel(<, Nat), Nat)
    BY NatLessThanWellFounded
  <1>2. PICK n \in T : \A m \in T : ~(<<m, n>> \in OpToRel(<, Nat))
    BY <1>1, WFMin, Zenon
  <1>3. ASSUME NEW m \in T PROVE n <= m
    <2>1. ~(m < n)
      BY <1>2 DEF OpToRel
    <2> QED BY <2>1
  <1> QED BY <1>3

\* How many letters stand behind q.
Behind(s, q) == IF q < Len(s) THEN Len(s) - q ELSE 0

\* The letter at k when t takes the place of p..q.
LetterAt(s, p, q, t, k) == IF k < p THEN s[k]
                           ELSE IF k < p + Len(t) THEN t[k + 1 - p]
                           ELSE s[k + q + 1 - p - Len(t)]

LEMMA BehindIs ==
    ASSUME NEW s \in Plain, NEW q \in Nat
    PROVE  /\ Len(s) \in Nat /\ Behind(s, q) \in Nat
           /\ q <= Len(s) => Behind(s, q) = Len(s) - q
           /\ Len(s) <= q => Behind(s, q) = 0
  <1>1. Len(s) \in Nat
    BY DEF Plain
  <1>2. CASE q < Len(s)
    BY <1>1, <1>2 DEF Behind
  <1>3. CASE ~(q < Len(s))
    BY <1>1, <1>3 DEF Behind
  <1> QED BY <1>1, <1>2, <1>3

LEMMA LetterIs ==
    ASSUME NEW s, NEW t, NEW p, NEW q, NEW k
    PROVE  /\ k < p => LetterAt(s, p, q, t, k) = s[k]
           /\ ~(k < p) /\ k < p + Len(t) => LetterAt(s, p, q, t, k) = t[k + 1 - p]
           /\ ~(k < p) /\ ~(k < p + Len(t)) =>
                 LetterAt(s, p, q, t, k) = s[k + q + 1 - p - Len(t)]
  BY DEF LetterAt

\* What is before p stays, then comes t, then what was behind q.
Parts(z, s, p, q, t) ==
    /\ z \in Plain
    /\ Len(z) = p - 1 + Len(t) + Behind(s, q)
    /\ \A k \in 1..Len(z) : z[k] = LetterAt(s, p, q, t, k)

\* The parts of a word with a replacement.
LEMMA ReplacedParts ==
    ASSUME NEW s \in Plain, NEW t \in Plain, NEW p \in Nat, p >= 1, p <= Len(s) + 1,
           NEW q \in Nat, q >= p - 1
    PROVE  Parts(Replaced(s, p, q, t), s, p, q, t)
  <1> DEFINE a == SubSeq(s, 1, p - 1)
             b == SubSeq(s, q + 1, Len(s))
  <1>1. /\ Len(s) \in Nat /\ Len(t) \in Nat
        /\ \A h \in 1..Len(s) : s[h] \in Letters
    BY DEF Plain
  <1>2. /\ a \in Plain /\ Len(a) = p - 1
        /\ \A k \in 1..(p - 1) : a[k] = s[k]
    <2>1. \A h \in 1..(p - 1) : s[h] \in Letters
      BY <1>1
    <2>2. /\ a \in Seq(Letters) /\ Len(a) = IF 1 <= p - 1 THEN p - 1 - 1 + 1 ELSE 0
          /\ \A k \in 1..(p - 1 - 1 + 1) : a[k] = s[1 + k - 1]
      BY <2>1, SubSeqProperties
    <2> QED BY <2>2 DEF Plain
  <1>3. /\ b \in Plain /\ Len(b) = Behind(s, q)
        /\ \A k \in 1..Len(b) : b[k] = s[q + k]
    <2>1. \A h \in (q + 1)..Len(s) : s[h] \in Letters
      BY <1>1
    <2>2. /\ b \in Seq(Letters)
          /\ Len(b) = IF q + 1 <= Len(s) THEN Len(s) - (q + 1) + 1 ELSE 0
          /\ \A k \in 1..(Len(s) - (q + 1) + 1) : b[k] = s[(q + 1) + k - 1]
      BY <1>1, <2>1, SubSeqProperties
    <2>3. Len(b) = Behind(s, q) /\ Len(b) = IF q < Len(s) THEN Len(s) - q ELSE 0
      BY <1>1, <2>2 DEF Behind
    <2> QED BY <1>1, <2>2, <2>3 DEF Plain
  <1> HIDE DEF a, b
  <1>4. /\ a \o t \in Plain /\ Len(a \o t) = p - 1 + Len(t)
        /\ \A k \in 1..(p - 1 + Len(t)) : (a \o t)[k] = IF k < p THEN s[k] ELSE t[k + 1 - p]
    <2>1. /\ a \o t \in Seq(Letters) /\ Len(a \o t) = Len(a) + Len(t)
          /\ \A k \in 1..(Len(a) + Len(t)) :
                (a \o t)[k] = IF k <= Len(a) THEN a[k] ELSE t[k - Len(a)]
      BY <1>2, ConcatProperties DEF Plain
    <2> QED BY <1>1, <1>2, <2>1 DEF Plain
  <1>5. /\ (a \o t) \o b \in Seq(Letters) /\ Len((a \o t) \o b) = Len(a \o t) + Len(b)
        /\ \A k \in 1..(Len(a \o t) + Len(b)) : ((a \o t) \o b)[k] =
              IF k <= Len(a \o t) THEN (a \o t)[k] ELSE b[k - Len(a \o t)]
    BY <1>3, <1>4, ConcatProperties DEF Plain
  <1>6. Replaced(s, p, q, t) = (a \o t) \o b
    BY DEF Replaced, a, b
  <1> HIDE DEF Replaced
  <1>7. ASSUME NEW k \in 1..Len(Replaced(s, p, q, t))
        PROVE  Replaced(s, p, q, t)[k] = LetterAt(s, p, q, t, k)
    <2>1. k \in 1..(Len(a \o t) + Len(b))
      BY <1>5, <1>6, <1>7
    <2>2. CASE k <= Len(a \o t)
      <3>1. k \in 1..(p - 1 + Len(t)) /\ k < p + Len(t)
        BY <1>1, <1>4, <2>1, <2>2
      <3>2. Replaced(s, p, q, t)[k] = IF k < p THEN s[k] ELSE t[k + 1 - p]
        BY <1>4, <1>5, <1>6, <2>1, <2>2, <3>1
      <3>3. CASE k < p
        BY <3>2, <3>3, LetterIs
      <3>4. CASE ~(k < p)
        <4>1. Replaced(s, p, q, t)[k] = t[k + 1 - p]
          BY <3>2, <3>4
        <4>2. LetterAt(s, p, q, t, k) = t[k + 1 - p]
          BY <3>1, <3>4 DEF LetterAt
        <4> QED BY <4>1, <4>2
      <3> QED BY <3>3, <3>4
    <2>3. CASE ~(k <= Len(a \o t))
      <3>1. Len(b) \in Nat /\ Len(a \o t) \in Nat
        BY <1>1, <1>3, <1>4
      <3>2. k - Len(a \o t) \in 1..Len(b)
        BY <2>1, <2>3, <3>1
      <3>3. Replaced(s, p, q, t)[k] = s[q + (k - Len(a \o t))]
        BY <1>3, <1>5, <1>6, <2>1, <2>3, <3>2
      <3>4. ~(k < p) /\ ~(k < p + Len(t)) /\ q + (k - Len(a \o t)) = k + q + 1 - p - Len(t)
        BY <1>1, <1>4, <2>1, <2>3, <3>1
      <3>5. Replaced(s, p, q, t)[k] = s[k + q + 1 - p - Len(t)]
        BY <3>3, <3>4
      <3>6. LetterAt(s, p, q, t, k) = s[k + q + 1 - p - Len(t)]
        BY <3>4 DEF LetterAt
      <3> QED BY <3>5, <3>6
    <2> QED BY <2>2, <2>3
  <1>8. Replaced(s, p, q, t) \in Plain /\ Len(Replaced(s, p, q, t)) = p - 1 + Len(t) + Behind(s, q)
    BY <1>1, <1>3, <1>4, <1>5, <1>6 DEF Plain
  <1> QED BY <1>7, <1>8 DEF Parts

\* Words with the same letters are the same.
LEMMA SameWord ==
    ASSUME NEW s \in Plain, NEW t \in Plain, Len(s) = Len(t), \A k \in 1..Len(s) : s[k] = t[k]
    PROVE  s = t
  BY SeqEqual DEF Plain

\* A stretch of a word.
LEMMA Stretch ==
    ASSUME NEW s \in Plain, NEW t \in Plain, NEW p \in Nat \ {0}, p + Len(t) - 1 <= Len(s)
    PROVE  SubSeq(s, p, p + Len(t) - 1) = t <=> \A k \in 1..Len(t) : s[p + k - 1] = t[k]
  <1> DEFINE c == SubSeq(s, p, p + Len(t) - 1)
  <1>1. /\ Len(s) \in Nat /\ Len(t) \in Nat
        /\ \A h \in 1..Len(s) : s[h] \in Letters
    BY DEF Plain
  <1>2. /\ c \in Seq(Letters)
        /\ Len(c) = IF p <= p + Len(t) - 1 THEN p + Len(t) - 1 - p + 1 ELSE 0
        /\ \A k \in 1..(p + Len(t) - 1 - p + 1) : c[k] = s[p + k - 1]
    <2>1. \A h \in p..(p + Len(t) - 1) : s[h] \in Letters
      BY <1>1
    <2> QED BY <1>1, <2>1, SubSeqProperties
  <1>3. Len(c) = Len(t) /\ \A k \in 1..Len(t) : c[k] = s[p + k - 1]
    BY <1>1, <1>2
  <1> HIDE DEF c
  <1>4. ASSUME \A k \in 1..Len(t) : s[p + k - 1] = t[k] PROVE c = t
    BY <1>2, <1>3, <1>4, SameWord DEF Plain
  <1> QED BY <1>1, <1>3, <1>4 DEF c
----------------------------------------------------------------------------
(* How substitutions are undone. *)

\* A list of entries, and substitutions of them.
IsList(E) == \A j \in DOMAIN E : IsEntry(E[j])
Subs(E, a) == \A p \in DOMAIN a : p \in Nat \ {0} /\ a[p] \in DOMAIN E

\* What x becomes where position p is looked at; and: u[p] is what s has become when all
\* positions from p on have been looked at.
UndoneAt(E, a, x, p) ==
    IF p \in DOMAIN a THEN Replaced(x, p, p + Len(E[a[p]].repl) - 1, E[a[p]].orig) ELSE x

Undoes(E, a, s, u) ==
    /\ \A p \in Nat : p > Len(s) => u[p] = s
    /\ \A p \in Nat \ {0} : u[p] = UndoneAt(E, a, u[p + 1], p)

LEMMA EntryWords ==
    ASSUME NEW E, IsList(E), NEW j \in DOMAIN E
    PROVE  /\ E[j].orig \in Plain /\ Len(E[j].orig) \in Nat \ {0}
           /\ E[j].repl \in Plain /\ Len(E[j].repl) \in Nat \ {0}
  <1>1. E[j].orig \in Plain \ {<< >>} /\ E[j].repl \in Plain \ {<< >>}
    BY DEF IsList, IsEntry
  <1> QED BY <1>1, EmptySeq DEF Plain

\* A statement of the positions from some r up to L + 1 that holds of L + 1 and goes down.
LEMMA Downwards ==
    ASSUME NEW L \in Nat, NEW r \in Nat, NEW S, L + 1 \in S,
           \A p \in Nat : r < p /\ p <= L /\ p + 1 \in S => p \in S
    PROVE  \A p \in Nat : r < p /\ p <= L + 1 => p \in S
  <1> DEFINE Wrong == {n \in Nat : n <= L /\ r < L + 1 - n /\ L + 1 - n \notin S}
  <1>1. Wrong = {}
    <2>1. SUFFICES ASSUME Wrong # {} PROVE FALSE
      OBVIOUS
    <2>2. PICK n \in Wrong : \A m \in Wrong : n <= m
      <3>1. Wrong \subseteq Nat
        OBVIOUS
      <3> HIDE DEF Wrong
      <3> QED BY <2>1, <3>1, LeastElement
    <2>3. n \in Nat /\ n <= L /\ r < L + 1 - n /\ L + 1 - n \notin S
      BY <2>2
    <2>4. n # 0
      BY <2>3
    <2>5. n - 1 \in Nat /\ n - 1 <= L /\ r < L + 1 - (n - 1) /\ ~(n <= n - 1)
      BY <2>3, <2>4
    <2>6. n - 1 \notin Wrong
      <3> HIDE DEF Wrong
      <3> QED BY <2>2, <2>5
    <2>7. L + 1 - (n - 1) \in S
      BY <2>5, <2>6
    <2>8. L + 1 - (n - 1) = (L + 1 - n) + 1 /\ L + 1 - n \in Nat /\ L + 1 - n <= L
      BY <2>3, <2>4
    <2> QED BY <2>3, <2>7, <2>8
  <1>2. ASSUME NEW p \in Nat, r < p, p <= L + 1, p \notin S
        PROVE  FALSE
    <2>1. p # L + 1
      BY <1>2
    <2>2. L + 1 - p \in Nat /\ L + 1 - p <= L /\ L + 1 - (L + 1 - p) = p
      BY <1>2, <2>1
    <2> QED BY <1>1, <1>2, <2>2
  <1> QED BY <1>2

\* What is left of r, and up to m if nothing is undone behind r and before m, stays.
LEMMA LeftStays ==
    ASSUME NEW E, IsList(E), NEW a, Subs(E, a), NEW s \in Plain, NEW u, Undoes(E, a, s, u),
           NEW r \in Nat, NEW m \in Nat, m >= r, m <= Len(s),
           \A p \in DOMAIN a : p > r => p > m
    PROVE  \A p \in Nat : r < p =>
              /\ u[p] \in Plain /\ Len(u[p]) >= m
              /\ p <= Len(s) + 1 => Len(u[p]) >= p - 1
              /\ \A k \in 1..m : u[p][k] = s[k]
  <1> DEFINE Fine(p) == /\ u[p] \in Plain /\ Len(u[p]) >= m
                        /\ p <= Len(s) + 1 => Len(u[p]) >= p - 1
                        /\ \A k \in 1..m : u[p][k] = s[k]
             S == {p \in Nat : Fine(p)}
  <1>1. Len(s) \in Nat
    BY DEF Plain
  <1>2. \A p \in Nat : p > Len(s) => Fine(p)
    <2>1. \A p \in Nat : p > Len(s) => u[p] = s
      BY DEF Undoes
    <2>2. ASSUME NEW p \in Nat, p > Len(s) PROVE Fine(p)
      <3>1. u[p] = s
        BY <2>1, <2>2
      <3>2. p <= Len(s) + 1 => Len(s) >= p - 1
        BY <1>1
      <3> QED BY <3>1, <3>2
    <2> QED BY <2>2
  <1>3. ASSUME NEW p \in Nat, r < p, p <= Len(s), p + 1 \in S
        PROVE  p \in S
    <2> DEFINE x == u[p + 1]
    <2>1. x \in Plain /\ Len(x) \in Nat /\ Len(x) >= m /\ Len(x) >= p /\ \A k \in 1..m : x[k] = s[k]
      <3>1. Fine(p + 1) /\ p + 1 <= Len(s) + 1
        BY <1>1, <1>3
      <3> QED BY <3>1 DEF Plain
    <2>2. u[p] = UndoneAt(E, a, x, p)
      <3>1. p \in Nat \ {0}
        BY <1>3
      <3> QED BY <3>1 DEF Undoes
    <2>3. CASE p \notin DOMAIN a
      <3>1. u[p] = x
        BY <2>2, <2>3 DEF UndoneAt
      <3> QED BY <2>1, <3>1
    <2>4. CASE p \in DOMAIN a
      <3> DEFINE t == E[a[p]].orig
                 q == p + Len(E[a[p]].repl) - 1
      <3>1. a[p] \in DOMAIN E /\ p > m
        BY <1>3, <2>4 DEF Subs
      <3>2. t \in Plain /\ Len(t) \in Nat /\ Len(E[a[p]].repl) \in Nat \ {0}
        BY <3>1, EntryWords
      <3>3. u[p] = Replaced(x, p, q, t)
        BY <2>2, <2>4 DEF UndoneAt
      <3>4. p >= 1 /\ p <= Len(x) + 1 /\ q \in Nat /\ q >= p - 1
        <4> HIDE DEF t, x
        <4> QED BY <1>3, <2>1, <3>2
      <3> HIDE DEF q, t, x
      <3>5. Parts(u[p], x, p, q, t)
        BY <2>1, <3>2, <3>3, <3>4, ReplacedParts
      <3>6. u[p] \in Plain /\ Len(u[p]) = p - 1 + Len(t) + Behind(x, q) /\ Behind(x, q) \in Nat
        <4>1. Behind(x, q) \in Nat
          BY <2>1, <3>4, BehindIs
        <4> QED BY <3>5, <4>1 DEF Parts
      <3>7. Len(u[p]) >= p - 1 /\ Len(u[p]) \in Nat
        BY <3>2, <3>4, <3>6
      <3>8. ASSUME NEW k \in 1..m PROVE u[p][k] = s[k]
        <4>1. k < p /\ k \in 1..Len(u[p])
          BY <3>1, <3>7
        <4>2. u[p][k] = x[k]
          BY <3>5, <4>1, LetterIs DEF Parts
        <4> QED BY <2>1, <4>2
      <3>9. Len(u[p]) >= m
        BY <3>1, <3>7
      <3> QED BY <3>6, <3>7, <3>8, <3>9
    <2> QED BY <2>3, <2>4
  <1>4. Len(s) + 1 \in S
    BY <1>1, <1>2
  <1> HIDE DEF S
  <1>5. \A p \in Nat : r < p /\ p <= Len(s) + 1 => p \in S
    BY <1>1, <1>3, <1>4, Downwards
  <1>6. ASSUME NEW p \in Nat, r < p PROVE Fine(p)
    <2>1. CASE p <= Len(s) + 1
      <3> HIDE DEF Fine
      <3> QED BY <1>5, <1>6, <2>1 DEF S
    <2>2. CASE ~(p <= Len(s) + 1)
      <3> HIDE DEF Fine
      <3>1. p > Len(s)
        BY <1>1, <2>2
      <3> QED BY <1>2, <3>1
    <2> QED BY <2>1, <2>2
  <1> QED BY <1>6

\* Where nothing is undone from r on, the word stays.
LEMMA WordStays ==
    ASSUME NEW E, NEW a, NEW s \in Plain, NEW u, Undoes(E, a, s, u), NEW r \in Nat,
           \A p \in DOMAIN a : ~(p > r)
    PROVE  \A p \in Nat : r < p => u[p] = s
  <1> DEFINE S == {p \in Nat : u[p] = s}
  <1>1. Len(s) \in Nat
    BY DEF Plain
  <1>2. \A p \in Nat : p > Len(s) => u[p] = s
    BY DEF Undoes
  <1>3. ASSUME NEW p \in Nat, r < p, p <= Len(s), p + 1 \in S
        PROVE  p \in S
    <2>1. p \notin DOMAIN a /\ p \in Nat \ {0}
      BY <1>3
    <2>2. u[p] = UndoneAt(E, a, u[p + 1], p)
      BY <2>1 DEF Undoes
    <2> QED BY <1>3, <2>1, <2>2 DEF UndoneAt
  <1>4. Len(s) + 1 \in S
    BY <1>1, <1>2
  <1> HIDE DEF S
  <1>5. \A p \in Nat : r < p /\ p <= Len(s) + 1 => p \in S
    BY <1>1, <1>3, <1>4, Downwards
  <1>6. ASSUME NEW p \in Nat, r < p PROVE u[p] = s
    <2>1. CASE p <= Len(s) + 1
      BY <1>5, <1>6, <2>1 DEF S
    <2>2. CASE ~(p <= Len(s) + 1)
      BY <1>1, <1>2, <2>2
    <2> QED BY <2>1, <2>2
  <1> QED BY <1>6

\* Restored is what is left when all positions have been looked at.
LEMMA RestoredIs ==
    ASSUME NEW u, Undoes(entries, at, subw, u), subw \in Plain
    PROVE  Restored = u[1]
  <1> DEFINE L == Len(subw)
             IsBack(f) == f = [n \in 0..L |-> IF n = 0 THEN subw
                                  ELSE Reverted(f[n - 1], Positions(subw)[n])]
             v == [n \in 0..L |-> u[L + 1 - n]]
  <1>1. L \in Nat /\ \A n \in 1..L : n - 1 \in 0..L /\ n \in 0..L /\ Positions(subw)[n] = L + 1 - n
    BY DEF Plain, Positions
  <1>2. \A n \in 0..L : v[n] = IF n = 0 THEN subw ELSE Reverted(v[n - 1], Positions(subw)[n])
    <2>1. ASSUME NEW n \in 1..L
          PROVE  v[n] = Reverted(v[n - 1], Positions(subw)[n])
      <3>1. L + 1 - n \in Nat \ {0} /\ (L + 1 - n) + 1 = L + 1 - (n - 1)
        BY <1>1
      <3>2. u[L + 1 - n] = UndoneAt(entries, at, u[(L + 1 - n) + 1], L + 1 - n)
        BY <3>1 DEF Undoes
      <3>3. v[n] = u[L + 1 - n] /\ v[n - 1] = u[L + 1 - (n - 1)]
        BY <1>1
      <3> HIDE DEF v
      <3>4. v[n] = UndoneAt(entries, at, v[n - 1], Positions(subw)[n])
        BY <1>1, <3>1, <3>2, <3>3
      <3> QED BY <3>4 DEF UndoneAt, Reverted
    <2>2. \A n \in 0..L : n = 0 \/ n \in 1..L
      BY <1>1
    <2>3. 0 \in 0..L /\ u[L + 1] = subw /\ v[0] = u[L + 1 - 0] /\ L + 1 - 0 = L + 1
      BY <1>1 DEF Undoes
    <2> HIDE DEF v
    <2> QED BY <1>1, <2>1, <2>2, <2>3
  <1>3. IsBack(v)
    <2> DEFINE w2 == [n \in 0..L |-> IF n = 0 THEN subw ELSE Reverted(v[n - 1], Positions(subw)[n])]
    <2>1. v = w2
      BY <1>2
    <2> QED BY <2>1
  <1>4. PICK f : IsBack(f) /\ Restored = f[L]
    BY <1>3 DEF Restored
  <1>5. \A n \in 0..L : f[n] = IF n = 0 THEN subw ELSE Reverted(f[n - 1], Positions(subw)[n])
    BY <1>4, Zenon
  <1> HIDE DEF IsBack, v
  <1> DEFINE Wrong == {n \in 0..L : f[n] # v[n]}
  <1>6. Wrong = {}
    <2>1. SUFFICES ASSUME Wrong # {} PROVE FALSE
      OBVIOUS
    <2>2. PICK n \in Wrong : \A h \in Wrong : n <= h
      <3>1. Wrong \subseteq Nat
        OBVIOUS
      <3> HIDE DEF Wrong
      <3> QED BY <2>1, <3>1, LeastElement
    <2>3. n # 0
      BY <1>1, <1>2, <1>5, <2>2
    <2>4. n \in 0..L /\ n - 1 \in 0..L /\ ~(n <= n - 1)
      BY <1>1, <2>2, <2>3
    <2>5. n - 1 \notin Wrong
      <3> HIDE DEF Wrong
      <3> QED BY <2>2, <2>4
    <2>6. f[n - 1] = v[n - 1]
      BY <2>4, <2>5
    <2>7. f[n] = v[n]
      <3>1. f[n] = Reverted(f[n - 1], Positions(subw)[n])
        BY <1>5, <2>3, <2>4, Zenon
      <3>2. v[n] = Reverted(v[n - 1], Positions(subw)[n])
        BY <1>2, <2>3, <2>4, Zenon
      <3> QED BY <2>6, <3>1, <3>2
    <2> QED BY <2>2, <2>7
  <1>7. v[L] = u[1]
    BY <1>1 DEF v
  <1> QED BY <1>1, <1>4, <1>6, <1>7

\* A part of a word replaced by another of the same length and, behind it, a part
\* replaced: in either order.
LEMMA ReplacedApart ==
    ASSUME NEW x \in Plain, NEW l \in Plain, NEW t \in Plain, NEW r \in Nat \ {0}, NEW p \in Nat,
           p >= r + Len(l), p <= Len(x) + 1, NEW q \in Nat, q >= p - 1
    PROVE  Replaced(Replaced(x, r, r + Len(l) - 1, l), p, q, t) =
              Replaced(Replaced(x, p, q, t), r, r + Len(l) - 1, l)
  <1>0. Len(l) \in Nat
    BY DEF Plain
  <1>1. PICK b : b = r + Len(l) - 1
    OBVIOUS
  <1>2. /\ Len(x) \in Nat /\ Len(l) \in Nat /\ Len(t) \in Nat /\ b \in Nat /\ b >= r - 1
        /\ b < p /\ b <= Len(x) /\ r >= 1 /\ r <= Len(x) + 1 /\ p >= 1
    BY <1>0, <1>1 DEF Plain
  <1>3. PICK y : y = Replaced(x, r, b, l)
    OBVIOUS
  <1>4. PICK z : z = Replaced(x, p, q, t)
    OBVIOUS
  <1>5. /\ y \in Plain /\ Len(y) = Len(x)
        /\ \A k \in 1..Len(x) : y[k] = IF r <= k /\ k <= b THEN l[k + 1 - r] ELSE x[k]
    <2>1. /\ y \in Plain /\ Len(y) = r - 1 + Len(l) + Behind(x, b)
          /\ \A k \in 1..Len(y) : y[k] = LetterAt(x, r, b, l, k)
      <3>1. Parts(y, x, r, b, l)
        BY <1>2, <1>3, ReplacedParts
      <3> QED BY <3>1 DEF Parts
    <2>2. Behind(x, b) = Len(x) - b
      BY <1>2, BehindIs
    <2>3. Len(y) = Len(x)
      BY <1>1, <1>2, <2>1, <2>2
    <2>4. ASSUME NEW k \in 1..Len(x)
          PROVE  y[k] = IF r <= k /\ k <= b THEN l[k + 1 - r] ELSE x[k]
      <3>1. y[k] = LetterAt(x, r, b, l, k) /\ k + b + 1 - r - Len(l) = k
        BY <1>1, <1>2, <2>1, <2>3
      <3>2. (r <= k <=> ~(k < r)) /\ (k <= b <=> k < r + Len(l))
        BY <1>1, <1>2
      <3> QED BY <3>1, <3>2, LetterIs
    <2> QED BY <2>1, <2>3, <2>4
  <1>6. /\ z \in Plain /\ Len(z) = p - 1 + Len(t) + Behind(x, q) /\ Len(z) \in Nat /\ b <= Len(z)
        /\ \A k \in 1..Len(z) : z[k] = LetterAt(x, p, q, t, k)
    <2>1. /\ z \in Plain /\ Len(z) = p - 1 + Len(t) + Behind(x, q)
          /\ \A k \in 1..Len(z) : z[k] = LetterAt(x, p, q, t, k)
      <3>1. Parts(z, x, p, q, t)
        BY <1>2, <1>4, ReplacedParts
      <3> QED BY <3>1 DEF Parts
    <2>2. Behind(x, q) \in Nat
      BY <1>2, BehindIs
    <2> QED BY <1>2, <2>1, <2>2
  <1>7. PICK yz : yz = Replaced(y, p, q, t)
    OBVIOUS
  <1>8. PICK zy : zy = Replaced(z, r, b, l)
    OBVIOUS
  <1>9. /\ yz \in Plain /\ Len(yz) = Len(z)
        /\ \A k \in 1..Len(yz) : yz[k] = LetterAt(y, p, q, t, k)
    <2>1. /\ yz \in Plain /\ Len(yz) = p - 1 + Len(t) + Behind(y, q)
          /\ \A k \in 1..Len(yz) : yz[k] = LetterAt(y, p, q, t, k)
      <3>1. p <= Len(y) + 1
        BY <1>5
      <3>2. Parts(yz, y, p, q, t)
        BY <1>2, <1>5, <1>7, <3>1, ReplacedParts
      <3> QED BY <3>2 DEF Parts
    <2>2. Behind(y, q) = Behind(x, q)
      BY <1>5 DEF Behind
    <2> QED BY <1>6, <2>1, <2>2
  <1>10. /\ zy \in Plain /\ Len(zy) = Len(z)
         /\ \A k \in 1..Len(z) : zy[k] = IF r <= k /\ k <= b THEN l[k + 1 - r] ELSE z[k]
    <2>0. r <= Len(z) + 1
      BY <1>2, <1>6
    <2>1. /\ zy \in Plain /\ Len(zy) = r - 1 + Len(l) + Behind(z, b)
          /\ \A k \in 1..Len(zy) : zy[k] = LetterAt(z, r, b, l, k)
      <3>1. Parts(zy, z, r, b, l)
        BY <1>2, <1>6, <1>8, <2>0, ReplacedParts
      <3> QED BY <3>1 DEF Parts
    <2>2. Behind(z, b) = Len(z) - b
      BY <1>2, <1>6, BehindIs
    <2>3. Len(zy) = Len(z)
      BY <1>1, <1>2, <1>6, <2>1, <2>2
    <2>4. ASSUME NEW k \in 1..Len(z)
          PROVE  zy[k] = IF r <= k /\ k <= b THEN l[k + 1 - r] ELSE z[k]
      <3>1. zy[k] = LetterAt(z, r, b, l, k) /\ k + b + 1 - r - Len(l) = k
        BY <1>1, <1>2, <2>1, <2>3
      <3>2. (r <= k <=> ~(k < r)) /\ (k <= b <=> k < r + Len(l))
        BY <1>1, <1>2
      <3> QED BY <3>1, <3>2, LetterIs
    <2> QED BY <2>1, <2>3, <2>4
  <1>11. ASSUME NEW k \in 1..Len(yz) PROVE yz[k] = zy[k]
    <2>1. k \in 1..Len(z) /\ k \in Nat
      BY <1>9
    <2>2. CASE k < p
      <3>1. k \in 1..Len(x)
        BY <1>2, <2>1, <2>2
      <3> QED BY <1>5, <1>6, <1>9, <1>10, <2>1, <2>2, <3>1, LetterIs
    <2>3. CASE ~(k < p)
      <3>1. zy[k] = z[k]
        BY <1>2, <1>10, <2>1, <2>3
      <3>2. CASE k < p + Len(t)
        BY <1>6, <1>9, <2>1, <2>3, <3>1, <3>2, LetterIs
      <3>3. CASE ~(k < p + Len(t))
        <4>1. PICK h : h = k + q + 1 - p - Len(t)
          BY <1>2, <2>1
        <4>2. k <= p - 1 + Len(t) + Behind(x, q)
          BY <1>6, <2>1
        <4>3. h \in 1..Len(x) /\ h > b
          <5>1. q <= Len(x) => Behind(x, q) = Len(x) - q
            BY <1>2, BehindIs
          <5>2. Len(x) <= q => Behind(x, q) = 0
            BY <1>2, BehindIs
          <5> QED BY <1>2, <2>1, <2>3, <3>3, <4>1, <4>2, <5>1, <5>2
        <4>4. y[h] = x[h]
          BY <1>2, <1>5, <4>3
        <4>5. yz[k] = y[h] /\ z[k] = x[h]
          <5>1. yz[k] = LetterAt(y, p, q, t, k) /\ z[k] = LetterAt(x, p, q, t, k)
            BY <1>6, <1>9, <2>1
          <5>2. LetterAt(y, p, q, t, k) = y[k + q + 1 - p - Len(t)]
            BY <2>3, <3>3, LetterIs
          <5>3. LetterAt(x, p, q, t, k) = x[k + q + 1 - p - Len(t)]
            BY <2>3, <3>3, LetterIs
          <5> QED BY <4>1, <5>1, <5>2, <5>3
        <4> QED BY <3>1, <4>4, <4>5
      <3> QED BY <3>2, <3>3
    <2> QED BY <2>2, <2>3
  <1>12. yz = zy
    BY <1>9, <1>10, <1>11, SameWord
  <1> QED BY <1>1, <1>3, <1>4, <1>7, <1>8, <1>12

\* What has been replaced is put back by replacing it.
LEMMA ReplacedBack ==
    ASSUME NEW x \in Plain, NEW l \in Plain, NEW t \in Plain, NEW r \in Nat, r >= 1,
           r + Len(t) - 1 <= Len(x), \A k \in 1..Len(t) : x[r + k - 1] = t[k]
    PROVE  Replaced(Replaced(x, r, r + Len(t) - 1, l), r, r + Len(l) - 1, t) = x
  <1>0. Len(l) \in Nat /\ Len(t) \in Nat /\ Len(x) \in Nat
    BY DEF Plain
  <1>1. PICK b : b = r + Len(t) - 1
    OBVIOUS
  <1>2. PICK c : c = r + Len(l) - 1
    OBVIOUS
  <1>3. /\ b \in Nat /\ b >= r - 1 /\ b <= Len(x) /\ c \in Nat /\ c >= r - 1 /\ r <= Len(x) + 1
    BY <1>0, <1>1, <1>2
  <1>4. PICK z : z = Replaced(x, r, b, l)
    OBVIOUS
  <1>5. /\ z \in Plain /\ Len(z) = c + (Len(x) - b)
        /\ \A k \in 1..Len(z) : z[k] = LetterAt(x, r, b, l, k)
    <2>1. Parts(z, x, r, b, l)
      BY <1>3, <1>4, ReplacedParts
    <2>2. Behind(x, b) = Len(x) - b
      BY <1>3, BehindIs
    <2>3. Len(z) = r - 1 + Len(l) + (Len(x) - b)
      BY <2>1, <2>2 DEF Parts
    <2> QED BY <1>0, <1>2, <1>3, <2>1, <2>3 DEF Parts
  <1>6. c <= Len(z) /\ r <= Len(z) + 1 /\ Len(z) \in Nat
    BY <1>0, <1>2, <1>3, <1>5
  <1>7. PICK y : y = Replaced(z, r, c, t)
    OBVIOUS
  <1>8. /\ y \in Plain /\ Len(y) = Len(x)
        /\ \A k \in 1..Len(x) : y[k] = LetterAt(z, r, c, t, k)
    <2>1. Parts(y, z, r, c, t)
      BY <1>3, <1>5, <1>6, <1>7, ReplacedParts
    <2>2. Behind(z, c) = Len(z) - c
      BY <1>3, <1>5, <1>6, BehindIs
    <2>3. Len(y) = r - 1 + Len(t) + (Len(z) - c)
      BY <2>1, <2>2 DEF Parts
    <2>4. Len(y) = Len(x)
      BY <1>0, <1>1, <1>3, <1>5, <2>3
    <2> QED BY <2>1, <2>4 DEF Parts
  <1>9. ASSUME NEW k \in 1..Len(y) PROVE y[k] = x[k]
    <2>1. k \in Nat /\ k >= 1 /\ k <= Len(x) /\ y[k] = LetterAt(z, r, c, t, k)
      BY <1>0, <1>8
    <2>2. CASE k < r
      <3>1. k \in 1..Len(z)
        BY <1>6, <2>1, <2>2
      <3>2. y[k] = z[k] /\ LetterAt(x, r, b, l, k) = x[k]
        BY <2>1, <2>2, LetterIs
      <3> QED BY <1>5, <3>1, <3>2
    <2>3. CASE ~(k < r) /\ k < r + Len(t)
      <3>1. k + 1 - r \in 1..Len(t) /\ r + (k + 1 - r) - 1 = k
        BY <1>0, <2>1, <2>3
      <3>2. y[k] = t[k + 1 - r]
        BY <2>1, <2>3, LetterIs
      <3>3. x[r + (k + 1 - r) - 1] = t[k + 1 - r]
        BY <3>1
      <3> QED BY <3>1, <3>2, <3>3
    <2>4. CASE ~(k < r) /\ ~(k < r + Len(t))
      <3>1. PICK h : h = k + c + 1 - r - Len(t)
        OBVIOUS
      <3>2. y[k] = z[h]
        BY <2>1, <2>4, <3>1, LetterIs
      <3>3. h \in 1..Len(z) /\ ~(h < r) /\ ~(h < r + Len(l)) /\ h + b + 1 - r - Len(l) = k
        <4>1. h = k + Len(l) - Len(t) /\ Len(z) = Len(x) + Len(l) - Len(t) /\ b = r + Len(t) - 1
          BY <1>0, <1>1, <1>2, <1>5, <2>1, <3>1
        <4> QED BY <1>0, <2>1, <2>4, <4>1
      <3>4. LetterAt(x, r, b, l, h) = x[h + b + 1 - r - Len(l)]
        BY <3>3 DEF LetterAt
      <3>5. z[h] = LetterAt(x, r, b, l, h)
        BY <1>5, <3>3
      <3> QED BY <3>2, <3>3, <3>4, <3>5
    <2> QED BY <2>2, <2>3, <2>4
  <1>10. y = x
    BY <1>8, <1>9, SameWord
  <1> QED BY <1>1, <1>2, <1>4, <1>7, <1>10

\* The substitutions with one more, of entry j at r.
WithOne(a, r, j) == [p \in DOMAIN a \cup {r} |-> IF p = r THEN j ELSE a[p]]

\* A substitution of e at r that begins none of those made and leaves the ones behind it
\* where they are.
Fits(e, a, s, r) ==
    /\ r >= 1 /\ r + Len(e.orig) - 1 <= Len(s)
    /\ \A k \in 1..Len(e.orig) : s[r + k - 1] = e.orig[k]
    /\ \A p \in DOMAIN a : p <= Len(s) /\ (p < r \/ p > r + Len(e.orig) - 1)
    /\ Len(e.orig) # Len(e.repl) => \A p \in DOMAIN a : p < r

\* It is undone with the others.
LEMMA SubstitutionUndone ==
    ASSUME NEW E, IsList(E), NEW j \in DOMAIN E, NEW a, Subs(E, a), NEW s \in Plain,
           NEW u, Undoes(E, a, s, u), NEW r \in Nat, Fits(E[j], a, s, r)
    PROVE  \E v : /\ Undoes(E, WithOne(a, r, j),
                            Replaced(s, r, r + Len(E[j].orig) - 1, E[j].repl), v)
                  /\ v[1] = u[1]
  <1>0. PICK og : og = E[j].orig
    OBVIOUS
  <1>1. PICK l : l = E[j].repl
    OBVIOUS
  <1>2. PICK b : b = r + Len(og) - 1
    OBVIOUS
  <1>3. PICK new : new = Replaced(s, r, b, l)
    OBVIOUS
  <1>4. PICK aa : aa = WithOne(a, r, j)
    OBVIOUS
  <1>5. /\ og \in Plain /\ l \in Plain /\ Len(og) \in Nat \ {0} /\ Len(l) \in Nat \ {0}
        /\ Len(s) \in Nat
    BY <1>0, <1>1, EntryWords DEF Plain
  <1>6. /\ b \in Nat /\ b >= r /\ b <= Len(s) /\ r >= 1
        /\ \A k \in 1..Len(og) : s[r + k - 1] = og[k]
        /\ \A p \in DOMAIN a : p \in Nat /\ p >= 1 /\ (p < r \/ p > b) /\ p <= Len(s)
        /\ Len(og) # Len(l) => \A p \in DOMAIN a : p < r
    BY <1>0, <1>1, <1>2, <1>5 DEF Subs, Fits
  <1>7. new \in Plain /\ Len(new) = Len(s) + Len(l) - Len(og) /\ Len(new) >= r
    <2>1. Parts(new, s, r, b, l)
      BY <1>3, <1>5, <1>6, ReplacedParts
    <2>2. Behind(s, b) = Len(s) - b
      BY <1>6, BehindIs
    <2>3. new \in Plain /\ Len(new) = r - 1 + Len(l) + (Len(s) - b)
      BY <2>1, <2>2 DEF Parts
    <2> QED BY <1>2, <1>5, <1>6, <2>3
  <1>8. ASSUME NEW x, NEW p, p # r
        PROVE  UndoneAt(E, aa, x, p) = UndoneAt(E, a, x, p)
    BY <1>4, <1>8 DEF UndoneAt, WithOne
  <1>9. ASSUME NEW x PROVE UndoneAt(E, aa, x, r) = Replaced(x, r, r + Len(l) - 1, og)
    BY <1>0, <1>1, <1>4 DEF UndoneAt, WithOne
  <1>10. \A p \in Nat : r < p =>
            /\ u[p] \in Plain /\ Len(u[p]) >= b
            /\ p <= Len(s) + 1 => Len(u[p]) >= p - 1
            /\ \A k \in 1..b : u[p][k] = s[k]
    <2>1. \A p \in DOMAIN a : p > r => p > b
      BY <1>6
    <2> QED BY <1>6, <2>1, LeftStays
  <1>11. ASSUME Len(og) # Len(l), NEW p \in Nat, r < p PROVE u[p] = s
    <2>1. \A h \in DOMAIN a : ~(h > r)
      BY <1>6, <1>11
    <2>2. \A h \in Nat : r < h => u[h] = s
      BY <2>1, WordStays
    <2> QED BY <1>11, <2>2
  <1>12. PICK v : v = [p \in Nat |-> IF p > r THEN Replaced(u[p], r, b, l) ELSE u[p]]
    OBVIOUS
  <1>13. /\ \A p \in Nat : p > r => v[p] = Replaced(u[p], r, b, l)
         /\ \A p \in Nat : ~(p > r) => v[p] = u[p]
    BY <1>12
  <1>14. ASSUME NEW p \in Nat, p > Len(new) PROVE v[p] = new
    <2>1. p > r
      BY <1>7, <1>14
    <2>2. u[p] = s
      <3>1. CASE Len(og) = Len(l)
        <4>1. p > Len(s)
          BY <1>5, <1>7, <1>14, <3>1
        <4> QED BY <4>1 DEF Undoes
      <3> QED BY <1>11, <2>1, <3>1
    <2> QED BY <1>3, <1>13, <2>1, <2>2
  <1>15. ASSUME NEW p \in Nat \ {0} PROVE v[p] = UndoneAt(E, aa, v[p + 1], p)
    <2>0. u[p] = UndoneAt(E, a, u[p + 1], p) /\ p + 1 \in Nat /\ p \in Nat
      BY DEF Undoes
    <2>1. CASE p < r
      <3>1. v[p] = u[p] /\ v[p + 1] = u[p + 1] /\ p # r
        <4>1. ~(p > r) /\ ~(p + 1 > r) /\ p # r
          BY <2>1
        <4> QED BY <1>13, <2>0, <4>1
      <3> QED BY <1>8, <2>0, <3>1
    <2>2. CASE p = r
      <3>1. u[p] = u[p + 1]
        <4>1. p \notin DOMAIN a
          BY <1>6, <2>2
        <4> QED BY <2>0, <4>1 DEF UndoneAt
      <3>2. v[p] = u[p] /\ v[p + 1] = Replaced(u[p + 1], r, b, l)
        <4>1. ~(p > r) /\ p + 1 > r
          BY <2>2
        <4> QED BY <1>13, <2>0, <4>1
      <3>3. PICK x : x = u[p + 1]
        OBVIOUS
      <3>4. x \in Plain /\ Len(x) >= b /\ \A k \in 1..b : x[k] = s[k]
        <4>1. r < p + 1
          BY <2>2
        <4> QED BY <1>10, <2>0, <3>3, <4>1
      <3>5. Replaced(Replaced(x, r, r + Len(og) - 1, l), r, r + Len(l) - 1, og) = x
        <4>1. ASSUME NEW k \in 1..Len(og) PROVE x[r + k - 1] = og[k]
          <5>1. r + k - 1 \in 1..b
            BY <1>2, <1>5, <1>6
          <5> QED BY <1>6, <3>4, <5>1
        <4>2. r + Len(og) - 1 <= Len(x)
          BY <1>2, <3>4
        <4> QED BY <1>5, <1>6, <3>4, <4>1, <4>2, ReplacedBack
      <3>6. UndoneAt(E, aa, v[p + 1], p) = Replaced(v[p + 1], r, r + Len(l) - 1, og)
        BY <1>9, <2>2
      <3> QED BY <1>2, <3>1, <3>2, <3>3, <3>5, <3>6
    <2>3. CASE p > r
      <3>1. v[p] = Replaced(u[p], r, b, l) /\ v[p + 1] = Replaced(u[p + 1], r, b, l)
        <4>1. p + 1 > r
          BY <2>3
        <4> QED BY <1>13, <2>0, <2>3, <4>1
      <3>2. UndoneAt(E, aa, v[p + 1], p) = UndoneAt(E, a, v[p + 1], p)
        BY <1>8, <2>3
      <3>3. CASE p \notin DOMAIN a
        BY <2>0, <3>1, <3>2, <3>3 DEF UndoneAt
      <3>4. CASE p \in DOMAIN a
        <4>1. /\ p > b /\ p <= Len(s) /\ Len(og) = Len(l)
          BY <1>6, <2>3, <3>4
        <4>2. PICK x : x = u[p + 1]
          OBVIOUS
        <4>3. x \in Plain /\ Len(x) >= p + 1 - 1
          <5>1. r < p + 1 /\ p + 1 <= Len(s) + 1
            BY <1>5, <2>3, <4>1
          <5> QED BY <1>10, <2>0, <4>2, <5>1
        <4>4. PICK t : t = E[a[p]].orig
          OBVIOUS
        <4>5. PICK q : q = p + Len(E[a[p]].repl) - 1
          OBVIOUS
        <4>6. t \in Plain /\ q \in Nat /\ q >= p - 1
          <5>1. t \in Plain /\ Len(E[a[p]].repl) \in Nat \ {0}
            <6>1. a[p] \in DOMAIN E
              BY <3>4 DEF Subs
            <6> QED BY <4>4, <6>1, EntryWords
          <5> QED BY <2>0, <4>5, <5>1
        <4>7. \A y : UndoneAt(E, a, y, p) = Replaced(y, p, q, t)
          BY <3>4, <4>4, <4>5 DEF UndoneAt
        <4>8. b = r + Len(l) - 1
          BY <1>2, <4>1
        <4>9. Replaced(Replaced(x, r, r + Len(l) - 1, l), p, q, t) =
                 Replaced(Replaced(x, p, q, t), r, r + Len(l) - 1, l)
          <5>1. r \in Nat \ {0} /\ p >= r + Len(l) /\ p <= Len(x) + 1
            <6>1. Len(x) \in Nat
              BY <4>3 DEF Plain
            <6> QED BY <1>5, <1>6, <2>0, <4>1, <4>3, <4>8, <6>1
          <5> QED BY <1>5, <2>0, <4>3, <4>6, <5>1, ReplacedApart
        <4>10. v[p] = Replaced(Replaced(x, p, q, t), r, b, l)
          BY <2>0, <3>1, <4>2, <4>7
        <4>11. UndoneAt(E, aa, v[p + 1], p) = Replaced(Replaced(x, r, b, l), p, q, t)
          BY <3>1, <3>2, <4>2, <4>7
        <4> QED BY <4>8, <4>9, <4>10, <4>11
      <3> QED BY <3>3, <3>4
    <2> QED BY <2>0, <2>1, <2>2, <2>3
  <1>16. Undoes(E, aa, new, v)
    BY <1>14, <1>15 DEF Undoes
  <1>17. v[1] = u[1]
    BY <1>6, <1>13
  <1> QED BY <1>0, <1>1, <1>2, <1>3, <1>4, <1>16, <1>17
----------------------------------------------------------------------------
(* The spelling of the text is put back. *)

\* While substitutions are made or a result is looked up, the word can be put back from it.
SpellInv ==
    /\ entries \in EntryLists /\ w \in Words
    /\ subw \in Plain /\ i \in Nat \ {0} /\ findstart \in Nat \ {0}
    /\ Subs(entries, at)
    /\ pc = "call" => \A p \in DOMAIN at : p <= Len(subw)
    /\ pc \in {"call", "returned"} => \E u : Undoes(entries, at, subw, u) /\ u[1] = w
    /\ SpellingKept

LEMMA ListIs ==
    ASSUME NEW E \in EntryLists
    PROVE  IsList(E) /\ DOMAIN E = 1..Len(E) /\ Len(E) \in Nat
  <1>1. E \in Seq(Range(E)) /\ \A e \in Range(E) : IsEntry(e)
    BY SubWordAssumption
  <1>2. \A j \in DOMAIN E : E[j] \in Range(E)
    BY DEF Range
  <1> QED BY <1>1, <1>2 DEF IsList

\* Without substitutions there is nothing to undo.
LEMMA NothingUndone ==
    ASSUME NEW E, NEW s
    PROVE  /\ \E u : Undoes(E, NoSubs, s, u) /\ u[1] = s
           /\ DOMAIN NoSubs = {} /\ Subs(E, NoSubs)
  <1>1. DOMAIN NoSubs = {}
    BY DEF NoSubs
  <1>2. PICK u : u = [p \in Nat |-> s]
    OBVIOUS
  <1>3. \A p \in Nat : u[p] = s /\ p + 1 \in Nat
    BY <1>2
  <1>4. Undoes(E, NoSubs, s, u) /\ u[1] = s
    BY <1>1, <1>3 DEF Undoes, UndoneAt
  <1> QED BY <1>1, <1>4 DEF Subs

\* e stands at r.
Stands(e, s, r) ==
    /\ r >= 1 /\ r + Len(e.orig) - 1 <= Len(s)
    /\ \A k \in 1..Len(e.orig) : s[r + k - 1] = e.orig[k]

\* Where the entry stands that is looked for.
LEMMA LaterStands ==
    ASSUME Later # {}, subw \in Plain, findstart \in Nat \ {0},
           Entry.orig \in Plain, Len(Entry.orig) \in Nat \ {0}
    PROVE  /\ ReplStart \in Nat \ {0} /\ findstart <= ReplStart
           /\ ReplEnd = ReplStart + Len(Entry.orig) - 1 /\ ReplEnd \in Nat \ {0}
           /\ Stands(Entry, subw, ReplStart)
           /\ \A p \in Later : ReplStart <= p
  <1>1. Len(subw) \in Nat
    BY DEF Plain
  <1>2. Later \subseteq Nat \ {0}
    <2>1. PICK top : top = Len(subw) - Len(Entry.orig) + 1
      OBVIOUS
    <2>2. top \in Int
      BY <1>1, <2>1
    <2>3. Later \subseteq 1..top
      BY <2>1 DEF Later, Occurrences
    <2> QED BY <2>2, <2>3
  <1>3. \E n \in Later : \A m \in Later : n <= m
    <2>1. Later \subseteq Nat
      BY <1>2
    <2> QED BY <2>1, LeastElement
  <1>4. ReplStart \in Later /\ \A m \in Later : ReplStart <= m
    BY <1>3 DEF ReplStart, Min
  <1>5. /\ ReplStart \in 1..(Len(subw) - Len(Entry.orig) + 1) /\ ReplStart >= findstart
        /\ SubSeq(subw, ReplStart, ReplStart + Len(Entry.orig) - 1) = Entry.orig
    BY <1>4 DEF Later, Occurrences
  <1>6. ReplStart \in Nat \ {0} /\ ReplStart + Len(Entry.orig) - 1 <= Len(subw)
    BY <1>1, <1>5
  <1>7. \A k \in 1..Len(Entry.orig) : subw[ReplStart + k - 1] = Entry.orig[k]
    BY <1>5, <1>6, Stretch
  <1> QED BY <1>4, <1>5, <1>6, <1>7 DEF Stands, ReplEnd

\* How long a word is with l letters in the place of the o letters at r..b.
LEMMA LengthAfter ==
    ASSUME NEW r \in Nat \ {0}, NEW n \in Nat, NEW o \in Nat \ {0}, NEW l \in Nat \ {0},
           NEW b \in Nat, b = r + o - 1, b <= n
    PROVE  r - 1 + l + (n - b) = n + l - o /\ r <= r - 1 + l + (n - b)
  OBVIOUS

\* One substitution, of an entry that fits or that changes nothing.
LEMMA SubstituteKeeps ==
    ASSUME SpellInv, Substitute, Undisturbing
    PROVE  SpellInv'
  <1>1. /\ pc = "call" /\ i \in Nat \ {0} /\ i <= Len(entries) /\ entries \in EntryLists
        /\ subw \in Plain /\ findstart \in Nat \ {0} /\ Subs(entries, at)
        /\ \A p \in DOMAIN at : p <= Len(subw)
        /\ Later # {}
    BY DEF SpellInv, Substitute, InCall
  <1>2. IsList(entries) /\ i \in DOMAIN entries
    <2>1. IsList(entries) /\ DOMAIN entries = 1..Len(entries) /\ Len(entries) \in Nat
      BY <1>1, ListIs
    <2> QED BY <1>1, <2>1
  <1>3. /\ Entry = entries[i] /\ Entry.orig \in Plain /\ Len(Entry.orig) \in Nat \ {0}
        /\ Entry.repl \in Plain /\ Len(Entry.repl) \in Nat \ {0}
    BY <1>2, EntryWords DEF Entry
  <1>4. PICK r : r = ReplStart
    OBVIOUS
  <1>5. /\ r \in Nat \ {0} /\ findstart <= r /\ Stands(Entry, subw, r)
        /\ ReplEnd = r + Len(Entry.orig) - 1 /\ ReplEnd \in Nat \ {0}
    BY <1>1, <1>3, <1>4, LaterStands
  <1>6. /\ w' = w /\ entries' = entries /\ i' = i /\ pc' = pc /\ finalw' = finalw
        /\ findstart' \in Nat \ {0}
    BY <1>5 DEF Substitute, call
  <1>7. PICK new : new = Replaced(subw, r, r + Len(Entry.orig) - 1, Entry.repl)
    OBVIOUS
  <1>8. \/ subw' = subw /\ at' = at
        \/ subw' = new /\ at' = WithOne(at, r, i) /\ <<subw, at>>' # <<subw, at>>
    <2>1. \/ subw' = subw /\ at' = at
          \/ subw' = new /\ at' = WithOne(at, r, i)
      BY <1>4, <1>5, <1>7 DEF Substitute, WithOne
    <2> QED BY <2>1
  <1>9. CASE subw' = subw /\ at' = at
    BY <1>1, <1>6, <1>9 DEF SpellInv, SpellingKept
  <1>10. CASE subw' = new /\ at' = WithOne(at, r, i) /\ <<subw, at>>' # <<subw, at>>
    <2>1. new \in Plain /\ Len(new) = Len(subw) + Len(Entry.repl) - Len(Entry.orig) /\ r <= Len(new)
      <3>1. PICK o : o = Len(Entry.orig)
        OBVIOUS
      <3>2. PICK b : b = r + o - 1
        OBVIOUS
      <3>3. b \in Nat /\ b >= r - 1 /\ b <= Len(subw) /\ Len(subw) \in Nat /\ o \in Nat \ {0}
        BY <1>1, <1>3, <1>5, <3>1, <3>2 DEF Stands, Plain
      <3>4. Parts(new, subw, r, b, Entry.repl)
        BY <1>1, <1>3, <1>5, <1>7, <3>1, <3>2, <3>3, ReplacedParts
      <3>5. Behind(subw, b) = Len(subw) - b
        BY <1>1, <3>3, BehindIs
      <3>6. new \in Plain /\ Len(new) = r - 1 + Len(Entry.repl) + (Len(subw) - b)
        BY <3>4, <3>5 DEF Parts
      <3>7. /\ Len(new) = Len(subw) + Len(Entry.repl) - o
            /\ r <= Len(new)
        <4>1. PICK n, l : n = Len(subw) /\ l = Len(Entry.repl)
          OBVIOUS
        <4>2. /\ n \in Nat /\ l \in Nat \ {0} /\ r \in Nat \ {0} /\ o \in Nat \ {0}
              /\ b \in Nat /\ b <= n
          BY <1>3, <1>5, <3>3, <4>1
        <4>3. r - 1 + l + (n - b) = n + l - o /\ r <= r - 1 + l + (n - b)
          BY <3>2, <4>2, LengthAfter
        <4> QED BY <3>6, <4>1, <4>3
      <3> QED BY <3>1, <3>6, <3>7
    <2>2. ASSUME NEW p \in DOMAIN at
          PROVE  /\ p <= Len(subw) /\ p \in Nat \ {0}
                 /\ p < r \/ p > r + Len(Entry.orig) - 1
                 /\ Len(Entry.orig) # Len(Entry.repl) => p < r
      <3>1. p \in Nat \ {0} /\ Len(subw) \in Nat
        BY <1>1 DEF Subs, Plain
      <3>2. p \notin r..(r + Len(Entry.orig) - 1) /\ (Len(new) # Len(subw) => p < r)
        BY <1>4, <1>5, <1>10 DEF Undisturbing
      <3> QED BY <1>1, <1>3, <1>5, <2>1, <3>1, <3>2
    <2>3. Fits(Entry, at, subw, r)
      BY <1>5, <2>2 DEF Fits, Stands
    <2>4. PICK u : Undoes(entries, at, subw, u) /\ u[1] = w
      BY <1>1 DEF SpellInv
    <2>5. \E v : Undoes(entries, WithOne(at, r, i), new, v) /\ v[1] = u[1]
      BY <1>1, <1>2, <1>3, <1>5, <1>7, <2>3, <2>4, SubstitutionUndone
    <2>6. Subs(entries, WithOne(at, r, i))
      BY <1>1, <1>2, <1>5 DEF Subs, WithOne
    <2>7. \A p \in DOMAIN WithOne(at, r, i) : p <= Len(new)
      <3>1. ASSUME NEW p \in DOMAIN at PROVE p <= Len(new)
        <4>1. PICK n, o, l : n = Len(subw) /\ o = Len(Entry.orig) /\ l = Len(Entry.repl)
          OBVIOUS
        <4>2. n \in Nat /\ o \in Nat /\ l \in Nat /\ p \in Nat
          BY <1>1, <1>3, <2>2, <4>1 DEF Plain
        <4>3. Len(new) = n + l - o /\ r <= Len(new)
          BY <2>1, <4>1
        <4>4. p <= n /\ (o # l => p < r)
          BY <2>2, <4>1
        <4>5. CASE o = l
          BY <4>2, <4>4, <4>5, <4>3
        <4>6. CASE o # l
          BY <1>5, <4>2, <4>4, <4>6, <4>3
        <4> QED BY <4>5, <4>6
      <3> QED BY <2>1, <3>1 DEF WithOne
    <2> QED BY <1>1, <1>6, <1>10, <2>1, <2>4, <2>5, <2>6, <2>7 DEF SpellInv, SpellingKept
  <1> QED BY <1>8, <1>9, <1>10

\* Orthography: when a word has been found or given up, it has the letters it had in the
\* text (macra.lua subword, mac.lua), whatever the words, the lists and the number of calls,
\* if no substitution has replaced a letter at which an earlier one begins or changed the
\* length of the word in front of an earlier one.
THEOREM SpellingIsKept ==
    Spec /\ Undisturbed => []SpellingKept
  <1>1. Init => SpellInv
    <2> SUFFICES ASSUME Init PROVE SpellInv
      OBVIOUS
    <2>1. w \in Plain
      BY SubWordAssumption DEF Init
    <2>2. at = NoSubs /\ subw = w
      BY DEF Init
    <2> QED BY <2>1, <2>2, NothingUndone DEF Init, SpellInv, SpellingKept, FirstEntry
  <1>2. ASSUME SpellInv, [Next]_vars, [Undisturbing]_vars PROVE SpellInv'
    <2>1. CASE Substitute
      <3>1. Undisturbing
        BY <1>2 DEF Undisturbing, vars, call
      <3> QED BY <1>2, <2>1, <3>1, SubstituteKeeps
    <2>2. CASE NextEntry
      <3>1. /\ w' = w /\ entries' = entries /\ subw' = subw /\ at' = at /\ subbed' = subbed
            /\ i' = i + 1 /\ findstart' = 1 /\ pc' = "call" /\ pc = "call" /\ finalw' = finalw
        BY <2>2 DEF NextEntry, InCall, call
      <3>2. i' \in Nat \ {0}
        BY <1>2, <3>1 DEF SpellInv
      <3> QED BY <1>2, <3>1, <3>2 DEF SpellInv, SpellingKept
    <2>3. CASE Return
      <3>1. /\ w' = w /\ entries' = entries /\ subw' = subw /\ at' = (IF subw = w THEN NoSubs ELSE at)
            /\ i' = i /\ findstart' = findstart /\ pc' = "returned" /\ pc = "call"
        BY <2>3 DEF Return, call
      <3>2. CASE subw = w
        <4>1. at' = NoSubs
          BY <3>1, <3>2
        <4>2. Subs(entries, NoSubs) /\ \E u : Undoes(entries, NoSubs, subw, u) /\ u[1] = w
          BY <3>2, NothingUndone
        <4> QED BY <1>2, <3>1, <4>1, <4>2 DEF SpellInv, SpellingKept
      <3>3. CASE subw # w
        BY <1>2, <3>1, <3>3 DEF SpellInv, SpellingKept
      <3> QED BY <3>2, <3>3
    <2>4. CASE CallAgain
      <3>1. /\ w' = w /\ entries' = entries /\ subw' = w /\ at' = NoSubs
            /\ i' = 1 /\ findstart' = 1 /\ pc' = "call"
        BY <2>4 DEF CallAgain, Call, FirstEntry
      <3>2. w \in Plain /\ w \in Words /\ entries \in EntryLists
        BY <1>2, SubWordAssumption DEF SpellInv
      <3>3. /\ \E u : Undoes(entries, NoSubs, w, u) /\ u[1] = w
            /\ DOMAIN NoSubs = {} /\ Subs(entries, NoSubs)
        BY NothingUndone
      <3> QED BY <3>1, <3>2, <3>3 DEF SpellInv, SpellingKept
    <2>5. CASE GiveUp
      BY <1>2, <2>5 DEF GiveUp, SpellInv, SpellingKept, call
    <2>6. CASE Find
      <3>1. pc = "returned" /\ pc' = "found" /\ finalw' = Restored
        BY <2>6 DEF Find
      <3>2. PICK u : Undoes(entries, at, subw, u) /\ u[1] = w
        BY <1>2, <3>1 DEF SpellInv
      <3>3. Restored = w
        BY <1>2, <3>2, RestoredIs DEF SpellInv
      <3> QED BY <1>2, <2>6, <3>1, <3>3 DEF Find, SpellInv, SpellingKept, call
    <2>7. CASE UNCHANGED vars
      BY <1>2, <2>7 DEF vars, call, SpellInv, SpellingKept
    <2> QED BY <1>2, <2>1, <2>2, <2>3, <2>4, <2>5, <2>6, <2>7 DEF Next
  <1>3. SpellInv => SpellingKept
    BY DEF SpellInv
  <1> QED BY <1>1, <1>2, <1>3, PTL DEF Spec, Undisturbed
----------------------------------------------------------------------------
(* An entry without exceptions is applied wherever it can be. *)

\* Some letters of s and of t, put down d letters before it, fall together, and all that
\* do are the same.
Meets(s, t, least) ==
    \E d \in least..(Len(t) - 1) : \A k \in DOMAIN s : k + d \in DOMAIN t => s[k] = t[k + d]

\* Two words that stand in a third, across each other.
LEMMA Meeting ==
    ASSUME NEW s \in Plain, NEW t \in Plain, NEW l \in Plain, NEW r \in Nat, NEW p \in Nat,
           \A k \in 1..Len(t) : s[r + k - 1] = t[k],
           \A k \in 1..Len(l) : s[p + k - 1] = l[k],
           NEW least \in Int, least <= r - p, r - p <= Len(l) - 1
    PROVE  Meets(t, l, least)
  <1>1. Len(t) \in Nat /\ DOMAIN t = 1..Len(t) /\ Len(l) \in Nat /\ DOMAIN l = 1..Len(l)
    BY DEF Plain
  <1>2. PICK d : d = r - p
    OBVIOUS
  <1>3. d \in Int /\ d \in least..(Len(l) - 1)
    BY <1>1, <1>2
  <1>4. ASSUME NEW k \in 1..Len(t), k + d \in 1..Len(l) PROVE t[k] = l[k + d]
    <2>1. p + (k + d) - 1 = r + k - 1
      BY <1>2, <1>3
    <2>2. s[p + (k + d) - 1] = l[k + d] /\ s[r + k - 1] = t[k]
      BY <1>4
    <2> QED BY <2>1, <2>2
  <1> QED BY <1>1, <1>3, <1>4 DEF Meets

\* An entry that may follow itself, that is looked for in the whole word, whose replacement
\* is no shorter than what it replaces, and that no replacement makes or hides.
Complete(e) ==
    /\ e.left # "continue" /\ e.right # "end"
    /\ e.nochain => e.left = "begin"
    /\ Len(e.repl) >= Len(e.orig)
    /\ ~Meets(e.orig, e.repl, 1 - Len(e.orig))

\* A state of the search for one entry, in any call: findstart, the word, subbed; and the
\* next one, if there is one.
LaterOf(e, c) == {p \in Occurrences(c[2], e.orig) : p >= c[1]}
Fires(e, c) ==
    /\ LaterOf(e, c) # {}
    /\ e.nochain /\ e.left # "continue" => ~c[3]
    /\ (e.left = "begin") => Min(LaterOf(e, c)) = 1
    /\ (e.left = "continue") => Min(LaterOf(e, c)) > 1
    /\ (e.right = "end") => Min(LaterOf(e, c)) + Len(e.orig) - 1 = Len(c[2])
    /\ (e.right = "continue") => Min(LaterOf(e, c)) + Len(e.orig) - 1 < Len(c[2])
After(e, c) ==
    <<Min(LaterOf(e, c)) + Len(e.orig) - 1 + 1,
      Replaced(c[2], Min(LaterOf(e, c)), Min(LaterOf(e, c)) + Len(e.orig) - 1, e.repl), TRUE>>

Closed(e, S) == \A c \in S : Fires(e, c) => After(e, c) \in S

\* d comes after c: it is in every set that c is in and that is closed under the steps.
Leads(e, c, d) == \A S : Closed(e, S) /\ c \in S => d \in S

Start(word) == <<1, word, FALSE>>
Ended(e, word, x) == \E c : Leads(e, Start(word), c) /\ ~Fires(e, c) /\ c[2] = x

LEMMA LeadsOn ==
    ASSUME NEW e, NEW c, NEW d, Leads(e, c, d), Fires(e, d)
    PROVE  Leads(e, c, After(e, d))
  <1> SUFFICES ASSUME NEW S, Closed(e, S), c \in S PROVE After(e, d) \in S
    BY DEF Leads
  <1>1. d \in S
    BY DEF Leads
  <1> QED BY <1>1 DEF Closed

\* The search for one entry ends in one way: R is what the start leads to and leads to t.
LEMMA EndedOnce ==
    ASSUME NEW e, NEW word, NEW S, Closed(e, S), Start(word) \in S,
           NEW x, Ended(e, word, x), NEW y, Ended(e, word, y)
    PROVE  x = y
  <1>1. PICK t : Leads(e, Start(word), t) /\ ~Fires(e, t) /\ t[2] = x
    BY DEF Ended
  <1>2. PICK u : Leads(e, Start(word), u) /\ ~Fires(e, u) /\ u[2] = y
    BY DEF Ended
  <1>3. PICK R : R = {c \in S : Leads(e, c, t)}
    OBVIOUS
  <1>4. Closed(e, R)
    <2>1. ASSUME NEW c \in R, Fires(e, c) PROVE After(e, c) \in R
      <3>1. c \in S /\ Leads(e, c, t) /\ c # t
        BY <1>1, <1>3, <2>1
      <3>2. After(e, c) \in S
        BY <2>1, <3>1 DEF Closed
      <3>3. ASSUME NEW Q, Closed(e, Q), After(e, c) \in Q PROVE t \in Q
        <4>1. Closed(e, Q \cup {c})
          BY <3>3 DEF Closed
        <4>2. t \in Q \cup {c}
          BY <3>1, <4>1 DEF Leads
        <4> QED BY <3>1, <4>2
      <3> QED BY <1>3, <3>2, <3>3 DEF Leads
    <2> QED BY <2>1 DEF Closed
  <1>5. Start(word) \in R
    BY <1>1, <1>3
  <1>6. u \in R
    BY <1>2, <1>4, <1>5 DEF Leads
  <1>7. Leads(e, u, t) /\ Closed(e, {u})
    BY <1>2, <1>3, <1>6 DEF Closed
  <1>8. t = u
    BY <1>7 DEF Leads
  <1> QED BY <1>1, <1>2, <1>8

\* Where a word stands.
LEMMA OccurrenceStands ==
    ASSUME NEW e, e.orig \in Plain, Len(e.orig) \in Nat \ {0}, NEW s \in Plain
    PROVE  /\ Occurrences(s, e.orig) \subseteq Nat \ {0}
           /\ \A p \in Nat : p \in Occurrences(s, e.orig) <=> Stands(e, s, p)
  <1>1. PICK top : top = Len(s) - Len(e.orig) + 1
    OBVIOUS
  <1>2. Len(s) \in Nat /\ top \in Int
    <2>1. Len(s) \in Nat
      BY DEF Plain
    <2> QED BY <1>1, <2>1
  <1>3. Occurrences(s, e.orig) = {p \in 1..top : SubSeq(s, p, p + Len(e.orig) - 1) = e.orig}
    BY <1>1 DEF Occurrences
  <1>4. ASSUME NEW p \in Nat PROVE p \in Occurrences(s, e.orig) <=> Stands(e, s, p)
    <2>1. p \in 1..top <=> p >= 1 /\ p + Len(e.orig) - 1 <= Len(s)
      BY <1>1, <1>2
    <2>2. CASE p >= 1 /\ p + Len(e.orig) - 1 <= Len(s)
      <3>1. SubSeq(s, p, p + Len(e.orig) - 1) = e.orig <=>
               \A k \in 1..Len(e.orig) : s[p + k - 1] = e.orig[k]
        <4>1. p \in Nat \ {0}
          BY <2>2
        <4> QED BY <2>2, <4>1, Stretch
      <3> QED BY <1>3, <2>1, <2>2, <3>1 DEF Stands
    <2>3. CASE ~(p >= 1 /\ p + Len(e.orig) - 1 <= Len(s))
      BY <1>3, <2>1, <2>3 DEF Stands
    <2> QED BY <2>2, <2>3
  <1>5. Occurrences(s, e.orig) \subseteq Nat \ {0}
    BY <1>2, <1>3
  <1> QED BY <1>4, <1>5

\* The states of the search.
Configs == Nat \X Plain \X BOOLEAN

LEMMA ConfigsClosed ==
    ASSUME NEW e, e.orig \in Plain, Len(e.orig) \in Nat \ {0}, e.repl \in Plain
    PROVE  Closed(e, Configs)
  <1>1. ASSUME NEW c \in Configs, Fires(e, c) PROVE After(e, c) \in Configs
    <2>1. PICK r : r = Min(LaterOf(e, c))
      OBVIOUS
    <2>2. c[2] \in Plain /\ LaterOf(e, c) # {}
      BY <1>1 DEF Configs, Fires
    <2>3. LaterOf(e, c) \subseteq Occurrences(c[2], e.orig)
      BY DEF LaterOf
    <2>4. LaterOf(e, c) \subseteq Nat
      BY <2>2, <2>3, OccurrenceStands
    <2>5. \E n \in LaterOf(e, c) : \A m \in LaterOf(e, c) : n <= m
      BY <2>2, <2>4, LeastElement
    <2>6. r \in LaterOf(e, c)
      BY <2>1, <2>5 DEF Min
    <2>7. r \in Nat /\ Stands(e, c[2], r)
      BY <2>2, <2>3, <2>4, <2>6, OccurrenceStands
    <2>8. PICK b : b = r + Len(e.orig) - 1
      OBVIOUS
    <2>9. b \in Nat /\ b >= r - 1 /\ r >= 1 /\ r <= Len(c[2]) + 1
      <3>1. r >= 1 /\ r + Len(e.orig) - 1 <= Len(c[2]) /\ Len(c[2]) \in Nat
        BY <2>2, <2>7 DEF Stands, Plain
      <3> QED BY <2>7, <2>8, <3>1
    <2>10. Replaced(c[2], r, b, e.repl) \in Plain
      BY <2>2, <2>7, <2>9, ReplacedParts DEF Parts
    <2>11. After(e, c) = <<b + 1, Replaced(c[2], r, b, e.repl), TRUE>>
      BY <2>1, <2>8 DEF After
    <2>12. b + 1 \in Nat
      BY <2>9
    <2>13. PICK z : z = Replaced(c[2], r, b, e.repl)
      OBVIOUS
    <2>14. <<b + 1, z, TRUE>> \in Nat \X Plain \X BOOLEAN
      BY <2>10, <2>12, <2>13
    <2> QED BY <2>11, <2>13, <2>14 DEF Configs
  <1> QED BY <1>1 DEF Closed

\* Where a complete entry stands once it has been replaced at r, it has stood before, in
\* front of r.
LEMMA StoodBefore ==
    ASSUME NEW e, e.orig \in Plain, Len(e.orig) \in Nat \ {0}, e.repl \in Plain,
           Len(e.repl) \in Nat, Complete(e), NEW s \in Plain, NEW r \in Nat, Stands(e, s, r),
           NEW new, new = Replaced(s, r, r + Len(e.orig) - 1, e.repl),
           NEW p \in Nat, p < r + Len(e.orig), Stands(e, new, p)
    PROVE  p + Len(e.orig) - 1 < r /\ Stands(e, s, p) /\ new \in Plain
  <1>1. PICK o : o = Len(e.orig)
    OBVIOUS
  <1>2. PICK l : l = e.repl
    OBVIOUS
  <1>3. PICK b : b = r + o - 1
    OBVIOUS
  <1>4. /\ Len(s) \in Nat /\ o \in Nat \ {0} /\ l \in Plain /\ Len(l) \in Nat /\ Len(l) >= o
        /\ r >= 1 /\ r <= Len(s) + 1 /\ b \in Nat /\ b >= r - 1 /\ b <= Len(s)
    <2>1. Len(s) \in Nat /\ o \in Nat \ {0} /\ l \in Plain /\ Len(l) \in Nat /\ Len(l) >= o
      BY <1>1, <1>2 DEF Plain, Complete
    <2>2. r >= 1 /\ r + o - 1 <= Len(s)
      BY <1>1 DEF Stands
    <2> QED BY <1>3, <2>1, <2>2
  <1>5. /\ new \in Plain /\ \A k \in 1..Len(new) : new[k] = LetterAt(s, r, b, l, k)
        /\ Len(new) = r - 1 + Len(l) + (Len(s) - b)
    <2>1. Parts(new, s, r, b, l)
      BY <1>1, <1>2, <1>3, <1>4, ReplacedParts
    <2>2. Behind(s, b) = Len(s) - b
      BY <1>4, BehindIs
    <2> QED BY <2>1, <2>2 DEF Parts
  <1>6. p >= 1 /\ p + o - 1 <= Len(new) /\ \A k \in 1..o : new[p + k - 1] = e.orig[k]
    BY <1>1 DEF Stands
  <1>7. p + o - 1 < r
    <2>1. SUFFICES ASSUME ~(p + o - 1 < r) PROVE FALSE
      OBVIOUS
    <2>2. ASSUME NEW k \in 1..Len(l) PROVE new[r + k - 1] = l[k]
      <3>1. PICK n : n = r + k - 1
        OBVIOUS
      <3>2. n \in 1..Len(new) /\ ~(n < r) /\ n < r + Len(l) /\ n + 1 - r = k
        <4>1. PICK g : g = Len(s) - b
          OBVIOUS
        <4>2. g \in Nat /\ Len(new) = r - 1 + Len(l) + g
          BY <1>4, <1>5, <4>1
        <4> QED BY <1>4, <3>1, <4>2
      <3>3. LetterAt(s, r, b, l, n) = l[n + 1 - r]
        BY <3>2, LetterIs
      <3> QED BY <1>5, <3>1, <3>2, <3>3
    <2>3. 1 - o \in Int /\ 1 - o <= p - r /\ p - r <= Len(l) - 1
      BY <1>1, <1>4, <2>1
    <2>4. Meets(e.orig, l, 1 - o)
      BY <1>1, <1>4, <1>5, <1>6, <2>2, <2>3, Meeting
    <2> QED BY <1>1, <1>2, <2>4 DEF Complete
  <1>8. ASSUME NEW k \in 1..o PROVE s[p + k - 1] = e.orig[k]
    <2>1. PICK n : n = p + k - 1
      OBVIOUS
    <2>2. n \in 1..Len(new) /\ n < r
      <3>1. Len(new) \in Nat
        BY <1>5 DEF Plain
      <3> QED BY <1>4, <1>6, <1>7, <2>1, <3>1
    <2>3. new[n] = s[n]
      BY <1>5, <2>2, LetterIs
    <2> QED BY <1>6, <2>1, <2>3
  <1> QED BY <1>1, <1>4, <1>5, <1>6, <1>7, <1>8 DEF Stands

\* One entry that is not doubtful.
Single == Len(entries) = 1 /\ ~entries[1].doubt

\* In the call the entry has been applied up to findstart; the second call ends as the
\* first, so that there is no third, in which nothing would be substituted.
ThorInv ==
    /\ entries \in EntryLists /\ w \in Words
    /\ Single =>
       /\ subw \in Plain /\ prevdsubw = None /\ i \in {1, 2} /\ findstart \in Nat \ {0} /\ subbed \in BOOLEAN
       /\ pc = "call" /\ i = 1 =>
             /\ Leads(entries[1], Start(w), <<findstart, subw, subbed>>)
             /\ subbed => findstart > 1
             /\ \A p \in Nat : p < findstart => ~Allowed(entries[1], subw, p)
       /\ (pc = "call" /\ i = 2) \/ pc = "returned" =>
             /\ Ended(entries[1], w, subw)
             /\ \A p \in Nat : ~Allowed(entries[1], subw, p)
       /\ doubtful \/ pc = "returned" => Ended(entries[1], w, suresubw)

LEMMA SingleWords ==
    ASSUME ThorInv, Single
    PROVE  /\ DOMAIN entries = {1} /\ IsList(entries) /\ IsEntry(entries[1]) /\ w \in Plain
           /\ entries[1].orig \in Plain /\ Len(entries[1].orig) \in Nat \ {0}
           /\ entries[1].repl \in Plain /\ Len(entries[1].repl) \in Nat \ {0}
  <1>1. IsList(entries) /\ DOMAIN entries = 1..1
    BY ListIs DEF ThorInv, Single
  <1>2. 1 \in DOMAIN entries /\ DOMAIN entries = {1}
    BY <1>1
  <1>3. w \in Plain
    BY SubWordAssumption DEF ThorInv
  <1> QED BY <1>1, <1>2, <1>3, EntryWords DEF IsList

\* What the model does with an entry is what Fires and After say.
LEMMA FiresIs ==
    ASSUME ThorInv, Single, i = 1, NEW c, c = <<findstart, subw, subbed>>
    PROVE  /\ Entry = entries[1] /\ LaterOf(Entry, c) = Later
           /\ Fires(Entry, c) <=> Later # {} /\ Valid
           /\ After(Entry, c) = <<ReplEnd + 1, Replaced(subw, ReplStart, ReplEnd, Entry.repl), TRUE>>
  <1>1. Entry = entries[1] /\ c[1] = findstart /\ c[2] = subw /\ c[3] = subbed
    BY DEF Entry
  <1>2. LaterOf(Entry, c) = Later
    BY <1>1 DEF LaterOf, Later
  <1>3. Min(LaterOf(Entry, c)) = ReplStart /\ ReplEnd = ReplStart + Len(Entry.orig) - 1
    BY <1>2 DEF ReplStart, ReplEnd
  <1>4. Fires(Entry, c) <=> Later # {} /\ Valid
    BY <1>1, <1>2, <1>3 DEF Fires, Valid
  <1>5. After(Entry, c) = <<ReplEnd + 1, Replaced(subw, ReplStart, ReplEnd, Entry.repl), TRUE>>
    BY <1>1, <1>3 DEF After
  <1> QED BY <1>1, <1>2, <1>4, <1>5

\* Where an entry is allowed, it is found if it is not in front of findstart.
LEMMA AllowedIs ==
    ASSUME ThorInv, Single, NEW x \in Plain, NEW p \in Nat
    PROVE  Allowed(entries[1], x, p) <=>
              /\ Stands(entries[1], x, p)
              /\ entries[1].left = "begin" => p = 1
              /\ entries[1].left = "continue" => p > 1
              /\ entries[1].right = "end" => p + Len(entries[1].orig) - 1 = Len(x)
              /\ entries[1].right = "continue" => p + Len(entries[1].orig) - 1 < Len(x)
  BY SingleWords, OccurrenceStands DEF Allowed

\* Nothing stands in front of a word.
LEMMA NoneInFront ==
    ASSUME NEW e, NEW s, NEW p \in Nat, p < 1
    PROVE  ~Allowed(e, s, p)
  <1>1. PICK top : top = Len(s) - Len(e.orig) + 1
    OBVIOUS
  <1>2. Occurrences(s, e.orig) \subseteq 1..top
    BY <1>1 DEF Occurrences
  <1>3. p \notin 1..top
    OBVIOUS
  <1> QED BY <1>2, <1>3 DEF Allowed

\* A substitution.
LEMMA SubstituteThorough ==
    ASSUME ThorInv, Single, Complete(entries[1]), Substitute
    PROVE  ThorInv'
  <1>1. /\ pc = "call" /\ i = 1 /\ Later # {} /\ Valid
        /\ prevdsubw = None /\ findstart \in Nat \ {0} /\ subw \in Plain
        /\ doubtful => Ended(entries[1], w, suresubw)
    BY DEF ThorInv, Substitute, InCall, Single
  <1>2. PICK c : c = <<findstart, subw, subbed>>
    OBVIOUS
  <1>3. PICK e : e = entries[1]
    OBVIOUS
  <1>4. /\ Entry = e /\ e.orig \in Plain /\ Len(e.orig) \in Nat \ {0}
        /\ e.repl \in Plain /\ Len(e.repl) \in Nat \ {0} /\ IsEntry(e) /\ ~e.doubt
    BY <1>1, <1>2, <1>3, SingleWords, FiresIs DEF Single
  <1>5. PICK r : r = ReplStart
    OBVIOUS
  <1>6. /\ r \in Nat \ {0} /\ findstart <= r /\ Stands(e, subw, r)
        /\ ReplEnd = r + Len(e.orig) - 1 /\ ReplEnd \in Nat \ {0}
        /\ \A p \in Later : r <= p
    BY <1>1, <1>4, <1>5, LaterStands
  <1>7. PICK new : new = Replaced(subw, r, ReplEnd, e.repl)
    OBVIOUS
  <1>8. Fresh(new)
    BY <1>1 DEF Fresh
  <1>9. /\ subw' = new /\ subbed' = TRUE /\ findstart' = ReplEnd + 1 /\ w' = w
        /\ entries' = entries /\ i' = i /\ pc' = pc /\ doubtful' = doubtful
        /\ prevdsubw' = prevdsubw /\ suresubw' = suresubw
    <2>1. Fresh(Replaced(subw, ReplStart, ReplEnd, Entry.repl)) /\ ~Entry.doubt
      BY <1>4, <1>5, <1>7, <1>8
    <2> QED BY <1>4, <1>5, <1>7, <2>1 DEF Substitute, call
  <1>10. Leads(e, Start(w), <<findstart', subw', subbed'>>)
    <2>1. Leads(e, Start(w), c)
      BY <1>1, <1>2, <1>3 DEF ThorInv
    <2>2. Fires(e, c) /\ After(e, c) = <<ReplEnd + 1, new, TRUE>>
      BY <1>1, <1>2, <1>4, <1>5, <1>7, FiresIs
    <2> QED BY <1>9, <2>1, <2>2, LeadsOn
  <1>11. new \in Plain
    <2>1. r <= Len(subw) + 1 /\ r >= 1 /\ ReplEnd >= r - 1
      <3>1. Len(subw) \in Nat /\ r + Len(e.orig) - 1 <= Len(subw)
        BY <1>1, <1>6 DEF Stands, Plain
      <3> QED BY <1>4, <1>6, <3>1
    <2> QED BY <1>1, <1>4, <1>6, <1>7, <2>1, ReplacedParts DEF Parts
  <1>12. findstart' > 1 /\ findstart' \in Nat \ {0}
    BY <1>6, <1>9
  <1>13. ASSUME NEW p \in Nat, p < findstart', Allowed(e, new, p) PROVE FALSE
    <2>1. /\ Stands(e, new, p)
          /\ e.left = "begin" => p = 1
          /\ e.left = "continue" => p > 1
      BY <1>3, <1>11, <1>13, AllowedIs
    <2>2. p < r + Len(e.orig) /\ new = Replaced(subw, r, r + Len(e.orig) - 1, e.repl)
      BY <1>4, <1>6, <1>7, <1>9, <1>13
    <2>3. p + Len(e.orig) - 1 < r /\ Stands(e, subw, p)
      BY <1>1, <1>3, <1>4, <1>6, <2>1, <2>2, StoodBefore
    <2>4. p < r /\ r <= Len(subw) /\ Len(subw) \in Nat
      <3>1. r + Len(e.orig) - 1 <= Len(subw) /\ Len(subw) \in Nat
        BY <1>1, <1>6 DEF Stands, Plain
      <3> QED BY <1>4, <1>6, <2>3, <3>1
    <2>5. p < findstart
      <3>1. p \in Occurrences(subw, e.orig)
        BY <1>1, <1>4, <2>3, OccurrenceStands
      <3>2. p \notin Later
        BY <1>6, <2>4
      <3> QED BY <1>1, <1>4, <3>1, <3>2 DEF Later
    <2>6. Allowed(e, subw, p)
      <3>1. e.right # "end" /\ p + Len(e.orig) - 1 < Len(subw)
        BY <1>3, <1>4, <1>6, <2>3, <2>4 DEF Complete
      <3> QED BY <1>1, <1>3, <2>1, <2>3, <3>1, AllowedIs
    <2> QED BY <1>1, <1>3, <2>5, <2>6 DEF ThorInv
  <1>14. entries' = entries /\ (Single' <=> Single)
    BY <1>9 DEF Single
  <1>15. /\ Leads(entries'[1], Start(w'), <<findstart', subw', subbed'>>)
         /\ \A p \in Nat : p < findstart' => ~Allowed(entries'[1], subw', p)
    BY <1>3, <1>9, <1>10, <1>13
  <1> QED BY <1>1, <1>9, <1>11, <1>12, <1>14, <1>15 DEF ThorInv

\* The entry stands nowhere any more, or where it is not allowed.
LEMMA NextEntryThorough ==
    ASSUME ThorInv, Single, Complete(entries[1]), NextEntry
    PROVE  ThorInv'
  <1>1. /\ pc = "call" /\ i = 1 /\ (Later # {} => ~Valid)
        /\ findstart \in Nat \ {0} /\ subw \in Plain /\ subbed \in BOOLEAN
    BY DEF ThorInv, NextEntry, InCall, Single
  <1>2. PICK c : c = <<findstart, subw, subbed>>
    OBVIOUS
  <1>3. PICK e : e = entries[1]
    OBVIOUS
  <1>4. /\ Entry = e /\ e.orig \in Plain /\ Len(e.orig) \in Nat \ {0}
        /\ IsEntry(e)
    BY <1>1, <1>2, <1>3, SingleWords, FiresIs
  <1>5. Ended(e, w, subw)
    <2>1. Leads(e, Start(w), c)
      BY <1>1, <1>2, <1>3 DEF ThorInv
    <2>2. ~Fires(e, c) /\ c[2] = subw
      BY <1>1, <1>2, <1>4, FiresIs
    <2> QED BY <2>1, <2>2 DEF Ended
  <1>6. ASSUME NEW p \in Nat, Allowed(e, subw, p) PROVE FALSE
    <2>1. /\ Stands(e, subw, p)
          /\ e.left = "begin" => p = 1
          /\ e.right = "continue" => p + Len(e.orig) - 1 < Len(subw)
      BY <1>1, <1>3, <1>6, AllowedIs
    <2>2. p >= findstart
      <3>1. ~(p < findstart)
        BY <1>1, <1>3, <1>6 DEF ThorInv
      <3> QED BY <1>1, <3>1
    <2>3. p \in Later
      BY <1>1, <1>4, <2>1, <2>2, OccurrenceStands DEF Later
    <2>4. /\ ReplStart \in Nat \ {0} /\ findstart <= ReplStart /\ ReplStart <= p
          /\ ReplEnd = ReplStart + Len(e.orig) - 1
      BY <1>1, <1>4, <2>3, LaterStands
    <2>5. e.left # "continue" /\ e.right # "end" /\ (e.nochain => e.left = "begin")
      BY <1>3 DEF Complete
    <2>6. subbed => findstart > 1
      BY <1>1 DEF ThorInv
    <2>7. e.left = "begin" => ReplStart = 1 /\ p = 1
      BY <2>1, <2>4
    <2>8. e.right = "continue" => ReplEnd < Len(subw)
      <3>1. Len(subw) \in Nat
        BY <1>1 DEF Plain
      <3> QED BY <1>4, <2>1, <2>4, <3>1
    <2>9. e.nochain /\ e.left # "continue" => ~subbed
      BY <1>1, <2>4, <2>5, <2>6, <2>7
    <2>10. Valid
      BY <1>4, <2>5, <2>7, <2>8, <2>9 DEF Valid
    <2> QED BY <1>1, <2>3, <2>10
  <1>7. /\ subw' = subw /\ subbed' = subbed /\ findstart' = 1 /\ w' = w
        /\ entries' = entries /\ i' = 2 /\ pc' = pc /\ doubtful' = doubtful
        /\ prevdsubw' = prevdsubw /\ suresubw' = suresubw
    BY <1>1 DEF NextEntry, call
  <1>8. Ended(entries'[1], w', subw') /\ \A p \in Nat : ~Allowed(entries'[1], subw', p)
    BY <1>3, <1>5, <1>6, <1>7
  <1> QED BY <1>1, <1>7, <1>8 DEF ThorInv, Single

\* Orthography: a single entry that is not doubtful, has no < or ], does not get shorter and
\* does not meet its own replacement is substituted wherever its modifiers allow it (macra.lua
\* subword, issubvalid), however many calls.
THEOREM EntryIsThorough ==
    ASSUME \A list \in EntryLists : Len(list) = 1 /\ ~list[1].doubt => Complete(list[1])
    PROVE  Spec => []Thorough
  <1>1. Init => ThorInv
    <2> SUFFICES ASSUME Init PROVE ThorInv
      OBVIOUS
    <2>1. w \in Plain /\ entries \in EntryLists /\ subw = w
      BY SubWordAssumption DEF Init
    <2>2. ASSUME NEW p \in Nat, p < 1 PROVE ~Allowed(entries[1], subw, p)
      BY <2>2, NoneInFront
    <2>3. Leads(entries[1], Start(w), <<1, w, FALSE>>)
      BY DEF Leads, Start
    <2>4. /\ prevdsubw = None /\ i = 1 /\ findstart = 1 /\ subbed = FALSE /\ pc = "call"
          /\ w \in Words /\ doubtful = FALSE
      BY DEF Init, FirstEntry
    <2>5. Leads(entries[1], Start(w), <<findstart, subw, subbed>>)
      BY <2>1, <2>3, <2>4
    <2>6. \A p \in Nat : p < findstart => ~Allowed(entries[1], subw, p)
      BY <2>2, <2>4
    <2>7. ~subbed /\ ~doubtful /\ subbed \in BOOLEAN
      BY <2>4
    <2>8. i \in {1, 2} /\ i # 2 /\ findstart \in Nat \ {0} /\ pc # "returned"
      BY <2>4
    <2> QED BY <2>1, <2>4, <2>5, <2>6, <2>7, <2>8 DEF ThorInv
  <1>2. ThorInv /\ [Next]_vars => ThorInv'
    <2> SUFFICES ASSUME ThorInv, [Next]_vars PROVE ThorInv'
      OBVIOUS
    <2>1. CASE ~Single
      <3>1. entries' = entries /\ w' = w
        BY DEF Next, Substitute, NextEntry, Return, CallAgain, GiveUp, Find, vars, call
      <3> QED BY <2>1, <3>1 DEF ThorInv, Single
    <2>2. CASE Single
      <3>0. Complete(entries[1])
        BY <2>2 DEF ThorInv, Single
      <3>1. CASE Substitute
        BY <2>2, <3>0, <3>1, SubstituteThorough
      <3>2. CASE NextEntry
        BY <2>2, <3>0, <3>2, NextEntryThorough
      <3>3. CASE Return
        <4>1. /\ subw' = subw /\ subbed' = subbed /\ findstart' = findstart /\ w' = w
              /\ entries' = entries /\ i' = i /\ pc' = "returned" /\ doubtful' = doubtful
              /\ prevdsubw' = prevdsubw /\ suresubw' = (IF doubtful THEN suresubw ELSE subw)
              /\ pc = "call" /\ i = 2
          BY <2>2, <3>3 DEF Return, call, ThorInv, Single
        <4> QED BY <2>2, <4>1 DEF ThorInv, Single
      <3>4. CASE CallAgain
        <4>1. ~doubtful
          <5>1. ASSUME doubtful PROVE FALSE
            <6>1. pc = "returned" /\ subw # suresubw
              BY <3>4, <5>1 DEF CallAgain, IsNew
            <6>2. Ended(entries[1], w, subw) /\ Ended(entries[1], w, suresubw)
              BY <2>2, <5>1, <6>1 DEF ThorInv
            <6>3. Closed(entries[1], Configs)
              BY <2>2, SingleWords, ConfigsClosed
            <6>4. Start(w) \in Configs
              BY <2>2, SingleWords DEF Start, Configs
            <6> QED BY <6>1, <6>2, <6>3, <6>4, EndedOnce
          <5> QED BY <5>1
        <4>2. /\ subw' = w /\ subbed' = FALSE /\ findstart' = 1 /\ w' = w
              /\ entries' = entries /\ i' = 1 /\ pc' = "call" /\ doubtful' = TRUE
              /\ prevdsubw' = None /\ suresubw' = suresubw
          BY <3>4, <4>1 DEF CallAgain, Call, FirstEntry
        <4>3. Ended(entries[1], w, suresubw)
          BY <2>2, <3>4 DEF CallAgain, ThorInv
        <4>4. w \in Plain /\ Leads(entries[1], Start(w), <<1, w, FALSE>>)
          BY <2>2, SingleWords DEF Leads, Start
        <4>5. ASSUME NEW p \in Nat, p < 1 PROVE ~Allowed(entries[1], w, p)
          BY <4>5, NoneInFront
        <4>6. Leads(entries'[1], Start(w'), <<findstart', subw', subbed'>>)
          BY <4>2, <4>4
        <4>7. \A p \in Nat : p < findstart' => ~Allowed(entries'[1], subw', p)
          BY <4>2, <4>5
        <4>8. doubtful' \/ pc' = "returned" => Ended(entries'[1], w', suresubw')
          BY <4>2, <4>3
        <4>9. ~subbed' /\ subbed' \in BOOLEAN
          BY <4>2
        <4>10. i' \in {1, 2} /\ i' # 2 /\ findstart' \in Nat \ {0} /\ pc' # "returned"
          BY <4>2
        <4>11. subw' \in Plain /\ entries' \in EntryLists /\ w' \in Words /\ prevdsubw' = None
          BY <4>2, <4>4 DEF ThorInv
        <4> QED BY <4>6, <4>7, <4>8, <4>9, <4>10, <4>11 DEF ThorInv
      <3>5. CASE GiveUp
        BY <2>2, <3>5 DEF GiveUp, call, ThorInv, Single
      <3>6. CASE Find
        BY <2>2, <3>6 DEF Find, call, ThorInv, Single
      <3>7. CASE UNCHANGED vars
        BY <2>2, <3>7 DEF vars, call, ThorInv, Single
      <3> QED BY <3>1, <3>2, <3>3, <3>4, <3>5, <3>6, <3>7 DEF Next
    <2> QED BY <2>1, <2>2
  <1>3. ThorInv => Thorough
    BY DEF ThorInv, Thorough, Single
  <1> QED BY <1>1, <1>2, <1>3, PTL DEF Spec
============================================================================
