---------------------------- MODULE Scan_proofs ----------------------------
(***************************************************************************)
(* Proofs about module Scan: in a text of any length, in which ignorechars *)
(* cuts no word wrongly (Tidy), Macronize only adds flags and macrons and  *)
(* leaves words with macrons alone, no search ends in the middle of a      *)
(* character, and each round leaves less text to be searched.              *)
(*                                                                         *)
(* First come sequences of characters and of their bytes; then the kinds   *)
(* of characters and what Macronize puts in the place of a word; then the  *)
(* invariant, with a section for each of the scan's actions.               *)
(***************************************************************************)
EXTENDS Scan, SequenceTheorems, WellFoundedInduction, TLAPS

\* A non-empty set of numbers has a least one.
LEMMA LeastElement ==
    ASSUME NEW T, T \subseteq Nat, T # {}
    PROVE  \E n \in T : \A m \in T : n <= m
  <1>1. IsWellFoundedOn(OpToRel(<, Nat), Nat)
    BY NatLessThanWellFounded
  <1>2. PICK n \in T : \A m \in T : ~(<<m, n>> \in OpToRel(<, Nat))
    BY <1>1, WFMin, Zenon
  <1>3. ASSUME NEW m \in T PROVE n <= m
    <2>1. ~(m < n)
      BY <1>2 DEF OpToRel
    <2> QED BY <2>1
  <1> QED BY <1>3

\* Induction over the sequences that are built by appending, for a set in place of a
\* predicate.
LEMMA SeqInduct ==
    ASSUME NEW S, NEW P, << >> \in P,
           \A s \in Seq(S) : s \in P => \A c \in S : Append(s, c) \in P
    PROVE  \A s \in Seq(S) : s \in P
  <1> DEFINE Bad == {n \in Nat : \E s \in Seq(S) : Len(s) = n /\ s \notin P}
  <1>1. Bad = {}
    <2>1. SUFFICES ASSUME Bad # {} PROVE FALSE
      OBVIOUS
    <2>2. PICK n \in Bad : \A m \in Bad : n <= m
      <3>1. Bad \subseteq Nat
        OBVIOUS
      <3> HIDE DEF Bad
      <3> QED BY <2>1, <3>1, LeastElement
    <2>3. PICK s \in Seq(S) : Len(s) = n /\ s \notin P
      BY <2>2
    <2>4. n \in Nat /\ n # 0
      <3>1. Len(s) = 0 => s = << >>
        OBVIOUS
      <3> QED BY <2>3, <3>1
    <2>5. PICK f, c : f = SubSeq(s, 1, n - 1) /\ c = s[n]
      OBVIOUS
    <2>6. f \in Seq(S) /\ Len(f) = n - 1 /\ c \in S /\ s = Append(f, c)
      <3>1. f \in Seq(S) /\ Len(f) = n - 1 /\ \A i \in 1..(n - 1) : f[i] = s[i]
        BY <2>3, <2>4, <2>5
      <3>2. c \in S
        BY <2>3, <2>4, <2>5
      <3>3. Len(Append(f, c)) = n /\ \A i \in 1..n : Append(f, c)[i] = s[i]
        BY <2>3, <2>4, <2>5, <3>1, <3>2
      <3>4. Append(f, c) \in Seq(S)
        BY <3>1, <3>2
      <3> QED BY <2>3, <3>1, <3>2, <3>3, <3>4
    <2>7. f \in P
      <3>1. n - 1 \in Nat /\ ~(n <= n - 1)
        BY <2>4
      <3>2. n - 1 \notin Bad
        BY <2>2, <3>1, Zenon
      <3> QED BY <2>6, <3>1, <3>2
    <2> QED BY <2>3, <2>6, <2>7
  <1>2. ASSUME NEW s \in Seq(S) PROVE s \in P
    <2>1. Len(s) \in Nat /\ Len(s) \notin Bad
      BY <1>1
    <2> QED BY <2>1
  <1> QED BY <1>2
----------------------------------------------------------------------------
\* Sequences put together.

LEMMA ConcatIs ==
    ASSUME NEW S, NEW p \in Seq(S), NEW q \in Seq(S)
    PROVE  /\ p \o q \in Seq(S) /\ Len(p) \in Nat /\ Len(q) \in Nat
           /\ Len(p \o q) = Len(p) + Len(q) /\ Len(p \o q) \in Nat
           /\ \A i \in 1..Len(p) : (p \o q)[i] = p[i] /\ i \in 1..Len(p \o q)
           /\ \A k \in 1..Len(q) : (p \o q)[Len(p) + k] = q[k] /\ Len(p) + k \in 1..Len(p \o q)
           /\ \A i \in 1..Len(p \o q) : i \in 1..Len(p) \/ \E k \in 1..Len(q) : i = Len(p) + k
  <1>1. PICK r : r = p \o q
    OBVIOUS
  <1>2. /\ r \in Seq(S) /\ Len(p) \in Nat /\ Len(q) \in Nat /\ Len(r) = Len(p) + Len(q)
        /\ \A i \in 1..Len(p) : r[i] = p[i]
    BY <1>1
  <1>3. ASSUME NEW k \in 1..Len(q) PROVE r[Len(p) + k] = q[k]
    <2>1. PICK m : m = Len(p) + k
      OBVIOUS
    <2>2. m \in 1..(Len(p) + Len(q)) /\ ~(m <= Len(p)) /\ m - Len(p) = k
      BY <1>2, <2>1
    <2>3. r[m] = q[m - Len(p)]
      BY <1>1, <2>2
    <2> QED BY <2>1, <2>2, <2>3
  <1>4. ASSUME NEW i \in 1..Len(r) PROVE i \in 1..Len(p) \/ \E k \in 1..Len(q) : i = Len(p) + k
    <2>1. CASE i <= Len(p)
      BY <1>2, <2>1
    <2>2. CASE ~(i <= Len(p))
      <3>1. PICK k : k = i - Len(p)
        OBVIOUS
      <3>2. k \in 1..Len(q) /\ i = Len(p) + k
        BY <1>2, <2>2, <3>1
      <3> QED BY <3>2
    <2> QED BY <2>1, <2>2
  <1>5. /\ \A i \in 1..Len(p) : i \in 1..Len(r)
        /\ \A k \in 1..Len(q) : Len(p) + k \in 1..Len(r)
    BY <1>2
  <1> QED BY <1>1, <1>2, <1>3, <1>4, <1>5

LEMMA ConcatEqual ==
    ASSUME NEW S, NEW p \in Seq(S), NEW q \in Seq(S), NEW r \in Seq(S),
           Len(r) = Len(p) + Len(q),
           \A i \in 1..Len(p) : r[i] = p[i],
           \A k \in 1..Len(q) : r[Len(p) + k] = q[k]
    PROVE  r = p \o q
  <1>1. PICK u : u = p \o q
    OBVIOUS
  <1>2. /\ u \in Seq(S) /\ Len(u) = Len(r)
        /\ \A i \in 1..Len(p) : u[i] = p[i]
        /\ \A k \in 1..Len(q) : u[Len(p) + k] = q[k]
        /\ \A i \in 1..Len(u) : i \in 1..Len(p) \/ \E k \in 1..Len(q) : i = Len(p) + k
    BY <1>1, ConcatIs
  <1>3. \A i \in 1..Len(u) : r[i] = u[i]
    BY <1>2
  <1> QED BY <1>1, <1>2, <1>3
----------------------------------------------------------------------------
\* FlattenSeq.

Flattens(f, u) == u = [i \in 1..Len(f) |-> IF i = 1 THEN f[i] ELSE u[i - 1] \o f[i]]

\* A function that continues u by one.
LEMMA FlattenFurther ==
    ASSUME NEW S, NEW f \in Seq(Seq(S)), NEW x \in Seq(S), NEW u, Flattens(f, u)
    PROVE  \E v : /\ Flattens(Append(f, x), v)
                  /\ v[Len(f) + 1] = IF Len(f) = 0 THEN x ELSE u[Len(f)] \o x
  <1>1. PICK n : n = Len(f) + 1
    OBVIOUS
  <1>2. PICK g : g = Append(f, x)
    OBVIOUS
  <1>3. /\ Len(f) \in Nat /\ n \in Nat /\ Len(g) = n /\ g[n] = x
        /\ \A i \in 1..Len(f) : g[i] = f[i]
    BY <1>1, <1>2
  <1>4. PICK y : y = IF Len(f) = 0 THEN x ELSE u[Len(f)] \o x
    OBVIOUS
  <1>5. PICK v : v = [i \in 1..n |-> IF i = n THEN y ELSE u[i]]
    OBVIOUS
  <1>6. v[n] = y /\ \A i \in 1..Len(f) : v[i] = u[i]
    BY <1>1, <1>3, <1>5
  <1>7. ASSUME NEW i \in 1..n PROVE v[i] = IF i = 1 THEN g[i] ELSE v[i - 1] \o g[i]
    <2>1. CASE i = n
      <3>1. CASE n = 1
        BY <1>1, <1>3, <1>4, <1>6, <2>1, <3>1
      <3>2. CASE n # 1
        <4>1. n - 1 = Len(f) /\ Len(f) # 0 /\ n - 1 \in 1..Len(f)
          BY <1>1, <1>3, <3>2
        <4> QED BY <1>3, <1>4, <1>6, <2>1, <3>2, <4>1
      <3> QED BY <3>1, <3>2
    <2>2. CASE i # n
      <3>1. i \in 1..Len(f) /\ (i = 1 \/ i - 1 \in 1..Len(f))
        BY <1>1, <1>3, <2>2
      <3>2. u[i] = IF i = 1 THEN f[i] ELSE u[i - 1] \o f[i]
        BY <3>1, Zenon DEF Flattens
      <3> QED BY <1>3, <1>6, <3>1, <3>2
    <2> QED BY <2>1, <2>2
  <1>8. v = [i \in 1..n |-> IF i = 1 THEN g[i] ELSE v[i - 1] \o g[i]]
    <2>1. v = [i \in 1..n |-> v[i]]
      BY <1>5
    <2> QED BY <1>7, <2>1
  <1>9. Flattens(g, v)
    BY <1>3, <1>8 DEF Flattens
  <1> QED BY <1>1, <1>2, <1>4, <1>6, <1>9

LEMMA FlattenExists ==
    ASSUME NEW S
    PROVE  \A f \in Seq(Seq(S)) : \E u : Flattens(f, u)
  <1> DEFINE P == {f \in Seq(Seq(S)) : \E u : Flattens(f, u)}
  <1>1. << >> \in P
    <2>1. PICK u : u = [i \in {} |-> i]
      OBVIOUS
    <2>2. Flattens(<< >>, u)
      <3>1. 1..Len(<< >>) = {}
        OBVIOUS
      <3> QED BY <2>1, <3>1 DEF Flattens
    <2> QED BY <2>2
  <1>2. ASSUME NEW f \in Seq(Seq(S)), f \in P, NEW x \in Seq(S)
        PROVE  Append(f, x) \in P
    BY <1>2, FlattenFurther
  <1>3. \A f \in Seq(Seq(S)) : f \in P
    <2> HIDE DEF P
    <2> QED BY <1>1, <1>2, SeqInduct
  <1> QED BY <1>3

\* There is only one.
LEMMA FlattenUnique ==
    ASSUME NEW f, Len(f) \in Nat, NEW u, Flattens(f, u), NEW v, Flattens(f, v)
    PROVE  u = v
  <1> DEFINE Bad == {n \in 1..Len(f) : u[n] # v[n]}
  <1>1. Bad = {}
    <2>1. SUFFICES ASSUME Bad # {} PROVE FALSE
      OBVIOUS
    <2>2. PICK n \in Bad : \A m \in Bad : n <= m
      <3>1. Bad \subseteq Nat
        OBVIOUS
      <3> HIDE DEF Bad
      <3> QED BY <2>1, <3>1, LeastElement
    <2>3. n \in 1..Len(f) /\ u[n] # v[n]
      BY <2>2
    <2>4. /\ u[n] = IF n = 1 THEN f[n] ELSE u[n - 1] \o f[n]
          /\ v[n] = IF n = 1 THEN f[n] ELSE v[n - 1] \o f[n]
      BY <2>3, Zenon DEF Flattens
    <2>5. n # 1
      BY <2>3, <2>4
    <2>6. n - 1 \in 1..Len(f) /\ ~(n <= n - 1)
      BY <2>3, <2>5
    <2>7. n - 1 \notin Bad
      BY <2>2, <2>6, Zenon
    <2> QED BY <2>3, <2>4, <2>5, <2>6, <2>7
  <1>2. u = [i \in 1..Len(f) |-> u[i]] /\ v = [i \in 1..Len(f) |-> v[i]]
    BY DEF Flattens
  <1> QED BY <1>1, <1>2

LEMMA FlattenIs ==
    ASSUME NEW S, NEW f \in Seq(Seq(S)), NEW u, Flattens(f, u)
    PROVE  FlattenSeq(f) = IF Len(f) = 0 THEN << >> ELSE u[Len(f)]
  <1>1. Len(f) \in Nat /\ (Len(f) = 0 => f = << >>)
    OBVIOUS
  <1>2. Flattens(f, CHOOSE v : Flattens(f, v))
    OBVIOUS
  <1>3. u = CHOOSE v : Flattens(f, v)
    BY <1>1, <1>2, FlattenUnique
  <1> QED BY <1>1, <1>3 DEF FlattenSeq, Flattens

LEMMA FlattenAppend ==
    ASSUME NEW S, NEW f \in Seq(Seq(S)), NEW x \in Seq(S), FlattenSeq(f) \in Seq(S)
    PROVE  FlattenSeq(Append(f, x)) = FlattenSeq(f) \o x
  <1>1. PICK u : Flattens(f, u)
    BY FlattenExists
  <1>2. PICK v : /\ Flattens(Append(f, x), v)
                 /\ v[Len(f) + 1] = IF Len(f) = 0 THEN x ELSE u[Len(f)] \o x
    BY <1>1, FlattenFurther
  <1>3. FlattenSeq(f) = IF Len(f) = 0 THEN << >> ELSE u[Len(f)]
    BY <1>1, FlattenIs
  <1>4. PICK g : g = Append(f, x)
    OBVIOUS
  <1>5. g \in Seq(Seq(S)) /\ Len(g) = Len(f) + 1 /\ Len(f) \in Nat
    BY <1>4
  <1>6. FlattenSeq(g) = v[Len(f) + 1]
    <2>1. FlattenSeq(g) = IF Len(g) = 0 THEN << >> ELSE v[Len(g)]
      BY <1>2, <1>4, <1>5, FlattenIs
    <2> QED BY <1>5, <2>1
  <1>7. << >> \o x = x
    OBVIOUS
  <1> QED BY <1>2, <1>3, <1>4, <1>6, <1>7

LEMMA FlattenType ==
    ASSUME NEW S
    PROVE  \A f \in Seq(Seq(S)) : FlattenSeq(f) \in Seq(S)
  <1> DEFINE P == {f \in Seq(Seq(S)) : FlattenSeq(f) \in Seq(S)}
  <1>1. << >> \in P
    <2>1. PICK e : e = << >>
      OBVIOUS
    <2>2. FlattenSeq(e) = << >> /\ e \in Seq(Seq(S)) /\ << >> \in Seq(S)
      BY <2>1 DEF FlattenSeq
    <2>3. e \in P
      BY <2>2
    <2> QED BY <2>1, <2>3
  <1>2. ASSUME NEW f \in Seq(Seq(S)), f \in P, NEW x \in Seq(S)
        PROVE  Append(f, x) \in P
    <2>1. PICK g, y : g = Append(f, x) /\ y = FlattenSeq(f)
      OBVIOUS
    <2>2. g \in Seq(Seq(S)) /\ y \in Seq(S)
      BY <1>2, <2>1
    <2>3. FlattenSeq(g) = y \o x
      BY <2>1, <2>2, FlattenAppend
    <2>4. y \o x \in Seq(S)
      BY <2>2
    <2>5. g \in P
      BY <2>2, <2>3, <2>4
    <2> QED BY <2>1, <2>5
  <1>3. \A f \in Seq(Seq(S)) : f \in P
    <2> HIDE DEF P
    <2> QED BY <1>1, <1>2, SeqInduct
  <1> QED BY <1>3

LEMMA Associates ==
    ASSUME NEW S, NEW p \in Seq(S), NEW q \in Seq(S), NEW r \in Seq(S)
    PROVE  (p \o q) \o r = p \o (q \o r) /\ p \o q \in Seq(S) /\ q \o r \in Seq(S)
           /\ (p \o q) \o r \in Seq(S)
  OBVIOUS

LEMMA FlattenConcat ==
    ASSUME NEW S, NEW f \in Seq(Seq(S))
    PROVE  \A g \in Seq(Seq(S)) : FlattenSeq(f \o g) = FlattenSeq(f) \o FlattenSeq(g)
  <1> DEFINE P == {g \in Seq(Seq(S)) : FlattenSeq(f \o g) = FlattenSeq(f) \o FlattenSeq(g)}
  <1>1. << >> \in P
    <2>1. PICK e : e = << >>
      OBVIOUS
    <2>2. FlattenSeq(e) = << >> /\ e \in Seq(Seq(S)) /\ f \o e = f
      BY <2>1 DEF FlattenSeq
    <2>3. FlattenSeq(f) \in Seq(S)
      BY FlattenType
    <2>4. FlattenSeq(f) \o << >> = FlattenSeq(f)
      BY <2>3
    <2>5. e \in P
      BY <2>2, <2>4
    <2> QED BY <2>1, <2>5
  <1>2. ASSUME NEW g \in Seq(Seq(S)), g \in P, NEW x \in Seq(S)
        PROVE  Append(g, x) \in P
    <2>1. PICK h, a, b, c : /\ h = Append(g, x) /\ a = FlattenSeq(f) /\ b = FlattenSeq(g)
                            /\ c = f \o g
      OBVIOUS
    <2>2. /\ h \in Seq(Seq(S)) /\ a \in Seq(S) /\ b \in Seq(S) /\ c \in Seq(Seq(S))
          /\ FlattenSeq(c) = a \o b
      BY <1>2, <2>1, FlattenType
    <2>3. FlattenSeq(h) = b \o x
      BY <2>1, <2>2, FlattenAppend
    <2>4. f \o h = Append(c, x)
      BY <2>1
    <2>5. FlattenSeq(Append(c, x)) = FlattenSeq(c) \o x
      BY <2>2, FlattenType, FlattenAppend
    <2>6. (a \o b) \o x = a \o (b \o x)
      <3>1. a \in Seq(S) /\ b \in Seq(S) /\ x \in Seq(S)
        BY <2>2
      <3> HIDE DEF P
      <3> QED BY <3>1
    <2>7. FlattenSeq(f \o h) = a \o FlattenSeq(h)
      BY <2>2, <2>3, <2>4, <2>5, <2>6
    <2>8. h \in P
      BY <2>1, <2>2, <2>7
    <2> QED BY <2>1, <2>8
  <1>3. \A g \in Seq(Seq(S)) : g \in P
    <2> HIDE DEF P
    <2> QED BY <1>1, <1>2, SeqInduct
  <1> QED BY <1>3

\* One piece.
LEMMA FlattenOne ==
    ASSUME NEW S, NEW x \in Seq(S)
    PROVE  FlattenSeq(<<x>>) = x
  <1>1. PICK e : e = << >>
    OBVIOUS
  <1>2. FlattenSeq(e) = << >> /\ e \in Seq(Seq(S)) /\ << >> \in Seq(S)
    BY <1>1 DEF FlattenSeq
  <1>3. FlattenSeq(Append(e, x)) = << >> \o x
    BY <1>2, FlattenAppend
  <1>4. Append(e, x) = <<x>> /\ << >> \o x = x
    BY <1>1
  <1> QED BY <1>3, <1>4
----------------------------------------------------------------------------
\* Characters and bytes.

ByteSet(T) == T \X (1..3)

\* The bytes of one character.
Wide(c) == [k \in 1..Width[c] |-> <<c, k>>]

LEMMA WidthIs ==
    \A c \in Char : Width[c] \in 1..3 /\ Width[c] \in Nat
  BY ScanAssumption

LEMMA WideIs ==
    ASSUME NEW T, T \subseteq Char, NEW c \in T
    PROVE  /\ Wide(c) \in Seq(ByteSet(T)) /\ Len(Wide(c)) = Width[c] /\ Width[c] \in 1..3
           /\ Wide(c)[1] = <<c, 1>>
           /\ \A k \in 1..Width[c] : Wide(c)[k] = <<c, k>>
  <1>1. Width[c] \in 1..3
    BY ScanAssumption
  <1>2. PICK n, x : n = Width[c] /\ x = Wide(c)
    OBVIOUS
  <1>3. x = [k \in 1..n |-> <<c, k>>] /\ n \in 1..3
    BY <1>1, <1>2 DEF Wide
  <1>4. \A k \in 1..n : x[k] = <<c, k>> /\ <<c, k>> \in ByteSet(T)
    BY <1>3 DEF ByteSet
  <1>5. x \in Seq(ByteSet(T)) /\ Len(x) = n
    BY <1>3, <1>4
  <1> QED BY <1>2, <1>3, <1>4, <1>5

Pieces(s) == [i \in DOMAIN s |-> Wide(s[i])]

LEMMA BytesIs ==
    ASSUME NEW s
    PROVE  Bytes(s) = FlattenSeq(Pieces(s))
  BY DEF Bytes, Pieces, Wide

LEMMA PiecesIs ==
    ASSUME NEW T, T \subseteq Char, NEW s \in Seq(T)
    PROVE  /\ Pieces(s) \in Seq(Seq(ByteSet(T))) /\ Len(Pieces(s)) = Len(s)
           /\ \A i \in 1..Len(s) : Pieces(s)[i] = Wide(s[i])
  <1>1. Len(s) \in Nat /\ DOMAIN s = 1..Len(s) /\ \A i \in 1..Len(s) : s[i] \in T
    OBVIOUS
  <1>2. PICK p : p = Pieces(s)
    OBVIOUS
  <1>3. p = [i \in 1..Len(s) |-> Wide(s[i])]
    BY <1>1, <1>2 DEF Pieces
  <1>4. \A i \in 1..Len(s) : p[i] = Wide(s[i]) /\ p[i] \in Seq(ByteSet(T))
    BY <1>1, <1>3, WideIs
  <1> QED BY <1>1, <1>2, <1>3, <1>4

LEMMA BytesType ==
    ASSUME NEW T, T \subseteq Char, NEW s \in Seq(T)
    PROVE  Bytes(s) \in Seq(ByteSet(T)) /\ Len(Bytes(s)) \in Nat
  <1>1. Bytes(s) \in Seq(ByteSet(T))
    BY BytesIs, PiecesIs, FlattenType
  <1> QED BY <1>1

LEMMA BytesConcat ==
    ASSUME NEW s \in Seq(Char), NEW t \in Seq(Char)
    PROVE  /\ s \o t \in Seq(Char)
           /\ Bytes(s \o t) = Bytes(s) \o Bytes(t)
           /\ Len(Bytes(s \o t)) = Len(Bytes(s)) + Len(Bytes(t))
  <1>1. PICK u, p, q, r : u = s \o t /\ p = Pieces(s) /\ q = Pieces(t) /\ r = Pieces(u)
    OBVIOUS
  <1>2. /\ u \in Seq(Char) /\ Len(u) = Len(s) + Len(t) /\ Len(s) \in Nat /\ Len(t) \in Nat
        /\ \A i \in 1..Len(s) : u[i] = s[i] /\ i \in 1..Len(u)
        /\ \A i \in 1..Len(t) : u[Len(s) + i] = t[i] /\ Len(s) + i \in 1..Len(u)
    BY <1>1
  <1>3. /\ p \in Seq(Seq(ByteSet(Char))) /\ q \in Seq(Seq(ByteSet(Char)))
        /\ r \in Seq(Seq(ByteSet(Char)))
        /\ Len(p) = Len(s) /\ Len(q) = Len(t) /\ Len(r) = Len(u)
        /\ \A i \in 1..Len(s) : p[i] = Wide(s[i])
        /\ \A i \in 1..Len(t) : q[i] = Wide(t[i])
        /\ \A i \in 1..Len(u) : r[i] = Wide(u[i])
    BY <1>1, <1>2, PiecesIs
  <1>4. r = p \o q
    <2>1. Len(r) = Len(p) + Len(q) /\ \A i \in 1..Len(p) : r[i] = p[i]
      BY <1>2, <1>3
    <2>2. \A k \in 1..Len(q) : r[Len(p) + k] = q[k]
      BY <1>2, <1>3
    <2> QED BY <1>3, <2>1, <2>2, ConcatEqual
  <1>5. Bytes(u) = Bytes(s) \o Bytes(t)
    BY <1>1, <1>3, <1>4, BytesIs, FlattenConcat
  <1>6. Bytes(s) \in Seq(ByteSet(Char)) /\ Bytes(t) \in Seq(ByteSet(Char))
    BY BytesType
  <1>7. PICK a, b : a = Bytes(s) /\ b = Bytes(t)
    OBVIOUS
  <1>8. Len(a \o b) = Len(a) + Len(b)
    BY <1>6, <1>7
  <1> QED BY <1>1, <1>2, <1>5, <1>7, <1>8

LEMMA BytesSmall ==
    /\ Bytes(<< >>) = << >> /\ Len(Bytes(<< >>)) = 0
    /\ \A c \in Char : Bytes(<<c>>) = Wide(c)
  <1>1. Bytes(<< >>) = << >>
    <2>1. PICK e : e = << >>
      OBVIOUS
    <2>2. e \in Seq(Char) /\ Len(e) = 0
      BY <2>1
    <2>3. Len(Pieces(e)) = 0 /\ Pieces(e) \in Seq(Seq(ByteSet(Char)))
      BY <2>2, PiecesIs
    <2>4. Pieces(e) = << >>
      BY <2>3
    <2> QED BY <2>1, <2>4, BytesIs DEF FlattenSeq
  <1>2. ASSUME NEW c \in Char PROVE Bytes(<<c>>) = Wide(c)
    <2>1. PICK s : s = <<c>>
      OBVIOUS
    <2>2. s \in Seq(Char) /\ Len(s) = 1 /\ s[1] = c
      BY <2>1
    <2>3. PICK p : p = Pieces(s)
      OBVIOUS
    <2>4. Len(p) = 1 /\ p[1] = Wide(c) /\ p \in Seq(Seq(ByteSet(Char)))
      BY <2>2, <2>3, PiecesIs
    <2>5. p = <<Wide(c)>>
      BY <2>4
    <2>6. Wide(c) \in Seq(ByteSet(Char))
      BY WideIs
    <2> QED BY <2>1, <2>3, <2>5, <2>6, BytesIs, FlattenOne
  <1> QED BY <1>1, <1>2
----------------------------------------------------------------------------
\* Selected.

Both(S, T) == S \cap T

IfIn(c, T) == IF c \in T THEN <<c>> ELSE << >>

LEMMA IfInIs ==
    ASSUME NEW S, NEW T, NEW c \in S
    PROVE  IfIn(c, T) \in Seq(Both(S, T))
  <1>1. CASE c \in T
    <2>1. c \in Both(S, T)
      BY <1>1 DEF Both
    <2>2. <<c>> \in Seq(Both(S, T))
      BY <2>1
    <2>3. IfIn(c, T) = <<c>>
      BY <1>1, Zenon DEF IfIn
    <2> QED BY <2>2, <2>3
  <1>2. CASE c \notin T
    <2>1. << >> \in Seq(Both(S, T))
      OBVIOUS
    <2>2. IfIn(c, T) = << >>
      BY <1>2, Zenon DEF IfIn
    <2> QED BY <2>1, <2>2
  <1> QED BY <1>1, <1>2

Picked(s, T) == [i \in DOMAIN s |-> IfIn(s[i], T)]

LEMMA SelectedIs ==
    ASSUME NEW s, NEW T
    PROVE  Selected(s, T) = FlattenSeq(Picked(s, T))
  BY DEF Selected, Picked, IfIn

LEMMA PickedIs ==
    ASSUME NEW S, NEW T, NEW s \in Seq(S), NEW p, p = Picked(s, T)
    PROVE  /\ p \in Seq(Seq(Both(S, T))) /\ Len(p) = Len(s)
           /\ \A i \in 1..Len(s) : p[i] = IfIn(s[i], T)
  <1>1. Len(s) \in Nat /\ DOMAIN s = 1..Len(s) /\ \A i \in 1..Len(s) : s[i] \in S
    OBVIOUS
  <1>2. p = [i \in 1..Len(s) |-> IfIn(s[i], T)]
    BY <1>1 DEF Picked
  <1>3. \A i \in 1..Len(s) : p[i] = IfIn(s[i], T)
    BY <1>2
  <1>4. \A i \in 1..Len(s) : p[i] \in Seq(Both(S, T))
    BY <1>1, <1>3, IfInIs
  <1> QED BY <1>1, <1>2, <1>3, <1>4

LEMMA SelectedType ==
    ASSUME NEW S, NEW T, NEW s \in Seq(S)
    PROVE  Selected(s, T) \in Seq(Both(S, T))
  BY SelectedIs, PickedIs, FlattenType, Zenon

LEMMA SelectedConcat ==
    ASSUME NEW S, NEW T, NEW s \in Seq(S), NEW t \in Seq(S)
    PROVE  Selected(s \o t, T) = Selected(s, T) \o Selected(t, T)
  <1>1. PICK u, p, q, r : /\ u = s \o t /\ p = Picked(s, T) /\ q = Picked(t, T)
                          /\ r = Picked(u, T)
    OBVIOUS
  <1>2. /\ u \in Seq(S) /\ Len(u) = Len(s) + Len(t) /\ Len(s) \in Nat /\ Len(t) \in Nat
        /\ \A i \in 1..Len(s) : u[i] = s[i] /\ i \in 1..Len(u)
        /\ \A i \in 1..Len(t) : u[Len(s) + i] = t[i] /\ Len(s) + i \in 1..Len(u)
    BY <1>1, ConcatIs
  <1>3. /\ p \in Seq(Seq(Both(S, T))) /\ q \in Seq(Seq(Both(S, T))) /\ r \in Seq(Seq(Both(S, T)))
        /\ Len(p) = Len(s) /\ Len(q) = Len(t) /\ Len(r) = Len(u)
        /\ \A i \in 1..Len(s) : p[i] = IfIn(s[i], T)
        /\ \A i \in 1..Len(t) : q[i] = IfIn(t[i], T)
        /\ \A i \in 1..Len(u) : r[i] = IfIn(u[i], T)
    <2>1. /\ p \in Seq(Seq(Both(S, T))) /\ Len(p) = Len(s)
          /\ \A i \in 1..Len(s) : p[i] = IfIn(s[i], T)
      BY <1>1, PickedIs
    <2>2. /\ q \in Seq(Seq(Both(S, T))) /\ Len(q) = Len(t)
          /\ \A i \in 1..Len(t) : q[i] = IfIn(t[i], T)
      BY <1>1, PickedIs
    <2>3. /\ r \in Seq(Seq(Both(S, T))) /\ Len(r) = Len(u)
          /\ \A i \in 1..Len(u) : r[i] = IfIn(u[i], T)
      <3>1. u \in Seq(S) /\ r = Picked(u, T)
        BY <1>1, <1>2
      <3> QED BY <3>1, PickedIs
    <2> QED BY <2>1, <2>2, <2>3
  <1>4. r = p \o q
    <2>1. Len(r) = Len(p) + Len(q) /\ \A i \in 1..Len(p) : r[i] = p[i]
      BY <1>2, <1>3
    <2>2. \A k \in 1..Len(q) : r[Len(p) + k] = q[k]
      BY <1>2, <1>3
    <2> QED BY <1>3, <2>1, <2>2, ConcatEqual
  <1> QED BY <1>1, <1>3, <1>4, SelectedIs, FlattenConcat

LEMMA SelectedSmall ==
    ASSUME NEW T
    PROVE  /\ Selected(<< >>, T) = << >>
           /\ \A c : Selected(<<c>>, T) = IfIn(c, T)
  <1>1. Selected(<< >>, T) = << >>
    <2>1. PICK e, E : e = << >> /\ E = {}
      OBVIOUS
    <2>2. e \in Seq(E) /\ Len(e) = 0
      BY <2>1
    <2>3. PICK p : p = Picked(e, T)
      OBVIOUS
    <2>4. p \in Seq(Seq(Both(E, T))) /\ Len(p) = Len(e)
      <3>1. e \in Seq(E) /\ p = Picked(e, T)
        BY <2>2, <2>3
      <3> QED BY <3>1, PickedIs
    <2>5. p = << >>
      BY <2>2, <2>4
    <2>6. FlattenSeq(p) = << >>
      BY <2>5 DEF FlattenSeq
    <2> QED BY <2>1, <2>3, <2>6, SelectedIs
  <1>2. ASSUME NEW c PROVE Selected(<<c>>, T) = IfIn(c, T)
    <2>1. PICK s, x, C : s = <<c>> /\ x = IfIn(c, T) /\ C = {c}
      OBVIOUS
    <2>2. s \in Seq(C) /\ Len(s) = 1 /\ s[1] = c /\ c \in C
      BY <2>1
    <2>3. PICK p : p = Picked(s, T)
      OBVIOUS
    <2>4. /\ p \in Seq(Seq(Both(C, T))) /\ Len(p) = Len(s)
          /\ \A i \in 1..Len(s) : p[i] = IfIn(s[i], T)
      BY <2>2, <2>3, PickedIs
    <2>5. Len(p) = 1 /\ p[1] = x
      BY <2>1, <2>2, <2>4
    <2>6. x \in Seq(Both(C, T))
      BY <2>1, <2>2, IfInIs
    <2>7. p = <<x>>
      BY <2>4, <2>5
    <2> QED BY <2>1, <2>3, <2>6, <2>7, SelectedIs, FlattenOne
  <1> QED BY <1>1, <1>2

LEMMA SelectedAll ==
    ASSUME NEW T
    PROVE  \A s \in Seq(T) : Selected(s, T) = s
  <1> DEFINE P == {s \in Seq(T) : Selected(s, T) = s}
  <1>1. << >> \in P
    BY SelectedSmall
  <1>2. ASSUME NEW s \in Seq(T), s \in P, NEW c \in T PROVE Append(s, c) \in P
    <2>1. PICK t, u : t = <<c>> /\ u = s \o t
      OBVIOUS
    <2>2. t \in Seq(T) /\ u \in Seq(T) /\ u = Append(s, c)
      BY <2>1
    <2>3. Selected(t, T) = t
      BY <2>1, SelectedSmall, Zenon DEF IfIn
    <2>4. Selected(u, T) = s \o t
      <3>1. Selected(s \o t, T) = Selected(s, T) \o Selected(t, T)
        BY <2>2, SelectedConcat, Zenon
      <3> QED BY <1>2, <2>1, <2>3, <3>1
    <2> QED BY <2>1, <2>2, <2>4
  <1>3. \A s \in Seq(T) : s \in P
    <2> HIDE DEF P
    <2> QED BY <1>1, <1>2, SeqInduct
  <1> QED BY <1>3

LEMMA SelectedNone ==
    ASSUME NEW T, NEW S, \A c \in S : c \notin T
    PROVE  \A s \in Seq(S) : Selected(s, T) = << >>
  <1>1. ASSUME NEW s \in Seq(S) PROVE Selected(s, T) = << >>
    <2>1. PICK x : x = Selected(s, T)
      OBVIOUS
    <2>2. x \in Seq(Both(S, T))
      BY <2>1, SelectedType
    <2>3. Len(x) = 0
      <3>1. \A i \in 1..Len(x) : x[i] \in Both(S, T)
        BY <2>2
      <3>2. \A c : c \notin Both(S, T)
        BY DEF Both
      <3> QED BY <2>2, <3>1, <3>2
    <2> QED BY <2>1, <2>2, <2>3
  <1> QED BY <1>1
----------------------------------------------------------------------------
\* Cutting.

LEMMA MinMax ==
    ASSUME NEW a \in Int, NEW b \in Int
    PROVE  /\ Max({a, b}) = IF a <= b THEN b ELSE a
           /\ Min({a, b}) = IF a <= b THEN a ELSE b
  <1>1. PICK m : m = IF a <= b THEN b ELSE a
    OBVIOUS
  <1>2. m \in {a, b} /\ \A y \in {a, b} : m >= y
    BY <1>1
  <1>3. \A x \in {a, b} : (\A y \in {a, b} : x >= y) => x = m
    BY <1>1
  <1>4. PICK n : n = IF a <= b THEN a ELSE b
    OBVIOUS
  <1>5. n \in {a, b} /\ \A y \in {a, b} : n <= y
    BY <1>4
  <1>6. \A x \in {a, b} : (\A y \in {a, b} : x <= y) => x = n
    BY <1>4
  <1>7. Max({a, b}) = m
    BY <1>2, <1>3 DEF Max
  <1>8. Min({a, b}) = n
    BY <1>5, <1>6 DEF Min
  <1> QED BY <1>1, <1>4, <1>7, <1>8

LEMMA CutIs ==
    ASSUME NEW S, NEW s \in Seq(S), NEW i \in Int, NEW j \in Int
    PROVE  /\ 1 <= i /\ j <= Len(s) => Cut(s, i, j) = SubSeq(s, i, j)
           /\ 1 <= i => Behind(s, i) = SubSeq(s, i, Len(s))
  <1>1. PICK n : n = Len(s)
    OBVIOUS
  <1>2. n \in Nat
    BY <1>1
  <1>3. 1 <= i => Max({1, i}) = i
    BY MinMax
  <1>4. (j <= n => Min({j, n}) = j) /\ Min({n, n}) = n
    <2>1. n \in Int /\ n <= n
      BY <1>2
    <2>2. Min({j, n}) = IF j <= n THEN j ELSE n
      BY <2>1, MinMax
    <2>3. Min({n, n}) = IF n <= n THEN n ELSE n
      BY <2>1, MinMax
    <2> QED BY <2>1, <2>2, <2>3
  <1> QED BY <1>1, <1>3, <1>4 DEF Cut, Behind

LEMMA SubSeqIs ==
    ASSUME NEW S, NEW s \in Seq(S), NEW m \in Int, NEW n \in Int,
           1 <= m, m <= n + 1, n <= Len(s), NEW x, x = SubSeq(s, m, n)
    PROVE  /\ x \in Seq(S) /\ Len(x) = n - m + 1 /\ Len(x) \in Nat
           /\ \A i \in 1..Len(x) : x[i] = s[m - 1 + i]
  <1>1. \A i \in m..n : s[i] \in S
    OBVIOUS
  <1>2. /\ SubSeq(s, m, n) \in Seq(S)
        /\ Len(SubSeq(s, m, n)) = IF m <= n THEN n - m + 1 ELSE 0
        /\ \A i \in 1..(n - m + 1) : SubSeq(s, m, n)[i] = s[m + i - 1]
    BY <1>1, SubSeqProperties
  <1>3. /\ x \in Seq(S) /\ Len(x) = n - m + 1 /\ n - m + 1 \in Nat
        /\ \A i \in 1..(n - m + 1) : x[i] = s[m + i - 1]
    BY <1>2
  <1>4. \A i \in 1..(n - m + 1) : m + i - 1 = m - 1 + i
    OBVIOUS
  <1> QED BY <1>3, <1>4

\* A sequence in two parts, each cut out.
LEMMA CutParts ==
    ASSUME NEW S, NEW p \in Seq(S), NEW q \in Seq(S)
    PROVE  /\ Cut(p \o q, 1, Len(p)) = p
           /\ Behind(p \o q, Len(p) + 1) = q
  <1>1. PICK r, m, n : r = p \o q /\ m = Len(p) /\ n = Len(r)
    OBVIOUS
  <1>2. /\ r \in Seq(S) /\ m \in Nat /\ n \in Nat /\ Len(q) \in Nat /\ n = m + Len(q)
        /\ \A i \in 1..m : r[i] = p[i]
        /\ \A k \in 1..Len(q) : r[m + k] = q[k]
    BY <1>1, ConcatIs
  <1>3. Cut(r, 1, m) = SubSeq(r, 1, m) /\ Behind(r, m + 1) = SubSeq(r, m + 1, n)
    <2>1. 1 \in Int /\ m \in Int /\ m + 1 \in Int /\ 1 <= 1 /\ 1 <= m + 1 /\ m <= n
      BY <1>2
    <2>2. Cut(r, 1, m) = SubSeq(r, 1, m)
      BY <1>1, <1>2, <2>1, CutIs
    <2>3. Behind(r, m + 1) = SubSeq(r, m + 1, Len(r))
      BY <1>2, <2>1, CutIs, Zenon
    <2> QED BY <1>1, <2>2, <2>3
  <1>4. SubSeq(r, 1, m) = p
    <2>1. PICK x : x = SubSeq(r, 1, m)
      OBVIOUS
    <2>2. x \in Seq(S) /\ Len(x) = m /\ \A i \in 1..m : x[i] = r[i]
      <3>1. 1 \in Int /\ m \in Int /\ 1 <= 1 /\ 1 <= m + 1 /\ m <= Len(r)
        BY <1>1, <1>2
      <3>2. x \in Seq(S) /\ Len(x) = m - 1 + 1 /\ \A i \in 1..Len(x) : x[i] = r[1 - 1 + i]
        BY <1>2, <2>1, <3>1, SubSeqIs
      <3> QED BY <1>2, <3>2
    <2> QED BY <1>1, <1>2, <2>1, <2>2
  <1>5. SubSeq(r, m + 1, n) = q
    <2>1. PICK x : x = SubSeq(r, m + 1, n)
      OBVIOUS
    <2>2. x \in Seq(S) /\ Len(x) = Len(q) /\ \A i \in 1..Len(q) : x[i] = r[m + i]
      <3>1. m + 1 \in Int /\ n \in Int /\ 1 <= m + 1 /\ m + 1 <= n + 1 /\ n <= Len(r)
        BY <1>1, <1>2
      <3>2. /\ x \in Seq(S) /\ Len(x) = n - (m + 1) + 1
            /\ \A i \in 1..Len(x) : x[i] = r[m + 1 - 1 + i]
        BY <1>2, <2>1, <3>1, SubSeqIs
      <3> QED BY <1>2, <3>2
    <2> QED BY <1>2, <2>1, <2>2
  <1> QED BY <1>1, <1>3, <1>4, <1>5

\* A sequence in three parts, the middle one cut out.
LEMMA CutMiddle ==
    ASSUME NEW S, NEW p \in Seq(S), NEW q \in Seq(S), NEW r \in Seq(S)
    PROVE  Cut(p \o q \o r, Len(p) + 1, Len(p) + Len(q)) = q
  <1>1. PICK a, b, m, n : a = p \o q /\ b = a \o r /\ m = Len(p) /\ n = Len(q)
    OBVIOUS
  <1>2. /\ a \in Seq(S) /\ m \in Nat /\ n \in Nat /\ Len(a) = m + n
        /\ \A k \in 1..n : a[m + k] = q[k] /\ m + k \in 1..Len(a)
    BY <1>1, ConcatIs
  <1>3. /\ b \in Seq(S) /\ Len(b) \in Nat /\ Len(r) \in Nat /\ Len(b) = m + n + Len(r)
        /\ \A i \in 1..Len(a) : b[i] = a[i]
    <2>1. /\ b \in Seq(S) /\ Len(b) \in Nat /\ Len(r) \in Nat /\ Len(b) = Len(a) + Len(r)
          /\ \A i \in 1..Len(a) : b[i] = a[i]
      BY <1>1, <1>2, ConcatIs
    <2> QED BY <1>2, <2>1
  <1>4. Cut(b, m + 1, m + n) = SubSeq(b, m + 1, m + n)
    BY <1>2, <1>3, CutIs
  <1>5. SubSeq(b, m + 1, m + n) = q
    <2>1. PICK x : x = SubSeq(b, m + 1, m + n)
      OBVIOUS
    <2>2. x \in Seq(S) /\ Len(x) = n /\ \A i \in 1..n : x[i] = b[m + i]
      <3>1. /\ m + 1 \in Int /\ m + n \in Int /\ 1 <= m + 1 /\ m + 1 <= m + n + 1
            /\ m + n <= Len(b)
        BY <1>2, <1>3
      <3>2. /\ x \in Seq(S) /\ Len(x) = m + n - (m + 1) + 1
            /\ \A i \in 1..Len(x) : x[i] = b[m + 1 - 1 + i]
        <4>1. PICK i, j : i = m + 1 /\ j = m + n
          OBVIOUS
        <4>2. /\ i \in Int /\ j \in Int /\ 1 <= i /\ i <= j + 1 /\ j <= Len(b)
              /\ b \in Seq(S) /\ x = SubSeq(b, i, j)
          BY <1>3, <2>1, <3>1, <4>1
        <4>3. x \in Seq(S) /\ Len(x) = j - i + 1 /\ \A k \in 1..Len(x) : x[k] = b[i - 1 + k]
          BY <4>2, SubSeqIs
        <4> QED BY <1>2, <4>1, <4>3
      <3>3. m \in Int /\ n \in Int /\ Len(x) = n
        BY <1>2, <3>2
      <3>4. \A i \in 1..n : x[i] = b[m + i]
        <4>1. TAKE i \in 1..n
        <4>2. m + 1 - 1 + i = m + i
          BY <3>3
        <4>3. x[i] = b[m + 1 - 1 + i]
          BY <3>2, <3>3
        <4> QED BY <4>2, <4>3
      <3> QED BY <3>2, <3>3, <3>4
    <2>3. \A i \in 1..n : x[i] = q[i]
      BY <1>2, <1>3, <2>2
    <2> QED BY <1>1, <2>1, <2>2, <2>3
  <1> QED BY <1>1, <1>4, <1>5

\* A sequence taken apart.
Splits(S, s, n, p, q) ==
    /\ p \in Seq(S) /\ q \in Seq(S)
    /\ s = p \o q /\ Len(p) = n /\ Len(q) = Len(s) - n
    /\ \A i \in 1..n : p[i] = s[i]
    /\ \A k \in 1..Len(q) : q[k] = s[n + k]

LEMMA Parts ==
    ASSUME NEW S, NEW s \in Seq(S), NEW n \in 0..Len(s)
    PROVE  \E p, q : Splits(S, s, n, p, q)
  <1>1. PICK p, q : p = SubSeq(s, 1, n) /\ q = SubSeq(s, n + 1, Len(s))
    OBVIOUS
  <1>2. Len(s) \in Nat /\ n \in Nat
    OBVIOUS
  <1>3. p \in Seq(S) /\ Len(p) = n /\ \A i \in 1..n : p[i] = s[i]
    BY <1>1, <1>2
  <1>4. q \in Seq(S) /\ Len(q) = Len(s) - n /\ \A k \in 1..Len(q) : q[k] = s[n + k]
    BY <1>1, <1>2
  <1>5. s = p \o q
    <2>1. Len(s) = Len(p) + Len(q)
      BY <1>2, <1>3, <1>4
    <2>2. \A i \in 1..Len(p) : s[i] = p[i]
      BY <1>3
    <2>3. \A k \in 1..Len(q) : s[Len(p) + k] = q[k]
      BY <1>3, <1>4
    <2> QED BY <1>3, <1>4, <2>1, <2>2, <2>3, ConcatEqual
  <1>6. Splits(S, s, n, p, q)
    BY <1>3, <1>4, <1>5 DEF Splits
  <1> QED BY <1>6, Zenon
----------------------------------------------------------------------------
\* Bytes can be read back.

LeadSet == Char \X {1}
Leads(b) == Selected(b, LeadSet)

LEMMA LeadOfWide ==
    ASSUME NEW c \in Char
    PROVE  Leads(Wide(c)) = <<<<c, 1>>>>
  <1>1. /\ Wide(c) \in Seq(ByteSet(Char)) /\ Len(Wide(c)) = Width[c] /\ Width[c] \in 1..3
        /\ \A k \in 1..Width[c] : Wide(c)[k] = <<c, k>>
    BY WideIs
  <1>2. PICK b : b = Wide(c)
    OBVIOUS
  <1>3. 1 \in 0..Len(b) /\ b \in Seq(ByteSet(Char))
    BY <1>1, <1>2
  <1>4. PICK p, q : /\ p \in Seq(ByteSet(Char)) /\ q \in Seq(ByteSet(Char))
                    /\ b = p \o q /\ Len(p) = 1 /\ Len(q) = Len(b) - 1
                    /\ \A i \in 1..1 : p[i] = b[i]
                    /\ \A k \in 1..Len(q) : q[k] = b[1 + k]
    <2>1. PICK p, q : Splits(ByteSet(Char), b, 1, p, q)
      BY <1>3, Parts
    <2> QED BY <2>1 DEF Splits
  <1>5. p = <<<<c, 1>>>>
    <2>1. PICK x : x = <<c, 1>>
      OBVIOUS
    <2>2. p[1] = x
      BY <1>1, <1>2, <1>4, <2>1
    <2>3. p = <<x>>
      BY <1>4, <2>2
    <2> QED BY <2>1, <2>3
  <1>6. \A k \in 1..Len(q) : q[k] \notin LeadSet
    <2>1. ASSUME NEW k \in 1..Len(q) PROVE q[k] \notin LeadSet
      <3>1. 1 + k \in 1..Width[c] /\ 1 + k # 1
        BY <1>1, <1>2, <1>4
      <3>2. q[k] = <<c, 1 + k>>
        BY <1>1, <1>2, <1>4, <3>1
      <3> QED BY <3>1, <3>2 DEF LeadSet
    <2> QED BY <2>1
  <1>7. Selected(q, LeadSet) = << >>
    <2>1. PICK Q : Q = {x \in ByteSet(Char) : x \notin LeadSet}
      OBVIOUS
    <2>2. q \in Seq(Q)
      BY <1>4, <1>6, <2>1
    <2>3. \A x \in Q : x \notin LeadSet
      BY <2>1
    <2> QED BY <2>2, <2>3, SelectedNone
  <1>8. Selected(p, LeadSet) = p
    <2>1. PICK x : x = <<c, 1>>
      OBVIOUS
    <2>2. x \in LeadSet
      BY <2>1 DEF LeadSet
    <2>3. p = <<x>>
      BY <1>5, <2>1
    <2> QED BY <2>2, <2>3, SelectedSmall, Zenon DEF IfIn
  <1>9. Selected(b, LeadSet) = p \o << >>
    <2>1. Selected(p \o q, LeadSet) = Selected(p, LeadSet) \o Selected(q, LeadSet)
      BY <1>4, SelectedConcat
    <2> QED BY <1>4, <1>7, <1>8, <2>1
  <1> QED BY <1>2, <1>4, <1>5, <1>9 DEF Leads

LEMMA LeadsOfBytes ==
    \A s \in Seq(Char) : /\ Len(Leads(Bytes(s))) = Len(s)
                         /\ \A i \in 1..Len(s) : Leads(Bytes(s))[i] = <<s[i], 1>>
                         /\ Leads(Bytes(s)) \in Seq(ByteSet(Char))
  <1> DEFINE Right(s, b) == /\ Len(b) = Len(s)
                            /\ \A i \in 1..Len(s) : b[i] = <<s[i], 1>>
                            /\ b \in Seq(ByteSet(Char))
             P == {s \in Seq(Char) : Right(s, Leads(Bytes(s)))}
  <1>1. << >> \in P
    <2>1. PICK e : e = << >>
      OBVIOUS
    <2>2. Leads(Bytes(e)) = e
      BY <2>1, BytesSmall, SelectedSmall DEF Leads
    <2>3. e \in Seq(Char) /\ e \in Seq(ByteSet(Char)) /\ Len(e) = 0
      BY <2>1
    <2>4. Right(e, e)
      BY <2>3
    <2> QED BY <2>1, <2>2, <2>3, <2>4
  <1>2. ASSUME NEW s \in Seq(Char), s \in P, NEW c \in Char PROVE Append(s, c) \in P
    <2>1. PICK t, u, b, x, d : /\ t = <<c>> /\ u = s \o t /\ b = Leads(Bytes(s))
                               /\ x = <<c, 1>> /\ d = <<x>>
      OBVIOUS
    <2>2. t \in Seq(Char) /\ u \in Seq(Char) /\ u = Append(s, c)
      BY <2>1
    <2>3. Bytes(u) = Bytes(s) \o Wide(c)
      BY <2>1, <2>2, BytesConcat, BytesSmall
    <2>4. Bytes(s) \in Seq(ByteSet(Char)) /\ Wide(c) \in Seq(ByteSet(Char))
      BY BytesType, WideIs
    <2>5. Leads(Bytes(u)) = b \o d
      <3>1. Leads(Bytes(s) \o Wide(c)) = Leads(Bytes(s)) \o Leads(Wide(c))
        BY <2>4, SelectedConcat, Zenon DEF Leads
      <3> QED BY <2>1, <2>3, <3>1, LeadOfWide
    <2>6. Right(s, b)
      BY <1>2, <2>1
    <2>7. x \in ByteSet(Char) /\ x = <<c, 1>>
      BY <2>1 DEF ByteSet
    <2>8. /\ b \o d \in Seq(ByteSet(Char)) /\ Len(b \o d) = Len(s) + 1
          /\ \A i \in 1..Len(s) : (b \o d)[i] = b[i]
          /\ (b \o d)[Len(s) + 1] = x
      BY <2>1, <2>6, <2>7
    <2>9. Len(u) = Len(s) + 1 /\ \A i \in 1..Len(s) : u[i] = s[i]
      BY <2>2
    <2>10. u[Len(s) + 1] = c
      BY <2>2
    <2>11. Right(u, b \o d)
      <3>1. \A i \in 1..(Len(s) + 1) : i \in 1..Len(s) \/ i = Len(s) + 1
        BY Len(s) \in Nat
      <3> QED BY <2>6, <2>7, <2>8, <2>9, <2>10, <3>1
    <2> QED BY <2>2, <2>5, <2>11
  <1>3. \A s \in Seq(Char) : s \in P
    <2> HIDE DEF P
    <2> QED BY <1>1, <1>2, SeqInduct
  <1> QED BY <1>3

LEMMA CharsOfBytes ==
    ASSUME NEW s \in Seq(Char)
    PROVE  Chars(Bytes(s)) = s
  <1>1. PICK b : b = Leads(Bytes(s))
    OBVIOUS
  <1>2. /\ Len(b) = Len(s) /\ b \in Seq(ByteSet(Char)) /\ DOMAIN b = 1..Len(s)
        /\ \A i \in 1..Len(s) : b[i] = <<s[i], 1>>
    BY <1>1, LeadsOfBytes
  <1>3. Chars(Bytes(s)) = [i \in DOMAIN b |-> b[i][1]]
    BY <1>1 DEF Chars, Leads, LeadSet
  <1>4. \A i \in 1..Len(s) : b[i][1] = s[i]
    BY <1>2
  <1>5. s = [i \in 1..Len(s) |-> s[i]]
    OBVIOUS
  <1> QED BY <1>2, <1>3, <1>4, <1>5
----------------------------------------------------------------------------
\* Where a sequence is divided.

LEMMA MinIs ==
    ASSUME NEW T, NEW p \in T, \A m \in T : p <= m, T \subseteq Int
    PROVE  Min(T) = p
  <1>1. \A x \in T : (\A y \in T : x <= y) => x = p
    <2>1. ASSUME NEW x \in T, \A y \in T : x <= y PROVE x = p
      <3>1. x <= p /\ p <= x /\ x \in Int /\ p \in Int
        BY <2>1
      <3> QED BY <3>1
    <2> QED BY <2>1
  <1> QED BY <1>1 DEF Min

LEMMA MaxIs ==
    ASSUME NEW T, NEW p \in T, \A m \in T : p >= m, T \subseteq Int
    PROVE  Max(T) = p
  <1>1. \A x \in T : (\A y \in T : x >= y) => x = p
    <2>1. ASSUME NEW x \in T, \A y \in T : x >= y PROVE x = p
      <3>1. x >= p /\ p >= x /\ x \in Int /\ p \in Int
        BY <2>1
      <3> QED BY <3>1
    <2> QED BY <2>1
  <1> QED BY <1>1 DEF Max

\* p is the longest beginning of s without elements of T, and q the rest.
Divides(S, T, s, p, q) ==
    /\ p \in Seq(S) /\ q \in Seq(S) /\ s = p \o q /\ Len(s) = Len(p) + Len(q)
    /\ \A i \in 1..Len(p) : p[i] \notin T /\ p[i] = s[i]
    /\ \A k \in 1..Len(q) : q[k] = s[Len(p) + k]
    /\ q = << >> \/ (Len(q) >= 1 /\ q[1] \in T)

LEMMA Divided ==
    ASSUME NEW S, NEW T, NEW s \in Seq(S)
    PROVE  \E p, q : Divides(S, T, s, p, q)
  <1> DEFINE In == {i \in 1..Len(s) : s[i] \in T}
  <1>1. Len(s) \in Nat /\ In \subseteq Nat
    OBVIOUS
  <1>2. PICK n : /\ n \in 0..Len(s) /\ \A i \in 1..n : s[i] \notin T
                 /\ n = Len(s) \/ (n + 1 \in 1..Len(s) /\ s[n + 1] \in T)
    <2>1. CASE In = {}
      <3>1. Len(s) \in 0..Len(s) /\ \A i \in 1..Len(s) : s[i] \notin T
        BY <1>1, <2>1
      <3> QED BY <3>1
    <2>2. CASE In # {}
      <3>1. PICK m \in In : \A k \in In : m <= k
        <4> HIDE DEF In
        <4> QED BY <1>1, <2>2, LeastElement
      <3>2. m \in 1..Len(s) /\ s[m] \in T
        BY <3>1
      <3>3. PICK n : n = m - 1
        OBVIOUS
      <3>4. n \in 0..Len(s) /\ n + 1 = m
        BY <1>1, <3>2, <3>3
      <3>5. ASSUME NEW i \in 1..n PROVE s[i] \notin T
        <4>1. i \in 1..Len(s) /\ ~(m <= i)
          BY <1>1, <3>4
        <4>2. i \notin In
          BY <3>1, <4>1, Zenon
        <4> QED BY <4>1, <4>2
      <3> QED BY <3>2, <3>4, <3>5
    <2> QED BY <2>1, <2>2
  <1>3. PICK p, q : Splits(S, s, n, p, q)
    BY <1>2, Parts
  <1>4. /\ p \in Seq(S) /\ q \in Seq(S) /\ s = p \o q /\ Len(p) = n /\ Len(q) = Len(s) - n
        /\ \A i \in 1..n : p[i] = s[i]
        /\ \A k \in 1..Len(q) : q[k] = s[n + k]
    BY <1>3 DEF Splits
  <1>5. n \in Nat /\ Len(q) \in Nat /\ Len(s) = n + Len(q)
    BY <1>1, <1>2, <1>4
  <1>6. \A i \in 1..n : p[i] \notin T
    BY <1>2, <1>4
  <1>7. q = << >> \/ (Len(q) >= 1 /\ q[1] \in T)
    <2>1. CASE n = Len(s)
      BY <1>4, <1>5, <2>1
    <2>2. CASE n + 1 \in 1..Len(s) /\ s[n + 1] \in T
      BY <1>4, <1>5, <2>2
    <2> QED BY <1>2, <2>1, <2>2
  <1> QED BY <1>4, <1>5, <1>6, <1>7 DEF Divides

\* The first element and the rest.
LEMMA FirstAndRest ==
    ASSUME NEW S, NEW s \in Seq(S), s # << >>
    PROVE  /\ Len(s) \in Nat /\ Len(s) >= 1 /\ s[1] \in S
           /\ <<s[1]>> \in Seq(S) /\ Tail(s) \in Seq(S) /\ s = <<s[1]>> \o Tail(s)
           /\ Len(Tail(s)) = Len(s) - 1 /\ \A i \in 1..(Len(s) - 1) : Tail(s)[i] = s[i + 1]
  <1>1. Len(s) \in Nat /\ Len(s) # 0 /\ Len(s) >= 1 /\ 1 \in 1..Len(s)
    <2>1. Len(s) \in Nat /\ (Len(s) = 0 => s = << >>)
      OBVIOUS
    <2> QED BY <2>1
  <1>2. PICK c, a, q : c = s[1] /\ a = <<c>> /\ q = Tail(s)
    OBVIOUS
  <1>3. c \in S /\ a \in Seq(S) /\ Len(a) = 1 /\ a[1] = c
    BY <1>1, <1>2
  <1>4. q \in Seq(S) /\ Len(q) = Len(s) - 1 /\ \A i \in 1..Len(q) : q[i] = s[i + 1]
    BY <1>2, HeadTailProperties
  <1>5. s = a \o q
    <2>1. Len(s) = Len(a) + Len(q)
      BY <1>1, <1>3, <1>4
    <2>2. \A i \in 1..Len(a) : s[i] = a[i]
      BY <1>2, <1>3
    <2>3. \A k \in 1..Len(q) : s[Len(a) + k] = q[k]
      BY <1>1, <1>3, <1>4
    <2> QED BY <1>3, <1>4, <2>1, <2>2, <2>3, ConcatEqual
  <1> QED BY <1>1, <1>2, <1>3, <1>4, <1>5

\* The last element and what stands before it.
LEMMA FrontAndLast ==
    ASSUME NEW S, NEW s \in Seq(S), s # << >>
    PROVE  /\ Len(s) \in Nat /\ Len(s) >= 1 /\ s[Len(s)] \in S /\ Last(s) = s[Len(s)]
           /\ <<s[Len(s)]>> \in Seq(S) /\ Front(s) \in Seq(S)
           /\ s = Front(s) \o <<s[Len(s)]>>
           /\ Len(Front(s)) = Len(s) - 1 /\ \A i \in 1..(Len(s) - 1) : Front(s)[i] = s[i]
  <1>1. Len(s) \in Nat /\ Len(s) # 0 /\ Len(s) >= 1 /\ Len(s) \in 1..Len(s)
    <2>1. Len(s) \in Nat /\ (Len(s) = 0 => s = << >>)
      OBVIOUS
    <2> QED BY <2>1
  <1>2. PICK c, a, q, n : n = Len(s) /\ c = s[n] /\ a = <<c>> /\ q = Front(s)
    OBVIOUS
  <1>3. c \in S /\ a \in Seq(S) /\ Len(a) = 1 /\ a[1] = c
    BY <1>1, <1>2
  <1>4. q \in Seq(S) /\ Len(q) = n - 1 /\ \A i \in 1..Len(q) : q[i] = s[i]
    <2>1. q = SubSeq(s, 1, n - 1)
      BY <1>2 DEF Front
    <2>2. PICK j, k : j = 1 /\ k = n - 1
      OBVIOUS
    <2>3. j \in Int /\ k \in Int /\ 1 <= j /\ j <= k + 1 /\ k <= Len(s) /\ q = SubSeq(s, j, k)
      BY <1>1, <1>2, <2>1, <2>2
    <2>4. q \in Seq(S) /\ Len(q) = k - j + 1 /\ \A i \in 1..Len(q) : q[i] = s[j - 1 + i]
      BY <2>3, SubSeqIs
    <2> QED BY <1>1, <1>2, <2>2, <2>4
  <1>5. s = q \o a
    <2>1. Len(s) = Len(q) + Len(a)
      BY <1>1, <1>2, <1>3, <1>4
    <2>2. \A i \in 1..Len(q) : s[i] = q[i]
      BY <1>4
    <2>3. \A k \in 1..Len(a) : s[Len(q) + k] = a[k]
      BY <1>1, <1>2, <1>3, <1>4
    <2> QED BY <1>3, <1>4, <2>1, <2>2, <2>3, ConcatEqual
  <1>6. Last(s) = s[n]
    BY <1>2 DEF Last
  <1> QED BY <1>1, <1>2, <1>3, <1>4, <1>5, <1>6
----------------------------------------------------------------------------
\* Where characters stand in bytes.

\* A text that is not empty begins with the first byte of its first character.
LEMMA BytesBegin ==
    ASSUME NEW s \in Seq(Char), s # << >>
    PROVE  Len(Bytes(s)) >= 1 /\ Bytes(s)[1] = <<s[1], 1>>
  <1>1. PICK c, t : c = s[1] /\ t = Tail(s)
    OBVIOUS
  <1>2. c \in Char /\ <<c>> \in Seq(Char) /\ t \in Seq(Char) /\ s = <<c>> \o t
    BY <1>1, FirstAndRest
  <1>3. Bytes(s) = Wide(c) \o Bytes(t)
    <2>1. PICK a : a = <<c>>
      OBVIOUS
    <2>2. a \in Seq(Char) /\ s = a \o t /\ Bytes(a) = Wide(c)
      BY <1>2, <2>1, BytesSmall
    <2> QED BY <1>2, <2>2, BytesConcat
  <1>4. /\ Wide(c) \in Seq(ByteSet(Char)) /\ Len(Wide(c)) \in 1..3 /\ Wide(c)[1] = <<c, 1>>
        /\ Bytes(t) \in Seq(ByteSet(Char))
    BY <1>2, WideIs, BytesType
  <1>5. PICK x, y, z : x = Wide(c) /\ y = Bytes(t) /\ z = Bytes(s)
    OBVIOUS
  <1>6. Len(z) = Len(x) + Len(y) /\ Len(x) \in Nat /\ Len(y) \in Nat /\ z[1] = x[1]
    <2>1. 1 \in 1..Len(x) /\ x \in Seq(ByteSet(Char)) /\ y \in Seq(ByteSet(Char))
      BY <1>4, <1>5
    <2> QED BY <1>3, <1>5, <2>1, ConcatIs
  <1> QED BY <1>1, <1>4, <1>5, <1>6

LEMMA BytesEmpty ==
    ASSUME NEW s \in Seq(Char)
    PROVE  Len(Bytes(s)) \in Nat /\ (Len(Bytes(s)) = 0 <=> s = << >>)
  BY BytesType, BytesBegin, BytesSmall

\* No character takes fewer bytes: no sequence does.
LEMMA BytesGrow ==
    \A s \in Seq(Char) : \A t \in Seq(Char) :
        Len(s) = Len(t) /\ (\A i \in 1..Len(s) : Width[s[i]] <= Width[t[i]])
            => Len(Bytes(s)) <= Len(Bytes(t))
  <1> DEFINE Below(s, t) == Len(s) = Len(t) /\ \A i \in 1..Len(s) : Width[s[i]] <= Width[t[i]]
             P == {s \in Seq(Char) : \A t \in Seq(Char) :
                      Below(s, t) => Len(Bytes(s)) <= Len(Bytes(t))}
  <1>1. << >> \in P
    <2>1. PICK e : e = << >>
      OBVIOUS
    <2>2. e \in Seq(Char) /\ Len(Bytes(e)) = 0
      BY <2>1, BytesSmall
    <2>3. \A t \in Seq(Char) : 0 <= Len(Bytes(t))
      BY BytesEmpty
    <2> QED BY <2>1, <2>2, <2>3
  <1>2. ASSUME NEW s \in Seq(Char), s \in P, NEW c \in Char PROVE Append(s, c) \in P
    <2>1. PICK d, u : d = <<c>> /\ u = s \o d
      OBVIOUS
    <2>2. d \in Seq(Char) /\ u \in Seq(Char) /\ u = Append(s, c) /\ Len(u) = Len(s) + 1
          /\ Len(s) \in Nat /\ u[Len(s) + 1] = c /\ \A i \in 1..Len(s) : u[i] = s[i]
      BY <2>1
    <2>3. Len(Bytes(u)) = Len(Bytes(s)) + Width[c] /\ Width[c] \in Nat
      <3>1. Len(Bytes(u)) = Len(Bytes(s)) + Len(Bytes(d))
        <4>1. Len(Bytes(s \o d)) = Len(Bytes(s)) + Len(Bytes(d))
          BY <2>2, BytesConcat, Zenon
        <4> QED BY <2>1, <4>1
      <3>2. Bytes(d) = Wide(c) /\ Len(Wide(c)) = Width[c] /\ Width[c] \in 1..3
        BY <2>1, BytesSmall, WideIs
      <3> QED BY <3>1, <3>2
    <2>4. ASSUME NEW t \in Seq(Char), Below(u, t) PROVE Len(Bytes(u)) <= Len(Bytes(t))
      <3>1. t # << >> /\ Len(t) = Len(s) + 1
        BY <2>2, <2>4
      <3>2. PICK f, k, e : f = Front(t) /\ k = t[Len(t)] /\ e = <<k>>
        OBVIOUS
      <3>3. /\ f \in Seq(Char) /\ k \in Char /\ e \in Seq(Char) /\ t = f \o e /\ Len(f) = Len(s)
            /\ \A i \in 1..Len(s) : f[i] = t[i]
        <4>1. /\ Len(t) \in Nat /\ t[Len(t)] \in Char
              /\ <<t[Len(t)]>> \in Seq(Char) /\ Front(t) \in Seq(Char)
              /\ t = Front(t) \o <<t[Len(t)]>>
              /\ Len(Front(t)) = Len(t) - 1 /\ \A i \in 1..(Len(t) - 1) : Front(t)[i] = t[i]
          BY <3>1, FrontAndLast
        <4>2. Len(t) - 1 = Len(s)
          BY <2>2, <3>1
        <4> QED BY <3>2, <4>1, <4>2
      <3>4. Len(Bytes(t)) = Len(Bytes(f)) + Width[k] /\ Width[k] \in Nat
        <4>1. Len(Bytes(t)) = Len(Bytes(f)) + Len(Bytes(e))
          BY <3>3, BytesConcat
        <4>2. Bytes(e) = Wide(k) /\ Len(Wide(k)) = Width[k] /\ Width[k] \in 1..3
          BY <3>2, <3>3, BytesSmall, WideIs
        <4> QED BY <4>1, <4>2
      <3>5. Width[c] <= Width[k]
        <4>1. Len(s) + 1 \in 1..Len(u)
          BY <2>2
        <4> QED BY <2>2, <2>4, <3>1, <3>2, <4>1
      <3>6. Below(s, f)
        <4>1. \A i \in 1..Len(s) : i \in 1..Len(u)
          BY <2>2
        <4> QED BY <2>2, <2>4, <3>3, <4>1
      <3>7. Len(Bytes(s)) <= Len(Bytes(f))
        BY <1>2, <3>3, <3>6
      <3>8. Len(Bytes(s)) \in Nat /\ Len(Bytes(f)) \in Nat
        BY <3>3, BytesEmpty
      <3> QED BY <2>3, <3>4, <3>5, <3>7, <3>8
    <2> QED BY <2>2, <2>4
  <1>3. \A s \in Seq(Char) : s \in P
    <2> HIDE DEF P
    <2> QED BY <1>1, <1>2, SeqInduct
  <1> QED BY <1>3

LEMMA BytesEqual ==
    ASSUME NEW s \in Seq(Char), NEW t \in Seq(Char), Len(s) = Len(t),
           \A i \in 1..Len(s) : Width[s[i]] = Width[t[i]]
    PROVE  Len(Bytes(s)) = Len(Bytes(t))
  <1>1. \A c \in Char : Width[c] \in Nat
    BY WidthIs
  <1>2. \A i \in 1..Len(s) : s[i] \in Char /\ t[i] \in Char
    OBVIOUS
  <1>3. /\ \A i \in 1..Len(s) : Width[s[i]] <= Width[t[i]]
        /\ \A i \in 1..Len(t) : Width[t[i]] <= Width[s[i]]
    BY <1>1, <1>2
  <1>4. Len(Bytes(s)) <= Len(Bytes(t)) /\ Len(Bytes(t)) <= Len(Bytes(s))
    BY <1>3, BytesGrow
  <1>5. Len(Bytes(s)) \in Nat /\ Len(Bytes(t)) \in Nat
    BY BytesEmpty
  <1> QED BY <1>4, <1>5

LEMMA BytesNarrow ==
    ASSUME NEW T, T \subseteq Char, \A c \in T : Width[c] = 1
    PROVE  \A s \in Seq(T) : Len(Bytes(s)) = Len(s)
  <1> DEFINE P == {s \in Seq(T) : Len(Bytes(s)) = Len(s)}
  <1>1. << >> \in P
    <2>1. PICK e : e = << >>
      OBVIOUS
    <2>2. e \in Seq(T) /\ Len(Bytes(e)) = 0 /\ Len(e) = 0
      BY <2>1, BytesSmall
    <2> QED BY <2>1, <2>2
  <1>2. ASSUME NEW s \in Seq(T), s \in P, NEW c \in T PROVE Append(s, c) \in P
    <2>1. PICK d, u : d = <<c>> /\ u = s \o d
      OBVIOUS
    <2>2. /\ d \in Seq(Char) /\ u \in Seq(T) /\ u = Append(s, c) /\ Len(u) = Len(s) + 1
          /\ s \in Seq(Char)
      BY <2>1
    <2>3. Len(Bytes(u)) = Len(Bytes(s)) + Len(Bytes(d))
      BY <2>1, <2>2, BytesConcat
    <2>4. Bytes(d) = Wide(c) /\ Len(Wide(c)) = Width[c]
      BY <2>1, BytesSmall, WideIs
    <2> QED BY <1>2, <2>2, <2>3, <2>4
  <1>3. \A s \in Seq(T) : s \in P
    <2> HIDE DEF P
    <2> QED BY <1>1, <1>2, SeqInduct
  <1> QED BY <1>3
----------------------------------------------------------------------------
\* The bytes of a part of a text, and where they stand in it.

\* y is p, q and r one behind the other: x is p with q, and z is q with r.
Grouped(p, q, r, x, z, y) ==
    /\ x \in Seq(Char) /\ z \in Seq(Char) /\ y \in Seq(Char)
    /\ x = p \o q /\ z = q \o r /\ y = x \o r /\ y = p \o z

LEMMA Groups ==
    ASSUME NEW p \in Seq(Char), NEW q \in Seq(Char), NEW r \in Seq(Char),
           NEW x, x = p \o q, NEW z, z = q \o r, NEW y, y = x \o r \/ y = p \o z
    PROVE  Grouped(p, q, r, x, z, y)
  <1>1. /\ (p \o q) \o r = p \o (q \o r) /\ p \o q \in Seq(Char) /\ q \o r \in Seq(Char)
        /\ (p \o q) \o r \in Seq(Char)
    <2> QED BY Associates, Zenon
  <1>2. x \in Seq(Char) /\ z \in Seq(Char) /\ x \o r = p \o z
    BY <1>1, Zenon
  <1>3. x \o r \in Seq(Char)
    BY <1>2
  <1>4. y \in Seq(Char) /\ y = x \o r /\ y = p \o z
    BY <1>2, <1>3, Zenon
  <1> QED BY <1>2, <1>4 DEF Grouped

InParts(p, q, y) ==
    /\ y \in Seq(Char) /\ Bytes(y) \in Seq(ByteSet(Char))
    /\ Len(Bytes(p)) \in Nat /\ Len(Bytes(q)) \in Nat /\ Len(Bytes(y)) \in Nat
    /\ Len(Bytes(y)) = Len(Bytes(p)) + Len(Bytes(q))
    /\ Bytes(y) = Bytes(p) \o Bytes(q)
    /\ \A k \in 1..Len(Bytes(p)) : Bytes(y)[k] = Bytes(p)[k]
    /\ \A k \in 1..Len(Bytes(q)) : Bytes(y)[Len(Bytes(p)) + k] = Bytes(q)[k]
    /\ Cut(Bytes(y), 1, Len(Bytes(p))) = Bytes(p)
    /\ Behind(Bytes(y), Len(Bytes(p)) + 1) = Bytes(q)

LEMMA BytesParts ==
    ASSUME NEW p \in Seq(Char), NEW q \in Seq(Char), NEW y, y = p \o q
    PROVE  InParts(p, q, y)
  <1>1. /\ y \in Seq(Char) /\ Bytes(y) = Bytes(p) \o Bytes(q)
        /\ Len(Bytes(y)) = Len(Bytes(p)) + Len(Bytes(q))
    BY BytesConcat
  <1>2. PICK a, b, x : a = Bytes(p) /\ b = Bytes(q) /\ x = Bytes(y)
    OBVIOUS
  <1>3. a \in Seq(ByteSet(Char)) /\ b \in Seq(ByteSet(Char)) /\ x = a \o b
    BY <1>1, <1>2, BytesType
  <1>4. /\ Len(a) \in Nat /\ Len(b) \in Nat /\ Len(x) \in Nat /\ x \in Seq(ByteSet(Char))
        /\ \A k \in 1..Len(a) : x[k] = a[k]
        /\ \A k \in 1..Len(b) : x[Len(a) + k] = b[k]
    BY <1>3, ConcatIs
  <1>5. Cut(x, 1, Len(a)) = a /\ Behind(x, Len(a) + 1) = b
    BY <1>3, CutParts
  <1> QED BY <1>1, <1>2, <1>4, <1>5 DEF InParts

InMiddle(p, q, r, y) ==
    /\ y \in Seq(Char) /\ Bytes(y) \in Seq(ByteSet(Char))
    /\ Len(Bytes(p)) \in Nat /\ Len(Bytes(q)) \in Nat /\ Len(Bytes(r)) \in Nat
    /\ Len(Bytes(y)) = Len(Bytes(p)) + Len(Bytes(q)) + Len(Bytes(r))
    /\ \A k \in 1..Len(Bytes(q)) : Bytes(y)[Len(Bytes(p)) + k] = Bytes(q)[k]
    /\ Cut(Bytes(y), Len(Bytes(p)) + 1, Len(Bytes(p)) + Len(Bytes(q))) = Bytes(q)

LEMMA BytesMiddle ==
    ASSUME NEW p \in Seq(Char), NEW q \in Seq(Char), NEW r \in Seq(Char),
           NEW y, y = (p \o q) \o r
    PROVE  InMiddle(p, q, r, y)
  <1>1. PICK z : z = p \o q
    OBVIOUS
  <1>2. /\ z \in Seq(Char) /\ Bytes(z) = Bytes(p) \o Bytes(q)
        /\ Len(Bytes(z)) = Len(Bytes(p)) + Len(Bytes(q))
    BY <1>1, BytesConcat
  <1>3. /\ y \in Seq(Char) /\ Bytes(y) = Bytes(z) \o Bytes(r)
        /\ Len(Bytes(y)) = Len(Bytes(z)) + Len(Bytes(r))
    BY <1>1, <1>2, BytesConcat
  <1>4. PICK a, b, c, x, v : /\ a = Bytes(p) /\ b = Bytes(q) /\ c = Bytes(r) /\ x = Bytes(y)
                             /\ v = Bytes(z)
    OBVIOUS
  <1>5. /\ a \in Seq(ByteSet(Char)) /\ b \in Seq(ByteSet(Char)) /\ c \in Seq(ByteSet(Char))
        /\ v \in Seq(ByteSet(Char)) /\ v = a \o b /\ x = v \o c
    BY <1>2, <1>3, <1>4, BytesType
  <1>6. /\ Len(a) \in Nat /\ Len(b) \in Nat /\ Len(v) = Len(a) + Len(b)
        /\ \A k \in 1..Len(b) : v[Len(a) + k] = b[k] /\ Len(a) + k \in 1..Len(v)
    <2>1. a \in Seq(ByteSet(Char)) /\ b \in Seq(ByteSet(Char)) /\ v = a \o b
      BY <1>5
    <2> QED BY <2>1, ConcatIs
  <1>7. /\ Len(c) \in Nat /\ x \in Seq(ByteSet(Char)) /\ Len(x) = Len(v) + Len(c)
        /\ \A i \in 1..Len(v) : x[i] = v[i]
    BY <1>5, ConcatIs
  <1>8. \A k \in 1..Len(b) : x[Len(a) + k] = b[k]
    BY <1>6, <1>7
  <1>9. Cut(x, Len(a) + 1, Len(a) + Len(b)) = b
    BY <1>5, CutMiddle
  <1>10. y \in Seq(Char) /\ Len(x) = Len(a) + Len(b) + Len(c)
    BY <1>3, <1>6, <1>7
  <1> QED BY <1>4, <1>6, <1>7, <1>8, <1>9, <1>10 DEF InMiddle

\* Behind the end there is nothing.
LEMMA CutBehind ==
    ASSUME NEW S, NEW s \in Seq(S), NEW i \in Int, Len(s) < i, NEW j \in Int
    PROVE  Behind(s, i) = << >> /\ Cut(s, i, j) = << >>
  <1>1. PICK n, m : n = Len(s) /\ m = Min({j, n})
    OBVIOUS
  <1>2. n \in Nat /\ n < i /\ 1 <= i
    BY <1>1
  <1>3. Max({1, i}) = i /\ m \in Int /\ m <= n
    <2>1. Max({1, i}) = IF 1 <= i THEN i ELSE 1
      BY MinMax
    <2>2. n \in Int
      BY <1>2
    <2>3. m = IF j <= n THEN j ELSE n
      BY <1>1, <2>2, MinMax
    <2> QED BY <1>2, <2>1, <2>2, <2>3
  <1>4. SubSeq(s, i, m) = << >>
    BY <1>2, <1>3, SubSeqEmpty
  <1>5. Min({n, n}) = n
    <2>1. n \in Int /\ n <= n
      BY <1>2
    <2> QED BY <2>1, MinMax
  <1>6. SubSeq(s, i, n) = << >>
    BY <1>2, SubSeqEmpty
  <1> QED BY <1>1, <1>3, <1>4, <1>5, <1>6 DEF Cut, Behind
----------------------------------------------------------------------------
\* Letters and separators among the bytes.

Letter == Char \ Separators

LEMMA LettersOf ==
    /\ \A s \in Seq(Separators) : \A k \in 1..Len(Bytes(s)) : ~IsLetter(Bytes(s)[k])
    /\ \A s \in Seq(Letter) : \A k \in 1..Len(Bytes(s)) : IsLetter(Bytes(s)[k])
    /\ Separators \subseteq Char /\ Letter \subseteq Char
  <1>1. Separators \subseteq Char /\ Letter \subseteq Char
    BY ScanAssumption DEF Letter
  <1>2. ASSUME NEW T, T \subseteq Char, NEW s \in Seq(T), NEW k \in 1..Len(Bytes(s))
        PROVE  Bytes(s)[k][1] \in T
    <2>1. PICK b : b = Bytes(s)
      OBVIOUS
    <2>2. b \in Seq(ByteSet(T))
      BY <1>2, <2>1, BytesType
    <2>3. b[k] \in ByteSet(T)
      BY <2>1, <2>2
    <2> QED BY <2>1, <2>3 DEF ByteSet
  <1>3. ASSUME NEW s \in Seq(Separators), NEW k \in 1..Len(Bytes(s))
        PROVE  ~IsLetter(Bytes(s)[k])
    <2>1. Bytes(s)[k][1] \in Separators
      BY <1>1, <1>2
    <2> QED BY <2>1 DEF IsLetter
  <1>4. ASSUME NEW s \in Seq(Letter), NEW k \in 1..Len(Bytes(s))
        PROVE  IsLetter(Bytes(s)[k])
    <2>1. Bytes(s)[k][1] \in Letter
      BY <1>1, <1>2
    <2> QED BY <2>1 DEF IsLetter, Letter
  <1> QED BY <1>1, <1>3, <1>4

\* Only separators are left.
LEMMA NoLetters ==
    ASSUME NEW d \in Seq(Char), NEW r \in Seq(Separators), text = Bytes(d \o r),
           from \in {Len(Bytes(d)) + 1, Len(Bytes(d)) + 2}
    PROVE  Letters = {}
  <1>1. r \in Seq(Char)
    BY LettersOf
  <1>2. PICK y, m, n : y = d \o r /\ m = Len(Bytes(d)) /\ n = Len(Bytes(r))
    OBVIOUS
  <1>3. /\ m \in Nat /\ n \in Nat /\ Len(text) = m + n
        /\ \A k \in 1..n : text[m + k] = Bytes(r)[k]
    <2>1. InParts(d, r, y)
      BY <1>1, <1>2, BytesParts
    <2> QED BY <1>2, <2>1 DEF InParts
  <1>4. from \in Int /\ from >= m + 1
    BY <1>2, <1>3
  <1>5. Max({1, from}) = from
    <2>1. 1 <= from /\ 1 \in Int
      BY <1>3, <1>4
    <2> QED BY <1>4, <2>1, MinMax
  <1>6. ASSUME NEW p \in from..Len(text) PROVE ~IsLetter(text[p])
    <2>1. PICK k : k = p - m
      OBVIOUS
    <2>2. k \in 1..n /\ p = m + k
      BY <1>3, <1>4, <2>1
    <2>3. text[p] = Bytes(r)[k] /\ ~IsLetter(Bytes(r)[k])
      BY <1>2, <1>3, <2>2, LettersOf
    <2> QED BY <2>3
  <1> QED BY <1>5, <1>6 DEF Letters

There(f, c) ==
    /\ Min(Letters) = Len(Bytes(f)) + 1
    /\ MatchEnd(Len(Bytes(f)) + 1) = Len(Bytes(f)) + Len(Bytes(c))
    /\ text[Len(Bytes(f)) + 1] = <<c[1], 1>>
    /\ Cut(text, Len(Bytes(f)) + 1, Len(Bytes(f)) + Len(Bytes(c))) = Bytes(c)

\* Separators, the letters of a match, and the end of the text or a separator.
LEMMA WordThere ==
    ASSUME NEW d \in Seq(Char), NEW a \in Seq(Separators), NEW c \in Seq(Letter),
           NEW e \in Seq(Char), c # << >>, e = << >> \/ e[1] \in Separators,
           NEW f, f = d \o a, NEW y, y = (f \o c) \o e, text = Bytes(y),
           from = Len(Bytes(d)) + 1
    PROVE  There(f, c)
  <1>1. /\ a \in Seq(Char) /\ c \in Seq(Char)
        /\ \A k \in 1..Len(Bytes(a)) : ~IsLetter(Bytes(a)[k])
        /\ \A k \in 1..Len(Bytes(c)) : IsLetter(Bytes(c)[k])
    BY LettersOf
  <1>2. PICK l, m, n, o : /\ l = Len(Bytes(d)) /\ m = Len(Bytes(a)) /\ n = Len(Bytes(c))
                          /\ o = Len(Bytes(e))
    OBVIOUS
  <1>3. /\ f \in Seq(Char) /\ Len(Bytes(f)) = l + m /\ l \in Nat /\ m \in Nat
        /\ \A k \in 1..m : Bytes(f)[l + k] = Bytes(a)[k]
    <2>1. InParts(d, a, f)
      BY <1>1, BytesParts
    <2> QED BY <1>2, <2>1 DEF InParts
  <1>4. /\ n \in Nat /\ o \in Nat /\ Len(Bytes(y)) = Len(Bytes(f)) + n + o
        /\ \A k \in 1..n : Bytes(y)[Len(Bytes(f)) + k] = Bytes(c)[k]
        /\ Cut(Bytes(y), Len(Bytes(f)) + 1, Len(Bytes(f)) + n) = Bytes(c)
    <2>1. InMiddle(f, c, e, y)
      BY <1>1, <1>3, BytesMiddle
    <2> QED BY <1>2, <2>1 DEF InMiddle
  <1>5. n >= 1 /\ Bytes(c)[1] = <<c[1], 1>>
    BY <1>1, <1>2, BytesBegin
  <1>6. PICK p : p = l + m + 1
    OBVIOUS
  <1>7. /\ Len(text) = l + m + n + o /\ p \in Nat
        /\ \A k \in 1..n : text[l + m + k] = Bytes(c)[k]
    BY <1>3, <1>4, <1>6
  <1>8. \A k \in 1..m : text[l + k] = Bytes(a)[k]
    <2>1. PICK z : z = c \o e
      OBVIOUS
    <2>2. z \in Seq(Char) /\ y = f \o z
      <3>1. PICK x : x = f \o c
        OBVIOUS
      <3>2. f \in Seq(Char) /\ c \in Seq(Char) /\ y = x \o e
        BY <1>1, <1>3, <3>1
      <3>3. Grouped(f, c, e, x, z, y)
        BY <2>1, <3>1, <3>2, Groups
      <3> QED BY <3>3 DEF Grouped
    <2>3. InParts(f, z, y)
      BY <1>3, <2>2, BytesParts
    <2>4. \A k \in 1..Len(Bytes(f)) : Bytes(y)[k] = Bytes(f)[k]
      BY <2>3 DEF InParts
    <2>5. \A k \in 1..m : l + k \in 1..Len(Bytes(f))
      BY <1>3
    <2> QED BY <1>3, <2>4, <2>5
  <1>9. Max({1, from}) = l + 1
    <2>1. from = l + 1 /\ 1 \in Int /\ from \in Int /\ 1 <= from
      BY <1>2, <1>3
    <2> QED BY <2>1, MinMax
  <1>10. text[p] = <<c[1], 1>> /\ IsLetter(text[p])
    <2>1. 1 \in 1..n /\ p = l + m + 1
      BY <1>4, <1>5, <1>6
    <2> QED BY <1>1, <1>2, <1>5, <1>7, <2>1
  <1>11. p \in Letters
    <2>1. p \in (l + 1)..Len(text)
      BY <1>3, <1>4, <1>5, <1>6, <1>7
    <2> QED BY <1>9, <1>10, <2>1 DEF Letters
  <1>12. Min(Letters) = p
    <2>1. ASSUME NEW x \in Letters PROVE p <= x
      <3>1. x \in (l + 1)..Len(text) /\ IsLetter(text[x])
        BY <1>9 DEF Letters
      <3>2. SUFFICES ASSUME ~(p <= x) PROVE FALSE
        OBVIOUS
      <3>3. PICK k : k = x - l
        OBVIOUS
      <3>4. k \in 1..m /\ x = l + k
        BY <1>3, <1>6, <1>7, <3>1, <3>2, <3>3
      <3>5. ~IsLetter(text[x])
        BY <1>1, <1>2, <1>8, <3>4
      <3> QED BY <3>1, <3>5
    <2>2. Letters \subseteq Int
      BY <1>3, <1>9 DEF Letters
    <2> QED BY <1>11, <2>1, <2>2, MinIs
  <1>13. MatchEnd(p) = l + m + n
    <2>1. PICK q, R : /\ q = l + m + n
                      /\ R = {i \in p..Len(text) : \A r \in p..i : IsLetter(text[r])}
      OBVIOUS
    <2>2. q \in R
      <3>1. q \in p..Len(text)
        BY <1>3, <1>4, <1>5, <1>6, <1>7, <2>1
      <3>2. ASSUME NEW r \in p..q PROVE IsLetter(text[r])
        <4>1. PICK k : k = r - (l + m)
          OBVIOUS
        <4>2. k \in 1..n /\ r = l + m + k
          BY <1>3, <1>4, <1>6, <2>1, <4>1
        <4> QED BY <1>1, <1>2, <1>7, <4>2
      <3> QED BY <2>1, <3>1, <3>2
    <2>3. ASSUME NEW x \in R PROVE q >= x
      <3>1. SUFFICES ASSUME ~(q >= x) PROVE FALSE
        OBVIOUS
      <3>2. x \in p..Len(text) /\ q \in Int /\ x \in Int
        BY <1>3, <1>4, <2>1
      <3>3. q + 1 \in p..x /\ q + 1 <= Len(text)
        BY <1>3, <1>4, <1>5, <1>6, <1>7, <2>1, <3>1, <3>2
      <3>4. IsLetter(text[q + 1])
        BY <2>1, <3>3
      <3>5. o >= 1 /\ e # << >>
        <4>1. o # 0
          BY <1>3, <1>4, <1>7, <2>1, <3>3
        <4> QED BY <1>2, <1>4, <4>1, BytesSmall
      <3>6. Bytes(e)[1] = <<e[1], 1>>
        BY <3>5, BytesBegin
      <3>7. text[q + 1] = Bytes(e)[1]
        <4>1. PICK g : g = f \o c
          OBVIOUS
        <4>2. g \in Seq(Char) /\ y = g \o e /\ Len(Bytes(g)) = q
          <5>1. InParts(f, c, g)
            BY <1>1, <1>3, <4>1, BytesParts
          <5>2. g \in Seq(Char) /\ Len(Bytes(g)) = Len(Bytes(f)) + Len(Bytes(c))
            BY <5>1 DEF InParts
          <5> QED BY <1>2, <1>3, <2>1, <4>1, <5>2
        <4>3. \A k \in 1..Len(Bytes(e)) : Bytes(y)[Len(Bytes(g)) + k] = Bytes(e)[k]
          <5>1. InParts(g, e, y)
            BY <4>2, BytesParts
          <5> QED BY <5>1 DEF InParts
        <4>4. 1 \in 1..Len(Bytes(e))
          BY <1>2, <1>4, <3>5
        <4> QED BY <4>2, <4>3, <4>4
      <3> QED BY <3>4, <3>5, <3>6, <3>7 DEF IsLetter
    <2>4. R \subseteq Int
      BY <1>6, <1>7, <2>1
    <2>5. Max(R) = q
      BY <2>2, <2>3, <2>4, MaxIs
    <2> QED BY <2>1, <2>5 DEF MatchEnd
  <1>14. There(f, c)
    <2>1. /\ Min(Letters) = Len(Bytes(f)) + 1
          /\ MatchEnd(Len(Bytes(f)) + 1) = Len(Bytes(f)) + Len(Bytes(c))
          /\ text[Len(Bytes(f)) + 1] = <<c[1], 1>>
          /\ Cut(text, Len(Bytes(f)) + 1, Len(Bytes(f)) + Len(Bytes(c))) = Bytes(c)
      BY <1>2, <1>3, <1>4, <1>5, <1>6, <1>10, <1>11, <1>12, <1>13
    <2> QED BY <2>1 DEF There
  <1> QED BY <1>14
----------------------------------------------------------------------------
\* Kinds of characters.

\* Characters that have neither another case nor marks.
Special == Bounds \cup Ignored

LEMMA SpecialIs ==
    /\ Separators \subseteq Bounds /\ Period \in Bounds /\ Bounds \subseteq Char
    /\ Ignored \subseteq Char /\ Flags \subseteq Ignored /\ Period \in Char
    /\ \A c \in Ignored : c \notin Bounds
    /\ \A c \in Bounds : Width[c] = 1
    /\ \A c \in Special : /\ Mapped(Plain, c) = c /\ Mapped(Lower, c) = c /\ c \notin Long
                          /\ c \notin DOMAIN Lower /\ c \notin DOMAIN Plain
    /\ \A c : Mapped(Plain, c) \in Special => Mapped(Plain, c) = c
    /\ \A c : Mapped(Lower, c) \in Special => Mapped(Lower, c) = c
    /\ \A c \in Char : Mapped(Plain, c) \in Char /\ Mapped(Lower, c) \in Char
    /\ Separators \subseteq Char
  BY ScanAssumption DEF Special, Bounds, Mapped

\* Characters that are the same without marks are of the same kind.
LEMMA SameKind ==
    ASSUME NEW c, NEW d, Mapped(Plain, c) = Mapped(Plain, d)
    PROVE  /\ c \in Special \/ d \in Special => c = d
           /\ c \in Bounds <=> d \in Bounds
           /\ c \in Ignored <=> d \in Ignored
           /\ c \in Flags <=> d \in Flags
  <1>1. c \in Special => c = d
    BY SpecialIs
  <1>2. d \in Special => c = d
    BY SpecialIs
  <1>3. Bounds \subseteq Special /\ Ignored \subseteq Special /\ Flags \subseteq Special
    BY SpecialIs DEF Special
  <1> QED BY <1>1, <1>2, <1>3

Fun == {Lower, Plain}

LEMMA EachIs ==
    ASSUME NEW f \in Fun, NEW s \in Seq(Char), NEW t, t = Each(f, s)
    PROVE  /\ t \in Seq(Char) /\ Len(t) = Len(s) /\ Len(s) \in Nat
           /\ \A i \in 1..Len(s) : t[i] = Mapped(f, s[i])
  <1>1. Len(s) \in Nat /\ DOMAIN s = 1..Len(s) /\ \A i \in 1..Len(s) : s[i] \in Char
    OBVIOUS
  <1>2. t = [i \in 1..Len(s) |-> Mapped(f, s[i])]
    BY <1>1 DEF Each
  <1>3. \A i \in 1..Len(s) : t[i] = Mapped(f, s[i]) /\ t[i] \in Char
    BY <1>1, <1>2, SpecialIs DEF Fun
  <1> QED BY <1>1, <1>2, <1>3

LEMMA EachEqual ==
    ASSUME NEW f \in Fun, NEW s \in Seq(Char), NEW t \in Seq(Char)
    PROVE  Each(f, s) = Each(f, t) <=>
              /\ Len(s) = Len(t)
              /\ \A i \in 1..Len(s) : Mapped(f, s[i]) = Mapped(f, t[i])
  <1>1. PICK u, v : u = Each(f, s) /\ v = Each(f, t)
    OBVIOUS
  <1>2. /\ u \in Seq(Char) /\ Len(u) = Len(s) /\ \A i \in 1..Len(s) : u[i] = Mapped(f, s[i])
        /\ Len(s) \in Nat
    BY <1>1, EachIs
  <1>3. /\ v \in Seq(Char) /\ Len(v) = Len(t) /\ \A i \in 1..Len(t) : v[i] = Mapped(f, t[i])
        /\ Len(t) \in Nat
    BY <1>1, EachIs
  <1>4. u = v <=> Len(u) = Len(v) /\ \A i \in 1..Len(u) : u[i] = v[i]
    BY <1>2, <1>3, SeqEqual
  <1> QED BY <1>1, <1>2, <1>3, <1>4
----------------------------------------------------------------------------
\* Ends of words.

\* Since the last bound there are only ignored characters.
LeftClean(l) ==
    \A i \in 1..Len(l) : (\A k \in i..Len(l) : l[k] \notin Bounds) => l[i] \in Ignored

\* Up to the next bound there are only ignored characters.
RightClean(r) ==
    \A i \in 1..Len(r) : (\A k \in 1..i : r[k] \notin Bounds) => r[i] \in Ignored

LEMMA CleanEmpty ==
    LeftClean(<< >>) /\ RightClean(<< >>)
  <1>1. PICK e : e = << >>
    OBVIOUS
  <1>2. 1..Len(e) = {}
    BY <1>1
  <1> QED BY <1>1, <1>2 DEF LeftClean, RightClean

LEMMA LeftBound ==
    ASSUME NEW l \in Seq(Char), Len(l) >= 1, l[Len(l)] \in Bounds
    PROVE  LeftClean(l)
  <1>1. ASSUME NEW i \in 1..Len(l) PROVE ~(\A k \in i..Len(l) : l[k] \notin Bounds)
    <2>1. Len(l) \in i..Len(l)
      OBVIOUS
    <2> QED BY <2>1
  <1> QED BY <1>1 DEF LeftClean

LEMMA RightBound ==
    ASSUME NEW r \in Seq(Char), r = << >> \/ r[1] \in Bounds
    PROVE  RightClean(r)
  <1>1. CASE r = << >>
    BY <1>1, CleanEmpty
  <1>2. CASE r[1] \in Bounds
    <2>1. ASSUME NEW i \in 1..Len(r) PROVE ~(\A k \in 1..i : r[k] \notin Bounds)
      <3>1. 1 \in 1..i
        OBVIOUS
      <3> QED BY <1>2, <3>1
    <2> QED BY <2>1 DEF RightClean
  <1> QED BY <1>1, <1>2

LEMMA LeftIgnored ==
    ASSUME NEW l \in Seq(Char), LeftClean(l), NEW c \in Ignored, NEW m, m = Append(l, c)
    PROVE  LeftClean(m)
  <1>1. /\ Len(l) \in Nat /\ Len(m) = Len(l) + 1 /\ m[Len(l) + 1] = c
        /\ \A i \in 1..Len(l) : m[i] = l[i]
    OBVIOUS
  <1>2. ASSUME NEW i \in 1..Len(m), \A k \in i..Len(m) : m[k] \notin Bounds
        PROVE  m[i] \in Ignored
    <2>1. CASE i = Len(m)
      BY <1>1, <2>1
    <2>2. CASE i # Len(m)
      <3>1. i \in 1..Len(l) /\ \A k \in i..Len(l) : k \in i..Len(m) /\ m[k] = l[k]
        BY <1>1, <2>2
      <3>2. \A k \in i..Len(l) : l[k] \notin Bounds
        BY <1>2, <3>1
      <3> QED BY <1>1, <3>1, <3>2 DEF LeftClean
    <2> QED BY <2>1, <2>2
  <1> QED BY <1>2 DEF LeftClean

LEMMA RightIgnored ==
    ASSUME NEW r \in Seq(Char), RightClean(r), NEW c \in Ignored, NEW s, s = <<c>> \o r
    PROVE  RightClean(s)
  <1>1. c \in Char
    BY SpecialIs
  <1>2. /\ Len(r) \in Nat /\ Len(s) = Len(r) + 1 /\ s[1] = c
        /\ \A i \in 1..Len(r) : s[i + 1] = r[i]
    <2>1. PICK a : a = <<c>>
      OBVIOUS
    <2>2. a \in Seq(Char) /\ Len(a) = 1 /\ a[1] = c /\ s = a \o r
      BY <1>1, <2>1
    <2>3. /\ Len(r) \in Nat /\ Len(s) = Len(a) + Len(r)
          /\ \A i \in 1..Len(a) : s[i] = a[i]
          /\ \A k \in 1..Len(r) : s[Len(a) + k] = r[k]
      BY <2>2, ConcatIs
    <2>4. 1 \in 1..Len(a) /\ \A k \in 1..Len(r) : Len(a) + k = k + 1
      BY <2>2
    <2> QED BY <2>2, <2>3, <2>4
  <1>3. ASSUME NEW i \in 1..Len(s), \A k \in 1..i : s[k] \notin Bounds
        PROVE  s[i] \in Ignored
    <2>1. CASE i = 1
      BY <1>2, <2>1
    <2>2. CASE i # 1
      <3>1. PICK j : j = i - 1
        OBVIOUS
      <3>2. j \in 1..Len(r) /\ i = j + 1 /\ \A k \in 1..j : k \in 1..Len(r) /\ k + 1 \in 1..i
        BY <1>2, <2>2, <3>1
      <3>3. \A k \in 1..j : r[k] \notin Bounds
        BY <1>2, <1>3, <3>2
      <3>4. r[j] \in Ignored
        BY <3>2, <3>3 DEF RightClean
      <3> QED BY <1>2, <3>2, <3>4
    <2> QED BY <2>1, <2>2
  <1> QED BY <1>3 DEF RightClean

LEMMA TidyRest ==
    ASSUME NEW p \in Seq(Char), NEW q \in Seq(Char), NEW s, s = p \o q, Tidy(s)
    PROVE  Tidy(q)
  <1>1. PICK m, n : m = Len(p) /\ n = Len(q)
    OBVIOUS
  <1>2. /\ m \in Nat /\ n \in Nat /\ Len(s) = m + n
        /\ \A k \in 1..n : s[m + k] = q[k]
    BY <1>1, ConcatIs
  <1>3. ASSUME NEW j \in 3..n, q[j] \in Ignored, j = n \/ q[j + 1] \in Bounds
        PROVE  q[j - 1] \in Bounds \/ q[j - 2] \notin Ignored
    <2>1. PICK i : i = m + j
      OBVIOUS
    <2>2. /\ i \in 3..Len(s) /\ s[i] = q[j]
          /\ i = m + j /\ i - 1 = m + (j - 1) /\ i - 2 = m + (j - 2) /\ i + 1 = m + (j + 1)
          /\ j - 1 \in 1..n /\ j - 2 \in 1..n
      BY <1>2, <2>1
    <2>3. s[i - 1] = q[j - 1] /\ s[i - 2] = q[j - 2]
      BY <1>2, <2>2
    <2>4. i = Len(s) \/ s[i + 1] \in Bounds
      <3>1. CASE j = n
        BY <1>2, <2>1, <3>1
      <3>2. CASE j # n
        <4>1. j + 1 \in 1..n
          BY <1>2, <3>2
        <4> QED BY <1>2, <1>3, <2>2, <3>2, <4>1
      <3> QED BY <3>1, <3>2
    <2> QED BY <1>3, <2>2, <2>3, <2>4 DEF Tidy
  <1> QED BY <1>1, <1>3 DEF Tidy

LEMMA TidyAlike ==
    ASSUME NEW s \in Seq(Char), NEW t \in Seq(Char), Tidy(s), Len(t) = Len(s),
           \A i \in 1..Len(s) : Mapped(Plain, t[i]) = Mapped(Plain, s[i])
    PROVE  Tidy(t)
  <1>1. Len(s) \in Nat
    OBVIOUS
  <1>2. \A i \in 1..Len(s) : (t[i] \in Ignored <=> s[i] \in Ignored)
                             /\ (t[i] \in Bounds <=> s[i] \in Bounds)
    BY SameKind
  <1>3. ASSUME NEW j \in 3..Len(s), t[j] \in Ignored, j = Len(s) \/ t[j + 1] \in Bounds
        PROVE  t[j - 1] \in Bounds \/ t[j - 2] \notin Ignored
    <2>1. j \in 1..Len(s) /\ j - 1 \in 1..Len(s) /\ j - 2 \in 1..Len(s)
          /\ (j = Len(s) \/ j + 1 \in 1..Len(s))
      BY <1>1
    <2>2. s[j] \in Ignored /\ (j = Len(s) \/ s[j + 1] \in Bounds)
      BY <1>2, <1>3, <2>1
    <2>3. s[j - 1] \in Bounds \/ s[j - 2] \notin Ignored
      BY <2>2 DEF Tidy
    <2> QED BY <1>2, <2>1, <2>3
  <1> QED BY <1>3 DEF Tidy
----------------------------------------------------------------------------
\* Texts without flags.

Flagless == Char \ Flags

LEMMA RemFlagsIs ==
    /\ \A s \in Seq(Char) : RemFlags(s) \in Seq(Flagless)
    /\ \A s, t \in Seq(Char) : RemFlags(s \o t) = RemFlags(s) \o RemFlags(t)
    /\ \A s \in Seq(Flagless) : RemFlags(s) = s
    /\ \A s \in Seq(Flags) : RemFlags(s) = << >>
    /\ RemFlags(<< >>) = << >>
    /\ Flagless \subseteq Char /\ Flags \subseteq Char
    /\ \A s \in Seq(Flagless) : s \in Seq(Char)
    /\ \A s \in Seq(Flags) : s \in Seq(Char)
  <1>1. \A s : RemFlags(s) = Selected(s, Flagless)
    BY DEF RemFlags, Flagless
  <1>2. Flagless \subseteq Char /\ Flags \subseteq Char
    BY SpecialIs DEF Flagless
  <1>3. Both(Char, Flagless) = Flagless
    BY <1>2 DEF Both
  <1>4. \A s \in Seq(Char) : RemFlags(s) \in Seq(Flagless)
    BY <1>1, <1>3, SelectedType
  <1>5. \A s, t \in Seq(Char) : RemFlags(s \o t) = RemFlags(s) \o RemFlags(t)
    BY <1>1, SelectedConcat
  <1>6. \A s \in Seq(Flagless) : RemFlags(s) = s
    BY <1>1, SelectedAll
  <1>7. \A s \in Seq(Flags) : RemFlags(s) = << >>
    <2>1. \A c \in Flags : c \notin Flagless
      BY DEF Flagless
    <2>2. \A s \in Seq(Flags) : Selected(s, Flagless) = << >>
      BY <2>1, SelectedNone
    <2> QED BY <1>1, <2>2
  <1>8. RemFlags(<< >>) = << >>
    BY <1>1, SelectedSmall
  <1>9. /\ \A s \in Seq(Flagless) : s \in Seq(Char)
        /\ \A s \in Seq(Flags) : s \in Seq(Char)
    BY <1>2
  <1> QED BY <1>2, <1>4, <1>5, <1>6, <1>7, <1>8, <1>9
----------------------------------------------------------------------------
\* Texts with other marks.

\* t is s with other marks, except in words in which s has a macron.
MarkedFrom(t, s) ==
    /\ t \in Seq(Char) /\ s \in Seq(Char) /\ Len(t) = Len(s)
    /\ \A i \in 1..Len(s) : Mapped(Plain, t[i]) = Mapped(Plain, s[i])
    /\ \A i, j \in 1..Len(s) : s[j] \in Long /\ Together(s, i, j) => t[i] = s[i]

Between(i, j) == {k \in Int : (i <= k /\ k <= j) \/ (j <= k /\ k <= i)}

LEMMA TogetherIs ==
    ASSUME NEW s, NEW i \in Int, NEW j \in Int
    PROVE  Together(s, i, j) <=> \A k \in Between(i, j) : s[k] \notin Bounds
  <1>1. /\ Max({i, j}) = IF i <= j THEN j ELSE i
        /\ Min({i, j}) = IF i <= j THEN i ELSE j
    BY MinMax
  <1>2. Min({i, j})..Max({i, j}) = Between(i, j)
    BY <1>1 DEF Between
  <1> QED BY <1>2 DEF Together

LEMMA MarkedSame ==
    ASSUME NEW s \in Seq(Char)
    PROVE  MarkedFrom(s, s)
  BY DEF MarkedFrom

\* What stands where in p and q one behind the other.
InTwo(p, q, y) ==
    /\ y \in Seq(Char) /\ Len(p) \in Nat /\ Len(q) \in Nat /\ Len(y) = Len(p) + Len(q)
    /\ \A i \in 1..Len(p) : y[i] = p[i]
    /\ \A k \in 1..Len(q) : y[Len(p) + k] = q[k]
    /\ \A i \in 1..Len(y) : i \in 1..Len(p) \/ \E k \in 1..Len(q) : i = Len(p) + k

LEMMA TwoParts ==
    ASSUME NEW p \in Seq(Char), NEW q \in Seq(Char), NEW y, y = p \o q
    PROVE  InTwo(p, q, y)
  BY ConcatIs DEF InTwo

\* The same for p, q and r.
InThree(p, q, r, y) ==
    /\ y \in Seq(Char) /\ Len(p) \in Nat /\ Len(q) \in Nat /\ Len(r) \in Nat
    /\ Len(y) = Len(p) + Len(q) + Len(r)
    /\ \A i \in 1..Len(p) : y[i] = p[i]
    /\ \A k \in 1..Len(q) : y[Len(p) + k] = q[k]
    /\ \A k \in 1..Len(r) : y[Len(p) + Len(q) + k] = r[k]
    /\ \A i \in 1..Len(y) :
          \/ i \in 1..Len(p)
          \/ \E k \in 1..Len(q) : i = Len(p) + k
          \/ \E k \in 1..Len(r) : i = Len(p) + Len(q) + k

LEMMA ThreeParts ==
    ASSUME NEW p \in Seq(Char), NEW q \in Seq(Char), NEW r \in Seq(Char),
           NEW y, y = (p \o q) \o r
    PROVE  InThree(p, q, r, y)
  <1>1. PICK a : a = p \o q
    OBVIOUS
  <1>2. PICK l, m, n : l = Len(p) /\ m = Len(q) /\ n = Len(r)
    OBVIOUS
  <1>3. /\ a \in Seq(Char) /\ l \in Nat /\ m \in Nat /\ Len(a) = l + m
        /\ \A i \in 1..l : a[i] = p[i]
        /\ \A k \in 1..m : a[l + k] = q[k]
        /\ \A i \in 1..Len(a) : i \in 1..l \/ \E k \in 1..m : i = l + k
    <2>1. InTwo(p, q, a)
      BY <1>1, TwoParts
    <2> QED BY <1>2, <2>1 DEF InTwo
  <1>4. /\ y \in Seq(Char) /\ n \in Nat /\ Len(y) = Len(a) + n
        /\ \A i \in 1..Len(a) : y[i] = a[i]
        /\ \A k \in 1..n : y[Len(a) + k] = r[k]
        /\ \A i \in 1..Len(y) : i \in 1..Len(a) \/ \E k \in 1..n : i = Len(a) + k
    <2>1. y = a \o r /\ a \in Seq(Char)
      BY <1>1, <1>3
    <2>2. InTwo(a, r, y)
      BY <2>1, TwoParts
    <2> QED BY <1>2, <2>2 DEF InTwo
  <1>5. Len(y) = l + m + n
    BY <1>3, <1>4
  <1>6. \A i \in 1..l : y[i] = p[i]
    BY <1>3, <1>4
  <1>7. \A k \in 1..m : y[l + k] = q[k]
    <2>1. \A k \in 1..m : l + k \in 1..Len(a)
      BY <1>3
    <2> QED BY <1>3, <1>4, <2>1
  <1>8. \A k \in 1..n : y[l + m + k] = r[k]
    BY <1>3, <1>4
  <1>9. \A i \in 1..Len(y) :
           \/ i \in 1..l
           \/ \E k \in 1..m : i = l + k
           \/ \E k \in 1..n : i = l + m + k
    BY <1>3, <1>4
  <1> QED BY <1>2, <1>3, <1>4, <1>5, <1>6, <1>7, <1>8, <1>9 DEF InThree

\* Letters are given other marks where no word has a macron.
LEMMA MarkedMore ==
    ASSUME NEW u \in Seq(Char), NEW v \in Seq(Char), NEW x \in Seq(Char), NEW z \in Seq(Char),
           NEW t, t = (u \o v) \o z, NEW y, y = (u \o x) \o z,
           NEW s, MarkedFrom(t, s), Len(x) = Len(v),
           \A i \in 1..Len(v) : /\ Mapped(Plain, x[i]) = Mapped(Plain, v[i])
                                /\ v[i] \notin Long,
           LeftClean(u), RightClean(z) \/ v[Len(v)] = Period
    PROVE  MarkedFrom(y, s)
  <1>1. PICK l, m, n : l = Len(u) /\ m = Len(v) /\ n = Len(z)
    OBVIOUS
  <1>2. InThree(u, v, z, t) /\ InThree(u, x, z, y)
    BY ThreeParts
  <1>3. /\ l \in Nat /\ m \in Nat /\ n \in Nat /\ Len(t) = l + m + n
        /\ \A i \in 1..l : t[i] = u[i]
        /\ \A k \in 1..m : t[l + k] = v[k]
        /\ \A k \in 1..n : t[l + m + k] = z[k]
    BY <1>1, <1>2 DEF InThree
  <1>6. /\ y \in Seq(Char) /\ Len(y) = l + m + n
        /\ \A i \in 1..l : y[i] = u[i]
        /\ \A k \in 1..m : y[l + k] = x[k]
        /\ \A k \in 1..n : y[l + m + k] = z[k]
    BY <1>1, <1>2 DEF InThree
  <1>7. /\ Len(t) = l + m + n /\ Len(y) = Len(t)
        /\ \A i \in 1..l : t[i] = u[i] /\ y[i] = u[i]
        /\ \A k \in 1..m : t[l + k] = v[k] /\ y[l + k] = x[k]
        /\ \A k \in 1..n : t[l + m + k] = z[k] /\ y[l + m + k] = z[k]
    BY <1>3, <1>6
  <1>8. \A i \in 1..Len(t) :
           \/ i \in 1..l
           \/ \E k \in 1..m : i = l + k
           \/ \E k \in 1..n : i = l + m + k
    BY <1>1, <1>2 DEF InThree
  <1>9. /\ s \in Seq(Char) /\ Len(s) = Len(t)
        /\ \A i \in 1..Len(s) : Mapped(Plain, t[i]) = Mapped(Plain, s[i])
        /\ \A i, j \in 1..Len(s) : s[j] \in Long /\ Together(s, i, j) => t[i] = s[i]
    BY DEF MarkedFrom
  <1>10. \A i \in 1..Len(s) : Mapped(Plain, y[i]) = Mapped(Plain, s[i])
    <2>1. ASSUME NEW i \in 1..Len(s) PROVE Mapped(Plain, y[i]) = Mapped(Plain, t[i])
      <3>1. CASE i \in 1..l
        BY <1>7, <3>1
      <3>2. CASE \E k \in 1..m : i = l + k
        BY <1>1, <1>7, <3>2
      <3>3. CASE \E k \in 1..n : i = l + m + k
        BY <1>7, <3>3
      <3> QED BY <1>8, <1>9, <3>1, <3>2, <3>3
    <2> QED BY <1>9, <2>1
  <1>11. ASSUME NEW i \in 1..Len(s), NEW j \in 1..Len(s), s[j] \in Long, Together(s, i, j)
         PROVE  y[i] = s[i]
    <2>1. i \in Int /\ j \in Int
      OBVIOUS
    <2>2. \A k \in Between(i, j) : s[k] \notin Bounds
      BY <1>11, <2>1, TogetherIs
    <2>3. t[i] = s[i]
      BY <1>9, <1>11
    <2>4. t[j] \in Long
      <3>1. s[j] \notin Bounds
        BY <1>11, SpecialIs DEF Special
      <3>2. \A k \in Between(j, j) : k = j
        BY <2>1 DEF Between
      <3>3. Together(s, j, j)
        BY <2>1, <3>1, <3>2, TogetherIs
      <3> QED BY <1>9, <1>11, <3>3
    <2>5. t[j] \notin Ignored
      BY <2>4, SpecialIs DEF Special
    <2>6. ASSUME NEW k \in Between(i, j), k \in 1..Len(s) PROVE t[k] \notin Bounds
      <3>1. s[k] \notin Bounds
        BY <2>2
      <3> QED BY <1>9, <2>6, <3>1, SameKind
    <2>7. CASE \E h \in 1..m : i = l + h
      <3>1. PICK h \in 1..m : i = l + h
        BY <2>7
      <3>2. CASE j \in 1..l
        <4>1. \A k \in j..l : k \in Between(i, j) /\ k \in 1..Len(s) /\ t[k] = u[k]
          BY <1>3, <1>7, <1>9, <3>1, <3>2 DEF Between
        <4>2. \A k \in j..l : u[k] \notin Bounds
          BY <2>6, <4>1
        <4>3. u[j] \in Ignored
          BY <1>1, <3>2, <4>2 DEF LeftClean
        <4> QED BY <1>7, <2>5, <3>2, <4>3
      <3>3. CASE \E k \in 1..m : j = l + k
        BY <1>1, <1>7, <2>4, <3>3
      <3>4. CASE \E k \in 1..n : j = l + m + k
        <4>1. PICK g \in 1..n : j = l + m + g
          BY <3>4
        <4>2. CASE v[Len(v)] = Period
          <5>1. l + m \in Between(i, j) /\ l + m \in 1..Len(s) /\ m \in 1..m
            BY <1>3, <1>7, <1>9, <3>1, <4>1 DEF Between
          <5>2. t[l + m] = Period
            BY <1>1, <1>7, <4>2, <5>1
          <5> QED BY <2>6, <5>1, <5>2, SpecialIs
        <4>3. CASE RightClean(z)
          <5>1. \A k \in 1..g : /\ l + m + k \in Between(i, j) /\ l + m + k \in 1..Len(s)
                                /\ k \in 1..n
            BY <1>3, <1>7, <1>9, <3>1, <4>1 DEF Between
          <5>2. \A k \in 1..g : t[l + m + k] = z[k] /\ z[k] \notin Bounds
            BY <1>7, <2>6, <5>1
          <5>3. z[g] \in Ignored
            BY <1>1, <4>3, <5>2 DEF RightClean
          <5> QED BY <1>7, <2>5, <4>1, <5>3
        <4> QED BY <4>2, <4>3
      <3> QED BY <1>8, <1>9, <3>2, <3>3, <3>4
    <2>8. CASE ~\E h \in 1..m : i = l + h
      <3>1. y[i] = t[i]
        <4>1. CASE i \in 1..l
          BY <1>7, <4>1
        <4>2. CASE \E k \in 1..n : i = l + m + k
          BY <1>7, <4>2
        <4> QED BY <1>8, <1>9, <2>8, <4>1, <4>2
      <3> QED BY <2>3, <3>1
    <2> QED BY <2>7, <2>8
  <1> QED BY <1>6, <1>7, <1>9, <1>10, <1>11 DEF MarkedFrom
----------------------------------------------------------------------------
\* What Macronize puts in the place of a word.

LEMMA Recapital ==
    ASSUME NEW c \in Char, NEW g \in Char, Mapped(Plain, g) = Mapped(Lower, c),
           NEW d, d = IF c \in DOMAIN Lower THEN Upper(g) ELSE g
    PROVE  d \in Char /\ Mapped(Plain, d) = Mapped(Plain, c) /\ Width[c] <= Width[d]
  <1>1. \A e \in DOMAIN Plain : Plain[e] \notin DOMAIN Plain /\ Width[Plain[e]] <= Width[e]
    BY ScanAssumption
  <1>2. \A e : Mapped(Plain, Mapped(Plain, e)) = Mapped(Plain, e)
    BY <1>1 DEF Mapped
  <1>3. \A e \in Char : Width[Mapped(Plain, e)] <= Width[e]
    BY <1>1, WidthIs DEF Mapped
  <1>4. CASE c \notin DOMAIN Lower
    <2>1. d = g /\ Mapped(Plain, g) = c
      BY <1>4 DEF Mapped
    <2> QED BY <1>2, <1>3, <2>1
  <1>5. CASE c \in DOMAIN Lower
    <2>1. Mapped(Plain, g) = Lower[c] /\ d = Upper(g)
      BY <1>5 DEF Mapped
    <2>2. \E e \in DOMAIN Lower : Lower[e] = g
      BY <1>5, <2>1, ScanAssumption
    <2>3. d \in DOMAIN Lower /\ Lower[d] = g
      BY <2>1, <2>2 DEF Upper
    <2>4. /\ Mapped(Plain, d) \in DOMAIN Lower
          /\ Mapped(Plain, Lower[d]) = Lower[Mapped(Plain, d)] /\ d \in Char
      BY <2>3, ScanAssumption
    <2>5. Lower[Mapped(Plain, d)] = Lower[c]
      BY <2>1, <2>3, <2>4
    <2>6. Mapped(Plain, d) = c
      BY <1>5, <2>4, <2>5, ScanAssumption
    <2> QED BY <1>2, <1>3, <2>4, <2>6
  <1> QED BY <1>4, <1>5

LEMMA RecapitalizedIs ==
    ASSUME w \in Seq(Char), NEW form \in Seq(Char), Len(form) <= Len(w),
           \A i \in 1..Len(form) : Mapped(Plain, form[i]) = Mapped(Lower, w[i]),
           NEW x, x = Recapitalized(form)
    PROVE  /\ x \in Seq(Char) /\ Len(x) = Len(form)
           /\ \A i \in 1..Len(form) : /\ Mapped(Plain, x[i]) = Mapped(Plain, w[i])
                                      /\ Width[w[i]] <= Width[x[i]]
  <1>1. /\ Len(form) \in Nat /\ DOMAIN form = 1..Len(form)
        /\ \A i \in 1..Len(form) : form[i] \in Char /\ w[i] \in Char
    OBVIOUS
  <1>2. x = [i \in 1..Len(form) |-> IF w[i] \in DOMAIN Lower THEN Upper(form[i]) ELSE form[i]]
    BY <1>1 DEF Recapitalized
  <1>3. ASSUME NEW i \in 1..Len(form)
        PROVE  /\ x[i] \in Char /\ Mapped(Plain, x[i]) = Mapped(Plain, w[i])
               /\ Width[w[i]] <= Width[x[i]]
    <2>1. PICK c, g, d : c = w[i] /\ g = form[i] /\ d = x[i]
      OBVIOUS
    <2>2. d = IF c \in DOMAIN Lower THEN Upper(g) ELSE g
      BY <1>2, <2>1
    <2>3. c \in Char /\ g \in Char /\ Mapped(Plain, g) = Mapped(Lower, c)
      BY <1>1, <2>1
    <2>4. d \in Char /\ Mapped(Plain, d) = Mapped(Plain, c) /\ Width[c] <= Width[d]
      BY <2>2, <2>3, Recapital
    <2> QED BY <2>1, <2>4
  <1>4. x \in Seq(Char) /\ Len(x) = Len(form)
    BY <1>1, <1>2, <1>3
  <1> QED BY <1>3, <1>4

\* A word without macrons is looked up in lower case.
LEMMA LookedUp ==
    ASSUME w \in Seq(Char), ~HasMacrons, NEW s, s = Each(Lower, w)
    PROVE  /\ Each(macroninvtbl, s) = s /\ s \in Seq(Char) /\ Len(s) = Len(w) /\ Len(w) \in Nat
           /\ \A i \in 1..Len(w) : s[i] = Mapped(Lower, w[i])
  <1>1. /\ s \in Seq(Char) /\ Len(s) = Len(w) /\ Len(w) \in Nat
        /\ \A i \in 1..Len(w) : s[i] = Mapped(Lower, w[i])
    BY EachIs DEF Fun
  <1>2. \A i \in 1..Len(w) : s[i] \notin Long
    <2>1. \A i \in 1..Len(w) : w[i] \notin Long
      BY DEF HasMacrons
    <2>2. \A c : Mapped(Lower, c) \in Long => c \in Long
      BY ScanAssumption DEF Mapped
    <2> QED BY <1>1, <2>1, <2>2
  <1>3. DOMAIN s = 1..Len(w) /\ s = [i \in 1..Len(w) |-> s[i]]
    BY <1>1
  <1>4. \A i \in 1..Len(w) : Mapped(macroninvtbl, s[i]) = s[i]
    BY <1>2 DEF Mapped, macroninvtbl
  <1>5. Each(macroninvtbl, s) = s
    BY <1>3, <1>4 DEF Each
  <1> QED BY <1>1, <1>5

\* What is found in the key fits the word, or the word without its period.
LEMMA EntryFits ==
    ASSUME KeySpelled, NEW s \in Seq(Char), Len(s) \in Nat, NEW entry, entry = Entry(s)
    PROVE  /\ entry.flags \in Seq(Flags)
           /\ entry.form # << >> =>
                 /\ entry.form \in Seq(Char) /\ entry.period \in {0, 1}
                 /\ Len(entry.form) = Len(s) - entry.period
                 /\ \A i \in 1..Len(entry.form) : Mapped(Plain, entry.form[i]) = s[i]
                 /\ entry.period = 1 => Len(s) >= 1 /\ s[Len(s)] = Period
  <1>1. \A k \in DOMAIN Key : /\ Key[k].form \in Seq(Char) /\ Key[k].flags \in Seq(Flags)
                              /\ Each(Plain, Key[k].form) = k
    BY ScanAssumption DEF KeySpelled
  <1>2. \A k \in DOMAIN Key : /\ Len(Key[k].form) = Len(k)
                              /\ \A i \in 1..Len(k) : Mapped(Plain, Key[k].form[i]) = k[i]
    <2>1. ASSUME NEW k \in DOMAIN Key
          PROVE  /\ Len(Key[k].form) = Len(k)
                 /\ \A i \in 1..Len(k) : Mapped(Plain, Key[k].form[i]) = k[i]
      <3>1. PICK g : g = Key[k].form
        OBVIOUS
      <3>2. g \in Seq(Char) /\ k = Each(Plain, g)
        BY <1>1, <3>1
      <3>3. /\ Len(k) = Len(g) /\ \A i \in 1..Len(g) : k[i] = Mapped(Plain, g[i])
        BY <3>2, EachIs DEF Fun
      <3> QED BY <3>1, <3>3
    <2> QED BY <2>1
  <1>3. CASE s \in DOMAIN Key
    <2>1. entry.form = Key[s].form /\ entry.flags = Key[s].flags /\ entry.period = 0
      BY <1>3 DEF Entry
    <2> QED BY <1>1, <1>2, <1>3, <2>1
  <1>4. CASE s \notin DOMAIN Key /\ s # << >> /\ Last(s) = Period /\ Front(s) \in DOMAIN Key
    <2>1. PICK h : h = Front(s)
      OBVIOUS
    <2>2. entry.form = Key[h].form /\ entry.flags = Key[h].flags /\ entry.period = 1
      BY <1>4, <2>1 DEF Entry
    <2>3. Len(h) = Len(s) - 1 /\ Len(s) >= 1 /\ s[Len(s)] = Period
          /\ \A i \in 1..(Len(s) - 1) : h[i] = s[i]
      BY <1>4, <2>1, FrontAndLast
    <2>4. h \in DOMAIN Key
      BY <1>4, <2>1
    <2> QED BY <1>1, <1>2, <2>2, <2>3, <2>4
  <1>5. CASE ~(s \in DOMAIN Key \/ (s # << >> /\ Last(s) = Period /\ Front(s) \in DOMAIN Key))
    <2>1. entry.form = << >> /\ entry.flags = << >>
      BY <1>5 DEF Entry
    <2>2. << >> \in Seq(Flags)
      OBVIOUS
    <2> QED BY <2>1, <2>2
  <1> QED BY <1>3, <1>4, <1>5

\* x is put in the place of the word, or of what stands before its last p characters:
\* z is what the word becomes.
Becomes(x, p, z) ==
    /\ x \in Seq(Char) /\ z \in Seq(Char) /\ p \in {0, 1}
    /\ p = 0 => z = x
    /\ p = 1 => z = x \o <<Period>> /\ w[Len(w)] = Period
    /\ Len(z) = Len(w) /\ Len(Bytes(w)) <= Len(Bytes(z))
    /\ \A i \in 1..Len(w) : Mapped(Plain, z[i]) = Mapped(Plain, w[i])
    /\ z = w \/ (\A i \in 1..Len(w) : w[i] \notin Ignored \cup Long)

FitsWord(s, form, p, n) ==
    /\ form \in Seq(Char) /\ p \in {0, 1} /\ n \in Nat
    /\ n = Len(w) /\ \A i \in 1..n : s[i] = Mapped(Lower, w[i])
    /\ Len(form) = n - p /\ \A i \in 1..Len(form) : Mapped(Plain, form[i]) = s[i]
    /\ p = 1 => n >= 1 /\ s[n] = Period
    /\ \A i \in 1..n : w[i] \notin Ignored \cup Long

LEMMA FormBecomes ==
    ASSUME w \in Seq(Char), NEW s, NEW form, NEW p, NEW n, FitsWord(s, form, p, n),
           NEW x, x = Recapitalized(form)
    PROVE  \E z : Becomes(x, p, z)
  <1> USE DEF FitsWord
  <1>1. Len(form) \in Nat /\ Len(form) <= n /\ \A i \in 1..Len(form) : i \in 1..n
    <2>1. Len(form) \in Nat
      OBVIOUS
    <2>2. CASE p = 0
      BY <2>1, <2>2
    <2>3. CASE p = 1
      BY <2>1, <2>3
    <2> QED BY <2>2, <2>3
  <1>2. /\ x \in Seq(Char) /\ Len(x) = Len(form)
        /\ \A i \in 1..Len(form) : /\ Mapped(Plain, x[i]) = Mapped(Plain, w[i])
                                   /\ Width[w[i]] <= Width[x[i]]
    <2>1. \A i \in 1..Len(form) : Mapped(Plain, form[i]) = Mapped(Lower, w[i])
      BY <1>1
    <2> QED BY <1>1, <2>1, RecapitalizedIs
  <1>3. CASE p = 0
    <2>1. Len(x) = n
      BY <1>2, <1>3
    <2>2. \A i \in 1..n : /\ Mapped(Plain, x[i]) = Mapped(Plain, w[i])
                          /\ Width[w[i]] <= Width[x[i]]
      BY <1>2, <2>1
    <2>3. Len(Bytes(w)) <= Len(Bytes(x))
      BY <1>2, <2>1, <2>2, BytesGrow
    <2>4. Becomes(x, p, x)
      BY <1>2, <1>3, <2>1, <2>2, <2>3 DEF Becomes
    <2> QED BY <2>4
  <1>4. CASE p = 1
    <2>1. PICK a, z : a = <<Period>> /\ z = x \o a
      OBVIOUS
    <2>2. Period \in Char /\ a \in Seq(Char) /\ Len(a) = 1 /\ a[1] = Period
      BY <2>1, SpecialIs
    <2>3. InTwo(x, a, z)
      BY <1>2, <2>1, <2>2, TwoParts
    <2>4. Len(x) = n - 1 /\ n >= 1
      BY <1>2, <1>4
    <2>5. /\ z \in Seq(Char) /\ Len(z) = Len(x) + 1
          /\ \A i \in 1..Len(x) : z[i] = x[i]
          /\ \A k \in 1..1 : z[Len(x) + k] = a[k]
      BY <2>2, <2>3 DEF InTwo
    <2>6. Len(z) = n /\ z[n] = Period /\ \A i \in 1..(n - 1) : z[i] = x[i]
      <3>1. Len(x) + 1 = n /\ 1 \in 1..1
        BY <2>4
      <3>2. z[Len(x) + 1] = a[1]
        BY <2>5, <3>1
      <3> QED BY <2>2, <2>4, <2>5, <3>1, <3>2
    <2>7. w[n] = Period
      <3>1. n \in 1..n /\ Mapped(Lower, w[n]) = Period
        BY <1>4
      <3>2. Period \in Special
        BY SpecialIs DEF Special
      <3> QED BY <3>1, <3>2, SpecialIs
    <2>8. ASSUME NEW i \in 1..n PROVE /\ Mapped(Plain, z[i]) = Mapped(Plain, w[i])
                                      /\ Width[w[i]] <= Width[z[i]]
      <3>1. CASE i = n
        <4>1. z[i] = w[i] /\ Width[Period] = 1 /\ w[i] = Period
          BY <2>6, <2>7, <3>1, SpecialIs
        <4> QED BY <4>1
      <3>2. CASE i # n
        <4>1. i \in 1..Len(form) /\ i \in 1..(n - 1)
          BY <1>4, <3>2
        <4>2. z[i] = x[i]
          BY <2>6, <4>1
        <4> QED BY <1>2, <4>1, <4>2
      <3> QED BY <3>1, <3>2
    <2>9. Len(Bytes(w)) <= Len(Bytes(z))
      BY <2>5, <2>6, <2>8, BytesGrow
    <2>10. Becomes(x, p, z)
      BY <1>2, <1>4, <2>1, <2>5, <2>6, <2>7, <2>8, <2>9 DEF Becomes
    <2> QED BY <2>10
  <1> QED BY <1>3, <1>4

LEMMA WordBecomes ==
    ASSUME KeySpelled, w \in Seq(Char), w # << >>,
           NEW entry, entry = Entry(Each(macroninvtbl, Each(Lower, w))),
           NEW found, found = (~MiddleFound /\ ~Untouched /\ entry.form # << >>),
           NEW x, x = IF found THEN Recapitalized(entry.form) ELSE w,
           NEW p, p = IF found THEN entry.period ELSE 0
    PROVE  \E z : Becomes(x, p, z)
  <1>1. CASE ~(~MiddleFound /\ ~Untouched /\ entry.form # << >>)
    <2>1. x = w /\ p = 0
      BY <1>1
    <2>2. Len(Bytes(w)) <= Len(Bytes(w))
      BY BytesEmpty
    <2>3. Becomes(w, 0, w)
      BY <2>2 DEF Becomes
    <2> QED BY <2>1, <2>3
  <1>2. CASE ~MiddleFound /\ ~Untouched /\ entry.form # << >>
    <2>1. x = Recapitalized(entry.form) /\ p = entry.period
      BY <1>2
    <2>2. ~HasMacrons
      BY <1>2 DEF Untouched, overwrite
    <2>3. PICK s, form, n : s = Each(Lower, w) /\ form = entry.form /\ n = Len(w)
      OBVIOUS
    <2>4. /\ s \in Seq(Char) /\ Len(s) = n /\ n \in Nat /\ entry = Entry(s)
          /\ \A i \in 1..n : s[i] = Mapped(Lower, w[i])
      BY <2>2, <2>3, LookedUp
    <2>5. /\ form \in Seq(Char) /\ p \in {0, 1} /\ Len(form) = n - p
          /\ \A i \in 1..Len(form) : Mapped(Plain, form[i]) = s[i]
          /\ p = 1 => n >= 1 /\ s[n] = Period
      BY <1>2, <2>1, <2>3, <2>4, EntryFits
    <2>6. \A i \in 1..n : w[i] \notin Ignored \cup Long
      BY <1>2, <2>2, <2>3 DEF MiddleFound, HasMacrons
    <2>7. x = Recapitalized(form)
      BY <2>1, <2>3
    <2>8. FitsWord(s, form, p, n)
      BY <2>3, <2>4, <2>5, <2>6 DEF FitsWord
    <2> QED BY <2>7, <2>8, FormBecomes
  <1> QED BY <1>1, <1>2

\* The flags that are put before a word.
LEMMA FlagsAre ==
    ASSUME KeySpelled, w \in Seq(Char),
           NEW entry, entry = Entry(Each(macroninvtbl, Each(Lower, w))),
           NEW found, NEW g,
           g = IF MiddleFound THEN <<Invalid>>
               ELSE IF Untouched THEN << >>
               ELSE IF found THEN entry.flags ELSE <<NotFound>>
    PROVE  g \in Seq(Flags) /\ g \in Seq(Char) /\ RemFlags(g) = << >>
  <1>1. Invalid \in Flags /\ NotFound \in Flags
    BY ScanAssumption
  <1>2. <<Invalid>> \in Seq(Flags) /\ << >> \in Seq(Flags) /\ <<NotFound>> \in Seq(Flags)
    BY <1>1
  <1>3. ~MiddleFound /\ ~Untouched => entry.flags \in Seq(Flags)
    <2>1. ASSUME ~Untouched PROVE entry.flags \in Seq(Flags)
      <3>1. ~HasMacrons
        BY <2>1 DEF Untouched, overwrite
      <3>2. PICK s : s = Each(Lower, w)
        OBVIOUS
      <3>3. s \in Seq(Char) /\ Len(s) \in Nat /\ entry = Entry(s)
        BY <3>1, <3>2, LookedUp
      <3> QED BY <3>3, EntryFits
    <2> QED BY <2>1
  <1>4. g \in Seq(Flags)
    BY <1>2, <1>3
  <1> QED BY <1>4, RemFlagsIs
----------------------------------------------------------------------------
\* The invariant.

Size(s) == Len(Bytes(s))

\* The scan is over with d and has r still before it.  Of the marks of the text it began
\* with, Macronize has taken none away that it must keep.
Remains(d, r) ==
    /\ d \in Seq(Char) /\ r \in Seq(Char) /\ Tidy(r)
    /\ mode = "macronize" =>
          r \in Seq(Flagless) /\ MarkedFrom(RemFlags(d) \o r, Start)

\* No letter that is behind divides one that is ahead from its word.
Clean(d, r) == mode = "macronize" => LeftClean(RemFlags(d)) \/ RightClean(r)

\* Where the next word is looked for.
AtFind(d, r) ==
    /\ Remains(d, r) /\ Clean(d, r) /\ text = Bytes(d \o r)
    /\ from = Size(d) + 1 \/ (r = << >> /\ from = Size(d) + 2)

\* A match m has been found behind x, and is divided in l, v and t.
Found(x, m, r, l, v, t) ==
    /\ l \in Seq(Char) /\ v \in Seq(Char) /\ t \in Seq(Char)
    /\ m \in Seq(Char) /\ r \in Seq(Char) /\ m = (l \o v) \o t
    /\ Remains(x, m \o r) /\ text = Bytes(x \o (m \o r))
    /\ r = << >> \/ (Len(r) >= 1 /\ r[1] \in Separators)
    /\ from \in Int /\ from <= wstart /\ wstart = Size(x) + 1 /\ wend = Size(x) + Size(m)

\* The word is v: what ignorechars has cut from it does not belong to it.
AtWord(x, m, r, l, v, t) ==
    /\ Found(x, m, r, l, v, t)
    /\ w = v /\ newstart = Size(x) + Size(l) + 1
    /\ \/ v # << >> /\ newend = Size(x) + Size(l) + Size(v)
       \/ v = << >> /\ t = << >> /\ l # << >> /\ newend = wend + 1 /\ pc = "word"
    /\ mode = "macronize" =>
          /\ LeftClean(RemFlags(x) \o l) \/ \A i \in 1..Len(v) : v[i] \in Ignored
          /\ RightClean(t \o r) \/ v[Len(v)] = Period

\* ignorechars looks at the end of the word, or before it where nothing is to be ignored.
AtEnd ==
    /\ posright \in Nat /\ posright >= 1
    /\ \/ /\ posright = Len(w)
          /\ Len(w) > 2 /\ w[posright] \in Ignored => w[posright - 2] \notin Ignored
       \/ posright = Len(w) - 1 /\ w[posright] \notin Ignored

\* No word is left of v.
AtNothing(x, m, r, l, v, t) ==
    /\ Found(x, m, r, l, v, t)
    /\ v # << >> /\ newend = Size(x) + Size(l) + Size(v)
    /\ mode = "macronize" => RightClean(t \o r)

ScanInv ==
    /\ mode \in {"learn", "macronize"} /\ source \in Sources
    /\ pc \in {"find", "trim", "word", "nothing", "done", "failed"}
    /\ Tidy(Start) =>
          /\ pc \in {"find", "done"} => \E d, r : AtFind(d, r)
          /\ pc \in {"trim", "word"} => \E x, m, r, l, v, t : AtWord(x, m, r, l, v, t)
          /\ pc = "trim" => AtEnd
          /\ pc = "nothing" => \E x, m, r, l, v, t : AtNothing(x, m, r, l, v, t)
          /\ pc = "failed" => /\ mode = "macronize" /\ HasComments(RemFlags(source))
                              /\ text = Bytes(Start)

LEMMA FlaglessParts ==
    ASSUME NEW p \in Seq(Char), NEW q \in Seq(Char), NEW r, r = p \o q, r \in Seq(Flagless)
    PROVE  p \in Seq(Flagless) /\ q \in Seq(Flagless)
  <1>1. InTwo(p, q, r)
    BY TwoParts
  <1>2. /\ Len(p) \in Nat /\ Len(q) \in Nat /\ Len(r) = Len(p) + Len(q)
        /\ \A i \in 1..Len(p) : r[i] = p[i]
        /\ \A k \in 1..Len(q) : r[Len(p) + k] = q[k]
    BY <1>1 DEF InTwo
  <1>3. \A i \in 1..Len(r) : r[i] \in Flagless
    OBVIOUS
  <1>4. \A i \in 1..Len(p) : p[i] \in Flagless
    BY <1>2, <1>3
  <1>5. \A k \in 1..Len(q) : q[k] \in Flagless
    <2>1. \A k \in 1..Len(q) : Len(p) + k \in 1..Len(r)
      BY <1>2
    <2> QED BY <1>2, <1>3, <2>1
  <1> QED BY <1>4, <1>5

\* What stands first in the rest is passed over.
Took(d, a, q, x, r) ==
    /\ x \in Seq(Char) /\ Remains(x, q) /\ x \o q = d \o r /\ Size(x) = Size(d) + Size(a)
    /\ mode = "macronize" => a \in Seq(Flagless) /\ RemFlags(x) = RemFlags(d) \o a

LEMMA Taken ==
    ASSUME NEW d, NEW r, Remains(d, r), NEW a \in Seq(Char), NEW q \in Seq(Char), r = a \o q,
           NEW x, x = d \o a
    PROVE  Took(d, a, q, x, r)
  <1>1. d \in Seq(Char) /\ r \in Seq(Char) /\ Tidy(r)
    BY DEF Remains
  <1>2. Grouped(d, a, q, x, r, x \o q)
    BY <1>1, Groups
  <1>3. x \in Seq(Char) /\ x \o q = d \o r
    BY <1>2 DEF Grouped
  <1>4. Tidy(q)
    BY <1>1, TidyRest
  <1>5. Size(x) = Size(d) + Size(a)
    BY <1>1, BytesConcat DEF Size
  <1>6. ASSUME mode = "macronize"
        PROVE  /\ a \in Seq(Flagless) /\ q \in Seq(Flagless) /\ RemFlags(x) = RemFlags(d) \o a
               /\ MarkedFrom(RemFlags(x) \o q, Start)
    <2>1. r \in Seq(Flagless) /\ MarkedFrom(RemFlags(d) \o r, Start)
      BY <1>6 DEF Remains
    <2>2. a \in Seq(Flagless) /\ q \in Seq(Flagless)
      BY <2>1, FlaglessParts
    <2>3. RemFlags(x) = RemFlags(d) \o a
      <3>1. RemFlags(d \o a) = RemFlags(d) \o RemFlags(a)
        BY <1>1, RemFlagsIs
      <3>2. RemFlags(a) = a
        BY <2>2, RemFlagsIs
      <3> QED BY <3>1, <3>2
    <2>4. RemFlags(d) \in Seq(Char)
      BY <1>1, RemFlagsIs
    <2>5. RemFlags(x) \o q = RemFlags(d) \o r
      BY <2>3, <2>4, Associates
    <2> QED BY <2>1, <2>2, <2>3, <2>5
  <1> QED BY <1>1, <1>3, <1>4, <1>5, <1>6 DEF Remains, Took

LEMMA FindNext ==
    ASSUME NEW d, NEW q, Remains(d, q), Clean(d, q), NEW y, y = d \o q, text' = Bytes(y),
           from' = Size(d) + 1 \/ (q = << >> /\ from' = Size(d) + 2),
           mode' = mode, Start' = Start
    PROVE  AtFind(d, q)'
  BY DEF AtFind, Remains, Clean, Size

LEMMA IndicesType ==
    ASSUME NEW S, NEW t \in Seq(S), NEW T, NEW kept, kept = Selected([i \in DOMAIN t |-> i], T)
    PROVE  [n \in DOMAIN kept |-> t[kept[n]]] \in Seq(S)
  <1>1. PICK l, D, h : l = Len(t) /\ D = 1..l /\ h = [i \in D |-> i]
    OBVIOUS
  <1>2. l \in Nat /\ h \in Seq(D) /\ \A i \in D : t[i] \in S
    BY <1>1
  <1>3. kept = Selected(h, T)
    <2>1. DOMAIN t = D
      BY <1>1
    <2> QED BY <1>1, <2>1
  <1>4. PICK B : B = Both(D, T)
    OBVIOUS
  <1>5. kept \in Seq(B)
    BY <1>2, <1>3, <1>4, SelectedType
  <1>6. \A c \in B : c \in D
    BY <1>4 DEF Both
  <1>7. /\ Len(kept) \in Nat /\ DOMAIN kept = 1..Len(kept)
        /\ \A n \in 1..Len(kept) : t[kept[n]] \in S
    BY <1>2, <1>5, <1>6
  <1> QED BY <1>7

LEMMA AroundType ==
    ASSUME NEW S, NEW s \in Seq(S), NEW T, T \subseteq 1..Len(s), T # {},
           NEW U, U \subseteq 1..Len(s), U # {}
    PROVE  Cut(s, 1, Min(T) - 1) \o Behind(s, Max(U) + 2) \in Seq(S)
  <1>1. Len(s) \in Nat /\ T \subseteq Nat /\ T \subseteq Int /\ U \subseteq Int
    OBVIOUS
  <1>2. PICK i \in T : \A j \in T : i <= j
    BY <1>1, LeastElement
  <1>3. Min(T) = i
    BY <1>1, <1>2, MinIs
  <1>4. \E k \in U : \A j \in U : k >= j
    <2>1. PICK n : n = Len(s)
      OBVIOUS
    <2>2. n \in Nat /\ \A k \in U : k \in 1..n
      BY <1>1, <2>1
    <2>3. PICK V : V = {n - k : k \in U}
      OBVIOUS
    <2>4. V \subseteq Nat /\ V # {}
      <3>1. \A k \in U : n - k \in Nat
        BY <2>2
      <3>2. \A x \in V : x \in Nat
        BY <2>3, <3>1
      <3>3. PICK k \in U : TRUE
        OBVIOUS
      <3>4. n - k \in V
        BY <2>3, <3>3
      <3> QED BY <3>2, <3>4
    <2>5. PICK h \in V : \A j \in V : h <= j
      BY <2>4, LeastElement
    <2>6. PICK k \in U : h = n - k
      BY <2>3, <2>5
    <2>7. ASSUME NEW j \in U PROVE k >= j
      <3>1. n - j \in V
        BY <2>3
      <3>2. n - k <= n - j /\ k \in Int /\ j \in Int /\ n \in Int
        BY <2>2, <2>5, <2>6, <3>1
      <3> QED BY <3>2
    <2> QED BY <2>7
  <1>5. PICK k \in U : \A j \in U : k >= j
    BY <1>4
  <1>6. Max(U) = k
    BY <1>1, <1>5, MaxIs
  <1>7. PICK e, n : e = i - 1 /\ n = k + 2
    OBVIOUS
  <1>8. e \in Int /\ n \in Int /\ 1 <= e + 1 /\ e <= Len(s) /\ 1 <= n /\ << >> \in Seq(S)
    BY <1>7
  <1>9. Cut(s, 1, e) \in Seq(S)
    <2>1. Cut(s, 1, e) = SubSeq(s, 1, e)
      BY <1>1, <1>8, CutIs
    <2> QED BY <1>1, <1>8, <2>1, SubSeqIs
  <1>10. Behind(s, n) \in Seq(S)
    <2>1. CASE n <= Len(s)
      <3>1. Behind(s, n) = SubSeq(s, n, Len(s))
        BY <1>1, <1>8, CutIs
      <3>2. n <= Len(s) + 1 /\ Len(s) \in Int
        BY <1>1, <1>8, <2>1
      <3> QED BY <1>8, <3>1, <3>2, SubSeqIs
    <2>2. CASE Len(s) < n
      <3>1. Behind(s, n) = << >>
        BY <1>1, <1>8, <2>2, CutBehind
      <3> QED BY <1>8, <3>1
    <2> QED BY <1>1, <1>8, <2>1, <2>2
  <1> QED BY <1>3, <1>6, <1>7, <1>9, <1>10

\* The type of the text the scan begins with.
LEMMA DecommentedType ==
    ASSUME NEW s \in Seq(Char)
    PROVE  Decommented(s) \in Seq(Char)
  <1> DEFINE opened == {i \in DOMAIN s : Pair(s, i, Slash, Star) /\
                           \E j \in (i + 3)..Len(s) : Pair(s, j, Star, Slash)}
             closed == {j \in DOMAIN s : Pair(s, j, Star, Slash)}
             t == IF opened = {} THEN s
                  ELSE Cut(s, 1, Min(opened) - 1) \o Behind(s, Max(closed) + 2)
             commented == {i \in DOMAIN t : \E j \in 1..i : Pair(t, j, Slash, Slash) /\
                              \A k \in j..i : t[k] # Newline}
             kept == Selected([i \in DOMAIN t |-> i], DOMAIN t \ commented)
  <1>1. t \in Seq(Char)
    <2>1. CASE opened = {}
      BY <2>1
    <2>2. CASE opened # {}
      <3>1. opened \subseteq 1..Len(s) /\ closed \subseteq 1..Len(s)
        OBVIOUS
      <3>2. closed # {}
        <4>1. PICK i \in opened : TRUE
          BY <2>2
        <4>2. PICK j \in (i + 3)..Len(s) : Pair(s, j, Star, Slash)
          BY <4>1
        <4>3. j \in 1..Len(s)
          BY <4>1, <4>2
        <4> QED BY <4>2, <4>3
      <3>3. Cut(s, 1, Min(opened) - 1) \o Behind(s, Max(closed) + 2) \in Seq(Char)
        <4> HIDE DEF opened, closed
        <4> QED BY <2>2, <3>1, <3>2, AroundType
      <3> QED BY <2>2, <3>3
    <2> QED BY <2>1, <2>2
  <1>2. Decommented(s) = [n \in DOMAIN kept |-> t[kept[n]]]
    BY DEF Decommented
  <1>3. PICK T : T = DOMAIN t \ commented
    OBVIOUS
  <1>4. kept = Selected([i \in DOMAIN t |-> i], T)
    BY <1>3
  <1> HIDE DEF t, commented, opened, closed, kept
  <1>5. [n \in DOMAIN kept |-> t[kept[n]]] \in Seq(Char)
    BY <1>1, <1>4, IndicesType
  <1> QED BY <1>2, <1>5

LEMMA StartIs ==
    ASSUME mode \in {"learn", "macronize"}, source \in Sources
    PROVE  /\ Start \in Seq(Char)
           /\ mode = "macronize" => Start = RemFlags(source) /\ Start \in Seq(Flagless)
  <1>1. source \in Seq(Char)
    BY ScanAssumption
  <1>2. CASE mode = "learn"
    BY <1>1, <1>2, DecommentedType DEF Start
  <1>3. CASE mode = "macronize"
    <2>1. Start = RemFlags(source)
      BY <1>3 DEF Start, Prepared, overwrite
    <2>2. RemFlags(source) \in Seq(Flagless)
      BY <1>1, RemFlagsIs
    <2> QED BY <2>1, <2>2, RemFlagsIs
  <1> QED BY <1>2, <1>3

LEMMA StartStays ==
    ASSUME mode' = mode, source' = source
    PROVE  Start' = Start
  BY DEF Start
----------------------------------------------------------------------------
\* How the text is laid out when a match has been found.

Arranged(x, m, r, u, g, k, f, i, j, y) ==
    /\ x \in Seq(Char) /\ m \in Seq(Char) /\ r \in Seq(Char) /\ f \in Seq(Char)
    /\ u \in Seq(Char) /\ g \in Seq(Char) /\ k \in Seq(Char) /\ i \in Seq(Char)
    /\ j \in Seq(Char) /\ y \in Seq(Char)
    /\ f = x \o m /\ y = f \o r
    /\ i = u \o g /\ j = g \o k /\ y = i \o k /\ y = u \o j

LEMMA Rearranged ==
    ASSUME NEW x \in Seq(Char), NEW r \in Seq(Char), NEW l \in Seq(Char), NEW t \in Seq(Char),
           NEW g \in Seq(Char), NEW h \in Seq(Char), NEW v, v = g \o h,
           NEW n, n = l \o v, NEW m, m = n \o t, NEW e, e = m \o r, NEW y, y = x \o e,
           NEW u, u = x \o l, NEW b, b = t \o r, NEW k, k = h \o b
    PROVE  \E f, i, j : Arranged(x, m, r, u, g, k, f, i, j, y)
  <1>1. PICK a, j, f, i : a = v \o t /\ j = a \o r /\ f = x \o m /\ i = u \o g
    OBVIOUS
  <1>2. v \in Seq(Char)
    OBVIOUS
  <1>3. Grouped(l, v, t, n, a, m)
    BY <1>1, <1>2, Groups
  <1>4. m = l \o a /\ m \in Seq(Char) /\ a \in Seq(Char)
    BY <1>3 DEF Grouped
  <1>5. Grouped(l, a, r, m, j, e)
    BY <1>1, <1>4, Groups
  <1>6. Grouped(v, t, r, a, b, j)
    BY <1>1, <1>2, Groups
  <1>7. e = l \o j /\ j = v \o b /\ b \in Seq(Char) /\ j \in Seq(Char)
    BY <1>5, <1>6 DEF Grouped
  <1>8. Grouped(g, h, b, v, k, j)
    BY <1>7, Groups
  <1>9. j = g \o k /\ k \in Seq(Char)
    BY <1>8 DEF Grouped
  <1>10. Grouped(x, l, j, u, e, y)
    BY <1>7, Groups
  <1>11. y = u \o j /\ u \in Seq(Char) /\ y \in Seq(Char)
    BY <1>10 DEF Grouped
  <1>12. Grouped(u, g, k, i, j, y)
    BY <1>1, <1>9, <1>11, Groups
  <1>13. Grouped(x, m, r, f, e, y)
    BY <1>1, <1>4, Groups
  <1>14. f \in Seq(Char) /\ y = f \o r
    BY <1>13 DEF Grouped
  <1>15. i \in Seq(Char) /\ y = i \o k
    BY <1>12 DEF Grouped
  <1>16. Arranged(x, m, r, u, g, k, f, i, j, y)
    BY <1>1, <1>4, <1>7, <1>9, <1>11, <1>14, <1>15 DEF Arranged
  <1> QED BY <1>16

Laid(x, m, r, u, g, k) ==
    /\ x \in Seq(Char) /\ m \in Seq(Char) /\ r \in Seq(Char)
    /\ u \in Seq(Char) /\ g \in Seq(Char) /\ k \in Seq(Char)
    /\ Size(x) \in Nat /\ Size(m) \in Nat /\ Size(r) \in Nat
    /\ Size(u) \in Nat /\ Size(g) \in Nat /\ Size(k) \in Nat
    /\ Len(text) = Size(x) + Size(m) + Size(r) /\ Len(text) = Size(u) + Size(g) + Size(k)
    /\ Cut(text, 1, Size(x)) = Bytes(x)
    /\ Behind(text, Size(x) + Size(m) + 1) = Bytes(r)
    /\ Cut(text, 1, Size(u)) = Bytes(u)
    /\ Cut(text, Size(u) + 1, Size(u) + Size(g)) = Bytes(g)
    /\ Behind(text, Size(u) + Size(g) + 1) = Bytes(k)

LEMMA Layout ==
    ASSUME NEW x, NEW m, NEW r, NEW l, NEW v, NEW t, Found(x, m, r, l, v, t),
           NEW g \in Seq(Char), NEW h \in Seq(Char), v = g \o h, NEW u, u = x \o l,
           NEW b, b = t \o r, NEW k, k = h \o b
    PROVE  Laid(x, m, r, u, g, k)
  <1>1. PICK n, e, y : n = l \o v /\ e = m \o r /\ y = x \o e
    OBVIOUS
  <1>2. /\ x \in Seq(Char) /\ l \in Seq(Char) /\ t \in Seq(Char) /\ r \in Seq(Char)
        /\ m = n \o t /\ text = Bytes(y)
    BY <1>1 DEF Found, Remains
  <1>3. PICK a, i, j : Arranged(x, m, r, u, g, k, a, i, j, y)
    BY <1>1, <1>2, Rearranged
  <1>4. /\ m \in Seq(Char) /\ u \in Seq(Char) /\ k \in Seq(Char) /\ a \in Seq(Char)
        /\ i \in Seq(Char) /\ j \in Seq(Char)
        /\ a = x \o m /\ y = a \o r /\ i = u \o g /\ y = i \o k
    BY <1>3 DEF Arranged
  <1>5. y = u \o j /\ y = (u \o g) \o k
    BY <1>3 DEF Arranged
  <1>6. Size(a) = Size(x) + Size(m) /\ Size(i) = Size(u) + Size(g)
    BY <1>2, <1>4, BytesConcat DEF Size
  <1>7. InParts(a, r, y) /\ InParts(i, k, y)
    BY <1>2, <1>4, BytesParts
  <1>8. InParts(u, j, y) /\ InParts(x, m, a)
    BY <1>2, <1>4, <1>5, BytesParts
  <1>9. InMiddle(u, g, k, y)
    BY <1>4, <1>5, BytesMiddle
  <1>10. /\ Size(x) \in Nat /\ Size(m) \in Nat /\ Size(r) \in Nat
         /\ Size(u) \in Nat /\ Size(g) \in Nat /\ Size(k) \in Nat
    BY <1>2, <1>4, BytesType DEF Size
  <1>11. Len(text) = Size(a) + Size(r) /\ Behind(text, Size(a) + 1) = Bytes(r)
    BY <1>2, <1>7 DEF InParts, Size
  <1>12. Len(text) = Size(i) + Size(k) /\ Behind(text, Size(i) + 1) = Bytes(k)
    BY <1>2, <1>7 DEF InParts, Size
  <1>13. Cut(text, 1, Size(u)) = Bytes(u)
    BY <1>2, <1>8 DEF InParts, Size
  <1>14. Cut(text, 1, Size(x)) = Bytes(x)
    <2>1. PICK c : c = m \o r
      OBVIOUS
    <2>2. Grouped(x, m, r, a, c, y)
      BY <1>2, <1>4, <2>1, Groups
    <2>3. InParts(x, c, y)
      BY <2>2, <1>2, BytesParts DEF Grouped
    <2> QED BY <1>2, <2>3 DEF InParts, Size
  <1>15. Cut(text, Size(u) + 1, Size(u) + Size(g)) = Bytes(g)
    BY <1>2, <1>9 DEF InMiddle, Size
  <1> QED BY <1>2, <1>4, <1>6, <1>10, <1>11, <1>12, <1>13, <1>14, <1>15 DEF Laid
----------------------------------------------------------------------------
\* The actions of Exmacronize.

\* Found is about seven variables; its parts are made known one by one.
LEMMA FoundIs ==
    ASSUME NEW x, NEW m, NEW r, NEW l, NEW v, NEW t, Found(x, m, r, l, v, t)
    PROVE  /\ x \in Seq(Char) /\ l \in Seq(Char) /\ v \in Seq(Char) /\ t \in Seq(Char)
           /\ m \in Seq(Char) /\ r \in Seq(Char) /\ m = (l \o v) \o t
           /\ Remains(x, m \o r) /\ text = Bytes(x \o (m \o r))
           /\ wstart = Size(x) + 1 /\ wend = Size(x) + Size(m)
           /\ wstart - 1 = Size(x) /\ wend + 1 = Size(x) + Size(m) + 1
           /\ Size(x) \in Nat /\ Size(m) \in Nat /\ Size(l) \in Nat
  <1>1. x \in Seq(Char) /\ m \in Seq(Char) /\ l \in Seq(Char)
    BY DEF Found, Remains
  <1>2. Size(x) \in Nat /\ Size(m) \in Nat /\ Size(l) \in Nat
    BY <1>1, BytesType DEF Size
  <1> QED BY <1>2 DEF Found, Remains

\* The match falls in its parts.
LEMMA FoundLaid ==
    ASSUME NEW x, NEW m, NEW r, NEW l, NEW v, NEW t, Found(x, m, r, l, v, t)
    PROVE  \E u, b : u = x \o l /\ b = t \o r /\ Laid(x, m, r, u, v, b)
  <1>1. PICK u, b, h : u = x \o l /\ b = t \o r /\ h = << >>
    OBVIOUS
  <1>2. v \in Seq(Char) /\ t \in Seq(Char) /\ r \in Seq(Char)
    BY FoundIs
  <1>3. h \in Seq(Char) /\ v = v \o h /\ b = h \o b
    BY <1>1, <1>2
  <1>4. Laid(x, m, r, u, v, b)
    BY <1>1, <1>2, <1>3, Layout
  <1> QED BY <1>1, <1>4

LEMMA LearnRemains ==
    ASSUME mode = "learn", NEW x, NEW m, NEW r, NEW l, NEW v, NEW t, Found(x, m, r, l, v, t),
           NEW d \in Seq(Char)
    PROVE  /\ Remains(d, r) /\ Clean(d, r)
           /\ \A p, q \in Seq(Char) : r = p \o q => Remains(d, q) /\ Clean(d, q)
  <1>1. PICK e : e = m \o r
    OBVIOUS
  <1>2. m \in Seq(Char) /\ r \in Seq(Char) /\ Tidy(e)
    BY <1>1, FoundIs DEF Remains
  <1>3. Tidy(r)
    BY <1>1, <1>2, TidyRest
  <1>4. \A p, q \in Seq(Char) : r = p \o q => Tidy(q)
    BY <1>2, <1>3, TidyRest
  <1>5. mode # "macronize"
    OBVIOUS
  <1> QED BY <1>2, <1>3, <1>4, <1>5 DEF Remains, Clean

LEMMA SkipStep ==
    ASSUME mode = "learn", NEW x, NEW m, NEW r, NEW l, NEW v, NEW t, Found(x, m, r, l, v, t),
           SkipWord
    PROVE  AtFind(x, r)'
  <1>1. PICK u, b : Laid(x, m, r, u, v, b)
    BY FoundLaid
  <1>2. x \in Seq(Char) /\ r \in Seq(Char)
    BY FoundIs
  <1>3. text' = Cut(text, 1, wstart - 1) \o Behind(text, wend + 1)
        /\ from' = wstart /\ mode' = mode /\ source' = source
    BY DEF SkipWord
  <1>4. Cut(text, 1, wstart - 1) = Bytes(x) /\ Behind(text, wend + 1) = Bytes(r)
    BY <1>1, FoundIs DEF Laid
  <1>5. text' = Bytes(x \o r)
    BY <1>2, <1>3, <1>4, BytesConcat
  <1>6. from' = Size(x) + 1
    BY <1>3, FoundIs
  <1>7. Remains(x, r) /\ Clean(x, r)
    BY <1>2, LearnRemains
  <1> QED BY <1>3, <1>5, <1>6, <1>7, StartStays, FindNext

\* What is left of a match when all but g is cut from it.
Keeps(k, x, g, r) ==
    /\ Cut(k, 1, Size(x)) = Bytes(x)
    /\ Behind(k, Size(x) + Size(g) + 1) = Bytes(r)

LEMMA KeptIs ==
    ASSUME NEW x \in Seq(Char), NEW g \in Seq(Char), NEW r \in Seq(Char),
           NEW k, k = (Bytes(x) \o Bytes(g)) \o Bytes(r)
    PROVE  Keeps(k, x, g, r)
  <1>1. PICK a, c, y : a = x \o g /\ c = g \o r /\ y = a \o r
    OBVIOUS
  <1>2. Grouped(x, g, r, a, c, y)
    BY <1>1, Groups
  <1>3. a \in Seq(Char) /\ c \in Seq(Char) /\ y = x \o c
    BY <1>2 DEF Grouped
  <1>4. Bytes(a) = Bytes(x) \o Bytes(g) /\ Size(a) = Size(x) + Size(g)
    BY <1>1, BytesConcat DEF Size
  <1>5. Bytes(y) = Bytes(a) \o Bytes(r)
    <2>1. InParts(a, r, y)
      BY <1>1, <1>3, BytesParts
    <2> QED BY <2>1 DEF InParts
  <1>6. k = Bytes(y)
    BY <1>4, <1>5
  <1>7. InParts(x, c, y) /\ InParts(a, r, y)
    BY <1>1, <1>3, BytesParts
  <1> QED BY <1>4, <1>6, <1>7 DEF InParts, Size, Keeps

\* A word in lower case takes as many bytes as before.
LEMMA LowerKeepsSize ==
    ASSUME NEW g \in Seq(Char), NEW s, s = Each(Lower, g)
    PROVE  s \in Seq(Char) /\ Size(s) = Size(g) /\ Mapped(Sure, s) \in Seq(Char)
  <1>1. s \in Seq(Char) /\ Len(s) = Len(g) /\ \A i \in 1..Len(g) : s[i] = Mapped(Lower, g[i])
    BY EachIs DEF Fun
  <1>2. \A c : Width[Mapped(Lower, c)] = Width[c]
    BY ScanAssumption DEF Mapped
  <1>3. \A i \in 1..Len(s) : Width[s[i]] = Width[g[i]]
    BY <1>1, <1>2
  <1>4. Len(Bytes(s)) = Len(Bytes(g))
    BY <1>1, <1>3, BytesEqual
  <1>5. Mapped(Sure, s) \in Seq(Char)
    BY <1>1, ScanAssumption DEF Mapped
  <1> QED BY <1>1, <1>4, <1>5 DEF Size

LEMMA LearnStep ==
    ASSUME mode = "learn", NEW x, NEW m, NEW r, NEW l, NEW v, NEW t, AtWord(x, m, r, l, v, t),
           v # << >>, LearnWord
    PROVE  \E d : AtFind(d, r)'
  <1>1. Found(x, m, r, l, v, t) /\ w = v /\ newstart = Size(x) + Size(l) + 1
        /\ newend = Size(x) + Size(l) + Size(v)
    BY DEF AtWord
  <1>2. /\ x \in Seq(Char) /\ r \in Seq(Char) /\ v \in Seq(Char) /\ l \in Seq(Char)
        /\ t \in Seq(Char)
    BY <1>1, FoundIs
  <1>3. PICK word, end : /\ word = (IF EndsAbbreviated /\ ~IsAbbrev THEN Front(w) ELSE w)
                         /\ end = (IF word = w THEN newend ELSE newend - 1)
    OBVIOUS
  <1>4. PICK u, b : u = x \o l /\ b = t \o r
    OBVIOUS
  <1>5. Size(u) = Size(x) + Size(l) /\ Size(x) \in Nat /\ Size(l) \in Nat /\ Size(v) \in Nat
    BY <1>2, <1>4, BytesConcat, BytesType DEF Size
  <1>6. \E h : /\ word \in Seq(Char) /\ h \in Seq(Char) /\ v = word \o h
               /\ Size(word) \in Nat /\ end = Size(u) + Size(word)
    <2>1. CASE EndsAbbreviated /\ ~IsAbbrev
      <3>1. word = Front(v) /\ v[Len(v)] = Period
        BY <1>1, <1>2, <1>3, <2>1, FrontAndLast DEF EndsAbbreviated
      <3>2. PICK h : h = <<Period>>
        OBVIOUS
      <3>3. /\ word \in Seq(Char) /\ h \in Seq(Char) /\ v = word \o h
            /\ Len(word) = Len(v) - 1 /\ Len(v) \in Nat
        BY <1>2, <3>1, <3>2, FrontAndLast
      <3>4. word # w
        BY <1>1, <3>3
      <3>5. Size(h) = 1 /\ Size(word) \in Nat
        <4>1. Bytes(h) = Wide(Period) /\ Len(Wide(Period)) = Width[Period] /\ Width[Period] = 1
          BY <3>2, BytesSmall, WideIs, SpecialIs
        <4> QED BY <3>3, <4>1, BytesType DEF Size
      <3>6. Size(v) = Size(word) + Size(h)
        BY <3>3, BytesConcat DEF Size
      <3>7. end = Size(u) + Size(word)
        BY <1>1, <1>3, <1>5, <3>4, <3>5, <3>6
      <3> QED BY <3>3, <3>5, <3>7
    <2>2. CASE ~(EndsAbbreviated /\ ~IsAbbrev)
      <3>1. word = v /\ end = newend
        BY <1>1, <1>3, <2>2
      <3>2. << >> \in Seq(Char) /\ v = v \o << >>
        BY <1>2
      <3>3. end = Size(u) + Size(v)
        BY <1>1, <1>5, <3>1
      <3> QED BY <1>2, <1>5, <3>1, <3>2, <3>3
    <2> QED BY <2>1, <2>2
  <1>7. PICK h : /\ word \in Seq(Char) /\ h \in Seq(Char) /\ v = word \o h
                 /\ Size(word) \in Nat /\ end = Size(u) + Size(word)
    BY <1>6
  <1>8. Laid(x, m, r, u, word, h \o b)
    BY <1>1, <1>4, <1>7, Layout
  <1>9. PICK small, s, kept, shorter :
            /\ small = Each(Lower, word) /\ s = Mapped(Sure, small)
            /\ kept = Cut(text, 1, wstart - 1) \o Cut(text, newstart, end) \o Behind(text, wend + 1)
            /\ shorter = wstart + end - newstart
    OBVIOUS
  <1>10. small \in Seq(Char) /\ Size(small) = Size(word) /\ s \in Seq(Char) /\ Size(s) \in Nat
    <2>1. small \in Seq(Char) /\ Size(small) = Size(word) /\ s \in Seq(Char)
      BY <1>7, <1>9, LowerKeepsSize
    <2> QED BY <2>1, BytesType DEF Size
  <1>11. /\ text' = Cut(kept, 1, wstart - 1) \o Bytes(s) \o Behind(kept, shorter + 1)
         /\ from' = wstart + (shorter - wstart + 1 + (Len(Bytes(s)) - Len(Bytes(small))))
         /\ mode' = mode /\ source' = source
    BY <1>3, <1>9 DEF LearnWord, ResumeLearned
  <1>12. wstart = Size(x) + 1 /\ wstart - 1 = Size(x) /\ wend + 1 = Size(x) + Size(m) + 1
    BY <1>1, FoundIs
  <1>13. newstart = Size(u) + 1 /\ shorter = Size(x) + Size(word)
    <2>1. newstart = Size(x) + Size(l) + 1 /\ end = Size(u) + Size(word)
      BY <1>1, <1>7
    <2>2. shorter = wstart + end - newstart /\ wstart = Size(x) + 1
      BY <1>9, <1>12
    <2>3. Size(word) \in Nat
      BY <1>7
    <2>4. newstart = Size(u) + 1
      BY <1>5, <2>1
    <2>5. PICK i, j, o : i = Size(x) /\ j = Size(u) /\ o = Size(word)
      OBVIOUS
    <2>6. i \in Nat /\ j \in Nat /\ o \in Nat
      BY <1>5, <2>3, <2>5
    <2>7. (i + 1) + (j + o) - (j + 1) = i + o
      BY <2>6
    <2> QED BY <2>1, <2>2, <2>4, <2>5, <2>7
  <1>14. kept = (Bytes(x) \o Bytes(word)) \o Bytes(r)
    BY <1>7, <1>8, <1>9, <1>12, <1>13 DEF Laid
  <1>15. Cut(kept, 1, wstart - 1) = Bytes(x) /\ Behind(kept, shorter + 1) = Bytes(r)
    <2>1. word \in Seq(Char)
      BY <1>7
    <2>2. x \in Seq(Char) /\ r \in Seq(Char)
      BY <1>2
    <2>3. Keeps(kept, x, word, r)
      BY <1>14, <2>1, <2>2, KeptIs
    <2> QED BY <1>12, <1>13, <2>3 DEF Keeps
  <1>16. PICK d : d = x \o s
    OBVIOUS
  <1>17. d \in Seq(Char) /\ Bytes(d) = Bytes(x) \o Bytes(s) /\ Size(d) = Size(x) + Size(s)
    BY <1>2, <1>10, <1>16, BytesConcat DEF Size
  <1>18. text' = Bytes(d \o r)
    <2>1. text' = Bytes(x) \o Bytes(s) \o Bytes(r)
      BY <1>11, <1>15
    <2>2. text' = Bytes(d) \o Bytes(r)
      BY <1>17, <2>1
    <2> QED BY <1>2, <1>17, <2>2, BytesConcat
  <1>19. from' = Size(d) + 1
    <2>1. from' = wstart + (shorter - wstart + 1 + (Size(s) - Size(small)))
      BY <1>11 DEF Size
    <2>2. wstart = Size(x) + 1 /\ shorter = Size(x) + Size(word) /\ Size(small) = Size(word)
      BY <1>10, <1>12, <1>13
    <2>3. Size(word) \in Nat /\ Size(s) \in Nat /\ Size(x) \in Nat /\ Size(d) = Size(x) + Size(s)
      BY <1>5, <1>7, <1>10, <1>17
    <2>4. from' = (Size(x) + 1) + ((Size(x) + Size(word)) - (Size(x) + 1) + 1
                                      + (Size(s) - Size(word)))
      BY <2>1, <2>2
    <2> QED BY <2>3, <2>4
  <1>20. Remains(d, r) /\ Clean(d, r)
    BY <1>1, <1>17, LearnRemains
  <1>21. AtFind(d, r)'
    BY <1>11, <1>18, <1>19, <1>20, StartStays, FindNext
  <1> QED BY <1>21

\* What follows a match begins with a separator, which takes one byte.
Opened(r, c, q) ==
    /\ c \in Seq(Char) /\ q \in Seq(Char) /\ r = c \o q
    /\ Len(c) = 1 /\ c[1] \in Separators /\ c[1] \in Bounds /\ Size(c) = 1
    /\ Size(q) \in Nat /\ Size(r) \in Nat /\ Size(q) < Size(r)

LEMMA RestOpens ==
    ASSUME NEW r \in Seq(Char), Len(r) >= 1, r[1] \in Separators
    PROVE  \E c, q : Opened(r, c, q)
  <1>1. r # << >>
    OBVIOUS
  <1>2. PICK c, q, b : c = <<b>> /\ q = Tail(r) /\ b = r[1]
    OBVIOUS
  <1>3. c \in Seq(Char) /\ q \in Seq(Char) /\ r = c \o q
    BY <1>1, <1>2, FirstAndRest
  <1>4. Len(c) = 1 /\ c[1] = b
    BY <1>2
  <1>5. b \in Separators /\ b \in Bounds /\ b \in Char /\ Width[b] = 1
    BY <1>2, SpecialIs
  <1>6. Size(c) = 1
    <2>1. Bytes(c) = Wide(b) /\ Len(Wide(b)) = Width[b]
      BY <1>2, <1>5, BytesSmall, WideIs
    <2> QED BY <1>5, <2>1 DEF Size
  <1>7. Size(r) = Size(c) + Size(q) /\ Size(q) \in Nat
    BY <1>3, BytesConcat, BytesType DEF Size
  <1>8. Size(q) < Size(r)
    BY <1>6, <1>7
  <1>9. c[1] \in Separators /\ c[1] \in Bounds /\ Len(c) = 1
    BY <1>4, <1>5
  <1>10. Size(r) \in Nat
    BY <1>6, <1>7
  <1> QED BY <1>3, <1>6, <1>7, <1>8, <1>9, <1>10 DEF Opened

\* A word of which nothing was left, or nothing was there.
Empty(v) == v = << >>

LEMMA LearnEmpty ==
    ASSUME mode = "learn", NEW x, NEW m, NEW r, NEW l, NEW v, NEW t, AtWord(x, m, r, l, v, t),
           Empty(v), LearnWord
    PROVE  \E d, q : AtFind(d, q)' /\ (q = r \/ \E c : Opened(r, c, q))
  <1>0. Found(x, m, r, l, v, t)
    BY DEF AtWord
  <1>1. w = << >> /\ newstart = Size(x) + Size(l) + 1 /\ newend = wend + 1 /\ t = << >>
    BY DEF AtWord, Empty
  <1>2. /\ x \in Seq(Char) /\ r \in Seq(Char) /\ l \in Seq(Char) /\ m = (l \o v) \o t
        /\ wstart = Size(x) + 1 /\ wstart - 1 = Size(x) /\ wend + 1 = Size(x) + Size(m) + 1
        /\ Size(x) \in Nat /\ Size(m) \in Nat
    <2>1. r \in Seq(Char) /\ l \in Seq(Char) /\ m = (l \o v) \o t
      BY <1>0 DEF Found
    <2>2. /\ wstart = Size(x) + 1 /\ wstart - 1 = Size(x) /\ wend + 1 = Size(x) + Size(m) + 1
          /\ x \in Seq(Char) /\ Size(x) \in Nat /\ Size(m) \in Nat
      BY <1>0, FoundIs, Zenon
    <2> QED BY <2>1, <2>2
  <1>3. m = l
    BY <1>1, <1>2 DEF Empty
  <1>4. newstart = wend + 1 /\ newend = newstart
    BY <1>1, <1>2, <1>3
  <1>5. ~EndsAbbreviated
    BY <1>1 DEF EndsAbbreviated
  <1>6. Each(Lower, w) = << >> /\ Mapped(Sure, << >>) = << >>
    <2>1. << >> \in Seq(Char)
      OBVIOUS
    <2>2. PICK s : s = Each(Lower, w)
      OBVIOUS
    <2>3. s \in Seq(Char) /\ Len(s) = 0
      BY <1>1, <2>1, <2>2, EachIs DEF Fun
    <2>4. s = << >>
      BY <2>3
    <2> QED BY <2>2, <2>4, ScanAssumption DEF Mapped
  <1>7. PICK kept, shorter :
            /\ kept = Cut(text, 1, wstart - 1) \o Cut(text, newstart, newend)
                         \o Behind(text, wend + 1)
            /\ shorter = wstart + newend - newstart
    OBVIOUS
  <1>8. /\ text' = Cut(kept, 1, wstart - 1) \o << >> \o Behind(kept, shorter + 1)
        /\ from' = wstart + (shorter - wstart + 1 + (0 - 0))
        /\ mode' = mode /\ source' = source
    <2>1. Bytes(<< >>) = << >> /\ Len(Bytes(<< >>)) = 0
      BY BytesSmall
    <2> QED BY <1>5, <1>6, <1>7, <2>1 DEF LearnWord, ResumeLearned
  <1>9. shorter = Size(x) + 1 /\ from' = Size(x) + 2
    <2>1. newstart = Size(x) + Size(m) + 1 /\ newend = newstart
      BY <1>2, <1>4
    <2>2. shorter = (Size(x) + 1) + newstart - newstart
      BY <1>2, <1>7, <2>1
    <2>3. shorter = Size(x) + 1
      BY <1>2, <2>1, <2>2
    <2>4. from' = (Size(x) + 1) + ((Size(x) + 1) - (Size(x) + 1) + 1 + (0 - 0))
      BY <1>2, <1>8, <2>3
    <2>5. Size(x) \in Nat
      BY <1>2
    <2> QED BY <2>3, <2>4, <2>5
  <1>10. PICK u, b : u = x \o l /\ b = t \o r /\ Laid(x, m, r, u, v, b)
    BY <1>0, FoundLaid
  <1>11. /\ Cut(text, 1, wstart - 1) = Bytes(x) /\ Behind(text, wend + 1) = Bytes(r)
         /\ Len(text) = Size(x) + Size(m) + Size(r) /\ Size(r) \in Nat
    BY <1>2, <1>10 DEF Laid
  <1>12. Start' = Start
    BY <1>8, StartStays
  <1>13. CASE r = << >>
    <2>1. Bytes(r) = << >> /\ Size(r) = 0
      BY <1>13, BytesSmall DEF Size
    <2>2. PICK y : y = x \o (m \o r)
      OBVIOUS
    <2>3. Cut(text, newstart, newend) = << >>
      <3>1. y \in Seq(Char) /\ text = Bytes(y)
        BY <1>0, <2>2, FoundIs
      <3>2. text \in Seq(ByteSet(Char))
        BY <3>1, BytesType
      <3>3. Len(text) < newstart /\ newstart \in Int /\ newend \in Int
        BY <1>2, <1>4, <1>11, <2>1
      <3> QED BY <3>2, <3>3, CutBehind
    <2>4. Bytes(x) \in Seq(ByteSet(Char))
      BY <1>2, BytesType
    <2>5. kept = Bytes(x)
      BY <1>7, <1>11, <2>1, <2>3, <2>4
    <2>6. Cut(kept, 1, wstart - 1) = Bytes(x)
      <3>1. InParts(x, r, x)
        <4>1. x = x \o r
          BY <1>2, <1>13
        <4> QED BY <1>2, <4>1, BytesParts
      <3> QED BY <1>2, <2>5, <3>1 DEF InParts, Size
    <2>7. Behind(kept, shorter + 1) = << >>
      <3>1. shorter + 1 \in Int /\ Len(kept) < shorter + 1
        BY <1>2, <1>9, <2>5 DEF Size
      <3> QED BY <2>4, <2>5, <3>1, CutBehind
    <2>8. text' = Bytes(x) /\ x = x \o r
      BY <1>2, <1>8, <1>13, <2>4, <2>6, <2>7
    <2>9. Remains(x, r) /\ Clean(x, r)
      BY <1>0, <1>2, LearnRemains
    <2>10. AtFind(x, r)'
      BY <1>8, <1>9, <1>12, <1>13, <2>8, <2>9, FindNext
    <2> QED BY <2>10
  <1>14. CASE r # << >>
    <2>1. Len(r) >= 1 /\ r[1] \in Separators
      BY <1>0, <1>14 DEF Found
    <2>2. PICK c, q : Opened(r, c, q)
      BY <1>2, <2>1, RestOpens
    <2>3. c \in Seq(Char) /\ q \in Seq(Char) /\ r = c \o q /\ Size(c) = 1
      BY <2>2 DEF Opened
    <2>4. PICK a, y, e : a = x \o m /\ e = m \o r /\ y = x \o e
      OBVIOUS
    <2>5. m \in Seq(Char) /\ text = Bytes(y)
      BY <1>0, <2>4, FoundIs
    <2>6. Grouped(x, m, r, a, e, y)
      BY <1>2, <2>4, <2>5, Groups
    <2>7. a \in Seq(Char) /\ y = a \o r
      BY <2>6 DEF Grouped
    <2>8. PICK f : f = a \o c
      OBVIOUS
    <2>9. Grouped(a, c, q, f, r, y)
      BY <2>3, <2>7, <2>8, Groups
    <2>10. y = (a \o c) \o q
      BY <2>8, <2>9 DEF Grouped
    <2>11. InMiddle(a, c, q, y)
      BY <2>3, <2>7, <2>10, BytesMiddle
    <2>12. Size(a) = Size(x) + Size(m)
      BY <1>2, <2>4, <2>5, BytesConcat DEF Size
    <2>13. Cut(text, newstart, newend) = Bytes(c)
      <3>1. Cut(text, Size(a) + 1, Size(a) + Size(c)) = Bytes(c)
        BY <2>5, <2>11 DEF InMiddle, Size
      <3> QED BY <1>2, <1>4, <2>3, <2>12, <3>1
    <2>14. kept = (Bytes(x) \o Bytes(c)) \o Bytes(r)
      BY <1>7, <1>11, <2>13
    <2>15. Keeps(kept, x, c, r)
      BY <1>2, <2>3, <2>14, KeptIs
    <2>16. Cut(kept, 1, wstart - 1) = Bytes(x) /\ Behind(kept, shorter + 1) = Bytes(r)
      <3>1. shorter + 1 = Size(x) + Size(c) + 1
        BY <1>2, <1>9, <2>3
      <3> QED BY <1>2, <2>15, <3>1 DEF Keeps
    <2>17. PICK d, h : d = x \o c /\ h = x \o r
      OBVIOUS
    <2>18. Bytes(x) \in Seq(ByteSet(Char)) /\ Bytes(r) \in Seq(ByteSet(Char))
      BY <1>2, BytesType
    <2>19. text' = Bytes(x) \o Bytes(r)
      BY <1>8, <2>16, <2>18
    <2>20. Grouped(x, c, q, d, r, h)
      BY <1>2, <2>3, <2>17, Groups
    <2>21. h = d \o q /\ d \in Seq(Char)
      BY <2>20 DEF Grouped
    <2>22. InParts(x, r, h)
      BY <1>2, <2>17, BytesParts
    <2>23. text' = Bytes(h)
      BY <2>19, <2>22 DEF InParts
    <2>24. Size(d) = Size(x) + Size(c)
      BY <1>2, <2>3, <2>17, BytesConcat DEF Size
    <2>25. from' = Size(d) + 1
      BY <1>2, <1>9, <2>3, <2>24
    <2>26. Remains(d, q) /\ Clean(d, q)
      BY <1>0, <2>3, <2>21, LearnRemains
    <2>27. AtFind(d, q)'
      BY <1>8, <1>12, <2>21, <2>23, <2>25, <2>26, FindNext
    <2> QED BY <2>2, <2>27
  <1> QED BY <1>13, <1>14
----------------------------------------------------------------------------
\* The actions of Macronize.

\* The scan has been through the word v, which follows u; n ends with it, and b remains.
Passed(x, l, v, b, u, n) ==
    /\ u \in Seq(Char) /\ n \in Seq(Char) /\ b \in Seq(Char) /\ u = x \o l /\ n = u \o v
    /\ Remains(n, b) /\ text = Bytes(n \o b)
    /\ Size(n) = Size(x) + Size(l) + Size(v)
    /\ mode = "macronize" => /\ v \in Seq(Flagless)
                             /\ RemFlags(u) = RemFlags(x) \o l
                             /\ RemFlags(n) = RemFlags(u) \o v

LEMMA MatchPassed ==
    ASSUME NEW x, NEW m, NEW r, NEW l, NEW v, NEW t, Found(x, m, r, l, v, t),
           NEW b, b = t \o r, NEW u, u = x \o l, NEW n, n = u \o v
    PROVE  Passed(x, l, v, b, u, n)
  <1>1. /\ x \in Seq(Char) /\ l \in Seq(Char) /\ v \in Seq(Char) /\ t \in Seq(Char)
        /\ m \in Seq(Char) /\ r \in Seq(Char) /\ m = (l \o v) \o t
        /\ Remains(x, m \o r) /\ text = Bytes(x \o (m \o r))
    <2>1. /\ l \in Seq(Char) /\ v \in Seq(Char) /\ t \in Seq(Char) /\ m \in Seq(Char)
          /\ r \in Seq(Char) /\ m = (l \o v) \o t
      BY DEF Found
    <2>2. Remains(x, m \o r) /\ text = Bytes(x \o (m \o r))
      BY DEF Found
    <2>3. x \in Seq(Char)
      BY <2>2 DEF Remains
    <2> QED BY <2>1, <2>2, <2>3
  <1>2. PICK a, c, e, f, h : a = l \o v /\ c = v \o t /\ e = m \o r /\ f = c \o r /\ h = v \o b
    OBVIOUS
  <1>3. Grouped(l, v, t, a, c, m)
    BY <1>1, <1>2, Groups
  <1>4. m = l \o c /\ c \in Seq(Char)
    BY <1>3 DEF Grouped
  <1>5. Grouped(l, c, r, m, f, e)
    BY <1>1, <1>2, <1>4, Groups
  <1>6. Grouped(v, t, r, c, b, f)
    BY <1>1, <1>2, Groups
  <1>7. e = l \o f /\ f = v \o b /\ b \in Seq(Char) /\ f \in Seq(Char)
    BY <1>5, <1>6 DEF Grouped
  <1>8. Remains(x, e) /\ text = Bytes(x \o e)
    BY <1>1, <1>2
  <1>9. /\ Remains(u, f) /\ u \o f = x \o e /\ Size(u) = Size(x) + Size(l)
        /\ mode = "macronize" => RemFlags(u) = RemFlags(x) \o l
    <2>1. f \in Seq(Char) /\ l \in Seq(Char) /\ e = l \o f
      BY <1>1, <1>7
    <2>2. Remains(x, e)
      BY <1>8
    <2>3. Took(x, l, f, u, e)
      BY <2>1, <2>2, Taken
    <2> QED BY <2>3 DEF Took
  <1>10. /\ Remains(n, b) /\ n \o b = u \o f /\ Size(n) = Size(u) + Size(v)
         /\ mode = "macronize" => v \in Seq(Flagless) /\ RemFlags(n) = RemFlags(u) \o v
    <2>1. b \in Seq(Char) /\ v \in Seq(Char) /\ f = v \o b
      BY <1>1, <1>7
    <2>2. Remains(u, f)
      BY <1>9
    <2>3. Took(u, v, b, n, f)
      BY <2>1, <2>2, Taken
    <2> QED BY <2>3 DEF Took
  <1>11. u \in Seq(Char) /\ n \in Seq(Char)
    BY <1>1
  <1>12. text = Bytes(n \o b)
    BY <1>8, <1>9, <1>10
  <1>13. Size(n) = Size(x) + Size(l) + Size(v)
    BY <1>9, <1>10
  <1> QED BY <1>7, <1>9, <1>10, <1>11, <1>12, <1>13 DEF Passed

\* What the word becomes keeps the marks it must keep.
LEMMA Remarked ==
    ASSUME mode = "macronize", NEW x, NEW m, NEW r, NEW l, NEW v, NEW t,
           AtWord(x, m, r, l, v, t), v # << >>,
           NEW b, b = t \o r, NEW u, u = x \o l, NEW n, Passed(x, l, v, b, u, n),
           NEW s, NEW p, NEW z, Becomes(s, p, z),
           NEW g \in Seq(Char), RemFlags(g) = << >>, NEW d, d = (u \o g) \o z
    PROVE  d \in Seq(Char) /\ Remains(d, b) /\ Clean(d, b)
  <1>1. PICK c : c = RemFlags(u)
    OBVIOUS
  <1>2. /\ u \in Seq(Char) /\ b \in Seq(Char) /\ n = u \o v /\ v \in Seq(Flagless)
        /\ RemFlags(u) = RemFlags(x) \o l /\ RemFlags(n) = c \o v /\ Remains(n, b)
    BY <1>1 DEF Passed
  <1>3. /\ w = v
        /\ LeftClean(c) \/ (\A i \in 1..Len(v) : v[i] \in Ignored)
        /\ RightClean(b) \/ v[Len(v)] = Period
    BY <1>1, <1>2 DEF AtWord
  <1>4. /\ s \in Seq(Char) /\ z \in Seq(Char) /\ Len(z) = Len(v)
        /\ \A i \in 1..Len(v) : Mapped(Plain, z[i]) = Mapped(Plain, v[i])
        /\ z = v \/ (\A i \in 1..Len(v) : v[i] \notin Ignored \cup Long)
    BY <1>3 DEF Becomes
  <1>5. c \in Seq(Char) /\ v \in Seq(Char) /\ Len(v) \in Nat /\ Len(v) >= 1
    <2>1. c \in Seq(Flagless)
      BY <1>1, <1>2, RemFlagsIs
    <2>2. v \in Seq(Flagless)
      BY <1>2
    <2>3. c \in Seq(Char) /\ v \in Seq(Char)
      BY <2>1, <2>2, RemFlagsIs
    <2> QED BY <2>3
  <1>6. z \in Seq(Flagless)
    <2>1. \A i \in 1..Len(v) : v[i] \in Flagless
      BY <1>2
    <2>2. \A i \in 1..Len(z) : z[i] \in Char /\ z[i] \notin Flags
      <3>1. \A i \in 1..Len(v) : v[i] \notin Flags
        BY <2>1 DEF Flagless
      <3> QED BY <1>4, <3>1, SameKind
    <2>3. \A i \in 1..Len(z) : z[i] \in Flagless
      BY <2>2 DEF Flagless
    <2>4. z \in Seq(Char)
      BY <1>4
    <2> QED BY <2>3, <2>4
  <1>7. d \in Seq(Char) /\ RemFlags(d) = c \o z
    <2>1. PICK e : e = u \o g
      OBVIOUS
    <2>2. e \in Seq(Char) /\ d \in Seq(Char) /\ d = e \o z
      BY <1>2, <1>4, <2>1
    <2>3. RemFlags(e) = RemFlags(u) \o RemFlags(g)
      BY <1>2, <2>1, RemFlagsIs
    <2>4. RemFlags(e) = c
      <3>1. c \o << >> = c
        BY <1>5
      <3> QED BY <1>1, <2>3, <3>1
    <2>5. RemFlags(d) = RemFlags(e) \o RemFlags(z)
      BY <1>4, <2>2, RemFlagsIs
    <2>6. RemFlags(z) = z
      BY <1>6, RemFlagsIs
    <2> QED BY <2>2, <2>4, <2>5, <2>6
  <1>8. PICK y, h : y = (c \o v) \o b /\ h = (c \o z) \o b
    OBVIOUS
  <1>9. Tidy(b) /\ b \in Seq(Flagless) /\ MarkedFrom(y, Start)
    BY <1>2, <1>8 DEF Remains
  <1>10. MarkedFrom(h, Start)
    <2>1. CASE z = v
      BY <1>8, <1>9, <2>1
    <2>2. CASE z # v
      <3>1. \A i \in 1..Len(v) : v[i] \notin Ignored \cup Long
        BY <1>4, <2>2
      <3>2. LeftClean(c)
        <4>1. 1 \in 1..Len(v)
          BY <1>5
        <4> QED BY <1>3, <3>1, <4>1
      <3>3. \A i \in 1..Len(v) : /\ Mapped(Plain, z[i]) = Mapped(Plain, v[i])
                                 /\ v[i] \notin Long
        BY <1>4, <3>1
      <3> QED BY <1>2, <1>3, <1>4, <1>5, <1>8, <1>9, <3>2, <3>3, MarkedMore
    <2> QED BY <2>1, <2>2
  <1>11. Remains(d, b)
    BY <1>2, <1>7, <1>8, <1>9, <1>10 DEF Remains
  <1>12. LeftClean(RemFlags(d)) \/ RightClean(b)
    <2>1. CASE RightClean(b)
      BY <2>1
    <2>2. CASE v[Len(v)] = Period
      <3>1. z[Len(v)] = Period
        <4>1. Len(v) \in 1..Len(v) /\ Period \in Special
          BY <1>5, SpecialIs DEF Special
        <4>2. Mapped(Plain, z[Len(v)]) = Mapped(Plain, v[Len(v)])
          BY <1>4, <4>1
        <4>3. v[Len(v)] \in Special
          BY <2>2, <4>1
        <4> QED BY <2>2, <4>2, <4>3, SameKind
      <3>2. PICK f : f = c \o z
        OBVIOUS
      <3>3. InTwo(c, z, f)
        BY <1>4, <1>5, <3>2, TwoParts
      <3>4. Len(z) \in 1..Len(z)
        BY <1>4, <1>5
      <3>5. f \in Seq(Char) /\ Len(f) >= 1 /\ f[Len(f)] = Period
        BY <1>4, <3>1, <3>3, <3>4 DEF InTwo
      <3>6. LeftClean(f)
        BY <3>5, LeftBound, SpecialIs
      <3> QED BY <1>7, <3>2, <3>6
    <2> QED BY <1>3, <2>1, <2>2
  <1> QED BY <1>7, <1>11, <1>12 DEF Clean

Joins(o, y, d, u, g, s, h) ==
    o = Bytes(y) /\ Size(d) = Size(u) + Size(g) + Size(s) + Size(h)

\* Four parts make the text that Macronize leaves: d ends with what the word has become.
LEMMA Rejoined ==
    ASSUME NEW u \in Seq(Char), NEW g \in Seq(Char), NEW s \in Seq(Char), NEW h \in Seq(Char),
           NEW b \in Seq(Char), NEW z, z = s \o h, NEW k, k = h \o b,
           NEW e, e = u \o g, NEW d, d = e \o z, NEW y, y = d \o b,
           NEW o, o = Bytes(u) \o Bytes(g) \o Bytes(s) \o Bytes(k)
    PROVE  Joins(o, y, d, u, g, s, h)
  <1>1. PICK c, f : c = e \o s /\ f = z \o b
    OBVIOUS
  <1>2. Grouped(e, s, h, c, z, d)
    <2>1. e \in Seq(Char)
      OBVIOUS
    <2> QED BY <1>1, <2>1, Groups
  <1>3. c \in Seq(Char) /\ d \in Seq(Char) /\ z \in Seq(Char) /\ d = c \o h
    BY <1>2 DEF Grouped
  <1>4. Grouped(c, h, b, d, k, y)
    BY <1>3, Groups
  <1>5. y = c \o k /\ k \in Seq(Char) /\ y \in Seq(Char)
    BY <1>4 DEF Grouped
  <1>6. InParts(c, k, y) /\ InParts(e, s, c) /\ InParts(u, g, e) /\ InParts(c, h, d)
    <2>1. e \in Seq(Char)
      OBVIOUS
    <2>2. InParts(c, k, y)
      BY <1>3, <1>5, BytesParts
    <2>3. InParts(e, s, c)
      BY <1>1, <2>1, BytesParts
    <2>4. InParts(u, g, e)
      BY BytesParts
    <2>5. InParts(c, h, d)
      BY <1>3, BytesParts
    <2> QED BY <2>2, <2>3, <2>4, <2>5
  <1>7. /\ Bytes(y) = Bytes(c) \o Bytes(k)
        /\ Bytes(c) = Bytes(e) \o Bytes(s)
        /\ Bytes(e) = Bytes(u) \o Bytes(g)
    BY <1>6 DEF InParts
  <1>8. o = Bytes(y)
    BY <1>7
  <1>9. /\ Size(d) = Size(c) + Size(h) /\ Size(c) = Size(e) + Size(s)
        /\ Size(e) = Size(u) + Size(g)
    BY <1>6 DEF InParts, Size
  <1> QED BY <1>8, <1>9 DEF Joins

Apart(a, h, s, p, z) ==
    /\ a \in Seq(Char) /\ h \in Seq(Char) /\ w = a \o h /\ z = s \o h
    /\ Size(h) = p /\ p \in Nat /\ s \in Seq(Char)
    /\ Size(s) \in Nat /\ Size(a) \in Nat /\ Size(w) = Size(a) + p
    /\ Size(w) <= Size(s) + p

\* The word is taken apart as what it becomes is put together.
LEMMA WordApart ==
    ASSUME w \in Seq(Char), w # << >>, NEW s, NEW p, NEW z, Becomes(s, p, z)
    PROVE  \E a, h : Apart(a, h, s, p, z)
  <1>1. s \in Seq(Char) /\ z \in Seq(Char) /\ p \in {0, 1} /\ Size(w) <= Size(z)
    BY DEF Becomes, Size
  <1>2. Size(s) \in Nat /\ Size(z) \in Nat
    BY <1>1, BytesType DEF Size
  <1>3. \E a, h : /\ a \in Seq(Char) /\ h \in Seq(Char) /\ w = a \o h /\ z = s \o h
                  /\ Size(h) = p
    <2>1. CASE p = 0
      <3>1. z = s
        BY <2>1 DEF Becomes
      <3>2. PICK h : h = << >>
        OBVIOUS
      <3>3. h \in Seq(Char) /\ w = w \o h /\ z = s \o h
        BY <1>1, <3>1, <3>2
      <3>4. Size(h) = 0
        BY <3>2, BytesSmall DEF Size
      <3> QED BY <2>1, <3>3, <3>4
    <2>2. CASE p = 1
      <3>1. z = s \o <<Period>> /\ w[Len(w)] = Period
        BY <2>2 DEF Becomes
      <3>2. PICK a, h : a = Front(w) /\ h = <<w[Len(w)]>>
        OBVIOUS
      <3>3. a \in Seq(Char) /\ h \in Seq(Char) /\ w = a \o h
        BY <3>2, FrontAndLast
      <3>4. z = s \o h /\ h = <<Period>>
        BY <3>1, <3>2
      <3>5. Size(h) = 1
        <4>1. Bytes(h) = Wide(Period) /\ Len(Wide(Period)) = Width[Period] /\ Width[Period] = 1
          BY <3>4, BytesSmall, WideIs, SpecialIs
        <4> QED BY <4>1 DEF Size
      <3> QED BY <2>2, <3>3, <3>4, <3>5
    <2> QED BY <1>1, <2>1, <2>2
  <1>4. PICK a, h : /\ a \in Seq(Char) /\ h \in Seq(Char) /\ w = a \o h /\ z = s \o h
                    /\ Size(h) = p
    BY <1>3
  <1>5. Size(a) \in Nat /\ Size(w) = Size(a) + Size(h) /\ Size(z) = Size(s) + Size(h)
    BY <1>1, <1>4, BytesConcat, BytesType DEF Size
  <1>6. Size(w) = Size(a) + p /\ Size(w) <= Size(s) + p
    BY <1>1, <1>4, <1>5
  <1>7. p \in Nat
    BY <1>1
  <1>8. Apart(a, h, s, p, z)
    BY <1>1, <1>2, <1>4, <1>5, <1>6, <1>7 DEF Apart
  <1> QED BY <1>8

LEMMA MacronizeStep ==
    ASSUME KeySpelled, mode = "macronize", NEW x, NEW m, NEW r, NEW l, NEW v, NEW t,
           AtWord(x, m, r, l, v, t), MacronizeWord
    PROVE  \E d, b : b = t \o r /\ AtFind(d, b)'
  <1>1. Found(x, m, r, l, v, t) /\ w = v /\ w # << >>
    BY DEF AtWord, MacronizeWord
  <1>2. newstart = Size(x) + Size(l) + 1 /\ newend = Size(x) + Size(l) + Size(v)
    BY <1>1 DEF AtWord
  <1>3. /\ x \in Seq(Char) /\ l \in Seq(Char) /\ v \in Seq(Char)
    BY <1>1, FoundIs
  <1>4. PICK entry : entry = Entry(Each(macroninvtbl, Each(Lower, w)))
    OBVIOUS
  <1>5. PICK found : found = (~MiddleFound /\ ~Untouched /\ entry.form # << >>)
    OBVIOUS
  <1>6. PICK s, g, p : /\ s = (IF found THEN Recapitalized(entry.form) ELSE w)
                       /\ g = (IF MiddleFound THEN <<Invalid>>
                               ELSE IF Untouched THEN << >>
                               ELSE IF found THEN entry.flags ELSE <<NotFound>>)
                       /\ p = (IF found THEN entry.period ELSE 0)
    OBVIOUS
  <1>7. /\ text' = Cut(text, 1, newstart - 1) \o Bytes(g) \o Bytes(s)
                      \o Behind(text, newend + 1 - p)
        /\ from' = newend + Len(Bytes(g)) + Grown(Len(Bytes(s)) - Len(Bytes(w)) + p) + 1
        /\ mode' = mode /\ source' = source
    <2>1. Bytes(s) = Bytes(IF found THEN Recapitalized(entry.form) ELSE w)
      BY <1>6
    <2>2. Bytes(g) = Bytes(IF MiddleFound THEN <<Invalid>>
                           ELSE IF Untouched THEN << >>
                           ELSE IF found THEN entry.flags ELSE <<NotFound>>)
      BY <1>6
    <2> QED BY <1>4, <1>5, <1>6, <2>1, <2>2 DEF MacronizeWord
  <1>8. w \in Seq(Char)
    BY <1>1, <1>3
  <1>9. PICK z : Becomes(s, p, z)
    BY <1>1, <1>4, <1>5, <1>6, <1>8, WordBecomes
  <1>10. g \in Seq(Char) /\ RemFlags(g) = << >>
    BY <1>4, <1>6, <1>8, FlagsAre
  <1>11. PICK a, h : /\ a \in Seq(Char) /\ h \in Seq(Char) /\ w = a \o h /\ z = s \o h
                     /\ Size(h) = p /\ p \in Nat /\ s \in Seq(Char)
                     /\ Size(s) \in Nat /\ Size(a) \in Nat /\ Size(w) = Size(a) + p
                     /\ Size(w) <= Size(s) + p
    <2>1. PICK a, h : Apart(a, h, s, p, z)
      BY <1>1, <1>8, <1>9, WordApart
    <2> QED BY <2>1 DEF Apart
  <1>12. PICK b, u, k, n, e, d, y :
            /\ b = t \o r /\ u = x \o l /\ k = h \o b /\ n = u \o v
            /\ e = u \o g /\ d = e \o z /\ y = d \o b
    OBVIOUS
  <1>13. Laid(x, m, r, u, a, k)
    <2>1. v = a \o h /\ a \in Seq(Char) /\ h \in Seq(Char)
      BY <1>1, <1>11
    <2> QED BY <1>1, <1>12, <2>1, Layout
  <1>14. Passed(x, l, v, b, u, n)
    BY <1>1, <1>12, MatchPassed
  <1>15. d \in Seq(Char) /\ Remains(d, b) /\ Clean(d, b)
    <2>1. d = (u \o g) \o z
      BY <1>12
    <2>2. b = t \o r /\ u = x \o l
      BY <1>12
    <2>3. v # << >>
      BY <1>1
    <2> QED BY <1>9, <1>10, <1>14, <2>1, <2>2, <2>3, Remarked
  <1>16. /\ u \in Seq(Char) /\ b \in Seq(Char) /\ Size(u) = Size(x) + Size(l)
         /\ Size(x) \in Nat /\ Size(l) \in Nat /\ Size(g) \in Nat
    <2>1. u \in Seq(Char) /\ b \in Seq(Char)
      BY <1>14 DEF Passed
    <2>2. Size(x) \in Nat /\ Size(l) \in Nat /\ Size(g) \in Nat
      BY <1>3, <1>10, BytesType DEF Size
    <2> QED BY <1>3, <1>12, <2>1, <2>2, BytesConcat DEF Size
  <1>17. Cut(text, 1, newstart - 1) = Bytes(u) /\ Behind(text, newend + 1 - p) = Bytes(k)
    <2>1. newstart - 1 = Size(u)
      BY <1>2, <1>16
    <2>2. newend + 1 - p = Size(u) + Size(a) + 1
      <3>1. newend = Size(u) + Size(w)
        BY <1>1, <1>2, <1>16
      <3>2. Size(w) = Size(a) + p /\ Size(a) \in Nat /\ p \in Nat /\ Size(u) \in Nat
        BY <1>11, <1>16
      <3> QED BY <3>1, <3>2
    <2> QED BY <1>13, <2>1, <2>2 DEF Laid
  <1>18. text' = Bytes(u) \o Bytes(g) \o Bytes(s) \o Bytes(k)
    BY <1>7, <1>17
  <1>19. text' = Bytes(y) /\ Size(d) = Size(u) + Size(g) + Size(s) + Size(h)
    <2>1. PICK o : o = Bytes(u) \o Bytes(g) \o Bytes(s) \o Bytes(k)
      OBVIOUS
    <2>2. s \in Seq(Char) /\ h \in Seq(Char) /\ z = s \o h
      BY <1>11
    <2>3. g \in Seq(Char) /\ u \in Seq(Char) /\ b \in Seq(Char)
      BY <1>10, <1>16
    <2>4. k = h \o b /\ e = u \o g /\ d = e \o z /\ y = d \o b
      BY <1>12
    <2>5. Joins(o, y, d, u, g, s, h)
      BY <2>1, <2>2, <2>3, <2>4, Rejoined
    <2> QED BY <1>18, <2>1, <2>5 DEF Joins
  <1>20. from' = Size(d) + 1
    <2>1. /\ Size(s) \in Nat /\ Size(w) \in Nat /\ p \in Nat /\ Size(w) <= Size(s) + p
          /\ Size(h) = p
      BY <1>11
    <2>2. Grown(Len(Bytes(s)) - Len(Bytes(w)) + p) = Size(s) - Size(w) + p
      <3>1. PICK i : i = Size(s) - Size(w) + p
        OBVIOUS
      <3>2. i \in Int /\ i >= 0
        BY <2>1, <3>1
      <3>3. Grown(i) = i
        BY <3>2 DEF Grown
      <3> QED BY <3>1, <3>3 DEF Size
    <2>3. from' = newend + Size(g) + (Size(s) - Size(w) + p) + 1
      BY <1>7, <2>2 DEF Size
    <2>4. newend = Size(u) + Size(w) /\ Size(u) \in Nat /\ Size(g) \in Nat
      BY <1>1, <1>2, <1>16
    <2>5. Size(d) = Size(u) + Size(g) + Size(s) + p
      BY <1>19, <2>1
    <2> QED BY <2>1, <2>3, <2>4, <2>5
  <1>21. AtFind(d, b)'
    <2>1. Start' = Start
      BY <1>7, StartStays
    <2>2. y = d \o b /\ text' = Bytes(y) /\ mode' = mode
      BY <1>7, <1>12, <1>19
    <2> QED BY <1>15, <1>20, <2>1, <2>2, FindNext
  <1> QED BY <1>12, <1>21

LEMMA PassNothing ==
    ASSUME mode = "macronize", NEW x, NEW m, NEW r, NEW l, NEW v, NEW t,
           AtNothing(x, m, r, l, v, t), PassOver
    PROVE  \E d, b : b = t \o r /\ AtFind(d, b)'
  <1>1. Found(x, m, r, l, v, t) /\ newend = Size(x) + Size(l) + Size(v) /\ RightClean(t \o r)
    BY DEF AtNothing
  <1>2. PICK b, u, n, y : b = t \o r /\ u = x \o l /\ n = u \o v /\ y = n \o b
    OBVIOUS
  <1>3. Passed(x, l, v, b, u, n)
    BY <1>1, <1>2, MatchPassed
  <1>4. Remains(n, b) /\ text = Bytes(y) /\ Size(n) = Size(x) + Size(l) + Size(v)
    BY <1>2, <1>3 DEF Passed
  <1>5. Clean(n, b)
    BY <1>1, <1>2 DEF Clean
  <1>6. from' = Size(n) + 1 /\ text' = Bytes(y) /\ mode' = mode /\ source' = source
    BY <1>1, <1>4 DEF PassOver
  <1>7. Start' = Start
    BY <1>6, StartStays
  <1>8. AtFind(n, b)'
    BY <1>2, <1>4, <1>5, <1>6, <1>7, FindNext
  <1> QED BY <1>2, <1>8

LEMMA PassEmpty ==
    ASSUME mode = "macronize", NEW x, NEW m, NEW r, NEW l, NEW v, NEW t,
           AtWord(x, m, r, l, v, t), Empty(v), PassOver
    PROVE  \E d, q : AtFind(d, q)' /\ (q = r \/ \E c : Opened(r, c, q))
  <1>1. Found(x, m, r, l, v, t)
    BY DEF AtWord
  <1>2. newend = wend + 1 /\ Empty(t)
    BY DEF AtWord, Empty
  <1>3. PICK b, u, n : b = t \o r /\ u = x \o l /\ n = u \o v
    OBVIOUS
  <1>4. Passed(x, l, v, b, u, n)
    BY <1>1, <1>3, MatchPassed
  <1>5. /\ x \in Seq(Char) /\ l \in Seq(Char) /\ r \in Seq(Char) /\ m = (l \o v) \o t
        /\ wend + 1 = Size(x) + Size(m) + 1 /\ Size(x) \in Nat /\ Size(m) \in Nat
    <2>1. r \in Seq(Char) /\ l \in Seq(Char) /\ m = (l \o v) \o t
      BY <1>1 DEF Found
    <2>2. x \in Seq(Char) /\ wend + 1 = Size(x) + Size(m) + 1 /\ Size(x) \in Nat /\ Size(m) \in Nat
      BY <1>1, FoundIs, Zenon
    <2> QED BY <2>1, <2>2
  <1>6. b = r /\ n = u /\ m = l
    <2>1. u \in Seq(Char)
      BY <1>4 DEF Passed
    <2> QED BY <1>2, <1>3, <1>5, <2>1 DEF Empty
  <1>7. n \in Seq(Char) /\ Remains(n, r) /\ text = Bytes(n \o r)
    BY <1>4, <1>6 DEF Passed
  <1>8. Size(n) = Size(x) + Size(m)
    BY <1>3, <1>5, <1>6, BytesConcat DEF Size
  <1>9. from' = Size(n) + 2 /\ text' = text /\ mode' = mode /\ source' = source
    <2>1. from' = newend + 1 /\ text' = text /\ mode' = mode /\ source' = source
      BY DEF PassOver
    <2>2. newend = Size(x) + Size(m) + 1
      BY <1>2, <1>5
    <2> QED BY <1>5, <1>8, <2>1, <2>2
  <1>10. Start' = Start
    BY <1>9, StartStays
  <1>11. CASE r = << >>
    <2>1. Clean(n, r)
      BY <1>11, CleanEmpty DEF Clean
    <2>2. AtFind(n, r)'
      BY <1>7, <1>9, <1>10, <1>11, <2>1, FindNext
    <2> QED BY <2>2
  <1>12. CASE r # << >>
    <2>1. Len(r) >= 1 /\ r[1] \in Separators
      BY <1>1, <1>12 DEF Found
    <2>2. PICK c, q : Opened(r, c, q)
      BY <1>5, <2>1, RestOpens
    <2>3. c \in Seq(Char) /\ q \in Seq(Char) /\ r = c \o q /\ Size(c) = 1
          /\ Len(c) = 1 /\ c[1] \in Bounds
      BY <2>2 DEF Opened
    <2>4. PICK d : d = n \o c
      OBVIOUS
    <2>5. Took(n, c, q, d, r)
      BY <1>7, <2>3, <2>4, Taken
    <2>6. d \in Seq(Char) /\ Remains(d, q) /\ d \o q = n \o r /\ Size(d) = Size(n) + 1
          /\ RemFlags(d) = RemFlags(n) \o c
      BY <2>3, <2>5 DEF Took
    <2>7. Clean(d, q)
      <3>1. PICK e, f : e = RemFlags(n) /\ f = e \o c
        OBVIOUS
      <3>2. e \in Seq(Flagless)
        BY <1>7, <3>1, RemFlagsIs
      <3>3. e \in Seq(Char)
        BY <3>2, RemFlagsIs
      <3>4. InTwo(e, c, f)
        BY <2>3, <3>1, <3>3, TwoParts
      <3>5. Len(f) = Len(e) + 1 /\ Len(e) \in Nat /\ f[Len(e) + 1] = c[1] /\ f \in Seq(Char)
        <4>1. 1 \in 1..Len(c)
          BY <2>3
        <4> QED BY <2>3, <3>4, <4>1 DEF InTwo
      <3>6. LeftClean(f)
        <4>1. Len(f) >= 1 /\ f[Len(f)] \in Bounds
          BY <2>3, <3>5
        <4> QED BY <3>5, <4>1, LeftBound
      <3> QED BY <2>6, <3>1, <3>6 DEF Clean
    <2>8. text' = Bytes(d \o q)
      BY <1>7, <1>9, <2>6
    <2>9. from' = Size(d) + 1
      <3>1. Size(n) \in Nat
        BY <1>5, <1>8
      <3> QED BY <1>9, <2>6, <3>1
    <2>10. AtFind(d, q)'
      BY <1>9, <1>10, <2>6, <2>7, <2>8, <2>9, FindNext
    <2> QED BY <2>2, <2>10
  <1> QED BY <1>11, <1>12
----------------------------------------------------------------------------
\* Ignored characters are cut from the word.

\* The outcomes of a round of the loop, by the characters it looks at.
Stays == newend' = newend /\ w' = w /\ newstart' = newstart /\ pc' = "word"

CutsLeft(c) ==
    /\ newend' = newend /\ w' = Tail(w) /\ newstart' = newstart + Width[c]
    /\ posright' = posright - 1 /\ pc' = "trim"

CutsRight(d) ==
    /\ newend' = newend - Width[d] /\ w' = Cut(w, 1, posright - 1) /\ newstart' = newstart
    /\ posright' = posright - 2 /\ pc' = "trim"

CutsBoth(c, d) ==
    /\ newend' = newend - Width[d] /\ w' = Tail(Cut(w, 1, posright - 1))
    /\ newstart' = newstart + Width[c] /\ posright' = posright - 2 - 1 /\ pc' = "trim"

LosesAll(d) ==
    /\ newend' = IF newend - Width[d] < newstart THEN newend - Width[d] + Size(<<d>>)
                 ELSE newend - Width[d]
    /\ pc' = "nothing"

TrimKeeps ==
    /\ mode' = mode /\ source' = source /\ pass' = pass /\ text' = text /\ from' = from
    /\ wstart' = wstart /\ wend' = wend

LEMMA TrimIs ==
    ASSUME w \in Seq(Char), posright \in 1..Len(w), Trim, newend \in Int, newstart \in Int,
           NEW c, c = w[1], NEW d, d = w[posright]
    PROVE  /\ TrimKeeps
           /\ d \notin Ignored /\ c \notin Ignored => Stays
           /\ d \notin Ignored /\ c \in Ignored => CutsLeft(c)
           /\ d \in Ignored /\ posright < 3 => LosesAll(d)
           /\ d \in Ignored /\ posright >= 3 /\ c \notin Ignored => CutsRight(d)
           /\ d \in Ignored /\ posright >= 3 /\ c \in Ignored => CutsBoth(c, d)
  <1>1. Len(w) \in Nat /\ posright \in DOMAIN w /\ 1 \in DOMAIN w /\ posright \in Int
    OBVIOUS
  <1>2. At(posright) = {d} /\ At(1) = {c}
    BY <1>1 DEF At
  <1>3. PICK right, left : right = At(posright) \cap Ignored /\ left = At(1) \cap Ignored
    OBVIOUS
  <1>4. /\ d \in Ignored => right = {d}
        /\ d \notin Ignored => right = {}
        /\ c \in Ignored => left = {c}
        /\ c \notin Ignored => left = {}
    BY <1>2, <1>3
  <1>5. PICK width, pr, s :
            /\ width = (IF right = {} THEN 0 ELSE CharBytes(CHOOSE e \in right : TRUE))
            /\ pr = (IF right = {} THEN posright ELSE posright - 2)
            /\ s = (IF right = {} THEN w ELSE Cut(w, 1, posright - 1))
    OBVIOUS
  <1>6. /\ pr < 1 => /\ pc' = "nothing"
                     /\ newend' = IF newend - width < newstart
                                  THEN newend - width
                                          + Len(Bytes(IF posright = 0 THEN w ELSE <<w[posright]>>))
                                  ELSE newend - width
        /\ ~(pr < 1) => /\ newend' = newend - width
                        /\ w' = IF left = {} THEN s ELSE Tail(s)
                        /\ newstart' = newstart + (IF left = {} THEN 0 ELSE CharBytes(w[1]))
                        /\ posright' = IF left = {} THEN pr ELSE pr - 1
                        /\ pc' = IF left \cup right = {} THEN "word" ELSE "trim"
    BY <1>3, <1>5 DEF Trim
  <1>7. TrimKeeps
    BY DEF Trim, TrimKeeps
  <1>8. CASE d \notin Ignored
    <2>1. right = {} /\ width = 0 /\ pr = posright /\ s = w /\ ~(pr < 1)
      BY <1>1, <1>4, <1>5, <1>8
    <2>2. /\ newend' = newend - 0
          /\ w' = IF left = {} THEN w ELSE Tail(w)
          /\ newstart' = newstart + (IF left = {} THEN 0 ELSE CharBytes(w[1]))
          /\ posright' = IF left = {} THEN posright ELSE posright - 1
          /\ pc' = IF left = {} THEN "word" ELSE "trim"
      <3>1. left \cup right = left
        BY <2>1
      <3> QED BY <1>6, <2>1, <3>1
    <2>3. newend' = newend
      BY <2>2
    <2>4. CASE c \notin Ignored
      <3>1. Stays
        BY <1>4, <2>2, <2>3, <2>4 DEF Stays
      <3> QED BY <1>7, <1>8, <2>4, <3>1
    <2>5. CASE c \in Ignored
      <3>1. left # {}
        BY <1>4, <2>5
      <3>2. CutsLeft(c)
        BY <2>2, <2>3, <3>1 DEF CutsLeft, CharBytes
      <3> QED BY <1>7, <1>8, <2>5, <3>2
    <2> QED BY <2>4, <2>5
  <1>9. CASE d \in Ignored
    <2>1. right = {d} /\ right # {}
      BY <1>4, <1>9
    <2>2. width = Width[d]
      <3>1. (CHOOSE e \in right : TRUE) = d
        BY <2>1
      <3> QED BY <1>5, <2>1, <3>1 DEF CharBytes
    <2>3. pr = posright - 2 /\ s = Cut(w, 1, posright - 1)
      BY <1>5, <2>1
    <2>4. CASE posright < 3
      <3>1. pr < 1 /\ posright # 0
        BY <1>1, <2>3, <2>4
      <3>2. LosesAll(d)
        BY <1>6, <2>2, <3>1 DEF LosesAll, Size
      <3>3. ~(posright >= 3)
        BY <1>1, <2>4
      <3> QED BY <1>7, <1>9, <3>2, <3>3
    <2>5. CASE posright >= 3
      <3>1. ~(pr < 1) /\ ~(posright < 3)
        BY <1>1, <2>3, <2>5
      <3>2. left \cup right # {}
        BY <2>1
      <3>3. CASE c \notin Ignored
        <4>1. left = {}
          BY <1>4, <3>3
        <4>2. newstart' = newstart
          BY <1>6, <3>1, <4>1
        <4>3. CutsRight(d)
          BY <1>6, <2>2, <2>3, <3>1, <3>2, <4>1, <4>2 DEF CutsRight
        <4> QED BY <1>7, <1>9, <3>1, <3>3, <4>3
      <3>4. CASE c \in Ignored
        <4>1. left # {}
          BY <1>4, <3>4
        <4>2. CutsBoth(c, d)
          BY <1>6, <2>2, <2>3, <3>1, <3>2, <4>1 DEF CutsBoth, CharBytes
        <4> QED BY <1>7, <1>9, <3>1, <3>4, <4>2
      <3> QED BY <3>3, <3>4
    <2> QED BY <1>1, <2>4, <2>5
  <1> QED BY <1>8, <1>9

\* A character cut from an end goes from the word to what surrounds it.
Ready(x, r, l, v, t) ==
    mode = "macronize" =>
        /\ LeftClean(RemFlags(x) \o l) \/ \A i \in 1..Len(v) : v[i] \in Ignored
        /\ RightClean(t \o r) \/ v[Len(v)] = Period

Sliced(m, l, v, t) ==
    /\ l \in Seq(Char) /\ v \in Seq(Char) /\ t \in Seq(Char) /\ m = (l \o v) \o t

LEMMA SizeOne ==
    ASSUME NEW c \in Char
    PROVE  <<c>> \in Seq(Char) /\ Size(<<c>>) = Width[c] /\ Width[c] \in 1..3
  <1>1. <<c>> \in Seq(Char)
    OBVIOUS
  <1> QED BY <1>1, BytesSmall, WideIs DEF Size

CutFromRight(m, r, l, s, d, v, t, c) ==
    /\ Sliced(m, l, s, d) /\ Size(s) \in Nat /\ Size(v) = Size(s) + Width[c]
    /\ RightClean(t \o r) => RightClean(d \o r)

LEMMA RightIsCut ==
    ASSUME NEW m, NEW r \in Seq(Char), NEW l, NEW v, NEW t, Sliced(m, l, v, t), v # << >>,
           NEW c, c = v[Len(v)], c \in Ignored, NEW s, s = Front(v), NEW d, d = <<c>> \o t
    PROVE  CutFromRight(m, r, l, s, d, v, t, c)
  <1>1. /\ l \in Seq(Char) /\ v \in Seq(Char) /\ t \in Seq(Char) /\ m = (l \o v) \o t
    BY DEF Sliced
  <1>2. c \in Char
    BY SpecialIs
  <1>3. PICK e, f, g : e = <<c>> /\ f = l \o v /\ g = l \o s
    OBVIOUS
  <1>4. s \in Seq(Char) /\ e \in Seq(Char) /\ v = s \o e
    BY <1>1, <1>3, FrontAndLast
  <1>5. Size(e) = Width[c] /\ Size(v) = Size(s) + Size(e) /\ Size(s) \in Nat
    <2>1. Size(e) = Width[c]
      BY <1>2, <1>3, SizeOne
    <2>2. Size(v) = Size(s) + Size(e) /\ Size(s) \in Nat
      <3>1. Len(Bytes(s \o e)) = Len(Bytes(s)) + Len(Bytes(e))
        BY <1>4, BytesConcat, Zenon
      <3>2. Size(v) = Size(s) + Size(e)
        BY <1>4, <3>1 DEF Size
      <3>3. Size(s) \in Nat
        BY <1>4, BytesType DEF Size
      <3> QED BY <3>2, <3>3
    <2> QED BY <2>1, <2>2
  <1>6. PICK h : h = v \o t
    OBVIOUS
  <1>7. Grouped(s, e, t, v, d, h)
    BY <1>1, <1>3, <1>4, <1>6, Groups
  <1>8. Grouped(l, v, t, f, h, m)
    BY <1>1, <1>3, <1>6, Groups
  <1>9. h = s \o d /\ d \in Seq(Char) /\ m = l \o h
    BY <1>7, <1>8 DEF Grouped
  <1>10. Grouped(l, s, d, g, h, m)
    BY <1>1, <1>3, <1>4, <1>9, Groups
  <1>11. Sliced(m, l, s, d)
    BY <1>1, <1>3, <1>4, <1>9, <1>10 DEF Grouped, Sliced
  <1>12. ASSUME RightClean(t \o r) PROVE RightClean(d \o r)
    <2>1. PICK a, b : a = t \o r /\ b = d \o r
      OBVIOUS
    <2>2. Grouped(e, t, r, d, a, b)
      <3>1. d = e \o t
        BY <1>3
      <3> QED BY <1>1, <1>4, <2>1, <3>1, Groups
    <2>3. b = <<c>> \o a /\ a \in Seq(Char)
      BY <1>3, <2>2 DEF Grouped
    <2> QED BY <1>12, <2>1, <2>3, RightIgnored
  <1> QED BY <1>5, <1>11, <1>12 DEF CutFromRight

CutFromLeft(m, k, s, t, x, l, v, c) ==
    /\ Sliced(m, k, s, t) /\ Size(s) \in Nat
    /\ Size(v) = Size(s) + Width[c] /\ Size(k) = Size(l) + Width[c]
    /\ LeftClean(RemFlags(x) \o l) => LeftClean(RemFlags(x) \o k)

LEMMA LeftIsCut ==
    ASSUME NEW m, NEW x \in Seq(Char), NEW l, NEW v, NEW t, Sliced(m, l, v, t), v # << >>,
           NEW c, c = v[1], c \in Ignored, NEW s, s = Tail(v), NEW k, k = Append(l, c)
    PROVE  CutFromLeft(m, k, s, t, x, l, v, c)
  <1>1. /\ l \in Seq(Char) /\ v \in Seq(Char) /\ t \in Seq(Char) /\ m = (l \o v) \o t
    BY DEF Sliced
  <1>2. c \in Char
    BY SpecialIs
  <1>3. PICK e, f : e = <<c>> /\ f = l \o v
    OBVIOUS
  <1>4. s \in Seq(Char) /\ e \in Seq(Char) /\ v = e \o s
    BY <1>1, <1>3, FirstAndRest
  <1>5. k = l \o e
    BY <1>1, <1>2, <1>3
  <1>6. /\ Size(v) = Size(s) + Width[c] /\ Size(k) = Size(l) + Width[c] /\ Size(s) \in Nat
    <2>1. Size(e) = Width[c] /\ Width[c] \in Nat
      BY <1>2, <1>3, SizeOne
    <2>2. Size(v) = Size(e) + Size(s) /\ Size(s) \in Nat
      BY <1>4, BytesConcat, BytesType DEF Size
    <2>3. Size(k) = Size(l) + Size(e)
      <3>1. Len(Bytes(l \o e)) = Len(Bytes(l)) + Len(Bytes(e))
        BY <1>1, <1>4, BytesConcat, Zenon
      <3> QED BY <1>5, <3>1 DEF Size
    <2> QED BY <2>1, <2>2, <2>3
  <1>7. Grouped(l, e, s, k, v, f)
    BY <1>1, <1>3, <1>4, <1>5, Groups
  <1>8. Sliced(m, k, s, t)
    BY <1>1, <1>3, <1>4, <1>7 DEF Grouped, Sliced
  <1>9. ASSUME LeftClean(RemFlags(x) \o l) PROVE LeftClean(RemFlags(x) \o k)
    <2>1. PICK u, a, b : u = RemFlags(x) /\ a = u \o l /\ b = u \o k
      OBVIOUS
    <2>2. u \in Seq(Flagless)
      BY <2>1, RemFlagsIs
    <2>3. u \in Seq(Char)
      BY <2>2, RemFlagsIs
    <2>4. Grouped(u, l, e, a, k, b)
      BY <1>1, <1>4, <1>5, <2>1, <2>3, Groups
    <2>5. b = a \o e /\ a \in Seq(Char)
      BY <2>4 DEF Grouped
    <2>6. b = Append(a, c)
      BY <1>2, <1>3, <2>5
    <2> QED BY <1>9, <2>1, <2>5, <2>6, LeftIgnored
  <1> QED BY <1>6, <1>8, <1>9 DEF CutFromLeft

LEMMA StillFound ==
    ASSUME NEW x, NEW m, NEW r, NEW l, NEW v, NEW t, Found(x, m, r, l, v, t), TrimKeeps,
           NEW k, NEW s, NEW d, Sliced(m, k, s, d)
    PROVE  Found(x, m, r, k, s, d)'
  <1>1. Start' = Start
    BY StartStays DEF TrimKeeps
  <1> QED BY <1>1 DEF Found, Sliced, TrimKeeps, Remains, Size

LEMMA StillWord ==
    ASSUME NEW x, NEW m, NEW r, NEW k, NEW s, NEW d, Found(x, m, r, k, s, d)', mode' = mode,
           w' = s, newstart' = Size(x) + Size(k) + 1, s # << >>,
           newend' = Size(x) + Size(k) + Size(s), Ready(x, r, k, s, d)
    PROVE  AtWord(x, m, r, k, s, d)'
  BY DEF AtWord, Ready, Size

LEMMA WordIsReady ==
    ASSUME NEW x, NEW m, NEW r, NEW l, NEW v, NEW t, AtWord(x, m, r, l, v, t), pc = "trim"
    PROVE  /\ Found(x, m, r, l, v, t) /\ Sliced(m, l, v, t) /\ Ready(x, r, l, v, t)
           /\ w = v /\ v # << >> /\ x \in Seq(Char) /\ r \in Seq(Char)
           /\ newstart = Size(x) + Size(l) + 1 /\ newend = Size(x) + Size(l) + Size(v)
           /\ Size(x) \in Nat /\ Size(l) \in Nat /\ Size(v) \in Nat
           /\ newstart \in Int /\ newend \in Int
  <1>0. Found(x, m, r, l, v, t)
    BY DEF AtWord
  <1>1. Ready(x, r, l, v, t) /\ w = v /\ newstart = Size(x) + Size(l) + 1
    BY DEF AtWord, Ready
  <1>2. v # << >> /\ newend = Size(x) + Size(l) + Size(v)
    BY DEF AtWord
  <1>3. /\ x \in Seq(Char) /\ r \in Seq(Char) /\ l \in Seq(Char) /\ v \in Seq(Char)
        /\ t \in Seq(Char) /\ m = (l \o v) \o t
    BY <1>0 DEF Found, Remains
  <1>4. Size(x) \in Nat /\ Size(l) \in Nat /\ Size(v) \in Nat
    BY <1>3, BytesType DEF Size
  <1>5. newstart \in Int /\ newend \in Int
    BY <1>1, <1>2, <1>4
  <1> QED BY <1>0, <1>1, <1>2, <1>3, <1>4, <1>5 DEF Sliced

LeftTaken(x, r, k, s, t, v) ==
    /\ Ready(x, r, k, s, t) /\ s # << >> /\ Len(s) = Len(v) - 1
    /\ \A i \in 1..(Len(v) - 1) : s[i] = v[i + 1]

RightTaken(x, r, l, s, d, v) ==
    /\ Ready(x, r, l, s, d) /\ s # << >> /\ Len(s) = Len(v) - 1
    /\ \A i \in 1..(Len(v) - 1) : s[i] = v[i]

\* The word that is left when its left end is cut is ready for the next round.
LEMMA LeftReady ==
    ASSUME NEW x, NEW r, NEW l, NEW v \in Seq(Char), NEW t, Ready(x, r, l, v, t), Len(v) >= 2,
           NEW m, NEW k, NEW s, NEW c, s = Tail(v), CutFromLeft(m, k, s, t, x, l, v, c)
    PROVE  LeftTaken(x, r, k, s, t, v)
  <1>1. v # << >> /\ Len(v) \in Nat
    OBVIOUS
  <1>2. Len(s) = Len(v) - 1 /\ \A i \in 1..(Len(v) - 1) : s[i] = v[i + 1]
    BY <1>1, FirstAndRest
  <1>3. s # << >>
    <2>1. Len(s) # 0
      BY <1>1, <1>2
    <2>2. Len(<< >>) = 0
      OBVIOUS
    <2> QED BY <2>1, <2>2, Zenon
  <1>4. s[Len(s)] = v[Len(v)]
    BY <1>1, <1>2
  <1>5. (\A i \in 1..Len(v) : v[i] \in Ignored) => \A i \in 1..Len(s) : s[i] \in Ignored
    <2>1. \A i \in 1..Len(s) : i + 1 \in 1..Len(v)
      BY <1>1, <1>2
    <2> QED BY <1>2, <2>1
  <1>6. Ready(x, r, k, s, t)
    BY <1>4, <1>5 DEF Ready, CutFromLeft
  <1> QED BY <1>2, <1>3, <1>6 DEF LeftTaken

LEMMA RightReady ==
    ASSUME NEW x, NEW r, NEW l, NEW v \in Seq(Char), NEW t, Ready(x, r, l, v, t), Len(v) >= 2,
           NEW m, NEW s, NEW d, NEW c, s = Front(v), CutFromRight(m, r, l, s, d, v, t, c),
           c = v[Len(v)], c \in Ignored
    PROVE  RightTaken(x, r, l, s, d, v)
  <1>1. v # << >> /\ Len(v) \in Nat
    OBVIOUS
  <1>2. Len(s) = Len(v) - 1 /\ \A i \in 1..(Len(v) - 1) : s[i] = v[i]
    BY <1>1, FrontAndLast
  <1>3. s # << >>
    <2>1. Len(s) # 0
      BY <1>1, <1>2
    <2>2. Len(<< >>) = 0
      OBVIOUS
    <2> QED BY <2>1, <2>2, Zenon
  <1>4. v[Len(v)] # Period
    BY SpecialIs
  <1>5. (\A i \in 1..Len(v) : v[i] \in Ignored) => \A i \in 1..Len(s) : s[i] \in Ignored
    <2>1. \A i \in 1..Len(s) : i \in 1..Len(v)
      BY <1>1, <1>2
    <2> QED BY <1>2, <2>1
  <1>6. Ready(x, r, l, s, d)
    BY <1>4, <1>5 DEF Ready, CutFromRight
  <1> QED BY <1>2, <1>3, <1>6 DEF RightTaken

\* What a round of the loop leads to.
Trimmed(x, m, r) ==
    \/ /\ pc' = "word" /\ \E k, s, d : AtWord(x, m, r, k, s, d)'
    \/ /\ pc' = "trim" /\ AtEnd' /\ \E k, s, d : AtWord(x, m, r, k, s, d)'
    \/ /\ pc' = "nothing" /\ \E k, s, d : AtNothing(x, m, r, k, s, d)'

LEMMA TrimLeft ==
    ASSUME NEW x, NEW m, NEW r, NEW l, NEW v, NEW t, AtWord(x, m, r, l, v, t), pc = "trim",
           TrimKeeps, NEW c, c = v[1], c \in Ignored, CutsLeft(c),
           AtEnd, v[posright] \notin Ignored
    PROVE  Trimmed(x, m, r)
  <1>1. /\ Found(x, m, r, l, v, t) /\ Sliced(m, l, v, t) /\ Ready(x, r, l, v, t)
        /\ v # << >> /\ x \in Seq(Char)
    BY WordIsReady
  <1>2. w = v /\ newstart = Size(x) + Size(l) + 1 /\ newend = Size(x) + Size(l) + Size(v)
        /\ Size(x) \in Nat /\ Size(l) \in Nat /\ Size(v) \in Nat
    BY WordIsReady
  <1>3. v \in Seq(Char) /\ l \in Seq(Char) /\ Len(v) \in Nat /\ Len(v) >= 1
    <2>1. v \in Seq(Char) /\ l \in Seq(Char)
      BY <1>1 DEF Sliced
    <2> QED BY <1>1, <2>1, FirstAndRest
  <1>4. /\ posright \in Nat /\ posright >= 1
        /\ posright = Len(v) \/ posright = Len(v) - 1
    BY <1>2 DEF AtEnd
  <1>5. posright >= 2 /\ Len(v) >= 2
    <2>1. posright # 1
      OBVIOUS
    <2> QED BY <1>3, <1>4, <2>1
  <1>6. PICK s, k : s = Tail(v) /\ k = Append(l, c)
    OBVIOUS
  <1>7. CutFromLeft(m, k, s, t, x, l, v, c)
    BY <1>1, <1>6, LeftIsCut
  <1>8. /\ Ready(x, r, k, s, t) /\ s # << >> /\ Len(s) = Len(v) - 1
        /\ \A i \in 1..(Len(v) - 1) : s[i] = v[i + 1]
    <2>1. LeftTaken(x, r, k, s, t, v)
      BY <1>1, <1>3, <1>5, <1>6, <1>7, LeftReady
    <2> QED BY <2>1 DEF LeftTaken
  <1>9. /\ w' = s /\ newstart' = newstart + Width[c] /\ newend' = newend
        /\ posright' = posright - 1 /\ pc' = "trim" /\ mode' = mode
    BY <1>2, <1>6 DEF CutsLeft, TrimKeeps
  <1>10. newstart' = Size(x) + Size(k) + 1 /\ newend' = Size(x) + Size(k) + Size(s)
    <2>1. Size(v) = Size(s) + Width[c] /\ Size(k) = Size(l) + Width[c] /\ Size(s) \in Nat
      BY <1>7 DEF CutFromLeft
    <2>2. Width[c] \in Nat
      BY WidthIs, SpecialIs
    <2> QED BY <1>2, <1>9, <2>1, <2>2
  <1>11. Found(x, m, r, k, s, t)'
    <2>1. Sliced(m, k, s, t)
      BY <1>7 DEF CutFromLeft
    <2> QED BY <1>1, <2>1, StillFound
  <1>12. AtWord(x, m, r, k, s, t)'
    BY <1>8, <1>9, <1>10, <1>11, StillWord
  <1>13. AtEnd'
    <2>1. PICK i : i = posright - 1
      OBVIOUS
    <2>2. i \in Nat /\ i >= 1 /\ i \in 1..(Len(v) - 1) /\ i + 1 = posright
      BY <1>3, <1>4, <1>5, <2>1
    <2>3. s[i] \notin Ignored
      BY <1>8, <2>2
    <2>4. i = Len(s) \/ i = Len(s) - 1
      BY <1>3, <1>4, <1>8, <2>1
    <2> QED BY <1>9, <2>1, <2>2, <2>3, <2>4 DEF AtEnd
  <1> QED BY <1>9, <1>12, <1>13 DEF Trimmed

LEMMA TrimRight ==
    ASSUME NEW x, NEW m, NEW r, NEW l, NEW v, NEW t, AtWord(x, m, r, l, v, t), pc = "trim",
           TrimKeeps, posright = Len(v), posright >= 3, AtEnd,
           NEW c, c = v[1], NEW d, d = v[posright], d \in Ignored,
           c \notin Ignored => CutsRight(d), c \in Ignored => CutsBoth(c, d)
    PROVE  Trimmed(x, m, r)
  <1>1. /\ Found(x, m, r, l, v, t) /\ Sliced(m, l, v, t) /\ Ready(x, r, l, v, t)
        /\ v # << >> /\ x \in Seq(Char) /\ r \in Seq(Char)
    BY WordIsReady
  <1>2. w = v /\ newstart = Size(x) + Size(l) + 1 /\ newend = Size(x) + Size(l) + Size(v)
        /\ Size(x) \in Nat /\ Size(l) \in Nat /\ Size(v) \in Nat
    BY WordIsReady
  <1>3. PICK n : n = Len(v)
    OBVIOUS
  <1>4. v \in Seq(Char) /\ l \in Seq(Char) /\ n \in Nat /\ n >= 3
    <2>1. v \in Seq(Char) /\ l \in Seq(Char)
      BY <1>1 DEF Sliced
    <2>2. Len(v) \in Nat
      BY <2>1
    <2> QED BY <1>3, <2>1, <2>2
  <1>5. posright = n /\ v[n - 2] \notin Ignored
    BY <1>2, <1>3, <1>4 DEF AtEnd
  <1>6. PICK s, e : s = Front(v) /\ e = <<d>> \o t
    OBVIOUS
  <1>7. CutFromRight(m, r, l, s, e, v, t, d)
    BY <1>1, <1>6, RightIsCut
  <1>8. /\ Ready(x, r, l, s, e) /\ s # << >> /\ Len(s) = n - 1
        /\ \A i \in 1..(n - 1) : s[i] = v[i]
    <2>1. Len(v) >= 2
      BY <1>3, <1>4
    <2>2. d = v[Len(v)] /\ s = Front(v) /\ v \in Seq(Char)
      BY <1>4, <1>6
    <2>3. RightTaken(x, r, l, s, e, v)
      BY <1>1, <1>7, <2>1, <2>2, RightReady
    <2> QED BY <1>3, <2>3 DEF RightTaken
  <1>9. Cut(w, 1, posright - 1) = s
    <2>1. PICK i : i = n - 1
      OBVIOUS
    <2>2. i \in Int /\ 1 <= 1 /\ i <= Len(v)
      BY <1>3, <1>4, <2>1
    <2>3. Cut(v, 1, i) = SubSeq(v, 1, i)
      BY <1>4, <2>2, CutIs
    <2> QED BY <1>2, <1>3, <1>5, <1>6, <2>1, <2>3 DEF Front
  <1>10. /\ Sliced(m, l, s, e) /\ Size(s) \in Nat /\ Size(v) = Size(s) + Width[d]
         /\ Width[d] \in Nat /\ Width[c] \in Nat /\ s \in Seq(Char)
    <2>1. Sliced(m, l, s, e) /\ Size(s) \in Nat /\ Size(v) = Size(s) + Width[d]
      BY <1>7 DEF CutFromRight
    <2>2. d \in Char /\ c \in Char
      BY <1>3, <1>4, SpecialIs
    <2> QED BY <2>1, <2>2, WidthIs DEF Sliced
  <1>11. mode' = mode
    BY DEF TrimKeeps
  <1>12. CASE c \notin Ignored
    <2>1. /\ newend' = newend - Width[d] /\ w' = s /\ newstart' = newstart
          /\ posright' = n - 2 /\ pc' = "trim"
      BY <1>5, <1>9, <1>12 DEF CutsRight
    <2>2. newstart' = Size(x) + Size(l) + 1 /\ newend' = Size(x) + Size(l) + Size(s)
      <3>1. newend' = newend - Width[d] /\ newstart' = newstart
        BY <2>1
      <3>2. newstart = Size(x) + Size(l) + 1 /\ newend = Size(x) + Size(l) + Size(v)
        BY <1>2
      <3>3. /\ Size(v) = Size(s) + Width[d] /\ Width[d] \in Nat /\ Size(s) \in Nat
            /\ Size(x) \in Nat /\ Size(l) \in Nat
        BY <1>2, <1>10
      <3>4. PICK i, j, o, p : i = Size(l) /\ j = Size(s) /\ o = Size(x) /\ p = Width[d]
        OBVIOUS
      <3>5. i \in Nat /\ j \in Nat /\ o \in Nat /\ p \in Nat
        BY <3>3, <3>4
      <3>6. (o + i + (j + p)) - p = o + i + j
        BY <3>5
      <3>7. newend' = (o + i + (j + p)) - p
        BY <3>1, <3>2, <3>3, <3>4
      <3> QED BY <3>1, <3>2, <3>4, <3>6, <3>7
    <2>3. Found(x, m, r, l, s, e)'
      BY <1>1, <1>10, StillFound
    <2>4. AtWord(x, m, r, l, s, e)'
      BY <1>8, <1>11, <2>1, <2>2, <2>3, StillWord
    <2>5. AtEnd'
      <3>1. PICK i : i = n - 2
        OBVIOUS
      <3>2. i \in Nat /\ i >= 1 /\ i \in 1..(n - 1) /\ i = Len(s) - 1
        BY <1>4, <1>8, <3>1
      <3>3. s[i] \notin Ignored
        BY <1>5, <1>8, <3>1, <3>2
      <3> QED BY <2>1, <3>1, <3>2, <3>3 DEF AtEnd
    <2> QED BY <2>1, <2>4, <2>5 DEF Trimmed
  <1>13. CASE c \in Ignored
    <2>1. PICK a, k : a = Tail(s) /\ k = Append(l, c)
      OBVIOUS
    <2>2. n >= 4
      <3>1. n - 2 # 1
        BY <1>5, <1>13
      <3> QED BY <1>4, <3>1
    <2>3. s[1] = c
      BY <1>4, <1>8
    <2>4. CutFromLeft(m, k, a, e, x, l, s, c)
      BY <1>1, <1>8, <1>10, <1>13, <2>1, <2>3, LeftIsCut
    <2>5. /\ Ready(x, r, k, a, e) /\ a # << >> /\ Len(a) = Len(s) - 1
          /\ \A i \in 1..(Len(s) - 1) : a[i] = s[i + 1]
      <3>1. Len(s) >= 2
        BY <1>4, <1>8
      <3>2. s \in Seq(Char) /\ a = Tail(s) /\ Ready(x, r, l, s, e)
        BY <1>8, <1>10, <2>1
      <3>3. LeftTaken(x, r, k, a, e, s)
        BY <2>4, <3>1, <3>2, LeftReady
      <3> QED BY <3>3 DEF LeftTaken
    <2>6. /\ newend' = newend - Width[d] /\ w' = a /\ newstart' = newstart + Width[c]
          /\ posright' = n - 2 - 1 /\ pc' = "trim"
      BY <1>5, <1>9, <1>13, <2>1 DEF CutsBoth
    <2>7. newstart' = Size(x) + Size(k) + 1 /\ newend' = Size(x) + Size(k) + Size(a)
      <3>1. Size(s) = Size(a) + Width[c] /\ Size(k) = Size(l) + Width[c] /\ Size(a) \in Nat
        BY <2>4 DEF CutFromLeft
      <3>2. newend' = newend - Width[d] /\ newstart' = newstart + Width[c]
        BY <2>6
      <3>3. newstart = Size(x) + Size(l) + 1 /\ newend = Size(x) + Size(l) + Size(v)
        BY <1>2
      <3>4. /\ Size(v) = Size(s) + Width[d] /\ Width[d] \in Nat /\ Width[c] \in Nat
            /\ Size(x) \in Nat /\ Size(l) \in Nat
        BY <1>2, <1>10
      <3>5. newstart' = Size(x) + Size(k) + 1
        <4>1. PICK i, o, p : i = Size(l) /\ o = Size(x) /\ p = Width[c]
          OBVIOUS
        <4>2. i \in Nat /\ o \in Nat /\ p \in Nat
          BY <3>4, <4>1
        <4>3. (o + i + 1) + p = o + (i + p) + 1
          BY <4>2
        <4>4. newstart' = (o + i + 1) + p /\ Size(k) = i + p
          BY <3>1, <3>2, <3>3, <4>1
        <4> QED BY <4>1, <4>3, <4>4
      <3>6. newend' = Size(x) + Size(l) + Size(s)
        <4>1. newend' = newend - Width[d] /\ newend = Size(x) + Size(l) + Size(v)
          BY <3>2, <3>3
        <4>2. Size(v) = Size(s) + Width[d] /\ Size(s) \in Nat
          BY <1>10, <3>4
        <4> QED BY <3>4, <4>1, <4>2
      <3>7. newend' = Size(x) + Size(k) + Size(a)
        <4>1. Size(l) + Size(s) = Size(k) + Size(a) /\ Size(k) \in Nat
          BY <3>1, <3>4
        <4>2. PICK i, j, p, q : i = Size(l) /\ j = Size(s) /\ p = Size(k) /\ q = Size(a)
          OBVIOUS
        <4>3. i \in Nat /\ j \in Nat /\ p \in Nat /\ q \in Nat /\ i + j = p + q
          BY <1>10, <3>1, <3>4, <4>1, <4>2
        <4>4. PICK o : o = Size(x)
          OBVIOUS
        <4>5. o \in Nat
          BY <3>4, <4>4
        <4>6. o + i + j = o + p + q
          BY <4>3, <4>5
        <4> QED BY <3>6, <4>2, <4>4, <4>6
      <3> QED BY <3>5, <3>7
    <2>8. Found(x, m, r, k, a, e)'
      <3>1. Sliced(m, k, a, e)
        BY <2>4 DEF CutFromLeft
      <3> QED BY <1>1, <3>1, StillFound
    <2>9. AtWord(x, m, r, k, a, e)'
      BY <1>11, <2>5, <2>6, <2>7, <2>8, StillWord
    <2>10. AtEnd'
      <3>1. PICK i : i = n - 3
        OBVIOUS
      <3>2. /\ i \in Nat /\ i >= 1 /\ i \in 1..(Len(s) - 1) /\ i = Len(a) - 1
            /\ i + 1 = n - 2 /\ i + 1 \in 1..(n - 1) /\ n - 2 - 1 = i
        BY <1>4, <1>8, <2>2, <2>5, <3>1
      <3>3. a[i] = s[i + 1] /\ s[i + 1] = v[i + 1]
        BY <1>8, <2>5, <3>2
      <3>4. a[i] \notin Ignored
        BY <1>5, <3>2, <3>3
      <3> QED BY <2>6, <3>2, <3>4 DEF AtEnd
    <2> QED BY <2>6, <2>9, <2>10 DEF Trimmed
  <1> QED BY <1>12, <1>13

LEMMA StillNothing ==
    ASSUME NEW x, NEW m, NEW r, NEW k, NEW s, NEW d, Found(x, m, r, k, s, d)', mode' = mode,
           s # << >>, newend' = Size(x) + Size(k) + Size(s),
           mode = "macronize" => RightClean(d \o r)
    PROVE  AtNothing(x, m, r, k, s, d)'
  BY DEF AtNothing, Size

LEMMA TrimNothing ==
    ASSUME NEW x, NEW m, NEW r, NEW l, NEW v, NEW t, AtWord(x, m, r, l, v, t), pc = "trim",
           TrimKeeps, posright = Len(v), posright < 3,
           NEW d, d = v[posright], d \in Ignored, LosesAll(d)
    PROVE  Trimmed(x, m, r)
  <1>1. /\ Found(x, m, r, l, v, t) /\ Sliced(m, l, v, t) /\ Ready(x, r, l, v, t)
        /\ v # << >> /\ x \in Seq(Char) /\ r \in Seq(Char)
    BY WordIsReady
  <1>2. newstart = Size(x) + Size(l) + 1 /\ newend = Size(x) + Size(l) + Size(v)
        /\ Size(x) \in Nat /\ Size(l) \in Nat /\ Size(v) \in Nat
    BY WordIsReady
  <1>3. v \in Seq(Char) /\ Len(v) \in Nat /\ Len(v) >= 1
    <2>1. v \in Seq(Char)
      BY <1>1 DEF Sliced
    <2> QED BY <1>1, <2>1, FirstAndRest
  <1>4. d = v[Len(v)] /\ d \in Char /\ d # Period /\ Width[d] \in Nat /\ Width[d] >= 1
    BY SpecialIs, WidthIs
  <1>5. mode = "macronize" => RightClean(t \o r)
    BY <1>1, <1>4 DEF Ready
  <1>6. mode' = mode /\ pc' = "nothing"
    BY DEF TrimKeeps, LosesAll
  <1>7. CASE Len(v) = 1
    <2>1. Size(v) = Width[d]
      <3>1. v = <<d>>
        BY <1>3, <1>4, <1>7
      <3> QED BY <1>4, <3>1, SizeOne
    <2>2. newend' = newend
      <3>1. Size(<<d>>) = Width[d]
        BY <1>4, SizeOne
      <3>2. newend' = IF newend - Width[d] < newstart THEN newend - Width[d] + Width[d]
                      ELSE newend - Width[d]
        BY <3>1 DEF LosesAll
      <3>3. newend - Width[d] < newstart /\ newend \in Int
        BY <1>2, <1>4, <2>1
      <3> QED BY <1>4, <3>2, <3>3
    <2>3. Found(x, m, r, l, v, t)'
      BY <1>1, StillFound
    <2>4. AtNothing(x, m, r, l, v, t)'
      <3>1. newend' = Size(x) + Size(l) + Size(v)
        BY <1>2, <2>2
      <3> QED BY <1>1, <1>5, <1>6, <2>3, <3>1, StillNothing
    <2> QED BY <1>6, <2>4 DEF Trimmed
  <1>8. CASE Len(v) = 2
    <2>1. PICK s, e : s = Front(v) /\ e = <<d>> \o t
      OBVIOUS
    <2>2. CutFromRight(m, r, l, s, e, v, t, d)
      BY <1>1, <1>4, <2>1, RightIsCut
    <2>3. s # << >>
      <3>1. Len(v) >= 2
        BY <1>8
      <3>2. RightTaken(x, r, l, s, e, v)
        BY <1>1, <1>3, <1>4, <2>1, <2>2, <3>1, RightReady
      <3> QED BY <3>2 DEF RightTaken
    <2>4. Sliced(m, l, s, e) /\ Size(s) \in Nat /\ Size(v) = Size(s) + Width[d]
      BY <2>2 DEF CutFromRight
    <2>5. Size(s) # 0
      <3>1. s \in Seq(Char)
        BY <2>4 DEF Sliced
      <3> QED BY <2>3, <3>1, BytesEmpty DEF Size
    <2>6. newend' = Size(x) + Size(l) + Size(s)
      <3>1. newend - Width[d] = Size(x) + Size(l) + Size(s)
        <4>1. newend = Size(x) + Size(l) + Size(v) /\ Size(x) \in Nat /\ Size(l) \in Nat
          BY <1>2
        <4>2. Size(v) = Size(s) + Width[d] /\ Size(s) \in Nat /\ Width[d] \in Nat
          BY <1>4, <2>4
        <4> QED BY <4>1, <4>2
      <3>2. ~(newend - Width[d] < newstart)
        BY <1>2, <2>4, <2>5, <3>1
      <3> QED BY <3>1, <3>2 DEF LosesAll
    <2>7. mode = "macronize" => RightClean(e \o r)
      BY <1>5, <2>2 DEF CutFromRight
    <2>8. Found(x, m, r, l, s, e)'
      BY <1>1, <2>4, StillFound
    <2>9. AtNothing(x, m, r, l, s, e)'
      BY <1>6, <2>3, <2>6, <2>7, <2>8, StillNothing
    <2> QED BY <1>6, <2>9 DEF Trimmed
  <1> QED BY <1>3, <1>7, <1>8

LEMMA TrimStep ==
    ASSUME NEW x, NEW m, NEW r, NEW l, NEW v, NEW t, AtWord(x, m, r, l, v, t), AtEnd, Trim
    PROVE  Trimmed(x, m, r)
  <1>0. pc = "trim"
    BY DEF Trim
  <1>1. /\ Found(x, m, r, l, v, t) /\ Sliced(m, l, v, t) /\ Ready(x, r, l, v, t)
        /\ v # << >>
    BY <1>0, WordIsReady
  <1>2. w = v /\ newstart = Size(x) + Size(l) + 1 /\ newend = Size(x) + Size(l) + Size(v)
        /\ newstart \in Int /\ newend \in Int
    BY <1>0, WordIsReady
  <1>3. v \in Seq(Char) /\ Len(v) \in Nat /\ Len(v) >= 1
    <2>1. v \in Seq(Char)
      BY <1>1 DEF Sliced
    <2> QED BY <1>1, <2>1, FirstAndRest
  <1>4. /\ posright \in Nat /\ posright >= 1
        /\ posright = Len(v) \/ (posright = Len(v) - 1 /\ v[posright] \notin Ignored)
    BY <1>2 DEF AtEnd
  <1>5. posright \in 1..Len(v) /\ posright \in Int
    BY <1>3, <1>4
  <1>6. PICK c, d : c = v[1] /\ d = v[posright]
    OBVIOUS
  <1>7. /\ TrimKeeps
        /\ d \notin Ignored /\ c \notin Ignored => Stays
        /\ d \notin Ignored /\ c \in Ignored => CutsLeft(c)
        /\ d \in Ignored /\ posright < 3 => LosesAll(d)
        /\ d \in Ignored /\ posright >= 3 /\ c \notin Ignored => CutsRight(d)
        /\ d \in Ignored /\ posright >= 3 /\ c \in Ignored => CutsBoth(c, d)
    <2>1. w \in Seq(Char) /\ posright \in 1..Len(w) /\ c = w[1] /\ d = w[posright]
      BY <1>2, <1>3, <1>5, <1>6
    <2> QED BY <1>2, <2>1, TrimIs
  <1>8. CASE d \notin Ignored /\ c \notin Ignored
    <2>1. Found(x, m, r, l, v, t)'
      BY <1>1, <1>7, StillFound
    <2>2. /\ w' = v /\ newstart' = Size(x) + Size(l) + 1 /\ pc' = "word" /\ mode' = mode
          /\ newend' = Size(x) + Size(l) + Size(v)
      BY <1>2, <1>7, <1>8 DEF Stays, TrimKeeps
    <2>3. AtWord(x, m, r, l, v, t)'
      BY <1>1, <2>1, <2>2, StillWord
    <2> QED BY <2>2, <2>3 DEF Trimmed
  <1>9. CASE d \notin Ignored /\ c \in Ignored
    BY <1>0, <1>6, <1>7, <1>9, TrimLeft
  <1>10. CASE d \in Ignored
    <2>1. posright = Len(v)
      BY <1>4, <1>6, <1>10
    <2>2. CASE posright < 3
      BY <1>0, <1>6, <1>7, <1>10, <2>1, <2>2, TrimNothing
    <2>3. CASE posright >= 3
      BY <1>0, <1>6, <1>7, <1>10, <2>1, <2>3, TrimRight
    <2> QED BY <1>5, <2>2, <2>3
  <1> QED BY <1>8, <1>9, <1>10
----------------------------------------------------------------------------
\* The next word is found.

\* Behind d come separators a, the match c, and e.
Reached(d, r, a, c, e, f) ==
    /\ a \in Seq(Separators) /\ a \in Seq(Char) /\ c \in Seq(Letter) /\ c \in Seq(Char)
    /\ c # << >> /\ e \in Seq(Char) /\ f \in Seq(Char) /\ f = d \o a
    /\ e = << >> \/ (Len(e) >= 1 /\ e[1] \in Separators)
    /\ r = a \o (c \o e) /\ Took(d, a, c \o e, f, r)
    /\ text = Bytes(f \o (c \o e))
    /\ from \in Int /\ from <= Size(f) + 1 /\ Size(f) \in Nat

Matches(f, c) ==
    /\ Min(Letters) = Size(f) + 1
    /\ MatchEnd(Size(f) + 1) = Size(f) + Size(c)
    /\ text[Size(f) + 1][2] = 1
    /\ Chars(Cut(text, Size(f) + 1, Size(f) + Size(c))) = c

LEMMA MatchIs ==
    ASSUME NEW d \in Seq(Char), NEW a \in Seq(Separators), NEW c \in Seq(Letter),
           NEW e \in Seq(Char), c # << >>, e = << >> \/ e[1] \in Separators,
           NEW f, f = d \o a, NEW y, y = (f \o c) \o e, text = Bytes(y),
           from = Len(Bytes(d)) + 1
    PROVE  Matches(f, c)
  <1>1. /\ Min(Letters) = Len(Bytes(f)) + 1
        /\ MatchEnd(Len(Bytes(f)) + 1) = Len(Bytes(f)) + Len(Bytes(c))
        /\ text[Len(Bytes(f)) + 1] = <<c[1], 1>>
        /\ Cut(text, Len(Bytes(f)) + 1, Len(Bytes(f)) + Len(Bytes(c))) = Bytes(c)
    <2>1. There(f, c)
      BY WordThere
    <2> QED BY <2>1 DEF There
  <1>2. c \in Seq(Char)
    BY LettersOf
  <1>3. Chars(Bytes(c)) = c
    BY <1>2, CharsOfBytes
  <1> QED BY <1>1, <1>3 DEF Matches, Size

LEMMA SearchIs ==
    ASSUME NEW d, NEW r, AtFind(d, r), Letters # {}
    PROVE  \E a, c, e, f : Reached(d, r, a, c, e, f) /\ Matches(f, c)
  <1>1. /\ Remains(d, r) /\ d \in Seq(Char) /\ r \in Seq(Char) /\ text = Bytes(d \o r)
        /\ from = Size(d) + 1 \/ (r = << >> /\ from = Size(d) + 2)
    BY DEF AtFind, Remains
  <1>2. /\ \A s \in Seq(Separators) : s \in Seq(Char)
        /\ \A s \in Seq(Letter) : s \in Seq(Char)
    BY LettersOf
  <1>3. r \notin Seq(Separators)
    <2>1. from \in {Len(Bytes(d)) + 1, Len(Bytes(d)) + 2}
      BY <1>1 DEF Size
    <2> QED BY <1>1, <2>1, NoLetters
  <1>4. from = Size(d) + 1 /\ Size(d) \in Nat
    <2>1. r # << >>
      <3>1. << >> \in Seq(Separators)
        OBVIOUS
      <3> QED BY <1>3, <3>1, Zenon
    <2>2. Size(d) \in Nat
      BY <1>1, BytesEmpty DEF Size
    <2> QED BY <1>1, <2>1, <2>2
  <1>5. PICK a, q : Divides(Char, Letter, r, a, q)
    BY <1>1, Divided
  <1>6. a \in Seq(Char) /\ q \in Seq(Char) /\ r = a \o q
    BY <1>5 DEF Divides
  <1>7. a \in Seq(Separators)
    <2>1. \A i \in 1..Len(a) : a[i] \in Separators
      <3>1. \A i \in 1..Len(a) : a[i] \in Char /\ a[i] \notin Letter
        BY <1>5, <1>6 DEF Divides
      <3> QED BY <3>1 DEF Letter
    <2> QED BY <1>6, <2>1
  <1>8. q # << >> /\ q[1] \in Letter /\ Len(q) >= 1
    <2>1. q # << >>
      BY <1>3, <1>6, <1>7
    <2> QED BY <1>5, <2>1 DEF Divides
  <1>9. PICK c, e : Divides(Char, Separators, q, c, e)
    BY <1>6, Divided
  <1>10. /\ c \in Seq(Char) /\ e \in Seq(Char) /\ q = c \o e
         /\ e = << >> \/ (Len(e) >= 1 /\ e[1] \in Separators)
    BY <1>9 DEF Divides
  <1>11. c \in Seq(Letter)
    <2>1. \A i \in 1..Len(c) : c[i] \in Letter
      <3>1. \A i \in 1..Len(c) : c[i] \in Char /\ c[i] \notin Separators
        BY <1>9, <1>10 DEF Divides
      <3> QED BY <3>1 DEF Letter
    <2> QED BY <1>10, <2>1
  <1>12. c # << >>
    <2>1. SUFFICES ASSUME c = << >> PROVE FALSE
      OBVIOUS
    <2>2. q = e
      BY <1>10, <2>1
    <2>3. q[1] \in Separators
      BY <1>8, <1>10, <2>2
    <2> QED BY <1>8, <2>3 DEF Letter
  <1>13. PICK f, y : f = d \o a /\ y = (f \o c) \o e
    OBVIOUS
  <1>14. Took(d, a, q, f, r)
    BY <1>1, <1>6, <1>13, Taken
  <1>15. f \in Seq(Char) /\ f \o q = d \o r /\ Size(f) = Size(d) + Size(a)
    BY <1>14 DEF Took
  <1>16. y = f \o q
    <2>1. Grouped(f, c, e, f \o c, q, y)
      BY <1>10, <1>13, <1>15, Groups
    <2> QED BY <2>1 DEF Grouped
  <1>17. text = Bytes(y)
    BY <1>1, <1>15, <1>16
  <1>18. Size(a) \in Nat /\ Size(f) \in Nat
    BY <1>6, <1>15, BytesEmpty DEF Size
  <1>19. Reached(d, r, a, c, e, f)
    <2>1. from \in Int /\ from <= Size(f) + 1
      BY <1>4, <1>15, <1>18
    <2>2. r = a \o (c \o e) /\ Took(d, a, c \o e, f, r) /\ text = Bytes(f \o (c \o e))
      BY <1>6, <1>10, <1>14, <1>16, <1>17
    <2> QED BY <1>6, <1>7, <1>10, <1>11, <1>12, <1>13, <1>15, <1>18, <2>1, <2>2 DEF Reached
  <1>20. Matches(f, c)
    <2>1. e = << >> \/ e[1] \in Separators
      BY <1>10
    <2>2. from = Len(Bytes(d)) + 1
      BY <1>4 DEF Size
    <2>3. d \in Seq(Char) /\ e \in Seq(Char)
      BY <1>1, <1>10
    <2> QED BY <1>7, <1>11, <1>12, <1>13, <1>17, <2>1, <2>2, <2>3, MatchIs
  <1> QED BY <1>19, <1>20

Quoted(s) == Len(s) > 1 /\ Last(s) = Period /\ s[Len(s) - 1] \in Ignored

Solid(c) == {i \in DOMAIN c : c[i] # Period}

FindKeeps ==
    mode' = mode /\ source' = source /\ pass' = pass /\ text' = text /\ from' = from

FoundAs(f, c, lead, s) ==
    /\ FindKeeps
    /\ wstart' = Size(f) + 1 /\ wend' = Size(f) + Size(c)
    /\ newstart' = Size(f) + 1 + lead /\ posright' = Len(w')
    /\ pc' = IF s = << >> THEN "word" ELSE "trim"
    /\ Quoted(s) => w' = Front(s)
    /\ ~Quoted(s) => w' = s
    /\ \E end : /\ Solid(c) = {} => end = Size(f) + 1 + lead
                /\ Solid(c) # {} => end = Size(f) + 1 + lead + Size(s) - 1
                /\ Quoted(s) => newend' = end - 1
                /\ ~Quoted(s) => newend' = end

LEMMA FindWordIs ==
    ASSUME FindWord, NEW f, NEW c, Matches(f, c), NEW lead,
           Solid(c) = {} => lead = Len(c), Solid(c) # {} => lead = Min(Solid(c)) - 1,
           NEW s, s = UpToPeriod(Behind(c, lead + 1))
    PROVE  FoundAs(f, c, lead, s)
  <1>1. PICK p, q : p = Size(f) + 1 /\ q = Size(f) + Size(c)
    OBVIOUS
  <1>2. p = Min(Letters) /\ q = MatchEnd(p) /\ text[p][2] = 1 /\ Chars(Cut(text, p, q)) = c
    BY <1>1 DEF Matches
  <1>3. PICK end : end = IF Solid(c) = {} THEN p + lead ELSE p + lead + Len(Bytes(s)) - 1
    OBVIOUS
  <1>4. lead = IF Solid(c) = {} THEN Len(c) ELSE Min(Solid(c)) - 1
    OBVIOUS
  <1>5. /\ wstart' = p /\ wend' = q
        /\ newstart' = p + lead
        /\ newend' = IF Quoted(s) THEN end - 1 ELSE end
        /\ w' = IF Quoted(s) THEN Front(s) ELSE s
        /\ posright' = Len(w')
        /\ pc' = IF s = << >> THEN "word" ELSE "trim"
    BY <1>2, <1>3, <1>4 DEF FindWord, Quoted, Solid
  <1>6. FindKeeps
    BY DEF FindWord, FindKeeps
  <1> QED BY <1>1, <1>3, <1>5, <1>6 DEF FoundAs, Size

\* The periods at the start of a match.
Headed(c, l, b) ==
    /\ l \in Seq(Char) /\ b \in Seq(Letter) /\ b \in Seq(Char) /\ c = l \o b
    /\ Len(l) \in Nat /\ Size(l) = Len(l) /\ \A i \in 1..Len(l) : l[i] = Period
    /\ b = << >> \/ (Len(b) >= 1 /\ b[1] # Period)
    /\ Solid(c) = {} <=> b = << >>
    /\ Solid(c) = {} => Len(l) = Len(c)
    /\ Solid(c) # {} => Len(l) = Min(Solid(c)) - 1
    /\ Behind(c, Len(l) + 1) = b

LEMMA HeadedIs ==
    ASSUME NEW c \in Seq(Letter)
    PROVE  \E l, b : Headed(c, l, b)
  <1>1. PICK T : T = Letter \ {Period}
    OBVIOUS
  <1>2. PICK l, b : Divides(Letter, T, c, l, b)
    BY Divided
  <1>3. /\ l \in Seq(Letter) /\ b \in Seq(Letter) /\ c = l \o b /\ Len(c) = Len(l) + Len(b)
        /\ \A i \in 1..Len(l) : l[i] \notin T /\ l[i] = c[i]
        /\ \A k \in 1..Len(b) : b[k] = c[Len(l) + k]
        /\ b = << >> \/ (Len(b) >= 1 /\ b[1] \in T)
    BY <1>2 DEF Divides
  <1>4. l \in Seq(Char) /\ b \in Seq(Char)
    BY <1>3, LettersOf
  <1>5. Len(l) \in Nat /\ Len(b) \in Nat
    BY <1>3
  <1>6. \A i \in 1..Len(l) : l[i] = Period
    BY <1>1, <1>3, <1>5
  <1>7. Size(l) = Len(l)
    <2>1. l \in Seq({Period})
      BY <1>3, <1>5, <1>6
    <2>2. {Period} \subseteq Char /\ \A e \in {Period} : Width[e] = 1
      BY SpecialIs
    <2> QED BY <2>1, <2>2, BytesNarrow DEF Size
  <1>8. Behind(c, Len(l) + 1) = b
    BY <1>3, CutParts
  <1>9. b = << >> \/ (Len(b) >= 1 /\ b[1] # Period)
    <2>1. b = << >> \/ (Len(b) >= 1 /\ b[1] \in T)
      BY <1>3, Zenon
    <2> QED BY <1>1, <2>1
  <1>10. CASE b = << >>
    <2>1. Len(b) = 0
      BY <1>10
    <2>2. Len(c) = Len(l) /\ c \in Seq(Letter)
      BY <1>3, <1>5, <2>1
    <2>3. \A i \in 1..Len(c) : c[i] = Period
      BY <1>3, <1>6, <2>2
    <2>4. Solid(c) = {}
      BY <2>2, <2>3 DEF Solid
    <2> QED BY <1>3, <1>4, <1>5, <1>6, <1>7, <1>8, <1>9, <1>10, <2>2, <2>4 DEF Headed
  <1>11. CASE b # << >>
    <2>1. PICK n : n = Len(l) + 1
      OBVIOUS
    <2>2. Len(b) >= 1 /\ b[1] # Period /\ n \in 1..Len(c) /\ n \in Nat
      BY <1>3, <1>5, <1>9, <1>11, <2>1
    <2>3. c[n] = b[1]
      <3>1. 1 \in 1..Len(b)
        BY <1>5, <2>2
      <3> QED BY <1>3, <2>1, <3>1
    <2>4. n \in Solid(c) /\ Solid(c) \subseteq Int
      BY <2>2, <2>3 DEF Solid
    <2>5. \A i \in Solid(c) : n <= i
      <3>1. \A i \in 1..Len(l) : c[i] = Period
        BY <1>3, <1>6
      <3>2. \A i \in Solid(c) : i \in 1..Len(c) /\ i \notin 1..Len(l)
        BY <3>1 DEF Solid
      <3> QED BY <1>5, <2>1, <3>2
    <2>6. Min(Solid(c)) = n
      BY <2>4, <2>5, MinIs
    <2>7. Len(l) = Min(Solid(c)) - 1 /\ Solid(c) # {}
      BY <1>5, <2>1, <2>4, <2>6
    <2> QED BY <1>3, <1>4, <1>5, <1>6, <1>7, <1>8, <1>9, <1>11, <2>7 DEF Headed
  <1> QED BY <1>10, <1>11

\* The first part of a match with a period in its middle.
Part(b, s, n) ==
    /\ s \in Seq(Char) /\ n \in Seq(Char) /\ b = s \o n /\ Len(s) \in Nat
    /\ s = << >> <=> b = << >>
    /\ \A i \in 1..Len(s) : s[i] \in Letter /\ (i < Len(s) => s[i] # Period)
    /\ s # << >> => Len(s) >= 1 /\ s[1] # Period
    /\ n = << >> \/ s[Len(s)] = Period

LEMMA PartIs ==
    ASSUME NEW b \in Seq(Letter), b = << >> \/ (Len(b) >= 1 /\ b[1] # Period),
           NEW s, s = UpToPeriod(b)
    PROVE  \E n : Part(b, s, n)
  <1>1. PICK T : T = {i \in DOMAIN b : b[i] = Period}
    OBVIOUS
  <1>2. b \in Seq(Char) /\ Len(b) \in Nat /\ \A i \in 1..Len(b) : b[i] \in Letter
    BY LettersOf
  <1>3. CASE T = {}
    <2>1. s = b
      BY <1>1, <1>3 DEF UpToPeriod
    <2>2. PICK n : n = << >>
      OBVIOUS
    <2>3. n \in Seq(Char) /\ b = s \o n
      BY <1>2, <2>1, <2>2
    <2>4. \A i \in 1..Len(s) : s[i] # Period
      BY <1>1, <1>2, <1>3, <2>1
    <2> QED BY <1>2, <2>1, <2>2, <2>3, <2>4 DEF Part
  <1>4. CASE T # {}
    <2>1. PICK p, q : Divides(Letter, {Period}, b, p, q)
      BY Divided
    <2>2. /\ p \in Seq(Letter) /\ q \in Seq(Letter) /\ b = p \o q /\ Len(b) = Len(p) + Len(q)
          /\ \A i \in 1..Len(p) : p[i] # Period /\ p[i] = b[i]
          /\ \A k \in 1..Len(q) : q[k] = b[Len(p) + k]
          /\ q = << >> \/ (Len(q) >= 1 /\ q[1] = Period)
      BY <2>1 DEF Divides
    <2>3. p \in Seq(Char) /\ q \in Seq(Char) /\ Len(p) \in Nat /\ Len(q) \in Nat
      BY <2>2, LettersOf
    <2>4. Len(q) >= 1 /\ q[1] = Period /\ q # << >>
      <3>1. q # << >>
        <4>1. SUFFICES ASSUME q = << >> PROVE FALSE
          OBVIOUS
        <4>2. Len(q) = 0
          BY <4>1
        <4>3. \A i \in 1..Len(b) : b[i] # Period
          BY <2>2, <2>3, <4>2
        <4> QED BY <1>1, <1>2, <1>4, <4>3
      <3> QED BY <2>2, <3>1
    <2>5. PICK h, n, g : h = <<q[1]>> /\ n = Tail(q) /\ g = p \o h
      OBVIOUS
    <2>6. h \in Seq(Char) /\ n \in Seq(Char) /\ q = h \o n
      BY <2>3, <2>4, <2>5, FirstAndRest
    <2>7. Grouped(p, h, n, g, q, b)
      BY <2>2, <2>3, <2>5, <2>6, Groups
    <2>8. g \in Seq(Char) /\ b = g \o n
      BY <2>7 DEF Grouped
    <2>9. PICK k : k = Len(p) + 1
      OBVIOUS
    <2>10. /\ Len(g) = k /\ g[k] = Period /\ k \in Nat
           /\ \A i \in 1..Len(p) : g[i] = p[i]
      <3>1. InTwo(p, h, g)
        BY <2>3, <2>5, <2>6, TwoParts
      <3>2. Len(h) = 1 /\ h[1] = Period /\ 1 \in 1..1
        BY <2>4, <2>5
      <3> QED BY <2>9, <3>1, <3>2 DEF InTwo
    <2>11. Min(T) = k
      <3>1. k \in T
        <4>1. k \in 1..Len(b) /\ 1 \in 1..Len(q)
          BY <2>2, <2>3, <2>4, <2>9
        <4>2. b[k] = Period
          BY <2>2, <2>4, <2>9, <4>1
        <4> QED BY <1>1, <1>2, <4>1, <4>2
      <3>2. \A i \in T : k <= i
        <4>1. \A i \in T : i \in 1..Len(b) /\ i \notin 1..Len(p)
          BY <1>1, <1>2, <2>2
        <4> QED BY <2>3, <2>9, <4>1
      <3>3. T \subseteq Int
        BY <1>1, <1>2
      <3> QED BY <3>1, <3>2, <3>3, MinIs
    <2>12. s = g
      <3>1. s = Cut(b, 1, Min(T))
        BY <1>1, <1>4 DEF UpToPeriod
      <3>2. Cut(b, 1, Len(g)) = g
        BY <2>6, <2>8, CutParts
      <3> QED BY <2>10, <2>11, <3>1, <3>2
    <2>13. Len(p) >= 1
      <3>1. SUFFICES ASSUME Len(p) = 0 PROVE FALSE
        BY <2>3
      <3>2. 1 \in 1..Len(q)
        BY <2>3, <2>4
      <3>3. q[1] = b[1] /\ b # << >>
        BY <2>2, <2>3, <2>4, <3>1, <3>2
      <3> QED BY <2>4, <3>3
    <2>14. g # << >> /\ b # << >>
      <3>1. Len(g) # 0 /\ Len(b) # 0
        BY <2>2, <2>3, <2>4, <2>9, <2>10
      <3>2. Len(<< >>) = 0
        OBVIOUS
      <3> QED BY <3>1, <3>2, Zenon
    <2>15. \A i \in 1..Len(g) : g[i] \in Letter /\ (i < Len(g) => g[i] # Period)
      <3>1. \A i \in 1..Len(p) : g[i] \in Letter /\ g[i] # Period
        BY <2>2, <2>10
      <3>2. Period \in Letter
        BY ScanAssumption DEF Letter
      <3>3. \A i \in 1..k : i = k \/ i \in 1..Len(p)
        BY <2>3, <2>9
      <3> QED BY <2>9, <2>10, <3>1, <3>2, <3>3
    <2>16. g[1] # Period
      <3>1. 1 \in 1..Len(p)
        BY <2>3, <2>13
      <3> QED BY <2>2, <2>10, <3>1
    <2>17. Len(g) >= 1 /\ Len(g) \in Nat
      BY <2>3, <2>9, <2>10
    <2>18. Part(b, g, n)
      BY <2>6, <2>8, <2>10, <2>14, <2>15, <2>16, <2>17 DEF Part
    <2> QED BY <2>12, <2>18
  <1> QED BY <1>3, <1>4

LEMMA FindSplit ==
    ASSUME NEW d, NEW r, AtFind(d, r), FindWord
    PROVE  \E a, c, e, f, l, b, s, n :
              /\ Reached(d, r, a, c, e, f) /\ Headed(c, l, b) /\ Part(b, s, n)
              /\ FoundAs(f, c, Len(l), s)
  <1>1. Letters # {}
    BY DEF FindWord
  <1>2. PICK a, c, e, f : Reached(d, r, a, c, e, f) /\ Matches(f, c)
    BY <1>1, SearchIs
  <1>3. c \in Seq(Letter)
    BY <1>2 DEF Reached
  <1>4. PICK l, b : Headed(c, l, b)
    BY <1>3, HeadedIs
  <1>5. PICK s, i : s = UpToPeriod(b) /\ i = Len(l)
    OBVIOUS
  <1>6. b \in Seq(Letter) /\ (b = << >> \/ (Len(b) >= 1 /\ b[1] # Period))
    BY <1>4 DEF Headed
  <1>7. PICK n : Part(b, s, n)
    BY <1>5, <1>6, PartIs
  <1>8. /\ Solid(c) = {} => i = Len(c)
        /\ Solid(c) # {} => i = Min(Solid(c)) - 1
        /\ s = UpToPeriod(Behind(c, i + 1))
    BY <1>4, <1>5 DEF Headed
  <1>9. FoundAs(f, c, i, s)
    BY <1>2, <1>8, FindWordIs
  <1> QED BY <1>2, <1>4, <1>5, <1>7, <1>9

\* The word and what is cut off behind it: a period after a character to be ignored too.
Split(b, s, n, v, t) ==
    /\ v \in Seq(Char) /\ t \in Seq(Char) /\ b = v \o t /\ Len(v) \in Nat
    /\ \A i \in 1..Len(v) : v[i] \in Letter /\ (i < Len(v) => v[i] # Period)
    /\ s = << >> => v = << >> /\ t = << >>
    /\ s # << >> => v # << >> /\ Len(v) >= 1
    /\ Quoted(s) => v = Front(s) /\ Size(s) = Size(v) + 1 /\ s # << >>
    /\ ~Quoted(s) => v = s
    /\ t = << >> \/ (Len(v) >= 1 /\ v[Len(v)] = Period) \/ (Len(t) >= 1 /\ t[1] = Period)

LEMMA SplitQuoted ==
    ASSUME NEW b, NEW s, NEW n, Part(b, s, n), Quoted(s)
    PROVE  \E v, t : Split(b, s, n, v, t)
  <1>1. /\ s \in Seq(Char) /\ n \in Seq(Char) /\ b = s \o n /\ Len(s) \in Nat
        /\ \A i \in 1..Len(s) : s[i] \in Letter /\ (i < Len(s) => s[i] # Period)
    BY DEF Part
  <1>2. Len(s) > 1 /\ Last(s) = Period
    BY DEF Quoted
  <1>3. s # << >>
    BY <1>2
  <1>4. PICK v, h, t : v = Front(s) /\ h = <<Period>> /\ t = h \o n
    OBVIOUS
  <1>5. /\ v \in Seq(Char) /\ h \in Seq(Char) /\ s = v \o h
        /\ Len(v) = Len(s) - 1 /\ \A i \in 1..(Len(s) - 1) : v[i] = s[i]
    BY <1>1, <1>2, <1>3, <1>4, FrontAndLast
  <1>6. Grouped(v, h, n, s, t, b)
    BY <1>1, <1>4, <1>5, Groups
  <1>7. t \in Seq(Char) /\ b = v \o t
    BY <1>6 DEF Grouped
  <1>8. Len(t) >= 1 /\ t[1] = Period
    <2>1. InTwo(h, n, t)
      BY <1>1, <1>4, <1>5, TwoParts
    <2>2. Len(h) = 1 /\ h[1] = Period /\ 1 \in 1..1
      BY <1>4
    <2> QED BY <2>1, <2>2 DEF InTwo
  <1>9. Size(s) = Size(v) + 1
    <2>1. Size(h) = 1
      BY <1>4, SpecialIs, SizeOne
    <2> QED BY <1>5, <2>1, BytesConcat DEF Size
  <1>10. Len(v) \in Nat /\ Len(v) >= 1
    BY <1>1, <1>2, <1>5
  <1>11. v # << >>
    <2>1. Len(v) # 0
      BY <1>10
    <2>2. Len(<< >>) = 0
      OBVIOUS
    <2> QED BY <2>1, <2>2, Zenon
  <1>12. \A i \in 1..Len(v) : v[i] \in Letter /\ (i < Len(v) => v[i] # Period)
    <2>1. \A i \in 1..Len(v) : i \in 1..Len(s) /\ i < Len(s) /\ v[i] = s[i]
      BY <1>1, <1>5
    <2> QED BY <1>1, <2>1
  <1>13. Split(b, s, n, v, t)
    BY <1>3, <1>4, <1>5, <1>7, <1>8, <1>9, <1>10, <1>11, <1>12 DEF Split
  <1> QED BY <1>13

LEMMA SplitIs ==
    ASSUME NEW b, NEW s, NEW n, Part(b, s, n)
    PROVE  \E v, t : Split(b, s, n, v, t)
  <1>1. CASE Quoted(s)
    BY <1>1, SplitQuoted
  <1>2. CASE ~Quoted(s)
    <2>1. /\ s \in Seq(Char) /\ n \in Seq(Char) /\ b = s \o n /\ Len(s) \in Nat
          /\ \A i \in 1..Len(s) : s[i] \in Letter /\ (i < Len(s) => s[i] # Period)
          /\ s # << >> => Len(s) >= 1
      BY DEF Part
    <2>2. s = << >> => n = << >>
      <3>1. SUFFICES ASSUME s = << >> PROVE n = << >>
        OBVIOUS
      <3>2. b = << >>
        BY <3>1 DEF Part
      <3>3. Len(b) = Len(s) + Len(n) /\ Len(b) = 0 /\ Len(s) = 0 /\ Len(n) \in Nat
        BY <2>1, <3>1, <3>2
      <3>4. Len(n) = 0
        BY <3>3
      <3> QED BY <2>1, <3>4
    <2>3. n = << >> \/ (Len(s) >= 1 /\ s[Len(s)] = Period)
      <3>1. n = << >> \/ s[Len(s)] = Period
        BY DEF Part
      <3> QED BY <2>1, <2>2, <3>1
    <2>4. Split(b, s, n, s, n)
      BY <1>2, <2>1, <2>2, <2>3 DEF Split
    <2> QED BY <2>4
  <1> QED BY <1>1, <1>2

\* A word that belongs to what is ignored up to the next separator or period consists of
\* ignored characters itself: if a period follows these, it is no part of the word.
LEMMA SplitIgnored ==
    ASSUME NEW b, NEW s, NEW n, Part(b, s, n), NEW v, NEW t, Split(b, s, n, v, t),
           NEW e \in Seq(Char), NEW r, r = b \o e, RightClean(r)
    PROVE  \A i \in 1..Len(v) : v[i] \in Ignored
  <1>1. /\ v \in Seq(Char) /\ t \in Seq(Char) /\ b = v \o t /\ Len(v) \in Nat
        /\ \A i \in 1..Len(v) : v[i] \in Letter /\ (i < Len(v) => v[i] # Period)
    BY DEF Split
  <1>2. \A i \in 1..Len(v) : r[i] = v[i] /\ i \in 1..Len(r)
    <2>1. PICK g : g = t \o e
      OBVIOUS
    <2>2. Grouped(v, t, e, b, g, r)
      BY <1>1, <2>1, Groups
    <2>3. g \in Seq(Char) /\ r = v \o g
      BY <2>2 DEF Grouped
    <2>4. InTwo(v, g, r)
      BY <1>1, <2>3, TwoParts
    <2> QED BY <2>4 DEF InTwo
  <1>3. \A c \in Letter : c # Period => c \notin Bounds
    BY DEF Letter, Bounds
  <1>4. ASSUME NEW i \in 1..Len(v), \A k \in 1..i : v[k] # Period
        PROVE  v[i] \in Ignored
    <2>1. \A k \in 1..i : k \in 1..Len(v) /\ r[k] \notin Bounds
      BY <1>1, <1>2, <1>3, <1>4
    <2>2. i \in 1..Len(r) /\ r[i] = v[i]
      BY <1>2
    <2> QED BY <2>1, <2>2 DEF RightClean
  <1>5. \A k \in 1..Len(v) : v[k] # Period
    <2>1. CASE Quoted(s)
      <3>1. v = Front(s) /\ s \in Seq(Char) /\ s # << >>
        BY <2>1 DEF Split, Part
      <3>2. /\ Len(v) = Len(s) - 1 /\ Len(s) \in Nat
            /\ \A i \in 1..(Len(s) - 1) : v[i] = s[i]
        BY <3>1, FrontAndLast
      <3>3. \A i \in 1..Len(s) : i < Len(s) => s[i] # Period
        BY DEF Part
      <3>4. \A i \in 1..Len(v) : i \in 1..Len(s) /\ i < Len(s) /\ i \in 1..(Len(s) - 1)
        BY <3>2
      <3> QED BY <3>2, <3>3, <3>4
    <2>2. CASE ~Quoted(s)
      <3>1. v = s
        BY <2>2 DEF Split
      <3>2. SUFFICES ASSUME Len(v) >= 1, v[Len(v)] = Period PROVE FALSE
        <4>1. \A k \in 1..Len(v) : k < Len(v) \/ (k = Len(v) /\ Len(v) >= 1)
          BY <1>1
        <4> QED BY <1>1, <3>2, <4>1
      <3>3. v[1] # Period /\ v # << >>
        <4>1. v # << >>
          BY <3>2
        <4> QED BY <3>1, <4>1 DEF Part
      <3>4. Len(v) > 1
        BY <1>1, <3>2, <3>3
      <3>5. PICK i : i = Len(v) - 1
        OBVIOUS
      <3>6. i \in 1..Len(v) /\ \A k \in 1..i : k \in 1..Len(v) /\ k < Len(v)
        BY <1>1, <3>4, <3>5
      <3>7. v[i] \in Ignored
        BY <1>1, <1>4, <3>6
      <3>8. Last(v) = Period
        BY <1>1, <3>2, <3>3, FrontAndLast
      <3>9. Quoted(v)
        BY <3>4, <3>5, <3>7, <3>8 DEF Quoted
      <3> QED BY <2>2, <3>1, <3>9
    <2> QED BY <2>1, <2>2
  <1>6. \A i \in 1..Len(v) : \A k \in 1..i : k \in 1..Len(v)
    BY <1>1
  <1> QED BY <1>4, <1>5, <1>6

LEMMA EndsAs ==
    ASSUME NEW p \in Seq(Char), NEW q \in Seq(Char), q # << >>, NEW y, y = p \o q
    PROVE  y \in Seq(Char) /\ Len(y) >= 1 /\ y[Len(y)] = q[Len(q)] /\ Len(q) \in 1..Len(q)
  <1>1. Len(q) \in Nat /\ Len(q) >= 1
    BY FrontAndLast
  <1>2. InTwo(p, q, y)
    BY TwoParts
  <1>3. PICK m, n : m = Len(p) /\ n = Len(q)
    OBVIOUS
  <1>4. /\ y \in Seq(Char) /\ m \in Nat /\ n \in Nat /\ Len(y) = m + n
        /\ \A k \in 1..n : y[m + k] = q[k]
    BY <1>2, <1>3 DEF InTwo
  <1>5. n \in 1..n
    BY <1>1, <1>3, <1>4
  <1> QED BY <1>1, <1>3, <1>4, <1>5

LEMMA EmptyEnd ==
    ASSUME NEW p \in Seq(Char)
    PROVE  p \o << >> = p /\ << >> \o p = p
  OBVIOUS

LEMMA FoundClean ==
    ASSUME mode = "macronize", NEW d, NEW r, Remains(d, r), Clean(d, r),
           NEW a, NEW c, NEW e, NEW f, Reached(d, r, a, c, e, f),
           NEW l, NEW b, Headed(c, l, b), NEW s, NEW n, Part(b, s, n),
           NEW v, NEW t, Split(b, s, n, v, t)
    PROVE  Ready(f, e, l, v, t)
  <1>1. /\ a \in Seq(Separators) /\ a \in Seq(Char) /\ c \in Seq(Char)
        /\ e \in Seq(Char)
    BY DEF Reached
  <1>2. d \in Seq(Char) /\ r \in Seq(Char)
    BY DEF Remains
  <1>3. /\ l \in Seq(Char) /\ b \in Seq(Char) /\ c = l \o b /\ Len(l) \in Nat
        /\ \A i \in 1..Len(l) : l[i] = Period
    BY DEF Headed
  <1>4. /\ v \in Seq(Char) /\ t \in Seq(Char)
        /\ t = << >> \/ (Len(v) >= 1 /\ v[Len(v)] = Period) \/ (Len(t) >= 1 /\ t[1] = Period)
    BY DEF Split
  <1>5. /\ Period \in Bounds /\ Separators \subseteq Bounds
    BY SpecialIs
  <1>6. PICK u, g, y : u = RemFlags(d) /\ g = RemFlags(f) /\ y = g \o l
    OBVIOUS
  <1>7. u \in Seq(Char)
    BY <1>2, <1>6, RemFlagsIs
  <1>8. g = u \o a /\ g \in Seq(Char)
    <2>1. Took(d, a, c \o e, f, r)
      BY DEF Reached
    <2>2. g = u \o a
      BY <1>6, <2>1 DEF Took
    <2> QED BY <1>1, <1>7, <2>2, BytesConcat
  <1>11. /\ e = << >> \/ (Len(e) >= 1 /\ e[1] \in Separators)
         /\ r = a \o (c \o e)
    BY DEF Reached
  <1>12. PICK z : z = c \o e
    OBVIOUS
  <1>13. z \in Seq(Char) /\ r = a \o z
    <2>1. c \in Seq(Char) /\ e \in Seq(Char)
      BY <1>1
    <2> QED BY <1>11, <1>12, <2>1, BytesConcat
  <1>9. LeftClean(y) \/ \A i \in 1..Len(v) : v[i] \in Ignored
    <2>1. CASE l # << >>
      <3>1. y \in Seq(Char) /\ Len(y) >= 1 /\ y[Len(y)] = l[Len(l)] /\ Len(l) \in 1..Len(l)
        BY <1>3, <1>6, <1>8, <2>1, EndsAs
      <3>2. y[Len(y)] \in Bounds
        BY <1>3, <1>5, <3>1
      <3> QED BY <3>1, <3>2, LeftBound
    <2>2. CASE l = << >>
      <3>1. y = g /\ c = b
        BY <1>3, <1>6, <1>8, <2>2, EmptyEnd
      <3>2. CASE a # << >>
        <4>1. g \in Seq(Char) /\ Len(g) >= 1 /\ g[Len(g)] = a[Len(a)] /\ Len(a) \in 1..Len(a)
          BY <1>1, <1>7, <1>8, <3>2, EndsAs
        <4>2. g[Len(g)] \in Bounds
          BY <1>1, <1>5, <4>1
        <4> QED BY <3>1, <4>1, <4>2, LeftBound
      <3>3. CASE a = << >>
        <4>1. g = u
          BY <1>7, <1>8, <3>3, EmptyEnd
        <4>2. r = b \o e
          <5>1. r = z
            BY <1>13, <3>3, EmptyEnd
          <5> QED BY <1>12, <3>1, <5>1
        <4>3. LeftClean(u) \/ RightClean(r)
          BY <1>6 DEF Clean
        <4>4. CASE RightClean(r)
          <5>1. e \in Seq(Char)
            BY <1>1
          <5>2. \A i \in 1..Len(v) : v[i] \in Ignored
            BY <4>2, <4>4, <5>1, SplitIgnored
          <5> QED BY <5>2
        <4> QED BY <3>1, <4>1, <4>3, <4>4
      <3> QED BY <3>2, <3>3
    <2> QED BY <2>1, <2>2
  <1>10. RightClean(t \o e) \/ v[Len(v)] = Period
    <2>1. CASE t = << >>
      <3>1. t \o e = e
        BY <1>1, <2>1, EmptyEnd
      <3>2. e = << >> \/ e[1] \in Bounds
        BY <1>5, <1>11
      <3>3. RightClean(e)
        BY <1>1, <3>2, RightBound
      <3> QED BY <3>1, <3>3
    <2>2. CASE Len(t) >= 1 /\ t[1] = Period
      <3>1. PICK k : k = t \o e
        OBVIOUS
      <3>2. InTwo(t, e, k)
        BY <1>1, <1>4, <3>1, TwoParts
      <3>3. Len(t) \in Nat /\ k \in Seq(Char) /\ \A i \in 1..Len(t) : k[i] = t[i]
        BY <3>2 DEF InTwo
      <3>4. k[1] \in Bounds
        BY <1>5, <2>2, <3>3
      <3>5. RightClean(k)
        BY <3>3, <3>4, RightBound
      <3> QED BY <3>1, <3>5
    <2> QED BY <1>4, <2>1, <2>2
  <1> QED BY <1>6, <1>9, <1>10 DEF Ready

\* Where ignorechars looks first.
LEMMA FoundTidy ==
    ASSUME NEW c, NEW e \in Seq(Char), e = << >> \/ (Len(e) >= 1 /\ e[1] \in Separators),
           NEW q, q = c \o e, Tidy(q),
           NEW l, NEW b, Headed(c, l, b), NEW s, NEW n, NEW v, NEW t, Split(b, s, n, v, t),
           Len(v) > 2, v[Len(v)] \in Ignored
    PROVE  v[Len(v) - 2] \notin Ignored
  <1>1. /\ l \in Seq(Char) /\ b \in Seq(Char) /\ c = l \o b
    BY DEF Headed
  <1>2. /\ v \in Seq(Char) /\ t \in Seq(Char) /\ b = v \o t /\ Len(v) \in Nat
        /\ \A i \in 1..Len(v) : v[i] \in Letter /\ (i < Len(v) => v[i] # Period)
        /\ t = << >> \/ (Len(v) >= 1 /\ v[Len(v)] = Period) \/ (Len(t) >= 1 /\ t[1] = Period)
    BY DEF Split
  <1>3. /\ Period \in Bounds /\ Separators \subseteq Bounds /\ Period \notin Ignored
    BY SpecialIs
  <1>4. PICK g, h, k, o, m : g = t \o e /\ h = l \o v /\ k = h \o t /\ o = v \o g /\ m = h \o g
    OBVIOUS
  <1>5. k = c /\ c \in Seq(Char)
    <2>1. Grouped(l, v, t, h, b, c)
      BY <1>1, <1>2, <1>4, Groups
    <2> QED BY <1>4, <2>1 DEF Grouped
  <1>6. h \in Seq(Char) /\ g \in Seq(Char)
    BY <1>1, <1>2, <1>4, BytesConcat
  <1>7. q = h \o g
    <2>1. q = k \o e
      BY <1>5
    <2>2. Grouped(h, t, e, k, g, q)
      BY <1>2, <1>4, <1>6, <2>1, Groups
    <2> QED BY <2>2 DEF Grouped
  <1>8. InTwo(l, v, h) /\ InTwo(h, g, q)
    BY <1>1, <1>2, <1>4, <1>6, <1>7, TwoParts
  <1>9. PICK i, z, j : i = Len(l) /\ z = Len(v) /\ j = i + z
    OBVIOUS
  <1>10. /\ i \in Nat /\ z \in Nat /\ Len(h) = j
         /\ \A p \in 1..z : h[i + p] = v[p]
    BY <1>8, <1>9 DEF InTwo
  <1>11. /\ j \in Nat /\ Len(g) \in Nat /\ Len(q) = j + Len(g)
         /\ \A p \in 1..j : q[p] = h[p]
         /\ \A p \in 1..Len(g) : q[j + p] = g[p]
    BY <1>8, <1>9, <1>10 DEF InTwo
  <1>12. \A p \in 1..z : q[i + p] = v[p]
    <2>1. \A p \in 1..z : i + p \in 1..j
      BY <1>9, <1>10
    <2> QED BY <1>10, <1>11, <2>1
  <1>13. z > 2 /\ z - 1 \in 1..z /\ z - 2 \in 1..z /\ z \in 1..z /\ z - 1 < z
    BY <1>9, <1>10
  <1>14. q[j] = v[z] /\ q[j - 1] = v[z - 1] /\ q[j - 2] = v[z - 2]
    <2>1. j = i + z /\ j - 1 = i + (z - 1) /\ j - 2 = i + (z - 2)
      BY <1>9, <1>10
    <2> QED BY <1>12, <1>13, <2>1
  <1>15. v[z] \in Ignored /\ v[z - 1] \notin Bounds
    <2>1. v[z - 1] \in Letter /\ v[z - 1] # Period
      BY <1>2, <1>9, <1>13
    <2> QED BY <1>9, <2>1 DEF Letter, Bounds
  <1>16. j = Len(q) \/ q[j + 1] \in Bounds
    <2>1. g = << >> \/ (Len(g) >= 1 /\ g[1] \in Bounds)
      <3>1. CASE t = << >>
        <4>1. g = e
          BY <1>4, <3>1, EmptyEnd
        <4> QED BY <1>3, <4>1
      <3>2. CASE Len(t) >= 1 /\ t[1] = Period
        <4>1. InTwo(t, e, g)
          BY <1>2, <1>4, TwoParts
        <4>2. /\ Len(t) \in Nat /\ Len(e) \in Nat /\ Len(g) = Len(t) + Len(e)
              /\ \A p \in 1..Len(t) : g[p] = t[p]
          BY <4>1 DEF InTwo
        <4> QED BY <1>3, <3>2, <4>2
      <3>3. v[Len(v)] # Period
        BY <1>3
      <3> QED BY <1>2, <3>1, <3>2, <3>3
    <2>2. CASE g = << >>
      <3>1. Len(g) = 0
        BY <2>2
      <3> QED BY <1>11, <3>1
    <2>3. CASE Len(g) >= 1 /\ g[1] \in Bounds
      <3>1. Len(g) \in Nat /\ 1 \in 1..Len(g)
        BY <1>11, <2>3
      <3>2. q[j + 1] = g[1]
        BY <1>11, <3>1
      <3> QED BY <2>3, <3>2
    <2> QED BY <2>1, <2>2, <2>3
  <1>17. j \in 3..Len(q)
    <2>1. i \in Nat /\ z \in Nat /\ z > 2 /\ j = i + z
      BY <1>9, <1>10, <1>13
    <2>2. j \in Nat /\ Len(g) \in Nat /\ Len(q) = j + Len(g)
      BY <1>11
    <2> QED BY <2>1, <2>2
  <1>18. q[j - 2] \notin Ignored
    BY <1>14, <1>15, <1>16, <1>17 DEF Tidy
  <1> QED BY <1>9, <1>14, <1>18

LEMMA FoundThere ==
    ASSUME NEW d, NEW r, NEW a, NEW c, NEW e, NEW f, Reached(d, r, a, c, e, f),
           FindKeeps, wstart' = Size(f) + 1, wend' = Size(f) + Size(c),
           NEW l, NEW v, NEW t, Sliced(c, l, v, t)
    PROVE  Found(f, c, e, l, v, t)'
  <1>1. Start' = Start
    BY StartStays DEF FindKeeps
  <1>2. Remains(f, c \o e)'
    <2>1. Took(d, a, c \o e, f, r)
      BY DEF Reached
    <2>2. Remains(f, c \o e)
      BY <2>1 DEF Took
    <2> QED BY <1>1, <2>2 DEF Remains, FindKeeps
  <1>3. /\ c \in Seq(Char) /\ e \in Seq(Char) /\ text' = Bytes(f \o (c \o e))
        /\ e = << >> \/ (Len(e) >= 1 /\ e[1] \in Separators)
    BY DEF Reached, FindKeeps
  <1>4. from' \in Int /\ from' <= wstart'
    BY DEF Reached, FindKeeps
  <1> QED BY <1>2, <1>3, <1>4 DEF Found, Sliced, Size

LEMMA FindStep ==
    ASSUME NEW d, NEW r, AtFind(d, r), FindWord
    PROVE  \E x, m, q : Trimmed(x, m, q)
  <1>1. PICK a, c, e, f, l, b, s, n :
              /\ Reached(d, r, a, c, e, f) /\ Headed(c, l, b) /\ Part(b, s, n)
              /\ FoundAs(f, c, Len(l), s)
    BY FindSplit
  <1>2. PICK v, t : Split(b, s, n, v, t)
    BY <1>1, SplitIs
  <1>3. /\ FindKeeps /\ mode' = mode
        /\ wstart' = Size(f) + 1 /\ wend' = Size(f) + Size(c)
        /\ newstart' = Size(f) + 1 + Len(l) /\ posright' = Len(w')
        /\ pc' = IF s = << >> THEN "word" ELSE "trim"
    BY <1>1 DEF FoundAs, FindKeeps
  <1>4. /\ l \in Seq(Char) /\ b \in Seq(Char) /\ c = l \o b /\ Len(l) \in Nat
        /\ Size(l) = Len(l)
    BY <1>1 DEF Headed
  <1>5. v \in Seq(Char) /\ t \in Seq(Char) /\ b = v \o t /\ Len(v) \in Nat
    BY <1>2 DEF Split
  <1>6. Sliced(c, l, v, t)
    <2>1. PICK h : h = l \o v
      OBVIOUS
    <2>2. Grouped(l, v, t, h, b, c)
      BY <1>4, <1>5, <2>1, Groups
    <2> QED BY <1>4, <1>5, <2>1, <2>2 DEF Sliced, Grouped
  <1>7. Found(f, c, e, l, v, t)'
    BY <1>1, <1>3, <1>6, FoundThere
  <1>8. /\ Size(f) \in Nat /\ c # << >> /\ e \in Seq(Char)
    BY <1>1 DEF Reached
  <1>9. Size(v) \in Nat /\ newstart' = Size(f) + Size(l) + 1
    <2>1. Size(v) \in Nat
      BY <1>5, BytesEmpty DEF Size
    <2> QED BY <1>3, <1>4, <1>8, <2>1
  <1>10. mode = "macronize" => Ready(f, e, l, v, t)
    <2>1. Remains(d, r) /\ Clean(d, r)
      BY DEF AtFind
    <2> QED BY <1>1, <1>2, <2>1, FoundClean
  <1>11. Ready(f, e, l, v, t)
    BY <1>10 DEF Ready
  <1>12. CASE s = << >>
    <2>1. Empty(v) /\ t = << >> /\ pc' = "word"
      BY <1>2, <1>3, <1>12 DEF Split, Empty
    <2>2. b = << >> /\ Solid(c) = {}
      BY <1>1, <1>12 DEF Part, Headed
    <2>3. c = l /\ l # << >>
      BY <1>4, <1>8, <2>2, EmptyEnd
    <2>4. ~Quoted(s) /\ v = s
      <3>1. Len(s) = 0
        BY <1>12
      <3>2. ~Quoted(s)
        BY <3>1 DEF Quoted
      <3> QED BY <1>2, <3>2 DEF Split
    <2>5. w' = v /\ newend' = wend' + 1
      <3>1. w' = v
        BY <1>1, <2>4 DEF FoundAs
      <3>2. newend' = Size(f) + 1 + Len(l)
        BY <1>1, <2>2, <2>4 DEF FoundAs
      <3>3. wend' = Size(f) + Len(l)
        BY <1>3, <1>4, <2>3
      <3> QED BY <1>4, <1>8, <3>1, <3>2, <3>3
    <2>6. AtWord(f, c, e, l, v, t)'
      <3>1. v = << >>
        BY <2>1 DEF Empty
      <3>2. /\ w' = v /\ (newstart = Size(f) + Size(l) + 1)'
            /\ v = << >> /\ t = << >> /\ l # << >> /\ newend' = wend' + 1 /\ pc' = "word"
        BY <1>9, <2>1, <2>3, <2>5, <3>1 DEF Size
      <3>3. (mode = "macronize" =>
              /\ LeftClean(RemFlags(f) \o l) \/ \A i \in 1..Len(v) : v[i] \in Ignored
              /\ RightClean(t \o e) \/ v[Len(v)] = Period)'
        BY <1>3, <1>11 DEF Ready
      <3> QED BY <1>7, <3>2, <3>3 DEF AtWord
    <2> QED BY <2>1, <2>6 DEF Trimmed
  <1>13. CASE s # << >>
    <2>1. v # << >> /\ Len(v) >= 1 /\ pc' = "trim"
      BY <1>2, <1>3, <1>13 DEF Split
    <2>2. Solid(c) # {}
      BY <1>1, <1>13 DEF Part, Headed
    <2>3. PICK end : /\ end = Size(f) + 1 + Len(l) + Size(s) - 1
                     /\ Quoted(s) => newend' = end - 1
                     /\ ~Quoted(s) => newend' = end
      BY <1>1, <2>2 DEF FoundAs
    <2>4. w' = v
      BY <1>1, <1>2 DEF FoundAs, Split
    <2>5. newend' = Size(f) + Size(l) + Size(v)
      <3>1. CASE Quoted(s)
        <4>1. Size(s) = Size(v) + 1 /\ newend' = end - 1
          BY <1>2, <2>3, <3>1 DEF Split
        <4>2. PICK i, j, o : i = Size(l) /\ j = Size(v) /\ o = Size(f)
          OBVIOUS
        <4>3. i \in Nat /\ j \in Nat /\ o \in Nat
          BY <1>4, <1>8, <1>9, <4>2
        <4>4. (o + 1 + i + (j + 1) - 1) - 1 = o + i + j
          BY <4>3
        <4>5. end = o + 1 + i + (j + 1) - 1 /\ newend' = end - 1
          BY <1>4, <2>3, <4>1, <4>2
        <4> QED BY <4>2, <4>4, <4>5
      <3>2. CASE ~Quoted(s)
        <4>1. s = v /\ newend' = end
          BY <1>2, <2>3, <3>2 DEF Split
        <4> QED BY <1>4, <1>8, <1>9, <2>3, <4>1
      <3> QED BY <3>1, <3>2
    <2>6. AtWord(f, c, e, l, v, t)'
      BY <1>3, <1>7, <1>9, <1>11, <2>1, <2>4, <2>5, StillWord
    <2>7. posright' = Len(w') /\ w' = v
      BY <1>3, <2>4
    <2>8. Len(v) > 2 /\ v[Len(v)] \in Ignored => v[Len(v) - 2] \notin Ignored
      <3>1. Took(d, a, c \o e, f, r) /\ (e = << >> \/ (Len(e) >= 1 /\ e[1] \in Separators))
        BY <1>1 DEF Reached
      <3>2. Tidy(c \o e)
        BY <3>1 DEF Took, Remains
      <3> QED BY <1>1, <1>2, <1>8, <3>1, <3>2, FoundTidy
    <2>9. AtEnd'
      <3>1. Len(v) \in Nat /\ Len(v) >= 1
        BY <1>5, <2>1
      <3> QED BY <2>7, <2>8, <3>1 DEF AtEnd
    <2> QED BY <2>1, <2>6, <2>9 DEF Trimmed
  <1> QED BY <1>12, <1>13
----------------------------------------------------------------------------
\* Every round of the scan leaves less of the text before it.

Nearer(q, m, r) ==
    Size(q) \in Nat /\ Size(m) \in Nat /\ Size(r) \in Nat /\ Size(q) < Size(m) + Size(r)

LEMMA RestLess ==
    ASSUME NEW x, NEW m, NEW r, NEW l, NEW v, NEW t, Found(x, m, r, l, v, t),
           NEW d, NEW q, AtFind(d, q)', Nearer(q, m, r)
    PROVE  Rest' < Rest
  <1>1. /\ x \in Seq(Char) /\ m \in Seq(Char) /\ r \in Seq(Char)
        /\ text = Bytes(x \o (m \o r)) /\ wstart = Size(x) + 1 /\ Size(x) \in Nat
    BY FoundIs
  <1>2. Len(text) = Size(x) + (Size(m) + Size(r))
    <2>1. m \o r \in Seq(Char) /\ Size(m \o r) = Size(m) + Size(r)
      BY <1>1, BytesConcat DEF Size
    <2>2. Size(x \o (m \o r)) = Size(x) + Size(m \o r)
      BY <1>1, <2>1, BytesConcat DEF Size
    <2> QED BY <1>1, <2>1, <2>2 DEF Size
  <1>3. from \in Int /\ from <= wstart
    BY DEF Found
  <1>4. Rest >= Size(m) + Size(r) - 1 /\ Rest \in Int
    BY <1>1, <1>2, <1>3 DEF Rest, Nearer
  <1>5. /\ d \in Seq(Char) /\ q \in Seq(Char) /\ text' = Bytes(d \o q)
        /\ from' = Size(d) + 1 \/ from' = Size(d) + 2
    BY DEF AtFind, Remains, Size
  <1>6. Len(text') = Size(d) + Size(q) /\ Size(d) \in Nat /\ Size(q) \in Nat
    <2>1. Size(d \o q) = Size(d) + Size(q)
      BY <1>5, BytesConcat DEF Size
    <2>2. Size(d) \in Nat /\ Size(q) \in Nat
      BY <1>5, BytesEmpty DEF Size
    <2> QED BY <1>5, <2>1, <2>2 DEF Size
  <1>7. Rest' = Len(text') - from'
    BY DEF Rest
  <1>8. Rest' <= Size(q) - 1 /\ Rest' \in Int
    BY <1>5, <1>6, <1>7
  <1> QED BY <1>4, <1>8 DEF Nearer

\* The match is not empty, and what is left begins behind it, or behind its word.
LEMMA NearerRest ==
    ASSUME NEW x, NEW m, NEW r, NEW l, NEW v, NEW t, Found(x, m, r, l, v, t),
           l # << >> \/ v # << >>
    PROVE  Nearer(r, m, r) /\ \A c, q : Opened(r, c, q) => Nearer(q, m, r)
  <1>1. /\ l \in Seq(Char) /\ v \in Seq(Char) /\ t \in Seq(Char) /\ r \in Seq(Char)
        /\ m = (l \o v) \o t
    BY DEF Found
  <1>2. /\ Size(l) \in Nat /\ Size(v) \in Nat /\ Size(t) \in Nat /\ Size(r) \in Nat
        /\ l # << >> => Size(l) # 0
        /\ v # << >> => Size(v) # 0
    BY <1>1, BytesEmpty DEF Size
  <1>3. Size(m) = Size(l) + Size(v) + Size(t)
    <2>1. l \o v \in Seq(Char) /\ Size(l \o v) = Size(l) + Size(v)
      BY <1>1, BytesConcat DEF Size
    <2>2. Size((l \o v) \o t) = Size(l \o v) + Size(t)
      BY <1>1, <2>1, BytesConcat DEF Size
    <2> QED BY <1>1, <2>1, <2>2
  <1>4. Size(m) \in Nat /\ Size(m) >= 1
    BY <1>2, <1>3
  <1>5. Nearer(r, m, r)
    BY <1>2, <1>4 DEF Nearer
  <1>6. ASSUME NEW c, NEW q, Opened(r, c, q) PROVE Nearer(q, m, r)
    <2>1. Size(q) \in Nat /\ Size(q) < Size(r)
      BY <1>6 DEF Opened
    <2> QED BY <1>2, <1>4, <2>1 DEF Nearer
  <1> QED BY <1>5, <1>6

LEMMA NearerWord ==
    ASSUME NEW x, NEW m, NEW r, NEW l, NEW v, NEW t, Found(x, m, r, l, v, t), v # << >>,
           NEW b, b = t \o r
    PROVE  Nearer(b, m, r)
  <1>1. /\ l \in Seq(Char) /\ v \in Seq(Char) /\ t \in Seq(Char) /\ r \in Seq(Char)
        /\ m = (l \o v) \o t
    BY DEF Found
  <1>2. /\ Size(l) \in Nat /\ Size(v) \in Nat /\ Size(t) \in Nat /\ Size(r) \in Nat
        /\ Size(v) # 0
    BY <1>1, BytesEmpty DEF Size
  <1>3. Size(m) = Size(l) + Size(v) + Size(t)
    <2>1. l \o v \in Seq(Char) /\ Size(l \o v) = Size(l) + Size(v)
      BY <1>1, BytesConcat DEF Size
    <2>2. Size((l \o v) \o t) = Size(l \o v) + Size(t)
      BY <1>1, <2>1, BytesConcat DEF Size
    <2> QED BY <1>1, <2>1, <2>2
  <1>4. Size(b) = Size(t) + Size(r)
    BY <1>1, BytesConcat DEF Size
  <1> QED BY <1>2, <1>3, <1>4 DEF Nearer

LEMMA WordFound ==
    ASSUME NEW x, NEW m, NEW r, NEW l, NEW v, NEW t, AtWord(x, m, r, l, v, t)
    PROVE  /\ Found(x, m, r, l, v, t) /\ w = v
           /\ l # << >> \/ v # << >>
  <1>1. Found(x, m, r, l, v, t)
    BY DEF AtWord
  <1>2. w = v
    BY DEF AtWord
  <1>3. l # << >> \/ v # << >>
    BY DEF AtWord
  <1> QED BY <1>1, <1>2, <1>3

\* A round has ended: the next word is looked for in less text.
RoundEnds == (\E d, q : AtFind(d, q)') /\ Rest' < Rest

LEMMA SkipEnds ==
    ASSUME ScanInv, Tidy(Start), SkipWord
    PROVE  RoundEnds
  <1>1. mode = "learn"
    BY DEF SkipWord
  <1>2. \E x, m, r, l, v, t : Found(x, m, r, l, v, t) /\ (l # << >> \/ v # << >>)
    <2>1. CASE pc = "nothing"
      <3>1. PICK x, m, r, l, v, t : AtNothing(x, m, r, l, v, t)
        BY <2>1 DEF ScanInv
      <3>2. Found(x, m, r, l, v, t) /\ v # << >>
        BY <3>1 DEF AtNothing
      <3> QED BY <3>2
    <2>2. CASE pc = "word"
      <3>1. PICK x, m, r, l, v, t : AtWord(x, m, r, l, v, t)
        BY <2>2 DEF ScanInv
      <3> QED BY <3>1, WordFound
    <2>3. pc = "nothing" \/ pc = "word"
      BY DEF SkipWord
    <2> QED BY <2>1, <2>2, <2>3
  <1>3. PICK x, m, r, l, v, t : Found(x, m, r, l, v, t) /\ (l # << >> \/ v # << >>)
    BY <1>2
  <1>4. AtFind(x, r)'
    BY <1>1, <1>3, SkipStep
  <1>5. Nearer(r, m, r)
    BY <1>3, NearerRest
  <1> QED BY <1>3, <1>4, <1>5, RestLess DEF RoundEnds

LEMMA LearnEnds ==
    ASSUME ScanInv, Tidy(Start), LearnWord
    PROVE  RoundEnds
  <1>1. mode = "learn" /\ pc = "word"
    BY DEF LearnWord
  <1>2. PICK x, m, r, l, v, t : AtWord(x, m, r, l, v, t)
    BY <1>1 DEF ScanInv
  <1>3. Found(x, m, r, l, v, t) /\ (l # << >> \/ v # << >>)
    BY <1>2, WordFound
  <1>4. CASE v # << >>
    <2>1. PICK d : AtFind(d, r)'
      BY <1>1, <1>2, <1>4, LearnStep
    <2>2. Nearer(r, m, r)
      BY <1>3, NearerRest
    <2> QED BY <1>3, <2>1, <2>2, RestLess DEF RoundEnds
  <1>5. CASE Empty(v)
    <2>1. PICK d, q : AtFind(d, q)' /\ (q = r \/ \E c : Opened(r, c, q))
      BY <1>1, <1>2, <1>5, LearnEmpty
    <2>2. Nearer(q, m, r)
      BY <1>3, <2>1, NearerRest
    <2> QED BY <1>3, <2>1, <2>2, RestLess DEF RoundEnds
  <1> QED BY <1>4, <1>5 DEF Empty

LEMMA MacronizeEnds ==
    ASSUME KeySpelled, ScanInv, Tidy(Start), MacronizeWord
    PROVE  RoundEnds
  <1>1. mode = "macronize" /\ pc = "word" /\ w # << >>
    BY DEF MacronizeWord
  <1>2. PICK x, m, r, l, v, t : AtWord(x, m, r, l, v, t)
    BY <1>1 DEF ScanInv
  <1>3. Found(x, m, r, l, v, t) /\ v # << >>
    BY <1>1, <1>2, WordFound
  <1>4. PICK d, b : b = t \o r /\ AtFind(d, b)'
    BY <1>1, <1>2, MacronizeStep
  <1>5. Nearer(b, m, r)
    BY <1>3, <1>4, NearerWord
  <1> QED BY <1>3, <1>4, <1>5, RestLess DEF RoundEnds

LEMMA PassEnds ==
    ASSUME ScanInv, Tidy(Start), PassOver
    PROVE  RoundEnds
  <1>1. mode = "macronize" /\ (pc = "nothing" \/ (pc = "word" /\ w = << >>))
    BY DEF PassOver
  <1>2. CASE pc = "nothing"
    <2>1. PICK x, m, r, l, v, t : AtNothing(x, m, r, l, v, t)
      BY <1>2 DEF ScanInv
    <2>2. Found(x, m, r, l, v, t) /\ v # << >>
      BY <2>1 DEF AtNothing
    <2>3. PICK d, b : b = t \o r /\ AtFind(d, b)'
      BY <1>1, <2>1, PassNothing
    <2>4. Nearer(b, m, r)
      BY <2>2, <2>3, NearerWord
    <2> QED BY <2>2, <2>3, <2>4, RestLess DEF RoundEnds
  <1>3. CASE pc = "word" /\ w = << >>
    <2>1. PICK x, m, r, l, v, t : AtWord(x, m, r, l, v, t)
      BY <1>3 DEF ScanInv
    <2>2. Found(x, m, r, l, v, t) /\ (l # << >> \/ v # << >>)
      BY <2>1, WordFound
    <2>3. Empty(v)
      BY <1>3, <2>1, WordFound DEF Empty
    <2>4. PICK d, q : AtFind(d, q)' /\ (q = r \/ \E c : Opened(r, c, q))
      BY <1>1, <2>1, <2>3, PassEmpty
    <2>5. Nearer(q, m, r)
      BY <2>2, <2>4, NearerRest
    <2> QED BY <2>2, <2>4, <2>5, RestLess DEF RoundEnds
  <1> QED BY <1>1, <1>2, <1>3
----------------------------------------------------------------------------
\* The invariant holds.

\* Before a text that nothing has been done to yet.
LEMMA AtStart ==
    ASSUME NEW z \in Seq(Char), Tidy(z),
           mode = "macronize" => z \in Seq(Flagless) /\ MarkedFrom(z, Start)
    PROVE  Remains(<< >>, z) /\ Clean(<< >>, z)
  <1>1. RemFlags(<< >>) = << >> /\ LeftClean(<< >>)
    BY RemFlagsIs, CleanEmpty
  <1>2. << >> \o z = z
    BY EmptyEnd
  <1>3. << >> \in Seq(Char)
    OBVIOUS
  <1>4. Remains(<< >>, z)
    BY <1>1, <1>2, <1>3 DEF Remains
  <1> QED BY <1>1, <1>4 DEF Clean

LEMMA SizeEmpty ==
    Size(<< >>) + 1 = 1
  BY BytesSmall DEF Size

LEMMA AgainStep ==
    ASSUME ScanInv, Tidy(Start), RunAgain
    PROVE  \E d, q : AtFind(d, q)'
  <1>1. /\ mode = "macronize" /\ pc = "done" /\ mode' = mode /\ source' = source
        /\ text' = Bytes(Prepared(Chars(text))) /\ from' = 1
    BY DEF RunAgain
  <1>2. PICK d, r : AtFind(d, r)
    BY <1>1 DEF ScanInv
  <1>3. PICK y, u, z : y = d \o r /\ u = RemFlags(d) /\ z = u \o r
    OBVIOUS
  <1>4. /\ d \in Seq(Char) /\ r \in Seq(Char) /\ r \in Seq(Flagless)
        /\ MarkedFrom(z, Start) /\ text = Bytes(y)
    BY <1>1, <1>2, <1>3 DEF AtFind, Remains
  <1>5. y \in Seq(Char)
    BY <1>3, <1>4, BytesConcat
  <1>6. Prepared(Chars(text)) = z
    <2>1. Chars(text) = y
      BY <1>4, <1>5, CharsOfBytes
    <2>2. RemFlags(y) = RemFlags(d) \o RemFlags(r)
      BY <1>3, <1>4, RemFlagsIs
    <2>3. RemFlags(r) = r
      BY <1>4, RemFlagsIs
    <2> QED BY <1>3, <2>1, <2>2, <2>3 DEF Prepared, overwrite
  <1>7. z \in Seq(Flagless) /\ z \in Seq(Char)
    <2>1. u \in Seq(Flagless)
      BY <1>3, <1>4, RemFlagsIs
    <2>2. z \in Seq(Flagless)
      BY <1>3, <1>4, <2>1, Associates
    <2> QED BY <2>2, RemFlagsIs
  <1>8. Tidy(z)
    <2>1. /\ Start \in Seq(Char) /\ Len(z) = Len(Start)
          /\ \A i \in 1..Len(Start) : Mapped(Plain, z[i]) = Mapped(Plain, Start[i])
      BY <1>4 DEF MarkedFrom
    <2> QED BY <1>7, <2>1, TidyAlike
  <1>9. Remains(<< >>, z) /\ Clean(<< >>, z)
    BY <1>4, <1>7, <1>8, AtStart
  <1>10. Start' = Start
    BY <1>1, StartStays
  <1>11. << >> \o z = z
    BY <1>7, EmptyEnd
  <1>12. AtFind(<< >>, z)'
    <2>1. text' = Bytes(z) /\ from' = Size(<< >>) + 1 /\ mode' = mode /\ z = << >> \o z
      BY <1>1, <1>6, <1>11, SizeEmpty
    <2> QED BY <1>9, <1>10, <2>1, FindNext
  <1> QED BY <1>12

LEMMA InitStep ==
    ASSUME Init
    PROVE  ScanInv
  <1>1. /\ mode \in {"learn", "macronize"} /\ source \in Sources
        /\ text = Bytes(Start) /\ from = 1
        /\ pc = IF mode = "macronize" /\ HasComments(RemFlags(source)) THEN "failed" ELSE "find"
    BY DEF Init
  <1>2. /\ Start \in Seq(Char)
        /\ mode = "macronize" => Start = RemFlags(source) /\ Start \in Seq(Flagless)
    BY <1>1, StartIs
  <1>3. ASSUME Tidy(Start) PROVE AtFind(<< >>, Start)
    <2>1. MarkedFrom(Start, Start)
      BY <1>2, MarkedSame
    <2>2. Remains(<< >>, Start) /\ Clean(<< >>, Start)
      BY <1>2, <1>3, <2>1, AtStart
    <2>3. << >> \o Start = Start
      BY <1>2, EmptyEnd
    <2> QED BY <1>1, <2>2, <2>3, SizeEmpty DEF AtFind
  <1>4. CASE mode = "macronize" /\ HasComments(RemFlags(source))
    BY <1>1, <1>4 DEF ScanInv
  <1>5. CASE ~(mode = "macronize" /\ HasComments(RemFlags(source)))
    BY <1>1, <1>3, <1>5 DEF ScanInv
  <1> QED BY <1>4, <1>5

\* What a step leads to.
LEMMA ToFind ==
    ASSUME ScanInv, mode' = mode, source' = source, pc' \in {"find", "done"},
           Tidy(Start) => \E d, q : AtFind(d, q)'
    PROVE  ScanInv'
  <1>1. Start' = Start
    BY StartStays
  <1>2. mode \in {"learn", "macronize"} /\ source \in Sources
    BY DEF ScanInv
  <1>3. pc' \in {"find", "trim", "word", "nothing", "done", "failed"}
    OBVIOUS
  <1>4. Tidy(Start)' => \E d, q : AtFind(d, q)'
    BY <1>1
  <1> QED BY <1>2, <1>3, <1>4 DEF ScanInv

LEMMA ToTrimmed ==
    ASSUME ScanInv, mode' = mode, source' = source, pc' \in {"word", "trim", "nothing", "failed"},
           Tidy(Start) => \E x, m, r : Trimmed(x, m, r)
    PROVE  ScanInv'
  <1>1. Start' = Start
    BY StartStays
  <1>2. mode \in {"learn", "macronize"} /\ source \in Sources
    BY DEF ScanInv
  <1>3. pc' \in {"find", "trim", "word", "nothing", "done", "failed"}
    OBVIOUS
  <1>4. CASE ~Tidy(Start)
    <2>1. ~(Tidy(Start)')
      BY <1>1, <1>4
    <2> QED BY <1>2, <1>3, <2>1 DEF ScanInv
  <1>5. CASE Tidy(Start)
    <2>1. PICK x, m, r : Trimmed(x, m, r)
      BY <1>5
    <2>2. CASE pc' = "word" /\ \E k, s, d : AtWord(x, m, r, k, s, d)'
      BY <1>2, <2>2 DEF ScanInv
    <2>3. CASE pc' = "trim" /\ AtEnd' /\ \E k, s, d : AtWord(x, m, r, k, s, d)'
      BY <1>2, <2>3 DEF ScanInv
    <2>4. CASE pc' = "nothing" /\ \E k, s, d : AtNothing(x, m, r, k, s, d)'
      BY <1>2, <2>4 DEF ScanInv
    <2> QED BY <2>1, <2>2, <2>3, <2>4 DEF Trimmed
  <1> QED BY <1>4, <1>5

LEMMA NextStep ==
    ASSUME KeySpelled, ScanInv, [Next]_vars
    PROVE  ScanInv'
  <1>1. CASE FindWord
    <2>1. pc = "find" /\ mode' = mode /\ source' = source
      BY <1>1 DEF FindWord
    <2>2. pc' \in {"word", "trim", "nothing", "failed"}
      BY <1>1 DEF FindWord
    <2>3. ASSUME Tidy(Start) PROVE \E x, m, r : Trimmed(x, m, r)
      <3>1. PICK d, r : AtFind(d, r)
        BY <2>1, <2>3 DEF ScanInv
      <3> QED BY <1>1, <3>1, FindStep
    <2> QED BY <2>1, <2>2, <2>3, ToTrimmed
  <1>2. CASE Trim
    <2>1. pc = "trim" /\ mode' = mode /\ source' = source
      BY <1>2 DEF Trim
    <2>2. pc' \in {"word", "trim", "nothing", "failed"}
      BY <1>2 DEF Trim
    <2>3. ASSUME Tidy(Start) PROVE \E x, m, r : Trimmed(x, m, r)
      <3>1. AtEnd /\ \E x, m, r, l, v, t : AtWord(x, m, r, l, v, t)
        BY <2>1, <2>3 DEF ScanInv
      <3>2. PICK x, m, r, l, v, t : AtWord(x, m, r, l, v, t)
        BY <3>1
      <3> QED BY <1>2, <3>1, <3>2, TrimStep
    <2> QED BY <2>1, <2>2, <2>3, ToTrimmed
  <1>3. CASE LearnWord
    <2>1. mode' = mode /\ source' = source /\ pc' = "find"
      BY <1>3 DEF LearnWord
    <2>2. Tidy(Start) => \E d, q : AtFind(d, q)'
      BY <1>3, LearnEnds DEF RoundEnds
    <2> QED BY <2>1, <2>2, ToFind
  <1>4. CASE SkipWord
    <2>1. mode' = mode /\ source' = source /\ pc' = "find"
      BY <1>4 DEF SkipWord
    <2>2. Tidy(Start) => \E d, q : AtFind(d, q)'
      BY <1>4, SkipEnds DEF RoundEnds
    <2> QED BY <2>1, <2>2, ToFind
  <1>5. CASE MacronizeWord
    <2>1. mode' = mode /\ source' = source /\ pc' = "find"
      BY <1>5 DEF MacronizeWord
    <2>2. Tidy(Start) => \E d, q : AtFind(d, q)'
      BY <1>5, MacronizeEnds DEF RoundEnds
    <2> QED BY <2>1, <2>2, ToFind
  <1>6. CASE PassOver
    <2>1. mode' = mode /\ source' = source /\ pc' = "find"
      BY <1>6 DEF PassOver
    <2>2. Tidy(Start) => \E d, q : AtFind(d, q)'
      BY <1>6, PassEnds DEF RoundEnds
    <2> QED BY <2>1, <2>2, ToFind
  <1>7. CASE EndOfText
    <2>1. /\ mode' = mode /\ source' = source /\ pc' = "done" /\ pc = "find"
          /\ text' = text /\ from' = from
      BY <1>7 DEF EndOfText
    <2>2. Start' = Start
      BY <2>1, StartStays
    <2>3. ASSUME Tidy(Start) PROVE \E d, q : AtFind(d, q)'
      <3>1. PICK d, r : AtFind(d, r)
        BY <2>1, <2>3 DEF ScanInv
      <3>2. AtFind(d, r)'
        BY <2>1, <2>2, <3>1 DEF AtFind, Remains, Clean, Size
      <3> QED BY <3>2
    <2> QED BY <2>1, <2>3, ToFind
  <1>8. CASE RunAgain
    <2>1. mode' = mode /\ source' = source /\ pc' = "find"
      BY <1>8 DEF RunAgain
    <2>2. Tidy(Start) => \E d, q : AtFind(d, q)'
      BY <1>8, AgainStep
    <2> QED BY <2>1, <2>2, ToFind
  <1>9. CASE UNCHANGED vars
    <2>1. /\ mode' = mode /\ source' = source /\ pc' = pc /\ text' = text /\ from' = from
          /\ wstart' = wstart /\ wend' = wend /\ w' = w
          /\ newstart' = newstart /\ newend' = newend /\ posright' = posright
      BY <1>9 DEF vars, match
    <2>2. Start' = Start
      BY <2>1, StartStays
    <2>3. \A d, q : AtFind(d, q)' = AtFind(d, q)
      BY <2>1, <2>2 DEF AtFind, Remains, Clean, Size
    <2>4. \A x, m, r, l, v, t : Found(x, m, r, l, v, t)' = Found(x, m, r, l, v, t)
      BY <2>1, <2>2 DEF Found, Remains, Size
    <2>5. \A x, m, r, l, v, t : AtWord(x, m, r, l, v, t)' = AtWord(x, m, r, l, v, t)
      BY <2>1, <2>4 DEF AtWord, Size
    <2>6. \A x, m, r, l, v, t : AtNothing(x, m, r, l, v, t)' = AtNothing(x, m, r, l, v, t)
      BY <2>1, <2>4 DEF AtNothing, Size
    <2>7. AtEnd' = AtEnd
      BY <2>1 DEF AtEnd
    <2> QED BY <2>1, <2>2, <2>3, <2>5, <2>6, <2>7 DEF ScanInv
  <1>10. CASE Ended
    BY <1>9, <1>10 DEF Ended
  <1> QED BY <1>1, <1>2, <1>3, <1>4, <1>5, <1>6, <1>7, <1>8, <1>9, <1>10 DEF Next

\* Whatever is done, the text is what it began with, apart from flags and macrons.
LEMMA TextIs ==
    ASSUME ScanInv, Tidy(Start), mode = "macronize"
    PROVE  \E y, z : /\ y \in Seq(Char) /\ text = Bytes(y) /\ z = RemFlags(y)
                     /\ MarkedFrom(z, Start)
  <1>1. ASSUME NEW d, NEW r, Remains(d, r), text = Bytes(d \o r)
        PROVE  \E y, z : /\ y \in Seq(Char) /\ text = Bytes(y) /\ z = RemFlags(y)
                         /\ MarkedFrom(z, Start)
    <2>1. PICK y, z : y = d \o r /\ z = RemFlags(d) \o r
      OBVIOUS
    <2>2. /\ d \in Seq(Char) /\ r \in Seq(Char) /\ r \in Seq(Flagless) /\ MarkedFrom(z, Start)
      BY <1>1, <2>1 DEF Remains
    <2>3. y \in Seq(Char)
      BY <2>1, <2>2, BytesConcat
    <2>4. RemFlags(y) = RemFlags(d) \o RemFlags(r) /\ RemFlags(r) = r
      BY <2>1, <2>2, RemFlagsIs
    <2>5. z = RemFlags(y) /\ text = Bytes(y)
      BY <1>1, <2>1, <2>4
    <2> QED BY <2>2, <2>3, <2>5
  <1>2. ASSUME NEW x, NEW m, NEW r, NEW l, NEW v, NEW t, Found(x, m, r, l, v, t)
        PROVE  \E y, z : /\ y \in Seq(Char) /\ text = Bytes(y) /\ z = RemFlags(y)
                         /\ MarkedFrom(z, Start)
    <2>1. PICK q : q = m \o r
      OBVIOUS
    <2>2. Remains(x, q) /\ text = Bytes(x \o q)
      BY <1>2, <2>1, FoundIs
    <2> QED BY <1>1, <2>2
  <1>3. CASE pc \in {"find", "done"}
    <2>1. PICK d, r : AtFind(d, r)
      BY <1>3 DEF ScanInv
    <2> QED BY <1>1, <2>1 DEF AtFind
  <1>4. CASE pc \in {"trim", "word"}
    <2>1. PICK x, m, r, l, v, t : AtWord(x, m, r, l, v, t)
      BY <1>4 DEF ScanInv
    <2> QED BY <1>2, <2>1 DEF AtWord
  <1>5. CASE pc = "nothing"
    <2>1. PICK x, m, r, l, v, t : AtNothing(x, m, r, l, v, t)
      BY <1>5 DEF ScanInv
    <2> QED BY <1>2, <2>1 DEF AtNothing
  <1>6. CASE pc = "failed"
    <2>1. text = Bytes(Start) /\ source \in Sources
      BY <1>6 DEF ScanInv
    <2>2. Start \in Seq(Char) /\ Start \in Seq(Flagless)
      BY <2>1, StartIs
    <2>3. RemFlags(Start) = Start /\ MarkedFrom(Start, Start)
      BY <2>2, RemFlagsIs, MarkedSame
    <2> QED BY <2>1, <2>2, <2>3
  <1> QED BY <1>3, <1>4, <1>5, <1>6 DEF ScanInv

LEMMA ScanInvImplies ==
    ASSUME ScanInv
    PROVE  OnlyMarks /\ MacronsKept /\ NoCrash
  <1>1. mode \in {"learn", "macronize"} /\ source \in Sources
    BY DEF ScanInv
  <1>2. ASSUME mode = "macronize", Tidy(Start)
        PROVE  \E y, z : /\ y \in Seq(Char) /\ text = Bytes(y) /\ Chars(text) = y
                         /\ z = RemFlags(y) /\ MarkedFrom(z, Start)
    <2>1. PICK y, z : /\ y \in Seq(Char) /\ text = Bytes(y) /\ z = RemFlags(y)
                      /\ MarkedFrom(z, Start)
      BY <1>2, TextIs
    <2>2. Chars(text) = y
      BY <2>1, CharsOfBytes
    <2> QED BY <2>1, <2>2
  <1>3. mode = "macronize" => Start = RemFlags(source)
    BY <1>1, StartIs
  <1>4. OnlyMarks
    <2> SUFFICES ASSUME mode = "macronize", Tidy(Start)
                 PROVE  text = Bytes(Chars(text)) /\ Unmarked(Chars(text)) = Unmarked(source)
      BY DEF OnlyMarks
    <2>1. PICK y, z : /\ y \in Seq(Char) /\ text = Bytes(y) /\ Chars(text) = y
                      /\ z = RemFlags(y) /\ MarkedFrom(z, Start)
      BY <1>2
    <2>2. /\ z \in Seq(Char) /\ Start \in Seq(Char) /\ Len(z) = Len(Start)
          /\ \A i \in 1..Len(Start) : Mapped(Plain, z[i]) = Mapped(Plain, Start[i])
      BY <2>1 DEF MarkedFrom
    <2>3. Each(Plain, z) = Each(Plain, Start)
      <3>1. Plain \in Fun
        BY DEF Fun
      <3>2. \A i \in 1..Len(z) : Mapped(Plain, z[i]) = Mapped(Plain, Start[i])
        BY <2>2
      <3> QED BY <2>2, <3>1, <3>2, EachEqual
    <2> QED BY <1>3, <2>1, <2>3 DEF Unmarked
  <1>5. MacronsKept
    <2> SUFFICES ASSUME mode = "macronize", Tidy(Start)
                 PROVE  \A i, j \in DOMAIN Start :
                            Start[j] \in Long /\ Together(Start, i, j) =>
                                RemFlags(Chars(text))[i] = Start[i]
      BY <1>3 DEF MacronsKept
    <2>1. PICK y, z : /\ y \in Seq(Char) /\ text = Bytes(y) /\ Chars(text) = y
                      /\ z = RemFlags(y) /\ MarkedFrom(z, Start)
      BY <1>2
    <2>2. /\ Start \in Seq(Char)
          /\ \A i, j \in 1..Len(Start) :
                Start[j] \in Long /\ Together(Start, i, j) => z[i] = Start[i]
      BY <2>1 DEF MarkedFrom
    <2>3. DOMAIN Start = 1..Len(Start)
      BY <2>2
    <2> QED BY <2>1, <2>2, <2>3
  <1>6. NoCrash
    BY DEF ScanInv, NoCrash
  <1> QED BY <1>4, <1>5, <1>6

LEMMA ScanInvariant ==
    ASSUME KeySpelled
    PROVE  Spec => []ScanInv
  <1>1. Init => ScanInv
    BY InitStep
  <1>2. ScanInv /\ [Next]_vars => ScanInv'
    BY NextStep
  <1> QED BY <1>1, <1>2, PTL DEF Spec

\* Macronize adds flags and macrons to a text and changes nothing else in it, whatever is
\* in the key, and its characters stay whole ("adds macrons and flags", README).
THEOREM OnlyMarksAreAdded ==
    ASSUME KeySpelled
    PROVE  Spec => []OnlyMarks
  <1>1. ScanInv => OnlyMarks
    BY ScanInvImplies
  <1> QED BY <1>1, ScanInvariant, PTL

\* The words in which the user has set macrons stay as they are, in both runs ("words
\* with macrons are left untouched", _CONFIG.txt).
THEOREM MacronsAreKept ==
    ASSUME KeySpelled
    PROVE  Spec => []MacronsKept
  <1>1. ScanInv => MacronsKept
    BY ScanInvImplies
  <1> QED BY <1>1, ScanInvariant, PTL

\* Every match begins with a whole character, so that no text ends the program in
\* utf8.len but those with comments, at the beginning of Macronize.
THEOREM NothingCrashes ==
    ASSUME KeySpelled
    PROVE  Spec => []NoCrash
  <1>1. ScanInv => NoCrash
    BY ScanInvImplies
  <1> QED BY <1>1, ScanInvariant, PTL

\* Each round of the scan leaves less of the text to be searched, where the texts have no
\* word that ignorechars cuts wrongly ("while wstart do" comes to an end).
THEOREM RoundsAdvance ==
    ASSUME KeySpelled, \A s \in Sources : Tidy(Decommented(s)) /\ Tidy(RemFlags(s))
    PROVE  Spec => Advances
  <1>1. ASSUME ScanInv, [Next]_vars
        PROVE  [pc # "find" /\ pc' = "find" /\ pass' = pass => Rest' < Rest]_vars
    <2>1. SUFFICES ASSUME ~UNCHANGED vars, pc # "find", pc' = "find", pass' = pass
                   PROVE  Rest' < Rest
      OBVIOUS
    <2>2. Tidy(Start)
      <3>1. Start \in {Decommented(source), RemFlags(source)} /\ source \in Sources
        BY <1>1 DEF Start, Prepared, overwrite, ScanInv
      <3> QED BY <3>1
    <2>3. LearnWord \/ SkipWord \/ MacronizeWord \/ PassOver
      <3>1. ~FindWord /\ ~EndOfText
        BY <2>1 DEF FindWord, EndOfText
      <3>2. ~Trim
        BY <2>1 DEF Trim
      <3>3. ~RunAgain
        BY <2>1 DEF RunAgain
      <3>4. ~Ended
        BY <2>1 DEF Ended
      <3> QED BY <1>1, <2>1, <3>1, <3>2, <3>3, <3>4 DEF Next
    <2>4. RoundEnds
      BY <1>1, <2>2, <2>3, LearnEnds, SkipEnds, MacronizeEnds, PassEnds
    <2> QED BY <2>4 DEF RoundEnds
  <1>2. Spec => []ScanInv
    BY ScanInvariant
  <1> QED BY <1>1, <1>2, PTL DEF Spec, Advances
====
