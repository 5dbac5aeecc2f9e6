--------------------------- MODULE Analyze_proofs ---------------------------
(***************************************************************************)
(* Proofs about module Analyze: for every key, whatever its forms look      *)
(* like and whatever the history says, no form is in two sections, and each *)
(* form of the report is listed with all of its issues.                     *)
(***************************************************************************)
EXTENDS Analyze, FiniteSetTheorems, WellFoundedInduction, TLAPS

\* A non-empty set of numbers has a least one.
LEMMA LeastElement ==
    ASSUME NEW T, T \subseteq Nat, T # {}
    PROVE  \E n \in T : \A m \in T : n <= m
  <1>1. IsWellFoundedOn(OpToRel(<, Nat), Nat)
    BY NatLessThanWellFounded
  <1>2. PICK n \in T : \A m \in T : ~(<<m, n>> \in OpToRel(<, Nat))
    BY <1>1, WFMin, Zenon
  <1>3. ASSUME NEW m \in T PROVE n <= m
    <2>1. ~(m < n)
      BY <1>2 DEF OpToRel
    <2> QED BY <2>1
  <1> QED BY <1>3
----------------------------------------------------------------------------
\* The arrays.

Once(s) == \A i, j \in DOMAIN s : s[i] = s[j] => i = j

\* delete takes w out, perhaps another form too, and brings in nothing.
LEMMA DeleteTakesOut ==
    ASSUME NEW s \in Seq(Forms), Once(s), NEW w
    PROVE  /\ Delete(s, w) \in Seq(Forms) /\ Once(Delete(s, w))
           /\ \A i \in DOMAIN Delete(s, w) :
                 Delete(s, w)[i] # w /\ \E j \in DOMAIN s : Delete(s, w)[i] = s[j]
  <1> DEFINE at == {i \in DOMAIN s : s[i] = w}
  <1>0. Len(s) \in Nat /\ DOMAIN s = 1..Len(s) /\ \A i \in 1..Len(s) : s[i] \in Forms
    OBVIOUS
  <1>1. CASE at = {}
    <2>1. Delete(s, w) = s
      BY <1>1 DEF Delete
    <2> QED BY <1>1, <2>1
  <1>2. CASE at # {}
    <2>1. PICK n \in at : n = CHOOSE i \in at : TRUE
      BY <1>2
    <2>2. n \in 1..Len(s) /\ s[n] = w
      BY <1>0, <2>1
    <2>3. \A i \in 1..Len(s) : i # n => s[i] # w
      BY <1>0, <2>2 DEF Once
    <2>4. CASE n = Len(s)
      <3>1. PICK d : d = [i \in 1..(n - 2) |-> s[i]]
        OBVIOUS
      <3>2. Delete(s, w) = d
        BY <1>2, <2>1, <2>4, <3>1 DEF Delete
      <3>3. d \in Seq(Forms) /\ DOMAIN d = 1..(n - 2)
        <4>1. CASE n >= 2
          <5>1. n - 2 \in Nat /\ \A i \in 1..(n - 2) : s[i] \in Forms
            BY <1>0, <2>2, <4>1
          <5> QED BY <3>1, <5>1
        <4>2. CASE n = 1
          <5>1. 1..(n - 2) = 1..0
            BY <4>2
          <5> QED BY <3>1, <5>1
        <4> QED BY <1>0, <2>2, <4>1, <4>2
      <3>4. \A i \in 1..(n - 2) : d[i] = s[i] /\ i \in 1..Len(s) /\ i # n
        BY <1>0, <2>2, <3>1
      <3>5. Once(d)
        BY <1>0, <3>3, <3>4 DEF Once
      <3> QED BY <1>0, <2>3, <3>2, <3>3, <3>4, <3>5
    <2>5. CASE n # Len(s)
      <3>1. PICK d : d = [i \in 1..(Len(s) - 1) |-> IF i < n THEN s[i] ELSE s[i + 1]]
        OBVIOUS
      <3>2. Delete(s, w) = d
        BY <1>2, <2>1, <2>5, <3>1 DEF Delete
      <3>3. \A i \in 1..(Len(s) - 1) :
               \/ i < n /\ d[i] = s[i] /\ i \in 1..Len(s)
               \/ i >= n /\ d[i] = s[i + 1] /\ i + 1 \in 1..Len(s) /\ i + 1 # n
        BY <1>0, <2>2, <3>1
      <3>4. d \in Seq(Forms) /\ DOMAIN d = 1..(Len(s) - 1)
        <4>1. Len(s) - 1 \in Nat /\ \A i \in 1..(Len(s) - 1) : d[i] \in Forms
          BY <1>0, <2>2, <3>3
        <4> QED BY <3>1, <4>1
      <3>5. Once(d)
        <4>1. SUFFICES ASSUME NEW i \in 1..(Len(s) - 1), NEW j \in 1..(Len(s) - 1), d[i] = d[j]
                       PROVE  i = j
          BY <3>4 DEF Once
        <4> QED BY <1>0, <2>2, <3>3, <4>1 DEF Once
      <3>6. \A i \in 1..(Len(s) - 1) : d[i] # w /\ \E j \in DOMAIN s : d[i] = s[j]
        BY <1>0, <2>2, <2>3, <3>3
      <3> QED BY <3>2, <3>4, <3>5, <3>6
    <2> QED BY <2>4, <2>5
  <1> QED BY <1>1, <1>2

\* add puts a new form at the end.
LEMMA AppendOnce ==
    ASSUME NEW s \in Seq(Forms), Once(s), NEW w \in Forms, \A i \in DOMAIN s : s[i] # w
    PROVE  /\ Append(s, w) \in Seq(Forms) /\ Once(Append(s, w))
           /\ \A i \in DOMAIN Append(s, w) :
                 Append(s, w)[i] = w \/ \E j \in DOMAIN s : Append(s, w)[i] = s[j]
  <1>1. Len(s) \in Nat /\ DOMAIN s = 1..Len(s)
    OBVIOUS
  <1>2. PICK d : d = Append(s, w)
    OBVIOUS
  <1>3. /\ d \in Seq(Forms) /\ DOMAIN d = 1..(Len(s) + 1)
        /\ d[Len(s) + 1] = w /\ \A i \in 1..Len(s) : d[i] = s[i]
    BY <1>2
  <1>4. \A i \in 1..(Len(s) + 1) : i = Len(s) + 1 \/ i \in 1..Len(s)
    BY <1>1
  <1> QED BY <1>1, <1>2, <1>3, <1>4 DEF Once
----------------------------------------------------------------------------
\* The tables.

TablesOK(t) ==
    /\ DOMAIN t = {"arr", "multi", "where"}
    /\ DOMAIN t.arr = Sections \cup {"AMB"}
    /\ \A s \in Sections : t.arr[s] \in Seq(Forms)
    /\ t.arr["AMB"] \in Seq(Plains)
    /\ DOMAIN t.multi \cup DOMAIN t.where \subseteq Forms
    /\ \A w \in DOMAIN t.multi : t.multi[w] \subseteq Sections \cup {"AMB"}
    /\ \A w \in DOMAIN t.where : t.where[w] \in Sections \cup {"MULTI"}

Sound(t) == TablesOK(t) /\ Filed(t)

\* The forms of MULTI that no section is known for.
Lone(t) == DOMAIN t.multi \ DOMAIN t.where

\* Form w is in no array.
NoArray(t, w) == w \in DOMAIN t.where => t.where[w] = "MULTI"

LEMMA Stored ==
    ASSUME NEW f, NEW x, NEW v
    PROVE  /\ DOMAIN Store(f, x, v) = DOMAIN f \cup {x}
           /\ Store(f, x, v)[x] = v
           /\ \A y \in DOMAIN f : y # x => Store(f, x, v)[y] = f[y]
  BY DEF Store

\* tomulti keeps each form in one place, and the form it moved is in MULTI.
LEMMA ToMultiSound ==
    ASSUME NEW t, Sound(t), NEW w \in Forms
    PROVE  LET u == ToMulti(t, w)
           IN  /\ Sound(u)
               /\ DOMAIN u.where = DOMAIN t.where
               /\ NoArray(u, w)
               /\ \A v \in DOMAIN t.where : t.where[v] = "MULTI" => u.where[v] = "MULTI"
               /\ Lone(u) \subseteq Lone(t)
  <1> DEFINE u == ToMulti(t, w)
  <1>1. CASE w \in DOMAIN t.where /\ t.where[w] # "MULTI"
    <2> DEFINE a == t.where[w]
    <2>1. a \in Sections /\ a # "MULTI"
      BY <1>1 DEF Sound, TablesOK
    <2>2. PICK d : d = Delete(t.arr[a], w)
      OBVIOUS
    <2>3. t.arr[a] \in Seq(Forms) /\ Once(t.arr[a])
      BY <2>1 DEF Sound, TablesOK, Filed, Once
    <2>4. /\ d \in Seq(Forms) /\ Once(d)
          /\ \A i \in DOMAIN d : d[i] # w /\ \E j \in DOMAIN t.arr[a] : d[i] = t.arr[a][j]
      BY <2>2, <2>3, DeleteTakesOut
    <2>5. /\ u.arr = [t.arr EXCEPT ![a] = d]
          /\ u.multi = Store(t.multi, w, {a})
          /\ u.where = Store(t.where, w, "MULTI")
          /\ DOMAIN u = {"arr", "multi", "where"}
      BY <1>1, <2>2 DEF ToMulti
    <2> HIDE DEF u, a
    <2>6. /\ DOMAIN u.arr = DOMAIN t.arr /\ u.arr[a] = d
          /\ \A s \in DOMAIN t.arr : s # a => u.arr[s] = t.arr[s]
      BY <2>1, <2>5 DEF Sound, TablesOK
    <2>7. /\ DOMAIN u.multi = DOMAIN t.multi \cup {w} /\ u.multi[w] = {a}
          /\ \A v \in DOMAIN t.multi : v # w => u.multi[v] = t.multi[v]
      <3>1. PICK f, g : f = t.multi /\ g = u.multi
        OBVIOUS
      <3>2. g = Store(f, w, {a})
        BY <2>5, <3>1
      <3>3. DOMAIN g = DOMAIN f \cup {w} /\ g[w] = {a} /\ \A v \in DOMAIN f : v # w => g[v] = f[v]
        BY <3>2 DEF Store
      <3> QED BY <3>1, <3>3
    <2>8. /\ DOMAIN u.where = DOMAIN t.where /\ u.where[w] = "MULTI"
          /\ \A v \in DOMAIN t.where : v # w => u.where[v] = t.where[v]
      <3>1. DOMAIN t.where \cup {w} = DOMAIN t.where
        BY <1>1
      <3> QED BY <2>5, <3>1, Stored
    <2>9. TablesOK(u)
      <3>1. "AMB" \notin Sections
        BY DEF Sections
      <3>2. TablesOK(t)
        BY DEF Sound
      <3>3. DOMAIN u.arr = Sections \cup {"AMB"} /\ u.arr["AMB"] \in Seq(Plains)
        BY <2>1, <2>6, <3>1, <3>2 DEF TablesOK
      <3>4. \A s \in Sections : u.arr[s] \in Seq(Forms)
        BY <2>4, <2>6, <3>2 DEF TablesOK
      <3>5. DOMAIN u.multi \cup DOMAIN u.where \subseteq Forms
        BY <2>7, <2>8, <3>2 DEF TablesOK
      <3>6. \A v \in DOMAIN u.multi : u.multi[v] \subseteq Sections \cup {"AMB"}
        BY <2>1, <2>7, <3>2 DEF TablesOK
      <3>7. \A v \in DOMAIN u.where : u.where[v] \in Sections \cup {"MULTI"}
        BY <2>8, <3>2 DEF TablesOK
      <3> QED BY <2>5, <3>3, <3>4, <3>5, <3>6, <3>7 DEF TablesOK
    <2>10. Filed(u)
      <3>1. ASSUME NEW s \in Sections
            PROVE  /\ \A i \in DOMAIN u.arr[s] : \E j \in DOMAIN t.arr[s] :
                         u.arr[s][i] = t.arr[s][j] /\ u.arr[s][i] # w
                   /\ Once(u.arr[s])
        <4>1. CASE s = a
          BY <2>4, <2>6, <4>1
        <4>2. CASE s # a
          <5>1. u.arr[s] = t.arr[s]
            BY <2>6, <4>2 DEF Sound, TablesOK
          <5>2. \A i \in DOMAIN t.arr[s] : t.arr[s][i] # w
            BY <4>2 DEF Sound, Filed, a
          <5> QED BY <5>1, <5>2 DEF Sound, Filed, Once
        <4> QED BY <4>1, <4>2
      <3>2. ASSUME NEW s \in Sections, NEW i \in DOMAIN u.arr[s]
            PROVE  /\ u.arr[s][i] \in DOMAIN u.where \ DOMAIN u.multi
                   /\ u.where[u.arr[s][i]] = s
        <4>1. PICK j \in DOMAIN t.arr[s] : u.arr[s][i] = t.arr[s][j] /\ u.arr[s][i] # w
          BY <3>1
        <4>2. t.arr[s][j] \in DOMAIN t.where \ DOMAIN t.multi /\ t.where[t.arr[s][j]] = s
          BY DEF Sound, Filed
        <4> QED BY <2>7, <2>8, <4>1, <4>2
      <3> QED BY <3>1, <3>2 DEF Filed, Once
    <2>11. /\ \A v \in DOMAIN t.where : t.where[v] = "MULTI" => u.where[v] = "MULTI"
           /\ Lone(u) \subseteq Lone(t)
      BY <1>1, <2>7, <2>8 DEF Lone
    <2> QED BY <2>8, <2>9, <2>10, <2>11 DEF Sound, u, NoArray
  <1>2. CASE ~(w \in DOMAIN t.where /\ t.where[w] # "MULTI")
    <2>1. u = t
      BY <1>2 DEF ToMulti
    <2> QED BY <1>2, <2>1 DEF NoArray
  <1> QED BY <1>1, <1>2

\* u is t with another MULTI, or with w at the end of an array.
MultiIs(t, u, m) ==
    /\ DOMAIN u = {"arr", "multi", "where"}
    /\ u.arr = t.arr /\ u.where = t.where /\ u.multi = m

Appended(t, u, w, s) ==
    /\ DOMAIN u = {"arr", "multi", "where"}
    /\ u.arr = [t.arr EXCEPT ![s] = Append(@, w)]
    /\ u.multi = t.multi /\ u.where = Store(t.where, w, s)

\* A form that is in no array can be noted in MULTI.
LEMMA NotedSound ==
    ASSUME NEW t, Sound(t), NEW w \in Forms, NEW m \in SUBSET (Sections \cup {"AMB"}),
           NoArray(t, w),
           NEW u, MultiIs(t, u, Store(t.multi, w, m))
    PROVE  /\ Sound(u) /\ u.where = t.where
           /\ DOMAIN u.multi = DOMAIN t.multi \cup {w} /\ u.multi[w] = m
  <1>1. /\ DOMAIN u = {"arr", "multi", "where"}
        /\ u.arr = t.arr /\ u.where = t.where /\ u.multi = Store(t.multi, w, m)
    BY DEF MultiIs
  <1>2. /\ DOMAIN u.multi = DOMAIN t.multi \cup {w} /\ u.multi[w] = m
        /\ \A v \in DOMAIN t.multi : v # w => u.multi[v] = t.multi[v]
    <2>1. PICK f, g : f = t.multi /\ g = u.multi
      OBVIOUS
    <2>2. g = Store(f, w, m)
      BY <1>1, <2>1
    <2>3. DOMAIN g = DOMAIN f \cup {w} /\ g[w] = m /\ \A v \in DOMAIN f : v # w => g[v] = f[v]
      BY <2>2 DEF Store
    <2> QED BY <2>1, <2>3
  <1>3. TablesOK(u)
    BY <1>1, <1>2 DEF Sound, TablesOK
  <1>4. \A s \in Sections : \A i \in DOMAIN t.arr[s] : t.arr[s][i] # w
    <2>1. "MULTI" \notin Sections
      BY DEF Sections
    <2> QED BY <2>1 DEF Sound, Filed, NoArray
  <1>5. Filed(u)
    BY <1>1, <1>2, <1>4 DEF Sound, Filed
  <1> QED BY <1>1, <1>2, <1>3, <1>5 DEF Sound

\* One more section for a form that no array has.
LEMMA WithIssueSound ==
    ASSUME NEW t, Sound(t), NEW w \in Forms, NEW s \in Sections \cup {"AMB"},
           NoArray(t, w),
           NEW u, MultiIs(t, u, WithIssue(t.multi, w, s))
    PROVE  Sound(u) /\ u.where = t.where /\ DOMAIN u.multi = DOMAIN t.multi \cup {w}
  <1>0. PICK m : m = (IF w \in DOMAIN t.multi THEN t.multi[w] ELSE {}) \cup {s}
    OBVIOUS
  <1>1. m \in SUBSET (Sections \cup {"AMB"})
    BY <1>0 DEF Sound, TablesOK
  <1>2. MultiIs(t, u, Store(t.multi, w, m))
    BY <1>0 DEF MultiIs, WithIssue
  <1>3. u.where = t.where
    BY DEF MultiIs
  <1>4. Sound(u) /\ DOMAIN u.multi = DOMAIN t.multi \cup {w}
    BY <1>1, <1>2, NotedSound
  <1> QED BY <1>3, <1>4

\* A new form goes to the end of an array.
LEMMA AppendedSound ==
    ASSUME NEW t, Sound(t), NEW w \in Forms, NEW s \in Sections,
           w \notin DOMAIN t.where, w \notin DOMAIN t.multi,
           NEW u, Appended(t, u, w, s)
    PROVE  Sound(u) /\ u.multi = t.multi /\ DOMAIN u.where = DOMAIN t.where \cup {w}
  <1>0. /\ DOMAIN u = {"arr", "multi", "where"}
        /\ u.arr = [t.arr EXCEPT ![s] = Append(@, w)]
        /\ u.multi = t.multi /\ u.where = Store(t.where, w, s)
    BY DEF Appended
  <1>1. PICK d : d = Append(t.arr[s], w)
    OBVIOUS
  <1>2. u.arr = [t.arr EXCEPT ![s] = d]
    BY <1>0, <1>1
  <1>3. t.arr[s] \in Seq(Forms) /\ Once(t.arr[s]) /\ \A i \in DOMAIN t.arr[s] : t.arr[s][i] # w
    BY DEF Sound, TablesOK, Filed, Once
  <1>4. /\ d \in Seq(Forms) /\ Once(d)
        /\ \A i \in DOMAIN d : d[i] = w \/ \E j \in DOMAIN t.arr[s] : d[i] = t.arr[s][j]
    BY <1>1, <1>3, AppendOnce
  <1>5. /\ DOMAIN u.arr = DOMAIN t.arr /\ u.arr[s] = d
        /\ \A a \in DOMAIN t.arr : a # s => u.arr[a] = t.arr[a]
    BY <1>2 DEF Sound, TablesOK
  <1>6. /\ DOMAIN u.where = DOMAIN t.where \cup {w} /\ u.where[w] = s
        /\ \A v \in DOMAIN t.where : u.where[v] = t.where[v]
    <2>1. PICK f, g : f = t.where /\ g = u.where
      OBVIOUS
    <2>2. g = Store(f, w, s)
      BY <1>0, <2>1
    <2>3. DOMAIN g = DOMAIN f \cup {w} /\ g[w] = s /\ \A v \in DOMAIN f : v # w => g[v] = f[v]
      BY <2>2 DEF Store
    <2> QED BY <2>1, <2>3
  <1>7. TablesOK(u)
    <2>1. "AMB" \notin Sections
      BY DEF Sections
    <2>2. TablesOK(t)
      BY DEF Sound
    <2>3. DOMAIN u.arr = Sections \cup {"AMB"} /\ u.arr["AMB"] \in Seq(Plains)
      BY <1>5, <2>1, <2>2 DEF TablesOK
    <2>4. \A a \in Sections : u.arr[a] \in Seq(Forms)
      BY <1>4, <1>5, <2>2 DEF TablesOK
    <2>5. DOMAIN u.multi \cup DOMAIN u.where \subseteq Forms
      BY <1>0, <1>6, <2>2 DEF TablesOK
    <2>6. \A v \in DOMAIN u.where : u.where[v] \in Sections \cup {"MULTI"}
      BY <1>6, <2>2 DEF TablesOK
    <2> QED BY <1>0, <2>2, <2>3, <2>4, <2>5, <2>6 DEF TablesOK
  <1>8. Filed(u)
    <2>1. ASSUME NEW a \in Sections, NEW i \in DOMAIN u.arr[a]
          PROVE  /\ u.arr[a][i] \in DOMAIN u.where \ DOMAIN u.multi
                 /\ u.where[u.arr[a][i]] = a
      <3>1. CASE u.arr[a][i] = w /\ a = s
        BY <1>0, <1>6, <3>1
      <3>2. CASE \E j \in DOMAIN t.arr[a] : u.arr[a][i] = t.arr[a][j]
        <4>1. PICK j \in DOMAIN t.arr[a] : u.arr[a][i] = t.arr[a][j]
          BY <3>2
        <4>2. t.arr[a][j] \in DOMAIN t.where \ DOMAIN t.multi /\ t.where[t.arr[a][j]] = a
          BY DEF Sound, Filed
        <4> QED BY <1>0, <1>6, <4>1, <4>2
      <3>3. a = s \/ u.arr[a] = t.arr[a]
        BY <1>5 DEF Sound, TablesOK
      <3> QED BY <1>4, <1>5, <3>1, <3>2, <3>3
    <2>2. ASSUME NEW a \in Sections PROVE Once(u.arr[a])
      <3>1. a = s \/ u.arr[a] = t.arr[a]
        BY <1>5 DEF Sound, TablesOK
      <3>2. Once(t.arr[a])
        BY DEF Sound, Filed, Once
      <3> QED BY <1>4, <1>5, <3>1, <3>2
    <2> QED BY <2>1, <2>2 DEF Filed, Once
  <1> QED BY <1>0, <1>6, <1>7, <1>8 DEF Sound

\* What add does, if a form that stands in MULTI alone has a replacement with an issue.
LEMMA AddSound ==
    ASSUME NEW t, Sound(t), NEW section \in Sections, NEW w \in Forms, NEW repls,
           repls = {} \/ \E r \in Forms : repls = {r},
           w \in Lone(t) => repls \cap DOMAIN t.where # {}
    PROVE  LET u == Add(t, section, w, repls)
           IN  /\ Sound(u)
               /\ DOMAIN t.where \subseteq DOMAIN u.where
               /\ \A v \in Lone(u) : v \in Lone(t) \/ (v = w /\ repls \cap DOMAIN t.where # {})
  <1>0. PICK moved : moved = IF repls = {} THEN ToMulti(t, w)
                             ELSE ToMulti(ToMulti(t, w), CHOOSE r \in repls : TRUE)
    OBVIOUS
  <1>1. /\ Sound(moved) /\ DOMAIN moved.where = DOMAIN t.where
        /\ NoArray(moved, w)
        /\ Lone(moved) \subseteq Lone(t)
    <2>1. PICK u : u = ToMulti(t, w)
      OBVIOUS
    <2>2. /\ Sound(u) /\ DOMAIN u.where = DOMAIN t.where
          /\ NoArray(u, w)
          /\ Lone(u) \subseteq Lone(t)
      BY <2>1, ToMultiSound
    <2>3. CASE repls = {}
      BY <1>0, <2>1, <2>2, <2>3
    <2>4. CASE repls # {}
      <3>1. PICK r \in Forms : r = CHOOSE s \in repls : TRUE
        BY <2>4
      <3>2. moved = ToMulti(u, r)
        BY <1>0, <2>1, <2>4, <3>1
      <3>3. /\ Sound(moved) /\ DOMAIN moved.where = DOMAIN u.where
            /\ \A v \in DOMAIN u.where : u.where[v] = "MULTI" => moved.where[v] = "MULTI"
            /\ Lone(moved) \subseteq Lone(u)
        BY <2>2, <3>2, ToMultiSound
      <3> QED BY <2>2, <3>3 DEF NoArray
    <2> QED BY <2>3, <2>4
  <1>2. CASE ({w} \cup repls) \cap DOMAIN t.where # {}
    <2>1. Add(t, section, w, repls) = [moved EXCEPT !.multi = WithIssue(@, w, section)]
      BY <1>0, <1>2 DEF Add
    <2>2. PICK u : u = Add(t, section, w, repls)
      OBVIOUS
    <2>3. Sound(u) /\ u.where = moved.where /\ DOMAIN u.multi = DOMAIN moved.multi \cup {w}
      <3>2. MultiIs(moved, u, WithIssue(moved.multi, w, section))
        BY <1>1, <2>1, <2>2 DEF Sound, TablesOK, MultiIs
      <3>1. NoArray(moved, w)
        BY <1>1
      <3> QED BY <1>1, <3>1, <3>2, WithIssueSound
    <2>4. \A v \in Lone(u) : v \in Lone(t) \/ (v = w /\ repls \cap DOMAIN t.where # {})
      BY <1>1, <1>2, <2>3 DEF Lone
    <2> QED BY <1>1, <2>2, <2>3, <2>4
  <1>3. CASE ({w} \cup repls) \cap DOMAIN t.where = {}
    <2>1. Add(t, section, w, repls) = 
              [arr   |-> [moved.arr EXCEPT ![section] = Append(@, w)],
               multi |-> moved.multi,
               where |-> Store(moved.where, w, section)]
      BY <1>0, <1>3 DEF Add
    <2>2. PICK u : u = Add(t, section, w, repls)
      OBVIOUS
    <2>3. w \notin DOMAIN moved.where /\ w \notin DOMAIN moved.multi
      BY <1>1, <1>3 DEF Lone
    <2>4. Sound(u) /\ u.multi = moved.multi /\ DOMAIN u.where = DOMAIN moved.where \cup {w}
      <3>1. Appended(moved, u, w, section)
        BY <2>1, <2>2 DEF Appended
      <3> QED BY <1>1, <2>3, <3>1, AppendedSound
    <2>5. Lone(u) \subseteq Lone(t)
      BY <1>1, <2>4 DEF Lone
    <2> QED BY <1>1, <2>2, <2>4, <2>5
  <1> QED BY <1>2, <1>3

\* The list of ambiguous plain words, which only the last pass adds to.
LEMMA ToMultiKeepsWords ==
    ASSUME NEW t, Sound(t), NEW w \in Forms
    PROVE  ToMulti(t, w).arr["AMB"] = t.arr["AMB"]
  <1>1. CASE w \in DOMAIN t.where /\ t.where[w] # "MULTI"
    <2>1. PICK a, d : a = t.where[w] /\ d = Delete(t.arr[a], w)
      OBVIOUS
    <2>2. ToMulti(t, w).arr = [t.arr EXCEPT ![a] = d]
      BY <1>1, <2>1 DEF ToMulti
    <2>3. a \in Sections /\ "AMB" \notin Sections
      BY <1>1, <2>1 DEF Sound, TablesOK, Sections
    <2>4. DOMAIN t.arr = Sections \cup {"AMB"}
      BY DEF Sound, TablesOK
    <2> QED BY <2>2, <2>3, <2>4
  <1>2. CASE ~(w \in DOMAIN t.where /\ t.where[w] # "MULTI")
    BY <1>2 DEF ToMulti
  <1> QED BY <1>1, <1>2

LEMMA AddKeepsWords ==
    ASSUME NEW t, Sound(t), NEW section \in Sections, NEW w \in Forms, NEW repls,
           repls = {} \/ \E r \in Forms : repls = {r}
    PROVE  Add(t, section, w, repls).arr["AMB"] = t.arr["AMB"]
  <1>1. PICK moved : moved = IF repls = {} THEN ToMulti(t, w)
                             ELSE ToMulti(ToMulti(t, w), CHOOSE r \in repls : TRUE)
    OBVIOUS
  <1>2. moved.arr["AMB"] = t.arr["AMB"] /\ Sound(moved)
    <2>1. PICK u : u = ToMulti(t, w)
      OBVIOUS
    <2>2. Sound(u) /\ u.arr["AMB"] = t.arr["AMB"]
      BY <2>1, ToMultiSound, ToMultiKeepsWords
    <2>3. CASE repls = {}
      BY <1>1, <2>1, <2>2, <2>3
    <2>4. CASE repls # {}
      <3>1. PICK r \in Forms : r = CHOOSE s \in repls : TRUE
        BY <2>4
      <3>2. moved = ToMulti(u, r)
        BY <1>1, <2>1, <2>4, <3>1
      <3> QED BY <2>2, <3>2, ToMultiSound, ToMultiKeepsWords
    <2> QED BY <2>3, <2>4
  <1>3. DOMAIN moved.arr = Sections \cup {"AMB"} /\ "AMB" \notin Sections
    BY <1>2 DEF Sound, TablesOK, Sections
  <1>4. PICK u : u = Add(t, section, w, repls)
    OBVIOUS
  <1>5. u.arr = moved.arr \/ u.arr = [moved.arr EXCEPT ![section] = Append(@, w)]
    <2>1. DOMAIN moved = {"arr", "multi", "where"}
      BY <1>2 DEF Sound, TablesOK
    <2>2. CASE ({w} \cup repls) \cap DOMAIN t.where # {}
      <3>1. u = [moved EXCEPT !.multi = WithIssue(@, w, section)]
        BY <1>1, <1>4, <2>2 DEF Add
      <3> QED BY <2>1, <3>1
    <2>3. CASE ({w} \cup repls) \cap DOMAIN t.where = {}
      BY <1>1, <1>4, <2>3 DEF Add
    <2> QED BY <2>2, <2>3
  <1> QED BY <1>2, <1>3, <1>4, <1>5

\* A parallel moves to MULTI, wherever it was.
LEMMA AmbiguousSound ==
    ASSUME NEW t, Sound(t), NEW w \in Forms
    PROVE  LET u == Ambiguous(t, w)
           IN  Sound(u) /\ DOMAIN u.where = DOMAIN t.where /\ u.arr["AMB"] = t.arr["AMB"]
  <1>1. PICK moved : moved = IF w \in DOMAIN t.where THEN ToMulti(t, w)
                             ELSE [t EXCEPT !.multi = Store(@, w, {})]
    OBVIOUS
  <1>2. /\ Sound(moved) /\ NoArray(moved, w)
        /\ DOMAIN moved.where = DOMAIN t.where /\ moved.arr["AMB"] = t.arr["AMB"]
    <2>1. CASE w \in DOMAIN t.where
      <3>1. moved = ToMulti(t, w)
        BY <1>1, <2>1
      <3> QED BY <2>1, <3>1, ToMultiSound, ToMultiKeepsWords
    <2>2. CASE w \notin DOMAIN t.where
      <3>1. moved = [t EXCEPT !.multi = Store(@, w, {})]
        BY <1>1, <2>2
      <3>2. Sound(moved) /\ moved.where = t.where /\ moved.arr = t.arr
        <4>1. MultiIs(t, moved, Store(t.multi, w, {}))
          BY <3>1 DEF Sound, TablesOK, MultiIs
        <4>2. NoArray(t, w) /\ {} \in SUBSET (Sections \cup {"AMB"})
          BY <2>2 DEF NoArray
        <4>3. Sound(moved) /\ moved.where = t.where
          BY <4>1, <4>2, NotedSound
        <4> QED BY <4>1, <4>3 DEF MultiIs
      <3> QED BY <2>2, <3>2 DEF NoArray
    <2> QED BY <2>1, <2>2
  <1>3. PICK u : u = Ambiguous(t, w)
    OBVIOUS
  <1>4. MultiIs(moved, u, WithIssue(moved.multi, w, "AMB"))
    <2>1. u = [moved EXCEPT !.multi = WithIssue(@, w, "AMB")]
      BY <1>1, <1>3 DEF Ambiguous
    <2> QED BY <1>2, <2>1 DEF Sound, TablesOK, MultiIs
  <1>5. "AMB" \in Sections \cup {"AMB"}
    OBVIOUS
  <1>6. Sound(u)
    BY <1>2, <1>4, <1>5, WithIssueSound
  <1>7. u.arr = moved.arr /\ u.where = moved.where
    BY <1>4 DEF MultiIs
  <1> QED BY <1>2, <1>3, <1>6, <1>7
----------------------------------------------------------------------------
\* The parallels of a plain word, one after the other.

\* What becomes of tables x at position n of the key.
Turn(p, x, n) == IF n \in Parallels(p) THEN Ambiguous(x, key[n]) ELSE x

IsSteps(p, u) ==
    u = [n \in 0..Len(key) |-> IF n = 0 THEN Tables
                               ELSE IF n \in Parallels(p) THEN Ambiguous(u[n - 1], key[n])
                               ELSE u[n - 1]]

\* u takes the first n steps, n <= Len(key).
StepsTo(p, u, n) ==
    /\ DOMAIN u = 0..n
    /\ u[0] = Tables
    /\ \A k \in 1..n : u[k] = Turn(p, u[k - 1], k)

\* One more step.
LEMMA StepFurther ==
    ASSUME NEW p, NEW n \in Nat, n >= 1, NEW u, StepsTo(p, u, n - 1)
    PROVE  \E g : StepsTo(p, g, n)
  <1>1. PICK x : x = Turn(p, u[n - 1], n)
    OBVIOUS
  <1>2. PICK g : g = [k \in 0..n |-> IF k = n THEN x ELSE u[k]]
    OBVIOUS
  <1>3. DOMAIN g = 0..n /\ g[n] = x /\ \A k \in 0..(n - 1) : g[k] = u[k]
    BY <1>2
  <1>4. g[0] = Tables
    BY <1>3 DEF StepsTo
  <1>5. ASSUME NEW k \in 1..n PROVE g[k] = Turn(p, g[k - 1], k)
    <2>1. k - 1 \in 0..(n - 1) /\ (k = n \/ k \in 1..(n - 1))
      OBVIOUS
    <2>2. CASE k = n
      BY <1>1, <1>3, <2>1, <2>2
    <2>3. CASE k \in 1..(n - 1)
      <3>1. u[k] = Turn(p, u[k - 1], k) /\ k \in 0..(n - 1)
        BY <2>3 DEF StepsTo
      <3> QED BY <1>3, <2>1, <3>1
    <2> QED BY <2>1, <2>2, <2>3
  <1> QED BY <1>3, <1>4, <1>5 DEF StepsTo

LEMMA StepsExist ==
    ASSUME NEW p, Len(key) \in Nat
    PROVE  \E u : IsSteps(p, u)
  <1> DEFINE None == {n \in 0..Len(key) : ~ \E u : StepsTo(p, u, n)}
  <1>1. None = {}
    <2>1. SUFFICES ASSUME None # {} PROVE FALSE
      OBVIOUS
    <2>2. PICK n \in None : \A m \in None : n <= m
      <3>1. None \subseteq Nat
        OBVIOUS
      <3> HIDE DEF None
      <3> QED BY <2>1, <3>1, LeastElement
    <2>3. n \in 0..Len(key) /\ ~ \E u : StepsTo(p, u, n)
      BY <2>2
    <2>4. n # 0
      <3>1. PICK g : g = [k \in {0} |-> Tables]
        OBVIOUS
      <3>2. DOMAIN g = 0..0 /\ g[0] = Tables
        BY <3>1
      <3>3. StepsTo(p, g, 0)
        BY <3>2 DEF StepsTo
      <3> QED BY <2>3, <3>3
    <2>5. n - 1 \in 0..Len(key) /\ n - 1 \notin None
      <3>1. n - 1 \in 0..Len(key) /\ ~(n <= n - 1)
        BY <2>3, <2>4
      <3> QED BY <2>2, <3>1, Zenon
    <2>6. PICK u : StepsTo(p, u, n - 1)
      BY <2>5
    <2> QED BY <2>3, <2>4, <2>6, StepFurther
  <1>2. PICK u : StepsTo(p, u, Len(key))
    BY <1>1
  <1>3. \A n \in 0..Len(key) :
           u[n] = IF n = 0 THEN Tables
                  ELSE IF n \in Parallels(p) THEN Ambiguous(u[n - 1], key[n]) ELSE u[n - 1]
    <2>1. \A n \in 0..Len(key) : n = 0 \/ n \in 1..Len(key)
      OBVIOUS
    <2> QED BY <1>2, <2>1 DEF StepsTo, Turn
  <1>4. u = [n \in 0..Len(key) |-> u[n]]
    BY <1>2 DEF StepsTo
  <1>5. IsSteps(p, u)
    BY <1>3, <1>4, Zenon DEF IsSteps
  <1> QED BY <1>5

\* Sound tables in which the same forms and plain words are listed as now.
SameWords(t) == Sound(t) /\ DOMAIN t.where = DOMAIN wsections /\ t.arr["AMB"] = arr["AMB"]

LEMMA AllAmbiguousSound ==
    ASSUME NEW p, key \in Seq(Forms), Sound(Tables)
    PROVE  SameWords(AllAmbiguous(p))
  <1>1. Len(key) \in Nat /\ \A n \in 1..Len(key) : key[n] \in Forms
    OBVIOUS
  <1>2. PICK u : IsSteps(p, u) /\ AllAmbiguous(p) = u[Len(key)]
    BY <1>1, StepsExist DEF AllAmbiguous, IsSteps
  <1>3. \A n \in 0..Len(key) :
           u[n] = IF n = 0 THEN Tables
                  ELSE IF n \in Parallels(p) THEN Ambiguous(u[n - 1], key[n]) ELSE u[n - 1]
    BY <1>2, Zenon DEF IsSteps
  <1> DEFINE Wrong == {n \in 0..Len(key) : ~SameWords(u[n])}
  <1>0. SameWords(Tables)
    BY DEF SameWords, Tables
  <1>4. Wrong = {}
    <2>1. SUFFICES ASSUME Wrong # {} PROVE FALSE
      OBVIOUS
    <2>2. PICK n \in Wrong : \A m \in Wrong : n <= m
      <3>1. Wrong \subseteq Nat
        OBVIOUS
      <3> HIDE DEF Wrong
      <3> QED BY <2>1, <3>1, LeastElement
    <2>3. n \in 0..Len(key) /\ ~SameWords(u[n])
      BY <2>2
    <2>4. n # 0
      BY <1>0, <1>1, <1>3, <2>3
    <2>5. n - 1 \in 0..Len(key) /\ n - 1 \notin Wrong /\ n \in 1..Len(key)
      <3>1. n - 1 \in 0..Len(key) /\ ~(n <= n - 1) /\ n \in 1..Len(key)
        BY <1>1, <2>3, <2>4
      <3> QED BY <2>2, <3>1, Zenon
    <2>6. PICK x : x = u[n - 1]
      OBVIOUS
    <2>7. SameWords(x) /\ key[n] \in Forms
      BY <1>1, <2>5, <2>6
    <2>8. SameWords(Ambiguous(x, key[n]))
      BY <2>7, AmbiguousSound DEF SameWords
    <2>9. u[n] = Ambiguous(x, key[n]) \/ u[n] = x
      BY <1>3, <2>3, <2>4, <2>6
    <2> QED BY <2>3, <2>7, <2>8, <2>9
  <1>5. Len(key) \in 0..Len(key)
    BY <1>1
  <1> QED BY <1>2, <1>4, <1>5
----------------------------------------------------------------------------
\* The steps of the passes.

LEMMA InvSound ==
    ASSUME IInv
    PROVE  /\ Sound(Tables) /\ key \in Seq(Forms) /\ Len(key) \in Nat
           /\ pos \in 1..(Len(key) + 1)
           /\ pos <= Len(key) => Word \in Forms
  <1>1. key \in Seq(Forms) /\ Len(key) \in Nat
    BY AnalyzeAssumption DEF IInv
  <1>2. TablesOK(Tables)
    BY DEF IInv, TypeOK, TablesOK, Tables
  <1>3. pos \in 1..(Len(key) + 1)
    BY DEF IInv, TypeOK
  <1>4. pos <= Len(key) => Word \in Forms
    BY <1>1, <1>3 DEF Word
  <1> QED BY <1>1, <1>2, <1>3, <1>4 DEF IInv, Sound

\* Assigning sound tables.
LEMMA BecomeSound ==
    ASSUME NEW t, Sound(t), Become(t)
    PROVE  Sound(Tables') /\ wsections' = t.where /\ Lone(Tables') = Lone(t)
  <1>1. arr' = t.arr /\ multi' = t.multi /\ wsections' = t.where
    BY DEF Become
  <1>2. PICK u : u = Tables'
    OBVIOUS
  <1>3. /\ DOMAIN u = {"arr", "multi", "where"}
        /\ u.arr = t.arr /\ u.multi = t.multi /\ u.where = t.where
    BY <1>1, <1>2 DEF Tables
  <1>4. TablesOK(u)
    BY <1>3 DEF Sound, TablesOK
  <1>5. Filed(u) /\ Lone(u) = Lone(t)
    BY <1>3 DEF Sound, Filed, Lone
  <1> QED BY <1>1, <1>2, <1>4, <1>5 DEF Sound

\* Tables that stay.
LEMMA StaySound ==
    ASSUME Sound(Tables), UNCHANGED <<arr, multi, wsections>>
    PROVE  Sound(Tables') /\ Lone(Tables') = Lone(Tables)
  BY DEF Tables

AutoOK == DOMAIN autoFound = Sections /\ \A s \in Sections : autoFound[s] \subseteq Forms

\* What a pass does with a form that it adds to its section.
LEMMA AddedSound ==
    ASSUME IInv, pos <= Len(key), NEW s \in Sections, NEW repls,
           repls = {} \/ \E r \in Forms : repls = {r},
           Word \in Lone(Tables) => repls \cap DOMAIN wsections # {},
           Become(Add(Tables, s, Word, repls))
    PROVE  /\ Sound(Tables') /\ DOMAIN wsections \subseteq DOMAIN wsections'
           /\ \A v \in Lone(Tables') :
                 v \in Lone(Tables) \/ (v = Word /\ repls \cap DOMAIN wsections # {})
  <1>1. PICK t : t = Tables
    OBVIOUS
  <1>2. PICK u : u = Add(t, s, Word, repls)
    OBVIOUS
  <1>3. t.where = wsections
    BY <1>1 DEF Tables
  <1>4. /\ Sound(u) /\ DOMAIN t.where \subseteq DOMAIN u.where
        /\ \A v \in Lone(u) : v \in Lone(t) \/ (v = Word /\ repls \cap DOMAIN t.where # {})
    <2>1. Sound(t) /\ (Word \in Lone(t) => repls \cap DOMAIN t.where # {})
      BY <1>1, <1>3, InvSound
    <2> QED BY <1>2, <2>1, InvSound, AddSound
  <1>5. Sound(Tables') /\ wsections' = u.where /\ Lone(Tables') = Lone(u)
    BY <1>1, <1>2, <1>4, BecomeSound
  <1> QED BY <1>1, <1>3, <1>4, <1>5

\* What a pass does with a form that shows its issue.
LEMMA ClassifySound ==
    ASSUME IInv, pos <= Len(key), NEW s \in Sections, NEW repls,
           repls = {} \/ \E r \in Forms : repls = {r},
           Word \in Lone(Tables) => repls \cap DOMAIN wsections # {},
           Classify(s, repls)
    PROVE  /\ Sound(Tables') /\ AutoOK'
           /\ DOMAIN wsections \subseteq DOMAIN wsections'
           /\ \A v \in Lone(Tables') :
                 v \in Lone(Tables) \/ (v = Word /\ repls \cap DOMAIN wsections # {})
  <1>1. Sound(Tables) /\ Word \in Forms
    BY InvSound
  <1>2. AutoOK
    BY DEF IInv, TypeOK, AutoOK
  <1>3. CASE UNCHANGED <<arr, multi, wsections>>
    <2>1. Sound(Tables') /\ Lone(Tables') = Lone(Tables) /\ wsections' = wsections
      BY <1>1, <1>3, StaySound
    <2>2. autoFound' = autoFound \/ autoFound' = [autoFound EXCEPT ![s] = @ \cup {Word}]
      <3>1. CASE Word \in oktbl
        BY <3>1 DEF Classify
      <3>2. CASE Word \notin oktbl /\ Word \in DOMAIN autotbl
        BY <3>2 DEF Classify
      <3>3. CASE Word \notin oktbl /\ Word \notin DOMAIN autotbl
        BY <3>3 DEF Classify
      <3> QED BY <3>1, <3>2, <3>3
    <2>3. AutoOK'
      BY <1>1, <1>2, <2>2 DEF AutoOK
    <2> QED BY <2>1, <2>3
  <1>4. CASE Become(Add(Tables, s, Word, repls)) /\ UNCHANGED autoFound
    <2>1. /\ Sound(Tables') /\ DOMAIN wsections \subseteq DOMAIN wsections'
          /\ \A v \in Lone(Tables') :
                v \in Lone(Tables) \/ (v = Word /\ repls \cap DOMAIN wsections # {})
      BY <1>4, AddedSound
    <2>2. AutoOK'
      BY <1>2, <1>4 DEF AutoOK
    <2> QED BY <2>1, <2>2
  <1> QED BY <1>3, <1>4 DEF Classify

\* The invariant after a word of a pass.
LEMMA PassStep ==
    ASSUME IInv, pos <= Len(key), NextWord, Sound(Tables'), AutoOK',
           pc = "AMB" \/ DOMAIN wsections \subseteq DOMAIN wsections',
           \A v \in Lone(Tables') :
              \/ v \in Lone(Tables)
              \/ pc = "AMB"
              \/ pc = "HID" /\ v \in DOMAIN issues.hid /\ issues.hid[v] \in DOMAIN wsections
    PROVE  IInv'
  <1>1. key' = key /\ issues' = issues /\ pc' = pc /\ pos' = pos + 1
    BY DEF NextWord, data
  <1>2. pos' \in 1..(Len(key') + 1)
    BY <1>1, InvSound
  <1>3. TablesOK(Tables') /\ Filed(Tables')
    BY DEF Sound
  <1>4. TypeOK' /\ \A w \in DOMAIN wsections' : wsections'[w] \in Sections \cup {"MULTI"}
    BY <1>2, <1>3 DEF TypeOK, TablesOK, Tables, AutoOK
  <1>5. Alone'
    <2>1. SUFFICES ASSUME NEW w \in DOMAIN multi' \ DOMAIN wsections'
                   PROVE  \/ pc' \in {"AMB", "write", "history", "end"}
                          \/ /\ pc' \in {"HID", "ORTH"}
                             /\ w \in DOMAIN issues'.hid /\ issues'.hid[w] \in DOMAIN wsections'
      BY DEF Alone
    <2>2. w \in Lone(Tables')
      BY DEF Lone, Tables
    <2>3. CASE w \in Lone(Tables)
      <3>1. \/ pc \in {"AMB", "write", "history", "end"}
            \/ /\ pc \in {"HID", "ORTH"}
               /\ w \in DOMAIN issues.hid /\ issues.hid[w] \in DOMAIN wsections
        BY <2>3 DEF IInv, Alone, Lone, Tables
      <3> QED BY <1>1, <3>1
    <2> QED BY <1>1, <2>2, <2>3
  <1> QED BY <1>1, <1>3, <1>4, <1>5 DEF IInv, AutoOK

\* Until the hidden vowels, no form is in MULTI alone.
LEMMA EarlyNotAlone ==
    ASSUME IInv, pc \in {"ABV", "ENC", "PRF"}
    PROVE  Lone(Tables) = {}
  BY DEF IInv, Alone, Lone, Tables

\* A word that the pass passes over.
LEMMA UnremarkableStep ==
    ASSUME IInv, pos <= Len(key), NextWord, UNCHANGED <<arr, multi, wsections, autoFound>>
    PROVE  IInv'
  <1>1. Sound(Tables') /\ Lone(Tables') = Lone(Tables) /\ wsections' = wsections
    BY InvSound, StaySound
  <1>2. AutoOK'
    BY DEF IInv, TypeOK, AutoOK
  <1> QED BY <1>1, <1>2, PassStep

\* A pass for one kind of form without replacements, before the hidden vowels.
LEMMA EarlyStep ==
    ASSUME IInv, pos <= Len(key), pc \in {"ABV", "ENC", "PRF"}, NextWord, NEW s \in Sections,
           \/ Classify(s, {})
           \/ Become(Add(Tables, s, Word, {})) /\ UNCHANGED autoFound
    PROVE  IInv'
  <1>1. Lone(Tables) = {}
    BY EarlyNotAlone
  <1>2. CASE Classify(s, {})
    <2>1. PICK repls : repls = {}
      OBVIOUS
    <2>2. /\ Sound(Tables') /\ AutoOK' /\ DOMAIN wsections \subseteq DOMAIN wsections'
          /\ \A v \in Lone(Tables') :
                v \in Lone(Tables) \/ (v = Word /\ repls \cap DOMAIN wsections # {})
      BY <1>1, <1>2, <2>1, ClassifySound
    <2> QED BY <2>1, <2>2, PassStep
  <1>3. CASE Become(Add(Tables, s, Word, {})) /\ UNCHANGED autoFound
    <2>1. PICK repls : repls = {}
      OBVIOUS
    <2>2. /\ Sound(Tables') /\ DOMAIN wsections \subseteq DOMAIN wsections'
          /\ \A v \in Lone(Tables') :
                v \in Lone(Tables) \/ (v = Word /\ repls \cap DOMAIN wsections # {})
      BY <1>1, <1>3, <2>1, AddedSound
    <2>3. AutoOK'
      BY <1>3 DEF IInv, TypeOK, AutoOK
    <2> QED BY <2>1, <2>2, <2>3, PassStep
  <1> QED BY <1>2, <1>3

LEMMA AbbreviationStep == IInv /\ FindAbbreviation => IInv'
  <1> SUFFICES ASSUME IInv, FindAbbreviation PROVE IInv'
    OBVIOUS
  <1>1. pc = "ABV" /\ pos <= Len(key) /\ NextWord /\ "ABV" \in Sections
    BY DEF FindAbbreviation, InPass, Sections
  <1>2. CASE Word \in issues.abv
    BY <1>1, <1>2, EarlyStep DEF FindAbbreviation
  <1>3. CASE Word \notin issues.abv
    BY <1>1, <1>3, UnremarkableStep DEF FindAbbreviation, Unremarkable
  <1> QED BY <1>2, <1>3

LEMMA EncliticStep == IInv /\ FindEnclitic => IInv'
  <1> SUFFICES ASSUME IInv, FindEnclitic PROVE IInv'
    OBVIOUS
  <1>1. pc = "ENC" /\ pos <= Len(key) /\ NextWord /\ "ENC" \in Sections
    BY DEF FindEnclitic, InPass, Sections
  <1>2. CASE Word \in issues.enc
    BY <1>1, <1>2, EarlyStep DEF FindEnclitic
  <1>3. CASE Word \notin issues.enc
    BY <1>1, <1>3, UnremarkableStep DEF FindEnclitic, Unremarkable
  <1> QED BY <1>2, <1>3

LEMMA PerfectStep == IInv /\ FindPerfect => IInv'
  <1> SUFFICES ASSUME IInv, FindPerfect PROVE IInv'
    OBVIOUS
  <1>1. pc = "PRF" /\ pos <= Len(key) /\ NextWord /\ "PRF" \in Sections
    BY DEF FindPerfect, InPass, Sections
  <1>2. CASE Unremarkable
    BY <1>1, <1>2, UnremarkableStep DEF Unremarkable
  <1>3. CASE ~Unremarkable
    <2>1. \/ Classify("PRF", {})
          \/ Become(Add(Tables, "PRF", Word, {})) /\ UNCHANGED autoFound
      BY <1>3 DEF FindPerfect
    <2> QED BY <1>1, <2>1, EarlyStep
  <1> QED BY <1>2, <1>3

\* A form whose replacement has an issue goes to MULTI alone.
LEMMA HiddenStep == IInv /\ FindHidden => IInv'
  <1> SUFFICES ASSUME IInv, FindHidden PROVE IInv'
    OBVIOUS
  <1>1. pc = "HID" /\ pos <= Len(key) /\ NextWord /\ "HID" \in Sections
    BY DEF FindHidden, InPass, Sections
  <1>2. CASE Word \in DOMAIN issues.hid
    <2>1. PICK repls : repls = {issues.hid[Word]}
      OBVIOUS
    <2>2. \E r \in Forms : repls = {r}
      BY <1>2, <2>1, AnalyzeAssumption DEF IInv, IsIssues
    <2>3. Word \in Lone(Tables) => repls \cap DOMAIN wsections # {}
      BY <1>1, <2>1 DEF IInv, Alone, Lone, Tables
    <2>4. Classify("HID", repls)
      BY <1>2, <2>1 DEF FindHidden
    <2>5. /\ Sound(Tables') /\ AutoOK' /\ DOMAIN wsections \subseteq DOMAIN wsections'
          /\ \A v \in Lone(Tables') :
                v \in Lone(Tables) \/ (v = Word /\ repls \cap DOMAIN wsections # {})
      BY <1>1, <2>2, <2>3, <2>4, ClassifySound
    <2>6. \A v \in Lone(Tables') :
             \/ v \in Lone(Tables)
             \/ pc = "HID" /\ v \in DOMAIN issues.hid /\ issues.hid[v] \in DOMAIN wsections
      BY <1>1, <1>2, <2>1, <2>5
    <2> QED BY <1>1, <2>5, <2>6, PassStep
  <1>3. CASE Word \notin DOMAIN issues.hid
    BY <1>1, <1>3, UnremarkableStep DEF FindHidden, Unremarkable
  <1> QED BY <1>2, <1>3

\* Nothing is added: a new form of this pass makes it fail.
LEMMA OrthographyStep == IInv /\ FindOrthography => IInv'
  <1> SUFFICES ASSUME IInv, FindOrthography PROVE IInv'
    OBVIOUS
  <1>1. pc = "ORTH" /\ pos <= Len(key) /\ NextWord /\ "ORTH" \in Sections
    BY DEF FindOrthography, InPass, Sections
  <1>2. UNCHANGED <<arr, multi, wsections>> /\ AutoOK'
    <2>1. AutoOK /\ Word \in Forms
      BY <1>1, InvSound DEF IInv, TypeOK, AutoOK
    <2>2. CASE Word \in DOMAIN issues.orth /\ Word \in oktbl
      BY <2>1, <2>2 DEF FindOrthography, Classify, AutoOK
    <2>3. CASE Word \in DOMAIN issues.orth /\ Word \notin oktbl
      <3>1. Word \in DOMAIN autotbl /\ Classify("ORTH", {})
        BY <2>3 DEF FindOrthography
      <3>2. /\ autoFound' = [autoFound EXCEPT !["ORTH"] = @ \cup {Word}]
            /\ UNCHANGED <<arr, multi, wsections>>
        BY <2>3, <3>1 DEF Classify
      <3> QED BY <2>1, <3>2 DEF AutoOK
    <2>4. CASE Word \notin DOMAIN issues.orth
      BY <2>1, <2>4 DEF FindOrthography, Unremarkable, AutoOK
    <2> QED BY <2>2, <2>3, <2>4
  <1>3. Sound(Tables') /\ Lone(Tables') = Lone(Tables) /\ wsections' = wsections
    BY <1>2, InvSound, StaySound
  <1> QED BY <1>1, <1>2, <1>3, PassStep

\* The parallels move to MULTI, or their plain word is listed.
LEMMA AmbiguityStep == IInv /\ FindAmbiguity => IInv'
  <1> SUFFICES ASSUME IInv, FindAmbiguity PROVE IInv'
    OBVIOUS
  <1>1. pc = "AMB" /\ pos <= Len(key) /\ NextWord /\ UNCHANGED autoFound
    BY DEF FindAmbiguity, InPass
  <1>2. AutoOK'
    BY <1>1 DEF IInv, TypeOK, AutoOK
  <1>3. PICK p : p = PlainOf[Word]
    OBVIOUS
  <1>4. p \in Plains
    BY <1>1, <1>3, InvSound, AnalyzeAssumption
  <1>5. Sound(Tables)
    BY InvSound
  <1>6. CASE Become(AllAmbiguous(p))
    <2>1. Sound(AllAmbiguous(p))
      BY InvSound, AllAmbiguousSound DEF SameWords
    <2>2. Sound(Tables')
      BY <1>6, <2>1, BecomeSound
    <2> QED BY <1>1, <1>2, <2>2, PassStep
  <1>7. CASE arr' = [arr EXCEPT !["AMB"] = Append(@, p)] /\ UNCHANGED <<multi, wsections>>
    <2>1. PICK t, u : t = Tables /\ u = Tables'
      OBVIOUS
    <2>2. /\ DOMAIN u = {"arr", "multi", "where"} /\ u.multi = t.multi /\ u.where = t.where
          /\ u.arr = [t.arr EXCEPT !["AMB"] = Append(@, p)]
      BY <1>7, <2>1 DEF Tables
    <2>3. "AMB" \notin Sections
      BY DEF Sections
    <2>4. TablesOK(t) /\ Filed(t)
      BY <1>5, <2>1 DEF Sound
    <2>5. /\ DOMAIN u.arr = Sections \cup {"AMB"} /\ u.arr["AMB"] \in Seq(Plains)
          /\ \A s \in Sections : u.arr[s] = t.arr[s]
      BY <1>4, <2>2, <2>3, <2>4 DEF TablesOK
    <2>6. TablesOK(u)
      BY <2>2, <2>4, <2>5 DEF TablesOK
    <2>7. Filed(u)
      <3>1. ASSUME NEW s \in Sections
            PROVE  /\ \A i \in DOMAIN t.arr[s] : /\ t.arr[s][i] \in DOMAIN t.where \ DOMAIN t.multi
                                                  /\ t.where[t.arr[s][i]] = s
                   /\ \A i, j \in DOMAIN t.arr[s] : t.arr[s][i] = t.arr[s][j] => i = j
        BY <2>4 DEF Filed
      <3>2. ASSUME NEW s \in Sections
            PROVE  /\ \A i \in DOMAIN u.arr[s] : /\ u.arr[s][i] \in DOMAIN u.where \ DOMAIN u.multi
                                                  /\ u.where[u.arr[s][i]] = s
                   /\ \A i, j \in DOMAIN u.arr[s] : u.arr[s][i] = u.arr[s][j] => i = j
        <4>1. u.arr[s] = t.arr[s] /\ u.where = t.where /\ u.multi = t.multi
          BY <2>2, <2>5
        <4> QED BY <3>1, <4>1
      <3> QED BY <3>2 DEF Filed
    <2> QED BY <1>1, <1>2, <1>7, <2>1, <2>6, <2>7, PassStep DEF Sound
  <1>8. CASE UNCHANGED <<arr, multi, wsections>>
    BY <1>1, <1>8, UnremarkableStep
  <1> QED BY <1>3, <1>6, <1>7, <1>8 DEF FindAmbiguity

LEMMA OtherSteps ==
    IInv /\ (OrthographyFails \/ EndPass \/ WriteRepairs \/ WriteFails \/ SaveHistory \/ UNCHANGED vars)
       => IInv'
  <1> SUFFICES ASSUME IInv,
                      OrthographyFails \/ EndPass \/ WriteRepairs \/ WriteFails \/ SaveHistory
                        \/ UNCHANGED vars
               PROVE  IInv'
    OBVIOUS
  <1>1. UNCHANGED <<key, issues, arr, multi, wsections, autoFound>>
    BY DEF OrthographyFails, Fail, EndPass, WriteRepairs, WriteFails, SaveHistory, vars, data
  <1>2. pos' \in 1..(Len(key) + 1)
    <2>1. pos' = pos \/ pos' = 1
      BY DEF OrthographyFails, Fail, EndPass, WriteRepairs, WriteFails, SaveHistory, vars, FirstWord
    <2> QED BY <2>1, InvSound
  <1>3. \/ pc' = pc
        \/ pc \in {"AMB", "write", "history", "end"} /\ pc' \in {"AMB", "write", "history", "end"}
        \/ pc \in {"ABV", "ENC", "PRF"}
        \/ pc \in {"HID", "ORTH"} /\ pc' \in {"ORTH", "AMB", "end"}
    <2>1. CASE EndPass
      <3>1. PICK i \in 1..6 : pc = Passes[i] /\ pc' = Passes[i + 1]
        BY <2>1 DEF EndPass
      <3>2. i = 1 \/ i = 2 \/ i = 3 \/ i = 4 \/ i = 5 \/ i = 6
        OBVIOUS
      <3> QED BY <3>1, <3>2 DEF Passes
    <2>2. CASE OrthographyFails \/ WriteFails
      BY <2>2 DEF OrthographyFails, InPass, WriteFails, Fail
    <2>3. CASE WriteRepairs \/ SaveHistory \/ UNCHANGED vars
      BY <2>3 DEF WriteRepairs, SaveHistory, vars
    <2> QED BY <2>1, <2>2, <2>3
  <1>4. Alone'
    <2>1. CASE pc \in {"ABV", "ENC", "PRF"}
      <3>1. Lone(Tables) = {}
        BY <2>1, EarlyNotAlone
      <3> QED BY <1>1, <3>1 DEF Alone, Lone, Tables
    <2>2. CASE pc \notin {"ABV", "ENC", "PRF"}
      <3>1. Alone
        BY DEF IInv
      <3> QED BY <1>1, <1>3, <2>2, <3>1 DEF Alone
    <2> QED BY <2>1, <2>2
  <1>5. TypeOK' /\ Filed(Tables)'
    <2>1. Tables' = Tables
      BY <1>1 DEF Tables
    <2> QED BY <1>1, <1>2, <2>1 DEF IInv, TypeOK, Tables, Filed
  <1> QED BY <1>1, <1>4, <1>5 DEF IInv

LEMMA InitInv == Init => IInv
  <1> SUFFICES ASSUME Init PROVE IInv
    OBVIOUS
  <1>1. key \in Keys /\ key \in Seq(Forms) /\ issues \in IssueTables /\ pos = 1
    BY AnalyzeAssumption DEF Init, FirstWord
  <1>2. /\ DOMAIN arr = Sections \cup {"AMB"} /\ \A s \in Sections \cup {"AMB"} : arr[s] = << >>
        /\ DOMAIN multi = {} /\ DOMAIN wsections = {}
        /\ DOMAIN autoFound = Sections /\ \A s \in Sections : autoFound[s] = {}
    BY DEF Init, EmptyTable
  <1>3. TypeOK
    <2>1. pos \in 1..(Len(key) + 1)
      BY <1>1
    <2>2. << >> \in Seq(Forms) /\ << >> \in Seq(Plains)
      OBVIOUS
    <2>3. (\A s \in Sections : arr[s] \in Seq(Forms)) /\ arr["AMB"] \in Seq(Plains)
      BY <1>2, <2>2
    <2>4. DOMAIN multi \cup DOMAIN wsections \subseteq Forms
      BY <1>2
    <2>5. \A w \in DOMAIN multi : multi[w] \subseteq Sections \cup {"AMB"}
      BY <1>2
    <2>6. \A s \in Sections : autoFound[s] \subseteq Forms
      BY <1>2
    <2> QED BY <1>2, <2>1, <2>3, <2>4, <2>5, <2>6 DEF TypeOK
  <1>4. Filed(Tables)
    <2>1. \A s \in Sections : Tables.arr[s] = << >>
      BY <1>2 DEF Tables
    <2> QED BY <2>1 DEF Filed
  <1>5. Alone
    BY <1>2 DEF Alone
  <1> QED BY <1>1, <1>2, <1>3, <1>4, <1>5 DEF IInv

LEMMA StepInv == IInv /\ [Next]_vars => IInv'
  BY AbbreviationStep, EncliticStep, PerfectStep, HiddenStep, OrthographyStep, AmbiguityStep,
     OtherSteps DEF Next

LEMMA Invariance == Spec => []IInv
  BY InitInv, StepInv, PTL DEF Spec

\* In Analyze Key, for every key, list of issues and history: a form is in one array
\* at most, there once, and then not in MULTI.
THEOREM OneSectionEach == Spec => []OneSection
  <1>1. IInv => OneSection
    <2> SUFFICES ASSUME IInv, NEW w \in Forms, NEW s \in Sections, InArray(w, s)
                 PROVE  /\ w \notin DOMAIN multi
                        /\ \A r \in Sections \ {s} : ~InArray(w, r)
                        /\ Cardinality({i \in DOMAIN arr[s] : arr[s][i] = w}) = 1
      BY DEF OneSection
    <2>1. \A r \in Sections : /\ \A i \in DOMAIN arr[r] : /\ arr[r][i] \notin DOMAIN multi
                                                          /\ wsections[arr[r][i]] = r
                              /\ \A i, j \in DOMAIN arr[r] : arr[r][i] = arr[r][j] => i = j
      BY DEF IInv, Filed, Tables
    <2>2. PICK n \in DOMAIN arr[s] : arr[s][n] = w
      BY DEF InArray
    <2>3. {i \in DOMAIN arr[s] : arr[s][i] = w} = {n}
      BY <2>1, <2>2
    <2>4. w \notin DOMAIN multi /\ \A r \in Sections \ {s} : ~InArray(w, r)
      BY <2>1, <2>2 DEF InArray
    <2> QED BY <2>3, <2>4, FS_Singleton
  <1> QED BY <1>1, Invariance, PTL
----------------------------------------------------------------------------
\* What the tables say of each form: f gives the issues found so far, a whether it has
\* been met as one of several parallels.

\* A hidden vowel is put in at once: the replacement has none itself (hidden.txt).
HiddenOnce == \A t \in IssueTables : \A w \in DOMAIN t.hid : t.hid[w] \notin DOMAIN t.hid

Recorded(t, f, a) ==
    /\ \A w \in Forms : w \in DOMAIN t.where <=> f[w] # {}
    /\ \A w \in DOMAIN t.where :
          \/ t.where[w] = "MULTI" /\ w \in DOMAIN t.multi
          \/ t.where[w] # "MULTI" /\ f[w] = {t.where[w]} /\ a[w] = {}
    /\ \A w \in DOMAIN t.multi : /\ t.multi[w] = f[w] \cup a[w]
                                 /\ w \in DOMAIN t.where \/ a[w] # {}

\* The function that differs from f at w only.
With(f, w, v) == [x \in Forms |-> IF x = w THEN v ELSE f[x]]

LEMMA WithIs ==
    ASSUME NEW f, NEW w, NEW v
    PROVE  \A x \in Forms : With(f, w, v)[x] = IF x = w THEN v ELSE f[x]
  BY DEF With

\* Moving a form to MULTI tells nothing new.
LEMMA ToMultiRecorded ==
    ASSUME NEW t, Sound(t), NEW w \in Forms, NEW f, NEW a, Recorded(t, f, a)
    PROVE  /\ Recorded(ToMulti(t, w), f, a)
           /\ DOMAIN ToMulti(t, w).where = DOMAIN t.where
           /\ NoArray(ToMulti(t, w), w)
           /\ Lone(ToMulti(t, w)) \subseteq Lone(t)
           /\ Sound(ToMulti(t, w))
  <1>0. PICK u : u = ToMulti(t, w)
    OBVIOUS
  <1>1. /\ Sound(u) /\ DOMAIN u.where = DOMAIN t.where
        /\ NoArray(u, w) /\ Lone(u) \subseteq Lone(t)
    BY <1>0, ToMultiSound
  <1>2. CASE w \in DOMAIN t.where /\ t.where[w] # "MULTI"
    <2>1. PICK s : s = t.where[w]
      OBVIOUS
    <2>2. u.multi = Store(t.multi, w, {s}) /\ u.where = Store(t.where, w, "MULTI")
      BY <1>0, <1>2, <2>1 DEF ToMulti
    <2>3. f[w] = {s} /\ a[w] = {}
      BY <1>2, <2>1 DEF Recorded
    <2>4. /\ DOMAIN u.multi = DOMAIN t.multi \cup {w} /\ u.multi[w] = {s}
          /\ \A v \in DOMAIN t.multi : v # w => u.multi[v] = t.multi[v]
      <3>1. PICK g, h : g = t.multi /\ h = u.multi
        OBVIOUS
      <3>2. h = Store(g, w, {s})
        BY <2>2, <3>1
      <3> QED BY <3>1, <3>2 DEF Store
    <2>5. /\ u.where[w] = "MULTI"
          /\ \A v \in DOMAIN t.where : v # w => u.where[v] = t.where[v]
      <3>1. PICK g, h : g = t.where /\ h = u.where
        OBVIOUS
      <3>2. h = Store(g, w, "MULTI")
        BY <2>2, <3>1
      <3> QED BY <3>1, <3>2 DEF Store
    <2>6. Recorded(u, f, a)
      <3>1. \A v \in Forms : v \in DOMAIN u.where <=> f[v] # {}
        BY <1>1 DEF Recorded
      <3>2. ASSUME NEW v \in DOMAIN u.where
            PROVE  \/ u.where[v] = "MULTI" /\ v \in DOMAIN u.multi
                   \/ u.where[v] # "MULTI" /\ f[v] = {u.where[v]} /\ a[v] = {}
        BY <1>1, <2>4, <2>5 DEF Recorded
      <3>3. ASSUME NEW v \in DOMAIN u.multi
            PROVE  u.multi[v] = f[v] \cup a[v] /\ (v \in DOMAIN u.where \/ a[v] # {})
        <4>1. CASE v = w
          BY <1>1, <1>2, <2>3, <2>4, <4>1
        <4>2. CASE v # w
          BY <1>1, <2>4, <4>2 DEF Recorded
        <4> QED BY <4>1, <4>2
      <3> QED BY <3>1, <3>2, <3>3 DEF Recorded
    <2> QED BY <1>0, <1>1, <2>6
  <1>3. CASE ~(w \in DOMAIN t.where /\ t.where[w] # "MULTI")
    <2>1. u = t
      BY <1>0, <1>3 DEF ToMulti
    <2> QED BY <1>0, <1>1, <2>1
  <1> QED BY <1>2, <1>3

\* One more issue of form w, which is recorded if its replacement is.
LEMMA AddRecorded ==
    ASSUME NEW t, Sound(t), NEW s \in Sections, NEW w \in Forms, NEW repls,
           repls = {} \/ \E r \in Forms : repls = {r},
           repls \cap DOMAIN t.where # {} => w \in DOMAIN t.where,
           NEW f, NEW a, Recorded(t, f, a), \A v \in Forms : a[v] = {}
    PROVE  Recorded(Add(t, s, w, repls), With(f, w, f[w] \cup {s}), a)
  <1>0. PICK moved : moved = IF repls = {} THEN ToMulti(t, w)
                             ELSE ToMulti(ToMulti(t, w), CHOOSE r \in repls : TRUE)
    OBVIOUS
  <1>1. /\ Sound(moved) /\ Recorded(moved, f, a) /\ DOMAIN moved.where = DOMAIN t.where
        /\ NoArray(moved, w) /\ Lone(moved) \subseteq Lone(t)
    <2>1. PICK u : u = ToMulti(t, w)
      OBVIOUS
    <2>2. /\ Sound(u) /\ Recorded(u, f, a) /\ DOMAIN u.where = DOMAIN t.where
          /\ NoArray(u, w) /\ Lone(u) \subseteq Lone(t)
      BY <2>1, ToMultiRecorded
    <2>3. CASE repls = {}
      BY <1>0, <2>1, <2>2, <2>3
    <2>4. CASE repls # {}
      <3>1. PICK r \in Forms : r = CHOOSE x \in repls : TRUE
        BY <2>4
      <3>2. moved = ToMulti(u, r)
        BY <1>0, <2>1, <2>4, <3>1
      <3>3. /\ Sound(moved) /\ Recorded(moved, f, a) /\ DOMAIN moved.where = DOMAIN u.where
            /\ Lone(moved) \subseteq Lone(u)
        BY <2>2, <3>2, ToMultiRecorded
      <3>4. \A v \in DOMAIN u.where : u.where[v] = "MULTI" => moved.where[v] = "MULTI"
        BY <2>2, <3>2, ToMultiSound
      <3> QED BY <2>2, <3>3, <3>4 DEF NoArray
    <2> QED BY <2>3, <2>4
  <1>2. Lone(t) = {}
    BY DEF Recorded, Lone, Sound, TablesOK
  <1>3. PICK g : g = With(f, w, f[w] \cup {s})
    OBVIOUS
  <1>4. g[w] = f[w] \cup {s} /\ \A v \in Forms : v # w => g[v] = f[v]
    BY <1>3, WithIs
  <1>5. PICK u : u = Add(t, s, w, repls)
    OBVIOUS
  <1>6. DOMAIN moved.where \subseteq Forms /\ DOMAIN moved.multi \subseteq Forms
    BY <1>1 DEF Sound, TablesOK
  <1>7. CASE w \in DOMAIN t.where
    <2>1. u = [moved EXCEPT !.multi = WithIssue(@, w, s)]
      BY <1>0, <1>5, <1>7 DEF Add
    <2>2. u.where = moved.where /\ u.multi = WithIssue(moved.multi, w, s)
      BY <1>1, <2>1 DEF Sound, TablesOK
    <2>3. moved.where[w] = "MULTI" /\ w \in DOMAIN moved.multi /\ w \in DOMAIN moved.where
      BY <1>1, <1>7 DEF NoArray, Recorded
    <2>4. moved.multi[w] = f[w] \cup a[w] /\ a[w] = {}
      BY <1>1, <2>3 DEF Recorded
    <2>5. /\ DOMAIN u.multi = DOMAIN moved.multi /\ u.multi[w] = f[w] \cup {s}
          /\ \A v \in DOMAIN moved.multi : v # w => u.multi[v] = moved.multi[v]
      <3>1. PICK m, n : m = moved.multi /\ n = u.multi
        OBVIOUS
      <3>2. n = Store(m, w, f[w] \cup {s})
        BY <2>2, <2>3, <2>4, <3>1 DEF WithIssue
      <3> QED BY <2>3, <3>1, <3>2 DEF Store
    <2>6. \A v \in Forms : v \in DOMAIN u.where <=> g[v] # {}
      BY <1>1, <1>4, <2>2, <2>3 DEF Recorded
    <2>7. ASSUME NEW v \in DOMAIN u.where
          PROVE  \/ u.where[v] = "MULTI" /\ v \in DOMAIN u.multi
                 \/ u.where[v] # "MULTI" /\ g[v] = {u.where[v]} /\ a[v] = {}
      <3>1. CASE v = w
        BY <2>2, <2>3, <2>5, <3>1
      <3>2. CASE v # w
        BY <1>1, <1>4, <1>6, <2>2, <2>5, <3>2 DEF Recorded
      <3> QED BY <3>1, <3>2
    <2>8. ASSUME NEW v \in DOMAIN u.multi
          PROVE  u.multi[v] = g[v] \cup a[v] /\ (v \in DOMAIN u.where \/ a[v] # {})
      <3>1. CASE v = w
        BY <1>4, <2>2, <2>3, <2>4, <2>5, <3>1
      <3>2. CASE v # w
        BY <1>1, <1>4, <1>6, <2>2, <2>5, <3>2 DEF Recorded
      <3> QED BY <3>1, <3>2
    <2>9. Recorded(u, g, a)
      BY <2>6, <2>7, <2>8 DEF Recorded
    <2> QED BY <1>3, <1>5, <2>9
  <1>8. CASE w \notin DOMAIN t.where
    <2>1. ({w} \cup repls) \cap DOMAIN t.where = {}
      BY <1>8
    <2>2. u.multi = moved.multi /\ u.where = Store(moved.where, w, s)
      BY <1>0, <1>5, <2>1 DEF Add
    <2>3. w \notin DOMAIN moved.where /\ w \notin DOMAIN moved.multi
      BY <1>1, <1>2, <1>8 DEF Lone
    <2>4. /\ DOMAIN u.where = DOMAIN moved.where \cup {w} /\ u.where[w] = s
          /\ \A v \in DOMAIN moved.where : u.where[v] = moved.where[v]
      <3>1. PICK m, n : m = moved.where /\ n = u.where
        OBVIOUS
      <3>2. n = Store(m, w, s)
        BY <2>2, <3>1
      <3> QED BY <2>3, <3>1, <3>2 DEF Store
    <2>5. f[w] = {} /\ g[w] = {s} /\ a[w] = {} /\ s # "MULTI"
      BY <1>1, <1>4, <2>3 DEF Recorded, Sections
    <2>6. \A v \in Forms : v \in DOMAIN u.where <=> g[v] # {}
      BY <1>1, <1>4, <2>4, <2>5 DEF Recorded
    <2>7. ASSUME NEW v \in DOMAIN u.where
          PROVE  \/ u.where[v] = "MULTI" /\ v \in DOMAIN u.multi
                 \/ u.where[v] # "MULTI" /\ g[v] = {u.where[v]} /\ a[v] = {}
      <3>1. CASE v = w
        BY <2>4, <2>5, <3>1
      <3>2. CASE v # w
        BY <1>1, <1>4, <1>6, <2>2, <2>4, <3>2 DEF Recorded
      <3> QED BY <3>1, <3>2
    <2>8. ASSUME NEW v \in DOMAIN u.multi
          PROVE  u.multi[v] = g[v] \cup a[v] /\ (v \in DOMAIN u.where \/ a[v] # {})
      <3>1. v # w /\ v \in DOMAIN moved.multi /\ v \in Forms
        BY <1>6, <2>2, <2>3
      <3> QED BY <1>1, <1>4, <2>2, <2>4, <3>1 DEF Recorded
    <2>9. Recorded(u, g, a)
      BY <2>6, <2>7, <2>8 DEF Recorded
    <2> QED BY <1>3, <1>5, <2>9
  <1> QED BY <1>7, <1>8

\* A parallel is recorded with its issues and as one of several.
LEMMA AmbiguousRecorded ==
    ASSUME NEW t, Sound(t), NEW w \in Forms, NEW f, NEW a, Recorded(t, f, a),
           a[w] \subseteq {"AMB"}
    PROVE  Recorded(Ambiguous(t, w), f, With(a, w, {"AMB"}))
  <1>1. PICK b : b = With(a, w, {"AMB"})
    OBVIOUS
  <1>2. b[w] = {"AMB"} /\ \A v \in Forms : v # w => b[v] = a[v]
    BY <1>1, WithIs
  <1>3. PICK u : u = Ambiguous(t, w)
    OBVIOUS
  <1>4. CASE w \in DOMAIN t.where
    <2>1. PICK moved : moved = ToMulti(t, w)
      OBVIOUS
    <2>2. /\ Sound(moved) /\ Recorded(moved, f, a) /\ DOMAIN moved.where = DOMAIN t.where
          /\ NoArray(moved, w)
      BY <2>1, ToMultiRecorded
    <2>3. DOMAIN moved.where \subseteq Forms /\ DOMAIN moved.multi \subseteq Forms
      BY <2>2 DEF Sound, TablesOK
    <2>4. moved.where[w] = "MULTI" /\ w \in DOMAIN moved.multi /\ w \in DOMAIN moved.where
      BY <1>4, <2>2 DEF NoArray, Recorded
    <2>5. moved.multi[w] = f[w] \cup a[w]
      BY <2>2, <2>4 DEF Recorded
    <2>6. u = [moved EXCEPT !.multi = WithIssue(@, w, "AMB")]
      BY <1>3, <1>4, <2>1 DEF Ambiguous
    <2>7. u.where = moved.where /\ u.multi = WithIssue(moved.multi, w, "AMB")
      BY <2>2, <2>6 DEF Sound, TablesOK
    <2>8. /\ DOMAIN u.multi = DOMAIN moved.multi /\ u.multi[w] = f[w] \cup {"AMB"}
          /\ \A v \in DOMAIN moved.multi : v # w => u.multi[v] = moved.multi[v]
      <3>1. PICK m, n : m = moved.multi /\ n = u.multi
        OBVIOUS
      <3>2. (f[w] \cup a[w]) \cup {"AMB"} = f[w] \cup {"AMB"}
        OBVIOUS
      <3>3. n = Store(m, w, f[w] \cup {"AMB"})
        BY <2>4, <2>5, <2>7, <3>1, <3>2 DEF WithIssue
      <3> QED BY <2>4, <3>1, <3>3 DEF Store
    <2>9. Recorded(u, f, b)
      <3>1. \A v \in Forms : v \in DOMAIN u.where <=> f[v] # {}
        BY <2>2, <2>7 DEF Recorded
      <3>2. ASSUME NEW v \in DOMAIN u.where
            PROVE  \/ u.where[v] = "MULTI" /\ v \in DOMAIN u.multi
                   \/ u.where[v] # "MULTI" /\ f[v] = {u.where[v]} /\ b[v] = {}
        <4>1. CASE v = w
          BY <2>4, <2>7, <2>8, <4>1
        <4>2. CASE v # w
          BY <1>2, <2>2, <2>3, <2>7, <2>8, <4>2 DEF Recorded
        <4> QED BY <4>1, <4>2
      <3>3. ASSUME NEW v \in DOMAIN u.multi
            PROVE  u.multi[v] = f[v] \cup b[v] /\ (v \in DOMAIN u.where \/ b[v] # {})
        <4>1. CASE v = w
          BY <1>2, <2>8, <4>1
        <4>2. CASE v # w
          BY <1>2, <2>2, <2>3, <2>7, <2>8, <4>2 DEF Recorded
        <4> QED BY <4>1, <4>2
      <3> QED BY <3>1, <3>2, <3>3 DEF Recorded
    <2> QED BY <1>1, <1>3, <2>9
  <1>5. CASE w \notin DOMAIN t.where
    <2>1. u = [[t EXCEPT !.multi = Store(@, w, {})] EXCEPT !.multi = WithIssue(@, w, "AMB")]
      BY <1>3, <1>5 DEF Ambiguous
    <2>2. u.where = t.where /\ u.multi = WithIssue(Store(t.multi, w, {}), w, "AMB")
      BY <2>1 DEF Sound, TablesOK
    <2>3. /\ DOMAIN u.multi = DOMAIN t.multi \cup {w} /\ u.multi[w] = {"AMB"}
          /\ \A v \in DOMAIN t.multi : v # w => u.multi[v] = t.multi[v]
      <3>1. PICK m, n, o : m = t.multi /\ n = u.multi /\ o = Store(m, w, {})
        OBVIOUS
      <3>2. DOMAIN o = DOMAIN m \cup {w} /\ o[w] = {} /\ \A v \in DOMAIN m : v # w => o[v] = m[v]
        BY <3>1 DEF Store
      <3>3. n = Store(o, w, {"AMB"})
        BY <2>2, <3>1, <3>2 DEF WithIssue
      <3> QED BY <3>1, <3>2, <3>3 DEF Store
    <2>4. f[w] = {}
      BY <1>5 DEF Recorded
    <2>5. DOMAIN t.where \subseteq Forms /\ DOMAIN t.multi \subseteq Forms
      BY DEF Sound, TablesOK
    <2>6. Recorded(u, f, b)
      <3>1. \A v \in Forms : v \in DOMAIN u.where <=> f[v] # {}
        BY <2>2 DEF Recorded
      <3>2. ASSUME NEW v \in DOMAIN u.where
            PROVE  \/ u.where[v] = "MULTI" /\ v \in DOMAIN u.multi
                   \/ u.where[v] # "MULTI" /\ f[v] = {u.where[v]} /\ b[v] = {}
        BY <1>2, <1>5, <2>2, <2>3, <2>5 DEF Recorded
      <3>3. ASSUME NEW v \in DOMAIN u.multi
            PROVE  u.multi[v] = f[v] \cup b[v] /\ (v \in DOMAIN u.where \/ b[v] # {})
        <4>1. CASE v = w
          BY <1>2, <2>3, <2>4, <4>1
        <4>2. CASE v # w
          BY <1>2, <2>2, <2>3, <2>5, <4>2 DEF Recorded
        <4> QED BY <4>1, <4>2
      <3> QED BY <3>1, <3>2, <3>3 DEF Recorded
    <2> QED BY <1>1, <1>3, <2>6
  <1> QED BY <1>4, <1>5

\* a and the parallels of p among the first n words of the key.
Marked(a, p, n) == [w \in Forms |-> IF \E k \in Parallels(p) : k <= n /\ key[k] = w
                                    THEN {"AMB"} ELSE a[w]]

LEMMA AllAmbiguousRecorded ==
    ASSUME NEW p, key \in Seq(Forms), Sound(Tables), NEW f, NEW a, Recorded(Tables, f, a),
           \A w \in Forms : a[w] \subseteq {"AMB"}
    PROVE  Recorded(AllAmbiguous(p), f, Marked(a, p, Len(key)))
  <1>1. Len(key) \in Nat /\ DOMAIN key = 1..Len(key) /\ \A n \in 1..Len(key) : key[n] \in Forms
    OBVIOUS
  <1>2. PICK u : IsSteps(p, u) /\ AllAmbiguous(p) = u[Len(key)]
    BY <1>1, StepsExist DEF AllAmbiguous, IsSteps
  <1>3. \A n \in 0..Len(key) :
           u[n] = IF n = 0 THEN Tables
                  ELSE IF n \in Parallels(p) THEN Ambiguous(u[n - 1], key[n]) ELSE u[n - 1]
    BY <1>2, Zenon DEF IsSteps
  <1>4. Parallels(p) \subseteq 1..Len(key)
    BY <1>1 DEF Parallels
  <1> DEFINE Right(n) == Sound(u[n]) /\ Recorded(u[n], f, Marked(a, p, n))
  <1> DEFINE Wrong == {n \in 0..Len(key) : ~Right(n)}
  <1>5. Wrong = {}
    <2>1. SUFFICES ASSUME Wrong # {} PROVE FALSE
      OBVIOUS
    <2>2. PICK n \in Wrong : \A m \in Wrong : n <= m
      <3>1. Wrong \subseteq Nat
        OBVIOUS
      <3> HIDE DEF Wrong
      <3> QED BY <2>1, <3>1, LeastElement
    <2>3. n \in 0..Len(key) /\ ~Right(n)
      BY <2>2
    <2>4. n # 0
      <3>1. ASSUME n = 0 PROVE FALSE
        <4>1. u[n] = Tables
          BY <1>1, <1>3, <3>1
        <4>2. PICK b : b = Marked(a, p, n)
          OBVIOUS
        <4>3. \A w \in Forms : b[w] = a[w]
          BY <1>4, <3>1, <4>2 DEF Marked
        <4>4. Recorded(Tables, f, b)
          BY <4>3 DEF Recorded, Sound, TablesOK
        <4> QED BY <2>3, <4>1, <4>2, <4>4
      <3> QED BY <3>1
    <2>5. n - 1 \in 0..Len(key) /\ n - 1 \notin Wrong /\ n \in 1..Len(key)
      <3>1. n - 1 \in 0..Len(key) /\ ~(n <= n - 1) /\ n \in 1..Len(key)
        BY <1>1, <2>3, <2>4
      <3> QED BY <2>2, <3>1, Zenon
    <2>6. PICK x, b, c : x = u[n - 1] /\ b = Marked(a, p, n - 1) /\ c = Marked(a, p, n)
      OBVIOUS
    <2>7. Sound(x) /\ Recorded(x, f, b) /\ key[n] \in Forms
      BY <1>1, <2>5, <2>6
    <2>8. \A w \in Forms : /\ b[w] \subseteq {"AMB"}
                           /\ c[w] = IF n \in Parallels(p) /\ w = key[n] THEN {"AMB"} ELSE b[w]
      <3>1. \A k \in Parallels(p) : k <= n <=> k <= n - 1 \/ k = n
        BY <1>4, <2>5
      <3> QED BY <2>5, <2>6, <3>1 DEF Marked
    <2>9. DOMAIN u[n].where \cup DOMAIN u[n].multi \subseteq Forms /\ Sound(u[n])
      <3>1. Sound(Ambiguous(x, key[n]))
        BY <2>7, AmbiguousSound
      <3>2. u[n] = Ambiguous(x, key[n]) \/ u[n] = x
        BY <1>3, <2>3, <2>4, <2>6
      <3> QED BY <2>7, <3>1, <3>2 DEF Sound, TablesOK
    <2>10. \E d : Recorded(u[n], f, d) /\ \A w \in Forms : c[w] = d[w]
      <3>1. CASE n \in Parallels(p)
        <4>1. u[n] = Ambiguous(x, key[n])
          BY <1>3, <2>3, <2>4, <2>6, <3>1
        <4>2. PICK d : d = With(b, key[n], {"AMB"})
          OBVIOUS
        <4>3. Recorded(u[n], f, d)
          BY <2>7, <2>8, <4>1, <4>2, AmbiguousRecorded
        <4>4. \A w \in Forms : c[w] = d[w]
          BY <2>8, <3>1, <4>2, WithIs
        <4> QED BY <4>3, <4>4
      <3>2. CASE n \notin Parallels(p)
        <4>1. u[n] = x
          BY <1>3, <2>3, <2>4, <2>6, <3>2
        <4> QED BY <2>7, <2>8, <3>2, <4>1
      <3> QED BY <3>1, <3>2
    <2>11. Recorded(u[n], f, c)
      <3>1. PICK d : Recorded(u[n], f, d) /\ \A w \in Forms : c[w] = d[w]
        BY <2>10
      <3> QED BY <2>9, <3>1 DEF Recorded
    <2> QED BY <2>3, <2>6, <2>9, <2>11
  <1>6. Len(key) \in 0..Len(key)
    BY <1>1
  <1> QED BY <1>2, <1>5, <1>6
----------------------------------------------------------------------------
\* What the passes have found so far, and which parallels have been met.

Kinds == {"ABV", "ENC", "PRF", "HID"}

\* The passes before that for s.
Earlier(s) == CASE s = "ABV" -> {}
                [] s = "ENC" -> {"ABV"}
                [] s = "PRF" -> {"ABV", "ENC"}
                [] s = "HID" -> {"ABV", "ENC", "PRF"}

Met(s, w) == IF pc = s THEN \E n \in 1..(pos - 1) : key[n] = w ELSE pc \notin Earlier(s)

Found == [w \in Forms |-> {s \in Kinds : Met(s, w) /\ Due(s, w)}]

SetMet(p) == \/ pc \in {"write", "history", "end"}
             \/ pc = "AMB" /\ \E n \in Parallels(p) : n < pos

OneOfSeveral(w) == w \in Range(key) /\ NewAmbiguity(PlainOf[w])

Several == [w \in Forms |-> IF OneOfSeveral(w) /\ SetMet(PlainOf[w]) THEN {"AMB"} ELSE {}]

RecordedNow == Recorded(Tables, Found, Several)

\* An automatic abbreviation ends the program before the report is written.
Clean == autoFound["ABV"] = {}

ListInv ==
    /\ Clean /\ outcome # "failed" => RecordedNow
    /\ outcome = "failed" => pc = "end"
    /\ report # {} => /\ Clean /\ outcome # "failed" /\ pc \in {"history", "end"}
                      /\ report = Entries

\* Only forms count.
LEMMA RecordedSame ==
    ASSUME NEW t, Sound(t), NEW f, NEW a, Recorded(t, f, a), NEW g, NEW b,
           \A w \in Forms : g[w] = f[w] /\ b[w] = a[w],
           NEW u, u.where = t.where, u.multi = t.multi
    PROVE  Recorded(u, g, b)
  <1>1. DOMAIN t.where \subseteq Forms /\ DOMAIN t.multi \subseteq Forms
    BY DEF Sound, TablesOK
  <1> QED BY <1>1 DEF Recorded

LEMMA FoundIs ==
    \A w \in Forms : /\ Found[w] = {s \in Kinds : Met(s, w) /\ Due(s, w)}
                     /\ Several[w] = IF OneOfSeveral(w) /\ SetMet(PlainOf[w])
                                     THEN {"AMB"} ELSE {}
  BY DEF Found, Several

LEMMA FoundIsNext ==
    \A w \in Forms : /\ Found'[w] = {s \in Kinds : Met(s, w)' /\ Due(s, w)'}
                     /\ Several'[w] = IF OneOfSeveral(w)' /\ SetMet(PlainOf[w])'
                                      THEN {"AMB"} ELSE {}
  BY DEF Found, Several

\* Whether an issue is to be reported changes with the automatic list only.
LEMMA DueStays ==
    ASSUME UNCHANGED data, NEW s, NEW w, w \in DOMAIN autotbl' <=> w \in DOMAIN autotbl
    PROVE  Due(s, w)' <=> Due(s, w)
  BY DEF Due, Asked, AskedPerfect, data

LEMMA SeveralStays ==
    ASSUME UNCHANGED data, NEW w
    PROVE  OneOfSeveral(w)' <=> OneOfSeveral(w)
  BY DEF OneOfSeveral, NewAmbiguity, Parallels, data

LEMMA WordOfKey ==
    ASSUME IInv, pos <= Len(key)
    PROVE  Word \in Range(key) /\ Word \in Forms
  <1>1. key \in Seq(Forms) /\ pos \in 1..Len(key) /\ Word \in Forms
    BY InvSound
  <1> QED BY <1>1 DEF Word, Range

\* The pass for s has found whatever its next word shows.
Stable(s) == \A r \in Kinds : r = s \/ s \notin Earlier(r) =>
                \A w \in Forms : Due(r, w)' <=> Due(r, w)

LEMMA PassFound ==
    ASSUME IInv, NEW s \in Kinds, pc = s, pos <= Len(key), NextWord, Stable(s)
    PROVE  /\ Due(s, Word) =>
                 \A w \in Forms : Found'[w] = With(Found, Word, Found[Word] \cup {s})[w]
           /\ ~Due(s, Word) => \A w \in Forms : Found'[w] = Found[w]
           /\ \A w \in Forms : Several'[w] = {} /\ Several[w] = {}
  <1>1. pc' = s /\ pos' = pos + 1 /\ UNCHANGED data /\ key' = key
    BY DEF NextWord, data
  <1>2. pos \in 1..Len(key) /\ Word = key[pos] /\ Word \in Forms
    BY InvSound DEF Word
  <1>3. s \notin {"AMB", "write", "history", "end"} /\ s \notin Earlier(s)
    BY DEF Kinds, Earlier
  <1>4. ASSUME NEW r \in Kinds, NEW w \in Forms
        PROVE  Met(r, w)' <=> Met(r, w) \/ (r = s /\ w = Word)
    <2>1. CASE r = s
      <3>1. \A n \in 1..(pos' - 1) : n \in 1..(pos - 1) \/ n = pos
        BY <1>1, <1>2
      <3>2. \A n \in 1..(pos - 1) : n \in 1..(pos' - 1)
        BY <1>1, <1>2
      <3>3. pos \in 1..(pos' - 1)
        BY <1>1, <1>2
      <3> QED BY <1>1, <1>2, <2>1, <3>1, <3>2, <3>3 DEF Met
    <2>2. CASE r # s
      BY <1>1, <2>2 DEF Met
    <2> QED BY <2>1, <2>2
  <1>5. ASSUME NEW r \in Kinds, NEW w \in Forms
        PROVE  Met(r, w)' /\ Due(r, w)' <=>
                  (Met(r, w) /\ Due(r, w)) \/ (r = s /\ w = Word /\ Due(s, Word))
    <2>1. CASE r = s \/ s \notin Earlier(r)
      BY <1>4, <2>1 DEF Stable
    <2>2. CASE r # s /\ s \in Earlier(r)
      BY <1>1, <2>2 DEF Met
    <2> QED BY <2>1, <2>2
  <1>6. \A w \in Forms : Several'[w] = {} /\ Several[w] = {}
    BY <1>1, <1>3, FoundIs, FoundIsNext DEF SetMet
  <1>7. ASSUME NEW w \in Forms
        PROVE  Found'[w] = Found[w] \cup (IF w = Word /\ Due(s, Word) THEN {s} ELSE {})
    BY <1>5, FoundIs, FoundIsNext
  <1>8. PICK f, g, v : f = Found /\ g = Found' /\ v = Found[Word] \cup {s}
    OBVIOUS
  <1>9. \A w \in Forms : With(f, Word, v)[w] = IF w = Word THEN v ELSE f[w]
    BY WithIs
  <1>10. Due(s, Word) => \A w \in Forms : g[w] = With(f, Word, v)[w]
    BY <1>7, <1>8, <1>9
  <1>11. ~Due(s, Word) => \A w \in Forms : g[w] = f[w]
    BY <1>7, <1>8
  <1> QED BY <1>6, <1>8, <1>10, <1>11

LEMMA PassRecorded ==
    ASSUME IInv, RecordedNow, NEW s \in Kinds, pc = s, pos <= Len(key), NextWord, Stable(s),
           NEW repls, repls = {} \/ \E r \in Forms : repls = {r},
           \/ /\ Due(s, Word) /\ Become(Add(Tables, s, Word, repls))
              /\ repls \cap DOMAIN wsections # {} => Word \in DOMAIN wsections
           \/ ~Due(s, Word) /\ UNCHANGED <<arr, multi, wsections>>
    PROVE  RecordedNow'
  <1>1. PICK t : t = Tables
    OBVIOUS
  <1>2. Sound(t) /\ t.where = wsections /\ t.multi = multi /\ Word \in Forms
    BY <1>1, InvSound DEF Tables
  <1>3. PICK f, a, g, b : f = Found /\ a = Several /\ g = Found' /\ b = Several'
    OBVIOUS
  <1>4. /\ Due(s, Word) => \A w \in Forms : g[w] = With(f, Word, f[Word] \cup {s})[w]
        /\ ~Due(s, Word) => \A w \in Forms : g[w] = f[w]
        /\ \A w \in Forms : b[w] = {} /\ a[w] = {}
    BY <1>3, PassFound
  <1>5. Recorded(t, f, a)
    BY <1>1, <1>3 DEF RecordedNow
  <1>6. PICK v : v = Tables'
    OBVIOUS
  <1>7. v.where = wsections' /\ v.multi = multi'
    BY <1>6 DEF Tables
  <1>8. Recorded(v, g, b)
    <2>1. CASE /\ Due(s, Word) /\ Become(Add(Tables, s, Word, repls))
               /\ repls \cap DOMAIN wsections # {} => Word \in DOMAIN wsections
      <3>1. PICK u, h : u = Add(t, s, Word, repls) /\ h = With(f, Word, f[Word] \cup {s})
        OBVIOUS
      <3>2. s \in Sections
        BY DEF Kinds, Sections
      <3>3. Recorded(u, h, a)
        BY <1>2, <1>4, <1>5, <2>1, <3>1, <3>2, AddRecorded
      <3>4. Sound(u)
        <4>1. Word \in Lone(t) => repls \cap DOMAIN t.where # {}
          BY <1>2, <1>4, <1>5 DEF Recorded, Lone
        <4> QED BY <1>2, <3>1, <3>2, <4>1, AddSound
      <3>5. v.where = u.where /\ v.multi = u.multi
        BY <1>1, <1>7, <2>1, <3>1 DEF Become
      <3>6. \A w \in Forms : g[w] = h[w] /\ b[w] = a[w]
        BY <1>4, <2>1, <3>1
      <3> QED BY <3>3, <3>4, <3>5, <3>6, RecordedSame
    <2>2. CASE ~Due(s, Word) /\ UNCHANGED <<arr, multi, wsections>>
      <3>1. v.where = t.where /\ v.multi = t.multi
        BY <1>2, <1>7, <2>2
      <3>2. \A w \in Forms : g[w] = f[w] /\ b[w] = a[w]
        BY <1>4, <2>2
      <3> QED BY <1>2, <1>5, <3>1, <3>2, RecordedSame
    <2> QED BY <2>1, <2>2
  <1> QED BY <1>3, <1>6, <1>8 DEF RecordedNow

\* A pass keeps the record, until an automatic abbreviation is found.
LEMMA PassList ==
    ASSUME ListInv, pc \in Kinds \cup {"ORTH", "AMB"}, NextWord, Clean' => Clean,
           RecordedNow /\ Clean' => RecordedNow'
    PROVE  ListInv'
  <1>1. pc' = pc /\ outcome' = outcome /\ report' = report
    BY DEF NextWord
  <1>2. report = {}
    BY DEF ListInv, Kinds
  <1>3. outcome # "failed"
    BY DEF ListInv, Kinds
  <1>4. Clean' /\ outcome' # "failed" => RecordedNow'
    BY <1>3 DEF ListInv
  <1> QED BY <1>1, <1>2, <1>3, <1>4 DEF ListInv

LEMMA ClassifyCases ==
    ASSUME IInv, NEW s \in Sections, NEW repls, Classify(s, repls)
    PROVE  \/ Word \in oktbl /\ UNCHANGED <<arr, multi, wsections, autoFound>>
           \/ /\ Word \notin oktbl /\ Word \in DOMAIN autotbl /\ UNCHANGED <<arr, multi, wsections>>
              /\ Word \in autoFound'[s]
              /\ \A r \in Sections : r # s => autoFound'[r] = autoFound[r]
           \/ /\ Word \notin oktbl /\ Word \notin DOMAIN autotbl /\ UNCHANGED autoFound
              /\ Become(Add(Tables, s, Word, repls))
  <1>1. DOMAIN autoFound = Sections
    BY DEF IInv
  <1>2. CASE Word \in oktbl
    BY <1>2 DEF Classify
  <1>3. CASE Word \notin oktbl /\ Word \in DOMAIN autotbl
    <2>1. /\ autoFound' = [autoFound EXCEPT ![s] = @ \cup {Word}]
          /\ UNCHANGED <<arr, multi, wsections>>
      BY <1>3 DEF Classify
    <2> QED BY <1>1, <1>3, <2>1
  <1>4. CASE Word \notin oktbl /\ Word \notin DOMAIN autotbl
    BY <1>4 DEF Classify
  <1> QED BY <1>2, <1>3, <1>4

\* If the automatic list loses no form, every pass is stable.
LEMMA AllStable ==
    ASSUME UNCHANGED data, NEW s \in Kinds, DOMAIN autotbl' = DOMAIN autotbl
    PROVE  Stable(s)
  BY DueStays DEF Stable

LEMMA AbbreviationList == IInv /\ ListInv /\ FindAbbreviation => ListInv'
  <1> SUFFICES ASSUME IInv, ListInv, FindAbbreviation PROVE ListInv'
    OBVIOUS
  <1>1. pc = "ABV" /\ pos <= Len(key) /\ NextWord /\ "ABV" \in Sections /\ "ABV" \in Kinds
    BY DEF FindAbbreviation, InPass, Sections, Kinds
  <1>2. Word \in Range(key) /\ UNCHANGED data
    BY <1>1, WordOfKey DEF NextWord
  <1>3. PICK repls : repls = {}
    OBVIOUS
  <1>4. CASE Word \in issues.abv /\ Word \in oktbl
    <2>1. UNCHANGED <<arr, multi, wsections, autoFound>> /\ DOMAIN autotbl' = DOMAIN autotbl
      BY <1>4 DEF FindAbbreviation, Classify
    <2>2. ~Due("ABV", Word)
      BY <1>4 DEF Due, Asked
    <2>3. RecordedNow => RecordedNow'
      BY <1>1, <1>2, <1>3, <2>1, <2>2, AllStable, PassRecorded
    <2> QED BY <1>1, <2>1, <2>3, PassList DEF Clean
  <1>5. CASE Word \in issues.abv /\ Word \notin oktbl /\ Word \in DOMAIN autotbl
    <2>1. Word \in autoFound'["ABV"]
      <3>1. Classify("ABV", repls)
        BY <1>3, <1>5 DEF FindAbbreviation
      <3> QED BY <1>1, <1>5, <3>1, ClassifyCases
    <2>2. ~Clean'
      BY <2>1 DEF Clean
    <2> QED BY <1>1, <2>2, PassList
  <1>6. CASE Word \in issues.abv /\ Word \notin oktbl /\ Word \notin DOMAIN autotbl
    <2>1. Classify("ABV", repls) /\ autotbl' = Restrict(autotbl, DOMAIN autotbl \ {Word})
      BY <1>3, <1>6 DEF FindAbbreviation
    <2>2. Become(Add(Tables, "ABV", Word, repls)) /\ UNCHANGED autoFound
      BY <1>1, <1>6, <2>1, ClassifyCases
    <2>3. DOMAIN autotbl' = DOMAIN autotbl
      BY <1>6, <2>1 DEF Restrict
    <2>4. Due("ABV", Word)
      BY <1>2, <1>6 DEF Due, Asked
    <2>5. RecordedNow => RecordedNow'
      BY <1>1, <1>2, <1>3, <2>2, <2>3, <2>4, AllStable, PassRecorded
    <2> QED BY <1>1, <2>2, <2>5, PassList DEF Clean
  <1>7. CASE Word \notin issues.abv
    <2>1. UNCHANGED <<arr, multi, wsections, autoFound>> /\ DOMAIN autotbl' = DOMAIN autotbl
      BY <1>7 DEF FindAbbreviation, Unremarkable
    <2>2. ~Due("ABV", Word)
      BY <1>7 DEF Due
    <2>3. RecordedNow => RecordedNow'
      BY <1>1, <1>2, <1>3, <2>1, <2>2, AllStable, PassRecorded
    <2> QED BY <1>1, <2>1, <2>3, PassList DEF Clean
  <1> QED BY <1>4, <1>5, <1>6, <1>7

\* A pass after the first that leaves the automatic list alone.
LEMMA LaterList ==
    ASSUME IInv, ListInv, NEW s \in Kinds, s # "ABV", pc = s, pos <= Len(key), NextWord,
           UNCHANGED autotbl, NEW repls, repls = {} \/ \E r \in Forms : repls = {r},
           \/ /\ Classify(s, repls)
              /\ Due(s, Word) <=> Word \notin oktbl /\ Word \notin DOMAIN autotbl
              /\ RecordedNow /\ Due(s, Word) =>
                    (repls \cap DOMAIN wsections # {} => Word \in DOMAIN wsections)
           \/ ~Due(s, Word) /\ UNCHANGED <<arr, multi, wsections, autoFound>>
    PROVE  ListInv'
  <1>1. UNCHANGED data /\ s \in Sections /\ "ABV" \in Sections
    BY DEF NextWord, Kinds, Sections
  <1>2. Stable(s)
    BY <1>1, AllStable
  <1>3. CASE ~Due(s, Word) /\ UNCHANGED <<arr, multi, wsections, autoFound>>
    <2>1. RecordedNow => RecordedNow'
      BY <1>2, <1>3, PassRecorded
    <2> QED BY <1>3, <2>1, PassList DEF Clean
  <1>4. CASE /\ Classify(s, repls)
             /\ Due(s, Word) <=> Word \notin oktbl /\ Word \notin DOMAIN autotbl
             /\ RecordedNow /\ Due(s, Word) =>
                   (repls \cap DOMAIN wsections # {} => Word \in DOMAIN wsections)
    <2>1. /\ autoFound'["ABV"] = autoFound["ABV"]
          /\ \/ ~Due(s, Word) /\ UNCHANGED <<arr, multi, wsections>>
             \/ Due(s, Word) /\ Become(Add(Tables, s, Word, repls))
      BY <1>1, <1>4, ClassifyCases
    <2>2. RecordedNow => RecordedNow'
      BY <1>2, <1>4, <2>1, PassRecorded
    <2> QED BY <2>1, <2>2, PassList DEF Clean
  <1> QED BY <1>3, <1>4

LEMMA EncliticList == IInv /\ ListInv /\ FindEnclitic => ListInv'
  <1> SUFFICES ASSUME IInv, ListInv, FindEnclitic PROVE ListInv'
    OBVIOUS
  <1>1. pc = "ENC" /\ pos <= Len(key) /\ NextWord /\ "ENC" \in Kinds /\ UNCHANGED autotbl
    BY DEF FindEnclitic, InPass, Kinds, Unremarkable
  <1>2. Word \in Range(key)
    BY <1>1, WordOfKey
  <1>3. PICK repls : repls = {}
    OBVIOUS
  <1>4. CASE Word \in issues.enc
    <2>1. Classify("ENC", repls)
      BY <1>3, <1>4 DEF FindEnclitic
    <2>2. Due("ENC", Word) <=> Word \notin oktbl /\ Word \notin DOMAIN autotbl
      BY <1>2, <1>4 DEF Due, Asked
    <2> QED BY <1>1, <1>3, <2>1, <2>2, LaterList
  <1>5. CASE Word \notin issues.enc
    <2>1. UNCHANGED <<arr, multi, wsections, autoFound>>
      BY <1>5 DEF FindEnclitic, Unremarkable
    <2>2. ~Due("ENC", Word)
      BY <1>5 DEF Due
    <2> QED BY <1>1, <1>3, <2>1, <2>2, LaterList
  <1> QED BY <1>4, <1>5

\* What is taken off the automatic list here is not what an earlier pass looked for.
LEMMA PerfectList == IInv /\ ListInv /\ FindPerfect => ListInv'
  <1> SUFFICES ASSUME IInv, ListInv, FindPerfect PROVE ListInv'
    OBVIOUS
  <1>1. pc = "PRF" /\ pos <= Len(key) /\ NextWord /\ "PRF" \in Kinds /\ UNCHANGED data
    BY DEF FindPerfect, InPass, Kinds, NextWord
  <1>2. Word \in Range(key)
    BY <1>1, WordOfKey
  <1>3. PICK repls : repls = {}
    OBVIOUS
  <1>4. CASE Word \notin DOMAIN issues.prf \/ Word \in oktbl
    <2>1. UNCHANGED <<arr, multi, wsections, autoFound, autotbl>>
      BY <1>4 DEF FindPerfect, Unremarkable
    <2>2. ~Due("PRF", Word)
      BY <1>4 DEF Due, AskedPerfect
    <2> QED BY <1>1, <1>3, <2>1, <2>2, LaterList
  <1>5. CASE Word \in DOMAIN issues.prf /\ Word \notin oktbl
    <2>1. PICK opp : opp = issues.prf[Word]
      OBVIOUS
    <2>2. CASE opp \in oktbl \/ (Word \notin DOMAIN autotbl /\ opp \in DOMAIN autotbl)
      <3>1. /\ autotbl' = Restrict(autotbl, DOMAIN autotbl \ {opp})
            /\ Become(Add(Tables, "PRF", Word, repls)) /\ UNCHANGED autoFound
        BY <1>3, <1>5, <2>1, <2>2 DEF FindPerfect
      <3>2. opp \notin issues.abv \cup issues.enc \cup DOMAIN issues.prf
        BY <1>5, <2>1, AnalyzeAssumption DEF IInv, IsIssues
      <3>3. \A w : w # opp => (w \in DOMAIN autotbl' <=> w \in DOMAIN autotbl)
        BY <3>1 DEF Restrict
      <3>4. Stable("PRF")
        <4>1. SUFFICES ASSUME NEW r \in {"ABV", "ENC", "PRF"}, NEW w \in Forms
                       PROVE  Due(r, w)' <=> Due(r, w)
          BY DEF Stable, Kinds, Earlier
        <4>2. CASE w = opp
          <5>1. ~Due(r, w)
            BY <3>2, <4>2 DEF Due, AskedPerfect
          <5>2. issues' = issues
            BY <1>1 DEF data
          <5>3. ~Due(r, w)'
            BY <3>2, <4>2, <5>2 DEF Due, AskedPerfect
          <5> QED BY <5>1, <5>3
        <4>3. CASE w # opp
          BY <1>1, <3>3, <4>3, DueStays
        <4> QED BY <4>2, <4>3
      <3>5. Due("PRF", Word)
        BY <1>2, <1>5, <2>1, <2>2 DEF Due, AskedPerfect
      <3>6. RecordedNow => RecordedNow'
        BY <1>1, <1>3, <3>1, <3>4, <3>5, PassRecorded
      <3> QED BY <1>1, <3>1, <3>6, PassList DEF Clean
    <2>3. CASE ~(opp \in oktbl \/ (Word \notin DOMAIN autotbl /\ opp \in DOMAIN autotbl))
      <3>1. Classify("PRF", repls) /\ UNCHANGED autotbl
        BY <1>3, <1>5, <2>1, <2>3 DEF FindPerfect
      <3>2. Due("PRF", Word) <=> Word \notin oktbl /\ Word \notin DOMAIN autotbl
        BY <1>2, <1>5, <2>1, <2>3 DEF Due, AskedPerfect
      <3> QED BY <1>1, <1>3, <3>1, <3>2, LaterList
    <2> QED BY <2>2, <2>3
  <1> QED BY <1>4, <1>5

\* A replacement is listed only if the form it replaces is: it shares its ending.
LEMMA HiddenList == HiddenOnce => (IInv /\ ListInv /\ FindHidden => ListInv')
  <1> SUFFICES ASSUME HiddenOnce, IInv, ListInv, FindHidden PROVE ListInv'
    OBVIOUS
  <1>1. pc = "HID" /\ pos <= Len(key) /\ NextWord /\ "HID" \in Kinds /\ UNCHANGED autotbl
    BY DEF FindHidden, InPass, Kinds, Unremarkable
  <1>2. Word \in Range(key) /\ Word \in Forms
    BY <1>1, WordOfKey
  <1>3. CASE Word \notin DOMAIN issues.hid
    <2>1. UNCHANGED <<arr, multi, wsections, autoFound>>
      BY <1>3 DEF FindHidden, Unremarkable
    <2>2. ~Due("HID", Word)
      BY <1>3 DEF Due
    <2>3. PICK repls : repls = {}
      OBVIOUS
    <2> QED BY <1>1, <2>1, <2>2, <2>3, LaterList
  <1>4. CASE Word \in DOMAIN issues.hid
    <2>1. PICK r : r = issues.hid[Word]
      OBVIOUS
    <2>2. PICK repls : repls = {r}
      OBVIOUS
    <2>3. IsIssues(issues) /\ issues \in IssueTables
      BY AnalyzeAssumption DEF IInv
    <2>4. r \in Forms /\ r \notin DOMAIN issues.hid
      BY <1>4, <2>1, <2>3 DEF IsIssues, HiddenOnce
    <2>5. /\ Word \in issues.abv <=> r \in issues.abv
          /\ Word \in issues.enc <=> r \in issues.enc
          /\ Word \in DOMAIN issues.prf <=> r \in DOMAIN issues.prf
      BY <1>4, <2>1, <2>3 DEF IsIssues
    <2>6. Classify("HID", repls)
      BY <1>4, <2>1, <2>2 DEF FindHidden
    <2>7. Due("HID", Word) <=> Word \notin oktbl /\ Word \notin DOMAIN autotbl
      BY <1>2, <1>4 DEF Due, Asked
    <2>8. ASSUME RecordedNow, Due("HID", Word), r \in DOMAIN wsections
          PROVE  Word \in DOMAIN wsections
      <3>1. Found[r] # {}
        BY <2>4, <2>8 DEF RecordedNow, Recorded, Tables
      <3>2. PICK s \in Kinds : Met(s, r) /\ Due(s, r)
        BY <2>4, <3>1, FoundIs
      <3>3. s \in {"ABV", "ENC", "PRF"}
        BY <2>4, <3>2 DEF Due, Kinds
      <3>4. Due(s, Word)
        BY <1>2, <2>5, <2>7, <2>8, <3>2, <3>3 DEF Due, Asked, AskedPerfect
      <3>5. Met(s, Word)
        BY <1>1, <3>3 DEF Met, Earlier
      <3>6. Found[Word] # {}
        BY <1>2, <3>4, <3>5, FoundIs
      <3> QED BY <1>2, <2>8, <3>6 DEF RecordedNow, Recorded, Tables
    <2> QED BY <1>1, <2>2, <2>4, <2>6, <2>7, <2>8, LaterList
  <1> QED BY <1>3, <1>4

\* The record speaks of the same forms as before.
LEMMA SameRecord ==
    ASSUME IInv, RecordedNow, UNCHANGED <<multi, wsections>>,
           \A w \in Forms : Found'[w] = Found[w] /\ Several'[w] = Several[w]
    PROVE  RecordedNow'
  <1>1. PICK t, u, f, a, g, b : /\ t = Tables /\ f = Found /\ a = Several
                                /\ u = Tables' /\ g = Found' /\ b = Several'
    OBVIOUS
  <1>2. Sound(t) /\ Recorded(t, f, a) /\ u.where = t.where /\ u.multi = t.multi
    BY <1>1, InvSound DEF RecordedNow, Tables
  <1>3. Recorded(u, g, b)
    BY <1>1, <1>2, RecordedSame
  <1> QED BY <1>1, <1>3 DEF RecordedNow

\* After the first four passes they have nothing left to find.
LEMMA FoundStays ==
    ASSUME UNCHANGED <<data, autotbl>>, pc \notin Kinds, pc' \notin Kinds
    PROVE  \A w \in Forms : Found'[w] = Found[w]
  <1>1. \A r \in Kinds : Earlier(r) \subseteq Kinds
    BY DEF Kinds, Earlier
  <1>2. \A r \in Kinds : \A w \in Forms : Met(r, w) /\ Met(r, w)'
    BY <1>1 DEF Met
  <1>3. \A r \in Kinds : \A w \in Forms : Due(r, w)' <=> Due(r, w)
    BY DueStays
  <1> QED BY <1>2, <1>3, FoundIs, FoundIsNext

LEMMA OrthographyList == IInv /\ ListInv /\ FindOrthography => ListInv'
  <1> SUFFICES ASSUME IInv, ListInv, FindOrthography PROVE ListInv'
    OBVIOUS
  <1>1. pc = "ORTH" /\ NextWord /\ "ORTH" \in Sections /\ "ABV" \in Sections /\ "ORTH" # "ABV"
    BY DEF FindOrthography, InPass, Sections
  <1>2. UNCHANGED <<arr, multi, wsections, autotbl>> /\ autoFound'["ABV"] = autoFound["ABV"]
    <2>1. CASE Word \notin DOMAIN issues.orth
      BY <2>1 DEF FindOrthography, Unremarkable
    <2>2. CASE Word \in DOMAIN issues.orth
      <3>1. PICK repls : repls = {}
        OBVIOUS
      <3>2. Classify("ORTH", repls) /\ UNCHANGED autotbl /\ Word \in oktbl \cup DOMAIN autotbl
        BY <2>2, <3>1 DEF FindOrthography
      <3> QED BY <1>1, <3>2, ClassifyCases
    <2> QED BY <2>1, <2>2
  <1>3. pc' = pc /\ UNCHANGED data
    BY <1>1 DEF NextWord
  <1>4. \A w \in Forms : Found'[w] = Found[w] /\ Several'[w] = Several[w]
    <2>1. \A w \in Forms : Found'[w] = Found[w]
      BY <1>1, <1>2, <1>3, FoundStays DEF Kinds
    <2>2. \A w \in Forms : Several'[w] = {} /\ Several[w] = {}
      BY <1>1, <1>3, FoundIs, FoundIsNext DEF SetMet
    <2> QED BY <2>1, <2>2
  <1>5. RecordedNow => RecordedNow'
    BY <1>2, <1>4, SameRecord
  <1> QED BY <1>1, <1>2, <1>5, PassList DEF Clean

\* The parallels of a word are met together: all of them are marked, or none is listed.
LEMMA AmbiguityList == IInv /\ ListInv /\ FindAmbiguity => ListInv'
  <1> SUFFICES ASSUME IInv, ListInv, FindAmbiguity PROVE ListInv'
    OBVIOUS
  <1>1. /\ pc = "AMB" /\ pos <= Len(key) /\ NextWord /\ UNCHANGED <<autotbl, autoFound>>
        /\ pc' = pc /\ pos' = pos + 1 /\ UNCHANGED data /\ key' = key
    BY DEF FindAmbiguity, InPass, NextWord, data
  <1>2. key \in Seq(Forms) /\ pos \in 1..Len(key) /\ Len(key) \in Nat /\ Sound(Tables)
    BY <1>1, InvSound
  <1>3. PICK p : p = PlainOf[Word]
    OBVIOUS
  <1>4. DOMAIN key = 1..Len(key) /\ \A q : Parallels(q) \subseteq 1..Len(key) /\ Parallels(q)' = Parallels(q)
    BY <1>1, <1>2 DEF Parallels
  <1>5. pos \in Parallels(p)
    BY <1>2, <1>3 DEF Parallels, Word
  <1>6. \A w \in Forms : Found'[w] = Found[w]
    BY <1>1, FoundStays DEF Kinds
  <1>7. \A q : SetMet(q)' <=> SetMet(q) \/ q = p
    <2>1. ASSUME NEW q PROVE SetMet(q)' <=> SetMet(q) \/ pos \in Parallels(q)
      <3>1. \A n \in 1..Len(key) : n < pos + 1 <=> n < pos \/ n = pos
        BY <1>2
      <3> QED BY <1>1, <1>4, <3>1 DEF SetMet
    <2>2. \A q : pos \in Parallels(q) <=> q = p
      BY <1>2, <1>3, <1>4 DEF Parallels, Word
    <2> QED BY <2>1, <2>2
  <1>8. \A w : OneOfSeveral(w)' <=> OneOfSeveral(w)
    BY <1>1, SeveralStays
  <1>9. \A w \in Forms : Several'[w] = IF OneOfSeveral(w) /\ PlainOf[w] = p THEN {"AMB"} ELSE Several[w]
    BY <1>7, <1>8, FoundIs, FoundIsNext
  <1>10. RecordedNow => RecordedNow'
    <2> SUFFICES ASSUME RecordedNow PROVE RecordedNow'
      OBVIOUS
    <2>1. CASE ~NewAmbiguity(p) \/ ~ \A n \in Parallels(p) : pos <= n
      <3>1. UNCHANGED <<arr, multi, wsections>>
        BY <1>3, <2>1 DEF FindAmbiguity
      <3>2. ~NewAmbiguity(p) \/ SetMet(p)
        <4>1. \A n \in Parallels(p) : ~(pos <= n) => n < pos
          BY <1>2, <1>4
        <4> QED BY <1>1, <2>1, <4>1 DEF SetMet
      <3>3. \A w \in Forms : Several'[w] = Several[w]
        BY <1>9, <3>2, FoundIs DEF OneOfSeveral
      <3> QED BY <1>6, <3>1, <3>3, SameRecord
    <2>2. CASE NewAmbiguity(p) /\ \A n \in Parallels(p) : pos <= n
      <3>0. ~SetMet(p)
        BY <1>1, <1>2, <1>4, <2>2 DEF SetMet
      <3>1. CASE \E n \in Parallels(p) : key[n] \in DOMAIN wsections
        <4>1. PICK t, u, f, a, b : /\ t = Tables /\ u = AllAmbiguous(p) /\ f = Found /\ a = Several
                                   /\ b = Marked(a, p, Len(key))
          OBVIOUS
        <4>2. Become(u)
          BY <1>3, <2>2, <3>1, <4>1 DEF FindAmbiguity
        <4>3. \A w \in Forms : a[w] \subseteq {"AMB"}
          BY <4>1, FoundIs
        <4>4. Recorded(u, f, b) /\ Sound(u)
          BY <1>2, <4>1, <4>3, AllAmbiguousRecorded, AllAmbiguousSound
             DEF RecordedNow, SameWords
        <4>5. PICK v, g, c : v = Tables' /\ g = Found' /\ c = Several'
          OBVIOUS
        <4>6. v.where = u.where /\ v.multi = u.multi
          BY <4>2, <4>5 DEF Become, Tables
        <4>7. ASSUME NEW w \in Forms PROVE c[w] = b[w]
          <5>1. OneOfSeveral(w) /\ PlainOf[w] = p <=> \E k \in Parallels(p) : k <= Len(key) /\ key[k] = w
            <6>1. w \in Range(key) <=> \E k \in 1..Len(key) : key[k] = w
              BY <1>4 DEF Range
            <6>2. \A k \in 1..Len(key) : k \in Parallels(p) <=> PlainOf[key[k]] = p
              BY <1>4 DEF Parallels
            <6> QED BY <1>4, <2>2, <6>1, <6>2 DEF OneOfSeveral
          <5>2. b[w] = IF \E k \in Parallels(p) : k <= Len(key) /\ key[k] = w THEN {"AMB"} ELSE a[w]
            BY <4>1 DEF Marked
          <5>3. c[w] = IF OneOfSeveral(w) /\ PlainOf[w] = p THEN {"AMB"} ELSE a[w]
            BY <1>9, <4>1, <4>5
          <5> QED BY <5>1, <5>2, <5>3
        <4>8. Recorded(v, g, c)
          <5>1. \A w \in Forms : g[w] = f[w] /\ c[w] = b[w]
            BY <1>6, <4>1, <4>5, <4>7
          <5> QED BY <4>4, <4>6, <5>1, RecordedSame
        <4> QED BY <4>5, <4>8 DEF RecordedNow
      <3>2. CASE ~ \E n \in Parallels(p) : key[n] \in DOMAIN wsections
        <4>1. UNCHANGED <<multi, wsections>>
          BY <1>3, <2>2, <3>2 DEF FindAmbiguity
        <4>2. PICK t, f, a : t = Tables /\ f = Found /\ a = Several
          OBVIOUS
        <4>3. /\ Recorded(t, f, a) /\ t.where = wsections /\ t.multi = multi
              /\ DOMAIN t.where \subseteq Forms /\ DOMAIN t.multi \subseteq Forms
          BY <1>2, <4>2 DEF RecordedNow, Tables, Sound, TablesOK
        <4>4. ASSUME NEW w \in Forms, OneOfSeveral(w), PlainOf[w] = p
              PROVE  w \notin DOMAIN t.where /\ w \notin DOMAIN t.multi
          <5>1. PICK k \in 1..Len(key) : key[k] = w
            BY <1>4, <4>4 DEF OneOfSeveral, Range
          <5>2. k \in Parallels(p)
            BY <1>4, <4>4, <5>1 DEF Parallels
          <5>3. w \notin DOMAIN t.where
            BY <3>2, <4>3, <5>1, <5>2
          <5>4. a[w] = {}
            BY <3>0, <4>2, <4>4, FoundIs
          <5> QED BY <4>3, <5>3, <5>4 DEF Recorded
        <4>5. PICK v, g, c : v = Tables' /\ g = Found' /\ c = Several'
          OBVIOUS
        <4>6. v.where = t.where /\ v.multi = t.multi
          BY <4>1, <4>2, <4>5 DEF Tables
        <4>7. \A w \in DOMAIN t.where \cup DOMAIN t.multi : c[w] = a[w]
          BY <1>9, <4>2, <4>3, <4>4, <4>5
        <4>8. \A w \in Forms : g[w] = f[w]
          BY <1>6, <4>2, <4>5
        <4>9. Recorded(v, g, c)
          BY <4>3, <4>6, <4>7, <4>8 DEF Recorded
        <4> QED BY <4>5, <4>9 DEF RecordedNow
      <3> QED BY <3>1, <3>2
    <2> QED BY <2>1, <2>2
  <1> QED BY <1>1, <1>10, PassList DEF Clean

\* At the end of a pass every word of the key has been met.
LEMMA EndPassList == IInv /\ ListInv /\ EndPass => ListInv'
  <1> SUFFICES ASSUME IInv, ListInv, EndPass PROVE ListInv'
    OBVIOUS
  <1>1. /\ UNCHANGED <<data, autotbl, multi, wsections, autoFound, report, outcome>>
        /\ key' = key /\ pos' = 1
    BY DEF EndPass, data, FirstWord
  <1>2. key \in Seq(Forms) /\ Len(key) \in Nat /\ pos \in 1..(Len(key) + 1) /\ DOMAIN key = 1..Len(key)
    BY InvSound
  <1>3. \/ pc = "ABV" /\ pc' = "ENC"
        \/ pc = "ENC" /\ pc' = "PRF"
        \/ pc = "PRF" /\ pc' = "HID"
        \/ pc = "HID" /\ pc' = "ORTH"
        \/ pc = "ORTH" /\ pc' = "AMB"
        \/ pc = "AMB" /\ pc' = "write"
    <2>1. PICK i \in 1..6 : pc = Passes[i] /\ pc' = Passes[i + 1]
      BY DEF EndPass
    <2>2. i = 1 \/ i = 2 \/ i = 3 \/ i = 4 \/ i = 5 \/ i = 6
      OBVIOUS
    <2> QED BY <2>1, <2>2 DEF Passes
  <1>4. pc # "ORTH" => pos = Len(key) + 1
    BY <1>2 DEF EndPass
  <1>5. \A w \in Range(key) : \E k \in 1..Len(key) : key[k] = w
    BY <1>2 DEF Range
  <1>6. \A r \in Kinds : \A w \in Forms : Due(r, w)' <=> Due(r, w)
    BY <1>1, DueStays
  <1>7. \A r \in Kinds : \A w \in Forms : Due(r, w) => w \in Range(key)
    BY DEF Due, Asked, AskedPerfect, Kinds
  <1>8. ASSUME NEW r \in Kinds, NEW w \in Forms, w \in Range(key)
        PROVE  Met(r, w)' <=> Met(r, w)
    <2>1. \A n \in 1..(pos' - 1) : FALSE
      BY <1>1
    <2>2. pc # "ORTH" => \E n \in 1..(pos - 1) : key[n] = w
      <3>1. ASSUME pc # "ORTH" PROVE pos - 1 = Len(key)
        BY <1>2, <1>4, <3>1
      <3> QED BY <1>5, <1>8, <3>1
    <2>3. pc = r => Met(r, w)
      BY <2>2 DEF Met, Kinds
    <2>4. pc' = r => ~Met(r, w)'
      BY <2>1 DEF Met
    <2>5. pc = r => pc' # r /\ pc' \notin Earlier(r)
      BY <1>3 DEF Earlier, Kinds
    <2>6. pc' = r => pc # r /\ pc \in Earlier(r)
      BY <1>3 DEF Earlier, Kinds
    <2>7. pc # r /\ pc' # r => (pc \in Earlier(r) <=> pc' \in Earlier(r))
      BY <1>3 DEF Earlier, Kinds
    <2> QED BY <2>3, <2>4, <2>5, <2>6, <2>7 DEF Met
  <1>9. \A w \in Forms : Found'[w] = Found[w]
    <2>1. \A r \in Kinds : \A w \in Forms : Met(r, w)' /\ Due(r, w)' <=> Met(r, w) /\ Due(r, w)
      BY <1>6, <1>7, <1>8
    <2> QED BY <2>1, FoundIs, FoundIsNext
  <1>10. ASSUME NEW w \in Forms PROVE Several'[w] = Several[w]
    <2>1. OneOfSeveral(w)' <=> OneOfSeveral(w)
      BY <1>1, SeveralStays
    <2>2. PICK p : p = PlainOf[w]
      OBVIOUS
    <2>3. OneOfSeveral(w) => (SetMet(p)' <=> SetMet(p))
      <3>1. SUFFICES ASSUME OneOfSeveral(w) PROVE SetMet(p)' <=> SetMet(p)
        OBVIOUS
      <3>2. PICK k \in 1..Len(key) : key[k] = w
        BY <1>5, <3>1 DEF OneOfSeveral
      <3>3. k \in Parallels(p)
        BY <1>2, <2>2, <3>2 DEF Parallels
      <3>4. CASE pc = "AMB" /\ pc' = "write"
        <4>1. k < pos
          BY <1>2, <1>4, <3>4
        <4> QED BY <3>3, <3>4, <4>1 DEF SetMet
      <3>5. CASE pc # "AMB"
        <4>1. ~SetMet(p)
          BY <1>3, <3>5 DEF SetMet
        <4>2. \A n \in Parallels(p)' : ~(n < pos')
          BY <1>1, <1>2 DEF Parallels
        <4>3. ~SetMet(p)'
          BY <1>3, <3>5, <4>2 DEF SetMet
        <4> QED BY <4>1, <4>3
      <3> QED BY <1>3, <3>4, <3>5
    <2> QED BY <2>1, <2>2, <2>3, FoundIs, FoundIsNext
  <1>11. RecordedNow => RecordedNow'
    BY <1>1, <1>9, <1>10, SameRecord
  <1>12. report = {} /\ outcome # "failed"
    BY <1>3 DEF ListInv
  <1>13. Clean' <=> Clean
    BY <1>1 DEF Clean
  <1>14. Clean' /\ outcome' # "failed" => RecordedNow'
    BY <1>11, <1>12, <1>13 DEF ListInv
  <1> QED BY <1>1, <1>12, <1>14 DEF ListInv

\* What the report would show.
LEMMA EntriesStay ==
    ASSUME UNCHANGED <<data, arr, multi>>
    PROVE  Entries' = Entries
  BY DEF Entries, MultiEntries, ListEntries, ParallelEntries, Shown, Printed, Parallels, data

LEMMA EndList ==
    IInv /\ ListInv /\ (OrthographyFails \/ WriteRepairs \/ WriteFails \/ SaveHistory \/ UNCHANGED vars)
       => ListInv'
  <1> SUFFICES ASSUME IInv, ListInv,
                      OrthographyFails \/ WriteRepairs \/ WriteFails \/ SaveHistory \/ UNCHANGED vars
               PROVE  ListInv'
    OBVIOUS
  <1>1. CASE OrthographyFails \/ WriteFails
    <2>1. pc \in {"ORTH", "write"} /\ pc' = "end" /\ outcome' = "failed" /\ report' = report
      BY <1>1 DEF OrthographyFails, InPass, WriteFails, Fail
    <2> QED BY <2>1 DEF ListInv
  <1>2. CASE WriteRepairs \/ SaveHistory
    <2>1. UNCHANGED <<data, autotbl, arr, multi, wsections, autoFound>> /\ key' = key
      BY <1>2 DEF WriteRepairs, SaveHistory, data
    <2>2. pc \in {"write", "history"} /\ pc' \in {"history", "end"} /\ outcome' # "failed"
      BY <1>2 DEF WriteRepairs, SaveHistory, ListInv
    <2>3. \A w \in Forms : Found'[w] = Found[w]
      BY <2>1, <2>2, FoundStays DEF Kinds
    <2>4. \A w \in Forms : Several'[w] = Several[w]
      BY <2>1, <2>2, SeveralStays, FoundIs, FoundIsNext DEF SetMet
    <2>5. RecordedNow => RecordedNow'
      BY <2>1, <2>3, <2>4, SameRecord
    <2>6. Clean' <=> Clean
      BY <2>1 DEF Clean
    <2>7. outcome # "failed"
      BY <2>2 DEF ListInv
    <2>8. report' # {} => Clean /\ pc' \in {"history", "end"} /\ report' = Entries
      BY <1>2, <2>2 DEF WriteRepairs, SaveHistory, ListInv, Clean
    <2>9. Entries' = Entries
      BY <2>1, EntriesStay
    <2> QED BY <2>2, <2>5, <2>6, <2>7, <2>8, <2>9 DEF ListInv
  <1>3. CASE UNCHANGED vars
    <2>1. UNCHANGED <<data, autotbl, pc, pos, arr, multi, wsections, autoFound, report, outcome>>
      BY <1>3 DEF vars
    <2>2. key' = key
      BY <2>1 DEF data
    <2>3. \A r, w : Met(r, w)' <=> Met(r, w)
      BY <2>1, <2>2 DEF Met
    <2>4. \A r, w : Due(r, w)' <=> Due(r, w)
      BY <2>1, DueStays
    <2>5. \A w \in Forms : Found'[w] = Found[w]
      BY <2>3, <2>4, FoundIs, FoundIsNext
    <2>6. \A q : SetMet(q)' <=> SetMet(q)
      BY <2>1, <2>2 DEF SetMet, Parallels
    <2>7. \A w \in Forms : Several'[w] = Several[w]
      BY <2>1, <2>6, SeveralStays, FoundIs, FoundIsNext DEF data
    <2>8. RecordedNow => RecordedNow'
      BY <2>1, <2>5, <2>7, SameRecord
    <2>9. Entries' = Entries
      BY <2>1, EntriesStay
    <2> QED BY <2>1, <2>8, <2>9 DEF ListInv, Clean
  <1> QED BY <1>1, <1>2, <1>3

LEMMA InitList == Init => ListInv
  <1> SUFFICES ASSUME Init PROVE ListInv
    OBVIOUS
  <1>1. /\ pc = "ABV" /\ pos = 1 /\ outcome = "none" /\ report = {}
        /\ DOMAIN multi = {} /\ DOMAIN wsections = {}
    BY DEF Init, EmptyTable, FirstWord
  <1>2. \A r \in Kinds : \A w : ~Met(r, w)
    BY <1>1 DEF Met, Kinds, Earlier
  <1>3. \A w \in Forms : Found[w] = {}
    BY <1>2, FoundIs
  <1>4. RecordedNow
    BY <1>1, <1>3 DEF RecordedNow, Recorded, Tables
  <1> QED BY <1>1, <1>4 DEF ListInv

----------------------------------------------------------------------------
\* The plain words listed as ambiguous: no form of theirs has another issue.
AmbList ==
    /\ arr["AMB"] = << >> \/ pc \in {"AMB", "write", "history", "end"}
    /\ \A p \in Range(arr["AMB"]) :
          NewAmbiguity(p) /\ \A n \in Parallels(p) : key[n] \notin DOMAIN wsections

LEMMA SetsStay ==
    ASSUME UNCHANGED data, NEW p
    PROVE  (NewAmbiguity(p)' <=> NewAmbiguity(p)) /\ Parallels(p)' = Parallels(p) /\ key' = key
  BY DEF NewAmbiguity, Parallels, data

\* If nothing is listed, nothing is to be shown.
LEMMA NothingAmbiguous ==
    ASSUME arr["AMB"] = << >>
    PROVE  AmbList
  <1>1. Range(arr["AMB"]) = {}
    BY DEF Range
  <1> QED BY <1>1 DEF AmbList

LEMMA AmbListStays ==
    ASSUME AmbList, UNCHANGED <<data, wsections>>, arr'["AMB"] = arr["AMB"],
           \/ arr["AMB"] = << >>
           \/ pc' \in {"AMB", "write", "history", "end"}
    PROVE  AmbList'
  <1>1. \A p : /\ NewAmbiguity(p)' <=> NewAmbiguity(p)
               /\ Parallels(p)' = Parallels(p) /\ key' = key
    BY SetsStay
  <1> QED BY <1>1 DEF AmbList

\* The first five passes list no plain word.
LEMMA PassAmbList ==
    ASSUME IInv, AmbList, pos <= Len(key), NEW s \in Sections, NEW repls,
           repls = {} \/ \E r \in Forms : repls = {r},
           pc \in Sections,
           \/ UNCHANGED <<arr, multi, wsections>>
           \/ Become(Add(Tables, s, Word, repls))
    PROVE  AmbList'
  <1>1. arr["AMB"] = << >>
    BY DEF AmbList, Sections
  <1>2. CASE UNCHANGED <<arr, multi, wsections>>
    BY <1>1, <1>2, NothingAmbiguous DEF AmbList, Range
  <1>3. CASE Become(Add(Tables, s, Word, repls))
    <2>1. PICK t : t = Tables
      OBVIOUS
    <2>2. Sound(t) /\ Word \in Forms /\ t.arr = arr
      BY <2>1, InvSound DEF Tables
    <2>3. Add(t, s, Word, repls).arr["AMB"] = arr["AMB"]
      BY <2>2, AddKeepsWords
    <2>4. arr'["AMB"] = << >>
      BY <1>1, <1>3, <2>1, <2>3 DEF Become
    <2> QED BY <2>4 DEF AmbList, Range
  <1> QED BY <1>2, <1>3

LEMMA EarlyAmbList ==
    ASSUME IInv, AmbList,
           FindAbbreviation \/ FindEnclitic \/ FindPerfect \/ FindHidden \/ FindOrthography
    PROVE  AmbList'
  <1>1. pos <= Len(key) /\ pc \in Sections
    BY DEF FindAbbreviation, FindEnclitic, FindPerfect, FindHidden, FindOrthography, InPass, Sections
  <1>2. ASSUME NEW s \in Sections, NEW repls,
               repls = {} \/ \E r \in Forms : repls = {r},
               Classify(s, repls) \/ Become(Add(Tables, s, Word, repls)) \/ Unremarkable
        PROVE  AmbList'
    <2>1. UNCHANGED <<arr, multi, wsections>> \/ Become(Add(Tables, s, Word, repls))
      BY <1>2 DEF Classify, Unremarkable
    <2> QED BY <1>1, <1>2, <2>1, PassAmbList
  <1>3. PICK none : none = {}
    OBVIOUS
  <1>4. {"ABV", "ENC", "PRF", "HID", "ORTH"} \subseteq Sections
    BY DEF Sections
  <1>5. CASE FindAbbreviation
    <2>1. Classify("ABV", none) \/ Unremarkable
      BY <1>3, <1>5 DEF FindAbbreviation
    <2> QED BY <1>2, <1>3, <1>4, <2>1
  <1>6. CASE FindEnclitic
    <2>1. Classify("ENC", none) \/ Unremarkable
      BY <1>3, <1>6 DEF FindEnclitic
    <2> QED BY <1>2, <1>3, <1>4, <2>1
  <1>7. CASE FindPerfect
    <2>1. Classify("PRF", none) \/ Become(Add(Tables, "PRF", Word, none)) \/ Unremarkable
      BY <1>3, <1>7 DEF FindPerfect
    <2> QED BY <1>2, <1>3, <1>4, <2>1
  <1>8. CASE FindHidden
    <2>1. CASE Word \in DOMAIN issues.hid
      <3>1. PICK repls : repls = {issues.hid[Word]}
        OBVIOUS
      <3>2. \E r \in Forms : repls = {r}
        BY <2>1, <3>1, AnalyzeAssumption DEF IInv, IsIssues
      <3>3. Classify("HID", repls)
        BY <1>8, <2>1, <3>1 DEF FindHidden
      <3> QED BY <1>2, <1>4, <3>2, <3>3
    <2>2. CASE Word \notin DOMAIN issues.hid
      <3>1. Unremarkable
        BY <1>8, <2>2 DEF FindHidden
      <3> QED BY <1>2, <1>3, <1>4, <3>1
    <2> QED BY <2>1, <2>2
  <1>9. CASE FindOrthography
    <2>1. Classify("ORTH", none) \/ Unremarkable
      BY <1>3, <1>9 DEF FindOrthography
    <2> QED BY <1>2, <1>3, <1>4, <2>1
  <1> QED BY <1>5, <1>6, <1>7, <1>8, <1>9

\* In the last pass nothing new is listed for a single form.
LEMMA LastAmbList ==
    ASSUME IInv, AmbList, FindAmbiguity
    PROVE  AmbList'
  <1>1. pc = "AMB" /\ pc' = "AMB" /\ UNCHANGED data /\ pos <= Len(key)
    BY DEF FindAmbiguity, InPass, NextWord
  <1>2. Sound(Tables) /\ key \in Seq(Forms)
    BY InvSound
  <1>3. PICK p : p = PlainOf[Word]
    OBVIOUS
  <1>4. \A q : /\ NewAmbiguity(q)' <=> NewAmbiguity(q)
               /\ Parallels(q)' = Parallels(q) /\ key' = key
    BY <1>1, SetsStay
  <1>5. CASE UNCHANGED <<arr, multi, wsections>>
    BY <1>1, <1>5, AmbListStays
  <1>6. CASE Become(AllAmbiguous(p))
    <2>1. SameWords(AllAmbiguous(p))
      BY <1>2, AllAmbiguousSound
    <2>2. DOMAIN wsections' = DOMAIN wsections /\ arr'["AMB"] = arr["AMB"]
      BY <1>6, <2>1 DEF Become, SameWords
    <2> QED BY <1>1, <1>4, <2>2 DEF AmbList
  <1>7. CASE /\ arr' = [arr EXCEPT !["AMB"] = Append(@, p)] /\ wsections' = wsections
             /\ NewAmbiguity(p) /\ ~ \E n \in Parallels(p) : key[n] \in DOMAIN wsections
    <2>1. arr["AMB"] \in Seq(Plains) /\ "AMB" \in DOMAIN arr
      BY DEF IInv, TypeOK
    <2>2. PICK s, u : s = arr["AMB"] /\ u = Append(s, p)
      OBVIOUS
    <2>3. s \in Seq(Plains) /\ arr'["AMB"] = u
      BY <1>7, <2>1, <2>2
    <2>4. \A q \in Range(u) : q = p \/ q \in Range(s)
      <3>1. DOMAIN s = 1..Len(s) /\ Len(s) \in Nat /\ DOMAIN u = 1..(Len(s) + 1)
        BY <2>2, <2>3
      <3>2. u[Len(s) + 1] = p /\ \A i \in 1..Len(s) : u[i] = s[i]
        BY <2>2, <2>3
      <3>3. \A i \in 1..(Len(s) + 1) : i = Len(s) + 1 \/ i \in 1..Len(s)
        BY <3>1
      <3> QED BY <3>1, <3>2, <3>3 DEF Range
    <2>5. \A q \in Range(u) : NewAmbiguity(q) /\ \A n \in Parallels(q) : key[n] \notin DOMAIN wsections
      BY <1>7, <2>2, <2>4 DEF AmbList
    <2> QED BY <1>1, <1>4, <1>7, <2>3, <2>5 DEF AmbList
  <1> QED BY <1>3, <1>5, <1>6, <1>7 DEF FindAmbiguity

LEMMA OtherAmbList ==
    ASSUME AmbList,
           OrthographyFails \/ EndPass \/ WriteRepairs \/ WriteFails \/ SaveHistory \/ UNCHANGED vars
    PROVE  AmbList'
  <1>1. UNCHANGED <<data, arr, wsections>>
    BY DEF OrthographyFails, Fail, EndPass, WriteRepairs, WriteFails, SaveHistory, vars
  <1>2. pc \in {"AMB", "write", "history", "end"} => pc' \in {"AMB", "write", "history", "end"}
    <2>1. CASE EndPass
      <3>1. PICK i \in 1..6 : pc = Passes[i] /\ pc' = Passes[i + 1]
        BY <2>1 DEF EndPass
      <3>2. i = 1 \/ i = 2 \/ i = 3 \/ i = 4 \/ i = 5 \/ i = 6
        OBVIOUS
      <3> QED BY <3>1, <3>2 DEF Passes
    <2>2. CASE OrthographyFails \/ WriteRepairs \/ WriteFails \/ SaveHistory \/ UNCHANGED vars
      BY <2>2 DEF OrthographyFails, Fail, WriteRepairs, WriteFails, SaveHistory, vars
    <2> QED BY <2>1, <2>2
  <1> QED BY <1>1, <1>2, AmbListStays DEF AmbList

LEMMA AmbInvariance == Spec => []AmbList
  <1>1. Init => AmbList
    <2>1. Init => arr["AMB"] = << >>
      BY DEF Init
    <2> QED BY <2>1, NothingAmbiguous
  <1>2. IInv /\ AmbList /\ [Next]_vars => AmbList'
    BY EarlyAmbList, LastAmbList, OtherAmbList DEF Next
  <1> QED BY <1>1, <1>2, Invariance, PTL DEF Spec

\* Analyze Key: each entry of the report (fixkey.lua writerepairsfile) shows all the
\* issues of its form, save that of a perfect in MULTI, whichever arrays the form has
\* been through (add, tomulti), where no replacement shows a hidden vowel again.
THEOREM ListedWithAll ==
    ASSUME HiddenOnce
    PROVE  Spec => []ListedFully
  <1>1. Init => ListInv
    BY InitList
  <1>2. IInv /\ ListInv /\ [Next]_vars => ListInv'
    BY AbbreviationList, EncliticList, PerfectList, HiddenList, OrthographyList, AmbiguityList,
       EndPassList, EndList DEF Next
  <1>3. IInv /\ ListInv /\ AmbList => ListedFully
    <2> SUFFICES ASSUME IInv, ListInv, AmbList, NEW e \in report
                 PROVE  e.shows = TrueIssues(e.form) \ (IF e.section = "MULTI" THEN {"PRF"} ELSE {})
      BY DEF ListedFully
    <2>1. RecordedNow /\ pc \in {"history", "end"} /\ e \in Entries
      BY DEF ListInv
    <2>2. PICK t, f, a : t = Tables /\ f = Found /\ a = Several
      OBVIOUS
    <2>3. /\ Recorded(t, f, a) /\ Sound(t)
          /\ t.arr = arr /\ t.where = wsections /\ t.multi = multi
      BY <2>1, <2>2, InvSound DEF RecordedNow, Tables
    <2>4. ASSUME NEW w \in Forms
          PROVE  TrueIssues(w) = f[w] \cup a[w] /\ TrueIssues(w) \subseteq Kinds \cup {"AMB"}
      <3>1. f[w] = {s \in Kinds : Due(s, w)}
        <4>1. \A r \in Kinds : Met(r, w)
          BY <2>1 DEF Met, Kinds, Earlier
        <4> QED BY <2>2, <4>1, FoundIs
      <3>2. {s \in Sections : Due(s, w)} = {s \in Kinds : Due(s, w)}
        BY DEF Sections, Kinds, Due
      <3>3. a[w] = IF w \in Range(key) /\ NewAmbiguity(PlainOf[w]) THEN {"AMB"} ELSE {}
        BY <2>1, <2>2, FoundIs DEF OneOfSeveral, SetMet
      <3> QED BY <3>1, <3>2, <3>3 DEF TrueIssues
    <2>5. CASE \E w \in DOMAIN multi : e = Entry("MULTI", w, Shown(w))
      <3>1. PICK w \in DOMAIN multi : e = Entry("MULTI", w, Shown(w))
        BY <2>5
      <3>2. e.section = "MULTI" /\ e.form = w /\ e.shows = Shown(w)
        BY <3>1 DEF Entry
      <3>3. w \in Forms /\ multi[w] = TrueIssues(w)
        BY <2>3, <2>4 DEF Recorded, Sound, TablesOK
      <3>4. \A x \in Kinds \cup {"AMB"} : x \in (Printed \ {"PRF"}) \cup {"AMB"} <=> x # "PRF"
        BY DEF Kinds, Printed, Sections
      <3>5. Shown(w) = TrueIssues(w) \ {"PRF"}
        BY <2>4, <3>3, <3>4 DEF Shown
      <3> QED BY <3>2, <3>5
    <2>6. CASE \E s \in Printed : \E i \in DOMAIN arr[s] : e = Entry(s, arr[s][i], {s})
      <3>1. PICK s \in Printed : \E i \in DOMAIN arr[s] : e = Entry(s, arr[s][i], {s})
        BY <2>6
      <3>2. PICK i \in DOMAIN arr[s] : e = Entry(s, arr[s][i], {s})
        BY <3>1
      <3>3. PICK w : w = arr[s][i]
        OBVIOUS
      <3>4. e.section = s /\ e.form = w /\ e.shows = {s} /\ s \in Sections /\ s # "MULTI"
        BY <3>2, <3>3 DEF Entry, Printed, Sections
      <3>5. w \in DOMAIN t.where /\ t.where[w] = s
        BY <2>3, <3>3, <3>4 DEF Sound, Filed
      <3>6. w \in Forms
        BY <2>3, <3>5 DEF Sound, TablesOK
      <3>7. f[w] = {s} /\ a[w] = {}
        BY <2>3, <3>4, <3>5 DEF Recorded
      <3> QED BY <2>4, <3>4, <3>6, <3>7
    <2>7. CASE \E p \in Range(arr["AMB"]) : \E n \in Parallels(p) : e = Entry("AMB", key[n], {"AMB"})
      <3>1. PICK p \in Range(arr["AMB"]) : \E n \in Parallels(p) : e = Entry("AMB", key[n], {"AMB"})
        BY <2>7
      <3>2. PICK n \in Parallels(p) : e = Entry("AMB", key[n], {"AMB"})
        BY <3>1
      <3>3. PICK w : w = key[n]
        OBVIOUS
      <3>4. e.section = "AMB" /\ e.form = w /\ e.shows = {"AMB"}
        BY <3>2, <3>3 DEF Entry
      <3>5. w \in Forms /\ w \in Range(key) /\ PlainOf[w] = p
        <4>1. key \in Seq(Forms) /\ DOMAIN key = 1..Len(key) /\ n \in DOMAIN key /\ PlainOf[key[n]] = p
          BY InvSound DEF Parallels
        <4>2. w \in Range(key)
          BY <3>3, <4>1 DEF Range
        <4> QED BY <3>3, <4>1, <4>2
      <3>6. NewAmbiguity(p) /\ w \notin DOMAIN t.where
        BY <2>3, <3>3 DEF AmbList
      <3>7. f[w] = {}
        BY <2>3, <3>5, <3>6 DEF Recorded
      <3>8. a[w] = {"AMB"}
        BY <2>1, <2>2, <3>5, <3>6, FoundIs DEF OneOfSeveral, SetMet
      <3> QED BY <2>4, <3>4, <3>5, <3>7, <3>8
    <2>8. \/ \E w \in DOMAIN multi : e = Entry("MULTI", w, Shown(w))
          \/ \E s \in Printed : \E i \in DOMAIN arr[s] : e = Entry(s, arr[s][i], {s})
          \/ \E p \in Range(arr["AMB"]) : \E n \in Parallels(p) : e = Entry("AMB", key[n], {"AMB"})
      <3>1. \/ e \in MultiEntries
            \/ \E s \in Printed : e \in ListEntries(s)
            \/ \E p \in Range(arr["AMB"]) : e \in ParallelEntries(p)
        BY <2>1 DEF Entries
      <3> QED BY <3>1 DEF MultiEntries, ListEntries, ParallelEntries
    <2> QED BY <2>5, <2>6, <2>7, <2>8
  <1> QED BY <1>1, <1>2, <1>3, Invariance, AmbInvariance, PTL DEF Spec
============================================================================
