----------------------------- MODULE Texts_proofs -----------------------------
(***************************************************************************)
(* Proofs about module Texts, for any folders, files and first lines: what *)
(* macra.gettexts finds, that each text goes back into its own file, that  *)
(* one of the texts with a first line is converted and no other, and that  *)
(* what a utility replaces is in backup/.                                  *)
(***************************************************************************)
EXTENDS Texts, FiniteSetTheorems, WellFoundedInduction, TLAPS

(* What gettexts finds. *)

\* A nonempty set of naturals has a least element.
LEMMA LeastElement ==
    ASSUME NEW T, T \subseteq Nat, T # {}
    PROVE  \E n \in T : \A m \in T : n <= m
  <1>1. IsWellFoundedOn(OpToRel(<, Nat), Nat)
    BY NatLessThanWellFounded
  <1>2. PICK n \in T : \A m \in T : ~(<<m, n>> \in OpToRel(<, Nat))
    BY <1>1, WFMin, Zenon
  <1>3. ASSUME NEW m \in T PROVE n <= m
    <2>1. ~(m < n)
      BY <1>2 DEF OpToRel
    <2> QED BY <2>1
  <1> QED BY <1>3

\* below[d] is a bound for the entries below folder d, Total one for all of them.
Total == Cardinality(Files \cup Folders)

Bounds(below) ==
    /\ below \in [Folders -> 0..Total]
    /\ \A d \in Folders :
          /\ below[d] + Len(Listing[d]) <= Total
          /\ \A e \in Folders \cap Range(Listing[d]) : below[e] + Len(Listing[e]) <= below[d]

\* How far the walk is at a stage.
Steps(below, p) == below[p[1]] + p[2]

LEMMA BoundsExist == Total \in Nat /\ \E below : Bounds(below)
  <1>1. IsFiniteSet(Files \cup Folders)
    BY FoldersAssumption, FS_Union
  <1>2. Total \in Nat
    BY <1>1, FS_CardinalityType DEF Total
  <1> QED BY <1>2, FoldersAssumption DEF Bounds, Total

\* An entry of a folder that is a folder was walked before; so was the entry before it.
LEMMA StepsBack ==
    ASSUME NEW below, Bounds(below), NEW p \in Stages
    PROVE  /\ Steps(below, p) \in Nat /\ Steps(below, p) <= Total
           /\ p[1] \in Folders /\ p[2] \in 0..Len(Listing[p[1]]) /\ p = <<p[1], p[2]>>
           /\ p[2] # 0 =>
                /\ <<p[1], p[2] - 1>> \in Stages
                /\ Steps(below, <<p[1], p[2] - 1>>) < Steps(below, p)
                /\ Listing[p[1]][p[2]] \in Files \cup Folders
                /\ Listing[p[1]][p[2]] \in Folders =>
                      /\ Whole(Listing[p[1]][p[2]]) \in Stages
                      /\ Steps(below, Whole(Listing[p[1]][p[2]])) < Steps(below, p)
  <1>1. PICK d \in Folders : p \in {d} \X (0..Len(Listing[d]))
    BY DEF Stages
  <1> DEFINE i == p[2]
  <1>2. Listing[d] \in Seq(Files \cup Folders) /\ Len(Listing[d]) \in Nat
    BY TextsAssumption
  <1>3. below[d] \in Nat /\ below[d] + Len(Listing[d]) <= Total /\ Total \in Nat
    BY BoundsExist DEF Bounds
  <1>4. i \in 0..Len(Listing[d]) /\ p = <<d, i>> /\ Steps(below, p) = below[d] + i
    BY <1>1 DEF Steps
  <1> HIDE DEF i
  <1>5. Steps(below, p) \in Nat /\ Steps(below, p) <= Total
    BY <1>2, <1>3, <1>4
  <1>6. ASSUME i # 0
        PROVE  /\ <<d, i - 1>> \in Stages
               /\ Steps(below, <<d, i - 1>>) < Steps(below, p)
               /\ Listing[d][i] \in Files \cup Folders
               /\ Listing[d][i] \in Folders =>
                      /\ Whole(Listing[d][i]) \in Stages
                      /\ Steps(below, Whole(Listing[d][i])) < Steps(below, p)
    <2>1. i \in 1..Len(Listing[d]) /\ i - 1 \in 0..Len(Listing[d])
      BY <1>2, <1>4, <1>6
    <2>2. <<d, i - 1>> \in Stages
      BY <2>1 DEF Stages
    <2>3. Steps(below, <<d, i - 1>>) < Steps(below, p)
      BY <1>2, <1>3, <1>4, <2>1 DEF Steps
    <2>4. Listing[d][i] \in Files \cup Folders /\ Listing[d][i] \in Range(Listing[d])
      BY <1>2, <2>1 DEF Range
    <2>5. ASSUME Listing[d][i] \in Folders
          PROVE  /\ Whole(Listing[d][i]) \in Stages
                 /\ Steps(below, Whole(Listing[d][i])) < Steps(below, p)
      <3>1. PICK e \in Folders : e = Listing[d][i]
        BY <2>5
      <3>2. below[e] + Len(Listing[e]) <= below[d] /\ below[e] \in Nat
        BY <2>4, <3>1 DEF Bounds
      <3>3. Len(Listing[e]) \in Nat
        BY TextsAssumption
      <3>4. Whole(e) \in Stages
        BY <3>3 DEF Whole, Stages
      <3>5. Steps(below, Whole(e)) < Steps(below, p)
        BY <1>3, <1>4, <2>1, <3>2, <3>3 DEF Whole, Steps
      <3> QED BY <3>1, <3>4, <3>5
    <2> QED BY <2>2, <2>3, <2>4, <2>5
  <1> QED BY <1>1, <1>4, <1>5, <1>6 DEF i

\* The walk is well-defined: what is found at a stage needs only what was found before.
LEMMA WalkExists ==
    ASSUME NEW files
    PROVE  \E found : found = [p \in Stages |-> FoundAt(files, found, p)]
  <1>1. PICK below : Bounds(below)
    BY BoundsExist
  <1>2. ASSUME NEW f, NEW g, NEW p \in Stages,
               \A q \in Stages : Steps(below, q) < Steps(below, p) => f[q] = g[q]
        PROVE  FoundAt(files, f, p) = FoundAt(files, g, p)
    <2>1. CASE p[2] = 0
      BY <2>1 DEF FoundAt
    <2>2. CASE p[2] # 0
      <3>1. f[<<p[1], p[2] - 1>>] = g[<<p[1], p[2] - 1>>]
        BY <1>1, <1>2, <2>2, StepsBack
      <3>2. Listing[p[1]][p[2]] \in Folders =>
                f[Whole(Listing[p[1]][p[2]])] = g[Whole(Listing[p[1]][p[2]])]
        BY <1>1, <1>2, <2>2, StepsBack
      <3> QED BY <2>2, <3>1, <3>2 DEF FoundAt
    <2> QED BY <2>1, <2>2
  <1> DEFINE Fits(f, n) ==
                \A p \in Stages : Steps(below, p) < n => f[p] = FoundAt(files, f, p)
             Unfitting == {n \in Nat : ~\E f : Fits(f, n)}
  <1>3. Unfitting = {}
    <2>1. SUFFICES ASSUME Unfitting # {} PROVE FALSE
      OBVIOUS
    <2>2. PICK n \in Unfitting : \A m \in Unfitting : n <= m
      BY <2>1, LeastElement
    <2>3. n # 0
      <3>1. ASSUME NEW p \in Stages PROVE ~(Steps(below, p) < 0)
        <4>1. Steps(below, p) \in Nat
          BY <1>1, StepsBack
        <4> QED BY <4>1
      <3>2. Fits(Stages, 0)
        BY <3>1
      <3> QED BY <3>2
    <2>4. n \in Nat /\ n - 1 \in Nat /\ n - 1 \notin Unfitting
      BY <2>2, <2>3
    <2>5. PICK f : Fits(f, n - 1)
      BY <2>4
    <2> DEFINE g == [p \in Stages |-> FoundAt(files, f, p)]
    <2>6. ASSUME NEW p \in Stages, Steps(below, p) < n
          PROVE  g[p] = FoundAt(files, g, p)
      <3>1. ASSUME NEW q \in Stages, Steps(below, q) < Steps(below, p)
            PROVE  f[q] = g[q]
        <4>1. Steps(below, q) \in Nat /\ Steps(below, p) \in Nat
          BY <1>1, StepsBack
        <4>2. Steps(below, q) < n - 1
          BY <2>4, <2>6, <3>1, <4>1
        <4> QED BY <2>5, <4>2
      <3> HIDE DEF g
      <3>2. FoundAt(files, f, p) = FoundAt(files, g, p)
        BY <1>2, <3>1
      <3> QED BY <3>2 DEF g
    <2>7. Fits(g, n)
      BY <2>6
    <2> QED BY <2>2, <2>7
  <1>4. PICK f : Fits(f, Total + 1)
    <2>1. Total + 1 \in Nat
      BY BoundsExist
    <2> QED BY <1>3, <2>1
  <1> DEFINE g == [p \in Stages |-> f[p]]
  <1>5. ASSUME NEW p \in Stages PROVE g[p] = FoundAt(files, g, p)
    <2>0. Steps(below, p) \in Nat /\ Steps(below, p) <= Total
      BY <1>1, StepsBack
    <2>1. Steps(below, p) < Total + 1
      BY <2>0, BoundsExist
    <2>2. f[p] = FoundAt(files, f, p)
      BY <1>4, <2>1
    <2>3. \A q \in Stages : f[q] = g[q]
      OBVIOUS
    <2> HIDE DEF g
    <2>4. FoundAt(files, f, p) = FoundAt(files, g, p)
      BY <1>2, <2>3
    <2> QED BY <2>2, <2>3, <2>4
  <1>6. g = [p \in Stages |-> FoundAt(files, g, p)]
    <2>1. g = [p \in Stages |-> g[p]]
      OBVIOUS
    <2> HIDE DEF g
    <2> QED BY <1>5, <2>1
  <1> QED BY <1>6

\* A walk with its results.
IsWalk(files, found) == found = [p \in Stages |-> FoundAt(files, found, p)]

LEMMA CollectedIsWalk ==
    ASSUME NEW files
    PROVE  \E found : IsWalk(files, found) /\ Collected(files) = found[Whole(Root)]
  BY WalkExists DEF Collected, IsWalk

\* A pair of tables with the texts of files under their headers.
RightTables(files, t) ==
    /\ DOMAIN t.texts = DOMAIN t.names
    /\ \A h \in DOMAIN t.texts : /\ t.names[h] \in Files
                                 /\ t.texts[h] = files[t.names[h]]
                                 /\ HeaderOf(t.texts[h]) = h

LEMMA FileKeepsRight ==
    ASSUME NEW files, NEW t, RightTables(files, t), NEW f \in Files
    PROVE  /\ RightTables(files, WithFile(t, f, files[f]))
           /\ DOMAIN WithFile(t, f, files[f]).texts
                = DOMAIN t.texts \cup {HeaderOf(files[f])}
  <1> DEFINE h == HeaderOf(files[f])
             u == WithFile(t, f, files[f])
  <1>1. u.texts = Store(t.texts, h, files[f]) /\ u.names = Store(t.names, h, f)
    BY DEF WithFile
  <1> HIDE DEF u
  <1>2. /\ DOMAIN u.texts = DOMAIN t.texts \cup {h}
        /\ DOMAIN u.names = DOMAIN t.names \cup {h}
        /\ u.texts[h] = files[f] /\ u.names[h] = f
        /\ \A k \in DOMAIN t.texts : k # h => u.texts[k] = t.texts[k] /\ u.names[k] = t.names[k]
    BY <1>1 DEF Store, RightTables
  <1>3. RightTables(files, u)
    BY <1>2 DEF RightTables
  <1> QED BY <1>2, <1>3 DEF u

LEMMA FolderKeepsRight ==
    ASSUME NEW files, NEW t, RightTables(files, t), NEW sub, RightTables(files, sub)
    PROVE  /\ RightTables(files, WithFolder(t, sub))
           /\ DOMAIN WithFolder(t, sub).texts = DOMAIN t.texts \cup DOMAIN sub.texts
  <1> DEFINE u == WithFolder(t, sub)
  <1>1. u.texts = Merged(t.texts, sub.texts) /\ u.names = Merged(t.names, sub.names)
    BY DEF WithFolder, MergedNames
  <1> HIDE DEF u
  <1>2. /\ DOMAIN u.texts = DOMAIN t.texts \cup DOMAIN sub.texts
        /\ DOMAIN u.names = DOMAIN t.names \cup DOMAIN sub.names
        /\ \A k \in DOMAIN t.texts : u.texts[k] = t.texts[k] /\ u.names[k] = t.names[k]
        /\ \A k \in DOMAIN sub.texts : k \notin DOMAIN t.texts =>
                u.texts[k] = sub.texts[k] /\ u.names[k] = sub.names[k]
    BY <1>1 DEF Merged, RightTables
  <1>3. RightTables(files, u)
    BY <1>2 DEF RightTables
  <1> QED BY <1>2, <1>3 DEF u

\* What is found is right at every stage.
LEMMA WalkRight ==
    ASSUME NEW files, NEW found, IsWalk(files, found), NEW p \in Stages
    PROVE  RightTables(files, found[p])
  <1>1. PICK below : Bounds(below)
    BY BoundsExist
  <1> DEFINE Wrong == {n \in Nat : \E q \in Stages : /\ n = Steps(below, q)
                                                     /\ ~RightTables(files, found[q])}
  <1>2. Wrong = {}
    <2>1. SUFFICES ASSUME Wrong # {} PROVE FALSE
      OBVIOUS
    <2>2. PICK n \in Wrong : \A m \in Wrong : n <= m
      BY <2>1, LeastElement
    <2>3. PICK q \in Stages : n = Steps(below, q) /\ ~RightTables(files, found[q])
      BY <2>2
    <2>4. found[q] = FoundAt(files, found, q)
      BY DEF IsWalk
    <2>5. ASSUME NEW r \in Stages, Steps(below, r) < Steps(below, q)
          PROVE  RightTables(files, found[r])
      <3>1. Steps(below, r) \in Nat /\ Steps(below, q) \in Nat
        BY <1>1, StepsBack
      <3> QED BY <2>2, <2>3, <2>5, <3>1
    <2> HIDE DEF Wrong
    <2>6. RightTables(files, found[q])
      <3>1. CASE q[2] = 0
        BY <2>4, <3>1 DEF FoundAt, NoTexts, RightTables
      <3>2. CASE q[2] # 0
        <4> DEFINE e == Listing[q[1]][q[2]]
                   earlier == found[<<q[1], q[2] - 1>>]
        <4>1. RightTables(files, earlier) /\ e \in Files \cup Folders
          BY <1>1, <2>5, <3>2, StepsBack
        <4>2. e \in Folders => RightTables(files, found[Whole(e)])
          BY <1>1, <2>5, <3>2, StepsBack
        <4>3. found[q] = IF e \in Folders THEN WithFolder(earlier, found[Whole(e)])
                         ELSE WithFile(earlier, e, files[e])
          BY <2>4, <3>2 DEF FoundAt
        <4> HIDE DEF e, earlier
        <4> QED BY <4>1, <4>2, <4>3, FileKeepsRight, FolderKeepsRight
      <3> QED BY <3>1, <3>2
    <2> QED BY <2>3, <2>6
  <1>3. Steps(below, p) \in Nat
    BY <1>1, StepsBack
  <1> QED BY <1>2, <1>3

\* What has been found in a folder stays found, and is found with the folder around it.
LEMMA WalkGrows ==
    ASSUME NEW files, NEW found, IsWalk(files, found), NEW d \in Folders,
           NEW i \in 1..Len(Listing[d])
    PROVE  /\ DOMAIN found[<<d, i - 1>>].texts \subseteq DOMAIN found[<<d, i>>].texts
           /\ Listing[d][i] \in Folders =>
                 DOMAIN found[Whole(Listing[d][i])].texts \subseteq DOMAIN found[<<d, i>>].texts
           /\ Listing[d][i] \in Files =>
                 HeaderOf(files[Listing[d][i]]) \in DOMAIN found[<<d, i>>].texts
  <1> DEFINE p == <<d, i>>
             e == Listing[d][i]
             earlier == found[<<d, i - 1>>]
  <1>1. PICK below : Bounds(below)
    BY BoundsExist
  <1>2. Len(Listing[d]) \in Nat
    BY TextsAssumption
  <1>3. p \in Stages /\ p[1] = d /\ p[2] = i /\ i # 0
    BY <1>2 DEF Stages
  <1>4. found[p] = FoundAt(files, found, p)
    BY <1>3 DEF IsWalk
  <1>5. /\ <<d, i - 1>> \in Stages
        /\ e \in Files \cup Folders
        /\ e \in Folders => Whole(e) \in Stages
    BY <1>1, <1>3, StepsBack
  <1>6. RightTables(files, earlier) /\ (e \in Folders => RightTables(files, found[Whole(e)]))
    BY <1>5, WalkRight
  <1>7. found[p] = IF e \in Folders THEN WithFolder(earlier, found[Whole(e)])
                   ELSE WithFile(earlier, e, files[e])
    BY <1>3, <1>4 DEF FoundAt
  <1>8. e \in Files => e \notin Folders
    BY TextsAssumption
  <1> HIDE DEF p, e, earlier
  <1>9. /\ DOMAIN earlier.texts \subseteq DOMAIN found[p].texts
        /\ e \in Folders => DOMAIN found[Whole(e)].texts \subseteq DOMAIN found[p].texts
        /\ e \in Files => HeaderOf(files[e]) \in DOMAIN found[p].texts
    <2>1. CASE e \in Folders
      <3>1. DOMAIN found[p].texts = DOMAIN earlier.texts \cup DOMAIN found[Whole(e)].texts
        BY <1>6, <1>7, <2>1, FolderKeepsRight
      <3> QED BY <1>8, <2>1, <3>1
    <2>2. CASE e \in Files
      <3>1. DOMAIN found[p].texts = DOMAIN earlier.texts \cup {HeaderOf(files[e])}
        BY <1>6, <1>7, <1>8, <2>2, FileKeepsRight
      <3> QED BY <1>8, <2>2, <3>1
    <2> QED BY <1>5, <2>1, <2>2
  <1> QED BY <1>9 DEF p, e, earlier

\* All that an entry of a folder brings is found with the folder.
LEMMA FolderWhole ==
    ASSUME NEW files, NEW found, IsWalk(files, found), NEW d \in Folders,
           NEW i \in 1..Len(Listing[d])
    PROVE  /\ Listing[d][i] \in Folders =>
                 DOMAIN found[Whole(Listing[d][i])].texts \subseteq DOMAIN found[Whole(d)].texts
           /\ Listing[d][i] \in Files =>
                 HeaderOf(files[Listing[d][i]]) \in DOMAIN found[Whole(d)].texts
  <1> DEFINE n == Len(Listing[d])
             Short == {k \in Nat : /\ k <= n - i
                                   /\ ~(DOMAIN found[<<d, n - k>>].texts
                                          \subseteq DOMAIN found[<<d, n>>].texts)}
  <1>1. n \in Nat
    BY TextsAssumption
  <1>2. Short = {}
    <2>1. SUFFICES ASSUME Short # {} PROVE FALSE
      OBVIOUS
    <2>2. PICK k \in Short : \A m \in Short : k <= m
      BY <2>1, LeastElement
    <2>3. k # 0
      BY <1>1
    <2>4. /\ k - 1 \in Nat /\ k - 1 <= n - i
          /\ n - (k - 1) \in 1..n /\ (n - (k - 1)) - 1 = n - k
      <3> HIDE DEF n
      <3> QED BY <1>1, <2>2, <2>3
    <2>44. k - 1 \notin Short
      <3>1. ~(k <= k - 1)
        BY <2>2
      <3> HIDE DEF Short
      <3> QED BY <2>2, <3>1
    <2>5. DOMAIN found[<<d, n - (k - 1)>>].texts \subseteq DOMAIN found[<<d, n>>].texts
      BY <2>4, <2>44
    <2>6. DOMAIN found[<<d, n - k>>].texts \subseteq DOMAIN found[<<d, n - (k - 1)>>].texts
      BY <2>4, WalkGrows
    <2> QED BY <2>2, <2>5, <2>6
  <1>3. n - i \in Nat /\ n - (n - i) = i
    BY <1>1
  <1>4. DOMAIN found[<<d, i>>].texts \subseteq DOMAIN found[<<d, n>>].texts
    <2>1. n - i <= n - i
      BY <1>3
    <2>2. DOMAIN found[<<d, n - (n - i)>>].texts \subseteq DOMAIN found[<<d, n>>].texts
      BY <1>2, <1>3, <2>1
    <2> QED BY <1>3, <2>2
  <1>5. Whole(d) = <<d, n>>
    BY DEF Whole
  <1> HIDE DEF n
  <1> QED BY <1>4, <1>5, WalkGrows

\* The root has all that there is.
LEMMA RootHasFolders ==
    ASSUME NEW files, NEW found, IsWalk(files, found), NEW d \in Folders
    PROVE  DOMAIN found[Whole(d)].texts \subseteq DOMAIN found[Whole(Root)].texts
  <1>1. PICK below : Bounds(below)
    BY BoundsExist
  <1> DEFINE Up(e) == Total - below[e]
             Lost(e) == ~(DOMAIN found[Whole(e)].texts \subseteq DOMAIN found[Whole(Root)].texts)
             Missed == {n \in Nat : \E e \in Folders : n = Up(e) /\ Lost(e)}
  <1>2. \A e \in Folders : below[e] \in Nat /\ below[e] <= Total /\ Up(e) \in Nat
    BY <1>1, BoundsExist DEF Bounds
  <1>3. Missed = {}
    <2>1. SUFFICES ASSUME Missed # {} PROVE FALSE
      OBVIOUS
    <2>2. PICK n \in Missed : \A m \in Missed : n <= m
      BY <2>1, LeastElement
    <2>3. PICK e \in Folders : n = Up(e) /\ Lost(e)
      BY <2>2
    <2>4. e # Root
      BY <2>3
    <2>5. PICK c \in Folders : e \in Range(Listing[c])
      BY <2>4, FoldersAssumption
    <2>6. Listing[c] \in Seq(Files \cup Folders) /\ Len(Listing[e]) \in Nat
      BY TextsAssumption
    <2>7. PICK i \in 1..Len(Listing[c]) : Listing[c][i] = e
      BY <2>5, <2>6 DEF Range
    <2>8. DOMAIN found[Whole(e)].texts \subseteq DOMAIN found[Whole(c)].texts
      BY <2>7, FolderWhole
    <2>9. Lost(c)
      BY <2>3, <2>8
    <2>10. Len(Listing[e]) # 0
      <3>1. SUFFICES ASSUME Len(Listing[e]) = 0 PROVE FALSE
        OBVIOUS
      <3>2. Whole(e) = <<e, 0>> /\ Whole(e) \in Stages
        BY <3>1 DEF Whole, Stages
      <3>3. found[Whole(e)] = NoTexts
        BY <3>2 DEF IsWalk, FoundAt
      <3> QED BY <2>3, <3>3 DEF NoTexts
    <2>11. below[e] + Len(Listing[e]) <= below[c]
      BY <1>1, <2>5 DEF Bounds
    <2>12. Up(c) < Up(e) /\ Up(c) \in Nat /\ Up(e) \in Nat
      BY <1>2, <2>6, <2>10, <2>11, BoundsExist
    <2>13. Up(c) \in Missed
      BY <2>9, <2>12
    <2> HIDE DEF Up, Missed
    <2> QED BY <2>2, <2>3, <2>12, <2>13
  <1> QED BY <1>2, <1>3

\* gettexts finds texts of files with their own headers, and every header.
LEMMA CollectedRight ==
    ASSUME NEW files
    PROVE  /\ RightTables(files, Collected(files))
           /\ \A f \in Files : HeaderOf(files[f]) \in DOMAIN Collected(files).texts
  <1>1. PICK found : IsWalk(files, found) /\ Collected(files) = found[Whole(Root)]
    BY CollectedIsWalk
  <1>2. Whole(Root) \in Stages
    <2>1. Root \in Folders /\ Len(Listing[Root]) \in Nat
      BY TextsAssumption
    <2> QED BY <2>1 DEF Whole, Stages
  <1>3. ASSUME NEW f \in Files
        PROVE  HeaderOf(files[f]) \in DOMAIN Collected(files).texts
    <2>1. f # Root
      BY TextsAssumption
    <2>2. PICK d \in Folders : f \in Range(Listing[d])
      BY <2>1, FoldersAssumption
    <2>3. Listing[d] \in Seq(Files \cup Folders)
      BY TextsAssumption
    <2>4. PICK i \in 1..Len(Listing[d]) : Listing[d][i] = f
      BY <2>2, <2>3 DEF Range
    <2>5. HeaderOf(files[f]) \in DOMAIN found[Whole(d)].texts
      BY <1>1, <2>4, FolderWhole
    <2> QED BY <1>1, <2>5, RootHasFolders
  <1> QED BY <1>1, <1>2, <1>3, WalkRight
----------------------------------------------------------------------------
(* Each text goes back into its own file. *)

\* Two texts of a run come from different files.
LEMMA OwnFiles ==
    ASSUME TablesRight, pc # "idle", NEW h \in DOMAIN textstbl, NEW k \in DOMAIN textstbl,
           filenamestbl[h] = filenamestbl[k]
    PROVE  h = k
  BY DEF TablesRight

\* A copy is named by its file, in one run and one second.
TellApart == \A f, g \in Files : CopyName(f) = CopyName(g) => f = g

FilesKept == DOMAIN content = Files /\ TablesRight /\ FilesInOrder

LEMMA FilesStay ==
    ASSUME FilesKept, [Next]_vars
    PROVE  FilesKept'
  <1>0. UNCHANGED <<before, program>> =>
           \A f \in Files : Converted(before[f])' = Converted(before[f])
    BY DEF Converted
  <1>1. ASSUME NEW u \in Programs, Start(u) PROVE FilesKept'
    <2>1. CASE \E f \in Files : content[f] = BlankLines
      <3>1. content' = content /\ pc' = "idle"
        BY <1>1, <2>1 DEF Start, Stops
      <3> QED BY <3>1 DEF FilesKept, TablesRight, FilesInOrder
    <2>2. CASE ~\E f \in Files : content[f] = BlankLines
      <3>1. /\ content' = content /\ pc' = "take" /\ before' = content
            /\ textstbl' = Collected(content).texts
            /\ filenamestbl' = Collected(content).names
            /\ todo' = DOMAIN textstbl'
        BY <1>1, <2>2 DEF Start
      <3>2. PICK files : files = content
        OBVIOUS
      <3>3. /\ RightTables(files, Collected(files))
            /\ \A f \in Files : HeaderOf(files[f]) \in DOMAIN Collected(files).texts
        BY CollectedRight
      <3>4. TablesRight'
        BY <3>1, <3>2, <3>3 DEF TablesRight, RightTables
      <3>5. FilesInOrder'
        BY <3>1 DEF FilesInOrder, Finished
      <3> QED BY <3>1, <3>4, <3>5 DEF FilesKept
    <2> QED BY <2>1, <2>2
  <1>2. ASSUME NEW h \in todo, Take(h) PROVE FilesKept'
    <2>1. /\ pc = "take" /\ pc' \in {"idle", "backup", "open"}
          /\ UNCHANGED <<content, before, program>>
          /\ pc' # "idle" => header' = h /\ UNCHANGED <<textstbl, filenamestbl, todo>>
      BY <1>2 DEF Take, Stops, history
    <2>2. TablesRight'
      BY <1>2, <2>1 DEF FilesKept, TablesRight
    <2>3. FilesInOrder'
      BY <1>0, <2>1 DEF FilesKept, FilesInOrder, Finished
    <2> QED BY <2>1, <2>2, <2>3 DEF FilesKept
  <1>3. CASE OpenBackup \/ WriteBackup \/ Tick
    <2>1. /\ pc \notin {"idle", "write"} /\ pc' \notin {"idle", "write"}
          /\ pc' = "take" => pc = "take"
          /\ pc = "take" => pc' = "take"
          /\ UNCHANGED <<content, before, program, textstbl, filenamestbl, todo, header>>
      BY <1>3 DEF OpenBackup, WriteBackup, Tick, memory, history
    <2> QED BY <1>0, <2>1 DEF FilesKept, TablesRight, FilesInOrder, Finished
  <1>4. CASE OpenText
    <2>1. /\ pc = "open" /\ pc' = "write" /\ header \in todo
          /\ content' = [content EXCEPT ![filenamestbl[header]] = Empty]
          /\ UNCHANGED <<before, program, textstbl, filenamestbl, todo, header>>
      BY <1>4 DEF OpenText, memory, history, FilesKept, TablesRight
    <2>2. filenamestbl[header] \notin Finished
      BY <2>1, OwnFiles DEF FilesKept, TablesRight, Finished
    <2>3. FilesInOrder'
      BY <1>0, <2>1, <2>2 DEF FilesKept, FilesInOrder, Finished
    <2> QED BY <2>1, <2>3 DEF FilesKept, TablesRight
  <1>5. CASE WriteText
    <2>1. /\ pc = "write" /\ pc' = "take" /\ header \in todo /\ header \in DOMAIN textstbl
          /\ content' = [content EXCEPT ![filenamestbl[header]] = Converted(textstbl[header])]
          /\ todo' = todo \ {header}
          /\ UNCHANGED <<before, textstbl, filenamestbl, program>>
      BY <1>5 DEF WriteText, FilesKept, TablesRight, history
    <2>2. Finished' = Finished \cup {filenamestbl[header]}
      BY <2>1 DEF Finished
    <2>3. textstbl[header] = before[filenamestbl[header]]
      BY <2>1 DEF FilesKept, TablesRight
    <2>4. ASSUME NEW f \in Files
          PROVE  content'[f] = IF f \in Finished' THEN Converted(before[f])' ELSE before'[f]
      <3>1. Converted(before[f])' = Converted(before[f])
        BY <1>0, <2>1
      <3>2. CASE f = filenamestbl[header]
        BY <2>1, <2>2, <2>3, <3>1, <3>2 DEF FilesKept
      <3>3. CASE f # filenamestbl[header]
        BY <2>1, <2>2, <3>1, <3>3 DEF FilesKept, FilesInOrder
      <3> QED BY <3>2, <3>3
    <2>5. FilesInOrder'
      BY <2>1, <2>4, Zenon DEF FilesInOrder
    <2> QED BY <2>1, <2>5 DEF FilesKept, TablesRight
  <1>6. CASE End \/ Kill
    <2>1. pc' = "idle" /\ content' = content
      BY <1>6 DEF End, Kill, Stops
    <2> QED BY <2>1 DEF FilesKept, TablesRight, FilesInOrder
  <1>7. CASE UNCHANGED vars
    <2>1. UNCHANGED <<content, before, pc, program, textstbl, filenamestbl, todo, header>>
      BY <1>7 DEF vars, memory, history
    <2> QED BY <1>0, <2>1 DEF FilesKept, TablesRight, FilesInOrder, Finished
  <1> QED BY <1>1, <1>2, <1>3, <1>4, <1>5, <1>6, <1>7 DEF Next

\* A run that goes on has broken no text, except one that it is writing.
LEMMA RunBreaksNothing == FilesKept /\ pc # "idle" => WholeTexts
  <1> SUFFICES ASSUME FilesKept, pc # "idle" PROVE WholeTexts
    OBVIOUS
  <1> DEFINE broken == {f \in Files : content[f] \notin {before[f], Converted(before[f])}}
  <1>1. CASE pc = "write"
    <2>1. broken \subseteq {filenamestbl[header]}
      BY <1>1 DEF FilesKept, FilesInOrder
    <2>2. filenamestbl[header] \in Files /\ filenamestbl[header] \notin Finished
      BY <1>1, OwnFiles DEF FilesKept, TablesRight, Finished
    <2>3. content[filenamestbl[header]] = Empty
      BY <1>1, <2>2 DEF FilesKept, FilesInOrder
    <2> QED BY <1>1, <2>1, <2>2, <2>3 DEF WholeTexts
  <1>2. CASE pc # "write"
    <2>1. broken = {}
      BY <1>2 DEF FilesKept, FilesInOrder
    <2> QED BY <2>1 DEF WholeTexts
  <1> QED BY <1>1, <1>2

\* When all is done, each first line has its one converted text.
LEMMA DoneOneOfEach ==
    ASSUME FilesKept, pc = "take", todo = {}, NEW f \in Files
    PROVE  \E g \in Namesakes(f) : /\ content[g] = Converted(before[g])
                                   /\ \A k \in Namesakes(f) \ {g} : content[k] = before[k]
  <1> DEFINE h == HeaderOf(before[f])
             g == filenamestbl[h]
  <1>1. /\ h \in DOMAIN textstbl /\ g \in Files
        /\ HeaderOf(before[g]) = h
        /\ \A k \in Files : k \in Finished => /\ HeaderOf(before[k]) \in DOMAIN textstbl
                                              /\ k = filenamestbl[HeaderOf(before[k])]
    BY DEF FilesKept, TablesRight, Finished
  <1>2. g \in Finished
    BY <1>1 DEF Finished
  <1>3. g \in Namesakes(f)
    BY <1>1 DEF Namesakes
  <1>4. content[g] = Converted(before[g])
    BY <1>1, <1>2 DEF FilesKept, FilesInOrder
  <1>5. ASSUME NEW k \in Namesakes(f), k # g PROVE content[k] = before[k]
    <2>1. k \in Files /\ HeaderOf(before[k]) = h
      BY <1>5 DEF Namesakes
    <2>2. k \notin Finished
      BY <1>1, <1>5, <2>1
    <2> QED BY <2>1, <2>2 DEF FilesKept, FilesInOrder
  <1> HIDE DEF g
  <1> QED BY <1>3, <1>4, <1>5

\* Between runs the results are those of the run that has ended.
Results == WholeTexts /\ OneOfEach /\ (pc # "idle" => outcome # "done")

LEMMA ResultsStay ==
    ASSUME FilesKept, FilesKept', Results, [Next]_vars
    PROVE  Results'
  <1>1. (FilesKept /\ pc # "idle" => WholeTexts)'
    BY RunBreaksNothing, PTL
  <1>2. ASSUME NEW u \in Programs, Start(u) PROVE Results'
    <2>1. CASE pc' = "idle"
      <3>1. content' = content /\ before' = content /\ outcome' = "failed"
        BY <1>2, <2>1 DEF Start, Stops
      <3>2. {f \in Files : content'[f] \notin {before'[f], Converted(before[f])'}} = {}
        BY <3>1
      <3> QED BY <2>1, <3>1, <3>2 DEF Results, WholeTexts, OneOfEach
    <2>2. CASE pc' # "idle"
      <3>1. outcome' = "none"
        BY <1>2, <2>2 DEF Start, Stops
      <3> QED BY <1>1, <2>2, <3>1 DEF Results, OneOfEach
    <2> QED BY <2>1, <2>2
  <1>3. ASSUME pc # "idle", pc' # "idle", outcome' = outcome PROVE Results'
    BY <1>1, <1>3 DEF Results, OneOfEach
  <1>4. ASSUME UNCHANGED <<content, before, program>>, pc # "idle",
               pc' = "idle", outcome' \in {"failed", "killed"},
               outcome' = "failed" => pc = "take"
        PROVE  Results'
    <2>1. WholeTexts
      BY <1>4 DEF Results
    <2>2. {f \in Files : content'[f] \notin {before'[f], Converted(before[f])'}}
          = {f \in Files : content[f] \notin {before[f], Converted(before[f])}}
      BY <1>4 DEF Converted
    <2>3. pc # "write" => {f \in Files : content[f] \notin {before[f], Converted(before[f])}} = {}
      BY <1>4 DEF FilesKept, FilesInOrder
    <2>4. WholeTexts'
      BY <1>4, <2>1, <2>2, <2>3 DEF WholeTexts
    <2> QED BY <1>4, <2>4 DEF Results, OneOfEach
  <1>5. CASE Kill
    BY <1>4, <1>5 DEF Kill, Stops, history
  <1>6. CASE End
    <2>1. /\ UNCHANGED <<content, before, program>>
          /\ pc = "take" /\ todo = {} /\ pc' = "idle" /\ outcome' = "done"
      BY <1>6 DEF End, Stops, history
    <2>2. \A f \in Files : Converted(before[f])' = Converted(before[f])
      BY <2>1 DEF Converted
    <2>3. {f \in Files : content[f] \notin {before[f], Converted(before[f])}} = {}
      BY <2>1 DEF FilesKept, FilesInOrder
    <2>4. {f \in Files : content'[f] \notin {before'[f], Converted(before[f])'}} = {}
      BY <2>1, <2>2, <2>3
    <2>5. \A f \in Files : Namesakes(f)' = Namesakes(f) /\ Namesakes(f) \subseteq Files
      BY <2>1 DEF Namesakes, HeaderOf
    <2>6. OneOfEach'
      BY <2>1, <2>2, <2>5, DoneOneOfEach DEF OneOfEach
    <2> QED BY <2>1, <2>4, <2>6 DEF Results, WholeTexts
  <1>7. ASSUME NEW h \in todo, Take(h) PROVE Results'
    <2>1. CASE pc' = "idle"
      BY <1>4, <1>7, <2>1 DEF Take, Stops, history
    <2>2. CASE pc' # "idle"
      BY <1>3, <1>7, <2>2 DEF Take, Stops
    <2> QED BY <2>1, <2>2
  <1>8. CASE OpenBackup \/ WriteBackup \/ OpenText \/ WriteText \/ Tick
    BY <1>3, <1>8 DEF OpenBackup, WriteBackup, OpenText, WriteText, Tick
  <1>9. CASE UNCHANGED vars
    <2>1. UNCHANGED <<content, before, program, pc, outcome>>
      BY <1>9 DEF vars, history
    <2>2. /\ \A f \in Files : Converted(before[f])' = Converted(before[f])
          /\ \A f \in Files : Namesakes(f)' = Namesakes(f) /\ Namesakes(f) \subseteq Files
      BY <2>1 DEF Converted, Namesakes, HeaderOf
    <2>3. {f \in Files : content'[f] \notin {before'[f], Converted(before[f])'}}
          = {f \in Files : content[f] \notin {before[f], Converted(before[f])}}
      BY <2>1, <2>2
    <2>4. WholeTexts'
      BY <2>1, <2>3 DEF Results, WholeTexts
    <2>5. OneOfEach'
      BY <2>1, <2>2 DEF Results, OneOfEach
    <2> QED BY <2>1, <2>4, <2>5 DEF Results
  <1> QED BY <1>2, <1>5, <1>6, <1>7, <1>8, <1>9 DEF Next

\* However a run ends, by itself, with an error in some text or by a kill, each file has its
\* own text, as it was or converted once, but for one that was being written; whatever the
\* folders and the first lines.  This is what filenamestbl of macra.gettexts is for.
THEOREM TextsStayWhole == Spec => []WholeTexts
  <1>1. Init => FilesKept /\ Results
    BY DEF Init, FilesKept, TablesRight, FilesInOrder, Results, WholeTexts, OneOfEach
  <1>2. FilesKept /\ [Next]_vars => FilesKept'
    BY FilesStay
  <1>3. FilesKept /\ FilesKept' /\ Results /\ [Next]_vars => Results'
    BY ResultsStay
  <1>4. Results => WholeTexts
    BY DEF Results
  <1> QED BY <1>1, <1>2, <1>3, <1>4, PTL DEF Spec

\* A run that ends by itself has converted exactly one of the texts with one first line: the
\* tables of macra.gettexts are indexed by first lines.
THEOREM OneTextOfEach == Spec => []OneOfEach
  <1>1. Init => FilesKept /\ Results
    BY DEF Init, FilesKept, TablesRight, FilesInOrder, Results, WholeTexts, OneOfEach
  <1>2. FilesKept /\ [Next]_vars => FilesKept'
    BY FilesStay
  <1>3. FilesKept /\ FilesKept' /\ Results /\ [Next]_vars => Results'
    BY ResultsStay
  <1>4. Results => OneOfEach
    BY DEF Results
  <1> QED BY <1>1, <1>2, <1>3, <1>4, PTL DEF Spec
----------------------------------------------------------------------------
(* What is replaced has a copy. *)

CopiesKept == NamesFree /\ CopiesMade

LEMMA CopiesStay ==
    ASSUME TellApart, FilesKept, CopiesKept, [Next]_vars
    PROVE  CopiesKept'
  <1>0. ASSUME pc # "idle", NEW h \in DOMAIN textstbl, NEW k \in DOMAIN textstbl, h # k
        PROVE  BackupName(filenamestbl[h]) # BackupName(filenamestbl[k])
    <2>1. filenamestbl[h] # filenamestbl[k]
      BY <1>0, OwnFiles DEF FilesKept
    <2>2. filenamestbl[h] \in Files /\ filenamestbl[k] \in Files
      BY <1>0 DEF FilesKept, TablesRight
    <2>3. CopyName(filenamestbl[h]) # CopyName(filenamestbl[k])
      BY <2>1, <2>2 DEF TellApart
    <2> QED BY <2>3 DEF BackupName
  <1>1. ASSUME UNCHANGED <<now, program, filenamestbl>>
        PROVE  \A h : BackupName(filenamestbl[h])' = BackupName(filenamestbl[h])
    BY <1>1 DEF BackupName
  <1>2. ASSUME NEW u \in Programs, Start(u) PROVE CopiesKept'
    <2>1. /\ now' = now + 1 /\ backups' = backups /\ replaced' = replaced
          /\ pc = "idle" /\ pc' \in {"idle", "take"}
      BY <1>2 DEF Start, Stops
    <2>2. ASSUME NEW f PROVE BackupName(f)' \notin DOMAIN backups
      <3>1. BackupName(f)'[1] = now + 1
        BY <2>1 DEF BackupName
      <3>2. now + 1 \notin 0..now
        BY DEF CopiesKept, NamesFree
      <3> QED BY <3>1, <3>2 DEF CopiesKept, NamesFree
    <2>3. NamesFree'
      <3>1. \A h \in todo' : BackupName(filenamestbl[h])' \notin DOMAIN backups
        BY <2>2 DEF BackupName
      <3>2. now' \in Nat /\ \A n \in DOMAIN backups : n[1] \in 0..now'
        BY <2>1 DEF CopiesKept, NamesFree
      <3> QED BY <2>1, <3>1, <3>2 DEF NamesFree
    <2>4. CopiesMade'
      BY <2>1 DEF CopiesKept, CopiesMade
    <2> QED BY <2>3, <2>4 DEF CopiesKept
  <1>3. ASSUME NEW h \in todo, Take(h) PROVE CopiesKept'
    <2>1. /\ UNCHANGED <<now, program, backups, replaced>> /\ pc = "take"
          /\ \/ pc' = "idle"
             \/ /\ pc' = IF BacksUp THEN "backup" ELSE "open"
                /\ UNCHANGED <<textstbl, filenamestbl, todo>> /\ header' = h
      BY <1>3 DEF Take, Stops, history
    <2>2. NamesFree'
      BY <1>1, <2>1 DEF CopiesKept, NamesFree
    <2>3. BacksUp' = BacksUp
      BY <2>1 DEF BacksUp
    <2>4. CopiesMade'
      BY <2>1, <2>3 DEF CopiesKept, CopiesMade
    <2> QED BY <2>2, <2>4 DEF CopiesKept
  <1>4. CASE OpenBackup
    <2> DEFINE b == BackupName(filenamestbl[header])
    <2>1. /\ UNCHANGED <<now, program, replaced, filenamestbl, todo, header>>
          /\ pc = "backup" /\ pc' = "copy" /\ header \in DOMAIN textstbl /\ header \in todo
          /\ todo \subseteq DOMAIN textstbl
          /\ backups' = Store(backups, b, Empty)
      BY <1>4 DEF OpenBackup, memory, history, FilesKept, TablesRight
    <2>2. b \notin DOMAIN backups /\ b' = b /\ b[1] = now /\ now \in 0..now
      BY <1>1, <2>1 DEF CopiesKept, NamesFree, BackupName
    <2>3. \A h \in todo : h # header => BackupName(filenamestbl[h]) # b
      BY <1>0, <2>1
    <2>4. \A h \in todo : BackupName(filenamestbl[h])' = BackupName(filenamestbl[h])
      BY <1>1, <2>1
    <2> HIDE DEF b
    <2>5. /\ DOMAIN backups' = DOMAIN backups \cup {b}
          /\ \A n \in DOMAIN backups : backups'[n] = backups[n]
      BY <2>1, <2>2 DEF Store
    <2>6. NamesFree'
      BY <2>1, <2>2, <2>3, <2>4, <2>5 DEF CopiesKept, NamesFree
    <2>7. CopiesMade'
      <3>1. \A r \in replaced : r.by \in Utilities =>
               \E n \in DOMAIN backups : backups[n] = r.text /\ n # b
        BY <2>2 DEF CopiesKept, CopiesMade
      <3> QED BY <2>1, <2>2, <2>5, <3>1 DEF CopiesMade, b
    <2> QED BY <2>6, <2>7 DEF CopiesKept
  <1>5. CASE WriteBackup
    <2> DEFINE b == BackupName(filenamestbl[header])
    <2>1. /\ UNCHANGED <<now, program, replaced, textstbl, filenamestbl, todo, header>>
          /\ pc = "copy" /\ pc' = "open"
          /\ header \in DOMAIN textstbl /\ header \in todo /\ todo \subseteq DOMAIN textstbl
          /\ backups' = Store(backups, b, textstbl[header])
      BY <1>5 DEF WriteBackup, memory, history, FilesKept, TablesRight
    <2>2. b' = b /\ b[1] = now /\ now \in 0..now
      BY <1>1, <2>1 DEF CopiesKept, NamesFree, BackupName
    <2>3. \A h \in todo : h # header => BackupName(filenamestbl[h]) # b
      BY <1>0, <2>1
    <2>4. \A h \in todo : BackupName(filenamestbl[h])' = BackupName(filenamestbl[h])
      BY <1>1, <2>1
    <2> HIDE DEF b
    <2>5. /\ DOMAIN backups' = DOMAIN backups \cup {b} /\ backups'[b] = textstbl[header]
          /\ \A n \in DOMAIN backups : n # b => backups'[n] = backups[n]
      BY <2>1 DEF Store
    <2>6. NamesFree'
      BY <2>1, <2>2, <2>3, <2>4, <2>5 DEF CopiesKept, NamesFree
    <2>7. CopiesMade'
      <3>1. \A r \in replaced : r.by \in Utilities =>
               \E n \in DOMAIN backups : backups[n] = r.text /\ n # b
        BY <2>1 DEF CopiesKept, CopiesMade, b
      <3> QED BY <2>1, <2>2, <2>5, <3>1 DEF CopiesMade, b
    <2> QED BY <2>6, <2>7 DEF CopiesKept
  <1>6. CASE OpenText
    <2> DEFINE f == filenamestbl[header]
    <2>1. /\ UNCHANGED <<now, program, backups, textstbl, filenamestbl, todo, header>>
          /\ pc = "open" /\ pc' = "write" /\ header \in DOMAIN textstbl /\ header \in todo
          /\ replaced' = replaced \cup {[text |-> content[f], by |-> program]}
      BY <1>6 DEF OpenText, memory, FilesKept, TablesRight
    <2>2. f \in Files /\ f \notin Finished /\ textstbl[header] = before[f]
      BY <2>1, OwnFiles DEF FilesKept, TablesRight, Finished
    <2>3. content[f] = textstbl[header]
      BY <2>1, <2>2 DEF FilesKept, FilesInOrder
    <2>4. NamesFree'
      BY <1>1, <2>1 DEF CopiesKept, NamesFree
    <2>5. BacksUp => \E n \in DOMAIN backups : backups[n] = content[f]
      BY <2>1, <2>3 DEF CopiesKept, CopiesMade
    <2> HIDE DEF f
    <2>6. ASSUME NEW r \in replaced', r.by \in Utilities
          PROVE  \E n \in DOMAIN backups : backups[n] = r.text
      <3>1. CASE r \in replaced
        BY <2>6, <3>1 DEF CopiesKept, CopiesMade
      <3>2. CASE r = [text |-> content[f], by |-> program]
        BY <2>5, <2>6, <3>2 DEF BacksUp
      <3> QED BY <2>1, <3>1, <3>2
    <2>7. CopiesMade'
      BY <2>1, <2>6 DEF CopiesMade
    <2> QED BY <2>4, <2>7 DEF CopiesKept
  <1>7. CASE WriteText
    <2>1. /\ UNCHANGED <<now, program, backups, replaced, filenamestbl>>
          /\ pc = "write" /\ pc' = "take" /\ todo' = todo \ {header}
      BY <1>7 DEF WriteText, history
    <2>2. NamesFree'
      BY <1>1, <2>1 DEF CopiesKept, NamesFree
    <2>3. CopiesMade'
      BY <2>1 DEF CopiesKept, CopiesMade
    <2> QED BY <2>2, <2>3 DEF CopiesKept
  <1>8. CASE End \/ Kill
    <2>1. UNCHANGED <<now, backups, replaced>> /\ pc' = "idle"
      BY <1>8 DEF End, Kill, Stops, history
    <2> QED BY <2>1 DEF CopiesKept, NamesFree, CopiesMade
  <1>9. CASE Tick
    <2>1. /\ now' = now + 1 /\ pc = "take" /\ pc' = "take"
          /\ UNCHANGED <<backups, replaced, filenamestbl, todo>>
      BY <1>9 DEF Tick, memory, history
    <2>2. ASSUME NEW f PROVE BackupName(f)' \notin DOMAIN backups
      <3>1. BackupName(f)'[1] = now + 1
        BY <2>1 DEF BackupName
      <3>2. now + 1 \notin 0..now
        BY DEF CopiesKept, NamesFree
      <3> QED BY <3>1, <3>2 DEF CopiesKept, NamesFree
    <2>3. NamesFree'
      <3>1. \A h \in todo' : BackupName(filenamestbl[h])' \notin DOMAIN backups
        BY <2>2 DEF BackupName
      <3>2. now' \in Nat /\ \A n \in DOMAIN backups : n[1] \in 0..now'
        BY <2>1 DEF CopiesKept, NamesFree
      <3> QED BY <2>1, <3>1, <3>2 DEF NamesFree
    <2>4. CopiesMade'
      BY <2>1 DEF CopiesKept, CopiesMade
    <2> QED BY <2>3, <2>4 DEF CopiesKept
  <1>10. CASE UNCHANGED vars
    <2>1. UNCHANGED <<now, program, backups, replaced, pc, textstbl, filenamestbl, todo, header>>
      BY <1>10 DEF vars, memory, history
    <2>2. BacksUp' = BacksUp
      BY <2>1 DEF BacksUp
    <2> QED BY <1>1, <2>1, <2>2 DEF CopiesKept, NamesFree, CopiesMade
  <1> QED BY <1>2, <1>3, <1>4, <1>5, <1>6, <1>7, <1>8, <1>9, <1>10 DEF Next

\* Whatever a utility has replaced is in backup/, whenever it was killed and whatever was
\* run since, if no two texts have copies of one name: macra.backup names them by the file
\* without its folder and by the second.
THEOREM NothingIsLost ==
    ASSUME TellApart
    PROVE  Spec => []NothingLost
  <1>1. Init => FilesKept /\ CopiesKept
    BY DEF Init, FilesKept, TablesRight, FilesInOrder, CopiesKept, NamesFree, CopiesMade
  <1>2. FilesKept /\ [Next]_vars => FilesKept'
    BY FilesStay
  <1>3. FilesKept /\ CopiesKept /\ [Next]_vars => CopiesKept'
    BY CopiesStay
  <1>4. CopiesKept => NothingLost
    BY DEF CopiesKept, CopiesMade, NothingLost
  <1> QED BY <1>1, <1>2, <1>3, <1>4, PTL DEF Spec
=============================================================================
