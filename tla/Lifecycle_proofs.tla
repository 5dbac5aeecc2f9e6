-------------------------- MODULE Lifecycle_proofs --------------------------
(***************************************************************************)
(* Proofs about module Lifecycle: typing, the numbering of the word key    *)
(* without gaps, well-formed key files, unique forms, and the order of the *)
(* two files Exmacronize writes.  Then, with the invariants of module      *)
(* Bookkeeping: between runs frequencies and sources in key.txt are those  *)
(* of the listed texts, or not below them if texts are learned again, and  *)
(* Exmacronize and Clear Key implement module Corpus; a run on undamaged   *)
(* files does not fail, what a program leaves can be loaded, and typed     *)
(* words stay, on conditions on the texts that the code turns out to need. *)
(* All hold for every set of texts, every bound and every order of runs,   *)
(* kills, restored backups, typed words and new texts (unique forms: as    *)
(* long as the user types no word twice).  At the end, module LetterKey:   *)
(* the names of sources are distinct, for any number of sources.           *)
(***************************************************************************)
EXTENDS Bookkeeping, LetterKey, SequenceTheorems, FiniteSetTheorems, WellFoundedInduction, TLAPS

----------------------------------------------------------------------------
(* The word key: where the counting loops of getpars and getnextkey stop,   *)
(* and what storing a form at the number they find preserves.              *)

\* A nonempty set of naturals has a least element.
LEMMA LeastElement ==
    ASSUME NEW T, T \subseteq Nat, T # {}
    PROVE  \E n \in T : \A m \in T : n <= m
  <1>1. IsWellFoundedOn(OpToRel(<, Nat), Nat)
    BY NatLessThanWellFounded
  <1>2. PICK n \in T : \A m \in T : ~(<<m, n>> \in OpToRel(<, Nat))
    BY <1>1, WFMin, Zenon
  <1>3. ASSUME NEW m \in T PROVE n <= m
    <2>1. ~(m < n)
      BY <1>2 DEF OpToRel
    <2> QED BY <2>1
  <1> QED BY <1>3

\* The loop of getpars stops at the first number that is not in use.
LEMMA ParCountStops ==
    ASSUME NEW K, DOMAIN K \subseteq Slot, NEW p \in Plains
    PROVE  /\ ParCount(K, p) \in 0..(MaxPar + 1)
           /\ <<p, ParCount(K, p)>> \notin DOMAIN K
           /\ \A n \in 0..(ParCount(K, p) - 1) : <<p, n>> \in DOMAIN K
           /\ \A n \in 0..(MaxPar + 1) :
                 <<p, n>> \notin DOMAIN K => ParCount(K, p) <= n
  <1> USE WordKeyAssumption
  <1>1. MaxPar + 1 \in FreePars(K, p)
    BY DEF FreePars, Slot
  <1>2. FreePars(K, p) \subseteq Nat
    BY DEF FreePars
  <1>3. \E n \in FreePars(K, p) : \A m \in FreePars(K, p) : n <= m
    BY <1>1, <1>2, LeastElement
  <1>4. /\ ParCount(K, p) \in FreePars(K, p)
        /\ \A m \in FreePars(K, p) : ParCount(K, p) <= m
    BY <1>3 DEF ParCount
  <1>5. ASSUME NEW n \in 0..(ParCount(K, p) - 1) PROVE <<p, n>> \in DOMAIN K
    <2>1. n \in 0..(MaxPar + 1) /\ ~(ParCount(K, p) <= n)
      BY <1>4 DEF FreePars
    <2>2. n \notin FreePars(K, p)
      BY <1>4, <2>1
    <2> QED BY <2>1, <2>2 DEF FreePars
  <1>6. /\ ParCount(K, p) \in 0..(MaxPar + 1)
        /\ <<p, ParCount(K, p)>> \notin DOMAIN K
    BY <1>4 DEF FreePars
  <1>7. \A n \in 0..(MaxPar + 1) :
           <<p, n>> \notin DOMAIN K => ParCount(K, p) <= n
    BY <1>4 DEF FreePars
  <1> QED BY <1>5, <1>6, <1>7

\* When no number is skipped, getpars sees every form of the plain word.
LEMMA DenseVisible ==
    ASSUME NEW K, DOMAIN K \subseteq Slot, Dense(K), NEW s \in DOMAIN K
    PROVE  s[2] < ParCount(K, s[1])
  <1> USE WordKeyAssumption
  <1>1. s[1] \in Plains /\ s[2] \in 0..MaxPar
    BY DEF Slot
  <1>2. \A n \in 0..s[2] : <<s[1], n>> \in DOMAIN K
    BY DEF Dense
  <1>3. /\ ParCount(K, s[1]) \in 0..(MaxPar + 1)
        /\ <<s[1], ParCount(K, s[1])>> \notin DOMAIN K
    BY <1>1, ParCountStops
  <1> QED BY <1>1, <1>2, <1>3

\* A form that getpars does not return is not in the key at all.
LEMMA AbsentForm ==
    ASSUME NEW K, DOMAIN K \subseteq Slot, Dense(K), FiledUnderPlain(K),
           NEW w \in Forms, w \notin Parallels(K, PlainOf[w])
    PROVE  w \notin FormsIn(K)
  <1> USE WordKeyAssumption
  <1>1. SUFFICES ASSUME NEW s \in DOMAIN K, K[s] = w PROVE FALSE
    BY DEF FormsIn
  <1>2. s[1] = PlainOf[w] /\ s = <<s[1], s[2]>> /\ s[2] \in 0..MaxPar
    BY <1>1 DEF FiledUnderPlain, Slot
  <1>3. s[2] < ParCount(K, PlainOf[w])
    BY <1>2, DenseVisible
  <1>4. ParCount(K, PlainOf[w]) \in 0..(MaxPar + 1)
    BY ParCountStops
  <1>5. s[2] \in 0..(ParCount(K, PlainOf[w]) - 1)
    BY <1>2, <1>3, <1>4
  <1> QED BY <1>1, <1>2, <1>5 DEF Parallels

\* A form getpars returns is in the key.
LEMMA PresentForm ==
    ASSUME NEW K, DOMAIN K \subseteq Slot, NEW p \in Plains,
           NEW w \in Parallels(K, p)
    PROVE  w \in FormsIn(K)
  <1> USE WordKeyAssumption
  <1>1. PICK n \in 0..(ParCount(K, p) - 1) : w = K[<<p, n>>]
    BY DEF Parallels
  <1>2. <<p, n>> \in DOMAIN K
    BY <1>1, ParCountStops
  <1> QED BY <1>1, <1>2 DEF FormsIn

\* Storing a form at the number getnextkey returns for its plain word leaves no
\* gap, keeps every other form, and puts no form under a foreign plain word.
LEMMA StoreNext ==
    ASSUME NEW K, DOMAIN K \subseteq Slot, \A s \in DOMAIN K : K[s] \in Forms,
           Dense(K), FiledUnderPlain(K),
           NEW w \in Forms, HasRoom(K, PlainOf[w]),
           NEW x, x = GetNextKey(K, PlainOf[w]), NEW L, L = Store(K, x, w)
    PROVE  /\ x \in Slot /\ x \notin DOMAIN K
           /\ DOMAIN L = DOMAIN K \cup {x}
           /\ \A s \in DOMAIN L : L[s] \in Forms
           /\ \A s \in DOMAIN K : L[s] = K[s]
           /\ L[x] = w
           /\ Dense(L) /\ FiledUnderPlain(L)
           /\ FormsIn(L) = FormsIn(K) \cup {w}
  <1> USE WordKeyAssumption
  <1> DEFINE p == PlainOf[w]
  <1>1. p \in Plains
    OBVIOUS
  <1>2. /\ ParCount(K, p) \in 0..MaxPar
        /\ x = <<p, ParCount(K, p)>> /\ x \in Slot /\ x \notin DOMAIN K
    <2>1. ParCount(K, p) \in 0..(MaxPar + 1) /\ <<p, ParCount(K, p)>> \notin DOMAIN K
      BY <1>1, ParCountStops
    <2> QED BY <1>1, <2>1 DEF HasRoom, GetNextKey, Slot
  <1>3. /\ DOMAIN L = DOMAIN K \cup {x}
        /\ \A s \in DOMAIN K : L[s] = K[s]
        /\ L[x] = w
    BY <1>2 DEF Store
  <1>4. Dense(L)
    <2>1. SUFFICES ASSUME NEW s \in DOMAIN L, NEW n \in 0..s[2]
                   PROVE  <<s[1], n>> \in DOMAIN L
      BY DEF Dense
    <2>2. CASE s \in DOMAIN K
      BY <1>3, <2>2 DEF Dense
    <2>3. CASE s = x /\ n = ParCount(K, p)
      BY <1>2, <1>3, <2>3
    <2>4. CASE s = x /\ n # ParCount(K, p)
      <3>1. n \in 0..(ParCount(K, p) - 1) /\ s[1] = p
        BY <1>2, <2>4
      <3>2. <<p, n>> \in DOMAIN K
        BY <3>1, <1>1, ParCountStops
      <3> QED BY <3>1, <3>2, <1>3
    <2> QED BY <2>2, <2>3, <2>4, <1>3
  <1>5. FiledUnderPlain(L)
    BY <1>2, <1>3 DEF FiledUnderPlain
  <1>6. FormsIn(L) = FormsIn(K) \cup {w}
    BY <1>2, <1>3 DEF FormsIn
  <1>7. \A s \in DOMAIN L : L[s] \in Forms
    BY <1>3
  <1> QED BY <1>2, <1>3, <1>4, <1>5, <1>6, <1>7

\* The empty table has no gap and no form.
LEMMA EmptyTableFacts ==
    /\ DOMAIN EmptyTable = {}
    /\ Dense(EmptyTable) /\ FiledUnderPlain(EmptyTable) /\ OncePerForm(EmptyTable)
    /\ FormsIn(EmptyTable) = {}
  BY DEF EmptyTable, Dense, FiledUnderPlain, OncePerForm, FormsIn

----------------------------------------------------------------------------
(* Key files. *)

\* What IInv says of each copy of the key.
FileOK(kf) ==
    /\ IsKeyFile(kf)
    /\ \A s \in DOMAIN kf.lines : PlainOf[kf.lines[s].form] = s[1]
    /\ OneNumberEach(kf.srcs) /\ LinesNameSources(kf)

\* An emptied key file is well-formed.
LEMMA BlankOK == FileOK(Blank)
  BY EmptyTableFacts DEF FileOK, Blank, IsKeyFile, OneNumberEach, LinesNameSources

\* Clear Key keeps the file well-formed: it leaves lines without sources only.
LEMMA ClearedOK ==
    ASSUME NEW kf, FileOK(kf)
    PROVE  FileOK(Cleared(kf))
  <1> DEFINE c == Cleared(kf)
  <1>1. /\ c.srcs = << >> /\ c.shape \in {"blank", "words"}
        /\ DOMAIN c.lines = Kept(kf)
        /\ \A s \in Kept(kf) : c.lines[s] = kf.lines[s]
        /\ c = [shape |-> c.shape, srcs |-> c.srcs, lines |-> c.lines]
    BY DEF Cleared, ClearedShape
  <1>2. Kept(kf) \subseteq DOMAIN kf.lines /\ \A s \in Kept(kf) : Manual(kf.lines[s])
    BY DEF Kept
  <1>3. IsKeyFile(c)
    BY <1>1, <1>2 DEF FileOK, IsKeyFile
  <1>4. OneNumberEach(c.srcs)
    BY <1>1 DEF OneNumberEach
  <1>5. LinesNameSources(c)
    BY <1>1, <1>2 DEF FileOK, LinesNameSources
  <1>6. \A s \in DOMAIN c.lines : PlainOf[c.lines[s].form] = s[1]
    BY <1>1, <1>2 DEF FileOK
  <1> QED BY <1>3, <1>4, <1>5, <1>6 DEF FileOK

\* Writing one more line under its plain word keeps the file well-formed.
LEMMA WithLineOK ==
    ASSUME NEW kf, FileOK(kf), NEW shape \in {"blank", "words", "divided"},
           NEW s \in Slot, NEW l \in Line, PlainOf[l.form] = s[1],
           l.ids \subseteq DOMAIN kf.srcs, Manual(l) <=> l.ids = {}
    PROVE  FileOK([shape |-> shape, srcs |-> kf.srcs,
                   lines |-> Store(kf.lines, s, l)])
  <1> DEFINE L == Store(kf.lines, s, l)
             c == [shape |-> shape, srcs |-> kf.srcs, lines |-> L]
  <1>1. /\ DOMAIN L = DOMAIN kf.lines \cup {s} /\ L[s] = l
        /\ \A t \in DOMAIN kf.lines : t # s => L[t] = kf.lines[t]
    BY DEF Store
  <1>2. c.lines = L /\ c.srcs = kf.srcs /\ c.shape = shape
    OBVIOUS
  <1> HIDE DEF L
  <1>3. IsKeyFile(c)
    BY <1>1, <1>2 DEF FileOK, IsKeyFile
  <1>4. LinesNameSources(c) /\ OneNumberEach(c.srcs)
    BY <1>1, <1>2 DEF FileOK, LinesNameSources, OneNumberEach
  <1>5. \A t \in DOMAIN c.lines : PlainOf[c.lines[t].form] = t[1]
    BY <1>1, <1>2 DEF FileOK
  <1> QED BY <1>3, <1>4, <1>5 DEF FileOK, L

\* A typed word finds a place after the other lines of its plain word.
LEMMA NextLineFits ==
    ASSUME NEW kf, FileOK(kf), NEW w \in Forms
    PROVE  /\ NextLine(kf, w) \in 0..(MaxPar + 1)
           /\ <<PlainOf[w], NextLine(kf, w)>> \notin DOMAIN kf.lines
  <1> USE WordKeyAssumption
  <1> DEFINE p == PlainOf[w]
             After(n) == \A s \in DOMAIN kf.lines : s[1] = p => s[2] < n
             T == {n \in Nat : After(n)}
  <1>1. p \in Plains /\ DOMAIN kf.lines \subseteq Slot
    BY DEF FileOK, IsKeyFile
  <1>2. MaxPar + 1 \in T
    BY <1>1 DEF Slot
  <1>3. PICK n \in T : \A m \in T : n <= m
    <2>1. T \subseteq Nat /\ T # {}
      BY <1>2
    <2> HIDE DEF T
    <2> QED BY <2>1, LeastElement
  <1>4. n \in 0..(MaxPar + 1)
    BY <1>2, <1>3
  <1>5. n = 0 \/ <<p, n - 1>> \in DOMAIN kf.lines
    <2>1. SUFFICES ASSUME n # 0 PROVE <<p, n - 1>> \in DOMAIN kf.lines
      OBVIOUS
    <2>2. n - 1 \in Nat /\ n - 1 \notin T
      BY <1>3, <1>4, <2>1
    <2>3. PICK s \in DOMAIN kf.lines : s[1] = p /\ ~(s[2] < n - 1)
      BY <2>2
    <2>4. s = <<s[1], s[2]>> /\ s[2] \in Nat /\ s[2] < n
      BY <1>1, <1>3, <2>3 DEF Slot
    <2> QED BY <1>4, <2>3, <2>4
  <1>6. \E m \in 0..(MaxPar + 1) : After(m) /\ (m = 0 \/ <<p, m - 1>> \in DOMAIN kf.lines)
    BY <1>3, <1>4, <1>5
  <1>7. NextLine(kf, w) \in 0..(MaxPar + 1) /\ After(NextLine(kf, w))
    BY <1>6 DEF NextLine
  <1>8. <<p, NextLine(kf, w)>> \notin DOMAIN kf.lines
    BY <1>7
  <1> QED BY <1>7, <1>8

\* Typing a word keeps the file well-formed.
LEMMA WithManualOK ==
    ASSUME NEW kf, FileOK(kf), NEW w \in Forms, NextLine(kf, w) <= MaxPar
    PROVE  FileOK(WithManual(kf, w))
  <1> USE WordKeyAssumption
  <1> DEFINE s == <<PlainOf[w], NextLine(kf, w)>>
             l == [form |-> w, freq |-> 0, ids |-> {}]
             shape == IF kf.shape = "blank" THEN "words" ELSE kf.shape
  <1>1. s \in Slot /\ s[1] = PlainOf[w]
    BY NextLineFits DEF Slot
  <1>2. l \in Line /\ l.form = w /\ l.ids = {} /\ Manual(l)
    BY DEF Line, Manual
  <1>3. shape \in {"words", "divided"}
    BY DEF FileOK, IsKeyFile
  <1>4. WithManual(kf, w) =
           [shape |-> shape, srcs |-> kf.srcs, lines |-> Store(kf.lines, s, l)]
    BY DEF WithManual
  <1> HIDE DEF s, l, shape
  <1> QED BY <1>1, <1>2, <1>3, <1>4, WithLineOK
----------------------------------------------------------------------------
(* The invariant, sorted by what it speaks of. *)

FilesOK == FileOK(keyFile) /\ FileOK(backup) /\ FileOK(keystr)

DiskTyped == /\ listFile \in BOOLEAN
             /\ listed \subseteq Headers /\ folder \subseteq Headers

RunTyped == /\ pc \in {"idle", "load", "learn", "save", "saveSources", "saveWords",
                       "list", "clearKey", "clearList"}
            /\ outcome \in {"none", "done", "failed", "killed"}
            /\ unread \subseteq Slot
            /\ toList \subseteq Headers /\ todo \subseteq Headers
            /\ pos \in Nat \ {0} /\ newForms \in BOOLEAN

TablesTyped == /\ DOMAIN keytbl \subseteq Slot
               /\ \A s \in DOMAIN keytbl : keytbl[s] \in Forms
               /\ DOMAIN info \subseteq Forms
               /\ \A w \in DOMAIN info : info[w] \in [freq : Nat, srcs : SUBSET Headers]

HeadersOK == headers \in Seq(Headers) /\ OneNumberEach(headers)

HistoryTyped == /\ typed \subseteq Forms
                /\ damage \subseteq {"counts", "typed", "list"}
                /\ backupDamage \subseteq {"counts", "typed", "list"}
                /\ mishaps \in 0..MaxMishaps

TablesOK == TablesTyped /\ NoGaps /\ Tallied

PhaseOK == AtRest /\ Loading /\ Saving

SortedInv == /\ FilesOK /\ DiskTyped /\ RunTyped /\ TablesOK /\ HeadersOK
             /\ HistoryTyped /\ PhaseOK

\* The two ways of putting the invariant together agree.
LEMMA Sorted == IInv <=> SortedInv
  BY DEF IInv, SortedInv, TypeOK, LinesFiled, WellFormed, FilesOK, FileOK, DiskTyped,
         RunTyped, TablesTyped, HeadersOK, HistoryTyped, TablesOK, PhaseOK

\* Before the first run nothing is in the files and in memory.
LEMMA InitInv == Init => SortedInv
  <1> SUFFICES ASSUME Init PROVE SortedInv
    OBVIOUS
  <1> USE DEF Init
  <1>1. FilesOK
    BY BlankOK DEF FilesOK
  <1>2. DiskTyped
    BY DEF DiskTyped
  <1>6. RunTyped
    <2>1. newForms \in BOOLEAN
      BY Zenon
    <2>2. pos \in Nat \ {0}
      OBVIOUS
    <2> QED BY <2>1, <2>2 DEF RunTyped
  <1>7. HistoryTyped
    BY LifecycleAssumption DEF HistoryTyped
  <1>3. HeadersOK
    BY DEF HeadersOK, OneNumberEach
  <1>4. TablesOK
    BY EmptyTableFacts DEF TablesOK, TablesTyped, NoGaps, Tallied
  <1>5. PhaseOK
    BY DEF PhaseOK, AtRest, Loading, Saving
  <1> QED BY <1>1, <1>2, <1>3, <1>4, <1>5, <1>6, <1>7 DEF SortedInv

\* A program that ends leaves empty tables behind.
LEMMA EndedInv ==
    ASSUME NEW how \in {"none", "done", "failed", "killed"}, Ended(how)
    PROVE  RunTyped' /\ TablesOK' /\ HeadersOK' /\ PhaseOK'
  <1> USE DEF Ended
  <1>1. RunTyped'
    <2>1. pos' \in Nat \ {0}
      BY DEF FirstPos
    <2>2. newForms' \in BOOLEAN
      BY Zenon
    <2> QED BY <2>1, <2>2 DEF RunTyped
  <1>2. HeadersOK'
    BY DEF HeadersOK, OneNumberEach
  <1>3. TablesOK'
    BY EmptyTableFacts DEF TablesOK, TablesTyped, NoGaps, Tallied
  <1>4. PhaseOK'
    BY DEF PhaseOK, AtRest, Loading, Saving
  <1> QED BY <1>1, <1>2, <1>3, <1>4
----------------------------------------------------------------------------
(* The steps of Exmacronize. *)

\* Reading key.txt begins with empty tables and all lines unread.
LEMMA StartExmacInv ==
    ASSUME SortedInv, StartExmac, UNCHANGED keystr
    PROVE  FilesOK' /\ DiskTyped' /\ RunTyped' /\ TablesOK' /\ HeadersOK' /\ PhaseOK'
  <1> USE DEF SortedInv, StartExmac, files
  <1>1. FilesOK' /\ DiskTyped'
    BY DEF FilesOK, DiskTyped
  <1>2. CASE Loadable(keyFile)
    <2>1. keytbl = EmptyTable
      BY DEF PhaseOK, AtRest
    <2>2. FileOK(keyFile)
      BY DEF FilesOK
    <2>3. RunTyped'
      BY <1>2, <2>2 DEF RunTyped, FileOK, IsKeyFile
    <2>4. HeadersOK'
      BY <1>2, <2>2 DEF HeadersOK, FileOK, IsKeyFile
    <2>5. TablesOK'
      BY <1>2 DEF TablesOK, TablesTyped, NoGaps, Tallied
    <2>6. PhaseOK'
      BY <1>2, <2>1, EmptyTableFacts DEF PhaseOK, AtRest, Loading, Saving
    <2> QED BY <1>1, <2>3, <2>4, <2>5, <2>6
  <1>3. CASE ~Loadable(keyFile)
    BY <1>1, <1>3, EndedInv
  <1> QED BY <1>2, <1>3

\* A line is stored at the next number of its plain word, which is below the
\* place of every line still unread.
LEMMA LoadLineInv ==
    ASSUME SortedInv, LoadLine, UNCHANGED keystr
    PROVE  FilesOK' /\ DiskTyped' /\ RunTyped' /\ TablesOK' /\ HeadersOK' /\ PhaseOK'
  <1> USE WordKeyAssumption, KeyFileAssumption
  <1> USE DEF SortedInv, files
  <1>1. PICK s \in unread :
           /\ FirstSlot(s, unread)
           /\ keytbl' = Store(keytbl, GetNextKey(keytbl, PlainOf[keyFile.lines[s].form]),
                              keyFile.lines[s].form)
           /\ info' = Store(info, keyFile.lines[s].form,
                            [freq |-> keyFile.lines[s].freq,
                             srcs |-> {keyFile.srcs[i] : i \in keyFile.lines[s].ids}])
           /\ unread' = unread \ {s}
    BY DEF LoadLine
  <1>2. /\ pc = "load" /\ pc' = "load"
        /\ UNCHANGED <<keyFile, listFile, listed, backup, folder, headers, toList,
                       todo, pos, newForms, outcome>>
    BY DEF LoadLine
  <1> DEFINE l == keyFile.lines[s]
             w == l.form
             p == PlainOf[w]
             x == GetNextKey(keytbl, p)
             e == [freq |-> l.freq, srcs |-> {keyFile.srcs[i] : i \in l.ids}]
  <1>3. /\ s \in DOMAIN keyFile.lines /\ s \in Slot /\ l \in Line /\ p = s[1]
        /\ l.ids \subseteq DOMAIN keyFile.srcs
        /\ Manual(l) <=> l.ids = {}
        /\ keyFile.srcs \in Seq(Headers)
    BY <1>2 DEF PhaseOK, Loading, FilesOK, FileOK, IsKeyFile, LinesNameSources
  <1>4. w \in Forms /\ p \in Plains /\ s = <<p, s[2]>> /\ s[2] \in 0..MaxPar
    BY <1>3 DEF Line, Slot
  <1>5. ParCount(keytbl, p) <= s[2] /\ ParCount(keytbl, p) \in 0..MaxPar
    <2>1. s \notin DOMAIN keytbl
      BY <1>2, <1>4 DEF PhaseOK, Loading
    <2>2. DOMAIN keytbl \subseteq Slot
      BY DEF TablesOK, TablesTyped
    <2>3. ParCount(keytbl, p) \in 0..(MaxPar + 1)
      BY <1>4, <2>2, ParCountStops
    <2>4. \A n \in 0..(MaxPar + 1) :
             <<p, n>> \notin DOMAIN keytbl => ParCount(keytbl, p) <= n
      BY <1>4, <2>2, ParCountStops
    <2>5. s[2] \in 0..(MaxPar + 1) /\ <<p, s[2]>> \notin DOMAIN keytbl
      BY <1>4, <2>1
    <2>6. ParCount(keytbl, p) <= s[2]
      BY <2>4, <2>5
    <2> QED BY <1>4, <2>3, <2>6
  <1>6. /\ x \in Slot /\ x \notin DOMAIN keytbl
        /\ DOMAIN keytbl' = DOMAIN keytbl \cup {x}
        /\ \A t \in DOMAIN keytbl' : keytbl'[t] \in Forms
        /\ Dense(keytbl') /\ FiledUnderPlain(keytbl')
        /\ FormsIn(keytbl') = FormsIn(keytbl) \cup {w}
    <2>1. HasRoom(keytbl, PlainOf[w])
      BY <1>5 DEF HasRoom
    <2>2. /\ DOMAIN keytbl \subseteq Slot
          /\ \A t \in DOMAIN keytbl : keytbl[t] \in Forms
          /\ Dense(keytbl) /\ FiledUnderPlain(keytbl)
      BY DEF TablesOK, TablesTyped, NoGaps
    <2>3. x = GetNextKey(keytbl, PlainOf[w]) /\ keytbl' = Store(keytbl, x, w)
      BY <1>1
    <2> HIDE DEF x, w, SortedInv
    <2> QED BY <1>4, <2>1, <2>2, <2>3, StoreNext
  <1>7. /\ DOMAIN info' = DOMAIN info \cup {w} /\ info'[w] = e
        /\ \A v \in DOMAIN info : v # w => info'[v] = info[v]
    BY <1>1 DEF Store
  <1>8. e \in [freq : Nat, srcs : SUBSET Headers] /\ (e.freq = 0 <=> e.srcs = {})
    <2>1. \A i \in DOMAIN keyFile.srcs : keyFile.srcs[i] \in Headers
      BY <1>3
    <2>2. l.freq \in Nat /\ e.freq = l.freq
      BY <1>3 DEF Line
    <2>3. e.srcs \in SUBSET Headers
      BY <1>3, <2>1
    <2>4. e.srcs = {} <=> l.ids = {}
      OBVIOUS
    <2> QED BY <1>3, <2>2, <2>3, <2>4 DEF Manual
  <1>9. TablesOK'
    <2>1. TablesTyped'
      BY <1>4, <1>6, <1>7, <1>8 DEF TablesOK, TablesTyped
    <2>2. NoGaps'
      BY <1>6 DEF NoGaps
    <2>3. Tallied'
      BY <1>6, <1>7, <1>8 DEF TablesOK, Tallied
    <2> QED BY <2>1, <2>2, <2>3 DEF TablesOK
  <1>10. Loading'
    <2>1. ASSUME NEW r \in unread', NEW t \in DOMAIN keytbl', t[1] = r[1]
          PROVE  t[2] < r[2]
      <3>1. r \in unread /\ r # s /\ Before(s, r) /\ r \in Slot
        BY <1>1, <2>1 DEF FirstSlot, RunTyped
      <3>2. CASE t \in DOMAIN keytbl
        BY <1>2, <2>1, <3>1, <3>2 DEF PhaseOK, Loading
      <3>3. CASE t = x
        <4>1. t[1] = p /\ t[2] = ParCount(keytbl, p)
          BY <3>3 DEF GetNextKey
        <4>2. r[1] \in Plains /\ r[2] \in 0..MaxPar
          BY <3>1 DEF Slot
        <4>5. Plains \subseteq Nat /\ MaxPar \in Nat
          OBVIOUS
        <4>6. s[1] = r[1] /\ s[1] \in Nat
          BY <1>3, <2>1, <4>1, <4>2, <4>5
        <4>3. s[2] < r[2]
          BY <3>1, <4>6 DEF Before
        <4> QED BY <1>4, <1>5, <4>1, <4>2, <4>3, <4>5
      <3> QED BY <1>6, <2>1, <3>2, <3>3
    <2>2. unread' \subseteq DOMAIN keyFile'.lines /\ headers' = keyFile'.srcs
      BY <1>1, <1>2 DEF PhaseOK, Loading
    <2> QED BY <2>1, <2>2 DEF Loading
  <1>11. PhaseOK'
    BY <1>2, <1>10 DEF PhaseOK, AtRest, Saving
  <1>12. RunTyped'
    BY <1>1, <1>2 DEF RunTyped
  <1>13. FilesOK' /\ DiskTyped' /\ HeadersOK'
    BY <1>2 DEF FilesOK, DiskTyped, HeadersOK
  <1> QED BY <1>9, <1>11, <1>12, <1>13

\* Collecting the new texts touches no table.
LEMMA FindSourcesInv ==
    ASSUME SortedInv, FindSources, UNCHANGED keystr
    PROVE  FilesOK' /\ DiskTyped' /\ RunTyped' /\ TablesOK' /\ HeadersOK' /\ PhaseOK'
  <1> USE DEF SortedInv, FindSources
  <1>1. FilesOK' /\ DiskTyped'
    BY DEF FilesOK, DiskTyped
  <1>2. CASE ~listFile \/ NewTexts = {}
    BY <1>1, <1>2, EndedInv
  <1>3. CASE ~(~listFile \/ NewTexts = {})
    <2>1. RunTyped'
      BY <1>3 DEF RunTyped, DiskTyped, NewTexts, SourcesToList
    <2>2. TablesOK' /\ HeadersOK'
      BY <1>3 DEF TablesOK, TablesTyped, NoGaps, Tallied, HeadersOK, tables
    <2>3. PhaseOK'
      BY <1>3 DEF PhaseOK, AtRest, Loading, Saving
    <2> QED BY <1>1, <2>1, <2>2, <2>3
  <1> QED BY <1>2, <1>3

\* A word is new to the key and gets the next number, or has an entry already.
LEMMA LearnWordInv ==
    ASSUME SortedInv, LearnWord, UNCHANGED keystr
    PROVE  FilesOK' /\ DiskTyped' /\ RunTyped' /\ TablesOK' /\ HeadersOK' /\ PhaseOK'
  <1> USE DEF SortedInv, files
  <1>1. /\ pc = "learn" /\ pc' = "learn" /\ pos' = pos + 1
        /\ UNCHANGED <<keyFile, listFile, listed, backup, folder, headers, unread,
                       toList, todo, outcome>>
    BY DEF LearnWord
  <1>2. PICK h \in todo :
           /\ pos <= Len(Text[h])
           /\ LET w == Text[h][pos]
                  p == PlainOf[w]
              IN \/ /\ w \notin Parallels(keytbl, p)
                    /\ HasRoom(keytbl, p)
                    /\ keytbl' = Store(keytbl, GetNextKey(keytbl, p), w)
                    /\ info' = Store(info, w, [freq |-> 1, srcs |-> {h}])
                    /\ newForms' = TRUE
                 \/ /\ w \in Parallels(keytbl, p)
                    /\ info' = Store(info, w, Recount(w, h))
                    /\ UNCHANGED <<keytbl, newForms>>
    BY DEF LearnWord
  <1> DEFINE w == Text[h][pos]
             p == PlainOf[w]
             x == GetNextKey(keytbl, p)
  <1>3. h \in Headers /\ pos \in Nat \ {0}
    BY DEF RunTyped
  <1>4. w \in Forms /\ p \in Plains
    <2>1. Text[h] \in Seq(Forms)
      BY <1>3, ExmacAssumption
    <2>2. pos \in 1..Len(Text[h])
      BY <1>2, <1>3, <2>1
    <2> QED BY <2>1, <2>2, WordKeyAssumption
  <1>5. RunTyped'
    <2>1. newForms' \in BOOLEAN
      <3>1. newForms \in BOOLEAN
        BY DEF RunTyped
      <3> QED BY <1>2, <3>1, Zenon
    <2>2. pos' \in Nat \ {0}
      BY <1>1, <1>3
    <2> QED BY <1>1, <2>1, <2>2 DEF RunTyped
  <1>6. PhaseOK'
    BY <1>1 DEF PhaseOK, AtRest, Loading, Saving
  <1>7. FilesOK' /\ DiskTyped' /\ HeadersOK'
    BY <1>1 DEF FilesOK, DiskTyped, HeadersOK
  <1>8. CASE w \notin Parallels(keytbl, p)
    <2>1. /\ HasRoom(keytbl, PlainOf[w])
          /\ x = GetNextKey(keytbl, PlainOf[w]) /\ keytbl' = Store(keytbl, x, w)
          /\ info' = Store(info, w, [freq |-> 1, srcs |-> {h}])
      BY <1>2, <1>8
    <2>2. /\ DOMAIN keytbl \subseteq Slot
          /\ \A t \in DOMAIN keytbl : keytbl[t] \in Forms
          /\ Dense(keytbl) /\ FiledUnderPlain(keytbl)
      BY DEF TablesOK, TablesTyped, NoGaps
    <2>3. /\ x \in Slot /\ x \notin DOMAIN keytbl
          /\ DOMAIN keytbl' = DOMAIN keytbl \cup {x}
          /\ \A t \in DOMAIN keytbl' : keytbl'[t] \in Forms
          /\ Dense(keytbl') /\ FiledUnderPlain(keytbl')
          /\ FormsIn(keytbl') = FormsIn(keytbl) \cup {w}
      <3> HIDE DEF x, w, SortedInv
      <3> QED BY <1>4, <2>1, <2>2, StoreNext
    <2>4. /\ DOMAIN info' = DOMAIN info \cup {w}
          /\ info'[w] = [freq |-> 1, srcs |-> {h}]
          /\ \A v \in DOMAIN info : v # w => info'[v] = info[v]
      BY <2>1 DEF Store
    <2>5. TablesTyped'
      BY <1>3, <1>4, <2>3, <2>4 DEF TablesOK, TablesTyped
    <2>6. NoGaps'
      BY <2>3 DEF NoGaps
    <2>7. Tallied'
      <3>1. FormsIn(keytbl) \subseteq DOMAIN info
        BY DEF TablesOK, Tallied
      <3>2. \A v \in DOMAIN info : info[v].freq = 0 <=> info[v].srcs = {}
        BY DEF TablesOK, Tallied
      <3>3. info'[w].freq = 1 /\ info'[w].srcs # {}
        BY <2>4
      <3> HIDE DEF w, x, SortedInv
      <3> QED BY <2>3, <2>4, <3>1, <3>2, <3>3 DEF Tallied
    <2> QED BY <1>5, <1>6, <1>7, <2>5, <2>6, <2>7 DEF TablesOK
  <1>9. CASE w \in Parallels(keytbl, p)
    <2>1. keytbl' = keytbl /\ info' = Store(info, w, Recount(w, h))
      BY <1>2, <1>9
    <2>2. w \in DOMAIN info
      BY <1>4, <1>9, PresentForm DEF TablesOK, TablesTyped, Tallied
    <2>3. info[w] \in [freq : Nat, srcs : SUBSET Headers]
      BY <2>2 DEF TablesOK, TablesTyped
    <2>4. /\ DOMAIN info' = DOMAIN info
          /\ info'[w] = [freq |-> info[w].freq + 1, srcs |-> info[w].srcs \cup {h}]
          /\ \A v \in DOMAIN info : v # w => info'[v] = info[v]
      BY <2>1, <2>2 DEF Store, Recount
    <2>5. TablesTyped'
      <3>1. info'[w] \in [freq : Nat, srcs : SUBSET Headers]
        BY <1>3, <2>3, <2>4
      <3> HIDE DEF w
      <3> QED BY <2>1, <2>4, <3>1 DEF TablesOK, TablesTyped
    <2>6. NoGaps'
      BY <2>1 DEF TablesOK, NoGaps
    <2>7. Tallied'
      BY <2>1, <2>3, <2>4 DEF TablesOK, Tallied
    <2> QED BY <1>5, <1>6, <1>7, <2>5, <2>6, <2>7 DEF TablesOK
  <1> QED BY <1>8, <1>9

\* A text gets a number only when it has none.
LEMMA FinishTextInv ==
    ASSUME SortedInv, FinishText, UNCHANGED keystr
    PROVE  FilesOK' /\ DiskTyped' /\ RunTyped' /\ TablesOK' /\ HeadersOK' /\ PhaseOK'
  <1> USE DEF SortedInv, files
  <1>1. /\ pc = "learn" /\ pc' \in {"learn", "save"} /\ pos' = FirstPos
        /\ newForms' = FALSE /\ todo' \subseteq todo
        /\ UNCHANGED <<keyFile, listFile, listed, backup, folder, keytbl, info,
                       unread, toList, outcome>>
    BY DEF FinishText
  <1>2. PICK h \in todo : headers' = IF NeedsNumber(h) THEN WithSource(h) ELSE headers
    BY DEF FinishText
  <1>3. h \in Headers
    BY DEF RunTyped
  <1>4. HeadersOK'
    <2>1. CASE NeedsNumber(h)
      <3>1. headers \in Seq(Headers) /\ headers' = Append(headers, h)
        BY <1>2, <2>1 DEF HeadersOK, WithSource
      <3>2. /\ headers' \in Seq(Headers)
            /\ DOMAIN headers' = 1..(Len(headers) + 1)
            /\ \A i \in 1..Len(headers) : headers'[i] = headers[i]
            /\ headers'[Len(headers) + 1] = h
        BY <1>3, <3>1
      <3>3. \A i \in 1..Len(headers) : headers[i] # h
        BY <2>1, <3>1 DEF NeedsNumber
      <3>4. \A i, j \in 1..Len(headers) : headers[i] = headers[j] => i = j
        BY <3>1 DEF HeadersOK, OneNumberEach
      <3>5. Len(headers) \in Nat
        BY <3>1
      <3>6. ASSUME NEW i \in DOMAIN headers', NEW j \in DOMAIN headers',
                   headers'[i] = headers'[j]
            PROVE  i = j
        BY <3>2, <3>3, <3>4, <3>5, <3>6
      <3> QED BY <3>2, <3>6 DEF HeadersOK, OneNumberEach
    <2>2. CASE ~NeedsNumber(h)
      BY <1>2, <2>2 DEF HeadersOK
    <2> QED BY <2>1, <2>2
  <1>5. RunTyped'
    <2>1. newForms' \in BOOLEAN
      BY <1>1, Zenon
    <2>2. pos' \in Nat \ {0}
      BY <1>1 DEF FirstPos
    <2> QED BY <1>1, <2>1, <2>2 DEF RunTyped
  <1>6. PhaseOK'
    BY <1>1 DEF PhaseOK, AtRest, Loading, Saving
  <1>7. TablesOK'
    BY <1>1 DEF TablesOK, TablesTyped, NoGaps, Tallied
  <1>8. FilesOK' /\ DiskTyped'
    BY <1>1 DEF FilesOK, DiskTyped
  <1> QED BY <1>4, <1>5, <1>6, <1>7, <1>8

\* Opening key.txt empties it.
LEMMA OpenKeyInv ==
    ASSUME SortedInv, OpenKey, UNCHANGED keystr
    PROVE  FilesOK' /\ DiskTyped' /\ RunTyped' /\ TablesOK' /\ HeadersOK' /\ PhaseOK'
  <1> USE DEF SortedInv, OpenKey, tables, work
  <1>1. FilesOK' /\ DiskTyped'
    BY BlankOK DEF FilesOK, DiskTyped
  <1>2. RunTyped' /\ HeadersOK'
    BY DEF RunTyped, HeadersOK
  <1>3. TablesOK'
    BY DEF TablesOK, TablesTyped, NoGaps, Tallied
  <1>4. PhaseOK'
    BY DEF PhaseOK, AtRest, Loading, Saving
  <1> QED BY <1>1, <1>2, <1>3, <1>4

\* The sources section lists the numbered headers, and all words are to follow.
LEMMA SaveSourcesInv ==
    ASSUME SortedInv, SaveSources, UNCHANGED keystr
    PROVE  FilesOK' /\ DiskTyped' /\ RunTyped' /\ TablesOK' /\ HeadersOK' /\ PhaseOK'
  <1> USE DEF SortedInv, SaveSources, tables
  <1>1. FileOK(keyFile')
    BY EmptyTableFacts
    DEF FileOK, IsKeyFile, LinesNameSources, HeadersOK, OneNumberEach
  <1>2. FilesOK' /\ DiskTyped'
    BY <1>1 DEF FilesOK, DiskTyped
  <1>3. RunTyped' /\ HeadersOK'
    BY DEF RunTyped, HeadersOK, TablesOK, TablesTyped
  <1>4. TablesOK'
    BY DEF TablesOK, TablesTyped, NoGaps, Tallied
  <1>5. PhaseOK'
    BY DEF PhaseOK, AtRest, Loading, Saving
  <1> QED BY <1>2, <1>3, <1>4, <1>5

\* A line that is written names only sources of the list above it, and a
\* counted one names at least one.
LEMMA SaveWordInv ==
    ASSUME SortedInv, SaveWord, UNCHANGED keystr
    PROVE  FilesOK' /\ DiskTyped' /\ RunTyped' /\ TablesOK' /\ HeadersOK' /\ PhaseOK'
  <1> USE DEF SortedInv
  <1>1. /\ pc = "saveWords"
        /\ UNCHANGED <<listFile, listed, backup, folder>>
    BY DEF SaveWord
  <1>2. PICK s \in unread :
           IF Numbered(keytbl[s])
           THEN /\ keyFile' = [keyFile EXCEPT !.lines = Store(@, s, LineOf(keytbl[s]))]
                /\ unread' = unread \ {s}
                /\ UNCHANGED <<tables, toList, todo, pos, newForms, pc, outcome>>
           ELSE Ended("failed") /\ UNCHANGED keyFile
    BY DEF SaveWord
  <1>3. DiskTyped'
    BY <1>1 DEF DiskTyped
  <1>4. CASE ~Numbered(keytbl[s])
    <2>1. Ended("failed") /\ UNCHANGED keyFile
      BY <1>2, <1>4
    <2>2. FilesOK'
      BY <1>1, <2>1 DEF FilesOK
    <2> QED BY <1>3, <2>1, <2>2, EndedInv
  <1>5. CASE Numbered(keytbl[s])
    <2> DEFINE w == keytbl[s]
               l == LineOf(w)
    <2>1. /\ keyFile' = [keyFile EXCEPT !.lines = Store(@, s, l)]
          /\ unread' = unread \ {s}
          /\ UNCHANGED <<keytbl, info, headers, toList, todo, pos, newForms, pc, outcome>>
      BY <1>2, <1>5 DEF tables
    <2>2. s \in DOMAIN keytbl /\ s \in Slot /\ keyFile.srcs = headers
      BY <1>1 DEF PhaseOK, Saving, RunTyped
    <2>3. /\ w \in Forms /\ w \in DOMAIN info
          /\ info[w] \in [freq : Nat, srcs : SUBSET Headers]
          /\ info[w].freq = 0 <=> info[w].srcs = {}
          /\ PlainOf[w] = s[1]
      BY <2>2 DEF TablesOK, TablesTyped, Tallied, NoGaps, FiledUnderPlain, FormsIn
    <2>4. l.form = w /\ l.freq = info[w].freq
          /\ l.ids = IF info[w].freq = 0 THEN {}
                     ELSE {i \in DOMAIN headers : headers[i] \in info[w].srcs}
      BY DEF LineOf
    <2>5. l.ids \subseteq DOMAIN keyFile.srcs /\ l.ids \subseteq Nat
      BY <2>2, <2>4 DEF HeadersOK
    <2>6. Manual(l) <=> l.ids = {}
      <3>1. CASE info[w].freq = 0
        BY <2>4, <3>1 DEF Manual
      <3>2. CASE info[w].freq # 0
        <4>1. PICK h \in info[w].srcs : TRUE
          BY <2>3, <3>2
        <4>2. info[w].freq > 0
          BY <2>3, <3>2
        <4>3. PICK i \in DOMAIN headers : headers[i] = h
          BY <1>5, <4>1, <4>2 DEF Numbered
        <4> QED BY <2>4, <3>2, <4>1, <4>3 DEF Manual
      <3> QED BY <3>1, <3>2
    <2>7. l \in Line
      BY <2>3, <2>4, <2>5 DEF Line, LineOf
    <2>8. FileOK(keyFile')
      <3>1. FileOK(keyFile) /\ keyFile = [shape |-> keyFile.shape, srcs |-> keyFile.srcs,
                                          lines |-> keyFile.lines]
        BY DEF FilesOK, FileOK, IsKeyFile
      <3>2. keyFile' = [shape |-> keyFile.shape, srcs |-> keyFile.srcs,
                        lines |-> Store(keyFile.lines, s, l)]
        BY <2>1, <3>1
      <3>3. keyFile.shape \in {"blank", "words", "divided"}
        BY <3>1 DEF FileOK, IsKeyFile
      <3> HIDE DEF w, l
      <3> QED BY <2>2, <2>3, <2>4, <2>5, <2>6, <2>7, <3>1, <3>2, <3>3, WithLineOK
    <2>9. FilesOK'
      BY <1>1, <2>8 DEF FilesOK
    <2>10. RunTyped' /\ HeadersOK'
      BY <2>1 DEF RunTyped, HeadersOK
    <2>11. TablesOK'
      BY <2>1 DEF TablesOK, TablesTyped, NoGaps, Tallied
    <2>12. PhaseOK'
      BY <1>1, <2>1 DEF PhaseOK, AtRest, Loading, Saving
    <2> QED BY <1>3, <2>9, <2>10, <2>11, <2>12
  <1> QED BY <1>4, <1>5

\* Neither step on sources.txt touches the key.
LEMMA ListStepsInv ==
    ASSUME SortedInv, OpenList \/ WriteList, UNCHANGED keystr
    PROVE  FilesOK' /\ DiskTyped' /\ RunTyped' /\ TablesOK' /\ HeadersOK' /\ PhaseOK'
  <1> USE DEF SortedInv
  <1>1. CASE OpenList
    <2>1. FilesOK' /\ DiskTyped' /\ RunTyped' /\ HeadersOK'
      BY <1>1 DEF OpenList, FilesOK, DiskTyped, RunTyped, HeadersOK, tables, work
    <2>2. TablesOK' /\ PhaseOK'
      BY <1>1 DEF OpenList, TablesOK, TablesTyped, NoGaps, Tallied, tables,
                  PhaseOK, AtRest, Loading, Saving
    <2> QED BY <2>1, <2>2
  <1>2. CASE WriteList
    <2>1. FilesOK' /\ DiskTyped'
      BY <1>2 DEF WriteList, FilesOK, DiskTyped, RunTyped
    <2> QED BY <1>2, <2>1, EndedInv DEF WriteList
  <1> QED BY <1>1, <1>2

\* The steps of Exmacronize preserve the invariant.
LEMMA ExmacStepInv == SortedInv /\ ExmacStep => SortedInv'
  <1> SUFFICES ASSUME SortedInv, ExmacStep PROVE SortedInv'
    OBVIOUS
  <1>1. UNCHANGED keystr /\ UNCHANGED <<typed, mishaps>>
    BY DEF ExmacStep
  <1>2. FilesOK' /\ DiskTyped' /\ RunTyped' /\ TablesOK' /\ HeadersOK' /\ PhaseOK'
    BY <1>1, StartExmacInv, LoadLineInv, FindSourcesInv, LearnWordInv, FinishTextInv,
       OpenKeyInv, SaveSourcesInv, SaveWordInv, ListStepsInv DEF ExmacStep, Exmac
  <1>3. HistoryTyped'
    BY <1>1 DEF ExmacStep, SortedInv, HistoryTyped
  <1> QED BY <1>2, <1>3 DEF SortedInv
----------------------------------------------------------------------------
(* Clear Key, kills and the user. *)

\* The three steps of Clear Key run while Exmacronize does not.
LEMMA ClearInv ==
    ASSUME SortedInv, ClearOpen \/ ClearStep
    PROVE  SortedInv'
  <1> USE DEF SortedInv
  <1>1. FilesOK'
    <2>1. CASE ClearOpen
      BY <2>1, BlankOK, ClearedOK DEF ClearOpen, FilesOK
    <2>2. CASE ClearStep
      BY <2>2, BlankOK DEF ClearStep, ClearWrite, ClearList, FilesOK
    <2> QED BY <2>1, <2>2
  <1>2. DiskTyped'
    BY DEF ClearStep, ClearOpen, ClearWrite, ClearList, DiskTyped
  <1>3. UNCHANGED <<tables, work>> /\ pc \in {"idle", "clearKey", "clearList"}
        /\ pc' \in {"idle", "clearKey", "clearList"} /\ outcome' \in {outcome, "none"}
    BY DEF ClearStep, ClearOpen, ClearWrite, ClearList
  <1>4. RunTyped' /\ HeadersOK'
    BY <1>3 DEF RunTyped, HeadersOK, tables, work
  <1>5. TablesOK' /\ PhaseOK'
    BY <1>3 DEF TablesOK, TablesTyped, NoGaps, Tallied, tables, work,
                PhaseOK, AtRest, Loading, Saving
  <1>6. HistoryTyped'
    BY DEF ClearStep, ClearOpen, ClearWrite, ClearList, HistoryTyped, history
  <1> QED BY <1>1, <1>2, <1>4, <1>5, <1>6

\* A kill loses the memory and leaves the files.
LEMMA KillInv ==
    ASSUME SortedInv, Kill
    PROVE  SortedInv'
  <1> USE DEF SortedInv, Kill, files
  <1>1. FilesOK' /\ DiskTyped'
    BY BlankOK DEF FilesOK, DiskTyped
  <1>2. RunTyped' /\ TablesOK' /\ HeadersOK' /\ PhaseOK'
    BY EndedInv
  <1>3. HistoryTyped'
    BY LifecycleAssumption DEF HistoryTyped
  <1> QED BY <1>1, <1>2, <1>3

\* What the user does leaves the program alone and the key file well-formed.
LEMMA UserInv ==
    ASSUME SortedInv, AddSource \/ AddManual \/ RestoreBackup \/ DropSource \/ DeleteList
    PROVE  SortedInv'
  <1> USE DEF SortedInv
  <1>1. /\ UNCHANGED <<pc, tables, work, keystr, backup>>
        /\ outcome' \in {outcome, "none"}
    BY DEF AddSource, AddManual, RestoreBackup, DropSource, DeleteList
  <1>2. RunTyped' /\ HeadersOK' /\ TablesOK'
    BY <1>1 DEF RunTyped, HeadersOK, TablesOK, TablesTyped, NoGaps, Tallied, tables, work
  <1>3. DiskTyped'
    BY DEF AddSource, AddManual, RestoreBackup, DropSource, DeleteList, DiskTyped, files
  <1>4. keyFile' = keyFile \/ pc = "idle"
    BY DEF AddSource, AddManual, RestoreBackup, DropSource, DeleteList, files
  <1>5. PhaseOK'
    BY <1>1, <1>4 DEF PhaseOK, AtRest, Loading, Saving, tables, work
  <1>6. FileOK(keyFile')
    <2>1. CASE AddManual
      <3>1. PICK w \in ManualWords : /\ NextLine(keyFile, w) <= MaxPar
                                     /\ keyFile' = WithManual(keyFile, w)
        BY <2>1 DEF AddManual
      <3>2. w \in Forms
        BY LifecycleAssumption
      <3> QED BY <3>1, <3>2, WithManualOK DEF FilesOK
    <2>2. CASE AddSource \/ RestoreBackup \/ DropSource \/ DeleteList
      BY <2>2 DEF AddSource, RestoreBackup, DropSource, DeleteList, files, FilesOK
    <2> QED BY <2>1, <2>2
  <1>7. FilesOK'
    BY <1>1, <1>6 DEF FilesOK
  <1>8. HistoryTyped'
    <2>1. CASE AddSource \/ RestoreBackup
      BY <2>1 DEF AddSource, RestoreBackup, HistoryTyped, history
    <2>2. CASE AddManual
      BY <2>2, LifecycleAssumption DEF AddManual, HistoryTyped
    <2>3. CASE DropSource \/ DeleteList
      <3>1. mishaps' = mishaps + 1 /\ mishaps < MaxMishaps
            /\ UNCHANGED <<typed, damage, backupDamage>>
        BY <2>3 DEF DropSource, DeleteList
      <3>2. mishaps' \in 0..MaxMishaps
        BY <3>1, LifecycleAssumption DEF HistoryTyped
      <3> QED BY <3>1, <3>2 DEF HistoryTyped
    <2> QED BY <2>1, <2>2, <2>3
  <1> QED BY <1>2, <1>3, <1>5, <1>7, <1>8

\* Doing nothing preserves the invariant.
LEMMA StutterInv ==
    ASSUME SortedInv, UNCHANGED vars
    PROVE  SortedInv'
  <1> USE DEF SortedInv, vars, files, tables, work, history
  <1>1. FilesOK' /\ DiskTyped' /\ RunTyped' /\ HeadersOK' /\ HistoryTyped'
    BY DEF FilesOK, DiskTyped, RunTyped, HeadersOK, HistoryTyped
  <1>2. TablesOK' /\ PhaseOK'
    BY DEF TablesOK, TablesTyped, NoGaps, Tallied, PhaseOK, AtRest, Loading, Saving
  <1> QED BY <1>1, <1>2
----------------------------------------------------------------------------
(* The theorems. *)

\* What every step of a run may rely on: types, lines and forms under their plain
\* words without a gap in the numbering, well-formed copies of the key.
THEOREM Inductive == Spec => []IInv
  <1>1. Init => IInv
    BY InitInv, Sorted
  <1>2. IInv /\ [Next]_vars => IInv'
    <2>1. SortedInv /\ [Next]_vars => SortedInv'
      BY ExmacStepInv, ClearInv, KillInv, UserInv, StutterInv DEF Next, User
    <2>2. IInv => SortedInv
      BY Sorted
    <2>3. SortedInv' => IInv'
      BY Sorted, PTL
    <2> QED BY <2>1, <2>2, <2>3
  <1> QED BY <1>1, <1>2, PTL DEF Spec

\* Files, tables and bookkeeping hold what their readers expect.
THEOREM Typed == Spec => []TypeOK
  <1>1. IInv => TypeOK
    BY DEF IInv
  <1> QED BY <1>1, Inductive, PTL

\* getpars and getnextkey, which count up to the first missing number, miss no
\* form of the key: neither loading a key file the user has written into nor
\* learning leaves a gap.
THEOREM NumberingHasNoGaps == Spec => []NoGaps
  <1>1. IInv => NoGaps
    BY DEF IInv
  <1> QED BY <1>1, Inductive, PTL

\* Every copy of the key, also one cut short by a kill, cleared or restored,
\* names only sources it lists, and no source has two numbers.
THEOREM KeysAreWellFormed == Spec => []WellFormed
  <1>1. IInv => WellFormed
    BY DEF IInv
  <1> QED BY <1>1, Inductive, PTL
----------------------------------------------------------------------------
(* The order of the two files. *)

\* Outside Exmacronize nothing of Learned and Written is disturbed.
LEMMA OtherLearned ==
    ASSUME Learned, Written, ClearStep \/ Kill \/ User \/ UNCHANGED vars
    PROVE  Learned' /\ Written'
  <1>1. CASE AddSource \/ UNCHANGED vars
    <2>1. UNCHANGED <<keyFile, listed, pc, keytbl, unread, toList, todo, pos>>
      BY <1>1 DEF AddSource, vars, files, tables, work
    <2> QED BY <2>1 DEF Learned, Written, Current
  <1>2. CASE ClearStep \/ Kill \/ AddManual \/ ClearOpen \/ RestoreBackup \/ DropSource
             \/ DeleteList
    <2>1. pc' \in {"idle", "clearKey", "clearList"} /\ pos' \in {pos, FirstPos}
          /\ (pc \in {"idle", "clearKey", "clearList"} \/ pos' = FirstPos)
      BY <1>2 DEF ClearStep, ClearWrite, ClearList, Kill, Ended, AddManual, ClearOpen,
                  RestoreBackup, DropSource, DeleteList, work
    <2>2. pos' = FirstPos
      BY <2>1 DEF Learned
    <2> QED BY <2>1, <2>2 DEF Learned, Written
  <1> QED BY <1>1, <1>2 DEF User

\* Learning a word puts it into the key and loses none.
LEMMA LearnWordLearned ==
    ASSUME IInv, Learned, LearnWord
    PROVE  Learned'
  <1>1. /\ pc = "learn" /\ pc' = "learn" /\ pos' = pos + 1
        /\ UNCHANGED <<listed, toList, todo>>
    BY DEF LearnWord, files
  <1>2. PICK h \in todo :
           /\ Current(h) /\ pos <= Len(Text[h])
           /\ LET w == Text[h][pos]
                  p == PlainOf[w]
              IN \/ /\ w \notin Parallels(keytbl, p)
                    /\ HasRoom(keytbl, p)
                    /\ keytbl' = Store(keytbl, GetNextKey(keytbl, p), w)
                 \/ /\ w \in Parallels(keytbl, p)
                    /\ UNCHANGED keytbl
    BY DEF LearnWord
  <1> DEFINE w == Text[h][pos]
             p == PlainOf[w]
  <1>3. /\ h \in Headers /\ todo \subseteq Headers /\ pos \in Nat \ {0}
        /\ DOMAIN keytbl \subseteq Slot
        /\ \A t \in DOMAIN keytbl : keytbl[t] \in Forms
        /\ Dense(keytbl) /\ FiledUnderPlain(keytbl)
    BY DEF IInv, TypeOK, NoGaps
  <1>4. w \in Forms /\ p \in Plains
    <2>1. Text[h] \in Seq(Forms)
      BY <1>3, ExmacAssumption
    <2>2. pos \in 1..Len(Text[h])
      BY <1>2, <1>3, <2>1
    <2> QED BY <2>1, <2>2, WordKeyAssumption
  <1>5. FormsIn(keytbl') = FormsIn(keytbl) \cup {w}
    <2>1. CASE w \notin Parallels(keytbl, p)
      <3> DEFINE x == GetNextKey(keytbl, PlainOf[w])
      <3>1. /\ HasRoom(keytbl, PlainOf[w])
            /\ x = GetNextKey(keytbl, PlainOf[w]) /\ keytbl' = Store(keytbl, x, w)
        BY <1>2, <2>1
      <3>2. /\ DOMAIN keytbl \subseteq Slot
            /\ \A t \in DOMAIN keytbl : keytbl[t] \in Forms
            /\ Dense(keytbl) /\ FiledUnderPlain(keytbl)
        BY <1>3
      <3> HIDE DEF w, x
      <3>3. /\ x \in Slot /\ x \notin DOMAIN keytbl
            /\ DOMAIN keytbl' = DOMAIN keytbl \cup {x}
            /\ FormsIn(keytbl') = FormsIn(keytbl) \cup {w}
        BY <1>4, <3>1, <3>2, StoreNext
      <3> QED BY <3>3
    <2>2. CASE w \in Parallels(keytbl, p)
      <3>1. keytbl' = keytbl
        BY <1>2, <2>2
      <3>2. w \in FormsIn(keytbl)
        BY <1>3, <1>4, <2>2, PresentForm
      <3> QED BY <3>1, <3>2
    <2> QED BY <2>1, <2>2
  <1>6. \A g \in toList' \ listed' :
           g \in todo' \/ \A i \in DOMAIN Text[g] : Text[g][i] \in FormsIn(keytbl')
    <2> HIDE DEF w, p
    <2> QED BY <1>1, <1>5 DEF Learned
  <1>7. ASSUME NEW g \in todo', Current(g)', NEW i \in DOMAIN Text[g], i < pos'
        PROVE  Text[g][i] \in FormsIn(keytbl')
    <2>1. g = h
      <3>1. g \in todo /\ \A k \in todo : g <= k
        BY <1>1, <1>7 DEF Current
      <3>2. g <= h /\ h <= g
        BY <1>2, <3>1 DEF Current
      <3> QED BY <1>3, <3>1, <3>2, KeyFileAssumption
    <2>2. i \in Nat
      BY <1>3, <2>1, ExmacAssumption
    <2>3. CASE i = pos
      BY <1>5, <2>1, <2>3
    <2>4. CASE i # pos
      <3>1. i < pos
        BY <1>1, <1>3, <1>7, <2>2, <2>4
      <3>2. Text[g][i] \in FormsIn(keytbl)
        BY <1>1, <1>2, <2>1, <3>1 DEF Learned
      <3> QED BY <1>5, <3>2
    <2> QED BY <2>3, <2>4
  <1> QED BY <1>1, <1>6, <1>7 DEF Learned

\* When a text is finished, all its words are in the key.
LEMMA FinishTextLearned ==
    ASSUME IInv, Learned, FinishText
    PROVE  Learned'
  <1>1. /\ pc = "learn" /\ pc' \in {"learn", "save"} /\ pos' = FirstPos
        /\ UNCHANGED <<listed, toList, keytbl>>
    BY DEF FinishText, files
  <1>2. PICK h \in todo :
           /\ Current(h) /\ pos > Len(Text[h])
           /\ todo' = todo \ {h}
           /\ pc' = IF todo = {h} THEN "save" ELSE "learn"
    BY DEF FinishText
  <1>3. h \in Headers /\ pos \in Nat \ {0} /\ todo \subseteq Headers
    BY DEF IInv, TypeOK
  <1>4. ASSUME NEW i \in DOMAIN Text[h] PROVE Text[h][i] \in FormsIn(keytbl)
    <2>1. Text[h] \in Seq(Forms)
      BY <1>3, ExmacAssumption
    <2>2. i < pos
      BY <1>2, <1>3, <2>1
    <2> QED BY <1>1, <1>2, <2>2 DEF Learned
  <1>5. \A g \in toList' \ listed' :
           g \in todo' \/ \A i \in DOMAIN Text[g] : Text[g][i] \in FormsIn(keytbl')
    BY <1>1, <1>2, <1>4 DEF Learned
  <1>6. \A g \in todo' : \A i \in DOMAIN Text[g] : ~(i < pos')
    BY <1>1, <1>2, <1>3, ExmacAssumption DEF FirstPos
  <1>7. pc' = "save" => todo' = {}
    BY <1>2
  <1> QED BY <1>1, <1>5, <1>6, <1>7 DEF Learned

\* The other steps of Exmacronize up to the writing of the list.
LEMMA ExmacLearned ==
    ASSUME IInv, Learned, Written, Exmac
    PROVE  Learned' /\ Written'
  <1>1. CASE LearnWord \/ FinishText
    <2>1. pc' \in {"learn", "save"}
      BY <1>1 DEF LearnWord, FinishText
    <2> QED BY <1>1, <2>1, LearnWordLearned, FinishTextLearned DEF Written
  <1>2. CASE StartExmac \/ LoadLine \/ WriteList
    <2>1. pc' \in {"idle", "load"} /\ pos' = FirstPos
      BY <1>2 DEF StartExmac, LoadLine, WriteList, Ended, Learned
    <2> QED BY <2>1 DEF Learned, Written
  <1>3. CASE FindSources
    <2>1. CASE Ended("failed") \/ Ended("done")
      BY <2>1 DEF Ended, Learned, Written
    <2>2. CASE ~(Ended("failed") \/ Ended("done"))
      <3>1. /\ pc = "load" /\ pc' = "learn" /\ UNCHANGED <<listed, pos>>
            /\ todo' = NewTexts /\ toList' = SourcesToList
        BY <1>3, <2>2 DEF FindSources
      <3>2. pos' = FirstPos
        BY <3>1 DEF Learned
      <3>3. toList' \ listed' \subseteq todo'
        BY <3>1 DEF NewTexts, SourcesToList
      <3>4. todo' \subseteq Headers
        BY <3>1 DEF NewTexts, IInv, TypeOK
      <3>5. \A g \in todo' : \A i \in DOMAIN Text[g] : ~(i < pos')
        BY <3>2, <3>4, ExmacAssumption DEF FirstPos
      <3> QED BY <3>1, <3>3, <3>5 DEF Learned, Written
    <2> QED BY <2>1, <2>2
  <1>4. CASE OpenKey \/ SaveSources \/ OpenList
    <2>1. /\ pc \in {"save", "saveSources", "saveWords"}
          /\ pc' \in {"saveSources", "saveWords", "list"}
          /\ UNCHANGED <<keytbl, toList, todo, pos>>
          /\ pc' # "list" => UNCHANGED listed
          /\ pc' = "saveWords" => unread' = DOMAIN keytbl
      BY <1>4 DEF OpenKey, SaveSources, OpenList, tables, work
    <2> QED BY <2>1 DEF Learned, Written
  <1>5. CASE SaveWord
    <2>1. CASE Ended("failed")
      BY <2>1 DEF Ended, Learned, Written
    <2>2. CASE ~Ended("failed")
      <3>1. PICK s \in unread :
               /\ keyFile' = [keyFile EXCEPT !.lines = Store(@, s, LineOf(keytbl[s]))]
               /\ unread' = unread \ {s}
        BY <1>5, <2>2 DEF SaveWord
      <3>2. pc = "saveWords" /\ UNCHANGED <<pc, keytbl, toList, todo, pos, listed>>
        BY <1>5, <2>2 DEF SaveWord, tables
      <3>3. keyFile'.lines = Store(keyFile.lines, s, LineOf(keytbl[s]))
        BY <3>1 DEF IInv, TypeOK, IsKeyFile
      <3>4. /\ DOMAIN keyFile'.lines = DOMAIN keyFile.lines \cup {s}
            /\ keyFile'.lines[s] = LineOf(keytbl[s])
            /\ \A t \in DOMAIN keyFile.lines : t # s => keyFile'.lines[t] = keyFile.lines[t]
        BY <3>3 DEF Store
      <3>5. LineOf(keytbl[s]).form = keytbl[s]
        BY DEF LineOf
      <3>6. Written'
        BY <3>1, <3>2, <3>4, <3>5 DEF Written
      <3>7. Learned'
        BY <3>2 DEF Learned
      <3> QED BY <3>6, <3>7
    <2> QED BY <2>1, <2>2
  <1> QED BY <1>1, <1>2, <1>3, <1>4, <1>5 DEF Exmac

\* What is learned stays learned, from the first step on.
LEMMA LearnedAlways == Spec => [](Learned /\ Written)
  <1>1. Init => Learned /\ Written
    BY DEF Init, Learned, Written, FirstPos
  <1>2. IInv /\ Learned /\ Written /\ [Next]_vars => Learned' /\ Written'
    BY OtherLearned, ExmacLearned DEF Next, ExmacStep
  <1> QED BY <1>1, <1>2, Inductive, PTL DEF Spec

\* When sources.txt is rewritten, every word of the texts new to it is in
\* key.txt: whenever the program is stopped, no text is listed unlearned.
THEOREM KeyBeforeList == Spec => SavedBeforeListed
  <1>1. ASSUME Learned, Written, [Next]_vars, pc = "saveWords", pc' = "list",
               NEW h \in toList \ listed, NEW i \in DOMAIN Text[h]
        PROVE  Text[h][i] \in FileForms(keyFile)
    <2>1. AllWritten
      BY <1>1 DEF Next, ExmacStep, Exmac, StartExmac, LoadLine, FindSources, LearnWord,
                  FinishText, OpenKey, SaveSources, SaveWord, OpenList, WriteList, Ended,
                  ClearStep, ClearWrite, ClearList, Kill, User, AddSource, AddManual,
                  ClearOpen, RestoreBackup, DropSource, DeleteList, vars
    <2>2. Text[h][i] \in FormsIn(keytbl)
      BY <1>1 DEF Learned
    <2> QED BY <1>1, <2>1, <2>2 DEF FormsIn, Written, AllWritten, FileForms
  <1>2. Learned /\ Written /\ [Next]_vars =>
           [pc = "saveWords" /\ pc' = "list" =>
              \A h \in toList \ listed : \A i \in DOMAIN Text[h] :
                 Text[h][i] \in FileForms(keyFile)]_vars
    BY <1>1
  <1> QED BY <1>2, LearnedAlways, PTL DEF Spec, SavedBeforeListed
----------------------------------------------------------------------------
(* Unique forms. *)

\* Storing a form that the key does not have yet keeps the forms unique.
LEMMA StoreOnce ==
    ASSUME NEW K, NEW x, x \notin DOMAIN K, NEW w, w \notin FormsIn(K), OncePerForm(K)
    PROVE  OncePerForm(Store(K, x, w))
  <1>1. /\ DOMAIN Store(K, x, w) = DOMAIN K \cup {x}
        /\ Store(K, x, w)[x] = w
        /\ \A s \in DOMAIN K : Store(K, x, w)[s] = K[s]
    BY DEF Store
  <1> QED BY <1>1 DEF OncePerForm, FormsIn

\* Reading a line whose form stands on no other line.
LEMMA LoadLineUnique ==
    ASSUME IInv, UInv, LoadLine, UNCHANGED keystr
    PROVE  UInv'
  <1>1. PICK s \in unread :
           /\ keytbl' = Store(keytbl, GetNextKey(keytbl, PlainOf[keyFile.lines[s].form]),
                              keyFile.lines[s].form)
           /\ unread' = unread \ {s}
    BY DEF LoadLine
  <1>2. pc = "load" /\ pc' = "load" /\ UNCHANGED <<keyFile, backup>>
    BY DEF LoadLine, files
  <1> DEFINE w == keyFile.lines[s].form
             x == GetNextKey(keytbl, PlainOf[w])
  <1>3. /\ s \in DOMAIN keyFile.lines /\ w \in Forms /\ PlainOf[w] \in Plains
        /\ unread \subseteq DOMAIN keyFile.lines /\ DOMAIN keytbl \subseteq Slot
    BY <1>2, WordKeyAssumption DEF IInv, TypeOK, Loading, IsKeyFile, Line
  <1>4. w \notin FormsIn(keytbl)
    <2>1. SUFFICES ASSUME NEW t \in DOMAIN keytbl, keytbl[t] = w PROVE FALSE
      BY DEF FormsIn
    <2>2. PICK r \in DOMAIN keyFile.lines \ unread : keyFile.lines[r].form = keytbl[t]
      BY <1>2 DEF UInv
    <2>3. r = s
      BY <1>3, <2>1, <2>2 DEF UInv, LinesUnique
    <2> QED BY <2>2, <2>3
  <1>5. x \notin DOMAIN keytbl
    <2> HIDE DEF w
    <2>1. <<PlainOf[w], ParCount(keytbl, PlainOf[w])>> \notin DOMAIN keytbl
      BY <1>3, ParCountStops
    <2> QED BY <2>1 DEF GetNextKey
  <1>6. UniqueForms'
    <2>1. keytbl' = Store(keytbl, x, w) /\ OncePerForm(keytbl)
      BY <1>1 DEF UInv, UniqueForms
    <2> HIDE DEF x, w
    <2> QED BY <1>4, <1>5, <2>1, StoreOnce DEF UniqueForms
  <1>7. ASSUME NEW t \in DOMAIN keytbl'
        PROVE  \E r \in DOMAIN keyFile' .lines \ unread' : keyFile'.lines[r].form = keytbl'[t]
    <2>1. /\ DOMAIN keytbl' = DOMAIN keytbl \cup {x} /\ keytbl'[x] = w
          /\ \A r \in DOMAIN keytbl : r # x => keytbl'[r] = keytbl[r]
      BY <1>1 DEF Store
    <2>2. CASE t = x
      BY <1>1, <1>2, <1>3, <2>1, <2>2
    <2>3. CASE t # x
      <3>1. t \in DOMAIN keytbl /\ keytbl'[t] = keytbl[t]
        BY <2>1, <2>3
      <3>2. PICK r \in DOMAIN keyFile.lines \ unread : keyFile.lines[r].form = keytbl[t]
        BY <1>2, <3>1 DEF UInv
      <3> QED BY <1>1, <1>2, <3>1, <3>2
    <2> QED BY <2>2, <2>3
  <1>8. \A kf \in {keyFile', backup', keystr'} : LinesUnique(kf)
    BY <1>2 DEF UInv
  <1> QED BY <1>2, <1>6, <1>7, <1>8 DEF UInv

\* A word that getpars does not return is in no slot of the key.
LEMMA LearnWordUnique ==
    ASSUME IInv, UInv, LearnWord, UNCHANGED keystr
    PROVE  UInv'
  <1>1. pc' = "learn" /\ pos \in Nat \ {0} /\ UNCHANGED <<keyFile, backup>>
    BY DEF LearnWord, files, IInv, TypeOK
  <1>2. PICK h \in todo :
           /\ pos <= Len(Text[h])
           /\ LET w == Text[h][pos]
                  p == PlainOf[w]
              IN \/ /\ w \notin Parallels(keytbl, p)
                    /\ keytbl' = Store(keytbl, GetNextKey(keytbl, p), w)
                 \/ UNCHANGED keytbl
    BY DEF LearnWord
  <1> DEFINE w == Text[h][pos]
             x == GetNextKey(keytbl, PlainOf[w])
  <1>3. w \in Forms /\ PlainOf[w] \in Plains
    <2>1. Text[h] \in Seq(Forms)
      BY ExmacAssumption DEF IInv, TypeOK
    <2>2. pos \in 1..Len(Text[h])
      BY <1>1, <1>2, <2>1
    <2> QED BY <2>1, <2>2, WordKeyAssumption
  <1>4. UniqueForms'
    <2>1. CASE UNCHANGED keytbl
      BY <2>1 DEF UInv, UniqueForms
    <2>2. CASE ~UNCHANGED keytbl
      <3>1. w \notin Parallels(keytbl, PlainOf[w]) /\ keytbl' = Store(keytbl, x, w)
        BY <1>2, <2>2
      <3>2. DOMAIN keytbl \subseteq Slot /\ Dense(keytbl) /\ FiledUnderPlain(keytbl)
        BY DEF IInv, TypeOK, NoGaps
      <3>3. OncePerForm(keytbl)
        BY DEF UInv, UniqueForms
      <3> HIDE DEF w
      <3>4. w \notin FormsIn(keytbl)
        BY <1>3, <3>1, <3>2, AbsentForm
      <3>5. x \notin DOMAIN keytbl
        <4>1. <<PlainOf[w], ParCount(keytbl, PlainOf[w])>> \notin DOMAIN keytbl
          BY <1>3, <3>2, ParCountStops
        <4> QED BY <4>1 DEF GetNextKey
      <3> HIDE DEF x
      <3> QED BY <3>1, <3>3, <3>4, <3>5, StoreOnce DEF UniqueForms
    <2> QED BY <2>1, <2>2
  <1>5. \A kf \in {keyFile', backup', keystr'} : LinesUnique(kf)
    BY <1>1 DEF UInv
  <1> QED BY <1>1, <1>4, <1>5 DEF UInv

\* A line that is written repeats no line written before.
LEMMA SaveWordUnique ==
    ASSUME IInv, UInv, SaveWord, UNCHANGED keystr
    PROVE  UInv'
  <1>1. CASE Ended("failed")
    BY <1>1, EmptyTableFacts DEF SaveWord, Ended, UInv, UniqueForms
  <1>2. CASE ~Ended("failed")
    <2>1. PICK s \in unread :
             /\ keyFile' = [keyFile EXCEPT !.lines = Store(@, s, LineOf(keytbl[s]))]
             /\ unread' = unread \ {s}
      BY <1>2 DEF SaveWord
    <2>2. pc = "saveWords" /\ UNCHANGED <<pc, keytbl, backup>>
      BY <1>2 DEF SaveWord, tables
    <2>3. /\ DOMAIN keyFile'.lines = DOMAIN keyFile.lines \cup {s}
          /\ keyFile'.lines[s].form = keytbl[s]
          /\ \A t \in DOMAIN keyFile.lines : t # s => keyFile'.lines[t] = keyFile.lines[t]
      <3>1. keyFile'.lines = Store(keyFile.lines, s, LineOf(keytbl[s]))
        BY <2>1 DEF IInv, TypeOK, IsKeyFile
      <3>2. LineOf(keytbl[s]).form = keytbl[s]
        BY DEF LineOf
      <3> QED BY <3>1, <3>2 DEF Store
    <2>4. s \in DOMAIN keytbl
      BY <2>2 DEF IInv, Saving
    <2>5. \A t \in DOMAIN keyFile'.lines :
             t \in DOMAIN keytbl' \ unread' /\ keyFile'.lines[t].form = keytbl'[t]
      BY <2>1, <2>2, <2>3, <2>4 DEF UInv
    <2>6. LinesUnique(keyFile')
      BY <2>2, <2>5 DEF LinesUnique, UInv, UniqueForms, OncePerForm
    <2>7. UniqueForms' /\ \A kf \in {backup', keystr'} : LinesUnique(kf)
      BY <2>2 DEF UInv, UniqueForms
    <2> QED BY <2>2, <2>5, <2>6, <2>7 DEF UInv
  <1> QED BY <1>1, <1>2

\* The other steps of Exmacronize only move keys about, or start from nothing.
LEMMA ExmacUnique ==
    ASSUME IInv, UInv, Exmac, UNCHANGED keystr
    PROVE  UInv'
  <1>1. CASE LoadLine \/ LearnWord \/ SaveWord
    BY <1>1, LoadLineUnique, LearnWordUnique, SaveWordUnique
  <1>2. CASE StartExmac
    <2>1. keytbl = EmptyTable
      BY <1>2 DEF StartExmac, IInv, AtRest
    <2>2. keytbl' = EmptyTable /\ pc' # "saveWords" /\ UNCHANGED keyFile /\ backup' = keyFile
      BY <1>2, <2>1 DEF StartExmac, Ended, files
    <2> QED BY <2>2, EmptyTableFacts DEF UInv, UniqueForms
  <1>3. CASE FindSources \/ FinishText \/ OpenList \/ WriteList
    <2>1. /\ UNCHANGED <<keyFile, backup>> /\ keytbl' \in {keytbl, EmptyTable}
          /\ pc' \notin {"load", "saveWords"}
      BY <1>3 DEF FindSources, FinishText, OpenList, WriteList, Ended, tables, files
    <2> QED BY <2>1, EmptyTableFacts DEF UInv, UniqueForms
  <1>4. CASE OpenKey \/ SaveSources
    <2>1. /\ keyFile'.lines = EmptyTable
          /\ UNCHANGED <<keytbl, backup>> /\ pc' # "load"
      BY <1>4 DEF OpenKey, SaveSources, tables, Blank
    <2> QED BY <2>1, EmptyTableFacts DEF UInv, UniqueForms, LinesUnique
  <1> QED BY <1>1, <1>2, <1>3, <1>4 DEF Exmac

\* Clear Key, kills and the user put no form twice into a file, unless the user
\* types one that is there.
LEMMA OtherUnique ==
    ASSUME "repeat" \notin UserActs, IInv, UInv,
           ClearStep \/ Kill \/ User \/ UNCHANGED vars
    PROVE  UInv'
  <1>1. \A kf : LinesUnique(kf) => LinesUnique(Cleared(kf))
    <2> TAKE kf
    <2>1. /\ DOMAIN Cleared(kf).lines \subseteq DOMAIN kf.lines
          /\ \A s \in DOMAIN Cleared(kf).lines : Cleared(kf).lines[s] = kf.lines[s]
      BY DEF Cleared, Kept
    <2> QED BY <2>1 DEF LinesUnique
  <1>2. LinesUnique(Blank)
    BY EmptyTableFacts DEF LinesUnique, Blank
  <1>3. CASE ClearStep \/ ClearOpen \/ Kill \/ RestoreBackup
    <2>1. keytbl' \in {keytbl, EmptyTable} /\ pc' \in {"idle", "clearKey", "clearList"}
      BY <1>3 DEF ClearStep, ClearOpen, ClearWrite, ClearList, Kill, RestoreBackup, Ended,
                  tables
    <2>2. \A kf \in {keyFile', backup', keystr'} : LinesUnique(kf)
      BY <1>1, <1>2, <1>3
      DEF ClearStep, ClearOpen, ClearWrite, ClearList, Kill, RestoreBackup, files, UInv
    <2> QED BY <2>1, <2>2, EmptyTableFacts DEF UInv, UniqueForms
  <1>4. CASE AddSource \/ DropSource \/ DeleteList \/ UNCHANGED vars
    <2>1. UNCHANGED <<keyFile, backup, keystr, keytbl, pc, unread>>
      BY <1>4 DEF AddSource, DropSource, DeleteList, vars, files, tables, work
    <2> QED BY <2>1 DEF UInv, UniqueForms
  <1>5. CASE AddManual
    <2>1. PICK w \in ManualWords : /\ w \notin FileForms(keyFile)
                                   /\ NextLine(keyFile, w) <= MaxPar
                                   /\ keyFile' = WithManual(keyFile, w)
      BY <1>5 DEF AddManual
    <2>2. /\ pc = "idle" /\ UNCHANGED <<pc, keytbl, backup, keystr>>
      BY <1>5 DEF AddManual, tables
    <2> DEFINE x == <<PlainOf[w], NextLine(keyFile, w)>>
               l == [form |-> w, freq |-> 0, ids |-> {}]
    <2>3. keyFile'.lines = Store(keyFile.lines, x, l)
      BY <2>1 DEF WithManual
    <2>4. /\ DOMAIN keyFile'.lines = DOMAIN keyFile.lines \cup {x}
          /\ keyFile'.lines[x].form = w
          /\ \A s \in DOMAIN keyFile.lines : s # x => keyFile'.lines[s] = keyFile.lines[s]
      <3> HIDE DEF x
      <3>1. keyFile'.lines[x] = l
        BY <2>3 DEF Store
      <3> QED BY <2>3, <3>1 DEF Store
    <2>5. \A s \in DOMAIN keyFile.lines : keyFile.lines[s].form # w
      BY <2>1 DEF FileForms
    <2>6. LinesUnique(keyFile')
      <3> HIDE DEF x
      <3> QED BY <2>4, <2>5 DEF LinesUnique, UInv
    <2> QED BY <2>2, <2>6 DEF UInv, UniqueForms
  <1> QED BY <1>3, <1>4, <1>5 DEF User

\* No file has a form twice as long as the user repeats no word.
LEMMA UniqueAlways ==
    ASSUME "repeat" \notin UserActs
    PROVE  Spec => []UInv
  <1>1. Init => UInv
    BY EmptyTableFacts DEF Init, UInv, UniqueForms, LinesUnique, Blank
  <1>2. IInv /\ UInv /\ [Next]_vars => UInv'
    BY ExmacUnique, OtherUnique DEF Next, ExmacStep
  <1> QED BY <1>1, <1>2, Inductive, PTL DEF Spec

\* Unless the user types a word that key.txt has already, the key never holds a
\* form twice, and so savekey never writes one twice: learning and loading look
\* forms up only among the parallels getpars counts.
THEOREM FormsAreUnique ==
    ASSUME "repeat" \notin UserActs
    PROVE  Spec => []UniqueForms
  <1>1. UInv => UniqueForms
    BY DEF UInv
  <1> QED BY <1>1, UniqueAlways, PTL
----------------------------------------------------------------------------
(* Places in texts. *)

\* A place is a text and a position in it.
LEMMA PlaceIn ==
    ASSUME NEW w, NEW S, NEW x
    PROVE  x \in Occurrences(w, S) <=>
              \E h \in S : \E i \in DOMAIN Text[h] : x = <<h, i>> /\ Text[h][i] = w
  <1>1. x \in Occurrences(w, S) <=>
           \E h \in S : x \in {h} \X {i \in DOMAIN Text[h] : Text[h][i] = w}
    BY DEF Occurrences
  <1>2. ASSUME NEW h PROVE
           x \in {h} \X {i \in DOMAIN Text[h] : Text[h][i] = w} <=>
              \E i \in DOMAIN Text[h] : x = <<h, i>> /\ Text[h][i] = w
    OBVIOUS
  <1> QED BY <1>1, <1>2

\* No text has no place; the places in two sets of texts are those in both.
LEMMA PlacesIn ==
    ASSUME NEW w, NEW S, NEW T
    PROVE  /\ Occurrences(w, {}) = {}
           /\ Occurrences(w, S \cup T) = Occurrences(w, S) \cup Occurrences(w, T)
           /\ S \cap T = {} => Occurrences(w, S) \cap Occurrences(w, T) = {}
  <1>1. Occurrences(w, {}) = {}
    BY DEF Occurrences
  <1>2. ASSUME NEW x
        PROVE  x \in Occurrences(w, S \cup T) <=>
                  x \in Occurrences(w, S) \cup Occurrences(w, T)
    BY PlaceIn
  <1>3. ASSUME S \cap T = {}, NEW x \in Occurrences(w, S), x \in Occurrences(w, T)
        PROVE  FALSE
    <2>1. PICK h \in S : \E i \in DOMAIN Text[h] : x = <<h, i>>
      BY PlaceIn
    <2>2. PICK g \in T : \E j \in DOMAIN Text[g] : x = <<g, j>>
      BY <1>3, PlaceIn
    <2> QED BY <1>3, <2>1, <2>2
  <1> QED BY <1>1, <1>2, <1>3

\* Finitely many texts have finitely many places.
LEMMA FewPlaces ==
    ASSUME NEW w, NEW S, S \subseteq Headers, IsFiniteSet(S)
    PROVE  IsFiniteSet(Occurrences(w, S))
  <1> DEFINE At(h) == {h} \X {i \in DOMAIN Text[h] : Text[h][i] = w}
             R == {At(h) : h \in S}
             f == [h \in S |-> At(h)]
  <1>1. f \in Surjection(S, R)
    BY DEF Surjection
  <1>2. IsFiniteSet(R)
    <2> HIDE DEF R, f
    <2> QED BY <1>1, FS_Surjection
  <1>3. ASSUME NEW T \in R PROVE IsFiniteSet(T)
    <2>1. PICK h \in S : T = At(h)
      OBVIOUS
    <2>2. Text[h] \in Seq(Forms)
      BY ExmacAssumption
    <2>3. DOMAIN Text[h] = 1..Len(Text[h]) /\ Len(Text[h]) \in Nat
      BY <2>2
    <2>4. IsFiniteSet(DOMAIN Text[h])
      BY <2>3, FS_Interval
    <2>5. IsFiniteSet({i \in DOMAIN Text[h] : Text[h][i] = w})
      BY <2>4, FS_Subset
    <2>6. IsFiniteSet({h})
      BY FS_Singleton
    <2> HIDE DEF R
    <2> QED BY <2>1, <2>5, <2>6, FS_Product
  <1>4. Occurrences(w, S) = UNION R
    BY DEF Occurrences
  <1> HIDE DEF R
  <1> QED BY <1>2, <1>3, <1>4, FS_UNION

\* The sources of a form are the texts of its places.
LEMMA SourcesOfPlaces ==
    ASSUME NEW w, NEW S
    PROVE  {h \in S : Occurrences(w, {h}) # {}} = {x[1] : x \in Occurrences(w, S)}
  <1>1. ASSUME NEW h \in S, Occurrences(w, {h}) # {}
        PROVE  \E x \in Occurrences(w, S) : h = x[1]
    <2>1. PICK x : x \in Occurrences(w, {h})
      BY <1>1
    <2>2. PICK i \in DOMAIN Text[h] : x = <<h, i>> /\ Text[h][i] = w
      BY <2>1, PlaceIn
    <2>3. x \in Occurrences(w, S)
      BY <2>2, PlaceIn
    <2> QED BY <2>2, <2>3
  <1>2. ASSUME NEW x \in Occurrences(w, S)
        PROVE  x[1] \in S /\ Occurrences(w, {x[1]}) # {}
    <2>1. PICK h \in S : \E i \in DOMAIN Text[h] : x = <<h, i>> /\ Text[h][i] = w
      BY PlaceIn
    <2>2. x \in Occurrences(w, {h})
      BY <2>1, PlaceIn
    <2> QED BY <2>1, <2>2
  <1> QED BY <1>1, <1>2

\* The entry of a form without places is that of a typed word.
LEMMA NoPlaces == EntryFor({}) = [freq |-> 0, srcs |-> {}]
  BY FS_EmptySet DEF EntryFor

\* One more place counts one more.
LEMMA OneMorePlace ==
    ASSUME NEW P, IsFiniteSet(P), NEW h, NEW i, <<h, i>> \notin P
    PROVE  EntryFor(P \cup {<<h, i>>}) =
              [freq |-> EntryFor(P).freq + 1, srcs |-> EntryFor(P).srcs \cup {h}]
  <1> DEFINE Q == P \cup {<<h, i>>}
  <1>1. Cardinality(Q) = Cardinality(P) + 1
    BY FS_AddElement
  <1>2. {x[1] : x \in Q} = {x[1] : x \in P} \cup {h}
    <2>1. <<h, i>>[1] = h
      OBVIOUS
    <2> QED BY <2>1
  <1> HIDE DEF Q
  <1> QED BY <1>1, <1>2 DEF EntryFor, Q
\* Fewer places have no more of anything.
LEMMA FewerPlaces ==
    ASSUME NEW w, NEW S, S \subseteq Headers, IsFiniteSet(S), NEW T, T \subseteq S
    PROVE  /\ EntryFor(Occurrences(w, T)).freq <= EntryFor(Occurrences(w, S)).freq
           /\ EntryFor(Occurrences(w, T)).srcs \subseteq EntryFor(Occurrences(w, S)).srcs
           /\ EntryFor(Occurrences(w, S)).freq \in Nat
           /\ EntryFor(Occurrences(w, T)).freq \in Nat
  <1>1. IsFiniteSet(T)
    BY FS_Subset
  <1>2. IsFiniteSet(Occurrences(w, S)) /\ IsFiniteSet(Occurrences(w, T))
    BY <1>1, FewPlaces
  <1>3. Occurrences(w, T) \subseteq Occurrences(w, S)
    BY PlaceIn
  <1>4. Cardinality(Occurrences(w, T)) <= Cardinality(Occurrences(w, S))
    BY <1>2, <1>3, FS_Subset
  <1>5. /\ Cardinality(Occurrences(w, S)) \in Nat
        /\ Cardinality(Occurrences(w, T)) \in Nat
    BY <1>2, FS_CardinalityType
  <1> QED BY <1>3, <1>4, <1>5 DEF EntryFor

\* The account of a set of places covers it, ...
LEMMA AccountCovers ==
    ASSUME NEW P, IsFiniteSet(P)
    PROVE  Covers(EntryFor(P), P)
  <1>1. Cardinality(P) \in Nat
    BY FS_CardinalityType
  <1> QED BY <1>1 DEF Covers, EntryFor

\* ... as does the entry of a typed word when there are none, ...
LEMMA TypedCovers == Covers([freq |-> 0, srcs |-> {}], {})
  BY NoPlaces, AccountCovers, FS_EmptySet

\* ... and an entry that counts one more covers one more place.
LEMMA CoversOneMore ==
    ASSUME NEW P, IsFiniteSet(P), NEW h, NEW i, <<h, i>> \notin P,
           NEW e, e.freq \in Nat, Covers(e, P)
    PROVE  Covers([freq |-> e.freq + 1, srcs |-> e.srcs \cup {h}], P \cup {<<h, i>>})
  <1>1. EntryFor(P \cup {<<h, i>>}) =
           [freq |-> EntryFor(P).freq + 1, srcs |-> EntryFor(P).srcs \cup {h}]
    BY OneMorePlace
  <1>2. EntryFor(P).freq \in Nat
    BY FS_CardinalityType DEF EntryFor
  <1>3. CarefulUser => e = EntryFor(P)
    BY DEF Covers
  <1>4. PICK f : f = [freq |-> e.freq + 1, srcs |-> e.srcs \cup {h}]
    OBVIOUS
  <1>5. /\ EntryFor(P).freq <= e.freq
        /\ EntryFor(P).srcs \subseteq e.srcs
    BY DEF Covers
  <1>6. PICK d : d = EntryFor(P)
    OBVIOUS
  <1>7. d.freq + 1 <= f.freq /\ d.srcs \cup {h} \subseteq f.srcs
    BY <1>2, <1>4, <1>5, <1>6
  <1>8. CarefulUser => f = [freq |-> d.freq + 1, srcs |-> d.srcs \cup {h}]
    BY <1>3, <1>4, <1>6
  <1>9. PICK c : c = EntryFor(P \cup {<<h, i>>})
    OBVIOUS
  <1>10. c = [freq |-> d.freq + 1, srcs |-> d.srcs \cup {h}]
    BY <1>1, <1>6, <1>9
  <1>11. c.freq <= f.freq /\ c.srcs \subseteq f.srcs /\ (CarefulUser => f = c)
    BY <1>7, <1>8, <1>10
  <1>12. Covers(f, P \cup {<<h, i>>})
    BY <1>9, <1>11 DEF Covers
  <1> QED BY <1>4, <1>12
----------------------------------------------------------------------------
(* Accounts. *)

\* In a file that has no form twice, the line of a form is the one that is read last.
LEMMA OnlyLine ==
    ASSUME NEW kf, LinesUnique(kf), NEW s \in DOMAIN kf.lines
    PROVE  /\ kf.lines[s].form \in FileForms(kf)
           /\ FileFreq(kf, kf.lines[s].form) = kf.lines[s].freq
           /\ FileSources(kf, kf.lines[s].form) = {kf.srcs[i] : i \in kf.lines[s].ids}
           /\ EntryOf(kf, s) = [freq |-> FileFreq(kf, kf.lines[s].form),
                                srcs |-> FileSources(kf, kf.lines[s].form)]
  <1> DEFINE w == kf.lines[s].form
             own == {t \in DOMAIN kf.lines : kf.lines[t].form = w}
  <1>1. own = {s}
    BY DEF LinesUnique
  <1>2. LastLine(kf, w) = kf.lines[s]
    <2>1. (CHOOSE t \in own : \A r \in own : r = t \/ Before(r, t)) = s
      BY <1>1
    <2> QED BY <2>1 DEF LastLine
  <1>3. w \in FileForms(kf)
    BY DEF FileForms
  <1> QED BY <1>2, <1>3 DEF FileFreq, FileSources, EntryOf

\* What the account of a file says of every form, whether the file has it or not.
LEMMA FormAccounted ==
    ASSUME NEW kf, LinesUnique(kf), NEW S, Accounts(kf, S), NEW w \in Forms
    PROVE  Covers([freq |-> FileFreq(kf, w), srcs |-> FileSources(kf, w)],
                  Occurrences(w, S))
  <1>1. CASE w \in FileForms(kf)
    <2>1. PICK s \in DOMAIN kf.lines : kf.lines[s].form = w
      BY <1>1 DEF FileForms
    <2> QED BY <2>1, OnlyLine DEF Accounts
  <1>2. CASE w \notin FileForms(kf)
    <2>1. Occurrences(w, S) = {}
      BY <1>2 DEF Accounts
    <2>2. FileFreq(kf, w) = 0 /\ FileSources(kf, w) = {}
      BY <1>2 DEF FileFreq, FileSources
    <2> QED BY <2>1, <2>2, TypedCovers
  <1> QED BY <1>1, <1>2

\* CountsExact and SourcesExact are what an account says.
LEMMA AccountExact ==
    ASSUME CarefulUser, NEW kf, LinesUnique(kf), NEW S, Accounts(kf, S), NEW w \in Forms
    PROVE  /\ FileFreq(kf, w) = Cardinality(Occurrences(w, S))
           /\ FileSources(kf, w) = {h \in S : Occurrences(w, {h}) # {}}
  <1>1. [freq |-> FileFreq(kf, w), srcs |-> FileSources(kf, w)]
              = EntryFor(Occurrences(w, S))
    BY FormAccounted DEF Covers
  <1>2. /\ FileFreq(kf, w) = Cardinality(Occurrences(w, S))
        /\ FileSources(kf, w) = {x[1] : x \in Occurrences(w, S)}
    BY <1>1 DEF EntryFor
  <1> QED BY <1>2, SourcesOfPlaces

\* What Clear Key leaves is an account of no text.
LEMMA ClearedAccounts ==
    ASSUME NEW kf, FileOK(kf)
    PROVE  Accounts(Cleared(kf), {})
  <1> DEFINE c == Cleared(kf)
  <1>1. /\ DOMAIN c.lines = Kept(kf)
        /\ \A s \in Kept(kf) : c.lines[s] = kf.lines[s]
    BY DEF Cleared
  <1>2. ASSUME NEW s \in Kept(kf)
        PROVE  kf.lines[s].freq = 0 /\ kf.lines[s].ids = {}
    BY DEF Kept, FileOK, LinesNameSources, Manual
  <1>3. ASSUME NEW s \in DOMAIN c.lines
        PROVE  Covers(EntryOf(c, s), Occurrences(c.lines[s].form, {}))
    <2>1. c.lines[s].freq = 0 /\ c.lines[s].ids = {}
      BY <1>1, <1>2
    <2>2. {c.srcs[i] : i \in c.lines[s].ids} = {}
      BY <2>1
    <2>3. Occurrences(c.lines[s].form, {}) = {}
      BY PlacesIn
    <2> HIDE DEF c
    <2>4. EntryOf(c, s) = [freq |-> 0, srcs |-> {}]
      BY <2>1, <2>2 DEF EntryOf
    <2> QED BY <2>3, <2>4, TypedCovers
  <1>4. \A w \in Forms : Occurrences(w, {}) = {}
    BY PlacesIn
  <1> HIDE DEF c
  <1> QED BY <1>3, <1>4 DEF Accounts, c

\* A typed word that was not there has no place in the texts accounted for.
LEMMA TypedAccounts ==
    ASSUME NEW kf, NEW S, Accounts(kf, S), FileOK(kf), NEW w \in Forms,
           w \notin FileForms(kf)
    PROVE  Accounts(WithManual(kf, w), S)
  <1> DEFINE m == WithManual(kf, w)
             x == <<PlainOf[w], NextLine(kf, w)>>
             l == [form |-> w, freq |-> 0, ids |-> {}]
  <1>1. m.srcs = kf.srcs /\ m.lines = Store(kf.lines, x, l)
    BY DEF WithManual
  <1>2. x \notin DOMAIN kf.lines
    BY NextLineFits
  <1> HIDE DEF x
  <1>3. /\ DOMAIN m.lines = DOMAIN kf.lines \cup {x}
        /\ m.lines[x] = l
        /\ \A s \in DOMAIN kf.lines : m.lines[s] = kf.lines[s]
    BY <1>1, <1>2 DEF Store
  <1>4. Occurrences(w, S) = {}
    BY DEF Accounts
  <1> HIDE DEF m
  <1>5. ASSUME NEW s \in DOMAIN m.lines
        PROVE  Covers(EntryOf(m, s), Occurrences(m.lines[s].form, S))
    <2>1. CASE s = x
      <3>1. m.lines[s].freq = 0 /\ m.lines[s].ids = {} /\ m.lines[s].form = w
        BY <1>3, <2>1
      <3>2. {m.srcs[i] : i \in m.lines[s].ids} = {}
        BY <3>1
      <3>3. EntryOf(m, s) = [freq |-> 0, srcs |-> {}]
        BY <3>1, <3>2 DEF EntryOf
      <3> QED BY <1>4, <3>1, <3>3, TypedCovers
    <2>2. CASE s \in DOMAIN kf.lines
      <3>1. m.lines[s] = kf.lines[s] /\ m.srcs = kf.srcs
        BY <1>1, <1>3, <2>2
      <3>2. EntryOf(m, s) = EntryOf(kf, s)
        BY <3>1 DEF EntryOf
      <3> QED BY <2>2, <3>1, <3>2 DEF Accounts
    <2> QED BY <1>3, <2>1, <2>2
  <1>6. FileForms(kf) \subseteq FileForms(m)
    BY <1>3 DEF FileForms
  <1>7. \A v \in Forms : Occurrences(v, S) # {} => v \in FileForms(m)
    BY <1>6 DEF Accounts
  <1>8. Accounts(m, S)
    BY <1>5, <1>7 DEF Accounts
  <1> QED BY <1>8 DEF m
----------------------------------------------------------------------------
(* The tables. *)

\* getnextkey returns a slot that is not in use.
LEMMA NextKeyFree ==
    ASSUME NEW K, DOMAIN K \subseteq Slot, NEW w \in Forms
    PROVE  GetNextKey(K, PlainOf[w]) \notin DOMAIN K
  <1>1. PlainOf[w] \in Plains
    BY WordKeyAssumption
  <1> QED BY <1>1, ParCountStops DEF GetNextKey

\* Storing a form in a free slot adds this form and no other.
LEMMA StoreForms ==
    ASSUME NEW K, NEW x, x \notin DOMAIN K, NEW w
    PROVE  FormsIn(Store(K, x, w)) = FormsIn(K) \cup {w}
  <1>1. /\ DOMAIN Store(K, x, w) = DOMAIN K \cup {x}
        /\ Store(K, x, w)[x] = w
        /\ \A s \in DOMAIN K : Store(K, x, w)[s] = K[s]
    BY DEF Store
  <1> QED BY <1>1 DEF FormsIn

\* Storing an entry leaves the others alone.
LEMMA StoreEntry ==
    ASSUME NEW f, NEW w, NEW e
    PROVE  /\ Store(f, w, e)[w] = e
           /\ \A v \in DOMAIN f : v # w => Store(f, w, e)[v] = f[v]
  BY DEF Store

\* There is at most one current text.
LEMMA OneCurrent ==
    ASSUME todo \subseteq Headers, NEW h \in todo, Current(h), NEW g \in todo, Current(g)
    PROVE  g = h
  <1>1. g <= h /\ h <= g
    BY DEF Current
  <1>2. g \in Nat /\ h \in Nat
    BY KeyFileAssumption
  <1> QED BY <1>1, <1>2

\* The places in the current text.
LEMMA CurrentPlaceIn ==
    ASSUME NEW w, NEW x
    PROVE  x \in CurrentPlaces(w) <=>
              \E h \in todo : /\ Current(h)
                              /\ \E i \in DOMAIN Text[h] :
                                    i < pos /\ Text[h][i] = w /\ x = <<h, i>>
  <1> DEFINE Up(h) == {i \in DOMAIN Text[h] : i < pos /\ Text[h][i] = w}
  <1>1. x \in CurrentPlaces(w) <=> \E h \in todo : Current(h) /\ x \in {h} \X Up(h)
    BY DEF CurrentPlaces
  <1>2. ASSUME NEW h
        PROVE  x \in {h} \X Up(h) <=>
                  \E i \in DOMAIN Text[h] : i < pos /\ Text[h][i] = w /\ x = <<h, i>>
    OBVIOUS
  <1> HIDE DEF Up
  <1> QED BY <1>1, <1>2

\* At the beginning of a text there is none.
LEMMA NoCurrentPlaceNext ==
    ASSUME todo' \subseteq Headers, pos' = FirstPos, NEW w
    PROVE  CurrentPlaces(w)' = {}
  <1>1. ASSUME NEW x \in CurrentPlaces(w)' PROVE FALSE
    <2>1. PICK h \in todo' : \E i \in DOMAIN Text[h] : i < pos'
      BY DEF CurrentPlaces
    <2>2. Text[h] \in Seq(Forms)
      BY ExmacAssumption
    <2> QED BY <2>1, <2>2 DEF FirstPos
  <1> QED BY <1>1

\* What is found is in the texts that will be listed.
LEMMA PlacesAreIn ==
    ASSUME todo \subseteq toList, NEW w
    PROVE  Places(w) \subseteq Occurrences(w, toList)
  <1>1. ASSUME NEW x \in Occurrences(w, toList \ todo) PROVE x \in Occurrences(w, toList)
    BY PlaceIn
  <1>2. ASSUME NEW x \in CurrentPlaces(w) PROVE x \in Occurrences(w, toList)
    <2>1. PICK h \in todo : \E i \in DOMAIN Text[h] : Text[h][i] = w /\ x = <<h, i>>
      BY CurrentPlaceIn
    <2> QED BY <2>1, PlaceIn
  <1> QED BY <1>1, <1>2 DEF Places

\* A line that is written has the entry of its form, if the sources have numbers.
LEMMA LineEntry ==
    ASSUME NEW w, info[w] \in [freq : Nat, srcs : SUBSET Headers],
           info[w].freq = 0 <=> info[w].srcs = {}, Numbered(w)
    PROVE  [freq |-> LineOf(w).freq, srcs |-> {headers[i] : i \in LineOf(w).ids}] = info[w]
  <1>1. LineOf(w).freq = info[w].freq
    BY DEF LineOf
  <1>2. {headers[i] : i \in LineOf(w).ids} = info[w].srcs
    <2>1. CASE info[w].freq = 0
      <3>1. LineOf(w).ids = {}
        BY <2>1 DEF LineOf
      <3> QED BY <2>1, <3>1
    <2>2. CASE info[w].freq # 0
      <3>1. LineOf(w).ids = {i \in DOMAIN headers : headers[i] \in info[w].srcs}
        BY <2>2 DEF LineOf
      <3>2. \A h \in info[w].srcs : \E i \in DOMAIN headers : headers[i] = h
        BY <2>2 DEF Numbered
      <3> QED BY <3>1, <3>2
    <2> QED BY <2>1, <2>2
  <1> QED BY <1>1, <1>2
----------------------------------------------------------------------------
(* The steps of Exmacronize. *)

AllInv == IInv /\ Learned /\ UInv /\ BInv

\* Reading begins with empty tables, and the backup is the key.
LEMMA StartExmacBooks ==
    ASSUME AllInv, ExmacStep, StartExmac
    PROVE  BInv'
  <1> USE DEF AllInv
  <1>1. /\ pc = "idle" /\ backup' = keyFile
        /\ UNCHANGED <<keyFile, listFile, listed, folder>>
        /\ damage' = damage /\ backupDamage' = damage
    BY DEF StartExmac, ExmacStep, files
  <1>2. Sound(damage) => Accounts(keyFile, listed)
    BY <1>1 DEF BInv, FileAccounts
  <1>3. CASE Loadable(keyFile)
    <2>1. /\ pc' = "load" /\ outcome' = "none" /\ keytbl' = keytbl /\ keytbl = EmptyTable
          /\ unread' = DOMAIN keyFile.lines /\ toList' = toList
      BY <1>3 DEF StartExmac, IInv, AtRest
    <2>2. FileAccounts' /\ BackupFresh'
      BY <1>1, <1>2, <2>1 DEF FileAccounts, BackupFresh, Undoable, Reading, Learning
    <2>3. FewTexts' /\ NewToList' /\ LearnedSoFar' /\ SavedSoFar'
      BY <1>1, <2>1 DEF BInv, FewTexts, NewToList, LearnedSoFar, SavedSoFar, Learning
    <2>4. ReadSoFar'
      BY <1>1, <2>1, EmptyTableFacts DEF ReadSoFar
    <2> QED BY <2>2, <2>3, <2>4 DEF BInv
  <1>4. CASE ~Loadable(keyFile)
    <2>1. pc' = "idle" /\ outcome' = "failed" /\ toList' = {}
      BY <1>4 DEF StartExmac, Ended
    <2>2. FileAccounts' /\ BackupFresh'
      BY <1>1, <1>2, <2>1 DEF FileAccounts, BackupFresh, Undoable, Reading, Learning
    <2>3. FewTexts' /\ NewToList' /\ LearnedSoFar' /\ SavedSoFar' /\ ReadSoFar'
      BY <1>1, <2>1, FS_EmptySet
      DEF BInv, FewTexts, NewToList, LearnedSoFar, SavedSoFar, ReadSoFar, Learning
    <2> QED BY <2>2, <2>3 DEF BInv
  <1> QED BY <1>3, <1>4

\* The entry of a line is the account of its form for the listed texts.
LEMMA LoadLineBooks ==
    ASSUME AllInv, ExmacStep, LoadLine
    PROVE  BInv'
  <1> USE DEF AllInv
  <1>1. /\ pc = "load" /\ pc' = "load"
        /\ UNCHANGED <<keyFile, listed, backup, folder, toList, outcome>>
        /\ damage' = damage /\ backupDamage' = backupDamage
    BY DEF LoadLine, ExmacStep, files
  <1>2. PICK s \in unread :
           /\ keytbl' = Store(keytbl, GetNextKey(keytbl, PlainOf[keyFile.lines[s].form]),
                              keyFile.lines[s].form)
           /\ info' = Store(info, keyFile.lines[s].form,
                            [freq |-> keyFile.lines[s].freq,
                             srcs |-> {keyFile.srcs[i] : i \in keyFile.lines[s].ids}])
           /\ unread' = unread \ {s}
    BY DEF LoadLine
  <1> DEFINE w == keyFile.lines[s].form
             x == GetNextKey(keytbl, PlainOf[w])
             e == [freq |-> keyFile.lines[s].freq,
                   srcs |-> {keyFile.srcs[i] : i \in keyFile.lines[s].ids}]
  <1>3. s \in DOMAIN keyFile.lines /\ w \in Forms /\ DOMAIN keytbl \subseteq Slot
    BY <1>1 DEF IInv, TypeOK, Loading, IsKeyFile, Line
  <1>4. Sound(damage) => Covers(e, Occurrences(w, listed))
    BY <1>1, <1>3 DEF BInv, FileAccounts, Accounts, EntryOf, Reading
  <1>5. keytbl' = Store(keytbl, x, w) /\ info' = Store(info, w, e)
    BY <1>2
  <1> HIDE DEF e
  <1>6. FormsIn(keytbl') = FormsIn(keytbl) \cup {w}
    <2> HIDE DEF w
    <2>1. x \notin DOMAIN keytbl
      BY <1>3, NextKeyFree
    <2> HIDE DEF x
    <2> QED BY <1>5, <2>1, StoreForms
  <1>7. info'[w] = e /\ \A v \in DOMAIN info : v # w => info'[v] = info[v]
    <2> HIDE DEF w
    <2> QED BY <1>5, StoreEntry
  <1>8. ReadSoFar'
    <2>1. \A t \in DOMAIN keyFile.lines \ unread' : keyFile.lines[t].form \in FormsIn(keytbl')
      BY <1>1, <1>2, <1>6 DEF BInv, ReadSoFar
    <2>2. FormsIn(keytbl') \subseteq FileForms(keyFile)
      BY <1>1, <1>3, <1>6 DEF BInv, ReadSoFar, FileForms
    <2>3. ASSUME Sound(damage), NEW v \in FormsIn(keytbl')
          PROVE  Covers(info'[v], Occurrences(v, listed))
      <3>1. CASE v = w
        BY <1>4, <1>7, <2>3, <3>1
      <3>2. CASE v # w
        <4>1. v \in FormsIn(keytbl) /\ v \in DOMAIN info
          BY <1>6, <2>3, <3>2 DEF IInv, Tallied
        <4> QED BY <1>1, <1>7, <2>3, <3>2, <4>1 DEF BInv, ReadSoFar
      <3> QED BY <3>1, <3>2
    <2> QED BY <1>1, <2>1, <2>2, <2>3 DEF ReadSoFar
  <1>9. FileAccounts' /\ BackupFresh' /\ FewTexts'
    BY <1>1 DEF BInv, FileAccounts, BackupFresh, FewTexts, Undoable, Reading, Learning
  <1>10. NewToList' /\ LearnedSoFar' /\ SavedSoFar'
    BY <1>1 DEF NewToList, LearnedSoFar, SavedSoFar, Learning
  <1> QED BY <1>8, <1>9, <1>10 DEF BInv

\* All of the key has been read, and nothing has been learned yet.
LEMMA FindSourcesBooks ==
    ASSUME AllInv, ExmacStep, FindSources
    PROVE  BInv'
  <1> USE DEF AllInv
  <1>1. /\ pc = "load" /\ unread = {}
        /\ UNCHANGED <<keyFile, listed, backup, folder>>
        /\ damage' = damage /\ backupDamage' = backupDamage
    BY DEF FindSources, ExmacStep
  <1>2. keyFile = backup /\ backupDamage = damage
    BY <1>1 DEF BInv, BackupFresh, Reading
  <1>3. Sound(damage) => Accounts(keyFile, listed)
    BY <1>1 DEF BInv, FileAccounts, Reading
  <1>4. CASE ~listFile \/ NewTexts = {}
    <2>1. pc' = "idle" /\ toList' = {}
      BY <1>4 DEF FindSources, Ended
    <2>2. FileAccounts' /\ BackupFresh'
      BY <1>1, <1>2, <1>3, <2>1 DEF FileAccounts, BackupFresh, Undoable, Reading, Learning
    <2>3. FewTexts' /\ NewToList' /\ LearnedSoFar' /\ SavedSoFar' /\ ReadSoFar'
      BY <1>1, <2>1, FS_EmptySet
      DEF BInv, FewTexts, NewToList, LearnedSoFar, SavedSoFar, ReadSoFar, Learning
    <2> QED BY <2>2, <2>3 DEF BInv
  <1>5. CASE ~(~listFile \/ NewTexts = {})
    <2>1. /\ pc' = "learn" /\ todo' = folder \ listed /\ toList' = listed \cup folder
          /\ UNCHANGED <<keytbl, info, pos, outcome>> /\ folder \ listed # {}
      BY <1>5 DEF FindSources, tables, NewTexts, SourcesToList
    <2>2. FileAccounts' /\ BackupFresh'
      BY <1>1, <1>2, <1>3, <2>1
      DEF BInv, FileAccounts, BackupFresh, Undoable, Reading, Learning
    <2>3. FewTexts'
      BY <1>1, <2>1, FS_Union DEF BInv, FewTexts
    <2>4. NewToList' /\ SavedSoFar' /\ ReadSoFar'
      BY <1>1, <2>1 DEF NewToList, SavedSoFar, ReadSoFar
    <2>5. ASSUME NEW w \in Forms PROVE Places(w)' = Occurrences(w, listed)
      <3>1. toList' \ todo' = listed
        BY <2>1
      <3>2. pos' = FirstPos
        BY <1>1, <2>1 DEF Learned
      <3>3. todo' \subseteq Headers
        BY <2>1 DEF IInv, TypeOK
      <3>4. CurrentPlaces(w)' = {}
        BY <3>2, <3>3, NoCurrentPlaceNext
      <3> QED BY <3>1, <3>4 DEF Places
    <2>6. FormsIn(keytbl) = FileForms(backup) /\ FormsIn(keytbl) \subseteq Forms
      <3>1. FormsIn(keytbl) = FileForms(keyFile)
        BY <1>1 DEF BInv, ReadSoFar, FileForms
      <3> QED BY <1>2, <3>1 DEF IInv, TypeOK, FormsIn
    <2>7. LearnedSoFar'
      <3>1. \A w \in Forms : Occurrences(w, listed) # {} /\ Sound(damage) =>
                                w \in FormsIn(keytbl)
        BY <1>2, <1>3, <2>6 DEF Accounts
      <3>2. Sound(damage) => \A w \in FormsIn(keytbl) :
                                Covers(info[w], Occurrences(w, listed))
        BY <1>1 DEF BInv, ReadSoFar
      <3> QED BY <1>1, <2>1, <2>5, <2>6, <3>1, <3>2 DEF LearnedSoFar
    <2> QED BY <2>2, <2>3, <2>4, <2>7 DEF BInv
  <1> QED BY <1>4, <1>5

\* A word adds one place to those of its form, and none to those of another.
LEMMA LearnWordPlaces ==
    ASSUME AllInv, NEW h \in todo, Current(h), pos \in DOMAIN Text[h],
           pos' = pos + 1, UNCHANGED <<todo, toList>>, NEW v
    PROVE  /\ <<h, pos>> \notin Places(v)
           /\ v = Text[h][pos] => Places(v)' = Places(v) \cup {<<h, pos>>}
           /\ v # Text[h][pos] => Places(v)' = Places(v)
           /\ CurrentPlaces(v) \subseteq CurrentPlaces(v)'
           /\ v = Text[h][pos] => CurrentPlaces(v)' # {}
  <1> USE DEF AllInv
  <1>1. todo \subseteq Headers /\ Text[h] \in Seq(Forms)
    BY ExmacAssumption DEF IInv, TypeOK
  <1>2. \A g \in todo : Current(g) => g = h
    BY <1>1, OneCurrent
  <1>3. \A x : x \in CurrentPlaces(v) <=>
           \E i \in DOMAIN Text[h] : i < pos /\ Text[h][i] = v /\ x = <<h, i>>
    BY <1>2, CurrentPlaceIn
  <1>4. \A g \in todo : Current(g)' <=> Current(g)
    BY DEF Current
  <1>5. \A x : x \in CurrentPlaces(v)' <=>
           \E i \in DOMAIN Text[h] : i < pos + 1 /\ Text[h][i] = v /\ x = <<h, i>>
    <2> DEFINE Up == {i \in DOMAIN Text[h] : i < pos + 1 /\ Text[h][i] = v}
    <2>1. {g \in todo' : Current(g)'} = {h}
      BY <1>2, <1>4
    <2>2. CurrentPlaces(v)' = UNION {{g} \X {i \in DOMAIN Text[g] : i < pos' /\ Text[g][i] = v}
                                       : g \in {h}}
      BY <2>1 DEF CurrentPlaces
    <2>3. CurrentPlaces(v)' = {h} \X Up
      BY <2>2
    <2> QED BY <2>3
  <1>6. \A i \in DOMAIN Text[h] : i < pos + 1 <=> i < pos \/ i = pos
    BY <1>1 DEF IInv, TypeOK
  <1>7. <<h, pos>> \notin Places(v)
    <2>1. <<h, pos>> \notin Occurrences(v, toList \ todo)
      BY PlaceIn
    <2>2. <<h, pos>> \notin CurrentPlaces(v)
      BY <1>1, <1>3
    <2> QED BY <2>1, <2>2 DEF Places
  <1>8. v = Text[h][pos] => CurrentPlaces(v)' = CurrentPlaces(v) \cup {<<h, pos>>}
    BY <1>3, <1>5, <1>6
  <1>9. v # Text[h][pos] => CurrentPlaces(v)' = CurrentPlaces(v)
    BY <1>3, <1>5, <1>6
  <1> QED BY <1>7, <1>8, <1>9 DEF Places

\* A word is counted once, for its own form.
LEMMA LearnWordBooks ==
    ASSUME AllInv, ExmacStep, LearnWord
    PROVE  BInv'
  <1> USE DEF AllInv
  <1>1. /\ pc = "learn" /\ pc' = "learn" /\ pos' = pos + 1
        /\ UNCHANGED <<keyFile, listed, backup, folder, toList, todo, outcome>>
        /\ damage' = damage /\ backupDamage' = backupDamage
    BY DEF LearnWord, ExmacStep, files
  <1>2. PICK h \in todo :
           /\ Current(h) /\ pos <= Len(Text[h])
           /\ LET w == Text[h][pos]
                  p == PlainOf[w]
              IN \/ /\ w \notin Parallels(keytbl, p)
                    /\ keytbl' = Store(keytbl, GetNextKey(keytbl, p), w)
                    /\ info' = Store(info, w, [freq |-> 1, srcs |-> {h}])
                 \/ /\ w \in Parallels(keytbl, p)
                    /\ info' = Store(info, w, Recount(w, h))
                    /\ UNCHANGED keytbl
    BY DEF LearnWord
  <1>0. PICK w : w = Text[h][pos]
    OBVIOUS
  <1> DEFINE x == GetNextKey(keytbl, PlainOf[w])
  <1>3. pos \in DOMAIN Text[h] /\ w \in Forms /\ PlainOf[w] \in Plains
    <2>1. Text[h] \in Seq(Forms) /\ pos \in Nat \ {0}
      BY ExmacAssumption DEF IInv, TypeOK
    <2>2. pos \in 1..Len(Text[h])
      BY <1>2, <2>1
    <2> QED BY <1>0, <2>1, <2>2, WordKeyAssumption
  <1>4. ASSUME NEW v
        PROVE  /\ <<h, pos>> \notin Places(v)
               /\ v = w => Places(v)' = Places(v) \cup {<<h, pos>>}
               /\ v # w => Places(v)' = Places(v)
    BY <1>0, <1>1, <1>2, <1>3, LearnWordPlaces
  <1>5. ASSUME NEW v PROVE IsFiniteSet(Places(v))
    <2>1. todo \subseteq toList /\ IsFiniteSet(toList) /\ toList \subseteq Headers
      BY <1>1 DEF BInv, NewToList, FewTexts, Learning, IInv, TypeOK
    <2>2. IsFiniteSet(Occurrences(v, toList))
      BY <2>1, FewPlaces
    <2> QED BY <2>1, <2>2, PlacesAreIn, FS_Subset
  <1>6. DOMAIN keytbl \subseteq Slot /\ Dense(keytbl) /\ FiledUnderPlain(keytbl)
    BY DEF IInv, TypeOK, NoGaps
  <1>7. /\ FormsIn(keytbl') = FormsIn(keytbl) \cup {w}
        /\ Sound(damage) => Covers(info'[w], Places(w)')
        /\ \A v \in DOMAIN info : v # w => info'[v] = info[v]
    <2>1. Places(w)' = Places(w) \cup {<<h, pos>>}
      BY <1>4
    <2>2. ASSUME NEW e, e.freq \in Nat, Covers(e, Places(w))
          PROVE  Covers([freq |-> e.freq + 1, srcs |-> e.srcs \cup {h}], Places(w)')
      <3>1. PICK P, i : P = Places(w) /\ i = pos
        OBVIOUS
      <3>2. IsFiniteSet(P) /\ <<h, i>> \notin P /\ Covers(e, P)
        BY <1>4, <1>5, <2>2, <3>1
      <3>3. Covers([freq |-> e.freq + 1, srcs |-> e.srcs \cup {h}], P \cup {<<h, i>>})
        BY <2>2, <3>2, CoversOneMore
      <3> QED BY <2>1, <3>1, <3>3
    <2>3. CASE w \notin Parallels(keytbl, PlainOf[w])
      <3>1. /\ keytbl' = Store(keytbl, x, w)
            /\ info' = Store(info, w, [freq |-> 1, srcs |-> {h}])
        BY <1>0, <1>2, <2>3
      <3>2. w \notin FormsIn(keytbl)
        BY <1>3, <1>6, <2>3, AbsentForm
      <3>3. x \notin DOMAIN keytbl
        BY <1>3, <1>6, NextKeyFree
      <3> HIDE DEF x
      <3>4. FormsIn(keytbl') = FormsIn(keytbl) \cup {w}
        BY <3>1, <3>3, StoreForms
      <3>5. /\ info'[w] = [freq |-> 1, srcs |-> {h}]
            /\ \A v \in DOMAIN info : v # w => info'[v] = info[v]
        BY <3>1, StoreEntry
      <3>6. ASSUME Sound(damage) PROVE Covers(info'[w], Places(w)')
        <4>1. Places(w) = {}
          BY <1>1, <1>3, <3>2, <3>6 DEF BInv, LearnedSoFar, Learning
        <4>2. Covers([freq |-> 0, srcs |-> {}], Places(w))
          BY <4>1, TypedCovers
        <4>3. Covers([freq |-> 0 + 1, srcs |-> {} \cup {h}], Places(w)')
          BY <2>2, <4>2
        <4>4. [freq |-> 0 + 1, srcs |-> {} \cup {h}] = info'[w]
          BY <3>5
        <4> QED BY <4>3, <4>4
      <3> QED BY <3>4, <3>5, <3>6
    <2>4. CASE w \in Parallels(keytbl, PlainOf[w])
      <3>1. keytbl' = keytbl /\ info' = Store(info, w, Recount(w, h))
        BY <1>0, <1>2, <2>4
      <3>2. w \in FormsIn(keytbl)
        BY <1>3, <1>6, <2>4, PresentForm
      <3>3. info'[w] = [freq |-> info[w].freq + 1, srcs |-> info[w].srcs \cup {h}]
            /\ \A v \in DOMAIN info : v # w => info'[v] = info[v]
        BY <3>1, StoreEntry DEF Recount
      <3>4. Sound(damage) => Covers(info[w], Places(w))
        BY <1>1, <3>2 DEF BInv, LearnedSoFar, Learning
      <3>5. info[w].freq \in Nat
        BY <3>2 DEF IInv, TypeOK, Tallied
      <3>6. Sound(damage) => Covers(info'[w], Places(w)')
        BY <2>2, <3>3, <3>4, <3>5
      <3>7. FormsIn(keytbl') = FormsIn(keytbl) \cup {w}
        BY <3>1, <3>2
      <3> QED BY <3>3, <3>6, <3>7
    <2> QED BY <2>3, <2>4
  <1>8. LearnedSoFar'
    <2>1. FileForms(backup) \subseteq FormsIn(keytbl')
      BY <1>1, <1>7 DEF BInv, LearnedSoFar, Learning
    <2>2. ASSUME NEW v \in FormsIn(keytbl') PROVE v \in FileForms(backup) \/ Places(v)' # {}
      <3>1. CASE v = w
        BY <1>4, <3>1
      <3>2. CASE v # w
        BY <1>1, <1>4, <1>7, <3>2 DEF BInv, LearnedSoFar, Learning
      <3> QED BY <3>1, <3>2
    <2>3. ASSUME Sound(damage), NEW v \in FormsIn(keytbl')
          PROVE  Covers(info'[v], Places(v)')
      <3>1. CASE v = w
        BY <1>7, <2>3, <3>1
      <3>2. CASE v # w
        <4>1. v \in FormsIn(keytbl) /\ v \in DOMAIN info
          BY <1>7, <2>3, <3>2 DEF IInv, Tallied
        <4>2. Covers(info[v], Places(v))
          BY <1>1, <2>3, <4>1 DEF BInv, LearnedSoFar, Learning
        <4> QED BY <1>4, <1>7, <3>2, <4>1, <4>2
      <3> QED BY <3>1, <3>2
    <2>4. ASSUME Sound(damage), NEW v \in Forms, Places(v)' # {}
          PROVE  v \in FormsIn(keytbl')
      <3>1. CASE v = w
        BY <1>7, <3>1
      <3>2. CASE v # w
        BY <1>1, <1>4, <1>7, <2>4, <3>2 DEF BInv, LearnedSoFar, Learning
      <3> QED BY <3>1, <3>2
    <2> QED BY <1>1, <2>1, <2>2, <2>3, <2>4 DEF LearnedSoFar
  <1>9. FileAccounts' /\ BackupFresh' /\ FewTexts'
    BY <1>1 DEF BInv, FileAccounts, BackupFresh, FewTexts, Undoable, Reading, Learning
  <1>10. NewToList' /\ SavedSoFar' /\ ReadSoFar'
    BY <1>1 DEF BInv, NewToList, SavedSoFar, ReadSoFar, Learning
  <1> QED BY <1>8, <1>9, <1>10 DEF BInv

\* At the end of a text all of its places have been found, and no others.
LEMMA FinishTextBooks ==
    ASSUME AllInv, ExmacStep, FinishText
    PROVE  BInv'
  <1> USE DEF AllInv
  <1>1. /\ pc = "learn" /\ pc' \in {"learn", "save"} /\ pos' = FirstPos
        /\ UNCHANGED <<keyFile, listed, backup, folder, keytbl, info, toList, outcome>>
        /\ damage' = damage /\ backupDamage' = backupDamage
    BY DEF FinishText, ExmacStep, files
  <1>2. PICK h \in todo : Current(h) /\ pos > Len(Text[h]) /\ todo' = todo \ {h}
    BY DEF FinishText
  <1>3. todo \subseteq Headers /\ todo \subseteq toList /\ Text[h] \in Seq(Forms)
    BY <1>1, ExmacAssumption DEF IInv, TypeOK, BInv, NewToList, Learning
  <1>4. ASSUME NEW v PROVE Places(v)' = Places(v)
    <2>1. toList' \ todo' = (toList \ todo) \cup {h}
      BY <1>1, <1>2, <1>3
    <2>2. Occurrences(v, toList' \ todo') = Occurrences(v, toList \ todo) \cup Occurrences(v, {h})
      BY <2>1, PlacesIn
    <2>3. \A g \in todo : Current(g) => g = h
      BY <1>2, <1>3, OneCurrent
    <2>4. ASSUME NEW y PROVE y \in CurrentPlaces(v) <=> y \in Occurrences(v, {h})
      <3>1. \A i \in DOMAIN Text[h] : i < pos
        BY <1>2, <1>3 DEF IInv, TypeOK
      <3>2. y \in CurrentPlaces(v) <=>
               \E i \in DOMAIN Text[h] : i < pos /\ Text[h][i] = v /\ y = <<h, i>>
        BY <1>2, <2>3, CurrentPlaceIn
      <3>3. y \in Occurrences(v, {h}) <=>
               \E i \in DOMAIN Text[h] : y = <<h, i>> /\ Text[h][i] = v
        BY PlaceIn
      <3> QED BY <3>1, <3>2, <3>3
    <2>5. CurrentPlaces(v)' = {}
      <3>1. todo' \subseteq Headers
        BY <1>2, <1>3
      <3> QED BY <1>1, <3>1, NoCurrentPlaceNext
    <2> QED BY <2>2, <2>4, <2>5 DEF Places
  <1>5. LearnedSoFar'
    BY <1>1, <1>4 DEF BInv, LearnedSoFar, Learning
  <1>6. FileAccounts' /\ BackupFresh' /\ FewTexts'
    BY <1>1 DEF BInv, FileAccounts, BackupFresh, FewTexts, Undoable, Reading, Learning
  <1>7. NewToList' /\ SavedSoFar' /\ ReadSoFar'
    BY <1>1, <1>2 DEF BInv, NewToList, SavedSoFar, ReadSoFar, Learning
  <1> QED BY <1>5, <1>6, <1>7 DEF BInv

\* From here on the backup holds what the key was.
LEMMA OpenKeyBooks ==
    ASSUME AllInv, ExmacStep, OpenKey \/ SaveSources
    PROVE  BInv'
  <1> USE DEF AllInv
  <1>1. /\ pc \in {"save", "saveSources"} /\ pc' \in {"saveSources", "saveWords"}
        /\ UNCHANGED <<listed, backup, folder, keytbl, info, headers, toList, todo, pos,
                       outcome>>
        /\ damage' = damage /\ backupDamage' = backupDamage
        /\ pc' = "saveWords" => unread' = DOMAIN keytbl
    BY DEF OpenKey, SaveSources, ExmacStep, tables, work
  <1>2. \A v : Places(v)' = Places(v)
    BY <1>1 DEF Places, CurrentPlaces, Current
  <1>3. LearnedSoFar'
    BY <1>1, <1>2 DEF BInv, LearnedSoFar, Learning
  <1>4. FileAccounts' /\ BackupFresh' /\ FewTexts'
    BY <1>1 DEF BInv, FileAccounts, BackupFresh, FewTexts, Undoable, Reading, Learning
  <1>5. NewToList' /\ SavedSoFar' /\ ReadSoFar'
    BY <1>1 DEF BInv, NewToList, SavedSoFar, ReadSoFar, Learning
  <1> QED BY <1>3, <1>4, <1>5 DEF BInv

\* A line is written as it is in the tables, or the save fails and the backup is left.
LEMMA SaveWordBooks ==
    ASSUME AllInv, ExmacStep, SaveWord
    PROVE  BInv'
  <1> USE DEF AllInv
  <1>1. /\ pc = "saveWords" /\ outcome = "none"
        /\ UNCHANGED <<listed, backup, folder>> /\ backupDamage' = backupDamage
        /\ damage' = IF outcome' = "failed" THEN damage \cup {"counts", "typed"} ELSE damage
    BY DEF SaveWord, ExmacStep, BInv, BackupFresh
  <1>2. CASE Ended("failed")
    <2>1. pc' = "idle" /\ outcome' = "failed" /\ toList' = {}
      BY <1>2 DEF Ended
    <2>2. FileAccounts' /\ BackupFresh'
      BY <1>1, <2>1
      DEF BInv, FileAccounts, BackupFresh, Undoable, Reading, Learning, Sound
    <2>3. FewTexts' /\ NewToList' /\ LearnedSoFar' /\ SavedSoFar' /\ ReadSoFar'
      BY <1>1, <2>1, FS_EmptySet
      DEF BInv, FewTexts, NewToList, LearnedSoFar, SavedSoFar, ReadSoFar, Learning
    <2> QED BY <2>2, <2>3 DEF BInv
  <1>3. CASE ~Ended("failed")
    <2>1. PICK s \in unread :
             /\ Numbered(keytbl[s])
             /\ keyFile' = [keyFile EXCEPT !.lines = Store(@, s, LineOf(keytbl[s]))]
             /\ unread' = unread \ {s}
      BY <1>3 DEF SaveWord
    <2>2. /\ pc' = "saveWords" /\ damage' = damage
          /\ UNCHANGED <<keytbl, info, headers, toList, todo, pos, outcome>>
      BY <1>1, <1>3 DEF SaveWord, tables
    <2>3. \A v : Places(v)' = Places(v)
      BY <2>2 DEF Places, CurrentPlaces, Current
    <2>4. LearnedSoFar'
      BY <1>1, <2>2, <2>3 DEF BInv, LearnedSoFar, Learning
    <2>5. SavedSoFar'
      <3>1. keyFile'.lines = Store(keyFile.lines, s, LineOf(keytbl[s]))
        BY <2>1 DEF IInv, TypeOK, IsKeyFile
      <3>2. /\ DOMAIN keyFile'.lines = DOMAIN keyFile.lines \cup {s}
            /\ keyFile'.lines[s] = LineOf(keytbl[s])
            /\ \A t \in DOMAIN keyFile.lines : t # s => keyFile'.lines[t] = keyFile.lines[t]
        BY <3>1 DEF Store
      <3>3. ASSUME NEW t \in DOMAIN keytbl \ unread'
            PROVE  /\ t \in DOMAIN keyFile'.lines
                   /\ keyFile'.lines[t] = LineOf(keytbl[t]) /\ Numbered(keytbl[t])
        BY <1>1, <2>1, <3>2 DEF BInv, SavedSoFar
      <3>4. ASSUME NEW t PROVE LineOf(keytbl[t])' = LineOf(keytbl[t])
                               /\ (Numbered(keytbl[t])' <=> Numbered(keytbl[t]))
        BY <2>2 DEF LineOf, Numbered
      <3> QED BY <2>2, <3>3, <3>4 DEF SavedSoFar
    <2>6. FileAccounts' /\ BackupFresh' /\ FewTexts'
      BY <1>1, <2>2 DEF BInv, FileAccounts, BackupFresh, FewTexts, Undoable, Reading, Learning
    <2>7. NewToList' /\ ReadSoFar'
      BY <1>1, <2>2 DEF BInv, NewToList, ReadSoFar, Learning
    <2> QED BY <2>4, <2>5, <2>6, <2>7 DEF BInv
  <1> QED BY <1>2, <1>3

\* When all lines are written, the file has the forms of the tables, with their entries.
LEMMA AllSaved ==
    ASSUME AllInv, pc = "saveWords", unread = {}
    PROVE  /\ FileForms(keyFile) = FormsIn(keytbl)
           /\ Sound(damage) => Accounts(keyFile, toList)
  <1> USE DEF AllInv
  <1>1. DOMAIN keyFile.lines = DOMAIN keytbl
    BY DEF UInv, BInv, SavedSoFar
  <1>2. ASSUME NEW s \in DOMAIN keytbl
        PROVE  keyFile.lines[s] = LineOf(keytbl[s]) /\ Numbered(keytbl[s])
               /\ keyFile.lines[s].form = keytbl[s]
    BY DEF UInv, BInv, SavedSoFar
  <1>3. FileForms(keyFile) = FormsIn(keytbl)
    BY <1>1, <1>2 DEF FileForms, FormsIn
  <1>4. \A v : Places(v) = Occurrences(v, toList)
    <2>1. todo = {}
      BY DEF Learned
    <2>2. \A v : CurrentPlaces(v) = {}
      BY <2>1, CurrentPlaceIn
    <2>3. toList \ todo = toList
      BY <2>1
    <2> QED BY <2>2, <2>3 DEF Places
  <1>5. ASSUME Sound(damage), NEW s \in DOMAIN keyFile.lines
        PROVE  Covers(EntryOf(keyFile, s), Occurrences(keyFile.lines[s].form, toList))
    <2>1. PICK w : w = keytbl[s]
      OBVIOUS
    <2>2. w \in FormsIn(keytbl)
      BY <1>1, <2>1 DEF FormsIn
    <2>3. /\ info[w] \in [freq : Nat, srcs : SUBSET Headers]
          /\ info[w].freq = 0 <=> info[w].srcs = {}
      BY <2>2 DEF IInv, TypeOK, Tallied
    <2>4. [freq |-> LineOf(w).freq, srcs |-> {headers[i] : i \in LineOf(w).ids}] = info[w]
      BY <1>1, <1>2, <2>1, <2>3, LineEntry
    <2>5. Covers(info[w], Occurrences(w, toList))
      BY <1>4, <1>5, <2>2 DEF BInv, LearnedSoFar, Learning
    <2>6. keyFile.srcs = headers
      BY DEF IInv, Saving
    <2>7. EntryOf(keyFile, s) = info[w]
      <3>1. keyFile.lines[s] = LineOf(w)
        BY <1>1, <1>2, <2>1
      <3> QED BY <2>4, <2>6, <3>1 DEF EntryOf
    <2> QED BY <1>1, <1>2, <2>1, <2>5, <2>7
  <1>6. ASSUME Sound(damage), NEW w \in Forms, Occurrences(w, toList) # {}
        PROVE  w \in FileForms(keyFile)
    BY <1>3, <1>4, <1>6 DEF BInv, LearnedSoFar, Learning
  <1> QED BY <1>3, <1>5, <1>6 DEF Accounts

\* The list is emptied, and is then that of the texts the key accounts for.
LEMMA ListBooks ==
    ASSUME AllInv, ExmacStep, OpenList \/ WriteList
    PROVE  BInv'
  <1> USE DEF AllInv
  <1>1. CASE OpenList
    <2>1. /\ pc = "saveWords" /\ unread = {} /\ pc' = "list" /\ listed' = {}
          /\ UNCHANGED <<keyFile, backup, folder, toList, outcome>>
      BY <1>1 DEF OpenList, AllWritten, work
    <2>2. damage' = damage /\ backupDamage' = backupDamage /\ outcome = "none"
      BY <2>1 DEF ExmacStep, BInv, BackupFresh
    <2>3. FileAccounts' /\ BackupFresh'
      BY <2>1, <2>2, AllSaved
      DEF BInv, FileAccounts, BackupFresh, Undoable, Reading, Learning
    <2>4. FewTexts' /\ NewToList' /\ LearnedSoFar' /\ SavedSoFar' /\ ReadSoFar'
      BY <2>1, FS_EmptySet
      DEF BInv, FewTexts, NewToList, LearnedSoFar, SavedSoFar, ReadSoFar, Learning
    <2> QED BY <2>3, <2>4 DEF BInv
  <1>2. CASE WriteList
    <2>1. /\ pc = "list" /\ pc' = "idle" /\ outcome' = "done" /\ listed' = toList
          /\ toList' = {} /\ UNCHANGED <<keyFile, backup, folder>>
          /\ damage' = damage /\ backupDamage' = backupDamage
      BY <1>2 DEF WriteList, Ended, ExmacStep
    <2>2. FileAccounts' /\ BackupFresh'
      BY <2>1 DEF BInv, FileAccounts, BackupFresh, Undoable, Reading, Learning
    <2>3. FewTexts' /\ NewToList' /\ LearnedSoFar' /\ SavedSoFar' /\ ReadSoFar'
      BY <2>1, FS_EmptySet
      DEF BInv, FewTexts, NewToList, LearnedSoFar, SavedSoFar, ReadSoFar, Learning
    <2> QED BY <2>2, <2>3 DEF BInv
  <1> QED BY <1>1, <1>2
----------------------------------------------------------------------------
(* Clear Key, kills and the user. *)

\* Clear Key leaves an account of no text, whatever the key was.
LEMMA ClearBooks ==
    ASSUME AllInv, ClearOpen \/ ClearStep
    PROVE  BInv'
  <1> USE DEF AllInv
  <1>1. /\ toList' = toList /\ folder' = folder /\ listed' \in {listed, {}}
    BY DEF ClearOpen, ClearStep, ClearWrite, ClearList, work
  <1>2. pc' \in {"idle", "clearKey", "clearList"} /\ outcome' = "none"
    BY DEF ClearOpen, ClearStep, ClearWrite, ClearList, BInv, BackupFresh
  <1>3. FileAccounts'
    <2>1. CASE ClearOpen
      <3>1. Accounts(keystr', {})
        <4>1. FileOK(keyFile)
          BY DEF IInv, TypeOK, LinesFiled, WellFormed, FileOK
        <4> QED BY <2>1, <4>1, ClearedAccounts DEF ClearOpen
      <3> QED BY <2>1, <3>1
          DEF ClearOpen, FileAccounts, Undoable, Reading, Learning
    <2>2. CASE ClearWrite
      BY <2>2 DEF ClearWrite, BInv, FileAccounts, Undoable, Reading, Learning
    <2>3. CASE ClearList
      BY <1>2, <2>3 DEF ClearList, BInv, FileAccounts, Undoable, Reading, Learning
    <2> QED BY <2>1, <2>2, <2>3 DEF ClearStep
  <1>4. BackupFresh'
    BY <1>2 DEF BackupFresh, Reading, Learning
  <1>5. FewTexts' /\ NewToList' /\ LearnedSoFar' /\ SavedSoFar' /\ ReadSoFar'
    BY <1>1, <1>2, FS_EmptySet
    DEF BInv, FewTexts, NewToList, LearnedSoFar, SavedSoFar, ReadSoFar, Learning
  <1> QED BY <1>3, <1>4, <1>5 DEF BInv

\* A kill leaves key and list in step, or the damage is noted.
LEMMA KillBooks ==
    ASSUME AllInv, Kill
    PROVE  BInv'
  <1> USE DEF AllInv
  <1>1. /\ pc # "idle" /\ pc' = "idle" /\ toList' = {}
        /\ UNCHANGED <<keyFile, listed, backup, folder, backupDamage>>
        /\ outcome' = IF pc \in {"clearKey", "clearList"} THEN "none" ELSE "killed"
    BY DEF Kill, Ended, files
  <1>2. /\ pc \in {"saveSources", "saveWords", "clearKey", "clearList", "list"} =>
              "counts" \in damage'
        /\ pc = "list" => "list" \in damage'
        /\ damage \subseteq damage'
        /\ pc \in Reading => damage' = damage
    BY DEF Kill, Reading
  <1>3. pc \in {"idle", "load", "learn", "save", "saveSources", "saveWords",
                "list", "clearKey", "clearList"}
    BY DEF IInv, TypeOK
  <1>4. Sound(damage') => pc \in Reading /\ damage' = damage
    BY <1>1, <1>2, <1>3 DEF Sound, Reading
  <1>5. FileAccounts'
    <2>1. Sound(damage') => Accounts(keyFile, listed)
      BY <1>4 DEF BInv, FileAccounts
    <2>2. outcome' = "killed" /\ "list" \notin damage' /\ Sound(backupDamage) =>
             Accounts(backup, listed)
      BY <1>1, <1>2, <1>3 DEF BInv, FileAccounts, Undoable, Reading, Learning
    <2> QED BY <1>1, <2>1, <2>2 DEF FileAccounts, Undoable, Reading, Learning
  <1>6. BackupFresh'
    BY <1>1, <1>4 DEF BInv, BackupFresh, Reading, Learning
  <1>7. FewTexts' /\ NewToList' /\ LearnedSoFar' /\ SavedSoFar' /\ ReadSoFar'
    BY <1>1, FS_EmptySet
    DEF BInv, FewTexts, NewToList, LearnedSoFar, SavedSoFar, ReadSoFar, Learning
  <1> QED BY <1>5, <1>6, <1>7 DEF BInv

\* A new text is in no account, a typed word has no place in one, and the backup is an
\* account of the list it is put back to.
LEMMA UserBooks ==
    ASSUME TypesOnce, AllInv, AddSource \/ AddManual \/ RestoreBackup \/ UNCHANGED vars
    PROVE  BInv'
  <1> USE DEF AllInv
  <1>1. CASE AddSource \/ UNCHANGED vars
    <2>1. UNCHANGED <<keyFile, listed, backup, pc, keytbl, info, headers, unread, toList,
                      todo, pos, outcome, keystr, damage, backupDamage>>
      BY <1>1 DEF AddSource, vars, files, tables, work, history
    <2>2. IsFiniteSet(folder')
      <3>1. CASE AddSource
        <4>1. PICK h : folder' = folder \cup {h}
          BY <3>1 DEF AddSource
        <4> QED BY <4>1, FS_AddElement DEF BInv, FewTexts
      <3>2. CASE UNCHANGED vars
        BY <3>2 DEF vars, BInv, FewTexts
      <3> QED BY <1>1, <3>1, <3>2
    <2>3. \A v : Places(v)' = Places(v)
      BY <2>1 DEF Places, CurrentPlaces, Current
    <2>4. FileAccounts' /\ BackupFresh' /\ FewTexts' /\ NewToList' /\ ReadSoFar'
      BY <2>1, <2>2
      DEF BInv, FileAccounts, BackupFresh, FewTexts, NewToList, ReadSoFar, Undoable
    <2>5. LearnedSoFar'
      BY <2>1, <2>3 DEF BInv, LearnedSoFar
    <2>6. SavedSoFar'
      BY <2>1 DEF BInv, SavedSoFar, LineOf, Numbered
    <2> QED BY <2>4, <2>5, <2>6 DEF BInv
  <1>2. CASE AddManual \/ RestoreBackup
    <2>1. /\ pc = "idle" /\ pc' = "idle" /\ outcome' = "none"
          /\ UNCHANGED <<listed, backup, folder, toList, backupDamage>>
      BY <1>2 DEF AddManual, RestoreBackup, work
    <2>2. Sound(damage') => Accounts(keyFile', listed)
      <3>1. CASE AddManual
        <4>1. PICK w \in ManualWords : w \notin FileForms(keyFile)
                                       /\ keyFile' = WithManual(keyFile, w)
          BY <3>1 DEF AddManual, TypesOnce
        <4>2. FileOK(keyFile) /\ w \in Forms
          BY LifecycleAssumption DEF IInv, TypeOK, LinesFiled, WellFormed, FileOK
        <4>3. Sound(damage') => Accounts(keyFile, listed)
          BY <2>1, <3>1 DEF AddManual, BInv, FileAccounts
        <4> QED BY <4>1, <4>2, <4>3, TypedAccounts
      <3>2. CASE RestoreBackup
        <4>1. /\ keyFile' = backup /\ outcome \in {"failed", "killed"}
              /\ damage' = (damage \ {"counts", "typed"}) \cup backupDamage
          BY <3>2 DEF RestoreBackup
        <4>2. Sound(damage') => "list" \notin damage /\ Sound(backupDamage)
          BY <4>1 DEF Sound
        <4> QED BY <2>1, <4>1, <4>2 DEF BInv, FileAccounts, Undoable
      <3> QED BY <1>2, <3>1, <3>2
    <2>3. FileAccounts' /\ BackupFresh'
      BY <2>1, <2>2 DEF FileAccounts, BackupFresh, Undoable, Reading, Learning
    <2>4. FewTexts' /\ NewToList' /\ LearnedSoFar' /\ SavedSoFar' /\ ReadSoFar'
      BY <2>1 DEF BInv, FewTexts, NewToList, LearnedSoFar, SavedSoFar, ReadSoFar, Learning
    <2> QED BY <2>3, <2>4 DEF BInv
  <1> QED BY <1>1, <1>2
\* When texts are to be learned again, what the key has is enough for those still listed.
LEMMA RelearnBooks ==
    ASSUME AllInv, DropSource \/ DeleteList
    PROVE  BInv'
  <1> USE DEF AllInv
  <1>1. /\ pc = "idle" /\ pc' = "idle" /\ outcome' = "none"
        /\ UNCHANGED <<keyFile, backup, folder, toList, damage, backupDamage>>
        /\ listed' \subseteq listed
    BY DEF DropSource, DeleteList, work
  <1>2. ~CarefulUser
    BY DEF DropSource, DeleteList, CarefulUser
  <1>3. listed \subseteq Headers /\ IsFiniteSet(listed)
    BY DEF IInv, TypeOK, BInv, FewTexts
  <1>4. ASSUME Accounts(keyFile, listed) PROVE Accounts(keyFile, listed')
    <2>1. PICK kf, S, T : kf = keyFile /\ S = listed /\ T = listed'
      OBVIOUS
    <2>2. /\ S \subseteq Headers /\ IsFiniteSet(S) /\ T \subseteq S /\ IsKeyFile(kf)
          /\ Accounts(kf, S)
      BY <1>1, <1>3, <1>4, <2>1 DEF IInv, TypeOK
    <2>3. ASSUME NEW s \in DOMAIN kf.lines
          PROVE  Covers(EntryOf(kf, s), Occurrences(kf.lines[s].form, T))
      <3>1. PICK e, w : e = EntryOf(kf, s) /\ w = kf.lines[s].form
        OBVIOUS
      <3>2. Covers(e, Occurrences(w, S)) /\ e.freq \in Nat
        BY <2>2, <3>1 DEF Accounts, EntryOf, IsKeyFile, Line
      <3>3. PICK a, b : a = EntryFor(Occurrences(w, S)) /\ b = EntryFor(Occurrences(w, T))
        OBVIOUS
      <3>4. b.freq <= a.freq /\ b.srcs \subseteq a.srcs /\ a.freq \in Nat /\ b.freq \in Nat
        BY <2>2, <3>3, FewerPlaces
      <3>5. a.freq <= e.freq /\ a.srcs \subseteq e.srcs
        BY <3>2, <3>3 DEF Covers
      <3>6. b.freq <= e.freq /\ b.srcs \subseteq e.srcs
        BY <3>2, <3>4, <3>5
      <3> QED BY <1>2, <3>1, <3>3, <3>6 DEF Covers
    <2>4. ASSUME NEW w \in Forms, Occurrences(w, T) # {} PROVE w \in FileForms(kf)
      <3>1. Occurrences(w, S) # {}
        BY <2>2, <2>4, PlaceIn
      <3> QED BY <2>2, <3>1 DEF Accounts
    <2> QED BY <2>1, <2>3, <2>4 DEF Accounts
  <1>5. FileAccounts' /\ BackupFresh'
    BY <1>1, <1>4
    DEF BInv, FileAccounts, BackupFresh, Undoable, Reading, Learning
  <1>6. FewTexts'
    BY <1>1, <1>3, FS_Subset DEF BInv, FewTexts
  <1>7. NewToList' /\ LearnedSoFar' /\ SavedSoFar' /\ ReadSoFar'
    BY <1>1 DEF NewToList, LearnedSoFar, SavedSoFar, ReadSoFar, Learning
  <1> QED BY <1>5, <1>6, <1>7 DEF BInv
----------------------------------------------------------------------------
(* The theorems. *)

\* At the beginning there is nothing to account for.
LEMMA InitBooks == Init => BInv
  <1>1. Accounts(Blank, {})
    BY EmptyTableFacts, PlacesIn DEF Accounts, Blank
  <1> SUFFICES ASSUME Init PROVE BInv
    OBVIOUS
  <1>2. pc = "idle" /\ outcome = "none" /\ keyFile = Blank /\ listed = {}
    BY DEF Init
  <1>3. FileAccounts /\ BackupFresh
    BY <1>1, <1>2 DEF FileAccounts, BackupFresh, Undoable, Reading, Learning
  <1>4. FewTexts /\ NewToList /\ LearnedSoFar /\ SavedSoFar /\ ReadSoFar
    BY <1>2, FS_EmptySet
    DEF Init, FewTexts, NewToList, LearnedSoFar, SavedSoFar, ReadSoFar, Learning
  <1> QED BY <1>3, <1>4 DEF BInv

\* Each step keeps the accounts.
LEMMA StepBooks ==
    ASSUME TypesOnce, AllInv, [Next]_vars
    PROVE  BInv'
  <1>1. CASE ExmacStep
    BY <1>1, StartExmacBooks, LoadLineBooks, FindSourcesBooks, LearnWordBooks,
       FinishTextBooks, OpenKeyBooks, SaveWordBooks, ListBooks DEF ExmacStep, Exmac
  <1>2. CASE ClearStep
    BY <1>2, ClearBooks
  <1>3. CASE Kill
    BY <1>3, KillBooks
  <1>4. CASE User
    BY <1>4, ClearBooks, UserBooks, RelearnBooks DEF User
  <1>5. CASE UNCHANGED vars
    BY <1>5, UserBooks
  <1> QED BY <1>1, <1>2, <1>3, <1>4, <1>5 DEF Next

LEMMA BooksKept ==
    ASSUME TypesOnce
    PROVE  Spec => []AllInv
  <1>1. Spec => []UInv
    BY UniqueAlways DEF TypesOnce
  <1>2. AllInv <=> IInv /\ Learned /\ UInv /\ BInv
    BY DEF AllInv
  <1> QED BY <1>1, <1>2, InitBooks, StepBooks, Inductive, LearnedAlways, PTL DEF Spec

LEMMA CarefulTypesOnce == CarefulUser => TypesOnce
  BY DEF CarefulUser, TypesOnce

\* Between runs key.txt accounts for the listed texts, if nothing is damaged.
LEMMA SettledAccount ==
    ASSUME AllInv, Settled
    PROVE  LinesUnique(keyFile) /\ Accounts(keyFile, listed)
  <1>1. pc = "idle" /\ Sound(damage)
    BY DEF Settled, Sound
  <1> QED BY <1>1 DEF AllInv, UInv, BInv, FileAccounts

\* Between runs no frequency in key.txt is below the number of occurrences in the listed
\* texts, as long as the user repeats no word, even when lines of sources.txt or all of it
\* are deleted to have texts learned again: exmacronize counts each place of a new text
\* on top of what the key has, and the key that is put back is that of the list.
THEOREM NothingIsForgotten ==
    ASSUME TypesOnce
    PROVE  Spec => []NeverUnderCounted
  <1>1. ASSUME AllInv PROVE NeverUnderCounted
    <2>1. SUFFICES ASSUME Settled, NEW w \in Forms
                   PROVE  FileFreq(keyFile, w) >= Cardinality(Occurrences(w, listed))
      BY DEF NeverUnderCounted
    <2>2. LinesUnique(keyFile) /\ Accounts(keyFile, listed)
      BY <1>1, <2>1, SettledAccount
    <2>3. EntryFor(Occurrences(w, listed)).freq <= FileFreq(keyFile, w)
      BY <2>2, FormAccounted DEF Covers
    <2>4. EntryFor(Occurrences(w, listed)).freq = Cardinality(Occurrences(w, listed))
      BY DEF EntryFor
    <2> QED BY <2>3, <2>4
  <1> QED BY <1>1, BooksKept, PTL

\* Between runs every frequency in key.txt is the number of occurrences in the listed
\* texts, as long as the user repeats no word and has no text learned again: exmacronize
\* counts each place once, and neither savekey nor loadkey nor Clear Key loses count.
THEOREM FrequenciesAreRight ==
    ASSUME CarefulUser
    PROVE  Spec => []CountsExact
  <1>1. ASSUME AllInv PROVE CountsExact
    <2>1. SUFFICES ASSUME Settled, NEW w \in Forms
                   PROVE  FileFreq(keyFile, w) = Cardinality(Occurrences(w, listed))
      BY DEF CountsExact
    <2>2. LinesUnique(keyFile) /\ Accounts(keyFile, listed)
      BY <1>1, <2>1, SettledAccount
    <2> QED BY <2>2, AccountExact
  <1> QED BY <1>1, BooksKept, CarefulTypesOnce, PTL

\* Under the same conditions the source numbers of each line stand for the listed texts
\* in which its form occurs: savekey numbers the sources it was read with, and loadkey
\* reads the headers back from the numbers.
THEOREM SourcesAreRight ==
    ASSUME CarefulUser
    PROVE  Spec => []SourcesExact
  <1>1. ASSUME AllInv PROVE SourcesExact
    <2>1. SUFFICES ASSUME Settled, NEW w \in Forms
                   PROVE  FileSources(keyFile, w) =
                             {h \in listed : Occurrences(w, {h}) # {}}
      BY DEF SourcesExact
    <2>2. LinesUnique(keyFile) /\ Accounts(keyFile, listed)
      BY <1>1, <2>1, SettledAccount
    <2>3. FileSources(keyFile, w) = {x[1] : x \in Occurrences(w, listed)}
      BY <2>2, FormAccounted DEF EntryFor, Covers
    <2> QED BY <2>3, SourcesOfPlaces
  <1> QED BY <1>1, BooksKept, CarefulTypesOnce, PTL
----------------------------------------------------------------------------
(* Exmacronize and Clear Key implement module Corpus. *)

\* The account of the texts in S for the forms in D.
AccountOf(D, S) == [w \in D |-> EntryFor(Occurrences(w, S))]

\* Forms of a file are forms.
LEMMA FormsOfFile ==
    ASSUME NEW kf, IsKeyFile(kf)
    PROVE  FileForms(kf) \subseteq Forms
  BY DEF FileForms, IsKeyFile, Line

\* What a file says, if it accounts for the texts in S.
LEMMA KeyOfAccount ==
    ASSUME CarefulUser, NEW kf, IsKeyFile(kf), LinesUnique(kf), NEW S, Accounts(kf, S)
    PROVE  KeyOf(kf) = AccountOf(FileForms(kf), S)
  <1>1. ASSUME NEW w \in FileForms(kf)
        PROVE  [freq |-> FileFreq(kf, w), srcs |-> FileSources(kf, w)]
                  = EntryFor(Occurrences(w, S))
    BY FormsOfFile, FormAccounted DEF Covers
  <1> QED BY <1>1 DEF KeyOf, AccountOf

\* What is left of it when Clear Key has been over it.
LEMMA KeyOfCleared ==
    ASSUME NEW kf, FileOK(kf), LinesUnique(kf)
    PROVE  KeyOf(Cleared(kf)) =
              [w \in {v \in FileForms(kf) : KeyOf(kf)[v].freq = 0} |-> KeyOf(kf)[w]]
  <1> DEFINE c == Cleared(kf)
             D == {v \in FileForms(kf) : KeyOf(kf)[v].freq = 0}
  <1>1. /\ DOMAIN c.lines = Kept(kf) /\ Kept(kf) \subseteq DOMAIN kf.lines
        /\ \A s \in Kept(kf) : c.lines[s] = kf.lines[s]
    BY DEF Cleared, Kept
  <1>2. LinesUnique(c)
    BY <1>1 DEF LinesUnique
  <1>3. \A v \in FileForms(kf) :
           KeyOf(kf)[v] = [freq |-> FileFreq(kf, v), srcs |-> FileSources(kf, v)]
    BY DEF KeyOf
  <1>4. ASSUME NEW s \in Kept(kf)
        PROVE  /\ kf.lines[s].form \in D
               /\ KeyOf(kf)[kf.lines[s].form] = [freq |-> 0, srcs |-> {}]
               /\ FileFreq(c, kf.lines[s].form) = 0
               /\ FileSources(c, kf.lines[s].form) = {}
    <2>1. kf.lines[s].freq = 0 /\ kf.lines[s].ids = {}
      BY <1>1 DEF Kept, FileOK, LinesNameSources, Manual
    <2> HIDE DEF c, D
    <2>2. /\ s \in DOMAIN kf.lines
          /\ s \in DOMAIN c.lines
          /\ c.lines[s] = kf.lines[s]
      BY <1>1
    <2>3. /\ kf.lines[s].form \in FileForms(kf)
          /\ FileFreq(kf, kf.lines[s].form) = kf.lines[s].freq
          /\ FileSources(kf, kf.lines[s].form) = {kf.srcs[i] : i \in kf.lines[s].ids}
      BY <2>2, OnlyLine
    <2>4. /\ FileFreq(c, c.lines[s].form) = c.lines[s].freq
          /\ FileSources(c, c.lines[s].form) = {c.srcs[i] : i \in c.lines[s].ids}
      BY <1>2, <2>2, OnlyLine
    <2>5. /\ FileFreq(kf, kf.lines[s].form) = 0
          /\ FileSources(kf, kf.lines[s].form) = {}
      BY <2>1, <2>3
    <2>6. /\ FileFreq(c, kf.lines[s].form) = 0
          /\ FileSources(c, kf.lines[s].form) = {}
      BY <2>1, <2>2, <2>4
    <2>7. KeyOf(kf)[kf.lines[s].form] = [freq |-> 0, srcs |-> {}]
      BY <1>3, <2>3, <2>5
    <2>8. kf.lines[s].form \in D
      BY <2>3, <2>7 DEF D
    <2> QED BY <2>6, <2>7, <2>8
  <1>5. ASSUME NEW v \in D
        PROVE  \E s \in Kept(kf) : kf.lines[s].form = v
    <2>1. PICK s \in DOMAIN kf.lines : kf.lines[s].form = v
      BY DEF FileForms
    <2>2. v \in FileForms(kf) /\ KeyOf(kf)[v].freq = 0
      OBVIOUS
    <2> HIDE DEF D
    <2>3. FileFreq(kf, v) = 0
      <3>1. KeyOf(kf)[v].freq = FileFreq(kf, v)
        BY <2>2 DEF KeyOf
      <3> QED BY <2>2, <3>1
    <2>4. kf.lines[s].freq = 0
      BY <2>1, <2>3, OnlyLine
    <2> QED BY <2>1, <2>4 DEF Kept, Manual
  <1>6. FileForms(c) = {kf.lines[s].form : s \in Kept(kf)}
    <2> HIDE DEF c
    <2> QED BY <1>1 DEF FileForms
  <1>7. FileForms(c) = D
    <2> HIDE DEF c, D
    <2> QED BY <1>4, <1>5, <1>6
  <1>8. ASSUME NEW w \in D
        PROVE  [freq |-> FileFreq(c, w), srcs |-> FileSources(c, w)] = KeyOf(kf)[w]
    <2>1. PICK s \in Kept(kf) : kf.lines[s].form = w
      BY <1>5
    <2> HIDE DEF c, D
    <2> QED BY <1>4, <2>1
  <1>9. KeyOf(c) = [w \in D |-> KeyOf(kf)[w]]
    <2> HIDE DEF c, D
    <2> QED BY <1>7, <1>8 DEF KeyOf
  <1> QED BY <1>9

\* The account of two sets of texts.
LEMMA AccountOfBoth ==
    ASSUME NEW w, NEW S, NEW T, S \subseteq Headers, T \subseteq Headers,
           IsFiniteSet(S), IsFiniteSet(T), S \cap T = {}
    PROVE  EntryFor(Occurrences(w, S \cup T)) =
              [freq |-> EntryFor(Occurrences(w, S)).freq + Cardinality(Occurrences(w, T)),
               srcs |-> EntryFor(Occurrences(w, S)).srcs
                          \cup {h \in T : Occurrences(w, {h}) # {}}]
  <1> DEFINE P == Occurrences(w, S)
             Q == Occurrences(w, T)
  <1>1. Occurrences(w, S \cup T) = P \cup Q /\ P \cap Q = {}
    BY PlacesIn
  <1>2. IsFiniteSet(P) /\ IsFiniteSet(Q)
    BY FewPlaces
  <1>3. {h \in T : Occurrences(w, {h}) # {}} = {x[1] : x \in Q}
    BY SourcesOfPlaces
  <1> HIDE DEF P, Q
  <1>4. Cardinality(P \cup Q) = Cardinality(P) + Cardinality(Q)
    <2>1. /\ Cardinality(P \cup Q) = Cardinality(P) + Cardinality(Q) - Cardinality(P \cap Q)
          /\ Cardinality(P \cap Q) = 0
      BY <1>1, <1>2, FS_Union, FS_EmptySet
    <2>2. Cardinality(P) \in Nat /\ Cardinality(Q) \in Nat
      BY <1>2, FS_CardinalityType
    <2> QED BY <2>1, <2>2
  <1>5. {x[1] : x \in P \cup Q} = {x[1] : x \in P} \cup {x[1] : x \in Q}
    OBVIOUS
  <1>6. EntryFor(P \cup Q) = [freq |-> EntryFor(P).freq + Cardinality(Q),
                              srcs |-> EntryFor(P).srcs \cup {x[1] : x \in Q}]
    BY <1>4, <1>5 DEF EntryFor
  <1> QED BY <1>1, <1>3, <1>6 DEF P, Q

\* Both modules count alike.
LEMMA SameCardinality == \A S : Account!Cardinality(S) = Cardinality(S)
  BY DEF Account!Cardinality, Cardinality, Account!IsFiniteSet, IsFiniteSet

\* A run that has learned its texts has learned them at once.
LEMMA LearnMapped ==
    ASSUME NEW D, NEW E, NEW S, NEW T, D \subseteq Forms,
           S \subseteq Headers, T \subseteq Headers, S \cap T = {}, T # {},
           IsFiniteSet(S), IsFiniteSet(T),
           E = D \cup {w \in Forms : Occurrences(w, T) # {}},
           \A w \in Forms : Occurrences(w, S) # {} => w \in D,
           KeyNow = AccountOf(D, S), ListNow = S,
           KeyNow' = AccountOf(E, S \cup T), ListNow' = S \cup T
    PROVE  Account!Learn(T)
  <1>1. \A w, U : Account!Occurrences(w, U) = Occurrences(w, U)
    BY DEF Account!Occurrences, Occurrences
  <1>2. Account!FormsOf(T) = {w \in Forms : Occurrences(w, T) # {}}
    BY <1>1 DEF Account!FormsOf
  <1>3. DOMAIN KeyNow = D
    BY DEF AccountOf
  <1>4. ASSUME NEW w \in E
        PROVE  Account!Entry(w) = EntryFor(Occurrences(w, S))
    <2>1. CASE w \in D
      BY <1>3, <2>1 DEF AccountOf, Account!Entry
    <2>2. CASE w \notin D
      <3>1. Occurrences(w, S) = {}
        BY <2>2
      <3> QED BY <1>3, <2>2, <3>1, NoPlaces DEF Account!Entry, Account!Typed
    <2> QED BY <2>1, <2>2
  <1>5. ASSUME NEW w \in E
        PROVE  Account!WithTexts(w, T) = EntryFor(Occurrences(w, S \cup T))
    <2>1. Account!WithTexts(w, T) =
             [freq |-> EntryFor(Occurrences(w, S)).freq + Cardinality(Occurrences(w, T)),
              srcs |-> EntryFor(Occurrences(w, S)).srcs
                          \cup {h \in T : Occurrences(w, {h}) # {}}]
      <3> DEFINE A == {h \in T : Account!Occurrences(w, {h}) # {}}
                 B == {h \in T : Occurrences(w, {h}) # {}}
      <3>1. Account!WithTexts(w, T) =
               [freq |-> Account!Entry(w).freq + Cardinality(Account!Occurrences(w, T)),
                srcs |-> Account!Entry(w).srcs \cup A]
        BY SameCardinality DEF Account!WithTexts
      <3>2. A = B
        BY <1>1
      <3>3. Account!Occurrences(w, T) = Occurrences(w, T)
        BY <1>1
      <3>4. Account!Entry(w) = EntryFor(Occurrences(w, S))
        BY <1>4
      <3> HIDE DEF A, B
      <3>5. Account!WithTexts(w, T) =
               [freq |-> EntryFor(Occurrences(w, S)).freq + Cardinality(Occurrences(w, T)),
                srcs |-> EntryFor(Occurrences(w, S)).srcs \cup B]
        BY <3>1, <3>2, <3>3, <3>4
      <3> QED BY <3>5 DEF B
    <2> QED BY <2>1, AccountOfBoth
  <1>6. DOMAIN KeyNow \cup Account!FormsOf(T) = E
    BY <1>2, <1>3
  <1>7. KeyNow' = [w \in E |-> Account!WithTexts(w, T)]
    BY <1>5 DEF AccountOf
  <1>8. KeyNow' = [w \in DOMAIN KeyNow \cup Account!FormsOf(T) |-> Account!WithTexts(w, T)]
    BY <1>6, <1>7
  <1> QED BY <1>8 DEF Account!Learn

\* When key.txt is closed, the texts of the run have been learned.
LEMMA OpenListMapped ==
    ASSUME CarefulUser, AllInv, ExmacStep, OpenList
    PROVE  Account!Next
  <1> USE DEF AllInv
  <1>1. /\ pc = "saveWords" /\ pc' = "list" /\ unread = {} /\ damage' = damage
        /\ UNCHANGED <<keyFile, toList>>
    BY DEF OpenList, AllWritten, ExmacStep, work, BInv, BackupFresh
  <1>2. CASE ~Sound(damage)
    BY <1>1, <1>2 DEF Account!Next, Sound
  <1>3. CASE Sound(damage)
    <2> DEFINE T == toList \ listed
               D == FileForms(backup)
               E == FileForms(keyFile)
    <2>1. /\ KeyNow = KeyOf(backup) /\ ListNow = listed
          /\ KeyNow' = KeyOf(keyFile') /\ ListNow' = toList'
      BY <1>1 DEF KeyNow, ListNow
    <2>2. Accounts(backup, listed) /\ LinesUnique(backup) /\ IsKeyFile(backup)
      <3>1. "list" \notin damage /\ Sound(backupDamage)
        BY <1>1, <1>3 DEF BInv, BackupFresh, Learning, Sound
      <3> QED BY <1>1, <3>1
          DEF BInv, FileAccounts, Undoable, Learning, UInv, IInv, TypeOK
    <2>3. /\ Accounts(keyFile, toList) /\ LinesUnique(keyFile) /\ IsKeyFile(keyFile)
          /\ E = FormsIn(keytbl)
      BY <1>1, <1>3, AllSaved DEF UInv, IInv, TypeOK
    <2>4. /\ listed \subseteq Headers /\ toList \subseteq Headers
          /\ IsFiniteSet(listed) /\ IsFiniteSet(T)
          /\ listed \cup T = toList /\ listed \cap T = {} /\ T # {}
      <3>1. listed \subseteq toList /\ toList # listed
        BY <1>1 DEF BInv, NewToList, Learning
      <3>2. IsFiniteSet(listed) /\ IsFiniteSet(T)
        BY FS_Subset DEF BInv, FewTexts
      <3> QED BY <3>1, <3>2 DEF IInv, TypeOK
    <2>5. D \subseteq Forms /\ E \subseteq Forms
      BY <2>2, <2>3, FormsOfFile
    <2>6. \A w : Occurrences(w, toList) = Occurrences(w, listed) \cup Occurrences(w, T)
      BY <2>4, PlacesIn
    <2>7. E = D \cup {w \in Forms : Occurrences(w, T) # {}}
      <3>1. \A w : Places(w) = Occurrences(w, toList)
        BY <1>1, CurrentPlaceIn DEF Learned, Places
      <3>2. D \subseteq E /\ \A w \in E : w \in D \/ Occurrences(w, toList) # {}
        BY <1>1, <2>3, <3>1 DEF BInv, LearnedSoFar, Learning
      <3>3. ASSUME NEW w \in E, w \notin D PROVE Occurrences(w, T) # {}
        BY <2>2, <2>5, <2>6, <3>2, <3>3 DEF Accounts
      <3>4. ASSUME NEW w \in Forms, Occurrences(w, T) # {} PROVE w \in E
        BY <2>3, <2>6, <3>4 DEF Accounts
      <3> HIDE DEF D, E, T
      <3> QED BY <2>5, <3>2, <3>3, <3>4
    <2>8. KeyNow = AccountOf(D, listed)
      BY <2>1, <2>2, KeyOfAccount
    <2>9. KeyNow' = AccountOf(E, toList)
      BY <1>1, <2>1, <2>3, KeyOfAccount
    <2>10. PICK d, e, l, t : d = D /\ e = E /\ l = listed /\ t = T
      OBVIOUS
    <2>11. \A w \in Forms : Occurrences(w, l) # {} => w \in d
      BY <2>2, <2>10 DEF Accounts
    <2> HIDE DEF D, E, T
    <2>12. Account!Learn(t)
      BY <1>1, <2>1, <2>4, <2>5, <2>7, <2>8, <2>9, <2>10, <2>11, LearnMapped
    <2>13. t \in (SUBSET (Headers \ ListNow)) \ {{}}
      BY <2>1, <2>4, <2>10 DEF T
    <2>14. Account!Work
      BY <1>1, <2>12, <2>13 DEF Account!Work
    <2> QED BY <1>3, <2>14 DEF Account!Next, Sound
  <1> QED BY <1>2, <1>3

\* The other steps of a run change nothing that counts, unless the save fails.
LEMMA ExmacMapped ==
    ASSUME CarefulUser, AllInv, ExmacStep
    PROVE  [Account!Next]_Account!vars
  <1> USE DEF AllInv
  <1>1. CASE OpenList
    BY <1>1, OpenListMapped
  <1>2. CASE StartExmac \/ LoadLine \/ FindSources \/ LearnWord \/ FinishText
    <2>1. /\ pc \in {"idle", "load", "learn"} /\ pc' \in {"idle", "load", "learn", "save"}
          /\ UNCHANGED <<keyFile, listed, damage>>
      BY <1>2 DEF StartExmac, LoadLine, FindSources, LearnWord, FinishText, Ended,
                  ExmacStep, files
    <2> QED BY <2>1 DEF Account!vars, KeyNow, ListNow
  <1>3. CASE OpenKey \/ SaveSources
    <2>1. /\ pc \in {"save", "saveSources"} /\ pc' \in {"saveSources", "saveWords"}
          /\ UNCHANGED <<backup, listed, damage>>
      BY <1>3 DEF OpenKey, SaveSources, ExmacStep
    <2>2. pc = "save" => keyFile = backup
      BY DEF BInv, BackupFresh, Reading
    <2> QED BY <2>1, <2>2 DEF Account!vars, KeyNow, ListNow
  <1>4. CASE SaveWord
    <2>1. /\ pc = "saveWords" /\ UNCHANGED <<backup, listed>>
          /\ \/ pc' = "saveWords" /\ damage' = damage
             \/ "counts" \in damage'
      BY <1>4 DEF SaveWord, Ended, ExmacStep, BInv, BackupFresh
    <2>2. CASE pc' = "saveWords" /\ damage' = damage
      BY <2>1, <2>2 DEF Account!vars, KeyNow, ListNow
    <2>3. CASE "counts" \in damage'
      BY <2>3 DEF Account!Next
    <2> QED BY <2>1, <2>2, <2>3
  <1>5. CASE WriteList
    <2>1. /\ pc = "list" /\ pc' = "idle" /\ listed' = toList
          /\ UNCHANGED <<keyFile, damage>>
      BY <1>5 DEF WriteList, Ended, ExmacStep
    <2> QED BY <2>1 DEF Account!vars, KeyNow, ListNow
  <1> QED BY <1>1, <1>2, <1>3, <1>4, <1>5 DEF ExmacStep, Exmac

\* Key and list are in step when a Clear Key or a restored backup has repaired them.
LEMMA RepairMapped ==
    ASSUME CarefulUser, AllInv', ~Sound(damage), Sound(damage'), pc' = "idle"
    PROVE  Account!Next
  <1> USE DEF AllInv
  <1>1. PICK kf, S : kf = keyFile' /\ S = listed'
    OBVIOUS
  <1>2. LinesUnique(kf) /\ Accounts(kf, S) /\ IsKeyFile(kf)
    BY <1>1 DEF UInv, BInv, FileAccounts, IInv, TypeOK
  <1>3. KeyNow' = KeyOf(kf) /\ ListNow' = S
    BY <1>1 DEF KeyNow, ListNow
  <1>4. ASSUME NEW w \in FileForms(kf)
        PROVE  KeyOf(kf)[w] = [freq |-> Account!Cardinality(Account!Occurrences(w, S)),
                               srcs |-> {h \in S : Account!Occurrences(w, {h}) # {}}]
    <2>1. KeyOf(kf)[w] = EntryFor(Occurrences(w, S))
      BY <1>2, KeyOfAccount DEF AccountOf
    <2>2. EntryFor(Occurrences(w, S)) = [freq |-> Cardinality(Occurrences(w, S)),
                                         srcs |-> {h \in S : Occurrences(w, {h}) # {}}]
      BY SourcesOfPlaces DEF EntryFor
    <2>3. /\ \A U : Account!Occurrences(w, U) = Occurrences(w, U)
          /\ Account!Cardinality(Occurrences(w, S)) = Cardinality(Occurrences(w, S))
      BY SameCardinality DEF Account!Occurrences, Occurrences
    <2> DEFINE A == {h \in S : Account!Occurrences(w, {h}) # {}}
               B == {h \in S : Occurrences(w, {h}) # {}}
    <2>4. A = B
      BY <2>3
    <2> HIDE DEF A, B
    <2>5. KeyOf(kf)[w] = [freq |-> Account!Cardinality(Account!Occurrences(w, S)),
                          srcs |-> A]
      BY <2>1, <2>2, <2>3, <2>4 DEF B
    <2> QED BY <2>5 DEF A
  <1>5. DOMAIN KeyOf(kf) = FileForms(kf)
    BY DEF KeyOf
  <1>6. Account!Exact'
    BY <1>3, <1>4, <1>5 DEF Account!Exact
  <1> QED BY <1>6 DEF Account!Next, Account!Repair, Sound

\* Clear Key forgets at once what was learned.
LEMMA ClearMapped ==
    ASSUME CarefulUser, AllInv, AllInv', ClearOpen \/ ClearStep
    PROVE  [Account!Next]_Account!vars
  <1> USE DEF AllInv
  <1>1. CASE ClearOpen
    <2>1. /\ pc = "idle" /\ pc' = "clearKey" /\ damage' = damage
          /\ keystr' = Cleared(keyFile)
      BY <1>1 DEF ClearOpen, history
    <2>2. KeyNow = KeyOf(keyFile) /\ KeyNow' = KeyOf(keystr') /\ ListNow' = {}
      BY <2>1 DEF KeyNow, ListNow
    <2>3. FileOK(keyFile) /\ LinesUnique(keyFile)
      BY DEF IInv, TypeOK, LinesFiled, WellFormed, FileOK, UInv
    <2>4. KeyNow' = [w \in {v \in FileForms(keyFile) : KeyNow[v].freq = 0} |-> KeyNow[w]]
      BY <2>1, <2>2, <2>3, KeyOfCleared
    <2>5. DOMAIN KeyNow = FileForms(keyFile)
      BY <2>2 DEF KeyOf
    <2>6. Account!Clear
      BY <2>2, <2>4, <2>5 DEF Account!Clear
    <2> QED BY <2>1, <2>6 DEF Account!Next, Account!Work
  <1>2. CASE ClearWrite
    <2>1. /\ pc = "clearKey" /\ pc' = "clearList" /\ damage' = damage /\ keyFile' = keystr
      BY <1>2 DEF ClearWrite, history
    <2> QED BY <2>1 DEF Account!vars, KeyNow, ListNow
  <1>3. CASE ClearList
    <2>1. /\ pc = "clearList" /\ pc' = "idle" /\ listed' = {} /\ keyFile' = keyFile
          /\ damage' = damage \ {"counts", "list"}
      BY <1>3 DEF ClearList
    <2>2. Sound(damage')
      BY <2>1 DEF Sound
    <2>3. CASE Sound(damage)
      BY <2>1, <2>2, <2>3 DEF Account!vars, KeyNow, ListNow, Sound
    <2> QED BY <2>1, <2>2, <2>3, RepairMapped
  <1> QED BY <1>1, <1>2, <1>3 DEF ClearStep

\* A typed word is typed; a backup that is put back changes nothing or repairs.
LEMMA UserMapped ==
    ASSUME CarefulUser, AllInv, AllInv', AddSource \/ AddManual \/ RestoreBackup
    PROVE  [Account!Next]_Account!vars
  <1> USE DEF AllInv
  <1>1. CASE AddSource
    <2>1. UNCHANGED <<pc, keyFile, backup, keystr, listed, toList, damage>>
      BY <1>1 DEF AddSource, files, work, history
    <2> QED BY <2>1 DEF Account!vars, KeyNow, ListNow
  <1>2. CASE AddManual
    <2>1. pc = "idle" /\ pc' = "idle" /\ UNCHANGED <<listed, damage>>
      BY <1>2 DEF AddManual
    <2>2. PICK w \in ManualWords :
             w \notin FileForms(keyFile) /\ keyFile' = WithManual(keyFile, w)
      BY <1>2 DEF AddManual, CarefulUser
    <2>3. CASE ~Sound(damage)
      BY <2>1, <2>3 DEF Account!Next, Sound
    <2>4. CASE Sound(damage)
      <3>1. PICK kf, S : kf = keyFile /\ S = listed
        OBVIOUS
      <3>2. PICK m : m = keyFile'
        OBVIOUS
      <3>3. /\ Accounts(kf, S) /\ LinesUnique(kf) /\ FileOK(kf) /\ IsKeyFile(kf)
            /\ w \in Forms
        BY <2>1, <2>4, <3>1, LifecycleAssumption
        DEF BInv, FileAccounts, UInv, IInv, TypeOK, LinesFiled, WellFormed, FileOK
      <3>4. Accounts(m, S) /\ LinesUnique(m) /\ IsKeyFile(m)
        BY <2>1, <2>4, <3>1, <3>2 DEF BInv, FileAccounts, UInv, IInv, TypeOK
      <3>5. FileForms(m) = FileForms(kf) \cup {w}
        <4>1. <<PlainOf[w], NextLine(kf, w)>> \notin DOMAIN kf.lines
          BY <2>2, <3>1, <3>3, NextLineFits
        <4> DEFINE x == <<PlainOf[w], NextLine(kf, w)>>
                   l == [form |-> w, freq |-> 0, ids |-> {}]
        <4>2. m.lines = Store(kf.lines, x, l)
          BY <2>2, <3>1, <3>2 DEF WithManual
        <4> HIDE DEF x
        <4>3. /\ DOMAIN m.lines = DOMAIN kf.lines \cup {x}
              /\ m.lines[x].form = w
              /\ \A s \in DOMAIN kf.lines : m.lines[s] = kf.lines[s]
          BY <4>1, <4>2 DEF Store, x
        <4> QED BY <4>3 DEF FileForms
      <3>6. /\ KeyNow = AccountOf(FileForms(kf), S)
            /\ KeyNow' = AccountOf(FileForms(m), S)
            /\ ListNow = S /\ ListNow' = S
        BY <2>1, <3>1, <3>2, <3>3, <3>4, KeyOfAccount DEF KeyNow, ListNow
      <3>7. Occurrences(w, S) = {}
        BY <2>2, <3>1, <3>3 DEF Accounts
      <3>8. ASSUME NEW v \in FileForms(kf) \cup {w}
            PROVE  Account!Entry(v) = EntryFor(Occurrences(v, S))
        BY <2>2, <3>1, <3>6, <3>7, NoPlaces DEF Account!Entry, Account!Typed, AccountOf
      <3>9. DOMAIN KeyNow = FileForms(kf)
        BY <3>6 DEF AccountOf
      <3>10. KeyNow' = [v \in DOMAIN KeyNow \cup {w} |-> Account!Entry(v)]
        BY <3>5, <3>6, <3>8, <3>9 DEF AccountOf
      <3>11. Account!Type(w)
        BY <3>6, <3>10 DEF Account!Type
      <3>12. w \in Forms \ DOMAIN KeyNow
        BY <2>2, <3>1, <3>3, <3>9
      <3> QED BY <2>1, <2>4, <3>11, <3>12 DEF Account!Next, Account!Work, Sound
    <2> QED BY <2>3, <2>4
  <1>3. CASE RestoreBackup
    <2>1. /\ pc = "idle" /\ pc' = "idle" /\ outcome \in {"failed", "killed"}
          /\ keyFile' = backup /\ listed' = listed
      BY <1>3 DEF RestoreBackup
    <2>2. CASE ~Sound(damage')
      BY <2>2 DEF Account!Next, Sound
    <2>3. CASE Sound(damage') /\ Sound(damage)
      <3>1. keyFile = backup
        BY <2>1, <2>3 DEF BInv, BackupFresh
      <3> QED BY <2>1, <2>3, <3>1 DEF Account!vars, KeyNow, ListNow, Sound
    <2>4. CASE Sound(damage') /\ ~Sound(damage)
      BY <2>1, <2>4, RepairMapped
    <2> QED BY <2>2, <2>3, <2>4
  <1> QED BY <1>1, <1>2, <1>3

\* A kill leaves everything as it was, or key and list out of step.
LEMMA KillMapped ==
    ASSUME AllInv, Kill
    PROVE  [Account!Next]_Account!vars
  <1>1. /\ pc' = "idle" /\ UNCHANGED <<keyFile, listed>>
        /\ pc \in {"load", "learn", "save"} => damage' = damage
        /\ pc \in {"saveSources", "saveWords", "clearKey", "clearList", "list"} =>
              "counts" \in damage'
        /\ pc # "idle"
    BY DEF Kill, Ended, files
  <1>2. pc \in {"idle", "load", "learn", "save", "saveSources", "saveWords",
                "list", "clearKey", "clearList"}
    BY DEF AllInv, IInv, TypeOK
  <1>3. CASE "counts" \in damage'
    BY <1>3 DEF Account!Next
  <1>4. CASE pc \in {"load", "learn", "save"}
    BY <1>1, <1>4 DEF Account!vars, KeyNow, ListNow
  <1> QED BY <1>1, <1>2, <1>3, <1>4

\* With its files, its memory, its failures and the kills, the system does nothing but
\* learn all new texts at once, take typed words, and forget what was learned: as long as
\* the user repeats no word and has no text learned again.
THEOREM SystemKeepsAccount ==
    ASSUME CarefulUser
    PROVE  Spec => AccountKept
  <1>1. Init => Account!Init
    <2> SUFFICES ASSUME Init PROVE Account!Init
      OBVIOUS
    <2>1. KeyNow = KeyOf(Blank) /\ ListNow = {} /\ damage = {}
      BY DEF Init, KeyNow, ListNow
    <2>2. FileForms(Blank) = {}
      BY EmptyTableFacts DEF FileForms, Blank
    <2>3. KeyOf(Blank) = [w \in {} |-> Account!Typed]
      BY <2>2 DEF KeyOf
    <2> QED BY <2>1, <2>3 DEF Account!Init
  <1>2. ASSUME AllInv, AllInv', [Next]_vars
        PROVE  [Account!Next]_Account!vars
    <2>1. CASE ExmacStep
      BY <1>2, <2>1, ExmacMapped
    <2>2. CASE ClearStep \/ ClearOpen
      BY <1>2, <2>2, ClearMapped
    <2>3. CASE Kill
      BY <1>2, <2>3, KillMapped
    <2>4. CASE AddSource \/ AddManual \/ RestoreBackup
      BY <1>2, <2>4, UserMapped
    <2>5. CASE UNCHANGED vars
      BY <2>5 DEF vars, files, work, history, Account!vars, KeyNow, ListNow
    <2> QED BY <1>2, <2>1, <2>2, <2>3, <2>4, <2>5
        DEF Next, User, DropSource, DeleteList, CarefulUser
  <1> QED BY <1>1, <1>2, BooksKept, CarefulTypesOnce, PTL
          DEF Spec, AccountKept, Account!Spec
----------------------------------------------------------------------------
(* What a step does to the entries. *)

\* A line that is read gives its form its entry, and no other.
LEMMA LoadedEntry ==
    ASSUME AllInv, LoadLine
    PROVE  \E s \in DOMAIN keyFile.lines :
              /\ FormsIn(keytbl') = FormsIn(keytbl) \cup {keyFile.lines[s].form}
              /\ info'[keyFile.lines[s].form] = EntryOf(keyFile, s)
              /\ \A v \in DOMAIN info : v # keyFile.lines[s].form => info'[v] = info[v]
  <1> USE DEF AllInv
  <1>1. PICK s \in unread :
           /\ keytbl' = Store(keytbl, GetNextKey(keytbl, PlainOf[keyFile.lines[s].form]),
                              keyFile.lines[s].form)
           /\ info' = Store(info, keyFile.lines[s].form,
                            [freq |-> keyFile.lines[s].freq,
                             srcs |-> {keyFile.srcs[i] : i \in keyFile.lines[s].ids}])
    BY DEF LoadLine
  <1>2. PICK w, e : /\ w = keyFile.lines[s].form
                    /\ e = [freq |-> keyFile.lines[s].freq,
                            srcs |-> {keyFile.srcs[i] : i \in keyFile.lines[s].ids}]
    OBVIOUS
  <1>3. s \in DOMAIN keyFile.lines /\ w \in Forms /\ DOMAIN keytbl \subseteq Slot
    BY <1>2 DEF LoadLine, IInv, TypeOK, Loading, IsKeyFile, Line
  <1> DEFINE x == GetNextKey(keytbl, PlainOf[w])
  <1>4. keytbl' = Store(keytbl, x, w) /\ info' = Store(info, w, e)
    BY <1>1, <1>2
  <1>5. x \notin DOMAIN keytbl
    BY <1>3, NextKeyFree
  <1> HIDE DEF x
  <1>6. FormsIn(keytbl') = FormsIn(keytbl) \cup {w}
    BY <1>4, <1>5, StoreForms
  <1>7. info'[w] = e /\ \A v \in DOMAIN info : v # w => info'[v] = info[v]
    BY <1>4, StoreEntry
  <1> QED BY <1>2, <1>3, <1>6, <1>7 DEF EntryOf

\* A word that is learned has a frequency and one more source then; a form that was not
\* there is new.
LEMMA LearnedEntry ==
    ASSUME AllInv, LearnWord
    PROVE  \E h \in todo :
              /\ Current(h) /\ pos \in DOMAIN Text[h] /\ Text[h][pos] \in Forms
              /\ FormsIn(keytbl') = FormsIn(keytbl) \cup {Text[h][pos]}
              /\ info'[Text[h][pos]].freq \in Nat \ {0}
              /\ \A k \in info'[Text[h][pos]].srcs :
                    \/ k = h
                    \/ Text[h][pos] \in FormsIn(keytbl) /\ k \in info[Text[h][pos]].srcs
              /\ \A v \in DOMAIN info : v # Text[h][pos] => info'[v] = info[v]
              /\ Text[h][pos] \notin FormsIn(keytbl) => newForms' = TRUE
              /\ newForms => newForms'
  <1> USE DEF AllInv
  <1>1. PICK h \in todo :
           /\ Current(h) /\ pos <= Len(Text[h])
           /\ LET w == Text[h][pos]
                  p == PlainOf[w]
              IN \/ /\ w \notin Parallels(keytbl, p)
                    /\ keytbl' = Store(keytbl, GetNextKey(keytbl, p), w)
                    /\ info' = Store(info, w, [freq |-> 1, srcs |-> {h}])
                    /\ newForms' = TRUE
                 \/ /\ w \in Parallels(keytbl, p)
                    /\ info' = Store(info, w, Recount(w, h))
                    /\ UNCHANGED <<keytbl, newForms>>
    BY DEF LearnWord
  <1>2. PICK w : w = Text[h][pos]
    OBVIOUS
  <1> DEFINE x == GetNextKey(keytbl, PlainOf[w])
  <1>3. pos \in DOMAIN Text[h] /\ w \in Forms /\ PlainOf[w] \in Plains
    <2>1. Text[h] \in Seq(Forms) /\ pos \in Nat \ {0}
      BY ExmacAssumption DEF IInv, TypeOK
    <2>2. pos \in 1..Len(Text[h])
      BY <1>1, <2>1
    <2> QED BY <1>2, <2>1, <2>2, WordKeyAssumption
  <1>4. DOMAIN keytbl \subseteq Slot /\ Dense(keytbl) /\ FiledUnderPlain(keytbl)
    BY DEF IInv, TypeOK, NoGaps
  <1>5. /\ FormsIn(keytbl') = FormsIn(keytbl) \cup {w}
        /\ info'[w].freq \in Nat \ {0}
        /\ \A k \in info'[w].srcs : k = h \/ (w \in FormsIn(keytbl) /\ k \in info[w].srcs)
        /\ \A v \in DOMAIN info : v # w => info'[v] = info[v]
        /\ w \notin FormsIn(keytbl) => newForms' = TRUE
        /\ newForms => newForms'
    <2>1. CASE w \notin Parallels(keytbl, PlainOf[w])
      <3>1. /\ keytbl' = Store(keytbl, x, w)
            /\ info' = Store(info, w, [freq |-> 1, srcs |-> {h}])
            /\ newForms' = TRUE
        BY <1>1, <1>2, <2>1
      <3>2. x \notin DOMAIN keytbl
        BY <1>3, <1>4, NextKeyFree
      <3> HIDE DEF x
      <3>3. FormsIn(keytbl') = FormsIn(keytbl) \cup {w}
        BY <3>1, <3>2, StoreForms
      <3>4. /\ info'[w] = [freq |-> 1, srcs |-> {h}]
            /\ \A v \in DOMAIN info : v # w => info'[v] = info[v]
        BY <3>1, StoreEntry
      <3> QED BY <3>1, <3>3, <3>4
    <2>2. CASE w \in Parallels(keytbl, PlainOf[w])
      <3>1. keytbl' = keytbl /\ info' = Store(info, w, Recount(w, h)) /\ newForms' = newForms
        BY <1>1, <1>2, <2>2
      <3>2. w \in FormsIn(keytbl)
        BY <1>3, <1>4, <2>2, PresentForm
      <3>3. info'[w] = [freq |-> info[w].freq + 1, srcs |-> info[w].srcs \cup {h}]
            /\ \A v \in DOMAIN info : v # w => info'[v] = info[v]
        BY <3>1, StoreEntry DEF Recount
      <3>4. info[w].freq \in Nat
        BY <3>2 DEF IInv, TypeOK, Tallied
      <3>5. info'[w].freq \in Nat \ {0}
        BY <3>3, <3>4
      <3> QED BY <3>1, <3>2, <3>3, <3>5
    <2> QED BY <2>1, <2>2
  <1> QED BY <1>1, <1>2, <1>3, <1>5

\* A line that is written has the entry of its form.
LEMMA SavedEntry ==
    ASSUME AllInv, SaveWord, ~Ended("failed")
    PROVE  \E s \in DOMAIN keytbl :
              /\ DOMAIN keyFile'.lines = DOMAIN keyFile.lines \cup {s}
              /\ keyFile'.lines[s].form = keytbl[s]
              /\ EntryOf(keyFile', s) = info[keytbl[s]]
              /\ \A t \in DOMAIN keyFile.lines :
                    t # s => keyFile'.lines[t] = keyFile.lines[t]
              /\ keyFile'.shape = keyFile.shape /\ keyFile'.srcs = keyFile.srcs
  <1> USE DEF AllInv
  <1>1. PICK s \in unread :
           /\ Numbered(keytbl[s])
           /\ keyFile' = [keyFile EXCEPT !.lines = Store(@, s, LineOf(keytbl[s]))]
    BY DEF SaveWord
  <1>2. s \in DOMAIN keytbl
    BY DEF SaveWord, IInv, Saving
  <1>3. /\ keyFile'.lines = Store(keyFile.lines, s, LineOf(keytbl[s]))
        /\ keyFile'.shape = keyFile.shape
        /\ keyFile'.srcs = keyFile.srcs /\ keyFile.srcs = headers
    BY <1>1 DEF IInv, TypeOK, IsKeyFile, SaveWord, Saving
  <1>4. PICK w, l : w = keytbl[s] /\ l = LineOf(w)
    OBVIOUS
  <1>5. l.form = w /\ Numbered(w)
    BY <1>1, <1>4 DEF LineOf
  <1>6. /\ info[w] \in [freq : Nat, srcs : SUBSET Headers]
        /\ info[w].freq = 0 <=> info[w].srcs = {}
    BY <1>2, <1>4 DEF IInv, TypeOK, Tallied, FormsIn
  <1>7. [freq |-> l.freq, srcs |-> {headers[i] : i \in l.ids}] = info[w]
    BY <1>4, <1>5, <1>6, LineEntry
  <1>8. /\ DOMAIN keyFile'.lines = DOMAIN keyFile.lines \cup {s}
        /\ keyFile'.lines[s] = l
        /\ \A t \in DOMAIN keyFile.lines : t # s => keyFile'.lines[t] = keyFile.lines[t]
    BY <1>3, <1>4 DEF Store
  <1>9. EntryOf(keyFile', s) = info[w]
    BY <1>3, <1>7, <1>8 DEF EntryOf
  <1> QED BY <1>2, <1>3, <1>4, <1>5, <1>8, <1>9

\* What a typed word adds to a file.
LEMMA TypedLine ==
    ASSUME NEW kf, FileOK(kf), NEW w \in Forms
    PROVE  \E x : LET m == WithManual(kf, w) IN
              /\ DOMAIN m.lines = DOMAIN kf.lines \cup {x}
              /\ m.lines[x].form = w /\ m.lines[x].freq = 0 /\ m.lines[x].ids = {}
              /\ \A s \in DOMAIN kf.lines : m.lines[s] = kf.lines[s]
              /\ FileForms(m) = FileForms(kf) \cup {w} /\ m.srcs = kf.srcs
  <1> DEFINE m == WithManual(kf, w)
             x == <<PlainOf[w], NextLine(kf, w)>>
             l == [form |-> w, freq |-> 0, ids |-> {}]
  <1>1. m.lines = Store(kf.lines, x, l) /\ m.srcs = kf.srcs
    BY DEF WithManual
  <1>2. x \notin DOMAIN kf.lines
    BY NextLineFits
  <1> HIDE DEF x, m
  <1>3. /\ DOMAIN m.lines = DOMAIN kf.lines \cup {x}
        /\ m.lines[x] = l
        /\ \A s \in DOMAIN kf.lines : m.lines[s] = kf.lines[s]
    BY <1>1, <1>2 DEF Store
  <1>4. FileForms(m) = FileForms(kf) \cup {w}
    BY <1>3 DEF FileForms
  <1>5. m.lines[x].form = w /\ m.lines[x].freq = 0 /\ m.lines[x].ids = {}
    BY <1>3
  <1>6. m = WithManual(kf, w)
    BY DEF m
  <1> QED BY <1>1, <1>3, <1>4, <1>5, <1>6
----------------------------------------------------------------------------
(* Every entry is justified. *)

LEMMA JustifiedStep ==
    ASSUME AllInv, EInv, [Next]_vars
    PROVE  EInv'
  <1> DEFINE Good(kf) == \A s \in DOMAIN kf.lines :
                            Justified(kf.lines[s].form, EntryOf(kf, s))
  <1>1. Good(keyFile) /\ Good(backup) /\ Good(keystr) /\ Good(Blank)
    BY EmptyTableFacts DEF EInv, Blank
  <1>2. ASSUME Good(keyFile'), Good(backup'), Good(keystr'),
               \A w \in FormsIn(keytbl)' : Justified(w, info'[w])
        PROVE  EInv'
    BY <1>2 DEF EInv
  <1>3. FormsIn(EmptyTable) = {}
    BY EmptyTableFacts
  <1> HIDE DEF Good
  <1>4. CASE ExmacStep
    <2>1. Good(backup') /\ Good(keystr')
      BY <1>1, <1>4 DEF ExmacStep, Exmac, StartExmac, LoadLine, FindSources, LearnWord,
                        FinishText, OpenKey, SaveSources, SaveWord, OpenList, WriteList
    <2>2. CASE LoadLine
      <3>1. PICK s \in DOMAIN keyFile.lines :
               /\ FormsIn(keytbl') = FormsIn(keytbl) \cup {keyFile.lines[s].form}
               /\ info'[keyFile.lines[s].form] = EntryOf(keyFile, s)
               /\ \A v \in DOMAIN info : v # keyFile.lines[s].form => info'[v] = info[v]
        BY <2>2, LoadedEntry
      <3>2. keyFile' = keyFile
        BY <2>2 DEF LoadLine, files
      <3>3. Justified(keyFile.lines[s].form, EntryOf(keyFile, s))
        BY <1>1 DEF Good
      <3>4. \A w \in FormsIn(keytbl') : Justified(w, info'[w])
        BY <3>1, <3>3 DEF AllInv, IInv, Tallied, EInv
      <3> QED BY <1>1, <1>2, <2>1, <3>2, <3>4
    <2>3. CASE LearnWord
      <3>1. PICK h \in todo :
               /\ pos \in DOMAIN Text[h]
               /\ FormsIn(keytbl') = FormsIn(keytbl) \cup {Text[h][pos]}
               /\ info'[Text[h][pos]].freq \in Nat \ {0}
               /\ \A k \in info'[Text[h][pos]].srcs :
                     \/ k = h
                     \/ Text[h][pos] \in FormsIn(keytbl) /\ k \in info[Text[h][pos]].srcs
               /\ \A v \in DOMAIN info : v # Text[h][pos] => info'[v] = info[v]
        BY <2>3, LearnedEntry
      <3>2. keyFile' = keyFile
        BY <2>3 DEF LearnWord, files
      <3>3. Occurrences(Text[h][pos], Headers) # {} /\ Occurrences(Text[h][pos], {h}) # {}
        <4>1. h \in Headers
          BY DEF AllInv, IInv, TypeOK
        <4>2. /\ <<h, pos>> \in Occurrences(Text[h][pos], Headers)
              /\ <<h, pos>> \in Occurrences(Text[h][pos], {h})
          BY <3>1, <4>1, PlaceIn
        <4> QED BY <4>2
      <3>4. Justified(Text[h][pos], info'[Text[h][pos]])
        BY <3>1, <3>3 DEF Justified, EInv
      <3>5. \A w \in FormsIn(keytbl') : Justified(w, info'[w])
        BY <3>1, <3>4 DEF AllInv, IInv, Tallied, EInv
      <3> QED BY <1>1, <1>2, <2>1, <3>2, <3>5
    <2>4. CASE SaveWord /\ ~Ended("failed")
      <3>1. PICK s \in DOMAIN keytbl :
               /\ DOMAIN keyFile'.lines = DOMAIN keyFile.lines \cup {s}
               /\ keyFile'.lines[s].form = keytbl[s]
               /\ EntryOf(keyFile', s) = info[keytbl[s]]
               /\ \A t \in DOMAIN keyFile.lines :
                     t # s => keyFile'.lines[t] = keyFile.lines[t]
               /\ keyFile'.srcs = keyFile.srcs
        BY <2>4, SavedEntry
      <3>2. Justified(keytbl[s], info[keytbl[s]])
        BY DEF EInv, FormsIn
      <3>6. ASSUME NEW t \in DOMAIN keyFile.lines, t # s
            PROVE  EntryOf(keyFile', t) = EntryOf(keyFile, t)
        <4>1. keyFile'.lines[t] = keyFile.lines[t] /\ keyFile'.srcs = keyFile.srcs
          BY <3>1, <3>6
        <4> QED BY <4>1 DEF EntryOf
      <3>3. Good(keyFile')
        BY <1>1, <3>1, <3>2, <3>6 DEF Good
      <3>4. keytbl' = keytbl /\ info' = info
        BY <2>4 DEF SaveWord, tables
      <3>5. \A w \in FormsIn(keytbl') : Justified(w, info'[w])
        BY <3>4 DEF EInv
      <3> QED BY <1>2, <2>1, <3>3, <3>5
    <2>5. CASE ~LoadLine /\ ~LearnWord /\ ~(SaveWord /\ ~Ended("failed"))
      <3>1. keyFile' = keyFile \/ keyFile'.lines = EmptyTable
        BY <1>4, <2>5 DEF ExmacStep, Exmac, StartExmac, FindSources, FinishText, OpenKey,
                          SaveSources, SaveWord, OpenList, WriteList, Ended, files, Blank
      <3>2. Good(keyFile')
        BY <1>1, <3>1, EmptyTableFacts DEF Good
      <3>3. keytbl' = EmptyTable \/ (keytbl' = keytbl /\ info' = info)
        BY <1>4, <2>5 DEF ExmacStep, Exmac, StartExmac, FindSources, FinishText, OpenKey,
                          SaveSources, SaveWord, OpenList, WriteList, Ended, tables
      <3>4. \A w \in FormsIn(keytbl') : Justified(w, info'[w])
        BY <1>3, <3>3 DEF EInv
      <3> QED BY <1>2, <2>1, <3>2, <3>4
    <2> QED BY <2>2, <2>3, <2>4, <2>5
  <1>5. CASE AddManual
    <2>1. PICK w \in ManualWords : keyFile' = WithManual(keyFile, w)
      BY <1>5 DEF AddManual
    <2>2. FileOK(keyFile) /\ w \in Forms
      BY LifecycleAssumption DEF AllInv, IInv, TypeOK, LinesFiled, WellFormed, FileOK
    <2>3. PICK x : /\ DOMAIN keyFile'.lines = DOMAIN keyFile.lines \cup {x}
                   /\ keyFile'.lines[x].form = w /\ keyFile'.lines[x].freq = 0
                   /\ keyFile'.lines[x].ids = {}
                   /\ \A s \in DOMAIN keyFile.lines : keyFile'.lines[s] = keyFile.lines[s]
                   /\ keyFile'.srcs = keyFile.srcs
      BY <2>1, <2>2, TypedLine
    <2>4. Justified(w, EntryOf(keyFile', x))
      BY <2>3 DEF Justified, EntryOf
    <2>8. \A s \in DOMAIN keyFile.lines : EntryOf(keyFile', s) = EntryOf(keyFile, s)
      BY <2>3 DEF EntryOf
    <2>5. Good(keyFile')
      BY <1>1, <2>3, <2>4, <2>8 DEF Good
    <2>6. UNCHANGED <<backup, keystr, keytbl, info>>
      BY <1>5 DEF AddManual, tables
    <2>7. \A w_1 \in FormsIn(keytbl') : Justified(w_1, info'[w_1])
      BY <2>6 DEF EInv
    <2> QED BY <1>1, <1>2, <2>5, <2>6, <2>7
  <1>6. CASE ClearOpen
    <2>1. keystr' = Cleared(keyFile) /\ keyFile' = Blank /\ UNCHANGED <<backup, keytbl, info>>
      BY <1>6 DEF ClearOpen, tables
    <2>2. Good(Cleared(keyFile))
      <3>1. PICK c : c = Cleared(keyFile)
        OBVIOUS
      <3>2. ASSUME NEW s \in DOMAIN c.lines PROVE Justified(c.lines[s].form, EntryOf(c, s))
        <4>1. s \in DOMAIN keyFile.lines /\ keyFile.lines[s].freq = 0
              /\ c.lines[s] = keyFile.lines[s]
          BY <3>1 DEF Cleared, Kept, Manual
        <4>2. keyFile.lines[s].ids = {}
          BY <4>1 DEF AllInv, IInv, WellFormed, LinesNameSources, Manual
        <4>3. keyFile.lines[s].form \in ManualWords
          BY <1>1, <4>1 DEF Good, Justified, EntryOf
        <4> QED BY <4>1, <4>2, <4>3 DEF Justified, EntryOf
      <3> QED BY <3>1, <3>2 DEF Good
    <2>3. \A w \in FormsIn(keytbl') : Justified(w, info'[w])
      BY <2>1 DEF EInv
    <2> QED BY <1>1, <1>2, <2>1, <2>2, <2>3
  <1>7. CASE \/ ClearStep \/ Kill \/ AddSource \/ RestoreBackup
             \/ DropSource \/ DeleteList \/ UNCHANGED vars
    <2>1. /\ keyFile' \in {keyFile, backup, keystr} /\ backup' = backup
          /\ keystr' \in {keystr, Blank}
          /\ keytbl' = EmptyTable \/ (keytbl' = keytbl /\ info' = info)
      BY <1>7 DEF ClearStep, ClearWrite, ClearList, Kill, AddSource, RestoreBackup,
                  DropSource, DeleteList, Ended, vars, files, tables
    <2>2. \A w \in FormsIn(keytbl') : Justified(w, info'[w])
      BY <1>3, <2>1 DEF EInv
    <2> QED BY <1>1, <1>2, <2>1, <2>2
  <1> QED BY <1>4, <1>5, <1>6, <1>7 DEF Next, User

LEMMA EntriesJustified ==
    ASSUME TypesOnce
    PROVE  Spec => []EInv
  <1>1. Init => EInv
    BY EmptyTableFacts DEF Init, EInv, Blank
  <1> QED BY <1>1, JustifiedStep, BooksKept, PTL DEF Spec
----------------------------------------------------------------------------
(* Runs succeed. *)

\* Reading, learning and saving up to the first write.
LEMMA ReadingSucceeds ==
    ASSUME TextsBringForms, AllInv, EInv, SInv, ExmacStep,
           StartExmac \/ LoadLine \/ FindSources \/ LearnWord \/ FinishText
    PROVE  SInv'
  <1> USE DEF AllInv
  <1>1. CASE StartExmac
    <2>1. /\ pc = "idle" /\ backup' = keyFile /\ pc' \in {"idle", "load"}
          /\ UNCHANGED <<keyFile, listFile, listed>>
          /\ damage' = damage /\ backupDamage' = damage
      BY <1>1 DEF StartExmac, Ended, ExmacStep, files
    <2>2. Sound(damage) => Ready(keyFile, listed)
      BY <2>1 DEF SInv, FilesReady
    <2>3. FilesReady'
      BY <2>1, <2>2 DEF FilesReady, Undoable, Reading, Learning
    <2>4. TextsNumbered'
      BY <2>1 DEF TextsNumbered, Learning
    <2>5. outcome' = "failed" => ~Loadable(keyFile)
      BY <1>1 DEF StartExmac
    <2>6. RunsSucceed'
      BY <2>1, <2>2, <2>5 DEF RunsSucceed, Ready, Sound
    <2>7. NamesNumbered'
      <3>1. pc' = "load" => keytbl' = EmptyTable
        BY <1>1, <2>1 DEF StartExmac, Ended, IInv, AtRest
      <3> QED BY <2>1, <3>1, EmptyTableFacts DEF NamesNumbered, Learning
    <2> QED BY <2>1, <2>3, <2>4, <2>6, <2>7 DEF SInv, ListKept
  <1>2. CASE LoadLine
    <2>1. /\ pc = "load" /\ pc' = "load" /\ headers' = headers
          /\ UNCHANGED <<keyFile, listFile, listed, backup, outcome, damage, backupDamage>>
      BY <1>2 DEF LoadLine, ExmacStep, files
    <2>2. FilesReady' /\ TextsNumbered' /\ ListKept'
      BY <2>1 DEF SInv, FilesReady, TextsNumbered, ListKept, RunsSucceed, Undoable, Reading,
                  Learning
    <2>3. PICK s \in DOMAIN keyFile.lines :
             /\ FormsIn(keytbl') = FormsIn(keytbl) \cup {keyFile.lines[s].form}
             /\ info'[keyFile.lines[s].form] = EntryOf(keyFile, s)
             /\ \A v \in DOMAIN info : v # keyFile.lines[s].form => info'[v] = info[v]
      BY <1>2, LoadedEntry
    <2>4. EntryOf(keyFile, s).srcs \subseteq Sources(headers)
      <3>1. headers = keyFile.srcs /\ keyFile.lines[s].ids \subseteq DOMAIN keyFile.srcs
        BY <2>1 DEF IInv, Loading, WellFormed, LinesNameSources
      <3> QED BY <3>1 DEF EntryOf, Sources
    <2>5. \A w \in FormsIn(keytbl) : w \in DOMAIN info /\ info[w].srcs \subseteq Sources(headers)
      BY <2>1 DEF SInv, NamesNumbered, IInv, Tallied
    <2>6. NamesNumbered'
      BY <2>1, <2>3, <2>4, <2>5 DEF NamesNumbered, Learning
    <2> QED BY <2>2, <2>6 DEF SInv
  <1>3. CASE FindSources
    <2>1. /\ pc = "load" /\ listFile' = TRUE
          /\ UNCHANGED <<keyFile, listed, backup, damage, backupDamage>>
          /\ outcome = "none" /\ pos = FirstPos
          /\ outcome' = "failed" => ~listFile
      BY <1>3 DEF FindSources, Ended, ExmacStep, BInv, BackupFresh, Learned
    <2>2. Sound(damage) => Ready(keyFile, listed)
      BY <2>1 DEF SInv, FilesReady, Reading
    <2>3. ListKept'
      BY <2>1 DEF SInv, ListKept, RunsSucceed
    <2>4. CASE pc' = "idle"
      <3>1. FilesReady'
        BY <2>1, <2>2, <2>4 DEF SInv, FilesReady, Undoable, Reading, Learning
      <3> QED BY <2>3, <2>4, <3>1 DEF SInv, TextsNumbered, NamesNumbered, Learning
    <2>5. CASE pc' # "idle"
      <3>1. /\ pc' = "learn" /\ todo' = folder \ listed /\ toList' = listed \cup folder
            /\ pos' = FirstPos /\ UNCHANGED <<keytbl, info, headers>>
        BY <1>3, <2>1, <2>5 DEF FindSources, Ended, NewTexts, SourcesToList, tables
      <3>2. FilesReady'
        BY <2>1, <2>2, <3>1 DEF SInv, FilesReady, Undoable, Reading, Learning
      <3>3. TextsNumbered'
        <4>1. headers = keyFile.srcs /\ toList' \ todo' = listed
          BY <2>1, <3>1 DEF IInv, Loading
        <4>2. todo' \subseteq Headers
          BY <3>1 DEF IInv, TypeOK
        <4>3. \A w : CurrentPlaces(w)' = {}
          BY <3>1, <4>2, NoCurrentPlaceNext
        <4> QED BY <2>1, <2>2, <3>1, <4>1, <4>3 DEF TextsNumbered, Ready
      <3>4. NamesNumbered'
        BY <2>1, <3>1 DEF SInv, NamesNumbered
      <3> QED BY <2>3, <3>2, <3>3, <3>4 DEF SInv
    <2> QED BY <2>4, <2>5
  <1>4. CASE LearnWord
    <2>1. /\ pc = "learn" /\ pc' = "learn" /\ pos' = pos + 1
          /\ UNCHANGED <<keyFile, listFile, listed, backup, outcome, damage, backupDamage,
                         headers, toList, todo>>
      BY <1>4 DEF LearnWord, ExmacStep, files
    <2>2. PICK h \in todo :
             /\ Current(h) /\ pos \in DOMAIN Text[h] /\ Text[h][pos] \in Forms
             /\ FormsIn(keytbl') = FormsIn(keytbl) \cup {Text[h][pos]}
             /\ \A k \in info'[Text[h][pos]].srcs :
                   \/ k = h
                   \/ Text[h][pos] \in FormsIn(keytbl) /\ k \in info[Text[h][pos]].srcs
             /\ \A v \in DOMAIN info : v # Text[h][pos] => info'[v] = info[v]
             /\ Text[h][pos] \notin FormsIn(keytbl) => newForms' = TRUE
             /\ newForms => newForms'
      BY <1>4, LearnedEntry
    <2>3. ASSUME NEW g \in todo, NEW w \in Forms, Current(g),
                 OwnForm(w, g), CurrentPlaces(w)' # {}
          PROVE  newForms' \/ g \in Sources(headers)
      <3>1. g = h /\ todo \subseteq Headers
        BY <2>2, <2>3, OneCurrent DEF IInv, TypeOK
      <3>2. CASE CurrentPlaces(w) # {}
        BY <2>1, <2>2, <2>3, <3>2 DEF SInv, TextsNumbered
      <3>3. CASE CurrentPlaces(w) = {}
        <4>1. Occurrences(w, toList \ todo) = {}
          <5>1. toList \ todo \subseteq Headers \ {g}
            BY DEF IInv, TypeOK
          <5>2. \A x \in Occurrences(w, toList \ todo) : x \in Occurrences(w, Headers \ {g})
            BY <5>1, PlaceIn
          <5> QED BY <2>3, <5>2 DEF OwnForm
        <4>2. Places(w) = {}
          BY <3>3, <4>1 DEF Places
        <4>3. w = Text[h][pos]
          <5>1. w # Text[h][pos] => Places(w)' = Places(w)
            BY <2>1, <2>2, LearnWordPlaces
          <5>2. Places(w)' # {}
            BY <2>3 DEF Places
          <5> QED BY <4>2, <5>1, <5>2
        <4>4. ASSUME w \in FormsIn(keytbl) PROVE g \in Sources(headers)
          <5>1. info[w].freq # 0
            BY <2>3, <4>4 DEF EInv, Justified, OwnForm
          <5>2. PICK k : k \in info[w].srcs
            BY <4>4, <5>1 DEF IInv, Tallied
          <5>3. k \in Headers /\ Occurrences(w, {k}) # {}
            BY <4>4, <5>2 DEF EInv, Justified, IInv, TypeOK, Tallied
          <5>4. k = g
            <6>1. PICK x : x \in Occurrences(w, {k})
              BY <5>3
            <6>2. k # g => x \in Occurrences(w, Headers \ {g})
              BY <5>3, <6>1, PlaceIn
            <6> QED BY <2>3, <6>2 DEF OwnForm
          <5> QED BY <2>1, <3>3, <4>4, <5>2, <5>4 DEF SInv, NamesNumbered, Learning
        <4> QED BY <2>2, <4>3, <4>4
      <3> QED BY <3>2, <3>3
    <2>4. \A g : Current(g)' <=> Current(g)
      BY <2>1 DEF Current
    <2>5. TextsNumbered'
      BY <2>1, <2>3, <2>4 DEF SInv, TextsNumbered, Learning
    <2>6. FilesReady' /\ ListKept'
      BY <2>1 DEF SInv, FilesReady, ListKept, RunsSucceed, Undoable, Reading, Learning
    <2>7. ASSUME NEW w \in FormsIn(keytbl'), NEW k \in info'[w].srcs
          PROVE  \/ k \in Sources(headers)
                 \/ k \in todo /\ Current(k) /\ CurrentPlaces(w)' # {}
      <3>1. /\ CurrentPlaces(w) \subseteq CurrentPlaces(w)'
            /\ w = Text[h][pos] => CurrentPlaces(w)' # {}
        BY <2>1, <2>2, LearnWordPlaces
      <3>2. ASSUME w \in FormsIn(keytbl), k \in info[w].srcs
            PROVE  \/ k \in Sources(headers)
                   \/ k \in todo /\ Current(k) /\ CurrentPlaces(w)' # {}
        BY <2>1, <3>1, <3>2 DEF SInv, NamesNumbered, Learning
      <3>3. CASE w = Text[h][pos]
        BY <2>2, <2>7, <3>1, <3>2, <3>3
      <3>4. CASE w # Text[h][pos]
        <4>1. w \in FormsIn(keytbl) /\ w \in DOMAIN info
          BY <2>2, <2>7, <3>4 DEF IInv, Tallied
        <4> QED BY <2>2, <2>7, <3>2, <3>4, <4>1
      <3> QED BY <3>3, <3>4
    <2>8. NamesNumbered'
      BY <2>1, <2>4, <2>7 DEF NamesNumbered, Learning
    <2> QED BY <2>5, <2>6, <2>8 DEF SInv
  <1>5. CASE FinishText
    <2>1. /\ pc = "learn" /\ pc' \in {"learn", "save"} /\ pos' = FirstPos
          /\ UNCHANGED <<keyFile, listFile, listed, backup, outcome, damage, backupDamage,
                         toList>>
      BY <1>5 DEF FinishText, ExmacStep, files
    <2>2. PICK h \in todo :
             /\ Current(h) /\ pos > Len(Text[h]) /\ todo' = todo \ {h}
             /\ headers' = IF NeedsNumber(h) THEN WithSource(h) ELSE headers
      BY <1>5 DEF FinishText
    <2>3. headers \in Seq(Headers) /\ h \in Headers /\ todo \subseteq toList
      BY <2>1 DEF IInv, TypeOK, BInv, NewToList, Learning
    <2>4. Sources(headers) \subseteq Sources(headers')
      <3>1. CASE NeedsNumber(h)
        <4>1. headers' = Append(headers, h)
          BY <2>2, <3>1 DEF WithSource
        <4>2. \A i \in DOMAIN headers : i \in DOMAIN headers' /\ headers'[i] = headers[i]
          BY <2>3, <4>1
        <4> QED BY <4>2 DEF Sources
      <3> QED BY <2>2, <3>1
    <2>5. h \in Sources(headers')
      <3>1. newForms \/ h \in Sources(headers)
        <4>1. PICK w \in Forms : OwnForm(w, h)
          BY <2>3 DEF TextsBringForms
        <4>2. PICK x : x \in Occurrences(w, {h})
          BY <4>1 DEF OwnForm
        <4>3. PICK i \in DOMAIN Text[h] : x = <<h, i>> /\ Text[h][i] = w
          BY <4>2, PlaceIn
        <4>4. i < pos
          <5>1. Text[h] \in Seq(Forms) /\ pos \in Nat
            BY <2>3, ExmacAssumption DEF IInv, TypeOK
          <5> QED BY <2>2, <5>1
        <4>5. x \in CurrentPlaces(w)
          BY <2>2, <4>3, <4>4, CurrentPlaceIn
        <4> QED BY <2>1, <2>2, <4>1, <4>5 DEF SInv, TextsNumbered
      <3>2. CASE NeedsNumber(h)
        <4>1. headers' = Append(headers, h)
          BY <2>2, <3>2 DEF WithSource
        <4>2. Len(headers) + 1 \in DOMAIN headers' /\ headers'[Len(headers) + 1] = h
          BY <2>3, <4>1
        <4> QED BY <4>2 DEF Sources
      <3>3. CASE ~NeedsNumber(h)
        BY <2>2, <2>4, <3>1, <3>3 DEF NeedsNumber, Sources
      <3> QED BY <3>2, <3>3
    <2>6. TextsNumbered'
      <3>1. \A w : CurrentPlaces(w)' = {}
        BY <2>1, <2>2, NoCurrentPlaceNext DEF IInv, TypeOK
      <3>2. toList' \ todo' \subseteq (toList \ todo) \cup {h}
        BY <2>1, <2>2
      <3>3. Sound(damage) => toList \ todo \subseteq Sources(headers)
        BY <2>1 DEF SInv, TextsNumbered, Learning
      <3> QED BY <2>1, <2>4, <2>5, <3>1, <3>2, <3>3 DEF TextsNumbered
    <2>7. FilesReady' /\ ListKept'
      BY <2>1 DEF SInv, FilesReady, ListKept, RunsSucceed, Undoable, Reading, Learning
    <2>8. NamesNumbered'
      <3>1. ASSUME NEW w \in FormsIn(keytbl), NEW k \in info[w].srcs
            PROVE  k \in Sources(headers')
        <4>1. k \in Sources(headers) \/ (k \in todo /\ Current(k))
          BY <2>1 DEF SInv, NamesNumbered, Learning
        <4>2. k \in todo /\ Current(k) => k = h
          BY <2>2, OneCurrent DEF IInv, TypeOK
        <4> QED BY <2>4, <2>5, <4>1, <4>2
      <3>2. keytbl' = keytbl /\ info' = info
        BY <1>5 DEF FinishText
      <3> QED BY <2>1, <3>1, <3>2 DEF NamesNumbered, Learning
    <2> QED BY <2>6, <2>7, <2>8 DEF SInv
  <1> QED BY <1>1, <1>2, <1>3, <1>4, <1>5

\* Saving: each source that is named has a number.
LEMMA SavingSucceeds ==
    ASSUME TextsBringForms, AllInv, EInv, SInv, ExmacStep,
           OpenKey \/ SaveSources \/ SaveWord \/ OpenList \/ WriteList
    PROVE  SInv'
  <1> USE DEF AllInv
  <1>1. CASE OpenKey \/ SaveSources
    <2>1. /\ pc \in {"save", "saveSources"} /\ pc' \in {"saveSources", "saveWords"}
          /\ UNCHANGED <<listFile, listed, backup, outcome, damage, backupDamage,
                         headers, toList, todo>>
          /\ pc' = "saveWords" => keyFile'.shape = "divided"
          /\ UNCHANGED <<keytbl, info, pos>>
      BY <1>1 DEF OpenKey, SaveSources, ExmacStep, tables, work
    <2>2. FilesReady' /\ TextsNumbered' /\ ListKept'
      BY <2>1 DEF SInv, FilesReady, TextsNumbered, ListKept, RunsSucceed, Undoable, Reading,
                  Learning
    <2>3. NamesNumbered'
      BY <2>1 DEF SInv, NamesNumbered, Learning, Current, CurrentPlaces
    <2> QED BY <2>2, <2>3 DEF SInv
  <1>2. CASE SaveWord
    <2>1. /\ pc = "saveWords" /\ outcome = "none" /\ backupDamage = damage
          /\ UNCHANGED <<listFile, listed, backup, backupDamage>>
          /\ damage' = IF outcome' = "failed" THEN damage \cup {"counts", "typed"} ELSE damage
      BY <1>2 DEF SaveWord, ExmacStep, BInv, BackupFresh, Learning
    <2>2. ASSUME NEW w \in FormsIn(keytbl) PROVE Numbered(w)
      <3>1. todo = {}
        BY <2>1 DEF Learned
      <3>2. info[w].srcs \subseteq Sources(headers)
        BY <2>1, <3>1 DEF SInv, NamesNumbered, Learning
      <3> QED BY <3>2 DEF Numbered, Sources
    <2>3. \A s \in unread : keytbl[s] \in FormsIn(keytbl)
      BY <2>1 DEF IInv, Saving, FormsIn
    <2>4. /\ pc' = "saveWords" /\ outcome' = "none"
          /\ UNCHANGED <<headers, toList, todo, pos, keytbl, info>>
      BY <1>2, <2>1, <2>2, <2>3 DEF SaveWord, tables
    <2>5. keyFile'.shape = keyFile.shape
      <3>1. ~Ended("failed")
        BY <2>4 DEF Ended
      <3> QED BY <1>2, <3>1, SavedEntry
    <2>6. FilesReady' /\ TextsNumbered' /\ ListKept'
      BY <2>1, <2>4, <2>5
      DEF SInv, FilesReady, TextsNumbered, ListKept, RunsSucceed, Undoable, Reading, Learning
    <2>7. NamesNumbered'
      BY <2>1, <2>4 DEF SInv, NamesNumbered, Learning, Current, CurrentPlaces
    <2> QED BY <2>6, <2>7 DEF SInv
  <1>3. CASE OpenList
    <2>1. /\ pc = "saveWords" /\ unread = {} /\ pc' = "list" /\ outcome = "none"
          /\ UNCHANGED <<keyFile, listFile, toList, outcome, damage, backupDamage>>
      BY <1>3 DEF OpenList, AllWritten, ExmacStep, work, BInv, BackupFresh
    <2>2. ASSUME Sound(damage) PROVE Ready(keyFile, toList)
      <3>1. keyFile.shape = "divided" /\ keyFile.srcs = headers /\ todo = {}
        BY <2>1 DEF SInv, FilesReady, IInv, Saving, Learned
      <3>2. toList \subseteq Sources(headers)
        BY <2>1, <2>2, <3>1 DEF SInv, TextsNumbered, Learning
      <3>3. PICK h : h \in toList /\ h \in Headers
        BY <2>1 DEF BInv, NewToList, Learning, IInv, TypeOK
      <3>4. PICK w \in Forms : OwnForm(w, h)
        BY <3>3 DEF TextsBringForms
      <3>5. Occurrences(w, toList) # {}
        <4>1. PICK x : x \in Occurrences(w, {h})
          BY <3>4 DEF OwnForm
        <4>2. x \in Occurrences(w, toList)
          BY <3>3, <4>1, PlaceIn
        <4> QED BY <4>2
      <3>6. w \in FileForms(keyFile)
        BY <2>1, <2>2, <3>5, AllSaved DEF Accounts
      <3>7. DOMAIN keyFile.lines # {}
        BY <3>6 DEF FileForms
      <3>8. headers # << >>
        BY <3>2, <3>3 DEF Sources
      <3>9. LinesNameSources(keyFile)
        BY DEF IInv, WellFormed
      <3> QED BY <3>1, <3>2, <3>7, <3>8, <3>9 DEF Ready, Loadable, LinesNameSources
    <2> QED BY <2>1, <2>2
        DEF SInv, FilesReady, TextsNumbered, NamesNumbered, ListKept, RunsSucceed,
            Undoable, Reading, Learning
  <1>4. CASE WriteList
    <2>1. /\ pc = "list" /\ pc' = "idle" /\ outcome' = "done" /\ listed' = toList
          /\ UNCHANGED <<keyFile, listFile, damage>>
      BY <1>4 DEF WriteList, Ended, ExmacStep
    <2> QED BY <2>1
        DEF SInv, FilesReady, TextsNumbered, NamesNumbered, ListKept, RunsSucceed,
            Undoable, Reading, Learning
  <1> QED BY <1>1, <1>2, <1>3, <1>4

\* Clear Key, kills and the user leave files that can be loaded, or the damage is noted.
LEMMA OthersSucceed ==
    ASSUME AllInv, SInv, ClearStep \/ Kill \/ User \/ UNCHANGED vars
    PROVE  SInv'
  <1> USE DEF AllInv
  <1>1. CASE AddSource \/ UNCHANGED vars
    <2>1. UNCHANGED <<keyFile, listFile, listed, backup, pc, headers, toList, todo, pos,
                      newForms, outcome, keystr, damage, backupDamage, keytbl, info>>
      BY <1>1 DEF AddSource, vars, files, tables, work, history
    <2>2. \A w : CurrentPlaces(w)' = CurrentPlaces(w)
      BY <2>1 DEF CurrentPlaces, Current
    <2>3. \A g : Current(g)' <=> Current(g)
      BY <2>1 DEF Current
    <2>4. FilesReady' /\ ListKept'
      BY <2>1 DEF SInv, FilesReady, ListKept, RunsSucceed, Undoable
    <2>5. TextsNumbered'
      BY <2>1, <2>2, <2>3 DEF SInv, TextsNumbered
    <2>6. NamesNumbered'
      BY <2>1, <2>2, <2>3 DEF SInv, NamesNumbered
    <2> QED BY <2>4, <2>5, <2>6 DEF SInv
  <1>2. CASE AddManual
    <2>1. /\ pc = "idle" /\ pc' = "idle" /\ outcome' = "none"
          /\ UNCHANGED <<listFile, listed, damage>>
      BY <1>2 DEF AddManual
    <2>2. PICK w \in ManualWords : keyFile' = WithManual(keyFile, w)
      BY <1>2 DEF AddManual
    <2>3. FileOK(keyFile) /\ w \in Forms
      BY LifecycleAssumption DEF IInv, TypeOK, LinesFiled, WellFormed, FileOK
    <2>4. PICK x : /\ DOMAIN keyFile'.lines = DOMAIN keyFile.lines \cup {x}
                   /\ keyFile'.lines[x].freq = 0 /\ keyFile'.lines[x].ids = {}
                   /\ \A s \in DOMAIN keyFile.lines : keyFile'.lines[s] = keyFile.lines[s]
      BY <2>2, <2>3, TypedLine
    <2>5. /\ keyFile'.srcs = keyFile.srcs
          /\ keyFile'.shape = IF keyFile.shape = "blank" THEN "words" ELSE keyFile.shape
      BY <2>2 DEF WithManual
    <2>6. ASSUME Sound(damage) PROVE Ready(keyFile', listed)
      <3>1. Ready(keyFile, listed)
        BY <2>1, <2>6 DEF SInv, FilesReady
      <3>2. \A s \in DOMAIN keyFile'.lines :
               /\ Manual(keyFile'.lines[s]) <=> keyFile'.lines[s].ids = {}
               /\ keyFile'.lines[s].ids \subseteq DOMAIN keyFile'.srcs
        BY <2>4, <2>5, <3>1 DEF Ready, Loadable, Manual
      <3>3. DOMAIN keyFile'.lines # {}
        BY <2>4
      <3>4. keyFile'.shape = "divided" => keyFile'.srcs # << >>
        BY <2>5, <3>1 DEF Ready, Loadable
      <3> QED BY <2>5, <3>1, <3>2, <3>3, <3>4 DEF Ready, Loadable
    <2> QED BY <2>1, <2>6
        DEF SInv, FilesReady, TextsNumbered, NamesNumbered, ListKept, RunsSucceed,
            Undoable, Reading, Learning
  <1>3. CASE RestoreBackup
    <2>1. /\ pc = "idle" /\ pc' = "idle" /\ outcome' = "none" /\ keyFile' = backup
          /\ outcome \in {"failed", "killed"} /\ UNCHANGED <<listFile, listed>>
          /\ damage' = (damage \ {"counts", "typed"}) \cup backupDamage
      BY <1>3 DEF RestoreBackup
    <2>2. Sound(damage') => "list" \notin damage /\ Sound(backupDamage)
      BY <2>1 DEF Sound
    <2> QED BY <2>1, <2>2
        DEF SInv, FilesReady, TextsNumbered, NamesNumbered, ListKept, RunsSucceed,
            Undoable, Reading, Learning
  <1>4. CASE ClearOpen
    <2>1. /\ pc' = "clearKey" /\ outcome' = "none" /\ listFile' = listFile
          /\ keystr' = Cleared(keyFile)
      BY <1>4 DEF ClearOpen
    <2>2. Ready(Cleared(keyFile), {})
      <3>1. LinesNameSources(keyFile)
        BY DEF IInv, WellFormed
      <3>2. \A s \in Kept(keyFile) : keyFile.lines[s].ids = {} /\ s \in DOMAIN keyFile.lines
        BY <3>1 DEF Kept, LinesNameSources
      <3> QED BY <3>2 DEF Ready, Loadable, Cleared, ClearedShape, Kept
    <2> QED BY <2>1, <2>2
        DEF SInv, FilesReady, TextsNumbered, NamesNumbered, ListKept, RunsSucceed,
            Undoable, Reading, Learning
  <1>5. CASE ClearStep
    <2>1. CASE ClearWrite
      <3>1. /\ pc = "clearKey" /\ pc' = "clearList" /\ keyFile' = keystr
            /\ UNCHANGED <<listFile, outcome, backupDamage>>
        BY <2>1 DEF ClearWrite, history
      <3> QED BY <3>1
          DEF SInv, FilesReady, TextsNumbered, NamesNumbered, ListKept, RunsSucceed,
              Undoable, Reading, Learning
    <2>2. CASE ClearList
      <3>1. /\ pc = "clearList" /\ pc' = "idle" /\ keyFile' = keyFile
            /\ listFile' = TRUE /\ listed' = {} /\ outcome = "none"
            /\ UNCHANGED <<outcome, backupDamage>>
        BY <2>2 DEF ClearList, BInv, BackupFresh
      <3> QED BY <3>1
          DEF SInv, FilesReady, TextsNumbered, NamesNumbered, ListKept, RunsSucceed,
              Undoable, Reading, Learning
    <2> QED BY <1>5, <2>1, <2>2 DEF ClearStep
  <1>6. CASE Kill
    <2>1. /\ pc # "idle" /\ pc' = "idle"
          /\ UNCHANGED <<keyFile, listFile, listed, backup, backupDamage>>
          /\ outcome' = IF pc \in {"clearKey", "clearList"} THEN "none" ELSE "killed"
      BY <1>6 DEF Kill, Ended, files
    <2>2. /\ pc \in {"saveSources", "saveWords", "clearKey", "clearList", "list"} =>
                "counts" \in damage'
          /\ pc = "list" => "list" \in damage'
          /\ damage \subseteq damage'
          /\ pc \in Reading => damage' = damage
      BY <1>6 DEF Kill, Reading
    <2>3. pc \in {"idle", "load", "learn", "save", "saveSources", "saveWords",
                  "list", "clearKey", "clearList"}
      BY DEF IInv, TypeOK
    <2>4. Sound(damage') => pc \in Reading /\ damage' = damage
      BY <2>1, <2>2, <2>3 DEF Sound, Reading
    <2>5. Sound(damage') => Ready(keyFile, listed)
      BY <2>4 DEF SInv, FilesReady
    <2>6. outcome' = "killed" /\ "list" \notin damage' /\ Sound(backupDamage) =>
             Ready(backup, listed)
      BY <2>1, <2>2, <2>3 DEF SInv, FilesReady, Undoable, Reading, Learning
    <2>7. FilesReady'
      BY <2>1, <2>5, <2>6 DEF FilesReady, Undoable, Reading, Learning
    <2> QED BY <2>1, <2>7 DEF SInv, TextsNumbered, NamesNumbered, ListKept, RunsSucceed, Learning
  <1>7. CASE DropSource \/ DeleteList
    <2>1. /\ pc = "idle" /\ pc' = "idle" /\ outcome' = "none"
          /\ UNCHANGED <<keyFile, backup, damage, backupDamage>>
          /\ listed' \subseteq listed
          /\ "delete" \notin UserActs => listFile' = listFile
      BY <1>7 DEF DropSource, DeleteList
    <2>2. Ready(keyFile, listed) => Ready(keyFile, listed')
      BY <2>1 DEF Ready
    <2> QED BY <2>1, <2>2
        DEF SInv, FilesReady, TextsNumbered, NamesNumbered, ListKept, RunsSucceed,
            Undoable, Reading, Learning
  <1> QED BY <1>1, <1>2, <1>3, <1>4, <1>5, <1>6, <1>7 DEF User

LEMMA RunsKeepSucceeding ==
    ASSUME TypesOnce, TextsBringForms
    PROVE  Spec => []SInv
  <1>1. Init => SInv
    <2> SUFFICES ASSUME Init PROVE SInv
      OBVIOUS
    <2>1. Ready(Blank, {})
      BY EmptyTableFacts DEF Ready, Loadable, Blank
    <2> QED BY <2>1
        DEF Init, SInv, FilesReady, TextsNumbered, NamesNumbered, ListKept, RunsSucceed,
            Undoable, Reading, Learning
  <1>2. ASSUME AllInv, EInv, SInv, [Next]_vars PROVE SInv'
    <2>1. CASE ExmacStep
      BY <1>2, <2>1, ReadingSucceeds, SavingSucceeds DEF ExmacStep, Exmac
    <2>2. CASE ClearStep \/ Kill \/ User \/ UNCHANGED vars
      BY <1>2, <2>2, OthersSucceed
    <2> QED BY <1>2, <2>1, <2>2 DEF Next
  <1> QED BY <1>1, <1>2, BooksKept, EntriesJustified, PTL DEF Spec

\* A run of Exmacronize that starts from undamaged files does not end in an error, if each
\* text has a form that is in no other and is not typed: without one the text's source
\* gets no number at the end of exmacronize's loop, and savekey calls letterkey(nil).
\* Texts may be learned again, as long as sources.txt is there for readutf8 to return.
THEOREM RunsDoNotFail ==
    ASSUME TypesOnce, "delete" \notin UserActs, TextsBringForms
    PROVE  Spec => []RunsSucceed
  <1>1. SInv => RunsSucceed
    BY DEF SInv, ListKept
  <1> QED BY <1>1, RunsKeepSucceeding, PTL

\* What savekey and Clear Key leave is a key that loadkey gets through: its words section
\* is not empty, and each number in it is one of a source, even when the list of sources
\* has been deleted under it.
THEOREM KeyCanBeLoaded ==
    ASSUME TypesOnce, TextsBringForms
    PROVE  Spec => []KeyLoads
  <1>1. SInv => KeyLoads
    BY DEF SInv, FilesReady, KeyLoads, Settled, Sound, Ready
  <1> QED BY <1>1, RunsKeepSucceeding, PTL
----------------------------------------------------------------------------
(* Typed words stay. *)

LEMMA ExmacKeepsTyped ==
    ASSUME AllInv, TInv, ExmacStep
    PROVE  TInv'
  <1> USE DEF AllInv
  <1>1. typed' = typed
    BY DEF ExmacStep
  <1>2. CASE StartExmac
    <2>1. /\ pc = "idle" /\ pc' \in {"idle", "load"} /\ backup' = keyFile
          /\ keyFile' = keyFile /\ damage' = damage /\ backupDamage' = damage
      BY <1>2 DEF StartExmac, Ended, ExmacStep, files
    <2> QED BY <1>1, <2>1 DEF TInv, FilesHaveTyped, Undoable, Reading
  <1>3. CASE LoadLine \/ FindSources \/ LearnWord \/ FinishText \/ OpenKey \/ SaveSources
    <2>1. /\ pc \in Reading \cup {"saveSources"} /\ pc' # "clearKey"
          /\ UNCHANGED <<backup, damage, backupDamage>>
          /\ pc' \in {"idle"} \cup Reading => keyFile' = keyFile /\ pc \in Reading
          /\ pc' \notin {"list", "clearList"}
      BY <1>3 DEF LoadLine, FindSources, LearnWord, FinishText, OpenKey, SaveSources,
                  ExmacStep, Reading, Ended, files
    <2> QED BY <1>1, <2>1 DEF TInv, FilesHaveTyped, Undoable, Reading, Learning
  <1>4. CASE SaveWord
    <2>1. /\ pc = "saveWords" /\ UNCHANGED <<backup, backupDamage>> /\ outcome = "none"
          /\ \/ pc' = "saveWords"
             \/ pc' = "idle" /\ outcome' = "failed" /\ "typed" \in damage'
      BY <1>4 DEF SaveWord, ExmacStep, Ended, BInv, BackupFresh
    <2> QED BY <1>1, <2>1 DEF TInv, FilesHaveTyped, Undoable, Reading, Learning
  <1>5. CASE OpenList
    <2>1. /\ pc = "saveWords" /\ unread = {} /\ pc' = "list"
          /\ UNCHANGED <<keyFile, backup, damage, backupDamage>> /\ backupDamage = damage
      BY <1>5 DEF OpenList, AllWritten, ExmacStep, BInv, BackupFresh, Learning
    <2>2. FileForms(backup) \subseteq FileForms(keyFile)
      <3>1. FileForms(backup) \subseteq FormsIn(keytbl)
        BY <2>1 DEF BInv, LearnedSoFar, Learning
      <3>2. FormsIn(keytbl) \subseteq FileForms(keyFile)
        BY <2>1, AllSaved
      <3> QED BY <3>1, <3>2
    <2> QED BY <1>1, <2>1, <2>2 DEF TInv, FilesHaveTyped, Undoable, Reading, Learning
  <1>6. CASE WriteList
    <2>1. /\ pc = "list" /\ pc' = "idle" /\ outcome' = "done"
          /\ UNCHANGED <<keyFile, damage>>
      BY <1>6 DEF WriteList, Ended, ExmacStep
    <2> QED BY <1>1, <2>1 DEF TInv, FilesHaveTyped, Undoable, Reading, Learning
  <1> QED BY <1>2, <1>3, <1>4, <1>5, <1>6 DEF ExmacStep, Exmac

LEMMA OthersKeepTyped ==
    ASSUME TypedNotLearned, AllInv, EInv, TInv,
           ClearStep \/ Kill \/ User \/ UNCHANGED vars
    PROVE  TInv'
  <1> USE DEF AllInv
  <1>1. CASE AddSource \/ UNCHANGED vars
    <2>1. UNCHANGED <<typed, keyFile, backup, keystr, pc, outcome, damage, backupDamage>>
      BY <1>1 DEF AddSource, vars, files, history
    <2> QED BY <2>1 DEF TInv, FilesHaveTyped, Undoable
  <1>2. CASE AddManual
    <2>1. /\ pc = "idle" /\ pc' = "idle" /\ outcome' = "none" /\ damage' = damage
      BY <1>2 DEF AddManual
    <2>2. PICK w \in ManualWords : keyFile' = WithManual(keyFile, w) /\ typed' = typed \cup {w}
      BY <1>2 DEF AddManual
    <2>3. FileOK(keyFile) /\ w \in Forms
      BY LifecycleAssumption DEF IInv, TypeOK, LinesFiled, WellFormed, FileOK
    <2>4. FileForms(keyFile') = FileForms(keyFile) \cup {w}
      BY <2>2, <2>3, TypedLine
    <2> QED BY <2>1, <2>2, <2>4 DEF TInv, FilesHaveTyped, Undoable, Reading, Learning
  <1>3. CASE RestoreBackup
    <2>1. /\ pc = "idle" /\ pc' = "idle" /\ outcome' = "none" /\ keyFile' = backup
          /\ outcome \in {"failed", "killed"} /\ typed' = typed
          /\ backupDamage \subseteq damage'
      BY <1>3 DEF RestoreBackup
    <2> QED BY <2>1 DEF TInv, FilesHaveTyped, Undoable, Reading, Learning
  <1>4. CASE ClearOpen
    <2>1. /\ pc = "idle" /\ pc' = "clearKey" /\ keystr' = Cleared(keyFile)
          /\ UNCHANGED <<typed, damage>>
      BY <1>4 DEF ClearOpen, history
    <2>2. ASSUME NEW w \in typed, w \in FileForms(keyFile)
          PROVE  w \in FileForms(Cleared(keyFile))
      <3>1. PICK s \in DOMAIN keyFile.lines : keyFile.lines[s].form = w
        BY <2>2 DEF FileForms
      <3>2. w \in ManualWords
        BY DEF TInv
      <3>3. keyFile.lines[s].freq = 0
        BY <3>1, <3>2 DEF EInv, Justified, EntryOf, TypedNotLearned
      <3>4. s \in Kept(keyFile)
        BY <3>3 DEF Kept, Manual
      <3> QED BY <3>1, <3>4 DEF FileForms, Cleared
    <2> QED BY <2>1, <2>2 DEF TInv, FilesHaveTyped, Undoable, Reading, Learning
  <1>5. CASE ClearWrite
    <2>1. /\ pc = "clearKey" /\ pc' = "clearList" /\ keyFile' = keystr
          /\ UNCHANGED <<typed, damage>>
      BY <1>5 DEF ClearWrite, history
    <2> QED BY <2>1 DEF TInv, FilesHaveTyped, Undoable, Reading, Learning
  <1>6. CASE ClearList
    <2>1. /\ pc = "clearList" /\ pc' = "idle" /\ keyFile' = keyFile
          /\ outcome' = "none" /\ typed' = typed
          /\ "typed" \notin damage' => "typed" \notin damage
      BY <1>6 DEF ClearList, BInv, BackupFresh
    <2> QED BY <2>1 DEF TInv, FilesHaveTyped, Undoable, Reading, Learning
  <1>7. CASE Kill
    <2>1. /\ pc # "idle" /\ pc' = "idle" /\ UNCHANGED <<keyFile, backup, typed, backupDamage>>
          /\ outcome' = IF pc \in {"clearKey", "clearList"} THEN "none" ELSE "killed"
          /\ pc \in {"saveSources", "saveWords", "clearKey"} => "typed" \in damage'
          /\ damage \subseteq damage'
      BY <1>7 DEF Kill, Ended, files
    <2>2. pc \in {"idle", "load", "learn", "save", "saveSources", "saveWords",
                  "list", "clearKey", "clearList"}
      BY DEF IInv, TypeOK
    <2> QED BY <2>1, <2>2 DEF TInv, FilesHaveTyped, Undoable, Reading, Learning
  <1>8. CASE DropSource \/ DeleteList
    <2>1. /\ pc = "idle" /\ pc' = "idle" /\ outcome' = "none"
          /\ UNCHANGED <<keyFile, backup, typed, damage, backupDamage>>
      BY <1>8 DEF DropSource, DeleteList
    <2> QED BY <2>1 DEF TInv, FilesHaveTyped, Undoable, Reading, Learning
  <1> QED BY <1>1, <1>2, <1>3, <1>4, <1>5, <1>6, <1>7, <1>8 DEF User, ClearStep

\* A word that the user types into key.txt stays there, through learning, Clear Key, kills
\* and restored backups, unless a save or a Clear Key was stopped half-way, if no text has
\* the word: Clear Key drops each line with a tab, and a typed word that has been found in
\* a text is written with one.
THEOREM TypedWordsStay ==
    ASSUME TypesOnce, TypedNotLearned
    PROVE  Spec => []ManualKept
  <1>1. Init => TInv
    BY DEF Init, TInv, FilesHaveTyped
  <1>2. ASSUME AllInv, EInv, TInv, [Next]_vars PROVE TInv'
    BY <1>2, ExmacKeepsTyped, OthersKeepTyped DEF Next
  <1>3. TInv => ManualKept
    BY DEF TInv, FilesHaveTyped, ManualKept
  <1> QED BY <1>1, <1>2, <1>3, BooksKept, EntriesJustified, PTL DEF Spec
------------------------------------------------------------------------------
(* The names of the sources in the key file (module LetterKey). *)

\* Division by 26 as the solver needs it: quotient and remainder determine num.
LEMMA DivMod26 ==
    ASSUME NEW n \in Nat
    PROVE  /\ n \div 26 \in Nat /\ n % 26 \in 0..25
           /\ n = 26 * (n \div 26) + (n % 26)
  BY SMT

\* The digits Letterkey writes determine the number: quotient and factorial are
\* the digits of num in the numbering that counts from 1 to 26.
LEMMA Digits ==
    ASSUME NEW n \in Nat \ {0}
    PROVE  /\ Quotient(n) \in Nat /\ Factorial(n) \in 1..26
           /\ n = 26 * Quotient(n) + Factorial(n)
  BY DivMod26, SMT DEF Quotient, Factorial

\* A name is a letter and a number.
LEMMA NameType ==
    ASSUME NEW n \in Nat \ {0}
    PROVE  Letterkey(n) \in (Upper \cup Lower) \X Nat
  <1>1. Quotient(n) \in Nat /\ Factorial(n) \in 1..26
    BY Digits
  <1>2. LetterOf(n) \in Upper \cup Lower
    BY <1>1 DEF LetterOf, Upper, Lower
  <1>3. SuffixOf(n) \in Nat
    BY <1>1 DEF SuffixOf
  <1> QED BY <1>2, <1>3 DEF Letterkey

\* Two sources never share a name: letterkey is injective.
THEOREM LetterkeyInjective ==
    ASSUME NEW m \in Nat \ {0}, NEW n \in Nat \ {0}, Letterkey(m) = Letterkey(n)
    PROVE  m = n
  <1>1. LetterOf(m) = LetterOf(n) /\ SuffixOf(m) = SuffixOf(n)
    BY DEF Letterkey
  <1>2. /\ Quotient(m) \in Nat /\ Factorial(m) \in 1..26
        /\ Quotient(n) \in Nat /\ Factorial(n) \in 1..26
    BY Digits
  <1>3. Quotient(m) % 2 = Quotient(n) % 2 /\ Factorial(m) = Factorial(n)
    BY <1>1, <1>2 DEF LetterOf
  <1>4. Quotient(m) \div 2 = Quotient(n) \div 2
    BY <1>1, <1>2 DEF SuffixOf
  <1>5. Quotient(m) = Quotient(n)
    BY <1>2, <1>3, <1>4
  <1> QED BY <1>3, <1>5, Digits

LEMMA NumTyped == NumSpec => []NumOK
  <1>1. NumInit => NumOK
    BY LetterKeyAssumption DEF NumInit, FirstNum, NumOK
  <1>2. NumOK /\ [NumNext]_num => NumOK'
    BY LetterKeyAssumption DEF NumOK, NumNext
  <1> QED BY <1>1, <1>2, PTL DEF NumSpec

\* However many sources a key has, the newest has a name of its own.
THEOREM NamesStayDistinct == NumSpec => []NamesDistinct
  <1>1. NumOK => NamesDistinct
    BY LetterkeyInjective DEF NumOK, NamesDistinct
  <1> QED BY <1>1, NumTyped, PTL

\* However many sources a key has, each name can be read back.
THEOREM NamesStayReadable == NumSpec => []NamesReadable
  <1>1. NumOK => NamesReadable
    BY NameType DEF NumOK, NamesReadable
  <1> QED BY <1>1, NumTyped, PTL
=============================================================================
