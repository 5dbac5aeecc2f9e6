---------------------------- MODULE Bookkeeping ----------------------------
(***************************************************************************)
(* The inductive invariants behind what the life of the key promises.      *)
(* BInv: the key covers the list (NeverUnderCounted), if the user types no *)
(* word twice; and they agree (CountsExact, SourcesExact, AccountKept), if *)
(* he has no text learned again either. SInv with EInv: runs succeed       *)
(* (RunsSucceed, KeyLoads). TInv with EInv: typed words stay (ManualKept). *)
(* The proofs are in module Lifecycle_proofs.                              *)
(***************************************************************************)
EXTENDS Lifecycle

\* What the user does not do: type a word twice; nor have a text learned again.
TypesOnce == "repeat" \notin UserActs
CarefulUser == UserActs \cap {"repeat", "drop", "delete"} = {}

\* What a kill or a failure has done leaves counts and list in step.
Sound(d) == d \cap {"counts", "list"} = {}

\* The entry of a form that has been found in a set of places.
EntryFor(places) == [freq |-> Cardinality(places), srcs |-> {x[1] : x \in places}]

\* An entry covers these places: it is not below their account, and is their account
\* unless texts are learned again.
Covers(e, places) ==
    /\ EntryFor(places).freq <= e.freq /\ EntryFor(places).srcs \subseteq e.srcs
    /\ CarefulUser => e = EntryFor(places)

\* What loadkey makes of a line.
EntryOf(kf, s) ==
    [freq |-> kf.lines[s].freq, srcs |-> {kf.srcs[i] : i \in kf.lines[s].ids}]

\* The lines of a key file account for the texts in S.
Accounts(kf, S) ==
    /\ \A s \in DOMAIN kf.lines : Covers(EntryOf(kf, s), Occurrences(kf.lines[s].form, S))
    /\ \A w \in Forms : Occurrences(w, S) # {} => w \in FileForms(kf)

\* The places where Exmacronize has found form w so far: the texts it is done with, and
\* the current one up to the current word.
CurrentPlaces(w) ==
    UNION {{h} \X {i \in DOMAIN Text[h] : i < pos /\ Text[h][i] = w} :
              h \in {g \in todo : Current(g)}}

Places(w) == Occurrences(w, toList \ todo) \cup CurrentPlaces(w)
----------------------------------------------------------------------------
Reading == {"load", "learn", "save"}
Learning == {"learn", "save", "saveSources", "saveWords"}

\* A run whose backup may yet be put back: one that goes on, or has failed.
Undoable == \/ pc \in Reading \cup Learning
            \/ pc = "idle" /\ outcome \in {"failed", "killed"}

\* The files: the key accounts for the list, the backup of a run that may have to be
\* undone for the list as it was, what Clear Key leaves for none.
FileAccounts ==
    /\ pc \in {"idle"} \cup Reading /\ Sound(damage) => Accounts(keyFile, listed)
    /\ Undoable /\ "list" \notin damage /\ Sound(backupDamage) =>
          Accounts(backup, listed)
    /\ pc = "list" /\ Sound(damage) => Accounts(keyFile, toList)
    /\ pc = "clearKey" => Accounts(keystr, {})
    /\ pc = "clearList" => Accounts(keyFile, {})

\* Until a run writes the key, the backup is a copy of it.
BackupFresh ==
    /\ pc \in Reading => keyFile = backup
    /\ pc = "idle" /\ outcome \in {"failed", "killed"} /\ Sound(damage) => keyFile = backup
    /\ pc \in Reading \cup Learning => backupDamage = damage
    /\ pc # "idle" => outcome = "none"

\* Only finitely many texts are there.
FewTexts == IsFiniteSet(folder) /\ IsFiniteSet(listed) /\ IsFiniteSet(toList)

\* The texts a run learns are those that were not listed, and there are some.
NewToList ==
    pc \in Learning => /\ todo \subseteq toList \ listed /\ listed \subseteq toList
                       /\ toList # listed

\* While the key is read, the tables hold the lines read so far.
ReadSoFar ==
    pc = "load" => /\ \A s \in DOMAIN keyFile.lines \ unread :
                         keyFile.lines[s].form \in FormsIn(keytbl)
                   /\ FormsIn(keytbl) \subseteq FileForms(keyFile)
                   /\ Sound(damage) => \A w \in FormsIn(keytbl) :
                                          Covers(info[w], Occurrences(w, listed))

\* While texts are learned and the key is saved, they hold in addition what was found.
LearnedSoFar ==
    pc \in Learning =>
        /\ FileForms(backup) \subseteq FormsIn(keytbl)
        /\ \A w \in FormsIn(keytbl) : w \in FileForms(backup) \/ Places(w) # {}
        /\ Sound(damage) =>
              /\ \A w \in FormsIn(keytbl) : Covers(info[w], Places(w))
              /\ \A w \in Forms : Places(w) # {} => w \in FormsIn(keytbl)

\* The lines written so far have the entries of their forms, whose sources have numbers.
SavedSoFar ==
    pc = "saveWords" =>
        \A s \in DOMAIN keytbl \ unread :
           /\ s \in DOMAIN keyFile.lines
           /\ keyFile.lines[s] = LineOf(keytbl[s]) /\ Numbered(keytbl[s])

BInv == /\ FileAccounts /\ BackupFresh /\ FewTexts /\ NewToList /\ ReadSoFar
        /\ LearnedSoFar /\ SavedSoFar
----------------------------------------------------------------------------
\* A form without a frequency was typed, one with a frequency is in a text; and it is in
\* each of its sources.
Justified(w, e) ==
    /\ IF e.freq = 0 THEN w \in ManualWords ELSE Occurrences(w, Headers) # {}
    /\ \A h \in e.srcs : Occurrences(w, {h}) # {}

EInv ==
    /\ \A kf \in {keyFile, backup, keystr} : \A s \in DOMAIN kf.lines :
          Justified(kf.lines[s].form, EntryOf(kf, s))
    /\ \A w \in FormsIn(keytbl) : Justified(w, info[w])
----------------------------------------------------------------------------
(***************************************************************************)
(* Why runs succeed: behind RunsSucceed and KeyLoads.  They hold if, in    *)
(* addition, every text has a form of its own.                             *)
(***************************************************************************)
OwnForm(w, h) == /\ w \in Forms \ ManualWords
                 /\ Occurrences(w, {h}) # {}
                 /\ Occurrences(w, Headers \ {h}) = {}

TextsBringForms == \A h \in Headers : \E w \in Forms : OwnForm(w, h)

Sources(hs) == {hs[i] : i \in DOMAIN hs}

\* loadkey gets through, and every text in S has a number.
Ready(kf, S) == Loadable(kf) /\ S \subseteq Sources(kf.srcs)

\* The same moments as in FileAccounts.
FilesReady ==
    /\ pc \in {"idle"} \cup Reading /\ Sound(damage) => Ready(keyFile, listed)
    /\ Undoable /\ "list" \notin damage /\ Sound(backupDamage) => Ready(backup, listed)
    /\ pc = "list" /\ Sound(damage) => Ready(keyFile, toList)
    /\ pc = "clearKey" => Ready(keystr, {})
    /\ pc = "clearList" => Ready(keyFile, {})
    /\ pc = "saveWords" => keyFile.shape = "divided"

\* When its own form has been found, a text has brought a new form, or it was learned
\* before and has its number; the texts that the run is done with have numbers.
TextsNumbered ==
    /\ pc \in Learning /\ Sound(damage) => toList \ todo \subseteq Sources(headers)
    /\ pc = "learn" =>
          \A h \in todo : \A w \in Forms :
             Current(h) /\ OwnForm(w, h) /\ CurrentPlaces(w) # {} =>
                newForms \/ h \in Sources(headers)

\* A source of a form has a number, or is the current text and has the form up to here.
NamesNumbered ==
    /\ pc = "load" => \A w \in FormsIn(keytbl) : info[w].srcs \subseteq Sources(headers)
    /\ pc \in Learning =>
          \A w \in FormsIn(keytbl) : \A h \in info[w].srcs :
             \/ h \in Sources(headers)
             \/ h \in todo /\ Current(h) /\ CurrentPlaces(w) # {}

\* Without a list a run fails; the user deletes it, nobody else.
ListKept == "delete" \notin UserActs => listFile /\ RunsSucceed

SInv == FilesReady /\ TextsNumbered /\ NamesNumbered /\ ListKept
----------------------------------------------------------------------------
(***************************************************************************)
(* Why typed words stay: behind ManualKept, which holds if no text has a   *)
(* word that the user types.                                               *)
(***************************************************************************)
TypedNotLearned == \A w \in ManualWords : Occurrences(w, Headers) = {}

\* Each file that may become the key has the typed words.
FilesHaveTyped ==
    /\ pc \in {"idle", "list", "clearList"} \cup Reading /\ "typed" \notin damage =>
          typed \subseteq FileForms(keyFile)
    /\ Undoable \/ pc = "list" =>
          ("typed" \notin backupDamage => typed \subseteq FileForms(backup))
    /\ pc = "clearKey" /\ "typed" \notin damage => typed \subseteq FileForms(keystr)

TInv == typed \subseteq ManualWords /\ FilesHaveTyped
============================================================================
