----------------------------- MODULE Lifecycle -----------------------------
(***************************************************************************)
(* The life of a word key: runs of Exmacronize and of Clear Key (scripts/  *)
(* clearkey.lua) one after the other, what the documentation lets the user *)
(* do to the files around them, and a program that is stopped half-way.    *)
(*                                                                         *)
(* UserActs says which user actions a model allows:                        *)
(*   "manual"   type a new word at the end of key.txt (README.md)          *)
(*   "repeat"   type a word that key.txt has already                       *)
(*   "clear"    run Clear Key                                              *)
(*   "restore"  after a failed or killed Exmacronize, put its backup back  *)
(*   "drop"     delete the line of a source in sources.txt (its comment)   *)
(*   "delete"   delete sources.txt (its comment)                           *)
(*   "kill"     stop a program before it is done                           *)
(* "drop", "delete" and "kill" count as mishaps, of which a behaviour has  *)
(* at most MaxMishaps.                                                     *)
(***************************************************************************)
EXTENDS Exmacronize, FiniteSets

CONSTANTS ManualWords, UserActs, MaxMishaps

ASSUME LifecycleAssumption ==
    /\ ManualWords \subseteq Forms
    /\ UserActs \subseteq {"manual", "repeat", "clear", "restore", "drop", "delete",
                           "kill"}
    /\ MaxMishaps \in Nat

VARIABLES
    keystr,        \* clearkey.lua: what remains of the key file
    \* history: what the properties are stated in terms of
    typed,         \* the words the user has typed into key.txt
    damage,        \* what kills and failures have done to the files so far:
                   \* "counts" (the key is out of step with the list),
                   \* "typed" (typed words are lost), "list" (lines are lost)
    backupDamage,  \* the same for the backup
    mishaps        \* mishaps so far

history == <<typed, damage, backupDamage, mishaps>>
vars == <<files, backup, folder, pc, tables, work, outcome, keystr, history>>
----------------------------------------------------------------------------
Init ==
    /\ keyFile = Blank /\ backup = Blank
    /\ listFile = TRUE /\ listed = {} /\ folder = {}
    /\ pc = "idle" /\ outcome = "none"
    /\ keytbl = EmptyTable /\ info = EmptyTable /\ headers = << >>
    /\ unread = {} /\ toList = {} /\ todo = {} /\ pos = 1 /\ newForms = FALSE
    /\ keystr = Blank
    /\ typed = {} /\ damage = {} /\ backupDamage = {} /\ mishaps = 0

\* A step of Exmacronize.  A save that fails leaves a part of the key behind.
ExmacStep ==
    /\ Exmac
    /\ damage' = IF pc = "saveWords" /\ outcome' = "failed"
                 THEN damage \cup {"counts", "typed"} ELSE damage
    /\ backupDamage' = IF pc = "idle" THEN damage ELSE backupDamage
    /\ UNCHANGED <<keystr, typed, mishaps>>

\* Clear Key reads the key as text and opens it for writing, ...
ClearOpen ==
    /\ "clear" \in UserActs
    /\ pc = "idle" /\ pc' = "clearKey"
    /\ keystr' = Cleared(keyFile)
    /\ keyFile' = Blank
    /\ outcome' = "none"
    /\ UNCHANGED <<listFile, listed, backup, folder, tables, work, history>>

\* ... writes back what is left of it, ...
ClearWrite ==
    /\ pc = "clearKey" /\ pc' = "clearList"
    /\ keyFile' = keystr
    /\ UNCHANGED <<listFile, listed, backup, folder, tables, work, outcome,
                   keystr, history>>

\* ... and empties the source list.
ClearList ==
    /\ pc = "clearList" /\ pc' = "idle"
    /\ listFile' = TRUE /\ listed' = {}
    /\ keystr' = Blank
    /\ damage' = damage \ {"counts", "list"}
    /\ UNCHANGED <<keyFile, backup, folder, tables, work, outcome, typed,
                   backupDamage, mishaps>>

ClearStep == ClearWrite \/ ClearList

\* The window is closed or the power fails: the files stay as they are.
Kill ==
    /\ pc # "idle" /\ "kill" \in UserActs /\ mishaps < MaxMishaps
    /\ mishaps' = mishaps + 1
    /\ damage' = damage \cup
          CASE pc \in {"saveSources", "saveWords", "clearKey"} -> {"counts", "typed"}
            [] pc = "clearList" -> {"counts"}
            [] pc = "list" -> {"counts", "list"}
            [] OTHER -> {}
    /\ Ended(IF pc \in {"clearKey", "clearList"} THEN "none" ELSE "killed")
    /\ keystr' = Blank
    /\ UNCHANGED <<files, backup, folder, typed, backupDamage>>
----------------------------------------------------------------------------
\* A text is put into sources/, at any time.
AddSource ==
    /\ \E h \in Headers \ folder : folder' = folder \cup {h}
    /\ UNCHANGED <<files, backup, pc, tables, work, outcome, keystr, history>>

\* A word is typed at the end of key.txt.
AddManual ==
    /\ pc = "idle" /\ "manual" \in UserActs
    /\ \E w \in ManualWords :
          /\ w \notin FileForms(keyFile) \/ "repeat" \in UserActs
          /\ NextLine(keyFile, w) <= MaxPar
          /\ keyFile' = WithManual(keyFile, w)
          /\ typed' = typed \cup {w}
    /\ outcome' = "none"
    /\ UNCHANGED <<listFile, listed, backup, folder, pc, tables, work, keystr,
                   damage, backupDamage, mishaps>>

\* The backup of a failed or killed Exmacronize is copied over key.txt.
RestoreBackup ==
    /\ pc = "idle" /\ "restore" \in UserActs
    /\ outcome \in {"failed", "killed"}
    /\ keyFile' = backup
    /\ damage' = (damage \ {"counts", "typed"}) \cup backupDamage
    /\ outcome' = "none"
    /\ UNCHANGED <<listFile, listed, backup, folder, pc, tables, work, keystr,
                   typed, backupDamage, mishaps>>

\* The line of a source is deleted from sources.txt, to have it learned again.
DropSource ==
    /\ pc = "idle" /\ "drop" \in UserActs /\ mishaps < MaxMishaps
    /\ mishaps' = mishaps + 1
    /\ \E h \in listed : listed' = listed \ {h}
    /\ outcome' = "none"
    /\ UNCHANGED <<keyFile, listFile, backup, folder, pc, tables, work, keystr,
                   typed, damage, backupDamage>>

\* sources.txt is deleted, to have every text learned again.
DeleteList ==
    /\ pc = "idle" /\ "delete" \in UserActs /\ mishaps < MaxMishaps
    /\ mishaps' = mishaps + 1
    /\ listFile' = FALSE /\ listed' = {}
    /\ outcome' = "none"
    /\ UNCHANGED <<keyFile, backup, folder, pc, tables, work, keystr, typed,
                   damage, backupDamage>>

User == AddSource \/ AddManual \/ ClearOpen \/ RestoreBackup \/ DropSource
        \/ DeleteList

Next == ExmacStep \/ ClearStep \/ Kill \/ User

Spec == Init /\ [][Next]_vars

\* A program that has been started goes on, and the user runs Exmacronize when
\* there is a text it has not learned.
ExmacNeeded == ExmacStep /\ (pc = "idle" => NewTexts # {})

FairSpec == Spec /\ WF_vars(ExmacNeeded) /\ WF_vars(ClearStep)
----------------------------------------------------------------------------
\* Types: files, tables and bookkeeping hold what their readers expect.
TypeOK ==
    /\ IsKeyFile(keyFile) /\ IsKeyFile(backup) /\ IsKeyFile(keystr)
    /\ listFile \in BOOLEAN
    /\ listed \subseteq Headers /\ folder \subseteq Headers
    /\ pc \in {"idle", "load", "learn", "save", "saveSources", "saveWords",
               "list", "clearKey", "clearList"}
    /\ outcome \in {"none", "done", "failed", "killed"}
    /\ DOMAIN keytbl \subseteq Slot /\ \A s \in DOMAIN keytbl : keytbl[s] \in Forms
    /\ DOMAIN info \subseteq Forms
    /\ \A w \in DOMAIN info : info[w] \in [freq : Nat, srcs : SUBSET Headers]
    /\ headers \in Seq(Headers)
    /\ unread \subseteq Slot
    /\ toList \subseteq Headers /\ todo \subseteq Headers
    /\ pos \in Nat \ {0} /\ newForms \in BOOLEAN
    /\ typed \subseteq Forms
    /\ damage \subseteq {"counts", "typed", "list"}
    /\ backupDamage \subseteq {"counts", "typed", "list"}
    /\ mishaps \in 0..MaxMishaps

\* No program runs, and no kill or failure has put the key and the source list
\* out of step since the last Clear Key.
Settled == pc = "idle" /\ damage \subseteq {"typed"}

\* The places where form w occurs in the texts of the headers in S.
Occurrences(w, S) ==
    UNION {{h} \X {i \in DOMAIN Text[h] : Text[h][i] = w} : h \in S}

\* Between runs the frequency of each form in key.txt is the number of its
\* occurrences in the texts sources.txt lists: no text is counted twice or
\* forgotten, however learning, saving, clearing and restoring follow each other.
CountsExact == Settled =>
    \A w \in Forms : FileFreq(keyFile, w) = Cardinality(Occurrences(w, listed))

\* Between runs the source numbers of each line stand for exactly the listed
\* texts in which its form occurs, although numbers are given anew at each save.
SourcesExact == Settled =>
    \A w \in Forms : FileSources(keyFile, w) =
                        {h \in listed : Occurrences(w, {h}) # {}}

\* savekey never leaves a key.txt that loadkey cannot read back.
KeyLoads == Settled => Loadable(keyFile)

\* A run of Exmacronize that starts from files that nothing has damaged does
\* not fail.
RunsSucceed == outcome = "failed" => backupDamage # {}

\* A word the user typed into key.txt stays there, through learning and
\* Clear Key ("manual entries excepted", clearkey.lua).
ManualKept == pc = "idle" /\ "typed" \notin damage =>
                 typed \subseteq FileForms(keyFile)

\* No frequency in key.txt exceeds the number of occurrences in the texts that
\* are in sources/ (for the procedures that have a text learned again).
NeverOverCounted == Settled =>
    \A w \in Forms : FileFreq(keyFile, w) <= Cardinality(Occurrences(w, folder))

\* Learning a text again adds to what it has brought before, and takes nothing away: no
\* frequency is below the number of occurrences in the listed texts.
NeverUnderCounted == Settled =>
    \A w \in Forms : FileFreq(keyFile, w) >= Cardinality(Occurrences(w, listed))

\* The key never holds a form twice ("a list of unique word forms", README.md).
UniqueForms == OncePerForm(keytbl)

\* Every form in memory is visible to getpars: no gap in the numbering.
NoGaps == Dense(keytbl) /\ FiledUnderPlain(keytbl)

\* A source has one number, and each line of a key file, whole or cut short by a
\* kill, names only sources of the list above it; counted lines name some.
OneNumberEach(hs) == \A i, j \in DOMAIN hs : hs[i] = hs[j] => i = j

LinesNameSources(kf) ==
    \A s \in DOMAIN kf.lines : /\ kf.lines[s].ids \subseteq DOMAIN kf.srcs
                               /\ Manual(kf.lines[s]) <=> kf.lines[s].ids = {}

WellFormed ==
    /\ OneNumberEach(headers)
    /\ \A kf \in {keyFile, backup, keystr} : OneNumberEach(kf.srcs) /\ LinesNameSources(kf)

\* When sources.txt is rewritten, every text that is new to it has all its words
\* in key.txt: no kill can leave a text listed whose words were never saved.
SavedBeforeListed ==
    [][pc = "saveWords" /\ pc' = "list" =>
          \A h \in toList \ listed : \A i \in DOMAIN Text[h] :
             Text[h][i] \in FileForms(keyFile)]_vars

\* The key and the list as they count at a moment: Exmacronize has learned its texts when
\* it closes key.txt, Clear Key has done its work when it opens it.
KeyOf(kf) ==
    [w \in FileForms(kf) |-> [freq |-> FileFreq(kf, w), srcs |-> FileSources(kf, w)]]

KeyNow == KeyOf(CASE pc \in {"saveSources", "saveWords"} -> backup
                  [] pc = "clearKey" -> keystr
                  [] OTHER -> keyFile)

ListNow == CASE pc = "list" -> toList
             [] pc \in {"clearKey", "clearList"} -> {}
             [] OTHER -> listed

Account == INSTANCE Corpus WITH key <- KeyNow, listed <- ListNow,
                                sound <- damage \cap {"counts", "list"} = {}

\* With all its steps, files and failures the system does nothing but learn all new
\* texts at once, take typed words, and forget what was learned.
AccountKept == Account!Spec

\* Every run comes to an end.
RunsEnd == pc # "idle" ~> pc = "idle"

\* Every text put into sources/ is learned and listed at last.
EventuallyListed == \A h \in Headers : h \in folder ~> h \in listed
----------------------------------------------------------------------------
(***************************************************************************)
(* The inductive invariants behind the safety properties: what the steps   *)
(* of a run may rely on.  Their proofs are in module Lifecycle_proofs.     *)
(***************************************************************************)
\* In every copy of the key the lines stand under their plain words.
LinesFiled ==
    \A kf \in {keyFile, backup, keystr} : \A s \in DOMAIN kf.lines :
        PlainOf[kf.lines[s].form] = s[1]

\* Nothing is in memory unless Exmacronize runs.
AtRest ==
    pc \in {"idle", "clearKey", "clearList"} =>
        keytbl = EmptyTable /\ info = EmptyTable

\* Lines still unread stand after the numbers their plain words have so far.
Loading ==
    pc = "load" => /\ unread \subseteq DOMAIN keyFile.lines
                   /\ headers = keyFile.srcs
                   /\ \A s \in unread, t \in DOMAIN keytbl :
                         t[1] = s[1] => t[2] < s[2]

\* Every form of the key has an entry, and counted ones have sources.
Tallied ==
    /\ FormsIn(keytbl) \subseteq DOMAIN info
    /\ \A w \in DOMAIN info : info[w].freq = 0 <=> info[w].srcs = {}

\* What is written of the words so far belongs to the sources written before.
Saving ==
    pc = "saveWords" => unread \subseteq DOMAIN keytbl /\ keyFile.srcs = headers

IInv == /\ TypeOK /\ LinesFiled /\ AtRest /\ Loading /\ NoGaps /\ Tallied
        /\ Saving /\ WellFormed

\* For SavedBeforeListed: the words of the new texts learned so far are in the
\* key, and the lines written so far are in the file.
Learned ==
    /\ pc \in {"learn", "save", "saveSources", "saveWords"} =>
          \A h \in toList \ listed :
             \/ h \in todo
             \/ \A i \in DOMAIN Text[h] : Text[h][i] \in FormsIn(keytbl)
    /\ pc = "learn" =>
          \A h \in todo : Current(h) =>
             \A i \in DOMAIN Text[h] : i < pos => Text[h][i] \in FormsIn(keytbl)
    /\ pc # "learn" => pos = FirstPos
    /\ pc \in {"save", "saveSources", "saveWords"} => todo = {}

Written ==
    pc = "saveWords" =>
        \A s \in DOMAIN keytbl \ unread :
           s \in DOMAIN keyFile.lines /\ keyFile.lines[s].form = keytbl[s]

\* For UniqueForms, when the user repeats no word: no file has a form twice, the
\* forms read so far come from lines already read, and the lines written so far
\* are those of forms already written.
LinesUnique(kf) ==
    \A s, t \in DOMAIN kf.lines : kf.lines[s].form = kf.lines[t].form => s = t

UInv ==
    /\ \A kf \in {keyFile, backup, keystr} : LinesUnique(kf)
    /\ UniqueForms
    /\ pc = "load" =>
          \A t \in DOMAIN keytbl : \E s \in DOMAIN keyFile.lines \ unread :
             keyFile.lines[s].form = keytbl[t]
    /\ pc = "saveWords" =>
          \A s \in DOMAIN keyFile.lines :
             s \in DOMAIN keytbl \ unread /\ keyFile.lines[s].form = keytbl[s]
============================================================================
