------------------------------- MODULE Repair -------------------------------
(***************************************************************************)
(* Repair Key (scripts/fixkey.lua -repair): read the user's corrections    *)
(* from _repairs.txt, apply them to the key and to the texts in sources/,  *)
(* and remember them in data/repair-*.txt.                                 *)
(*                                                                         *)
(* _repairs.txt is the sequence of what its lines ask for, in the order of *)
(* its sections:                                                           *)
(*   "replace"  the form orig becomes repl, at the end (CUSTOM, the lists  *)
(*              of perfect subjunctives, hidden vowels and orthography)    *)
(*   "add"      the form orig is new (CUSTOM, "+ form" anywhere)           *)
(*   "multi"    orig becomes repl at once, and is not remembered           *)
(*   "abv", "enc"  orig becomes repl at once, in the key only              *)
(*   "ok"       orig is right (a cancelled line)                           *)
(*   "broken"   a line that ends the program with an error: a numbered     *)
(*              answer in AMBIGUITIES, any line of the first two auto      *)
(*              lists, an "x" in an OK list                                *)
(* Lines of the other automatic and OK lists do nothing.  A text is the    *)
(* sequence of its words; "at" tells where a word stands as far as         *)
(* replacesingle is concerned.  Enclitics are represented by one.          *)
(***************************************************************************)
EXTENDS WordKey, Sequences, FiniteSets, Functions

CONSTANTS
    Headers,       \* the source texts
    WithEnc,       \* WithEnc[w]: the form w with an enclitic
    MacronFirst,   \* the forms whose first letter has a macron
    StartKey,      \* the forms in key.txt at the beginning, by slot
    StartTexts,    \* what the texts may be at the beginning
    RepairFiles,   \* what the user may make of _repairs.txt
    UserActs,      \* "kill", "restore", "remove": what else may happen
    MaxRuns        \* bound: runs of Repair Key

Places == {"plain",     \* in lower case between spaces or punctuation
           "capital",   \* the same, capitalized
           "edge",      \* first or last word of the text, or before a period
           "comment"}   \* in a comment

Token == [form : Forms, at : Places]
Entry == [does : {"replace", "add", "multi", "abv", "enc", "ok", "broken"},
          orig : Forms, repl : Forms]

\* The key has been learned from the texts: each form that occurs, comments
\* excepted, is in it.
Learned(ts) ==
    \A h \in Headers : \A i \in DOMAIN ts[h] :
        ts[h][i].at # "comment" => ts[h][i].form \in FormsIn(StartKey)

\* A form is as good a host for an enclitic as the one it replaces.
TakesEnclitic(e) == e.orig \in DOMAIN WithEnc => e.repl \in DOMAIN WithEnc

ASSUME RepairAssumption ==
    /\ IsFiniteSet(Headers)
    /\ \A w \in DOMAIN WithEnc : w \in Forms /\ WithEnc[w] \in Forms
    /\ MacronFirst \subseteq Forms
    /\ DOMAIN StartKey \subseteq Slot /\ FormsIn(StartKey) \subseteq Forms
    /\ FiledUnderPlain(StartKey)
    /\ StartTexts \subseteq [Headers -> Seq(Token)]
    /\ \A ts \in StartTexts : Learned(ts)
    /\ RepairFiles \subseteq Seq(Entry)
    /\ \A f \in RepairFiles : \A i \in DOMAIN f : TakesEnclitic(f[i])
    /\ UserActs \subseteq {"kill", "restore", "remove"}
    /\ MaxRuns \in Nat

VARIABLES
    \* on disk
    keyFile,    \* data/key.txt: lines by slot
    texts,      \* sources/, by header
    hist,       \* data/repair-abbrev, -enclitic, -replace and -ok.txt
    repairs,    \* _repairs.txt
    backup,     \* the copies the last run has put into backup/
    \* in memory
    pc,         \* what the program does next
    entries,    \* lines of _repairs.txt still to be read
    keytbl,     \* macra.keytbl
    info,       \* macra.freqtbl and macra.headerstbl; a form may have none
    textstbl,   \* the texts
    repltbl,    \* the corrections of kind "replace"
    addtbl,     \* the forms to be added
    memory,     \* abvtbl, enctbl, autotbl, oktbl
    order,      \* the order in which pairs() goes through repltbl
    todo,       \* what is left of it, in the current loop
    \* how the last run ended
    outcome,    \* "none", "done", "failed", "killed"
    torn,       \* a program was stopped while it wrote the key or the texts
    runs

disk == <<keyFile, texts, hist>>
tables == <<keytbl, info, textstbl>>
lists == <<repltbl, addtbl, memory>>
vars == <<disk, repairs, backup, pc, entries, tables, lists, order, todo,
          outcome, torn, runs>>

NoHist == [abv |-> {}, enc |-> {}, auto |-> EmptyTable, ok |-> {}]
----------------------------------------------------------------------------
\* Where form w occurs, comments excepted: what Exmacronize counts.
Occurrences(w, ts) ==
    {o \in UNION {{h} \X DOMAIN ts[h] : h \in DOMAIN ts} :
        ts[o[1]][o[2]].form = w /\ ts[o[1]][o[2]].at # "comment"}

\* The line of a form that has been learned from texts ts.
LineOf(w, ts) == [form |-> w,
                  freq |-> Cardinality(Occurrences(w, ts)),
                  srcs |-> {o[1] : o \in Occurrences(w, ts)}]

\* loadkey: the lines of one plain word are numbered anew, without gaps.
Rank(lines, s) == Cardinality({t \in DOMAIN lines : t[1] = s[1] /\ t[2] < s[2]})

LoadedKey(lines) ==
    [s \in {<<t[1], Rank(lines, t)>> : t \in DOMAIN lines} |->
        lines[CHOOSE t \in DOMAIN lines : <<t[1], Rank(lines, t)>> = s].form]

LoadedInfo(lines) ==
    [w \in {lines[s].form : s \in DOMAIN lines} |->
        LET l == lines[CHOOSE s \in DOMAIN lines :
                          /\ lines[s].form = w
                          /\ \A t \in DOMAIN lines :
                                lines[t].form = w => t = s \/ Before(t, s)]
        IN  [freq |-> l.freq, srcs |-> l.srcs]]

\* loadrepairhistory: what has replaced a form is right.
LoadedHist == [hist EXCEPT !.ok = @ \cup Range(hist.auto)]

\* The lines savekey writes; a form without an entry is written as typed by hand.
SavedLines ==
    [s \in DOMAIN keytbl |->
        LET w == keytbl[s] IN
        IF w \in DOMAIN info THEN [form |-> w, freq |-> info[w].freq, srcs |-> info[w].srcs]
        ELSE [form |-> w, freq |-> 0, srcs |-> {}]]
----------------------------------------------------------------------------
\* Mutated form: the last slot is not emptied.
KeyRemove_lastStays(kt, p, n, count) ==
    [s \in DOMAIN kt |->
        IF s[1] = p /\ n <= s[2] /\ s[2] < count - 1 THEN kt[<<p, s[2] + 1>>] ELSE kt[s]]

\* macra.keyremove: the form in slot n goes, those above it move down; count is
\* the number of parallels the caller has found before.
KeyRemove(kt, p, n, count) ==
    [s \in DOMAIN kt \ {<<p, count - 1>>} |->
        IF s[1] = p /\ n <= s[2] /\ s[2] < count - 1 THEN kt[<<p, s[2] + 1>>] ELSE kt[s]]

\* A form becomes part of the key, unless getpars finds it there.
WithForm(kt, w) == IF w \in Parallels(kt, PlainOf[w]) THEN kt
                   ELSE Store(kt, GetNextKey(kt, PlainOf[w]), w)

\* Bound: the model has a number for form w.
Fits(kt, w) == w \in Parallels(kt, PlainOf[w]) \/ HasRoom(kt, PlainOf[w])

\* The slot getpars reports for form w of the key: the last one that has it.
SlotNumber(kt, w) ==
    CHOOSE n \in 0..(ParCount(kt, PlainOf[w]) - 1) :
       /\ kt[<<PlainOf[w], n>>] = w
       /\ \A m \in (n + 1)..(ParCount(kt, PlainOf[w]) - 1) : kt[<<PlainOf[w], m>>] # w

\* replaceword on the key: repl goes in first, and orig out with the slot and
\* the number of parallels found before that.
Rekeyed(kt, orig, repl) ==
    KeyRemove(WithForm(kt, repl), PlainOf[orig], SlotNumber(kt, orig),
              ParCount(kt, PlainOf[orig]))

\* Mutated form: the replacement gets the entry of orig as it is.
Merged_overwrite(inf, orig, repl) ==
    [w \in (DOMAIN inf \ {orig}) \cup {repl} |-> IF w = repl THEN inf[orig] ELSE inf[w]]

\* The frequencies and sources of orig go to repl.
Merged(inf, orig, repl) ==
    LET had == IF repl \in DOMAIN inf THEN inf[repl] ELSE [freq |-> 0, srcs |-> {}]
    IN  [w \in (DOMAIN inf \ {orig}) \cup {repl} |->
            IF w = repl THEN [freq |-> had.freq + inf[orig].freq,
                              srcs |-> had.srcs \cup inf[orig].srcs]
            ELSE inf[w]]

\* replacesingle: every match is replaced up to the first one in a comment.
Stopped(t, i, orig) == \E j \in 1..i : t[j] = [form |-> orig, at |-> "comment"]

\* Mutated form: only the first match is replaced.
Retoken_first(t, i, orig, repl) ==
    CASE t[i] = [form |-> orig, at |-> "plain"] /\ \A j \in 1..(i - 1) : t[j] # t[i] ->
            [form |-> repl, at |-> "plain"]
      [] OTHER -> t[i]

\* The capitalized form is searched for with its first byte capitalized, which a
\* letter with a macron survives unchanged; so does the replacement's.
Retoken(t, i, orig, repl) ==
    CASE t[i] = [form |-> orig, at |-> "plain"] /\ ~Stopped(t, i, orig) ->
            [form |-> repl, at |-> "plain"]
      [] t[i] = [form |-> orig, at |-> "capital"] /\ orig \notin MacronFirst ->
            [form |-> repl, at |-> IF repl \in MacronFirst THEN "plain" ELSE "capital"]
      [] OTHER -> t[i]

ReplaceInText(t, orig, repl) == [i \in DOMAIN t |-> Retoken(t, i, orig, repl)]

\* In every text that has orig: orig, and orig with an enclitic.
Retexted(ts, inf, orig, repl) ==
    [h \in DOMAIN ts |->
        IF h \notin inf[orig].srcs THEN ts[h]
        ELSE LET t == ReplaceInText(ts[h], orig, repl) IN
             IF orig \in DOMAIN WithEnc
             THEN ReplaceInText(t, WithEnc[orig], WithEnc[repl]) ELSE t]
----------------------------------------------------------------------------
\* A program has ended: its memory is gone.
Ended(how) ==
    /\ pc' = "idle" /\ outcome' = how
    /\ entries' = << >> /\ keytbl' = EmptyTable /\ info' = EmptyTable
    /\ textstbl' = EmptyTable /\ repltbl' = EmptyTable /\ addtbl' = << >>
    /\ memory' = NoHist /\ order' = << >> /\ todo' = << >>

\* An error, before anything has been written.
Failed == Ended("failed") /\ UNCHANGED disk

\* replaceword.  A form that is not in the key is reported and left; a form
\* without frequency and sources, a source without a text, and a form replaced by
\* itself end the program.
ReplaceWord(orig, repl, inTexts) ==
    IF orig \notin Parallels(keytbl, PlainOf[orig]) THEN UNCHANGED tables
    ELSE /\ orig \in DOMAIN info /\ orig # repl
         /\ inTexts => info[orig].srcs \subseteq DOMAIN textstbl
         /\ Fits(keytbl, repl)
         /\ keytbl' = Rekeyed(keytbl, orig, repl)
         /\ info' = Merged(info, orig, repl)
         /\ textstbl' = IF inTexts THEN Retexted(textstbl, info, orig, repl) ELSE textstbl

CannotReplace(orig, repl, inTexts) ==
    /\ orig \in Parallels(keytbl, PlainOf[orig])
    /\ \/ orig \notin DOMAIN info
       \/ orig = repl
       \/ inTexts /\ ~(info[orig].srcs \subseteq DOMAIN textstbl)

StartRepair ==
    /\ pc = "idle" /\ runs < MaxRuns
    /\ pc' = "read" /\ runs' = runs + 1 /\ outcome' = "none"
    /\ backup' = [key |-> keyFile, texts |-> texts, torn |-> torn]
    /\ keytbl' = LoadedKey(keyFile) /\ info' = LoadedInfo(keyFile)
    /\ textstbl' = texts /\ memory' = LoadedHist
    /\ entries' = repairs
    /\ UNCHANGED <<disk, repairs, repltbl, addtbl, order, todo, torn>>
----------------------------------------------------------------------------
\* loadrepairsfile: what each kind of line does.
Asks(kind) == pc = "read" /\ entries # << >> /\ Head(entries).does = kind

ReadReplace ==
    /\ Asks("replace")
    /\ repltbl' = Store(repltbl, Head(entries).orig, Head(entries).repl)
    /\ UNCHANGED <<disk, pc, tables, addtbl, memory, order, todo, outcome>>

ReadAdd ==
    /\ Asks("add")
    /\ addtbl' = Append(addtbl, Head(entries).orig)
    /\ UNCHANGED <<disk, pc, tables, repltbl, memory, order, todo, outcome>>

ReadOk ==
    /\ Asks("ok")
    /\ memory' = [memory EXCEPT !.ok = @ \cup {Head(entries).orig}]
    /\ UNCHANGED <<disk, pc, tables, repltbl, addtbl, order, todo, outcome>>

ReadMulti ==
    /\ Asks("multi")
    /\ ReplaceWord(Head(entries).orig, Head(entries).repl, TRUE)
    /\ UNCHANGED <<disk, pc, lists, order, todo, outcome>>

ReadAbv ==
    /\ Asks("abv")
    /\ memory' = [memory EXCEPT !.abv = @ \cup {Head(entries).orig}]
    /\ ReplaceWord(Head(entries).orig, Head(entries).repl, FALSE)
    /\ UNCHANGED <<disk, pc, repltbl, addtbl, order, todo, outcome>>

ReadEnc ==
    /\ Asks("enc")
    /\ memory' = [memory EXCEPT !.enc = @ \cup {Head(entries).orig}]
    /\ ReplaceWord(Head(entries).orig, Head(entries).repl, FALSE)
    /\ UNCHANGED <<disk, pc, repltbl, addtbl, order, todo, outcome>>

ReadEntry ==
    /\ ReadReplace \/ ReadAdd \/ ReadOk \/ ReadMulti \/ ReadAbv \/ ReadEnc
    /\ entries' = Tail(entries)

ReadFails ==
    /\ pc = "read" /\ entries # << >>
    /\ LET e == Head(entries) IN
          \/ e.does = "broken"
          \/ e.does = "multi" /\ CannotReplace(e.orig, e.repl, TRUE)
          \/ e.does \in {"abv", "enc"} /\ CannotReplace(e.orig, e.repl, FALSE)
    /\ Failed

\* Mutated form: known plain words are skipped.
Added_newPlainOnly(kt, w) ==
    IF <<PlainOf[w], 0>> \in DOMAIN kt THEN kt ELSE Store(kt, <<PlainOf[w], 0>>, w)

\* addword
Added(kt, w) == WithForm(kt, w)

AddWord ==
    /\ pc = "read" /\ entries = << >> /\ addtbl # << >>
    /\ Fits(keytbl, Head(addtbl))
    /\ keytbl' = Added(keytbl, Head(addtbl))
    /\ addtbl' = Tail(addtbl)
    /\ UNCHANGED <<disk, pc, entries, info, textstbl, repltbl, memory, order, todo,
                   outcome>>

\* pairs() may go through repltbl in any order, and does so in the same one each
\* time.
StartMerge ==
    /\ pc = "read" /\ entries = << >> /\ addtbl = << >>
    /\ \E o \in Bijection(1..Cardinality(DOMAIN repltbl), DOMAIN repltbl) :
          order' = o /\ todo' = o
    /\ pc' = "merge"
    /\ UNCHANGED <<disk, entries, tables, lists, outcome>>
----------------------------------------------------------------------------
\* a -> b, b -> c: a takes the replacement of b, and b's is dropped.
Chained(t, o) == o \in DOMAIN t /\ t[o] \in DOMAIN t

MergeChain ==
    /\ pc = "merge" /\ todo # << >>
    /\ LET o == Head(todo) IN
       repltbl' = IF Chained(repltbl, o)
                  THEN [x \in DOMAIN repltbl \ {repltbl[o]} |->
                           IF x = o THEN repltbl[repltbl[o]] ELSE repltbl[x]]
                  ELSE repltbl
    /\ todo' = Tail(todo)
    /\ UNCHANGED <<disk, pc, entries, tables, addtbl, memory, order, outcome>>

\* The phases after a loop over repltbl.
NextPhase(phase) == CASE phase = "merge"   -> "replace"
                      [] phase = "replace" -> "record"
                      [] phase = "record"  -> "openKey"

NextLoop ==
    /\ pc \in {"merge", "replace", "record"} /\ todo = << >>
    /\ pc' = NextPhase(pc)
    /\ todo' = IF pc = "record" THEN << >> ELSE order
    /\ UNCHANGED <<disk, entries, tables, lists, order, outcome>>

ReplaceOne ==
    /\ pc = "replace" /\ todo # << >>
    /\ \/ Head(todo) \notin DOMAIN repltbl /\ UNCHANGED tables
       \/ /\ Head(todo) \in DOMAIN repltbl
          /\ ReplaceWord(Head(todo), repltbl[Head(todo)], TRUE)
    /\ todo' = Tail(todo)
    /\ UNCHANGED <<disk, pc, entries, lists, order, outcome>>

ReplaceFails ==
    /\ pc = "replace" /\ todo # << >>
    /\ Head(todo) \in DOMAIN repltbl
    /\ CannotReplace(Head(todo), repltbl[Head(todo)], TRUE)
    /\ Failed

\* Mutated form: the two sides are swapped.
Recorded_swapped(m, o, r) ==
    [m EXCEPT !.ok = (@ \ {o}) \cup {r}, !.auto = Store(@, r, o)]

Recorded(m, o, r) ==
    [m EXCEPT !.ok = (@ \ {o}) \cup {r}, !.auto = Store(@, o, r)]

RecordOne ==
    /\ pc = "record" /\ todo # << >>
    /\ memory' = IF Head(todo) \in DOMAIN repltbl
                 THEN Recorded(memory, Head(todo), repltbl[Head(todo)]) ELSE memory
    /\ todo' = Tail(todo)
    /\ UNCHANGED <<disk, pc, entries, tables, repltbl, addtbl, order, outcome>>
----------------------------------------------------------------------------
\* savekey: opening key.txt empties it.
OpenKey ==
    /\ pc = "openKey" /\ pc' = "saveKey"
    /\ keyFile' = EmptyTable
    /\ UNCHANGED <<texts, hist, entries, tables, lists, order, todo, outcome>>

SaveKey ==
    /\ pc = "saveKey" /\ pc' = "texts"
    /\ keyFile' = SavedLines
    /\ UNCHANGED <<texts, hist, entries, tables, lists, order, todo, outcome>>

\* The texts are written one after the other, in any order.
SaveText ==
    /\ pc = "texts"
    /\ \E h \in DOMAIN textstbl : /\ texts[h] # textstbl[h]
                                  /\ texts' = [texts EXCEPT ![h] = textstbl[h]]
    /\ UNCHANGED <<keyFile, hist, pc, entries, tables, lists, order, todo, outcome>>

\* All texts are written; the four history files are next.
SaveHistory ==
    /\ pc = "texts" /\ texts = textstbl
    /\ hist' = memory
    /\ Ended("done")
    /\ UNCHANGED <<keyFile, texts>>

RepairStep ==
    /\ \/ ReadEntry \/ ReadFails \/ AddWord \/ StartMerge \/ MergeChain \/ NextLoop
       \/ ReplaceOne \/ ReplaceFails \/ RecordOne
       \/ OpenKey \/ SaveKey \/ SaveText \/ SaveHistory
    /\ UNCHANGED <<repairs, backup, torn, runs>>
----------------------------------------------------------------------------
\* The user edits _repairs.txt.
EditRepairs ==
    /\ pc = "idle" /\ runs < MaxRuns
    /\ \E f \in RepairFiles : repairs' = f
    /\ outcome' = "none"
    /\ UNCHANGED <<disk, backup, pc, entries, tables, lists, order, todo, torn, runs>>

\* A text is taken out of sources/.
RemoveText ==
    /\ pc = "idle" /\ "remove" \in UserActs
    /\ \E h \in DOMAIN texts : texts' = [g \in DOMAIN texts \ {h} |-> texts[g]]
    /\ UNCHANGED <<keyFile, hist, repairs, backup, pc, entries, tables, lists, order,
                   todo, outcome, torn, runs>>

\* The program is stopped.
Kill ==
    /\ pc # "idle" /\ "kill" \in UserActs
    /\ torn' = (torn \/ pc = "saveKey" \/ (pc = "texts" /\ texts # textstbl))
    /\ Ended("killed")
    /\ UNCHANGED <<disk, repairs, backup, runs>>

\* The backups of a stopped run are copied back.
RestoreBackup ==
    /\ pc = "idle" /\ "restore" \in UserActs /\ outcome = "killed"
    /\ keyFile' = backup.key /\ texts' = backup.texts
    /\ outcome' = "none" /\ torn' = backup.torn
    /\ UNCHANGED <<hist, repairs, backup, pc, entries, tables, lists, order, todo, runs>>

Init ==
    /\ texts \in StartTexts
    /\ keyFile = [s \in DOMAIN StartKey |-> LineOf(StartKey[s], texts)]
    /\ hist = NoHist /\ repairs = << >>
    /\ backup = [key |-> keyFile, texts |-> texts, torn |-> FALSE]
    /\ pc = "idle" /\ outcome = "none" /\ torn = FALSE /\ runs = 0
    /\ entries = << >> /\ keytbl = EmptyTable /\ info = EmptyTable
    /\ textstbl = EmptyTable /\ repltbl = EmptyTable /\ addtbl = << >>
    /\ memory = NoHist /\ order = << >> /\ todo = << >>

Next == StartRepair \/ RepairStep \/ EditRepairs \/ RemoveText \/ Kill \/ RestoreBackup

Spec == Init /\ [][Next]_vars
----------------------------------------------------------------------------
TypeOK ==
    /\ \A kt \in {keyFile, keytbl} : DOMAIN kt \subseteq Slot
    /\ FormsIn(keytbl) \subseteq Forms
    /\ \A s \in DOMAIN keyFile :
          keyFile[s] \in [form : Forms, freq : Nat, srcs : SUBSET Headers]
    /\ \A w \in DOMAIN info : info[w] \in [freq : Nat, srcs : SUBSET Headers]
    /\ \A ts \in {texts, textstbl} :
          DOMAIN ts \subseteq Headers /\ \A h \in DOMAIN ts : ts[h] \in Seq(Token)
    /\ pc \in {"idle", "read", "merge", "replace", "record", "openKey", "saveKey", "texts"}
    /\ outcome \in {"none", "done", "failed", "killed"}

\* No program runs, and none has been stopped while it wrote the key or texts.
Settled == pc = "idle" /\ ~torn

FileForms == {keyFile[s].form : s \in DOMAIN keyFile}

\* What loadkey would make of form w.
Loaded(w) == IF w \in FileForms THEN LoadedInfo(keyFile)[w] ELSE [freq |-> 0, srcs |-> {}]

\* After repairs, in whatever order pairs() takes them, the frequency and the
\* sources of each form are those learning the repaired texts would give.
TextsAgree ==
    Settled /\ DOMAIN texts = Headers =>
        \A w \in Forms : /\ Loaded(w).freq = LineOf(w, texts).freq
                          /\ Loaded(w).srcs = LineOf(w, texts).srcs

\* Corrections move occurrences from one form to another: none is lost or counted
\* twice, also where the key and the texts are corrected differently.
Tally == UNION {{w} \X (1..Loaded(w).freq) : w \in Forms}

AllOccurrences == UNION {Occurrences(w, texts) : w \in Forms}

CountsConserved ==
    Settled /\ DOMAIN texts = Headers => Cardinality(Tally) = Cardinality(AllOccurrences)

\* A form the user has had replaced is in the key no longer.
CorrectionsMade ==
    outcome = "done" => \A i \in DOMAIN repairs :
        repairs[i].does = "replace" => repairs[i].orig \notin FileForms

\* A form the user has added is in the key.
AddedKept ==
    outcome = "done" => \A i \in DOMAIN repairs :
        repairs[i].does = "add" => repairs[i].orig \in FileForms

\* What repair-replace.txt says has been replaced is gone from the key, wherever a
\* program was stopped and whichever backup was put back.
HistoryTrue == Settled => \A o \in DOMAIN hist.auto : o \notin FileForms

\* "a list of unique word forms" (README.md)
UniqueForms == \A s, t \in DOMAIN keyFile : keyFile[s].form = keyFile[t].form => s = t

\* No word is "on both OK and auto-replace lists" (saverepairhistory).
ListsDisjoint == \A o \in DOMAIN hist.auto : o \notin hist.ok

\* A correction in the form the instructions in _repairs.txt describe does not make
\* the program fail.
RepairsSucceed == outcome # "failed"
============================================================================
