---------------------------- MODULE Exmacronize ----------------------------
(***************************************************************************)
(* One run of scripts/exmac.lua: load the word key, learn the words of     *)
(* every source text not yet in the source list, save the key, write the   *)
(* source list.                                                            *)
(*                                                                         *)
(* The files are separate from the memory of the running program, and are  *)
(* written in the order and in the pieces the code writes them: opening a  *)
(* file for writing empties it, and each line of the key is its own step.  *)
(* A source text is the sequence of words formatsource leaves of it.       *)
(***************************************************************************)
EXTENDS KeyFile

CONSTANT Text   \* Text[h]: the words of the source text with header h

ASSUME ExmacAssumption == Text \in [Headers -> Seq(Forms)]

VARIABLES
    \* on disk
    keyFile,    \* data/key.txt
    backup,     \* the copy of it that the last run put into backup/
    listFile,   \* data/sources.txt is there
    listed,     \* the headers in data/sources.txt
    folder,     \* the headers of the texts in sources/
    \* in the memory of the running program
    pc,         \* what it does next; "idle" when no program runs
    keytbl,     \* macra.keytbl
    info,       \* macra.freqtbl and macra.headerstbl, which are set together
    headers,    \* macra.headersbynumtbl
    unread,     \* slots of the lines still to be read, or still to be written
    toList,     \* the headers that go into sources.txt at the end
    todo,       \* the headers of newsourcestbl still to be learned
    pos,        \* the word of the current text to be learned next
    newForms,   \* results[NEWCOUNT][header] > 0 for the current text
    \* how the last run ended
    outcome     \* "none", "done", "failed" (a Lua error) or "killed"

files  == <<keyFile, listFile, listed>>
tables == <<keytbl, info, headers>>
work   == <<unread, toList, todo, pos, newForms>>

\* Mutated form: sources are looked for only when none is listed.
NewTexts_firstRunOnly == IF listed = {} THEN folder ELSE {}

\* What gettexts collects: the texts whose header is not in sources.txt.
NewTexts == folder \ listed

\* Mutated form: the old headers are not merged in.
SourcesToList_newOnly == folder \ listed

\* What sources.txt will list: its old headers and those of the new texts.
SourcesToList == listed \cup folder

\* Mutated form: no text qualifies.
Current_strict(h) == h \in todo /\ \A g \in todo : h < g

\* The text being learned: glue.sortedpairs goes through the headers in order.
Current(h) == h \in todo /\ \A g \in todo : h <= g

\* Mutated form: the header is added for new forms only.
Recount_noHeader(w, h) == [freq |-> info[w].freq + 1, srcs |-> info[w].srcs]

\* Mutated form: the frequency starts again in each text.
Recount_anew(w, h) ==
    [freq |-> IF h \in info[w].srcs THEN info[w].freq + 1 ELSE 1,
     srcs |-> info[w].srcs \cup {h}]

\* The entry of a known form when it occurs once more, in text h.
Recount(w, h) == [freq |-> info[w].freq + 1, srcs |-> info[w].srcs \cup {h}]

\* Mutated form: existingheaderstbl is not looked at.
NeedsNumber_again(h) == newForms

\* A text gets a number only if it brought a new form and has none yet.
NeedsNumber(h) == newForms /\ \A i \in DOMAIN headers : headers[i] # h

\* Mutated form: curheadernum starts at #headersbynumtbl.
WithSource_overwrite(h) ==
    IF headers = << >> THEN <<h>> ELSE [headers EXCEPT ![Len(headers)] = h]

\* headersbynumtbl[curheadernum] = header
WithSource(h) == Append(headers, h)

\* Mutated form: counting starts at 0.
FirstPos_zero == 0

\* The first match of text:gmatch(LETTERS).
FirstPos == 1

\* Mutated form: sources.txt is written without waiting for the key.
AllWritten_early == TRUE

\* savekey has gone through the whole of keytbl.
AllWritten == unread = {}
----------------------------------------------------------------------------
\* A program has ended: its memory is gone.
Ended(how) ==
    /\ pc' = "idle" /\ outcome' = how
    /\ keytbl' = EmptyTable /\ info' = EmptyTable /\ headers' = << >>
    /\ unread' = {} /\ toList' = {} /\ todo' = {}
    /\ pos' = FirstPos /\ newForms' = FALSE

\* macra.initialize: the key is read and backed up before its lines are looked at.
StartExmac ==
    /\ pc = "idle"
    /\ backup' = keyFile
    /\ IF Loadable(keyFile)
       THEN /\ pc' = "load" /\ outcome' = "none"
            /\ headers' = keyFile.srcs
            /\ unread' = DOMAIN keyFile.lines
            /\ UNCHANGED <<keytbl, info, toList, todo, pos, newForms>>
       ELSE Ended("failed")
    /\ UNCHANGED <<files, folder>>

\* loadkey, one line: each line gets the next number of its plain word, whether
\* or not its form is there already; the form's frequency and sources are
\* those of the line read last.
LoadLine ==
    /\ pc = "load"
    /\ \E s \in unread :
          /\ FirstSlot(s, unread)
          /\ LET l == keyFile.lines[s] IN
                /\ keytbl' = Store(keytbl, GetNextKey(keytbl, PlainOf[l.form]), l.form)
                /\ info' = Store(info, l.form,
                                 [freq |-> l.freq,
                                  srcs |-> {keyFile.srcs[i] : i \in l.ids}])
          /\ unread' = unread \ {s}
    /\ UNCHANGED <<files, backup, folder, pc, headers, toList, todo, pos,
                   newForms, outcome>>

\* sources.txt is read and the new texts are collected.  A missing sources.txt
\* is created empty, but readutf8 returns nil for it and the run fails.
FindSources ==
    /\ pc = "load" /\ unread = {}
    /\ listFile' = TRUE
    /\ IF ~listFile THEN Ended("failed")
       ELSE IF NewTexts = {} THEN Ended("done")
       ELSE /\ pc' = "learn"
            /\ todo' = NewTexts
            /\ toList' = SourcesToList
            /\ UNCHANGED <<tables, unread, pos, newForms, outcome>>
    /\ UNCHANGED <<keyFile, listed, backup, folder>>

\* exmacronize, one word: a form not among the parallels of its plain word gets
\* the next number, frequency 1 and this source; a known one is counted.
LearnWord ==
    /\ pc = "learn"
    /\ \E h \in todo :
          /\ Current(h) /\ pos <= Len(Text[h])
          /\ LET w == Text[h][pos]
                 p == PlainOf[w]
             IN \/ /\ w \notin Parallels(keytbl, p)
                   /\ HasRoom(keytbl, p)
                   /\ keytbl' = Store(keytbl, GetNextKey(keytbl, p), w)
                   /\ info' = Store(info, w, [freq |-> 1, srcs |-> {h}])
                   /\ newForms' = TRUE
                \/ /\ w \in Parallels(keytbl, p)
                   /\ info' = Store(info, w, Recount(w, h))
                   /\ UNCHANGED <<keytbl, newForms>>
    /\ pos' = pos + 1
    /\ UNCHANGED <<files, backup, folder, pc, headers, unread, toList, todo, outcome>>

\* The end of a text.
FinishText ==
    /\ pc = "learn"
    /\ \E h \in todo :
          /\ Current(h) /\ pos > Len(Text[h])
          /\ headers' = IF NeedsNumber(h) THEN WithSource(h) ELSE headers
          /\ todo' = todo \ {h}
          /\ pc' = IF todo = {h} THEN "save" ELSE "learn"
    /\ pos' = FirstPos /\ newForms' = FALSE
    /\ UNCHANGED <<files, backup, folder, keytbl, info, unread, toList, outcome>>
----------------------------------------------------------------------------
\* savekey: opening key.txt for writing empties it.
OpenKey ==
    /\ pc = "save"
    /\ keyFile' = Blank
    /\ pc' = "saveSources"
    /\ UNCHANGED <<listFile, listed, backup, folder, tables, work, outcome>>

\* The sources and the divider.
SaveSources ==
    /\ pc = "saveSources"
    /\ keyFile' = [shape |-> "divided", srcs |-> headers, lines |-> EmptyTable]
    /\ unread' = DOMAIN keytbl
    /\ pc' = "saveWords"
    /\ UNCHANGED <<listFile, listed, backup, folder, tables, toList, todo, pos,
                   newForms, outcome>>

\* Every source of form w has a number; without one, letterkey(nil) fails.
Numbered(w) == info[w].freq > 0 =>
                  \A h \in info[w].srcs : \E i \in DOMAIN headers : headers[i] = h

LineOf(w) ==
    [form |-> w, freq |-> info[w].freq,
     ids  |-> IF info[w].freq = 0 THEN {}
              ELSE {i \in DOMAIN headers : headers[i] \in info[w].srcs}]

\* One line of the words section, in the order of the slots.
SaveWord ==
    /\ pc = "saveWords"
    /\ \E s \in unread :
          /\ FirstSlot(s, unread)
          /\ IF Numbered(keytbl[s])
             THEN /\ keyFile' = [keyFile EXCEPT !.lines =
                                    Store(@, s, LineOf(keytbl[s]))]
                  /\ unread' = unread \ {s}
                  /\ UNCHANGED <<tables, toList, todo, pos, newForms, pc, outcome>>
             ELSE Ended("failed") /\ UNCHANGED keyFile
    /\ UNCHANGED <<listFile, listed, backup, folder>>

\* The key is closed and sources.txt opened for writing, which empties it.
OpenList ==
    /\ pc = "saveWords" /\ AllWritten
    /\ listed' = {}
    /\ pc' = "list"
    /\ UNCHANGED <<keyFile, listFile, backup, folder, tables, work, outcome>>

WriteList ==
    /\ pc = "list"
    /\ listed' = toList
    /\ Ended("done")
    /\ UNCHANGED <<keyFile, listFile, backup, folder>>

Exmac == \/ StartExmac \/ LoadLine \/ FindSources \/ LearnWord \/ FinishText
         \/ OpenKey \/ SaveSources \/ SaveWord \/ OpenList \/ WriteList
============================================================================
