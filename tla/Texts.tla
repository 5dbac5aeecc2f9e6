-------------------------------- MODULE Texts --------------------------------
(***************************************************************************)
(* The programs that rewrite the texts in macronize/ one after the other:  *)
(* Remove Macrons, Remove Flags, Hyphens to Macrons (scripts/remmac.lua,   *)
(* remflag.lua, hyph2mac.lua) and Macronize (scripts/mac.lua), with what   *)
(* they share: macra.gettexts, which knows a text by its first line, and   *)
(* macra.backup, which knows a copy by the second in which it was made.    *)
(*                                                                         *)
(* Only where a text comes from and what has been done to it since is      *)
(* kept of it.  Module Scan says what Macronize does inside a text.        *)
(***************************************************************************)
EXTENDS Integers, Sequences, FiniteSets, Functions

CONSTANTS
    Files, Folders, Root,
    Listing,        \* what a folder has in it, in the order of "dir /b"
    Stem,           \* the name of a file without folder and extension
    Header(_, _),   \* the first line of a file's text after some conversions, cut
                    \* to MAX_HEADER characters
    Blank,          \* files that may have nothing but blank lines
    Unfit,          \* files on whose text Macronize fails
    Nobody, NoHeader,
    MaxRuns, MaxTime

Utilities == {"remmac", "remflag", "hyph2mac"}
Programs == Utilities \cup {"macronize"}

ASSUME TextsAssumption ==
    /\ Root \in Folders /\ Files \cap Folders = {}
    /\ Listing \in [Folders -> Seq(Files \cup Folders)]
    /\ Blank \subseteq Files /\ Unfit \subseteq Files /\ Nobody \notin Files
    /\ MaxRuns \in Nat /\ MaxTime \in Nat

\* Folders nest: there is a number of entries in the folders below each.  Whatever there
\* is can be reached from the root.
ASSUME FoldersAssumption ==
    /\ IsFiniteSet(Files) /\ IsFiniteSet(Folders)
    /\ \E below \in [Folders -> 0..Cardinality(Files \cup Folders)] :
          \A d \in Folders :
             /\ below[d] + Len(Listing[d]) <= Cardinality(Files \cup Folders)
             /\ \A e \in Folders \cap Range(Listing[d]) : below[e] + Len(Listing[e]) <= below[d]
    /\ \A e \in (Files \cup Folders) \ {Root} : \E d \in Folders : e \in Range(Listing[d])

VARIABLES
    content,    \* on disk: the text in each file of macronize/
    backups,    \*          the texts in backup/, by name
    now,        \* os.date(), in seconds
    program,    \* the program that runs, or ran last
    pc,         \* "idle", "take", "backup", "copy", "open", "write"
    outcome,    \* of the last run: "none", "done", "failed", "killed"
    textstbl, filenamestbl,   \* from headers to texts and to files
    todo, header,             \* the headers still to come, and the current one
    \* history
    runs,       \* the runs so far
    before,     \* the texts when the last run began
    replaced    \* the texts the programs have emptied files of, with the program

memory == <<textstbl, filenamestbl, todo, header>>
history == <<runs, before, replaced>>
vars == <<content, backups, now, program, pc, outcome, memory, history>>
----------------------------------------------------------------------------
\* A text: the file it was given in and what has been done to it.
Empty == [of |-> Nobody, steps |-> << >>]
BlankLines == [of |-> Nobody, steps |-> <<"blank">>]
Given(f) == [of |-> f, steps |-> << >>]

Converted(text) ==
    IF text = Empty THEN Empty ELSE [text EXCEPT !.steps = Append(@, program)]

HeaderOf(text) == IF text = Empty THEN NoHeader ELSE Header(text.of, text.steps)

\* t[x] = v
Store(t, x, v) == [y \in DOMAIN t \cup {x} |-> IF y = x THEN v ELSE t[y]]

\* glue.merge(t, s): the fields of s that t does not have are added to t.
Merged(t, s) == [x \in DOMAIN t \cup DOMAIN s |-> IF x \in DOMAIN t THEN t[x] ELSE s[x]]

\* Both tables of gettexts.
NoTexts == [texts |-> << >>, names |-> << >>]

\* A file takes its header from any file that had it.
WithFile(found, f, text) ==
    LET h == HeaderOf(text)
    IN  [texts |-> Store(found.texts, h, text), names |-> Store(found.names, h, f)]

\* Mutated form: the names of a subfolder come first.
MergedNames_over(names, subnames) == Merged(subnames, names)

\* glue.merge(filenamestbl, subftbl)
MergedNames(names, subnames) == Merged(names, subnames)

\* Mutated form: subfolders are not read.
WithFolder_ignored(found, sub) == found

\* A subfolder has only the headers that were not there before.
WithFolder(found, sub) ==
    [texts |-> Merged(found.texts, sub.texts),
     names |-> MergedNames(found.names, sub.names)]

\* How far gettexts has come in a folder: the number of entries it has read.
Stages == UNION {{d} \X (0..Len(Listing[d])) : d \in Folders}
Whole(d) == <<d, Len(Listing[d])>>

\* What it has found at a stage, given what it has found before.
FoundAt(files, found, p) ==
    LET e == Listing[p[1]][p[2]]
        earlier == found[<<p[1], p[2] - 1>>]
    IN  IF p[2] = 0 THEN NoTexts
        ELSE IF e \in Folders THEN WithFolder(earlier, found[Whole(e)])
        ELSE WithFile(earlier, e, files[e])

\* macra.gettexts
Collected(files) ==
    LET found[p \in Stages] == FoundAt(files, found, p) IN found[Whole(Root)]

\* Mutated form: backups are told apart by text and program only.
BackupName_undated(f) == <<0, Stem[f], program>>

\* The name macra.backup gives: it drops the folder, and .txt only after a folder.
CopyName(f) == IF f \in Range(Listing[Root]) THEN <<Stem[f], ".txt">> ELSE Stem[f]
BackupName(f) == <<now, CopyName(f), program>>
----------------------------------------------------------------------------
Init ==
    /\ \E blank \in SUBSET Blank :
          content = [f \in Files |-> IF f \in blank THEN BlankLines ELSE Given(f)]
    /\ backups = << >> /\ now = 0
    /\ program = "macronize" /\ pc = "idle" /\ outcome = "none"
    /\ textstbl = << >> /\ filenamestbl = << >> /\ todo = {} /\ header = NoHeader
    /\ runs = 0 /\ before = content /\ replaced = {}

\* A program has ended: its memory is gone.
Stops(how) ==
    /\ pc' = "idle" /\ outcome' = how
    /\ textstbl' = << >> /\ filenamestbl' = << >> /\ todo' = {} /\ header' = NoHeader

\* The user starts a program, some time after the last, and it reads all texts.
\* glue.trim fails on the line behind the last of a blank text.
Start(u) ==
    /\ pc = "idle" /\ runs < MaxRuns
    /\ runs' = runs + 1 /\ now' = now + 1
    /\ program' = u /\ before' = content
    /\ IF \E f \in Files : content[f] = BlankLines THEN Stops("failed")
       ELSE LET found == Collected(content)
            IN  /\ textstbl' = found.texts /\ filenamestbl' = found.names
                /\ todo' = DOMAIN found.texts
                /\ pc' = "take" /\ outcome' = "none"
                /\ UNCHANGED header
    /\ UNCHANGED <<content, backups, replaced>>

\* Macronize takes no backups.
BacksUp == program \in Utilities

\* The next text, in the order of pairs.  Macronize converts it in memory first.
Take(h) ==
    /\ pc = "take" /\ h \in todo
    /\ IF program = "macronize" /\ textstbl[h].of \in Unfit THEN Stops("failed")
       ELSE /\ header' = h
            /\ pc' = IF BacksUp THEN "backup" ELSE "open"
            /\ UNCHANGED <<outcome, textstbl, filenamestbl, todo>>
    /\ UNCHANGED <<content, backups, now, program, history>>

\* macra.backup: opening the copy empties what has the same name.
OpenBackup ==
    /\ pc = "backup" /\ pc' = "copy"
    /\ backups' = Store(backups, BackupName(filenamestbl[header]), Empty)
    /\ UNCHANGED <<content, now, program, outcome, memory, history>>

\* The clock has not been read again: the name is still that of the open file.
WriteBackup ==
    /\ pc = "copy" /\ pc' = "open"
    /\ backups' = Store(backups, BackupName(filenamestbl[header]), textstbl[header])
    /\ UNCHANGED <<content, now, program, outcome, memory, history>>

\* io.open(..., "w") empties the file, ...
OpenText ==
    /\ pc = "open" /\ pc' = "write"
    /\ LET f == filenamestbl[header]
       IN  /\ content' = [content EXCEPT ![f] = Empty]
           /\ replaced' = replaced \cup {[text |-> content[f], by |-> program]}
    /\ UNCHANGED <<backups, now, program, outcome, memory, runs, before>>

\* ... and the text is written into it.
WriteText ==
    /\ pc = "write" /\ pc' = "take"
    /\ content' = [content EXCEPT ![filenamestbl[header]] = Converted(textstbl[header])]
    /\ todo' = todo \ {header} /\ header' = NoHeader
    /\ UNCHANGED <<backups, now, program, outcome, textstbl, filenamestbl, history>>

End ==
    /\ pc = "take" /\ todo = {}
    /\ Stops("done")
    /\ UNCHANGED <<content, backups, now, program, history>>

\* A second passes between two texts.
Tick ==
    /\ pc = "take" /\ now < MaxTime
    /\ now' = now + 1
    /\ UNCHANGED <<content, backups, program, pc, outcome, memory, history>>

\* The window is closed or the power fails.
Kill ==
    /\ pc # "idle" /\ Stops("killed")
    /\ UNCHANGED <<content, backups, now, program, history>>

Next == \/ \E u \in Programs : Start(u)
        \/ \E h \in todo : Take(h)
        \/ OpenBackup \/ WriteBackup \/ OpenText \/ WriteText \/ End \/ Tick \/ Kill

Spec == Init /\ [][Next]_vars
----------------------------------------------------------------------------
IsText(text) ==
    text \in {Empty, BlankLines} \/ (text.of \in Files /\ text.steps \in Seq(Programs))

\* Types: the two tables have the same headers, the work left is part of them.
TypeOK ==
    /\ DOMAIN content = Files /\ \A f \in Files : IsText(content[f])
    /\ \A n \in DOMAIN backups : IsText(backups[n])
    /\ now \in Nat /\ runs \in 0..MaxRuns
    /\ program \in Programs
    /\ pc \in {"idle", "take", "backup", "copy", "open", "write"}
    /\ outcome \in {"none", "done", "failed", "killed"}
    /\ DOMAIN textstbl = DOMAIN filenamestbl
    /\ todo \subseteq DOMAIN textstbl
    /\ pc \in {"backup", "copy", "open", "write"} => header \in todo

\* However a run ends, by itself, with an error in some text or by a kill, each file
\* has its own text, as it was or converted once; only the file that was being written
\* when the program was killed is empty.
WholeTexts ==
    LET broken == {f \in Files : content[f] \notin {before[f], Converted(before[f])}}
    IN  \/ broken = {}
        \/ /\ pc = "write" \/ outcome = "killed"
           /\ \E f \in broken : broken = {f} /\ content[f] = Empty

\* Whatever a utility has replaced is in backup/ ("A backup file of each text is
\* created", README), whenever it was killed and whatever was run since.
NothingLost ==
    \A r \in replaced : r.by \in Utilities => \E n \in DOMAIN backups : backups[n] = r.text

\* The files that have the header of file f.
Namesakes(f) == {g \in Files : HeaderOf(before[g]) = HeaderOf(before[f])}

\* A run that ends by itself has converted exactly one of the texts with the same first
\* line and has left the others alone, in whatever folders they are.
OneOfEach ==
    outcome = "done" =>
        \A f \in Files : \E g \in Namesakes(f) :
            /\ content[g] = Converted(before[g])
            /\ \A k \in Namesakes(f) \ {g} : content[k] = before[k]

\* All texts are converted ("apply to all texts in the macronize/ folder", README).
EachConverted ==
    outcome = "done" => \A f \in Files : content[f] = Converted(before[f])

\* Macronize backs texts up too (README, "Macronizing a text").
EachBackedUp ==
    \A r \in replaced : \E n \in DOMAIN backups : backups[n] = r.text
----------------------------------------------------------------------------
(* The inductive invariant (proofs in module Texts_proofs). *)

\* What gettexts has found are texts of files with their own headers, and all headers.
TablesRight ==
    pc # "idle" =>
        /\ DOMAIN textstbl = DOMAIN filenamestbl
        /\ \A h \in DOMAIN textstbl : /\ filenamestbl[h] \in Files
                                      /\ textstbl[h] = before[filenamestbl[h]]
                                      /\ HeaderOf(textstbl[h]) = h
        /\ \A f \in Files : HeaderOf(before[f]) \in DOMAIN textstbl
        /\ todo \subseteq DOMAIN textstbl
        /\ pc # "take" => header \in todo

\* The files that the run is done with.
Finished == {filenamestbl[h] : h \in DOMAIN textstbl \ todo}

\* The texts in them are converted, and the others are as they were.
FilesInOrder ==
    pc # "idle" =>
        \A f \in Files :
            content[f] = IF f \in Finished THEN Converted(before[f])
                         ELSE IF pc = "write" /\ f = filenamestbl[header] THEN Empty
                         ELSE before[f]

\* No copy has a name that the clock has yet to reach, or that of a text to come.
NamesFree ==
    /\ now \in Nat
    /\ \A n \in DOMAIN backups : n[1] \in 0..now
    /\ pc # "idle" =>
          \A h \in todo : pc \in {"take", "backup"} \/ h # header =>
                              BackupName(filenamestbl[h]) \notin DOMAIN backups

\* What has been replaced is in a copy that is not being written, and what is about to be
\* replaced has its copy.
CopiesMade ==
    /\ \A r \in replaced : r.by \in Utilities =>
          \E n \in DOMAIN backups :
              /\ backups[n] = r.text
              /\ pc = "copy" => n # BackupName(filenamestbl[header])
    /\ pc = "open" /\ BacksUp =>
          /\ BackupName(filenamestbl[header]) \in DOMAIN backups
          /\ backups[BackupName(filenamestbl[header])] = textstbl[header]

IInv == DOMAIN content = Files /\ TablesRight /\ FilesInOrder /\ NamesFree /\ CopiesMade
============================================================================
