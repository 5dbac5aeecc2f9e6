# Specifications of Maccer

Maccer adds macrons to Latin texts. It learns macron forms from texts that have
macrons already and keeps them in a *word key*, `data/key.txt`. It is a set of Lua
scripts, started one at a time by the user; each reads the files it needs into
memory, works, writes files, and ends. These modules model the key, the programs that
learn, clear, analyze and repair it, and those that give macrons to texts or take them
away, as TLA+ specifications that TLC checks on small instances and whose main invariants
TLAPS proves.

## 1. Inventory

### Files and state

| file | kept by | content |
|---|---|---|
| `data/key.txt` | Exmacronize, Repair Key, Clear Key, the user | numbered list of source headers, a divider, one line per form: form, frequency, names of the sources; a line typed by the user has the form only |
| `data/sources.txt` | Exmacronize, Clear Key, the user | the headers of the texts that have been learned |
| `sources/*.txt` | the user, Repair Key | the texts with macrons |
| `_repairs.txt` | Analyze Key, the user | doubtful forms, section by section, with the user's corrections |
| `data/repair-*.txt` | Analyze Key, Repair Key | history: abbreviations, enclitics, automatic replacements, forms that are right |
| `backup/` | all but Clear Key | a copy of what a program is about to change |
| `macronize/*.txt` | the user, Macronize, the utilities | texts to be given macrons |

In memory, `macra.keytbl` maps a plain word followed by a number (`hoc`, `hoc1`, ...)
to a macron form; `freqtbl` and `headerstbl` map a form to its frequency and sources;
`headersbynumtbl` is the numbered list of headers.

### Components

| component | operations | state | what makes it correct | hard because |
|---|---|---|---|---|
| word key (`macra.lua` 476-530) | `getpars`, `getnextkey`, `keyremove`, insertion | `keytbl` | no gap in the numbering of parallels, one slot per form, forms under their plain words | readers stop at the first missing number, so a gap hides forms; positions are remembered across changes |
| key file (`macra.lua` 182-222, 533-562) | `loadkey`, `savekey`, `letterkey` | `key.txt` | what is saved can be loaded and means the same; names of sources are distinct | rewritten in place; numbers and names only make sense with the list they were saved with |
| Exmacronize (`exmac.lua`) | find new texts, learn word by word, save key, save list | tables, list of new texts | frequency of a form = its occurrences in the listed texts | two files that must agree are written one after the other; failures and kills in between; texts arriving during a run |
| Clear Key (`clearkey.lua`) | filter lines, rewrite key, empty list | `key.txt`, `sources.txt` | typed words stay, everything learned goes | no backup; tells typed from learned by the tabs of a line |
| Analyze Key (`fixkey.lua` 110-400) | six passes over the key, MULTI section, writing `_repairs.txt` | `analysis`, `wsections` | each form in one section, or in MULTI with all its issues | forms move between arrays while these are filled |
| Repair Key (`fixkey.lua` 405-779) | read `_repairs.txt`, add, merge chains, replace in key and texts, history, three kinds of files saved | tables, texts | key and texts still agree; every correction is made | `pairs` order, several corrections of one form, stale parallels, several files |
| Macronize (`mac.lua`, `mac-web.lua`) | scan text, variation loop, guess, restore | text, position, variation state | known words found, only marks added, the scan ends | a loop with ten state flags; positions shift as the text is edited, and are counted in bytes or in characters |
| substitutions (`macra.lua` 223-280, 385-460) | `setupsubs`, `subword`, `issubvalid` | substitution tables | each entry keeps its own sides and modifiers; a sure substitution is applied wherever it is valid and nowhere else; ends | three tables held together by an index, with holes; chains; modifiers; positions of earlier substitutions |
| word clean-up (`macra.lua` 310-384, `formatsource`) | `ignorechars`, `formatsource`, `decomment`, `cleanup` | word and its place in the text | only ignorable characters are cut, positions stay right | characters are cut from both ends at once |
| texts and history (`macra.lua` 745-860) | `gettexts`, `backup`, `loadrepairhistory`, `saverepairhistory` | tables | each text goes back into its own file, and its copy stays in `backup/` | headers collide and change; folders are merged; copies are named by the second; a word on two lists |
| utilities (`hyph2mac.lua`, `remmac.lua`, `remflag.lua`) | copy, convert and rewrite each text | the files | whatever is replaced is in `backup/` | a file is emptied before it is written; any order of programs, kills in between |
| vendored (`luapower/`) | LuaJIT, lfs, glue | - | - | third-party code |

Components interact only through the files and through the functions of `macra.lua`;
no two programs run at the same time. The user acts between runs, and may put texts
into `sources/` at any time. What is hard is therefore the order of runs and user
actions, a program stopped half-way, and long sequences of legal steps.

## 2. Modules

| module | models | extends |
|---|---|---|
| `WordKey` | `keytbl` and its operations | - |
| `KeyFile` | the contents of `key.txt`: shapes, what `loadkey` accepts, what Clear Key leaves, typed words | `WordKey` |
| `Exmacronize` | one run of `exmac.lua` | `KeyFile` |
| `Corpus` | what the word key promises: an account of the listed texts | - |
| `Lifecycle` | runs of Exmacronize and Clear Key, what the user does in between, kills; implements `Corpus` | `Exmacronize` |
| `LetterKey` | `macra.letterkey`, the names of the sources | - |
| `Repair` | runs of Repair Key over several sessions | `WordKey` |
| `Analyze` | one run of Analyze Key | - |
| `Setup` | `setupsubs` and the pairs that `initialize` adds | - |
| `SubWord` | `subword`, `issubvalid`, and the spelling put back | - |
| `MacWord` | the variation loop of Macronize, for one word | - |
| `Scan` | the scan over a text: of Exmacronize before it learns, of Macronize | - |
| `Texts` | runs of Macronize and the utilities over the files in `macronize/` | - |
| `MCLifecycle`, `MCRepair`, `MCAnalyze`, `MCSubWord`, `MCMacWord`, `MCScan`, `MCTexts` | small instances for TLC | the module named |
| `Bookkeeping` | the inductive invariants behind what the life of the key promises | `Lifecycle` |
| `Lifecycle_proofs` (and about `LetterKey`), `Texts_proofs`, `Setup_proofs`, `SubWord_proofs`, `MacWord_proofs`, `Analyze_proofs`, `Repair_proofs`, `Scan_proofs` | theorems and proofs | the module named |

A definition whose name has a suffix (`Kept_lastLost`, `FirstWord_zero`) is a mutated
form of the definition after it: what that code might look like with a plausible bug. It
is used nowhere, except to see that a property fails when it takes the place of the
original.

**WordKey.** `keytbl["hoc1"]` is `keytbl[<<hoc, 1>>]`: a *slot* is a plain word and a
number, 0 where the code has no number. Plain words are numbers in the order in which
they sort. `ParCount` is the counting loop that `getpars` and `getnextkey` have in
common; `Parallels` what `getpars` returns; `Store` an assignment to a table.

**KeyFile.** A file is `blank` (comments only), `words` (no divider, as Clear Key
leaves it) or `divided` (as `savekey` writes it), with the numbered sources and the
lines. A line has a form, a frequency and source numbers; a typed line has frequency 0.
`Loadable` is the condition under which `loadkey` gets through.

**Exmacronize.** The program counter `pc` follows the code: `load` (one step for each
line of the key), `learn` (one for each word, then `FinishText` with the new source
number), `save`, `saveSources`, `saveWords` (one for each line written), `list`.
Opening a file for writing is a step of its own, as it empties the file. Where the code
would index `nil`, the run ends with `outcome = "failed"`; files keep what has been
written by then.

**Lifecycle.** Exmacronize, Clear Key (three steps) and the user: a text put into
`sources/` at any time; a word typed; a backup put back; a source line or the whole list
deleted; a kill. `UserActs` selects among these. `typed` and `damage` are history: what
the user has typed, and which promise a kill or a failed save has broken so far
("counts": the key is out of step with the list; "typed": typed words are lost; "list":
lines of the list are lost). A restored backup brings back the damage it had.

**Corpus.** The abstract specification: `key` maps forms to frequency and sources, `listed`
is the set of learned texts, and each of learning *all* new texts, typing a word and
clearing is one step. `sound` is false from a kill that tears a file until the files agree
again; in between anything may happen. `Account` in `Lifecycle` instantiates it with a
refinement mapping: Exmacronize takes effect when it closes `key.txt` (until then the key
that counts is the backup, from then on the list that counts is the one about to be
written), Clear Key when it opens it. No history variable is needed. `AccountKept` is the
refinement; it says at once that frequencies are added and not replaced, that sources
survive being renumbered, that typed words stay, and that nothing between two commits is
seen from outside.

**Repair.** `_repairs.txt` is the sequence of what its lines ask for: most lines only
fill `repltbl`, `addtbl` or the history, but lines of MULTI, of abbreviations and of
enclitics are carried out while the file is read. Then forms are added, chains merged,
`repltbl` carried out and recorded, in any order `pairs` may take (`order`), and key,
texts and history written. `KeyRemove` gets the slot and the count the caller has taken
*before* it stored the replacement, as in the code. A text is a sequence of tokens: a
form, and where it stands as far as the patterns of `replacesingle` can tell (plain,
capitalized, at an edge, in a comment).

**Analyze.** One step for each word and pass. `Add`, `ToMulti` and `Delete` are the local
functions of `analyze`, with their effect on the array of a section, on MULTI and on
`wsections`. What a form looks like (its ending, what `subword` makes of it) is data
(`IsIssues`: the replacement for a hidden vowel ends as the form does, the other ending of a perfect
is no ending that any pass looks for).
The report is the set of its entries (`Entries`): the section, the form, and the issues it
shows there. MULTI has code of its own for each issue, and shows that of a perfect only
under an option that is defined nowhere (`Shown`); the orthography is printed only with the
option. The parallels of an abbreviation (keys `kal`, `kal.1`) are not seen by the pass for
ambiguities (`NewAmbiguity`).
Whether an ORTH issue is new, and whether the automatic list has an abbreviation, decides
whether the run fails.

**Setup.** One step for each line of a list (`Declare`, `Refuse`, `ReadEntry`, or `Fail` where
the code ends with an error), then `AddPair` for each pair of `initialize`. The tables are Lua
tables with holes: `#t`, the place behind which `table.insert` puts a value and the number
of entries `subword` looks at, is *some* border of `t`, left open as Lua leaves it. A constant
is a character that `string.find` takes for itself, for a pattern it rejects (`%`, `(`), or
for one that is found in every line (`.`, `^`, `$`).

**SubWord.** One call is a walk over the entries with `findstart`; further calls, with
the result of the last, follow as long as the word is not in the key, which is left open.
`Restored` puts the spelling of the text back, position by position from the right.

**MacWord.** A word is a sequence of parts: prefixes, stem, enclitics, period; or letters, in
the proofs. Where less is left than is to be cut off, `sub` gets a negative end, which Lua
counts from the back (`Without`). One action
for each branch of the loop; what `subword` returns is data here (`word.sure`,
`word.doubts`) and computed in `SubWord`.

**Scan.** `string.find` counts bytes and `utf8.sub` characters, so a text is a sequence of
bytes and a word a sequence of characters. `FindWord` is the match of `LETTERS` with the
handling of periods, `Trim` one round of the loop of `ignorechars` that cuts ignored
characters (quotation marks, flags) from both ends, `LearnWord`/`SkipWord` and
`MacronizeWord`/`PassOver` what the two programs put in the place of the word. What the
variation loop finds is a table here (`Key`), what sure substitutions give another (`Sure`).
`ignorechars` moves `posright` by two for each character cut from the right, so that a word
with an ignored character at its end and another one two places before it is cut wrongly;
`Tidy` is the exact condition under which this does not happen, and the properties about all
texts assume it of `Start`, the text that is scanned.

**Texts.** `gettexts` reads folders recursively into a table of texts and one of file names,
both indexed by first lines; in a folder a file takes the header from what was there, a
subfolder only adds headers. `Collected` is this recursion as one function of the *stage*, a
folder and the number of its entries that have been read; that folders nest is an assumption
(`FoldersAssumption`). The utilities make a copy, empty the file and write it;
Macronize makes no copy. Of a text only its origin and what has been done to it is kept;
its first line is an operator of these, since removing macrons changes it.

## 3. Runs

| run | question | states |
|---|---|---|
| `lifecycle_user` | Do key and list agree after any sequence of learning, typing, clearing, kills and restored backups? (`CountsExact`, `SourcesExact`, `RunsSucceed`, `ManualKept`, `UniqueForms`) Is the numbering dense, each copy of the key well-formed, the key saved before the list? Do they implement `Corpus` (`AccountKept`)? | 262 437 |
| `lifecycle_live` | Does every run end, is every text learned at last, and does learning again take nothing away? | 37 208 |
| `letterkey_distinct` | Are the names of sources distinct and readable? | 300 |
| `repair_user` | Are corrections that do not build on one another made, remembered only when made, and without a loss of occurrences? | 15 768 |
| `repair_chained` | Do key and texts stay in step under chains, cycles, several originals for one form, errors and missing texts? | 17 452 |
| `analyze_all` | Is each form in one place, with all of its issues, and does the report say so? | 204 448 |
| `macword_all` | Does the variation loop end, in the documented order, spelling the word, with a guess only where one form outweighs the rest? | 62 039 |
| `setup_all` | Do an entry's sides and modifiers stay together whatever the list, and does an orderly list reach `subword` whole, before the pairs? | 4 227 240 |
| `subword_all` | Do calls of `subword` end, thoroughly applied, with the spelling restored, and does no substitution disturb the positions of the earlier ones (`Undisturbed`)? | 38 729 |
| `scan_all` | Do the scans end, add only marks, keep the macrons of the user, and read each word as it stands? | 202 978 |
| `texts_all` | Does each text go back into its own file, is whatever a utility replaces in `backup/`, and is exactly one of the texts with one first line converted, whatever was run or killed before? | 476 382 |
| `lifecycle_nothingnew` | one of the disagreements of section 5 | - |

That `NoGaps`, `WellFormed` and `SavedBeforeListed` hold however badly the files are
treated (words typed twice, source lines and the list deleted, kills) is proved; the same
was seen with `UserActs` containing all of the acts (164 189 states).

**Bounds.**
- `MaxPar = 2` or 3: three or four forms for a plain word. Two show every effect of the
  numbering (a gap, a form beyond it); no plain word of the instances has more than
  three forms. `Before` sorts numbers as numbers, `glue.sortedpairs` sorts them as
  strings: the two differ from the eleventh parallel on, which no key has.
- Lifecycle: two or three texts of up to three words, with a form repeated in a text,
  shared by two texts, and two parallels of one plain word. A third text is needed for a
  source number to move twice. `MaxMishaps = 2` permits a kill of the run that follows a
  kill, or a kill after a list was deleted.
- Repair: three sessions (`MaxRuns`) for corrections on top of corrections, two where
  they are chained; two texts; up to three lines in `_repairs.txt`, which is the shortest
  chain with another original for its end. In `repair_user` corrections do not build on
  one another, and in `repair_chained` the texts have no enclitic form that a correction
  touches, no word in a comment that is corrected and no capitalized form that begins
  with a macron: these break the properties (section 5).
- Analyze: keys of up to seven forms; two parallels of four plain words, one of them an
  abbreviation, each form with up to three issues; every subset of an OK list of three forms;
  automatic lists with either ending of a perfect and with a hidden vowel.
- SubWord: all words of up to four letters over four letters (the longest original in a
  list has two letters, so that two occurrences fit), two longer ones, lists of up to three
  entries. Lists in which a substitution moves or overwrites another at the same place
  are left to section 5.
- Setup: every list of up to four lines, each a declaration, a refused declaration, or an
  entry that is readable, unreadable or bare, with or without modifiers and a constant; one
  constant of each kind; no pair (`hidden.txt`) or two (`orthography.txt`). Two entries around
  an unreadable line and a declaration need four lines.
- MacWord: twelve words with up to four parts, three enclitics, one of two parts so that it overlaps a prefix, every key of up to two of eight known
  variations, five distributions of frequencies: a single form, the threshold 0.75 met
  exactly (6 : 2) and missed by one (5 : 1 : 1), a typed form, which counts 0, beside others
  (5 : 0 : 1, a guess), and typed forms only (0 : 0, no guess).
- Scan: every text of up to five characters over a small and a capital letter, a long vowel,
  a quotation mark of three bytes, a period and a space, which holds each combination of two
  ignored characters at both ends of a word with something behind it; and longer texts with
  substitutions that shorten a word by three bytes, with flags, and with comments. Macronize
  runs twice (`pass`), as users do after corrections: the flags of the first run must not
  change what the second sees.
- Texts: four files in three folders, two with one header in a folder and its subfolder, two
  whose headers agree once macrons are removed; one that may be blank, one on which Macronize
  fails. Two runs of any of the four programs: one to change headers or to be killed, one to
  meet the result. With `MaxRuns = 3` and `MaxTime = 2` (24 242 095 states, three minutes on
  four workers) the same properties hold. `MaxTime` bounds the seconds that pass within runs.
- LetterKey: 300 sources pass through both alphabets five times.

**Preconditions in the properties.** `Settled` excludes states in which a program runs or
a kill has torn what it was writing: nothing repairs that but Clear Key, which is
modelled. `DOMAIN texts = Headers` in `TextsAgree`: a key cannot agree with texts the user
has taken away. `SpellsUpToEnclitic` states precisely the one case in which `SpellsWord`
fails (section 5), so that any other would be found.

**Deadlock** is checked in `scan_all`, where `Ended` is the only step that changes nothing:
the scan is never stuck. In the other modules the system may come to rest (all texts are
learned and the bounds are used up; a program of one run has ended).

**Instead of liveness** `Scan` has the variant `Advances`: between two searches the rest of
the text gets shorter, whatever has been inserted. With the absence of deadlock and the
finite loop of `Trim`, that is the end of the scan; a temporal property would say no more.

**Fairness.** A program that has been started goes on: `WF` of `ClearStep`
and `Next` of the sequential modules; these are batch programs that wait for nothing. For
`EventuallyListed` the user starts Exmacronize if there is a text it has not learned
(`ExmacNeeded`); that is how the program is used. Without this no text would ever be
learned. It excludes Clear Key, which a user may run forever, and kills; `RunsEnd` is
checked in the same run. Repair Key has no liveness property: its phases are loops over
finite tables, which end by themselves.

## 4. Proofs

`Lifecycle_proofs` proves about `Lifecycle`, for all texts, forms, bounds and user acts:

| theorem | states |
|---|---|
| `Inductive` | `Spec => []IInv` |
| `Typed` | `Spec => []TypeOK` |
| `NumberingHasNoGaps` | `Spec => []NoGaps` |
| `KeysAreWellFormed` | `Spec => []WellFormed` |
| `KeyBeforeList` | `Spec => SavedBeforeListed` |
| `FormsAreUnique` | if `"repeat" \notin UserActs`, then `Spec => []UniqueForms` |

*The invariant.* `NoGaps` is not inductive. `LoadLine` stores a form in the next free slot
of its plain word, which keeps the numbering dense if the line is filed under that word
(`LinesFiled`) and if the numbers used so far are below the one of the line, so that the
slot is within the bound (`Loading`). `WellFormed` for the file needs it for the memory:
`SaveWord` writes the numbers of a form's sources in `headers`, which are the list
written before only as long as `keyFile.srcs = headers` (`Saving`), and writes a line
with tabs if and only if the form has sources (`Tallied`). A form of the key has an entry
in `info` (also `Tallied`), or `LearnWord` would count what is not there. That memory is
empty between runs (`AtRest`) starts the argument. `IInv` is the conjunction. Each step
has a lemma; `Store` in the next free slot is handled by `StoreNext`, which rests on `ParCountStops` (the counting loop stops at the least
number not in use) and `DenseVisible` (in a dense table, what is stored is seen).

*The order of the files.* `KeyBeforeList` adds `Learned` (the words of the new texts
dealt with so far are in `keytbl`) and `Written` (the lines written so far are in the
file). When the list is opened, all texts are dealt with and all lines are written.

*Unique forms.* `UInv` says that no copy of the key has a form twice, that what has been
read comes from lines already read, and what has been written from slots already written.
The assumption is needed: a word typed twice is stored twice (section 5).

With the invariants of `Bookkeeping`, `Lifecycle_proofs` also proves, if the user types no word twice (`TypesOnce`:
`"repeat"` is not in `UserActs`) or, in addition, has no text learned again (`CarefulUser`: nor
are `"drop"` and `"delete"`):

| theorem | if | states |
|---|---|---|
| `NothingIsForgotten` | `TypesOnce` | `Spec => []NeverUnderCounted` |
| `FrequenciesAreRight` | `CarefulUser` | `Spec => []CountsExact` |
| `SourcesAreRight` | `CarefulUser` | `Spec => []SourcesExact` |
| `SystemKeepsAccount` | `CarefulUser` | `Spec => AccountKept`: the system implements `Corpus` |

Kills, failed saves, restored backups, Clear Key, typed words and texts that arrive during
a run are all allowed, any number of them. Section 5 shows that the assumptions are needed:
`Lifecycle_repeat` for `"repeat"`, the procedures for learning again for the others, since a
text that is learned again is counted again: frequencies are then too high, never too low.

*The invariant* `BInv`. A key file *accounts* for a set of texts (`Accounts`) if each of its
lines covers the places of its form in them, and no form with a place is missing. An entry
`Covers` a set of places if it has no less than their number and their texts (`EntryFor`), and
no more either for a careful user. It is one invariant for both kinds of user because the
argument is one: what is added to an entry on top of what it has keeps both the bound and
the equality (`CoversOneMore`), and the bound survives when the list shrinks under the key
(`FewerPlaces`). Between runs `key.txt` accounts for the list, but this is not
inductive: during a run the tables take its place. `ReadSoFar` says that the entries in
memory are those of the lines read; `LearnedSoFar` that they are those of the places found
so far, which are the places in the texts the run is done with and, up to the current word,
in the current one (`Places`); `SavedSoFar` that the lines written are those of the tables.
`FileAccounts` says for each moment which file accounts for which texts: once `key.txt` has
been opened for writing only the backup accounts for the list, and between the two writes
at the end the key accounts for the list to come. `BackupFresh` makes the backup a copy of
the key until then, and, after a failed or killed run that has torn nothing, so that putting
it back changes nothing. `NewToList` and `FewTexts` make the sum of two disjoint finite sets
of places the sum of their sizes (`AccountOfBoth`). `BInv` needs `UInv`, as of two lines with one
form only the last counts.

*The refinement.* Every step of a run but one leaves the account as it is: `OpenKey` because
the backup is the key, `SaveWord` because the backup counts; a failure or a kill that tears a
file makes `sound` false. `OpenList` is the step `Learn` of `Corpus` (`OpenListMapped`): the key is
complete, and what it has more than the backup is the account of the new texts. `ClearOpen`
is `Clear`, `AddManual` is `Type`, and what ends a state out of step, `ClearList` or
`RestoreBackup`, is `Repair`.

It also proves, for a user who types no word twice (`TypesOnce`):

| theorem | if | states |
|---|---|---|
| `RunsDoNotFail` | `TextsBringForms`, `"delete" \notin UserActs` | `Spec => []RunsSucceed` |
| `KeyCanBeLoaded` | `TextsBringForms` | `Spec => []KeyLoads` |
| `TypedWordsStay` | `TypedNotLearned` | `Spec => []ManualKept` |

`TextsBringForms` says that each text has a form that is in no other and is not typed,
`TypedNotLearned` that no text has a word that the user types. They are what the code
turns out to need: without the first `Lifecycle_nothingnew` and `Lifecycle_emptytext` break
the two properties, without the second `Lifecycle_clearmanual` breaks the third, and with
`"delete"` `Lifecycle_deletelist` breaks the first. The instance of `lifecycle_user` satisfies
all three; `BInv`, `EInv`, `SInv` and `TInv` were checked there and with `"drop"` and `"delete"`
added to its `UserActs` (425 000 states).

*The invariants.* `EInv`: a form with a frequency is in some text, one without is a
word that was typed, in every file and in memory; so the own form of a text cannot be
there before the text is learned. `SInv`: each file that may become the key can be loaded and has a
number for every listed text (`FilesReady`); while texts are learned, those that the run is
done with have numbers, since once the own form of the current text has been met, the
flag for a new form is set (`TextsNumbered`); what has no number in memory is a text that is
being learned (`NamesNumbered`), also when its line has been dropped from the list and its
source is still in the key; and only `"delete"` takes the list away (`ListKept`). Hence no form has a source without a number
when `SaveWord` asks for its letter. `TInv`: each file that may become the key has the typed
words; Clear Key keeps their lines, as a form without a frequency is written without tabs.
All three are inductive together with `BInv`.

`Texts_proofs` proves about `Texts`, for any folders, files, first lines and bounds:

| theorem | if | states |
|---|---|---|
| `TextsStayWhole` | | `Spec => []WholeTexts` |
| `OneTextOfEach` | | `Spec => []OneOfEach` |
| `NothingIsLost` | `TellApart` | `Spec => []NothingLost` |

`TellApart` says that the copies of two files have different names, whenever they are made;
without it `NothingLost` fails (section 5).

*What `gettexts` finds.* `Collected` is recursive, so that first something has to be found that
satisfies its definition. `WalkExists` finds it stage by stage: what is found at a stage needs
only what was found at stages before it, in the order in which the recursion visits them
(`Steps`). The induction is over a number and goes by the least counterexample
(`LeastElement`), since the library's induction theorems are out of the provers' reach; so are
those of `WalkRight` (each header leads to a file that has it), `FolderWhole` and
`RootHasFolders` (what is found in a folder is found with the root). `CollectedRight` is the
sum: the tables are a one-to-one map between headers and some of the files, and no header is
missing.

*The invariant* is `IInv` in `Texts`, which TLC has checked with the constants of `texts_all`.
`TablesRight` says what the tables are until a run ends, `FilesInOrder` which texts have been
converted and which are still as they were; that two headers have two files (`OwnFiles`) is why
no text is written twice. `NamesFree`: no copy has a name that the clock has yet to reach, nor
that of a text still to come, so that opening a copy empties no other. `CopiesMade` puts the
copy before the loss: in `copy` the name being written is not what a replaced text relies on.

`Setup_proofs` proves about `Setup`, for lists of any length, any constants and any number of
pairs:

| theorem | states |
|---|---|
| `RulesStayWhole` | `Spec => []RulesMatch` |
| `OrderlyListsWork` | `Spec => []OrderlyWorks` |

*The invariant* is `IInv` in `Setup`, checked by TLC for lists of up to three lines.
`SidesMatch` is kept since an entry is stored at an index beyond all that are in use
(`EntriesKept`) and a pair behind a border, which is free by definition (`BorderFree`), even in
a table with holes; a modifier stands only where an entry does, so that a pair in a hole gets
none. `InOrder` says that an orderly list leaves no holes: the next index is one more than the
number of entries so far (`Place`), and a table that is filled from 1 to m has the one border m
(`OneBorder`), so that nothing is left to Lua.

`SubWord_proofs` proves about `SubWord`, for any words, any number of entries and calls:

| theorem | if | states |
|---|---|---|
| `SpellingIsKept` | `Undisturbed` | `Spec /\ Undisturbed => []SpellingKept` |
| `EntryIsThorough` | every single entry that is not doubtful is `Complete` | `Spec => []Thorough` |

`Undisturbed` is about what happens to a word, not about the list: no substitution that
changes something replaces a letter at which an earlier one begins, and none that changes the
length of the word stands in front of an earlier one. `subatpostbl` holds positions only, so both
parts matter: of two substitutions at one place only the later is noted, and a replacement that has been
moved is not found where it is noted. That a later entry changes the other letters of a replacement does
no harm, as the later one is undone first. The shipped `orthography.txt` breaks the condition for
words such as adjicio (j = i, then iic = ic at the same place, section 5), and for those in which
an entry such as quu~ = cu comes in front of an earlier substitution; every other word is put back.
`subword_all` checks that the condition holds throughout its lists, among them one whose entries
would undo each other but for `*`.
`Complete`: the entry has neither `<` nor `]`, which end the search at the first occurrence
they exclude; it has `*` only with `[`; its replacement is no shorter than its original, or the
search would skip letters; and it does not meet its replacement. The findings of section 5 about `Thorough`
are entries that are not complete.

*The invariants.* `SpellInv` says of a call that the positions in `at` are in the word, and that there is a
way to put the word back: for each position what the word is once all positions from there on have
been looked at (`Undoes`). The step is `SubstitutionUndone`: the word with one more
substitution is put back in the same way, since a replacement of the same length commutes with those
behind it (`ReplacedApart`), and with one that changes the length nothing lies behind it
(`WordStays`). `RestoredIs` says that the loop of mac.lua arrives at the last of these words.
`ThorInv` says that no allowed occurrence lies in front of `findstart`; a replacement makes
no new one there (`StoodBefore`). It also needs that no third call is made, in which nothing would
be substituted: the second ends as the first. The states of the search are followed as the
smallest set that is closed under its steps (`Leads`), in which there is one end at most
(`EndedOnce`).

`MacWord_proofs` proves about `MacWord`, for any key, words, prefixes and enclitics:

| theorem | if | states |
|---|---|---|
| `WordsStaySpelled` | `ShortEnclitics` | `Spec => []SpellsUpToEnclitic` |
| `VariationsInOrder` | `ShortEnclitics` | `Spec => []FirstVariation` |
| `GuessesOutweigh` | | `Spec => []GuessSound` |

`GuessSound`: a guessed form occurs in the texts, and at least three times as often as all
others together; a typed form counts 0.

`ShortEnclitics`: an enclitic has at most three letters, as those of `enclitics.txt` do (que,
ne, ve). It is about words in which prefix and enclitic overlap: cutting off an enclitic that is
longer than what the prefix has left gives `sub` a negative end, and of three letters this
leaves nothing or what was not known before. With five it could leave some of the letters, which
is no variation of the word. The assumption of `MacWord` that a word has one period at most, at its
end, is what `ignorechars` sees to (`UpToPeriod` in `Scan`); with two, one would be
lost.

*The invariant* is `IInv` in `MacWord`, checked by TLC with the constants of `macword_all`. `Phase`
says what the three flags mean: which of the four variations of the word is in `plainwtry`, and
that those before it are not known (`Unknown`). `Base` says which word they are variations of, and
that those tried before it are not known (`NoneBefore`). With `VariationsSpell` (what is cut off and
what is left make up the word) and `FourthVariation` (the overlapping case) the first two
theorems follow; sums of frequencies are split by `TotalWithout`, and `TopFreq` is one of
the frequencies by `MaxOfSeq`, both by least counterexample.

`Analyze_proofs` proves about `Analyze`, for any key, issues, history and options:

| theorem | if | states |
|---|---|---|
| `OneSectionEach` | | `Spec => []OneSection` |
| `ListedWithAll` | `HiddenOnce` | `Spec => []ListedFully` |

`ListedFully`: every entry of the report, in a section of its own, in MULTI or under the
ambiguities, shows its form with all of its issues and no others; in MULTI all but the perfect
one, which is never shown there (section 5).

*The invariant* of the first is `IInv` in `Analyze`, checked by TLC with the constants of `analyze_all`. `OneSection`
alone does not say where `add` finds a form that it is to move: `Filed` adds that `wsections` names
the array of each form in one. The converse is false, as the array may have lost the form
(`Analyze_lost`). What `add` appends must not be in MULTI, and there `wsections` is no guide: a form
whose replacement had an issue is put in MULTI, but not in `wsections`. `Alone` says why it is not
added to an array afterwards: in the pass for hidden vowels its replacement is still in
`wsections`; the pass for the orthography fails before it adds anything; and the last pass adds
plain words only. If the error at `fixkey.lua:243` were repaired, the second reason would be gone,
and a form could be in MULTI and under ORTHOGRAPHY. `DeleteTakesOut` is about the array, also when
its last two forms go; `AllAmbiguousSound` follows the parallels through the key.

*The invariant* of the second is `ListInv`, on top of `IInv`. `RecordedNow` says what can be read off the tables
in the middle of a pass: `wsections` holds the forms of which an issue has been found (`Found`); one that is in an
array has this issue only; one in MULTI has all that have been found, and the mark of its set of parallels once
this has been met (`Several`). A form may be in MULTI without being in `wsections` only with that mark, in the last pass.
Three facts about the order of the passes make this inductive. A form and its replacement have the
same issues in the passes before that for hidden vowels, and are listed together. What
`FindPerfect` takes off the automatic list is the other ending, which no pass so far has looked for, and its own
entry could only settle an issue of a later pass (`DueStays`). An abbreviation on the
automatic list would be reported after it has been taken off the list, but the program ends before
the report is written (`Clean`, `Analyze_abvauto`). `AmbList` is proved before these: a set of parallels
that the report lists under the ambiguities has no form in `wsections`, so that nothing else is to be
shown of it; the last pass adds no form to a section that could change this.
`HiddenOnce`: no replacement for a hidden vowel shows one itself. Otherwise the replacement would be put
in MULTI without an entry in `wsections` before its own turn, and what MULTI says of it be
emptied by the last pass (fixkey.lua:280).

`Repair_proofs` proves about `Repair`, for any key, texts, corrections and number of runs:

| theorem | if | states |
|---|---|---|
| `OccurrencesConserved` | | `Spec => []CountsConserved` |
| `TextsStayInStep` | `PlainRepairs` | `Spec => []TextsAgree` |
| `CorrectionsAreMade` | `SeparateRepairs` | `Spec => []CorrectionsMade` |
| `AddedFormsStay` | `SeparateRepairs` | `Spec => []AddedKept` |
| `FormsStayUnique` | `SeparateRepairs` | `Spec => []UniqueForms` |
| `HistoryStaysTrue` | `SeparateRepairs`, `NeverBack` | `Spec => []HistoryTrue` |

`PlainRepairs`: the texts get each correction that the key gets. No form stands at an edge or in
a comment, no form that is corrected begins with a macron or takes an enclitic, and there are no
lines for abbreviations and enclitics, which correct the key only. Each of these is needed
(`Repair_comment`, `Repair_capital` and `Repair_enclitic` in section 5). What the first theorem
says holds without: occurrences counted twice, or lost when a chain is merged or a line of the key
hidden behind a gap, would show in the sum.

*The invariant* is `StepInv`. While key and texts are in memory they are kept in step there
(`InMemory`); once the key has been written, `keyFile` is what `savekey` makes of the tables
(`LinesFor`), and loading it gives the same account (`SavedLoads`), also where a stale
parallel has left a form in two lines, since `loadkey` takes the last and both have the whole
frequency. `Right` says what is in step: the places of the texts and the units of the frequencies
can be matched one to one (`Balanced`). A correction keeps the matching whether the texts follow
or not: `replacesingle` changes no place (`RetextedPlaces`), and `Merged` moves the units of one form behind
those of the other (`MergedTally`). For `PlainRepairs`, `Agrees` adds that each form has its own
places (`CorrectedAgrees`). Each form with an entry is in the
key (`DOMAIN info` is part of `FormsIn(keytbl)`), or its counts would be lost when the key is saved;
what takes a form's place may be hidden by a gap and be stored again.

`SeparateRepairs`: the key has no doubles at first, no line replaces a form by itself, and no two
lines of one `_repairs.txt` are about the same plain word. Lines of files read in different
sessions may be, so corrections on top of corrections are covered, but not chains within a file:
they are merged in an order that `pairs()` chooses and one of them may be lost (`Repair_chain`), and
one correction may rename a form that another leaves behind a gap (`Repair_parallel`).
`NeverBack`: no form that some file replaces is brought in by this or another file
(`Repair_mindchange`). The constants of `repair_user` satisfy both, those of `repair_chained`
`PlainRepairs` but not `SeparateRepairs`.

*Their invariants* are `RepairsInv` and, for the history, `HistoryInv`, both on top of `StepInv` and
checked by TLC with the constants of `repair_user`. A correction within one plain word leaves a gap
only there (`TakenOut`, `Replaced`), and a gap hides forms from `getpars` until the key is loaded
and numbered anew (`LoadedDense`). `Corrected` therefore says three things at once of the key in memory: it is
dense but for the plain words of the forms that have gone; none of those is left in it (`Gone`:
corrected while the lines were read, or by the loop that follows); each form that was to be added and
whose turn has come is in it (`There`). `LinesRead` and `LoopsAhead` say that the tables hold just the lines
read so far, so the next line is about a plain word that has no gap yet. `HistoryInv` adds what
is recorded: only what has gone, in memory as on disk; and while a run goes on or has been killed,
the backup agrees with the history as well, so restoring it is harmless.

`Scan_proofs` proves about `Scan`, for texts of any length, over any alphabet, and any key:

| theorem | if | states |
|---|---|---|
| `OnlyMarksAreAdded` | `KeySpelled` | `Spec => []OnlyMarks` |
| `MacronsAreKept` | `KeySpelled` | `Spec => []MacronsKept` |
| `NothingCrashes` | `KeySpelled` | `Spec => []NoCrash` |
| `RoundsAdvance` | `KeySpelled`, every text is `Tidy` | `Spec => Advances` |

`KeySpelled`: a form that is found is the word with marks. This is what the variation loop gives
(`WordsStaySpelled`), but for the one case in `SpellsUpToEnclitic`; `MCScan` assumes it of its key,
so TLC evaluates it. The first three properties are about `Tidy` texts by themselves; in others
`ignorechars` cuts letters away (section 5), and Macronize may find a match that begins inside a
character. `RoundsAdvance` needs it of the texts as Exmacronize and as Macronize begin with them;
TLC checks `Advances` for the untidy ones too.
`ScanAssumption` says of the tables what `unicode.txt` and the code have: a marked vowel has no
fewer bytes than the plain one; capital and small letters have as many and the same marks; what divides
words, the period and ignored characters are no letters, and the first two take one byte.

*The invariant* is `ScanInv` in `Scan_proofs`. It speaks of all sequences of characters, so
TLC cannot evaluate it. While the next word is looked for, the text is `Bytes(d \o r)`: `d` has
been passed, `r` is still as it was, and `from` is the first byte of `r`, or one byte too far
where nothing is left (`AtFind`). While there is a word, it is `x \o (m \o r)`, where the match `m` is
divided into what was cut off on the left, the word and what was cut off on the right, and each
position of the code is the length in bytes of some of these (`AtWord`). So what is cut out is
whole (`Laid`), which rests on `LeadsOfBytes`: the first bytes of the characters give them back.
`MarkedFrom` carries the two properties about marks along, `Remains` the rest.
Two parts of it are not obvious. `AtEnd` says where `posright` stands: at the end of the word, unless
the character there is known not to be ignored. The second decrement skips a character only behind
one that was cut, and `Tidy` says that this one is not to be ignored, so no letter is taken for
another. `Clean` says that a letter behind `from` and one before it never belong to one word: if
`ignorechars` finds nothing, or cuts a period off, the search goes on in the middle of a
chunk, and a macron there would have protected the letters that were passed. It holds because what
was passed, or what is left up to the next separator, has ignored characters only.
Flags are put in front of a word and a longer form in its place; that `from` still falls on the first
byte of what follows is `MacronizeStep`, since no form is shorter than its word
(`WordBecomes`: marks add bytes, and `Grown` adds those). A word that shrinks in Exmacronize is
`LearnStep`. If a match consists of periods only, `from` is one byte too far; `RestOpens` says why
this skips a separator and no letter.

`Lifecycle_proofs` also proves that `letterkey` is injective on all positive numbers
(`LetterkeyInjective`, from the uniqueness of division by 26), hence that names stay
distinct (`NamesStayDistinct`) and readable (`NamesStayReadable`) for any number of
sources.

Assumptions are those the modules declare: `WordKeyAssumption` (each form has a plain
word; `MaxPar` is a number), `KeyFileAssumption`, `ExmacAssumption` (texts are sequences
of forms), `LifecycleAssumption`, `LetterKeyAssumption`, `SetupAssumption`, `SubWordAssumption`, `MacWordAssumption`
(plain words are not empty, `sure` and `doubts` are words), `AnalyzeAssumption`, `ScanAssumption`, `TextsAssumption`, `FoldersAssumption`
(finitely many files and folders, which nest). The sets of forms, plain words and
texts may be infinite; that only finitely many texts are in `sources/` at a time follows from
`Init` and `AddSource`.

*Only model-checked:* `LearnedRight` of `Scan`, which compares the words of the finished text with
those of the source one by one: the invariant above says that what was learned is whole, not what it
is. Out of the
prover's reach are liveness under fairness and `ENABLED`, so `CallsEnd` of `SubWord` and `LoopEnds` of `MacWord` too; no module that is proved about declares a `RECURSIVE`
operator. `NumOK` of `LetterKey` and `TypeOK` of `Repair`, `Analyze`, `Setup`, `SubWord`, `MacWord`, `Scan`
and `Texts` holds with the constants of their runs but is not among the properties of these.

## 5. Where the code and its documentation disagree

Each of these was met while the code was modelled, and is shown by a configuration that
checks one property, which TLC finds violated. `Lifecycle_nothingnew` is
among the project's runs; the other configurations are kept beside them and are run as `tlc -config <name>.cfg <MC module>` (`LetterKey` and `Setup` have no MC
module). Where the configuration named is one that passes (`Scan_all`, `Texts_all`,
`SubWord_all`, `MacWord_all`, `Analyze_all`, `Setup_all`, `LetterKey_distinct`, `Lifecycle_live`) or checks another property
(`Analyze_lost`), the property named is put in the place of those it lists, and the
constants given with it in the place of its own.

Most of them were also reproduced by running the scripts with the LuaJIT that comes with
them, on files made after the counterexample; no run of the scripts contradicted a model.

### The life of the key

- **`Lifecycle_nothingnew`, `RunsSucceed`** (`scripts/macra.lua:552`). A text that brings no
  new form gets no number (exmac.lua:159), yet its header is added to every form it repeats,
  so savekey calls letterkey(nil) in the middle of writing the key and the run dies, leaving
  a key.txt cut short and the text unlisted. macra.lua:533 says of savekey: "saves the key
  in "data/key.txt" and returns the total number of forms in the key". The run learns "hoc
  est" and then, in a second run, "est hoc".
- **`Lifecycle_emptytext`, `KeyLoads`** (`scripts/macra.lua:191`). When the first texts
  learned contain no word, savekey writes a divider with no source above it and no word
  below; loadkey then splits an empty sources section into one empty line and indexes
  numstbl with nil, so every later run of every program fails. macra.lua:182 says of
  loadkey: "reads the word key at the given path and saves it in macra.keytbl,
  macra.freqtbl, and macra.headerstbl".
- **`Lifecycle_repeat`, `CountsExact`** (`scripts/macra.lua:213`). A word typed into key.txt
  that is already there is read as a second parallel of itself, and its frequency and
  sources are overwritten by those of the line read last, i.e. by none. README.md:85 says
  "To manually add words to the key, simply enter them into `data/key.txt`, one per line at
  the end of the list", and README.md:24 calls the key "a list of unique word forms with
  macrons, along with their frequencies".
- **`Lifecycle_clearmanual`, `ManualKept`** (`scripts/clearkey.lua:41`). A manually added
  word that later occurs in a source text gets a frequency, and its line is then deleted by
  Clear Key, which takes every line with tabs for learned. clearkey.lua:36 prints "Deleting
  the contents of "key.txt" (manual entries excepted)" and README.md:32 says Clear Key
  "Removes all non-manually-entered entries (i.e. all entries from source texts) from the
  word key".
- **`Lifecycle_deletelist`, `RunsSucceed`** (`scripts/exmac.lua:134`). With data/sources.txt
  deleted, readutf8 creates it but returns nil, and glue.gsplit(nil, ...) ends the run.
  data/sources.txt:5 says "To Exmacronize all source texts again (i.e. re-build the key),
  delete this file before Exmacronizing."
- **`Lifecycle_live`, `NeverOverCounted`** (`scripts/exmac.lua:86`). Learning a text
  again adds its occurrences to the frequencies it has contributed before.
  data/sources.txt:4 says "If you have manually changed a source text and would like to
  Exmacronize it again, delete the appropriate line in this file before Exmacronizing."
- **`LetterKey_distinct`, `CommentedNames`** (`scripts/macra.lua:577`). letterkey(53) is "A1"
  and not "A2": the suffix is the number of pairs of alphabets already used. The comment at
  macra.lua:567 says "converts a number to a letter key, e.g. 1 = A, 27 = a, 53 = A2, 54 =
  B2, etc."

### Repair Key

- **`Repair_chain`, `CorrectionsMade`** (`scripts/fixkey.lua:757`). With a -> b and b -> c
  the loop gives a the replacement c and deletes the entry of b, so b stays in the key and
  in the texts uncorrected, whatever order pairs() takes. The comment at fixkey.lua:753 says
  "first merge "chain" replacements (a -> b, b -> c)".
- **`Repair_parallel`, `UniqueForms`** (`scripts/fixkey.lua:687`). replaceword hands
  keyremove the slot table and the count taken before the replacement was stored. When the
  replacement is a new form of the same plain word it stays one slot beyond the gap this
  leaves, where getpars does not see it, so a second original corrected to it stores it
  again: key.txt then has the form twice, each line with the whole frequency. README.md:24
  calls the word key "a list of unique word forms with macrons".
- **`Repair_comment`, `TextsAgree`** (`scripts/fixkey.lua:723`). The loop of replacesingle
  ends at the first match that lies in a comment, and no later occurrence in the text is
  replaced, while the key is corrected for all of them. The comment at fixkey.lua:715 says
  "substitutes orig with repl in str (unless in comments) wherever orig is a distinct word".
- **`Repair_capital`, `TextsAgree`** (`scripts/macra.lua:706`). pcall is given the result of
  utf8.sub instead of the function, so it always fails and only the first byte is
  capitalized: a form that begins with a long vowel is left as it is, and its capitalized
  occurrences are not replaced in the texts. The comment at fixkey.lua:703 says of
  replaceintext "substitutes lowercase, capitalized, and all-uppercase versions of orig with
  the corresponding version of repl".
- **`Repair_enclitic`, `TextsAgree`** (`scripts/fixkey.lua:670`). The form with an enclitic
  is replaced in the texts that have the form, and never in the key: after quo -> quō the
  text has quōque and the key quoque, a form that is in the key on its own if the user has
  marked it, by x, as a word without an enclitic. The comment at fixkey.lua:659 says of replaceword "substitute a word in the
  key and texts in lowercase, capitalized, and all-caps, plus each of these with enclitics".
- **`Repair_mindchange`, `ListsDisjoint`** (`scripts/fixkey.lua:763`). When b replaces a and
  c replaces b in a later session, the automatic list has a -> b and b -> c,
  loadrepairhistory marks b as right because of the former, and the next save finds it on
  both lists and writes both. macra.lua:837 reports this as an error: "on both OK and
  auto-replace lists."
- **`Repair_ambiguity`, `RepairsSucceed`** (`scripts/fixkey.lua:625`). The forms on an
  ambiguous line are written without commas (fixkey.lua:361) and split at commas, so the
  line counts as one form and any answer that names form 2 or higher, or two numbers,
  indexes repltbl with nil. The instructions in _repairs.txt (fixkey.lua:359) say "Example:
  \"2=mālā, 1=3\" replaces form [2] with \"mālā\" (and adds \"mālā\" to the key) and
  replaces form [1] with form [3]."

### Analyze Key

- **`Analyze_lost`, `EveryIssueListed`** (`scripts/fixkey.lua:149`). When the form that
  moves to MULTI is the last of its section, delete clears it and then the element that is
  last now as well, so the form before it disappears from the report, though it still counts
  as listed. README.md:25 says of Analyze Key "Detects possible errors in the word key, and
  saves them for user review and correction."
- **`Analyze_lost`, `PerfectsListed`** (`scripts/fixkey.lua:191`). The forms are searched
  for the endings of preferredtbl, the ones to be kept, so with the option SHORT the report
  lists cēperis and not amāverīs. The section it is listed in says (fixkey.lua:336) "Long
  \"ī\" will be shortened" "in perfect subjunctive verb forms".
- **`Analyze_all`, `ShownInMulti`** (`scripts/fixkey.lua:305`). The issue of a perfect in
  MULTI is printed only if `macra.REPAIR_PERF_SUBJ` is set, which nothing sets: a form that is
  a perfect and has another issue is shown with the other one only. The comment at
  fixkey.lua:302 says of these lines "these concatenations are adapted or copied from each loop
  below. these MUST correspond to those!"
- **`Analyze_abvauto`, `AnalyzeSucceeds`** (`scripts/fixkey.lua:372`). The loop over
  automatic abbreviations prints abv, a global that does not exist, instead of abvw:
  concatenating nil ends the program before _repairs.txt is opened. README.md:81 says of
  earlier substitutions that "in the future they will appear in the \"auto replace\"
  sections of `_repairs.txt`".
- **`Analyze_orth`, `AnalyzeSucceeds`** (`scripts/fixkey.lua:243`). analyze indexes
  macra.orthnotetbl, while macra.initialize stores the notes as orthnotestbl
  (macra.lua:111), so the first form with a substitution ends the program. The comment at
  fixkey.lua:228 says "5. ORTHOGRAPHY (if option enabled, certain replacements made by
  default, doubtful ones ignored. but see _CONFIG.txt.)"

### Macronize

- **`MacWord_all`, `SpellsWord`** (`scripts/mac.lua:138`). The enclitic found in the
  second variation is still set when the word is found without its prefix, though the prefix
  variation has put the enclitic back: with usque in the key, adusque is written adūsqueque.
  The comment at mac.lua:84 says of the third variation "plainwtry = plainw minus a prefix".
- **`SubWord_all` with `Words <- ChainWords`, `EntryLists <- Chain`: `SpellingKept`** (`scripts/macra.lua:425`). subatpostbl keeps one
  substitution per position, so of two made at one place only the later is undone: adjicio,
  found as adicio after j = i and iic = ic, is written adiiciō. data/orthography.txt:10 says
  "Macronize tries these substitutions if a word is not immediately found in the key, but
  the original orthography is kept in the end."
- **`SubWord_all` with `EntryLists <- Continue`: `Thorough`** (`scripts/macra.lua:431`). The first occurrence that
  the modifiers exclude ends the search for the entry: with < an occurrence at the beginning
  of the word hides the ones behind it, and with ] one in the middle hides the one at the
  end. data/hidden.txt:10 says "< = only if the string does not begin the word."
- **`SubWord_all` with `Words <- OeOe`, `EntryLists <- Shrinking`: `Thorough`** (`scripts/macra.lua:430`). findstart is the position
  behind the original in the old word, also when the replacement has moved what follows:
  with oe = e, oeoe becomes eoe. data/hidden.txt:6 says "If in a word in the text it finds
  the string of characters on the left side of an entry, it replaces it with the string of
  characters on the right side."
- **`SubWord_all` with `EntryLists <- End`, `Enclitics <- Enclitic`: `EncliticsIgnored`** (`scripts/macra.lua:458`). issubvalid compares
  the end of the word with enclitic, a global that does not exist, in place of enc, so no
  enclitic is ever detected. The comment at macra.lua:441 says "possible enclitics, if
  detected, are ignored for the purposes of strings substituted only at the ends of words".

### The substitution lists

- **`Setup_all`, `ConstantsReplaced`** (`scripts/macra.lua:254`). The lines made from the
  values of a constant are put into `sublinetbl`, which is then set to the line itself: the
  entry keeps the constant as a character, and no word contains it. data/orthography.txt:14
  says "a non-alphanumeric ASCII character may be declared as a "constant" storing multiple
  values."
- **`Setup_all`, `ConstantsAnywhere`** (`scripts/macra.lua:247`). `sublinetbl` is nil until the
  first entry has been read, so that every program ends with an error on a list in which the
  first entry has a constant.
- **`Setup_all`, `OnlyLineLost`** (`scripts/macra.lua:274`). The index goes up for a line that
  cannot be read. The hole may be within `#repltbl`, and `subword` then fails on it for every
  word that needs a substitution, or hide all entries behind it. The message at macra.lua:260 says
  no more than "Line could not be interpreted."

### The scan over a text

- **`Scan_comments`, `CommentsAllowed`** (`scripts/mac.lua:51`). When a text has a comment,
  macronize calls `getcommentset`, a global that does not exist (the function is
  `macra.getcommentset`), and the program ends with an error. README.md:41 says "To exclude
  any words that should not be macronized, e.g. a passage in another language, use C-style
  comments: // at the beginning of a line to excludes that line, and /\*...\*/ excludes
  everything (...) in between."
- **`Scan_all`, `NothingInTheMiddle`** (`scripts/macra.lua:352`). After a character has
  been cut from the right end, `posright` is moved twice, so the next round looks past the
  last character; what it finds there is cut with everything behind it, and the place of the
  word is moved by the width of another character: `amo——”` loses a dash, and `amo—a”` ends
  the program. The comment at macra.lua:338 says "nothing in the middle is deleted."
- **`Scan_all`, `MacronsOverwritten`** (`scripts/mac.lua:41`). The option is copied
  into a local variable before `macra.initialize` reads it, so it is always false.
  data/_CONFIG.txt:6 says "if "Y", all macrons are removed at the beginning of Macronize".
- **`Scan_praenomen`, `RestLearned`** (`scripts/exmac.lua:106`). The chunk is cut at its first
  period and the match replaced as a whole, so what follows the period (`A.Licinius`) is
  never learned. The comment at macra.lua:324 says "if a period is in the middle of the word,
  split it and take the first period-bounded string as the word".
- **`Scan_between`, `BetweenComments`** (`scripts/macra.lua:687`). The pattern is greedy: all
  words between the first `/*` and the last `*/` of a text are removed and not learned. The
  comment at macra.lua:684 says "removes single- and multi-line comments from the given
  string".

### Text files

- **`Texts_all`, `EachConverted`** (`scripts/macra.lua:785`). Of the texts with one first
  line, or with one after macrons have been removed, only one is converted. README.md:35 says
  the utilities "apply to all texts in the `macronize/` folder."
- **`Texts_all`, `EachBackedUp`** (`scripts/mac.lua:248`). Macronize makes no copy of a text:
  a run that is killed while it writes loses it. README.md:40 says "A backup file of each text
  is created in `backup/`."
- **`Texts_all` with `Files = {a, b}`, `Blank = {}`, `Unfit = {}`, `Listing <- TwinListing`,
  `Stem <- TwinStem`, `Header <- TwinHeader`: `NothingLost`** (`scripts/macra.lua:752`). The name of a copy has the second
  and the name of the file without its folder, so that the copy of `b/text.txt` overwrites
  that of `a/text.txt` made in the same second. README.md:50 says "A backup file of each text is
  created in `backup/`."

Not shown by a configuration, but seen in the code: a perfect on the automatic list is
reported as new in each run, as its replacement, the other ending, is always on the OK list
(macra.lua:820, fixkey.lua:196); the second form of an abbreviation has the key `kal.1`, which the pattern
at fixkey.lua:254 (letters and a number) does not match, so that its parallels are never reported,
while the comment at fixkey.lua:65 speaks of "ambiguities i.e. parallel macron-forms"; `\m` in MULTI calls `fixambig`, which
does not exist; the left side of an entry is taken for a Lua pattern, so that one with `?` or
`-` may match the empty string, and `subword` then goes round for ever (macra.lua:407);
`vowelstbl` (macra.lua:113) has `ā` twice and no `ē`; a header with `//` in it is taken for a
comment when the key is loaded, so that a repair of its forms fails at `macra.lua:669`.

## 6. Abstractions, what is not modelled, and the plan

### Abstractions

- In the modules about the key a text is the sequence of the words `formatsource` leaves of
  it, in lower case and after the orthographic substitutions (`Scan` says which these are),
  and is identified with its header (`Texts` has texts whose headers collide).
- In `Texts` the user waits a second before starting the next program, so that the names of
  copies of different runs differ; within a run any number of texts may share a second. The
  hyphens that Hyphens to Macrons replaces are not modelled, nor is what the user edits
  between runs.
- In `Scan` the order of several flags, which `pairs` leaves open, is fixed, and the user's
  mark `@` is left out, as it is not in `ignore.txt` and so has no effect.
- A kill falls between two writes, each of which is whole: a line of the key, the sources
  with the divider, the list. A line torn in the middle is not modelled. In `Repair`, where
  the steps in memory are the subject, the key is opened in one step and written in
  another, each text is one write, and the history files are one.
- One program runs at a time. The user edits files between runs, except that a text may be
  added at any time. Only the backup of the last run can be put back; it is put back after
  a failed or killed run.
- A word the user types stands behind the other lines of its plain word: that is what
  "at the end of the list" gives.
- In `Repair` one enclitic stands for all. The placeholder line
  `Example:` that Analyze Key leaves in CUSTOM counts as an added form like any other if the
  user leaves it in.
- In `Analyze` the headings, notes and order of lines in a section are left out; the
  numbers that `_AUTO` and `_OK` lists print have no meaning beyond the report.
- In `MacWord` the flag characters around a guess are left out, and in `SubWord` whether a
  result is in the key is open.

### Not modelled

- *`mac-web.lua`* repeats the algorithms of `mac.lua` and `macra.lua` for a web page, with
  the key as a table of the program; it has no file and no state of its own.
- *Vendored code* (`luapower/`): `glue.sortedpairs`, `merge` and `index` are modelled
  where they are called.

### Plan

In this order: `Scan` with `MacWord` and `SubWord` in the place of its tables, for one text
and a key of a few words; Analyze Key and Repair Key in turn over one `_repairs.txt`; an
abstract specification of Repair Key (a set of corrections carried out at once) and its
refinement.

To be proved next: `LearnedRight`, with what has been learned so far in the place of `d` in
`AtFind`; then the refinement above, whose steps `RepairsInv` prepares.
