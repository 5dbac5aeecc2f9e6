------------------------------ MODULE Analyze ------------------------------
(***************************************************************************)
(* Analyze Key (scripts/fixkey.lua -analyze): six passes over the key, each *)
(* looking for one kind of doubtful form, and the report of what they have  *)
(* found in _repairs.txt.  A form with one issue is listed in the section   *)
(* of that issue; one with several belongs in the section MULTI.            *)
(*                                                                          *)
(* How an issue is recognized is data: issues tells which forms look like   *)
(* what.  The key is the sequence of its forms as glue.sortedpairs gives    *)
(* them, so the forms of a plain word stand together.                       *)
(***************************************************************************)
EXTENDS Integers, Sequences, FiniteSets, Functions

CONSTANTS
    Forms, Plains, PlainOf,   \* as in WordKey
    Keys,          \* keys to analyze: sequences of forms
    IssueTables,   \* what the forms of the key may look like
    OkLists,       \* what repair-ok.txt may hold
    AutoTables,    \* what repair-replace.txt may hold
    OrthOptions    \* "Repair orthography in source texts?" (_CONFIG.txt)

Sections == {"ABV", "ENC", "PRF", "HID", "ORTH"}

\* abv, enc: ends in a period (so do all forms of its plain word), in an enclitic.  prf: ends in the preferred ending
\* of the perfect subjunctive, with the same word in the other one.
\* hid, orth: what subword makes of the form, where that is another form; a hidden
\* vowel is inside the word, so the replacement is a parallel with the same ending;
\* the perfect with the other ending ends in nothing else that is looked for.
IsIssues(t) ==
    /\ \A w \in DOMAIN t.hid : /\ PlainOf[t.hid[w]] = PlainOf[w]
                               /\ \A s \in {t.abv, t.enc, DOMAIN t.prf} :
                                     w \in s <=> t.hid[w] \in s
    /\ \A w \in DOMAIN t.prf : t.prf[w] \notin t.abv \cup t.enc \cup DOMAIN t.prf
    /\ t.abv \subseteq Forms /\ t.enc \subseteq Forms
    /\ \A v, w \in Forms : PlainOf[v] = PlainOf[w] => (v \in t.abv <=> w \in t.abv)
    /\ \A f \in {t.prf, t.hid, t.orth} : \A w \in DOMAIN f : w \in Forms /\ f[w] \in Forms

ASSUME AnalyzeAssumption ==
    /\ PlainOf \in [Forms -> Plains] /\ Plains \subseteq Nat
    /\ Keys \subseteq Seq(Forms)
    /\ \A t \in IssueTables : IsIssues(t)
    /\ OkLists \subseteq SUBSET Forms
    /\ OrthOptions \subseteq BOOLEAN

VARIABLES
    key,        \* the forms of macra.keytbl
    issues,     \* what they look like
    oktbl, autotbl,   \* the history, as loaded
    RepairOrth, \* the option
    pc,         \* the pass, then "write", "history", "end"
    pos,        \* the next word of the pass
    arr,        \* analysis[..]: the array of each section
    multi,      \* analysis[MULTI]: the sections of each form in it
    wsections,  \* the section each form is in
    autoFound,  \* analysis[.._AUTO]: forms on the automatic list, by section
    report,     \* _repairs.txt: what is written there of new issues
    outcome

data == <<key, issues, oktbl, RepairOrth>>
vars == <<data, autotbl, pc, pos, arr, multi, wsections, autoFound, report, outcome>>

Passes == <<"ABV", "ENC", "PRF", "HID", "ORTH", "AMB", "write">>

Store(f, x, v) == [y \in DOMAIN f \cup {x} |-> IF y = x THEN v ELSE f[y]]
EmptyTable == [x \in {} |-> x]
----------------------------------------------------------------------------
\* The arrays, MULTI and wsections together: what add, tomulti and delete change.
Tables == [arr |-> arr, multi |-> multi, where |-> wsections]

\* delete: the rest of the array moves down and its last element is cleared.  When
\* w is the last one itself, the element before it goes too.
Delete(s, w) ==
    LET at == {i \in DOMAIN s : s[i] = w}
    IN  IF at = {} THEN s
        ELSE LET n == CHOOSE i \in at : TRUE
             IN  IF n = Len(s) THEN [i \in 1..(n - 2) |-> s[i]]
                 ELSE [i \in 1..(Len(s) - 1) |-> IF i < n THEN s[i] ELSE s[i + 1]]

\* Mutated form: the form stays in the array of its section.
ToMulti_kept(t, w) ==
    IF w \in DOMAIN t.where /\ t.where[w] # "MULTI"
    THEN [t EXCEPT !.multi = Store(@, w, {t.where[w]}), !.where = Store(@, w, "MULTI")]
    ELSE t

\* tomulti: a form of another section moves to MULTI.
ToMulti(t, w) ==
    IF w \in DOMAIN t.where /\ t.where[w] # "MULTI"
    THEN [arr   |-> [t.arr EXCEPT ![t.where[w]] = Delete(@, w)],
          multi |-> Store(t.multi, w, {t.where[w]}),
          where |-> Store(t.where, w, "MULTI")]
    ELSE t

\* Mutated form: the sections found before are forgotten.
WithIssue_only(m, w, section) == Store(m, w, {section})

\* One more section for form w of MULTI.
WithIssue(m, w, section) ==
    Store(m, w, (IF w \in DOMAIN m THEN m[w] ELSE {}) \cup {section})

\* add: for a form or a replacement that is in a section already, MULTI.
\* repls is empty or holds the replacement.
Add(t, section, w, repls) ==
    LET moved == IF repls = {} THEN ToMulti(t, w)
                 ELSE ToMulti(ToMulti(t, w), CHOOSE r \in repls : TRUE)
    IN  IF ({w} \cup repls) \cap DOMAIN t.where # {}
        THEN [moved EXCEPT !.multi = WithIssue(@, w, section)]
        ELSE [arr   |-> [moved.arr EXCEPT ![section] = Append(@, w)],
              multi |-> moved.multi,
              where |-> Store(moved.where, w, section)]

Become(t) == arr' = t.arr /\ multi' = t.multi /\ wsections' = t.where
----------------------------------------------------------------------------
FirstWord == 1

Init ==
    /\ key \in Keys /\ issues \in IssueTables
    /\ autotbl \in AutoTables
    /\ oktbl \in {ok \cup Range(autotbl) : ok \in OkLists}   \* a replacement is right
    /\ RepairOrth \in OrthOptions
    /\ pc = "ABV" /\ pos = FirstWord
    /\ arr = [s \in Sections \cup {"AMB"} |-> << >>]
    /\ multi = EmptyTable /\ wsections = EmptyTable
    /\ autoFound = [s \in Sections |-> {}]
    /\ report = {} /\ outcome = "none"

\* The word at hand in a pass over the key.
Word == key[pos]
InPass(section) == pc = section /\ pos <= Len(key)
NextWord == pos' = pos + 1 /\ UNCHANGED <<data, pc, report, outcome>>

\* A form that shows the issue: on the OK list it is left alone, on the automatic
\* list it is noted as such, otherwise it is added to the section.
Classify(section, repls) ==
    IF Word \in oktbl THEN UNCHANGED <<arr, multi, wsections, autoFound>>
    ELSE IF Word \in DOMAIN autotbl
         THEN /\ autoFound' = [autoFound EXCEPT ![section] = @ \cup {Word}]
              /\ UNCHANGED <<arr, multi, wsections>>
         ELSE Become(Add(Tables, section, Word, repls)) /\ UNCHANGED autoFound

Unremarkable == UNCHANGED <<arr, multi, wsections, autoFound, autotbl>>

\* 1. Abbreviations.  An automatic one is taken off the list.
FindAbbreviation ==
    /\ InPass("ABV") /\ NextWord
    /\ IF Word \in issues.abv
       THEN /\ Classify("ABV", {})
            /\ autotbl' = IF Word \in oktbl THEN autotbl
                          ELSE Restrict(autotbl, DOMAIN autotbl \ {Word})
       ELSE Unremarkable

\* 2. Enclitics.
FindEnclitic ==
    /\ InPass("ENC") /\ NextWord
    /\ IF Word \in issues.enc THEN Classify("ENC", {}) /\ UNCHANGED autotbl
       ELSE Unremarkable

\* 3. Perfect subjunctives: what the list says of the other ending is overruled.
FindPerfect ==
    /\ InPass("PRF") /\ NextWord
    /\ IF Word \notin DOMAIN issues.prf THEN Unremarkable
       ELSE LET opp == issues.prf[Word] IN
            IF Word \in oktbl THEN Unremarkable
            ELSE IF opp \in oktbl \/ (Word \notin DOMAIN autotbl /\ opp \in DOMAIN autotbl)
            THEN /\ autotbl' = Restrict(autotbl, DOMAIN autotbl \ {opp})
                 /\ Become(Add(Tables, "PRF", Word, {})) /\ UNCHANGED autoFound
            ELSE Classify("PRF", {}) /\ UNCHANGED autotbl

\* 4. Hidden long vowels.
FindHidden ==
    /\ InPass("HID") /\ NextWord
    /\ IF Word \in DOMAIN issues.hid
       THEN Classify("HID", {issues.hid[Word]}) /\ UNCHANGED autotbl
       ELSE Unremarkable

\* 5. Orthography, if the option says so.  Reading the notes of the substitutions
\* fails for the first new form: their table has been stored under another name.
FindOrthography ==
    /\ InPass("ORTH") /\ RepairOrth /\ NextWord
    /\ Word \in DOMAIN issues.orth => Word \in oktbl \cup DOMAIN autotbl
    /\ IF Word \in DOMAIN issues.orth THEN Classify("ORTH", {}) /\ UNCHANGED autotbl
       ELSE Unremarkable

Fail == /\ pc' = "end" /\ outcome' = "failed"
        /\ UNCHANGED <<data, autotbl, pos, arr, multi, wsections, autoFound, report>>

OrthographyFails ==
    /\ InPass("ORTH") /\ RepairOrth
    /\ Word \in DOMAIN issues.orth /\ Word \notin oktbl \cup DOMAIN autotbl
    /\ Fail

\* The end of a pass.  Without the option there is no fifth one.
EndPass ==
    /\ \E i \in 1..6 :
          /\ pc = Passes[i] /\ pc' = Passes[i + 1]
          /\ pos > Len(key) \/ (pc = "ORTH" /\ ~RepairOrth)
    /\ pos' = FirstWord
    /\ UNCHANGED <<data, autotbl, arr, multi, wsections, autoFound, report, outcome>>
----------------------------------------------------------------------------
\* 6. Ambiguities: where the forms of a plain word that has several stand.
Parallels(p) == {n \in DOMAIN key : PlainOf[key[n]] = p}

\* A set with a form that is not on the OK list is new.  The second form of an
\* abbreviation has the key "kal.1", which is not letters and a number: no set is found.
NewAmbiguity(p) == /\ Cardinality(Parallels(p)) > 1
                   /\ \A n \in Parallels(p) : key[n] \notin issues.abv
                   /\ \E n \in Parallels(p) : key[n] \notin oktbl

\* Each parallel moves to MULTI, one without an issue so far afresh.
Ambiguous(t, w) ==
    LET moved == IF w \in DOMAIN t.where THEN ToMulti(t, w)
                 ELSE [t EXCEPT !.multi = Store(@, w, {})]
    IN  [moved EXCEPT !.multi = WithIssue(@, w, "AMB")]

\* The tables when the parallels of p have been moved one after the other.
AllAmbiguous(p) ==
    LET t[n \in 0..Len(key)] == IF n = 0 THEN Tables
                                ELSE IF n \in Parallels(p) THEN Ambiguous(t[n - 1], key[n])
                                ELSE t[n - 1]
    IN  t[Len(key)]

\* One plain word, when its first parallel is reached.
FindAmbiguity ==
    /\ InPass("AMB") /\ NextWord
    /\ LET p == PlainOf[Word] IN
       IF NewAmbiguity(p) /\ \A n \in Parallels(p) : pos <= n
       THEN IF \E n \in Parallels(p) : key[n] \in DOMAIN wsections
            THEN Become(AllAmbiguous(p))
            ELSE /\ arr' = [arr EXCEPT !["AMB"] = Append(@, p)]
                 /\ UNCHANGED <<multi, wsections>>
       ELSE UNCHANGED <<arr, multi, wsections>>
    /\ UNCHANGED <<autotbl, autoFound>>

----------------------------------------------------------------------------
\* The report: what it shows of each form, and in which section.
Entry(section, w, shows) == [section |-> section, form |-> w, shows |-> shows]

\* The orthography is left out without the option.
Printed == IF RepairOrth THEN Sections ELSE Sections \ {"ORTH"}

\* The issues shown of a form in MULTI: that of a perfect only with an option that
\* nothing ever sets.
Shown(w) == multi[w] \cap ((Printed \ {"PRF"}) \cup {"AMB"})

MultiEntries == {Entry("MULTI", w, Shown(w)) : w \in DOMAIN multi}
ListEntries(s) == {Entry(s, arr[s][i], {s}) : i \in DOMAIN arr[s]}
ParallelEntries(p) == {Entry("AMB", key[n], {"AMB"}) : n \in Parallels(p)}

Entries == MultiEntries \cup UNION ({ListEntries(s) : s \in Printed}
                                   \cup {ParallelEntries(p) : p \in Range(arr["AMB"])})

\* writerepairsfile.  An automatic abbreviation is printed through a variable that
\* does not exist.
WriteRepairs ==
    /\ pc = "write" /\ autoFound["ABV"] = {}
    /\ pc' = "history" /\ report' = Entries
    /\ UNCHANGED <<data, autotbl, pos, arr, multi, wsections, autoFound, outcome>>

WriteFails == pc = "write" /\ autoFound["ABV"] # {} /\ Fail

\* saverepairhistory: autotbl as the passes have left it.
SaveHistory ==
    /\ pc = "history"
    /\ pc' = "end" /\ outcome' = "done"
    /\ UNCHANGED <<data, autotbl, pos, arr, multi, wsections, autoFound, report>>

Next == \/ FindAbbreviation \/ FindEnclitic \/ FindPerfect \/ FindHidden
        \/ FindOrthography \/ OrthographyFails \/ FindAmbiguity \/ EndPass
        \/ WriteRepairs \/ WriteFails \/ SaveHistory

Spec == Init /\ [][Next]_vars
----------------------------------------------------------------------------
\* Types of the working tables; a pass never goes past the end of the key.
TypeOK ==
    /\ pos \in 1..(Len(key) + 1)
    /\ DOMAIN arr = Sections \cup {"AMB"}
    /\ \A s \in Sections : arr[s] \in Seq(Forms)
    /\ arr["AMB"] \in Seq(Plains)
    /\ DOMAIN multi \cup DOMAIN wsections \subseteq Forms
    /\ \A w \in DOMAIN multi : multi[w] \subseteq Sections \cup {"AMB"}
    /\ \A s \in Sections : autoFound[s] \subseteq Forms

\* "each word can be in only one section" (fixkey.lua): the arrays and MULTI never
\* share a form, however forms move between them.
InArray(w, s) == \E i \in DOMAIN arr[s] : arr[s][i] = w

OneSection ==
    \A w \in Forms : \A s \in Sections : InArray(w, s) =>
        /\ w \notin DOMAIN multi
        /\ \A r \in Sections \ {s} : ~InArray(w, r)
        /\ Cardinality({i \in DOMAIN arr[s] : arr[s][i] = w}) = 1

\* Why: wsections says of each form of an array which one that is, and no form of an
\* array is in MULTI or in the array twice.
Filed(t) ==
    \A s \in Sections :
        /\ \A i \in DOMAIN t.arr[s] : /\ t.arr[s][i] \in DOMAIN t.where \ DOMAIN t.multi
                                      /\ t.where[t.arr[s][i]] = s
        /\ \A i, j \in DOMAIN t.arr[s] : t.arr[s][i] = t.arr[s][j] => i = j

\* A form may be in MULTI with nothing in wsections: one whose replacement had an
\* issue already.  It is not listed again, as the replacement keeps its place; in the
\* last pass any parallel may be such a form, but no array is added to.
Alone ==
    \A w \in DOMAIN multi \ DOMAIN wsections :
        \/ pc \in {"AMB", "write", "history", "end"}
        \/ /\ pc \in {"HID", "ORTH"}
           /\ w \in DOMAIN issues.hid /\ issues.hid[w] \in DOMAIN wsections

IInv == /\ TypeOK /\ key \in Keys /\ issues \in IssueTables /\ DOMAIN autoFound = Sections
        /\ \A w \in DOMAIN wsections : wsections[w] \in Sections \cup {"MULTI"}
        /\ Filed(Tables) /\ Alone

\* The issues of a form that the passes are to report: those of a form of the key that
\* neither list settles.  That a perfect is replaced automatically settles it only as
\* long as the other ending is not on the OK list.
Asked(w) == w \in Range(key) /\ w \notin oktbl /\ w \notin DOMAIN autotbl

AskedPerfect(w) ==
    /\ w \in Range(key) \cap DOMAIN issues.prf /\ w \notin oktbl
    /\ w \in DOMAIN autotbl => issues.prf[w] \in oktbl

Due(s, w) ==
    CASE s = "ABV" -> Asked(w) /\ w \in issues.abv
      [] s = "ENC" -> Asked(w) /\ w \in issues.enc
      [] s = "PRF" -> AskedPerfect(w)
      [] s = "HID" -> Asked(w) /\ w \in DOMAIN issues.hid
      [] s = "ORTH" -> FALSE

TrueIssues(w) ==
    {s \in Sections : Due(s, w)}
      \cup (IF w \in Range(key) /\ NewAmbiguity(PlainOf[w]) THEN {"AMB"} ELSE {})

\* An entry of the report shows all issues of its form, wherever the passes have moved
\* this: one in a section has no other, and one in MULTI each, but for the perfect, which
\* is never shown there.
ListedFully ==
    \A e \in report :
        e.shows = TrueIssues(e.form) \ (IF e.section = "MULTI" THEN {"PRF"} ELSE {})

\* "these concatenations are adapted or copied from each loop below. these MUST
\* correspond to those!" (fixkey.lua, of MULTI): no issue of a listed form is left out.
ShownInMulti == \A e \in report : TrueIssues(e.form) \subseteq e.shows

Written == outcome = "done"

\* Every form with an issue is listed ("Detects possible errors in the word key,
\* and saves them for user review", README.md).
EveryIssueListed ==
    Written => \A w \in Forms : TrueIssues(w) # {} => \E e \in report : e.form = w

\* Perfect subjunctives with the ending that is to be changed are listed ("Long ī
\* will be shortened in perfect subjunctive verb forms", _repairs.txt).
PerfectsListed ==
    Written => \A w \in DOMAIN issues.prf :
        Asked(issues.prf[w]) => \E e \in report : e.form = issues.prf[w]

\* Analyze Key writes its report.
AnalyzeSucceeds == outcome # "failed"
============================================================================
