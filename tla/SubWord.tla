------------------------------ MODULE SubWord ------------------------------
(***************************************************************************)
(* The substitutions of orthography.txt as Macronize makes them in one word *)
(* (scripts/macra.lua subword, issubvalid): first the sure ones, then, while *)
(* the result is not in the key, the doubtful ones, call after call, each    *)
(* with the result of the last; and how the spelling of the text is put back *)
(* once a form is found (scripts/mac.lua).                                   *)
(*                                                                          *)
(* Words are sequences of letters.  Whether a result is in the key is open,  *)
(* so that every call may be the last.                                       *)
(***************************************************************************)
EXTENDS Naturals, Sequences, SequencesExt, FiniteSetsExt, Functions

CONSTANTS
    Letters,
    Words,       \* words of the text
    EntryLists,  \* substitution lists: sequences of entries
    Enclitics

Plain == Seq(Letters)

\* An entry, with its modifiers: left "begin" for [ and "continue" for <, right
\* "end" for ] and "continue" for >, nochain for *, doubt for ~.
IsEntry(e) ==
    /\ e.orig \in Plain \ {<< >>} /\ e.repl \in Plain \ {<< >>}
    /\ e.left \in {"any", "begin", "continue"} /\ e.right \in {"any", "end", "continue"}
    /\ e.nochain \in BOOLEAN /\ e.doubt \in BOOLEAN

ASSUME SubWordAssumption ==
    /\ Words \subseteq Plain /\ Enclitics \subseteq Plain
    /\ \A list \in EntryLists : list \in Seq(Range(list)) /\ \A e \in Range(list) : IsEntry(e)

VARIABLES
    w, entries,       \* the call: word and list
    doubtful,         \* includedoubtful
    prevdsubw, prevAt,\* the word and the substitutions of the last doubtful call
    i, findstart,     \* the entry, and where to look for it
    subw,             \* the word so far
    at,               \* subatpostbl: the entry substituted at a position
    subbed,           \* a substitution has been made
    suresubw,         \* what the first call has returned
    pc,               \* "call", "returned", "found", "notfound"
    finalw            \* the word as it goes into the text

call == <<w, entries, doubtful, prevdsubw, prevAt>>
vars == <<call, i, findstart, subw, at, subbed, suresubw, pc, finalw>>

None == << >>
NoSubs == [p \in {} |-> 0]
----------------------------------------------------------------------------
\* s with what stands at p..q replaced by t.
Replaced(s, p, q, t) == SubSeq(s, 1, p - 1) \o t \o SubSeq(s, q + 1, Len(s))

Occurrences(s, orig) ==
    {p \in 1..(Len(s) - Len(orig) + 1) : SubSeq(s, p, p + Len(orig) - 1) = orig}

Entry == entries[i]

FirstEntry == 1

\* Mutated form: from behind findstart on.
Later_after == {p \in Occurrences(subw, Entry.orig) : p > findstart}

\* string.find, from findstart on.
Later == {p \in Occurrences(subw, Entry.orig) : p >= findstart}
ReplStart == Min(Later)
ReplEnd == ReplStart + Len(Entry.orig) - 1

\* Mutated form: without the modifier against chains.
Valid_chained ==
    /\ (Entry.left = "begin") => ReplStart = 1
    /\ (Entry.left = "continue") => ReplStart > 1
    /\ (Entry.right = "end") => ReplEnd = Len(subw)
    /\ (Entry.right = "continue") => ReplEnd < Len(subw)

\* issubvalid.  The left modifier < overrules the one against chains.  The search for
\* an enclitic compares with a variable that does not exist and never finds one.
Valid ==
    /\ Entry.nochain /\ Entry.left # "continue" => ~subbed
    /\ (Entry.left = "begin") => ReplStart = 1
    /\ (Entry.left = "continue") => ReplStart > 1
    /\ (Entry.right = "end") => ReplEnd = Len(subw)
    /\ (Entry.right = "continue") => ReplEnd < Len(subw)

\* The entry the last doubtful call has substituted here, else its first doubtful one.
PrevSubs ==
    IF ReplStart \in DOMAIN prevAt THEN {prevAt[ReplStart]}
    ELSE LET doubts == {p \in DOMAIN prevAt : p <= Len(prevdsubw) /\ entries[prevAt[p]].doubt}
         IN  IF doubts = {} THEN {} ELSE {prevAt[Min(doubts)]}

\* Mutated form: the same entry may be taken again.
Fresh_again(newsubw) ==
    prevdsubw # None => newsubw # prevdsubw /\ \E k \in PrevSubs : k <= i

\* In a later doubtful call, only entries behind the one of the last call.
Fresh(newsubw) ==
    prevdsubw # None => newsubw # prevdsubw /\ \E k \in PrevSubs : k < i

InCall == pc = "call" /\ i <= Len(entries)

\* One occurrence.
Substitute ==
    /\ InCall /\ Later # {} /\ Valid
    /\ LET newsubw == Replaced(subw, ReplStart, ReplEnd, Entry.repl) IN
       IF (doubtful \/ ~Entry.doubt) /\ Fresh(newsubw)
       THEN /\ subw' = newsubw /\ subbed' = TRUE
            /\ at' = [p \in DOMAIN at \cup {ReplStart} |-> IF p = ReplStart THEN i ELSE at[p]]
       ELSE UNCHANGED <<subw, subbed, at>>
    /\ findstart' = ReplEnd + 1
    /\ UNCHANGED <<call, i, suresubw, pc, finalw>>

\* None left, or one that the modifiers exclude: the next entry.
NextEntry ==
    /\ InCall /\ (Later # {} => ~Valid)
    /\ i' = i + 1 /\ findstart' = 1
    /\ UNCHANGED <<call, subw, at, subbed, suresubw, pc, finalw>>

Return ==
    /\ pc = "call" /\ i > Len(entries)
    /\ at' = IF subw = w THEN NoSubs ELSE at
    /\ suresubw' = IF doubtful THEN suresubw ELSE subw
    /\ pc' = "returned"
    /\ UNCHANGED <<call, i, findstart, subw, subbed, finalw>>

\* The first call, or one whose result has not been looked up before.
IsNew == doubtful => subw # suresubw /\ subw # prevdsubw

Call(doubt, prev, subs) ==
    /\ doubtful' = doubt /\ prevdsubw' = prev /\ prevAt' = subs
    /\ i' = FirstEntry /\ findstart' = 1 /\ subw' = w /\ at' = NoSubs /\ subbed' = FALSE
    /\ pc' = "call"

\* The result is not in the key: the next call.
CallAgain ==
    /\ pc = "returned" /\ IsNew
    /\ IF doubtful THEN Call(TRUE, subw, at) ELSE Call(TRUE, None, NoSubs)
    /\ UNCHANGED <<w, entries, suresubw, finalw>>

GiveUp ==
    /\ pc = "returned" /\ ~IsNew
    /\ pc' = "notfound" /\ finalw' = w
    /\ UNCHANGED <<call, i, findstart, subw, at, subbed, suresubw>>

\* Mutated form: from the left, where each replacement moves what follows.
Positions_left(s) == [k \in 1..Len(s) |-> k]

\* The positions of s, from the right.
Positions(s) == [k \in 1..Len(s) |-> Len(s) + 1 - k]

\* s with the original in place of the replacement at a position, where at has one.
Reverted(s, p) ==
    IF p \in DOMAIN at
    THEN Replaced(s, p, p + Len(entries[at[p]].repl) - 1, entries[at[p]].orig)
    ELSE s

Restored ==
    LET back[n \in 0..Len(subw)] ==
            IF n = 0 THEN subw ELSE Reverted(back[n - 1], Positions(subw)[n])
    IN  back[Len(subw)]

Find ==
    /\ pc = "returned" /\ IsNew
    /\ pc' = "found" /\ finalw' = Restored
    /\ UNCHANGED <<call, i, findstart, subw, at, subbed, suresubw>>

Init ==
    /\ w \in Words /\ entries \in EntryLists
    /\ doubtful = FALSE /\ prevdsubw = None /\ prevAt = NoSubs
    /\ i = FirstEntry /\ findstart = 1 /\ subw = w /\ at = NoSubs /\ subbed = FALSE
    /\ suresubw = None /\ pc = "call" /\ finalw = None

Next == Substitute \/ NextEntry \/ Return \/ CallAgain \/ GiveUp \/ Find

\* Sequential code goes on while a step is left.
Spec == Init /\ [][Next]_vars /\ WF_vars(Next)
----------------------------------------------------------------------------
\* Types of the working variables.
TypeOK ==
    /\ subw \in Plain /\ suresubw \in Plain /\ finalw \in Plain /\ prevdsubw \in Plain
    /\ i \in 1..(Len(entries) + 1) /\ findstart \in Nat \ {0}
    /\ \A p \in DOMAIN at : p \in Nat \ {0} /\ at[p] \in DOMAIN entries
    /\ doubtful \in BOOLEAN /\ subbed \in BOOLEAN

\* Every word is found or given up: no call goes round in circles, and no series of
\* calls comes back to a result it has seen ("up to twice again", mac.lua).
CallsEnd == <>(pc \in {"found", "notfound"})

\* "The original orthography is kept in the end" (orthography.txt).
SpellingKept == pc \in {"found", "notfound"} => finalw = w

\* No substitution replaces a letter at which an earlier one begins, and one that changes
\* the length of the word stands behind all earlier ones: only then does subatpostbl still
\* say at what positions they are when they are undone (macra.lua subword).
Undisturbing ==
    Substitute /\ <<subw, at>>' # <<subw, at>> =>
        \A p \in DOMAIN at : /\ p \notin ReplStart..ReplEnd
                             /\ Len(subw') # Len(subw) => p < ReplStart
Undisturbed == [][Undisturbing]_vars

\* An occurrence that the documented meaning of the modifiers allows.
Allowed(e, s, p) ==
    /\ p \in Occurrences(s, e.orig)
    /\ e.left = "begin" => p = 1
    /\ e.left = "continue" => p > 1
    /\ e.right = "end" => p + Len(e.orig) - 1 = Len(s)
    /\ e.right = "continue" => p + Len(e.orig) - 1 < Len(s)

\* Of one entry, every occurrence that its modifiers allow is substituted ("< = only if
\* the string does not begin the word", hidden.txt).
Thorough ==
    pc = "returned" /\ Len(entries) = 1 /\ ~entries[1].doubt =>
        \A p \in 1..Len(subw) : ~Allowed(entries[1], subw, p)

\* "possible enclitics, if detected, are ignored for the purposes of strings
\* substituted only at the ends of words" (macra.lua).
EncliticsIgnored ==
    pc = "returned" /\ Len(entries) = 1 /\ ~entries[1].doubt /\ entries[1].right = "end" =>
        \A e \in Enclitics : IsSuffix(e, subw) =>
            ~IsSuffix(entries[1].orig, SubSeq(subw, 1, Len(subw) - Len(e)))
============================================================================
