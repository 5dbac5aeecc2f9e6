------------------------------ MODULE MacWord ------------------------------
(***************************************************************************)
(* Macronize (scripts/mac.lua): the variation loop, which looks one word up *)
(* in the key as it is, without an enclitic, without a prefix, without      *)
(* both, then again without its period and with doubtful orthographic       *)
(* substitutions, until a variation is known.                               *)
(*                                                                          *)
(* A word is a sequence of parts (prefix, stem, enclitic, period).  What    *)
(* subword makes of it is data: the sure substitutions, and what each later *)
(* call returns with the doubtful ones (module SubWord).                    *)
(***************************************************************************)
EXTENDS Integers, Sequences, SequencesExt, FiniteSetsExt

CONSTANTS
    Parts, Period,
    Words,       \* words to look up: [sure |-> word, doubts |-> words]
    Keys,        \* keys: from plain words to the frequencies of their forms, 0 if typed
    PrefixList,  \* macra.prefixtbl, in the order of prefixes.txt
    Enclitics    \* macra.enclitictbl

Plain == Seq(Parts)

\* ignorechars leaves a word the one period that it ends with.
OnePeriod(s) == \A i \in 1..(Len(s) - 1) : s[i] # Period

ASSUME MacWordAssumption ==
    /\ Period \in Parts
    /\ \A w \in Words : /\ w.sure \in Plain /\ OnePeriod(w.sure)
                        /\ w.doubts \in Seq(Plain)
                        /\ \A n \in DOMAIN w.doubts : OnePeriod(w.doubts[n])
    /\ \A k \in Keys : /\ DOMAIN k \subseteq Plain \ {<< >>}
                       /\ \A p \in DOMAIN k : k[p] \in Seq(Nat) /\ k[p] # << >>
    /\ PrefixList \in Seq(Plain \ {<< >>}) /\ Enclitics \subseteq Plain \ {<< >>}

VARIABLES
    key, word,
    plainw,           \* the word of these variations
    plainwtry,        \* the variation to be looked up
    enclitic, prefix, \* << >> for none
    triedenclitics, triedprefixes, triedencliticstwice,
    periodremoved,
    subs,             \* calls of subword with doubtful substitutions so far
    result            \* "none", "notfound", or "sure", "guess", "ambig" when found

input == <<key, word>>
tried == <<triedenclitics, triedprefixes, triedencliticstwice>>
affixes == <<enclitic, prefix>>
base == <<plainw, periodremoved, subs>>
vars == <<input, base, plainwtry, affixes, tried, result>>
----------------------------------------------------------------------------
Init ==
    /\ key \in Keys /\ word \in Words
    /\ plainw = word.sure /\ plainwtry = word.sure
    /\ enclitic = << >> /\ prefix = << >>
    /\ triedenclitics = FALSE /\ triedprefixes = FALSE /\ triedencliticstwice = FALSE
    /\ periodremoved = FALSE /\ subs = 0
    /\ result = "none"

Known == plainwtry \in DOMAIN key

\* loadkey gives each form a frequency, 0 to one that was typed; 0 is true in Lua.
Freqs == key[plainwtry]
TopFreq == Max(Range(Freqs))

Total(f) ==
    LET Upto[n \in 0..Len(f)] == IF n = 0 THEN 0 ELSE Upto[n - 1] + f[n]
    IN  Upto[Len(f)]

\* Mutated form: against the runner-up in place of all.
Likely_runnerUp == \A i \in DOMAIN Freqs : Freqs[i] = TopFreq \/ 3 * Freqs[i] <= TopFreq

\* GUESS_THRESHOLD is 0.75.  Of forms that no text has, none is likely.
Likely == Total(Freqs) > 0 /\ 4 * TopFreq >= 3 * Total(Freqs)

\* The variation is known: its only form, a guess, or tildes.
Apply ==
    /\ result = "none" /\ Known
    /\ result' = IF Len(key[plainwtry]) = 1 THEN "sure" ELSE IF Likely THEN "guess" ELSE "ambig"
    /\ UNCHANGED <<input, base, plainwtry, affixes, tried>>

Miss == result = "none" /\ ~Known /\ UNCHANGED <<input, result>>

\* s:sub(1, #s - n): s without its last n parts; Lua counts a negative end from the back.
Without(s, n) == SubSeq(s, 1, IF n <= Len(s) THEN Len(s) - n ELSE 2 * Len(s) - n + 1)

\* The enclitics that s ends with, << >> if there is none.
Fitting(s) == LET ends == {e \in Enclitics : IsSuffix(e, s)} IN IF ends = {} THEN {<< >>} ELSE ends

\* 2nd variation: minus an enclitic, any that fits.
TryEnclitic ==
    /\ Miss /\ ~triedenclitics /\ enclitic = << >>
    /\ \E e \in Fitting(plainwtry) : enclitic' = e /\ plainwtry' = Without(plainwtry, Len(e))
    /\ triedenclitics' = TRUE
    /\ UNCHANGED <<base, prefix, triedprefixes, triedencliticstwice>>

\* 4th variation: the length of the enclitic is cut from what the prefix has left.
TryBoth ==
    /\ Miss /\ ~triedenclitics /\ enclitic # << >>
    /\ plainwtry' = Without(plainwtry, Len(enclitic))
    /\ triedenclitics' = TRUE
    /\ UNCHANGED <<base, affixes, triedprefixes, triedencliticstwice>>

\* Mutated form: from the variation without the enclitic.
Whole_try == plainwtry

Whole == plainw

\* The first prefix of the list that fits, << >> if none does.
FirstPrefix(s) ==
    LET fits == {i \in DOMAIN PrefixList : IsPrefix(PrefixList[i], s)}
    IN  IF fits = {} THEN << >> ELSE PrefixList[Min(fits)]

\* 3rd variation: minus a prefix.
TryPrefix ==
    /\ Miss /\ triedenclitics /\ ~triedprefixes
    /\ prefix' = FirstPrefix(Whole)
    /\ plainwtry' = IF prefix' = << >> THEN plainwtry
                    ELSE SubSeq(Whole, Len(prefix') + 1, Len(Whole))
    /\ triedprefixes' = TRUE
    /\ UNCHANGED <<base, enclitic, triedenclitics, triedencliticstwice>>

AllTried == Miss /\ triedenclitics /\ triedprefixes
BothLeft == enclitic # << >> /\ prefix # << >> /\ ~triedencliticstwice

\* Mutated form: nothing keeps the fourth variation from being tried again.
Twice_forgotten == FALSE

Twice == TRUE

TryEncliticsAgain ==
    /\ AllTried /\ BothLeft
    /\ triedenclitics' = FALSE /\ triedencliticstwice' = Twice
    /\ UNCHANGED <<base, plainwtry, affixes, triedprefixes>>

\* Mutated form: the affixes of the earlier word stay.
NoAffixes_kept == UNCHANGED affixes

NoAffixes == enclitic' = << >> /\ prefix' = << >>

\* The variations over again, with another word.
Restart(w) ==
    /\ plainw' = w /\ plainwtry' = w
    /\ triedenclitics' = FALSE /\ triedprefixes' = FALSE /\ triedencliticstwice' = FALSE
    /\ NoAffixes

Abbreviated == plainw # << >> /\ Last(plainw) = Period

RemovePeriod ==
    /\ AllTried /\ ~BothLeft /\ Abbreviated
    /\ Restart(Without(plainw, 1))
    /\ periodremoved' = TRUE
    /\ UNCHANGED subs

\* What the next call of subword returns; nothing new after the last one.
Doubtful(n) == IF n = 0 THEN << >>
               ELSE IF n <= Len(word.doubts) THEN word.doubts[n]
               ELSE IF word.doubts = << >> THEN word.sure ELSE Last(word.doubts)

IsNew(n) == Doubtful(n) # word.sure /\ (n = 1 \/ Doubtful(n) # Doubtful(n - 1))

TryDoubtful ==
    /\ AllTried /\ ~BothLeft /\ ~Abbreviated
    /\ IsNew(subs + 1)
    /\ subs' = subs + 1
    /\ periodremoved' = FALSE
    /\ Restart(Doubtful(subs + 1))

NotFound ==
    /\ result = "none" /\ ~Known /\ triedenclitics /\ triedprefixes
    /\ ~BothLeft /\ ~Abbreviated /\ ~IsNew(subs + 1)
    /\ periodremoved' = FALSE /\ result' = "notfound"
    /\ UNCHANGED <<input, plainw, subs, plainwtry, affixes, tried>>

Next == \/ Apply \/ TryEnclitic \/ TryBoth \/ TryPrefix \/ TryEncliticsAgain
        \/ RemovePeriod \/ TryDoubtful \/ NotFound

\* The loop is sequential code: it goes on while a step is left.
Spec == Init /\ [][Next]_vars /\ WF_vars(Next)
----------------------------------------------------------------------------
\* Types; subword is not called again for what it has returned already.
TypeOK ==
    /\ key \in Keys /\ word \in Words
    /\ \A b \in {triedenclitics, triedprefixes, triedencliticstwice, periodremoved} : b \in BOOLEAN
    /\ plainw \in Plain /\ plainwtry \in Plain /\ enclitic \in Enclitics \cup {<< >>}
    /\ prefix \in ToSet(PrefixList) \cup {<< >>}
    /\ subs \in 0..Len(word.doubts)
    /\ result \in {"none", "notfound", "sure", "guess", "ambig"}

\* The loop ends for every word ("will run up to 16 times", mac.lua).
LoopEnds == <>(result # "none")

found == result \in {"sure", "guess", "ambig"}

\* The word that the current variations are of, its period included.
CurrentWord == IF subs = 0 THEN word.sure ELSE word.doubts[subs]

\* What goes into the text: the affixes around the form, and the period of the text,
\* which stays when it has been removed from the word.
Written == prefix \o plainwtry \o enclitic \o (IF periodremoved THEN <<Period>> ELSE << >>)

\* The form that replaces a word spells this word: no part is lost, none is added.
SpellsWord == found => Written = CurrentWord

\* So it is but for one case: a word known without its prefix is written with the
\* enclitic of the second variation once more behind it.
SpellsUpToEnclitic ==
    found => \/ Written = CurrentWord
             \/ /\ prefix # << >> /\ enclitic # << >> /\ IsSuffix(enclitic, plainw)
                /\ Written = plainw \o enclitic \o (IF periodremoved THEN <<Period>> ELSE << >>)

\* The variations of w in their order (the comment above the loop), for one enclitic e and
\* the first prefix.
Variations(w, e) ==
    LET p == Len(FirstPrefix(w))
    IN  <<w, Without(w, Len(e)), SubSeq(w, p + 1, Len(w)), SubSeq(w, p + 1, Len(w) - Len(e))>>

\* The words tried, in their order: for each substitution with the period and without.
Tried == {n \in 0..Len(word.doubts) : \A m \in 1..n : IsNew(m)}

Bases(n) ==
    LET w == IF n = 0 THEN word.sure ELSE word.doubts[n]
    IN  IF w # << >> /\ Last(w) = Period THEN <<w, Without(w, 1)>> ELSE <<w>>

FirstKnown(s) == \E i \in DOMAIN s : /\ s[i] = plainwtry /\ s[i] \in DOMAIN key
                                     /\ \A j \in 1..(i - 1) : s[j] \notin DOMAIN key

NoneKnown(w) == \E e \in Fitting(w) : \A i \in 1..4 : Variations(w, e)[i] \notin DOMAIN key

\* None of the words tried before the b-th one for substitution n is known.
NoneBefore(n, b) ==
    \A m \in Tried : \A c \in DOMAIN Bases(m) : m < n \/ (m = n /\ c < b) => NoneKnown(Bases(m)[c])

NotThere == \A n \in Tried : \A b \in DOMAIN Bases(n) : NoneKnown(Bases(n)[b])

\* The form taken belongs to the first variation known, in the order of the comment
\* above the loop, and a word is not found only if none of them is known.
FirstVariation ==
    /\ found => \E n \in Tried : \E b \in DOMAIN Bases(n) :
          /\ \E e \in Fitting(Bases(n)[b]) : FirstKnown(Variations(Bases(n)[b], e))
          /\ NoneBefore(n, b)
    /\ result = "notfound" => NotThere

\* A guess occurs in the texts, three times as often as all the other forms together, so
\* that it is the same in every order of pairs() ("Guessed based on frequency").
GuessSound ==
    result = "guess" =>
        \E i \in DOMAIN Freqs : /\ Freqs[i] > 0
                                /\ Freqs[i] >= 3 * Total([Freqs EXCEPT ![i] = 0])
----------------------------------------------------------------------------
\* The enclitics of enclitics.txt: que, ne and ve.
ShortEnclitics == \A e \in Enclitics : Len(e) <= 3

\* The first k variations are not known.
Unknown(k) == \A i \in 1..k : Variations(plainw, enclitic)[i] \notin DOMAIN key

\* What the flags say of the variation and its affixes.
Phase ==
    \/ /\ ~triedenclitics /\ ~triedprefixes /\ ~triedencliticstwice
       /\ plainwtry = plainw /\ prefix = << >> /\ enclitic = << >>
    \/ /\ enclitic \in Fitting(plainw) /\ Unknown(1)
       /\ \/ /\ triedenclitics /\ ~triedencliticstwice /\ prefix = << >>
             /\ plainwtry = Variations(plainw, enclitic)[2]
             /\ triedprefixes => Unknown(4)
          \/ /\ triedprefixes /\ prefix = FirstPrefix(plainw) /\ prefix # << >> /\ Unknown(2)
             /\ \/ /\ triedenclitics /\ ~triedencliticstwice
                   /\ plainwtry = Variations(plainw, enclitic)[3]
                \/ /\ ~triedenclitics /\ triedencliticstwice /\ Unknown(3) /\ enclitic # << >>
                   /\ plainwtry = Variations(plainw, enclitic)[3]
                \/ /\ triedenclitics /\ triedencliticstwice /\ Unknown(3)
                   /\ plainwtry = Variations(plainw, enclitic)[4] \/ (Unknown(4) /\ ~Known)

\* The word of these variations, with the period or without.
PeriodsOff == IF periodremoved THEN 2 ELSE 1

Base == /\ subs \in Tried /\ PeriodsOff \in DOMAIN Bases(subs)
        /\ plainw = Bases(subs)[PeriodsOff]
        /\ NoneBefore(subs, PeriodsOff)

Found == (found => Known) /\ (result = "guess" => Likely)

IInv == /\ TypeOK /\ Found
        /\ result # "notfound" => Phase /\ Base
        /\ result = "notfound" => NotThere
============================================================================
