------------------------------- MODULE Corpus -------------------------------
(***************************************************************************)
(* What Exmacronize and Clear Key promise: the word key is an account of   *)
(* the listed texts, to which the user may add words.  Each of the actions *)
(* happens at once here.  Module Lifecycle has the files, the memory and   *)
(* the steps by which the programs do it, and implements this.             *)
(***************************************************************************)
EXTENDS Naturals, Sequences, FiniteSets

CONSTANTS Forms, Headers,
          Text           \* Text[h]: the words of the text with header h

VARIABLES key,           \* from forms to their frequencies and sources
          listed,        \* the headers of the texts that have been learned
          sound          \* no program has been stopped while it wrote its files

vars == <<key, listed, sound>>

\* The places where form w occurs in the texts of the headers in S.
Occurrences(w, S) ==
    UNION {{h} \X {i \in DOMAIN Text[h] : Text[h][i] = w} : h \in S}

FormsOf(S) == {w \in Forms : Occurrences(w, S) # {}}

\* What form w has in the key; a form that is not there counts as one that was typed.
Typed == [freq |-> 0, srcs |-> {}]

Entry(w) == IF w \in DOMAIN key THEN key[w] ELSE Typed

\* The account for form w when the texts in S are added.
WithTexts(w, S) ==
    [freq |-> Entry(w).freq + Cardinality(Occurrences(w, S)),
     srcs |-> Entry(w).srcs \cup {h \in S : Occurrences(w, {h}) # {}}]
----------------------------------------------------------------------------
Init == key = [w \in {} |-> Typed] /\ listed = {} /\ sound = TRUE

\* A run of Exmacronize: all of the new texts are learned.
Learn(S) ==
    /\ listed' = listed \cup S
    /\ key' = [w \in DOMAIN key \cup FormsOf(S) |-> WithTexts(w, S)]

\* The user types a word.
Type(w) ==
    /\ key' = [v \in DOMAIN key \cup {w} |-> Entry(v)]
    /\ UNCHANGED listed

\* Clear Key: all that was learned goes.
Clear ==
    /\ listed' = {}
    /\ key' = [w \in {v \in DOMAIN key : key[v].freq = 0} |-> key[w]]

\* Key and list are in step.
Exact ==
    \A w \in DOMAIN key :
        key[w] = [freq |-> Cardinality(Occurrences(w, listed)),
                  srcs |-> {h \in listed : Occurrences(w, {h}) # {}}]

Work == /\ UNCHANGED sound
        /\ \/ \E S \in (SUBSET (Headers \ listed)) \ {{}} : Learn(S)
           \/ \E w \in Forms \ DOMAIN key : Type(w)
           \/ Clear

\* Whatever happens while the files are out of step, they are right when it is over.
Repair == ~sound /\ sound' /\ Exact'

Next == (sound /\ Work) \/ ~sound' \/ Repair

Spec == Init /\ [][Next]_vars
============================================================================
