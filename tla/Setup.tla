------------------------------- MODULE Setup -------------------------------
(***************************************************************************)
(* How a list of substitutions is read (scripts/macra.lua setupsubs), how  *)
(* initialize adds its own pairs, and which entries subword then meets.    *)
(*                                                                         *)
(* An entry is the number of its line; a pair is a number beyond these.    *)
(* The tables are Lua tables: #t, behind which table.insert puts a value,  *)
(* is any border of t, i.e. any index with a value before one without.     *)
(***************************************************************************)
EXTENDS Naturals, Sequences, FiniteSets, SequencesExt

CONSTANTS
    Constants,   \* characters that may be declared as constants
    Malformed,   \* those that string.find does not take for a pattern: % and (
    Wild,        \* those that are a pattern found in every line: . ^ $
    NoConst,     \* what a line has that has no constant
    PairCounts,  \* how many pairs are added: none to hidden.txt
    MaxLines     \* bound: the length of a list

ASSUME SetupAssumption ==
    /\ Malformed \subseteq Constants /\ Wild \subseteq Constants \ Malformed
    /\ NoConst \notin Constants
    /\ PairCounts \subseteq Nat /\ MaxLines \in Nat

\* A line declares a constant or, which is refused, a modifier; or it is an entry, with at
\* most one constant in it.  An entry is unreadable if a side is missing, and bare if there
\* are only modifiers on the left.
Line == [kind : {"declare"}, const : Constants]
        \cup [kind : {"refused"}]
        \cup [kind : {"entry", "unreadable"}, const : Constants \cup {NoConst},
              modified : BOOLEAN]
        \cup [kind : {"bare"}, const : Constants \cup {NoConst}]

VARIABLES
    list, pairs,                \* the list, and how many pairs are added to it
    n,                          \* the line
    constanttbl,                \* the constants declared so far
    sublinetbl,                 \* whether it is a table; at first it is nil
    i,                          \* the index of the next entry
    origtbl, repltbl, modtbl,   \* left sides, right sides, modifiers
    len,                        \* #repltbl, up to which subword goes
    pc                          \* "read", "add", "done" or "failed"

tables == <<origtbl, repltbl, modtbl>>
vars == <<list, pairs, n, constanttbl, sublinetbl, i, tables, len, pc>>
----------------------------------------------------------------------------
EmptyTable == [x \in {} |-> 0]

Store(t, x, v) == [y \in DOMAIN t \cup {x} |-> IF y = x THEN v ELSE t[y]]

Borders(t) == {b \in {0} \cup DOMAIN t : b + 1 \notin DOMAIN t}

Current == list[n]

\* Mutated form: the first entry is not the first subword looks at.
FirstIndex_zero == 0

FirstIndex == 1

Pair(k) == MaxLines + k

Init ==
    /\ list \in BoundedSeq(Line, MaxLines) /\ pairs \in PairCounts
    /\ n = 1 /\ constanttbl = {} /\ sublinetbl = FALSE /\ i = FirstIndex
    /\ origtbl = EmptyTable /\ repltbl = EmptyTable /\ modtbl = EmptyTable
    /\ len = 0 /\ pc = "read"

AtLine(kinds) == pc = "read" /\ n <= Len(list) /\ Current.kind \in kinds

Declare ==
    /\ AtLine({"declare"})
    /\ constanttbl' = constanttbl \cup {Current.const}
    /\ n' = n + 1
    /\ UNCHANGED <<list, pairs, sublinetbl, i, tables, len, pc>>

\* throwerror prints, and the list is read on.
Refuse ==
    /\ AtLine({"refused"})
    /\ n' = n + 1
    /\ UNCHANGED <<list, pairs, constanttbl, sublinetbl, i, tables, len, pc>>

\* The constants that string.find finds in the line.
Found == {c \in constanttbl : c = Current.const \/ c \in Wild}

\* For each constant found, the line with each of its values in its place is inserted in
\* sublinetbl, which holds the entry before, and is nil before the first.
Breaks == \/ constanttbl \cap Malformed # {}
          \/ Found # {} /\ ~sublinetbl

Fail ==
    /\ AtLine({"entry", "unreadable", "bare"})
    /\ Breaks \/ Current.kind = "bare"
    /\ pc' = "failed"
    /\ UNCHANGED <<list, pairs, n, constanttbl, sublinetbl, i, tables, len>>

\* Mutated form: modifiers are noted before it is known whether the line can be read.
Modified_early == Current.modified

Modified == Current.kind = "entry" /\ Current.modified

\* What was inserted is dropped, as sublinetbl becomes a table with the line itself.  The
\* index goes up also when the line cannot be read.
ReadEntry ==
    /\ AtLine({"entry", "unreadable"}) /\ ~Breaks
    /\ IF Current.kind = "entry"
       THEN origtbl' = Store(origtbl, i, n) /\ repltbl' = Store(repltbl, i, n)
       ELSE UNCHANGED <<origtbl, repltbl>>
    /\ modtbl' = IF Modified THEN Store(modtbl, i, n) ELSE modtbl
    /\ i' = i + 1 /\ n' = n + 1 /\ sublinetbl' = TRUE
    /\ UNCHANGED <<list, pairs, constanttbl, len, pc>>

EndOfList ==
    /\ pc = "read" /\ n > Len(list)
    /\ pc' = "add" /\ n' = 1
    /\ UNCHANGED <<list, pairs, constanttbl, sublinetbl, i, tables, len>>

\* initialize: the two tables have the same indices, hence the same border.
AddPair ==
    /\ pc = "add" /\ n <= pairs
    /\ \E b \in Borders(repltbl) :
          /\ origtbl' = Store(origtbl, b + 1, Pair(n))
          /\ repltbl' = Store(repltbl, b + 1, Pair(n))
    /\ n' = n + 1
    /\ UNCHANGED <<list, pairs, constanttbl, sublinetbl, i, modtbl, len, pc>>

Finish ==
    /\ pc = "add" /\ n > pairs
    /\ len' \in Borders(repltbl)
    /\ pc' = "done"
    /\ UNCHANGED <<list, pairs, n, constanttbl, sublinetbl, i, tables>>

Next == Declare \/ Refuse \/ Fail \/ ReadEntry \/ EndOfList \/ AddPair \/ Finish

Spec == Init /\ [][Next]_vars
----------------------------------------------------------------------------
\* Types of the tables and counters.
TypeOK ==
    /\ list \in Seq(Line) /\ Len(list) <= MaxLines /\ pairs \in PairCounts
    /\ n \in 1..(MaxLines + pairs + 1) /\ i \in 1..(MaxLines + 1)
    /\ constanttbl \subseteq Constants /\ sublinetbl \in BOOLEAN
    /\ DOMAIN repltbl \subseteq Nat \ {0}
    /\ \A x \in DOMAIN repltbl : repltbl[x] \in 1..(MaxLines + pairs)
    /\ len \in {0} \cup DOMAIN repltbl
    /\ pc \in {"read", "add", "done", "failed"}

Entries == {k \in DOMAIN list : list[k].kind = "entry"}

DeclaredBefore(k) == {list[j].const : j \in {j \in 1..(k - 1) : list[j].kind = "declare"}}

\* What stands at one index of the three tables comes from one line, and a pair has no
\* modifiers.
SidesMatch ==
    /\ DOMAIN repltbl = DOMAIN origtbl
    /\ \A x \in DOMAIN origtbl :
          /\ repltbl[x] = origtbl[x]
          /\ IF origtbl[x] <= MaxLines /\ list[origtbl[x]].modified
             THEN x \in DOMAIN modtbl /\ modtbl[x] = origtbl[x]
             ELSE x \notin DOMAIN modtbl

\* No pair takes the place of an entry; nor has it the modifiers of a line, also if it
\* fills the place that an unreadable line has left.
RulesMatch ==
    /\ SidesMatch
    /\ pc = "done" => \A k \in Entries : \E x \in DOMAIN origtbl : origtbl[x] = k

\* A list that has only what can be read, an entry before any other line, and no constant
\* that string.find rejects.
Orderly ==
    /\ \A k \in DOMAIN list : /\ list[k].kind \notin {"unreadable", "bare"}
                              /\ list[k].kind = "declare" => list[k].const \notin Malformed
    /\ list # << >> => list[1].kind = "entry"

\* How many entries there are up to line k.
Place(k) == Cardinality({j \in Entries : j <= k})

\* From such a list subword gets every entry, each with its own sides, in the order of
\* the lines and before the pairs.
OrderlyWorks ==
    Orderly =>
        /\ pc # "failed"
        /\ pc = "done" =>
              /\ len = Cardinality(Entries) + pairs
              /\ \A k \in Entries : repltbl[Place(k)] = k
              /\ \A k \in 1..pairs : repltbl[Cardinality(Entries) + k] = Pair(k)

\* "A non-alphanumeric ASCII character may be declared as a 'constant' storing multiple
\* values" (orthography.txt): no entry is left with a constant that was declared before.
ConstantsReplaced ==
    pc = "done" =>
        \A x \in DOMAIN origtbl :
            origtbl[x] <= MaxLines =>
               list[origtbl[x]].const \notin DeclaredBefore(origtbl[x])

\* A line that is reported as unreadable is left out, and nothing else is: subword finds an
\* entry at each index up to #repltbl, and comes to every entry.
OnlyLineLost ==
    pc = "done" => /\ 1..len \subseteq DOMAIN repltbl
                   /\ \A k \in Entries : \E x \in 1..len : repltbl[x] = k

\* Constants may be declared before the first entry.
ConstantsAnywhere ==
    /\ \A k \in DOMAIN list : /\ list[k].kind # "bare"
                              /\ list[k].kind = "declare" => list[k].const \notin Malformed
    => pc # "failed"
----------------------------------------------------------------------------
(* The inductive invariant (proofs in module Setup_proofs). *)

Counters ==
    /\ list \in Seq(Line) /\ Len(list) <= MaxLines /\ pairs \in Nat
    /\ n \in Nat \ {0} /\ i \in Nat \ {0}
    /\ pc = "read" => n <= Len(list) + 1
    /\ pc \in {"add", "done"} => n <= pairs + 1

\* While the list is read all is before the index of the next entry, and every entry that
\* has been read is there.  A modifier stands at an entry.
EntriesKept ==
    /\ DOMAIN modtbl \subseteq DOMAIN origtbl
    /\ DOMAIN origtbl \subseteq Nat \ {0}
    /\ pc = "read" => DOMAIN origtbl \subseteq 1..(i - 1)
    /\ \A k \in Entries : pc \in {"add", "done"} \/ k < n =>
                             \E x \in DOMAIN origtbl : origtbl[x] = k

\* An orderly list leaves no hole behind, so that there is one border.
InOrder ==
    Orderly =>
        /\ pc \in {"read", "add", "done"}
        /\ constanttbl \cap Malformed = {}
        /\ pc = "read" =>
              /\ ~sublinetbl => n = 1 /\ constanttbl = {}
              /\ i = Place(n - 1) + 1 /\ DOMAIN repltbl = 1..(i - 1)
              /\ \A k \in Entries : k < n => repltbl[Place(k)] = k
        /\ pc \in {"add", "done"} =>
              /\ DOMAIN repltbl = 1..(Cardinality(Entries) + n - 1)
              /\ \A k \in Entries : repltbl[Place(k)] = k
              /\ \A k \in 1..(n - 1) : repltbl[Cardinality(Entries) + k] = Pair(k)
        /\ pc = "done" => n = pairs + 1 /\ len = Cardinality(Entries) + pairs

IInv == Counters /\ SidesMatch /\ EntriesKept /\ InOrder
============================================================================
