------------------------------ MODULE KeyFile ------------------------------
(***************************************************************************)
(* What data/key.txt can contain, which contents macra.loadkey accepts,    *)
(* and what scripts/clearkey.lua leaves of them.                           *)
(*                                                                         *)
(* A key file has one of three shapes:                                     *)
(*   "blank"    nothing but a byte-order mark and comments;                *)
(*   "words"    words and no divider (what Clear Key writes);              *)
(*   "divided"  a numbered list of source headers, the divider, the words  *)
(*              (what savekey writes).                                     *)
(* lines is a partial function from slots to lines: the slot says only     *)
(* where a line stands among the lines of the same plain word.  A line     *)
(* without tabs (a manual entry) has frequency 0 and no source numbers.    *)
(***************************************************************************)
EXTENDS WordKey, Sequences

CONSTANT Headers     \* source headers, numbered in the order they sort

ASSUME KeyFileAssumption == Headers \subseteq Nat

Line == [form : Forms, freq : Nat, ids : SUBSET Nat]

Manual(l) == l.freq = 0

Blank == [shape |-> "blank", srcs |-> << >>, lines |-> EmptyTable]

IsKeyFile(kf) ==
    /\ kf.shape \in {"blank", "words", "divided"}
    /\ kf.srcs \in Seq(Headers)
    /\ DOMAIN kf.lines \subseteq Slot
    /\ \A s \in DOMAIN kf.lines : kf.lines[s] \in Line
    /\ kf = [shape |-> kf.shape, srcs |-> kf.srcs, lines |-> kf.lines]

\* loadkey gets through the file: the words section is not empty, a divider is
\* preceded by at least one source, and each counted line names sources of the
\* list.  In every other case it indexes a table with nil and the program ends.
Loadable(kf) ==
    /\ kf.shape = "divided" => kf.srcs # << >>
    /\ kf.shape # "blank" => DOMAIN kf.lines # {}
    /\ \A s \in DOMAIN kf.lines :
          /\ Manual(kf.lines[s]) <=> kf.lines[s].ids = {}
          /\ kf.lines[s].ids \subseteq DOMAIN kf.srcs

\* Clear Key: drop the sources and the divider, and every line with tabs.
\* Mutated form: the last of the manual lines goes with the lines after it.
Kept_lastLost(kf) ==
    {s \in DOMAIN kf.lines : /\ Manual(kf.lines[s])
                             /\ \E t \in DOMAIN kf.lines : Before(s, t)}

Kept(kf) == {s \in DOMAIN kf.lines : Manual(kf.lines[s])}

\* Without a word nothing but comments is left.
ClearedShape(kf) == IF Kept(kf) = {} THEN "blank" ELSE "words"

Cleared(kf) == [shape |-> ClearedShape(kf),
                srcs  |-> << >>,
                lines |-> [s \in Kept(kf) |-> kf.lines[s]]]

\* The user types word w at the end of the file: it comes after every other
\* line with the same plain word.
NextLine(kf, w) ==
    CHOOSE n \in 0..(MaxPar + 1) :
       /\ \A s \in DOMAIN kf.lines : s[1] = PlainOf[w] => s[2] < n
       /\ n = 0 \/ <<PlainOf[w], n - 1>> \in DOMAIN kf.lines

WithManual(kf, w) ==
    [shape |-> IF kf.shape = "blank" THEN "words" ELSE kf.shape,
     srcs  |-> kf.srcs,
     lines |-> Store(kf.lines, <<PlainOf[w], NextLine(kf, w)>>,
                     [form |-> w, freq |-> 0, ids |-> {}])]

\* The forms a file holds, and the frequency and sources that loadkey ends up
\* with for one of them: the last line with the form wins.
FileForms(kf) == {kf.lines[s].form : s \in DOMAIN kf.lines}

LastLine(kf, w) ==
    LET own == {s \in DOMAIN kf.lines : kf.lines[s].form = w}
    IN  kf.lines[CHOOSE s \in own : \A t \in own : t = s \/ Before(t, s)]

FileFreq(kf, w) == IF w \in FileForms(kf) THEN LastLine(kf, w).freq ELSE 0

FileSources(kf, w) ==
    IF w \in FileForms(kf) THEN {kf.srcs[i] : i \in LastLine(kf, w).ids} ELSE {}
============================================================================
