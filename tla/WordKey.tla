------------------------------ MODULE WordKey ------------------------------
(***************************************************************************)
(* The word key in memory: macra.keytbl and the operations of              *)
(* scripts/macra.lua on it.                                                *)
(*                                                                         *)
(* The code addresses the forms of one plain (macronless) word by the      *)
(* plain word followed by a number: keytbl["hoc"], keytbl["hoc1"],         *)
(* keytbl["hoc2"], ...  Here such an address is a slot <<plain, n>>, with  *)
(* n = 0 for the bare plain word, and keytbl is a partial function from    *)
(* slots to forms.  Every reader of the table stops at the first missing   *)
(* number, so a form stored beyond a gap is invisible.                     *)
(***************************************************************************)
EXTENDS Naturals

CONSTANTS Forms,     \* macron forms, e.g. "hōc" and "hoc"
          Plains,    \* plain words, numbered in the order in which they sort
          PlainOf,   \* utf8.replace(w, macra.macroninvtbl)
          MaxPar     \* bound: the highest parallel number a model uses

ASSUME WordKeyAssumption == /\ Plains \subseteq Nat
                            /\ PlainOf \in [Forms -> Plains]
                            /\ MaxPar \in Nat

Slot == Plains \X (0..MaxPar)

\* The order in which savekey writes the words (glue.sortedpairs on keytbl).
Before(s, t) == s[1] < t[1] \/ (s[1] = t[1] /\ s[2] < t[2])

FirstSlot(s, S) == s \in S /\ \A t \in S : t = s \/ Before(s, t)

\* Assignment to a Lua table entry: f[x] = v.
Store(f, x, v) == [y \in DOMAIN f \cup {x} |-> IF y = x THEN v ELSE f[y]]

EmptyTable == [x \in {} |-> x]
----------------------------------------------------------------------------
\* Parallel numbers not in use for plain word p.  MaxPar + 1 stands for "none
\* of the numbers the model has", so that the set is never empty.
FreePars(keytbl, p) == {n \in 0..(MaxPar + 1) : <<p, n>> \notin DOMAIN keytbl}

\* The number of parallels getpars counts, and the number getnextkey returns:
\* both loops count up from 0 and stop at the first number not in use.
ParCount(keytbl, p) == CHOOSE n \in FreePars(keytbl, p) :
                          \A m \in FreePars(keytbl, p) : n <= m

\* Mutated form: the loop ends one parallel early.
Parallels_lastMissed(keytbl, p) ==
    {keytbl[<<p, n>>] : n \in 0..(ParCount(keytbl, p) - 2)}

\* The forms getpars returns.
Parallels(keytbl, p) == {keytbl[<<p, n>>] : n \in 0..(ParCount(keytbl, p) - 1)}

\* Mutated form: the number after the free one.
GetNextKey_skip(keytbl, p) == <<p, ParCount(keytbl, p) + 1>>

GetNextKey(keytbl, p) == <<p, ParCount(keytbl, p)>>

\* The model has a number left for one more parallel of p.
HasRoom(keytbl, p) == ParCount(keytbl, p) <= MaxPar
----------------------------------------------------------------------------
\* No plain word has a gap in its numbering: every stored form is visible.
Dense(keytbl) ==
    \A s \in DOMAIN keytbl : \A n \in 0..s[2] : <<s[1], n>> \in DOMAIN keytbl

\* Each form is stored under its own plain word, and once.
FiledUnderPlain(keytbl) == \A s \in DOMAIN keytbl : PlainOf[keytbl[s]] = s[1]

OncePerForm(keytbl) ==
    \A s, t \in DOMAIN keytbl : keytbl[s] = keytbl[t] => s = t

FormsIn(keytbl) == {keytbl[s] : s \in DOMAIN keytbl}
============================================================================
