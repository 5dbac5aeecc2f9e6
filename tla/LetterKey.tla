----------------------------- MODULE LetterKey -----------------------------
(***************************************************************************)
(* macra.letterkey: the name under which savekey writes source number num  *)
(* in data/key.txt, at the head of the file and on the line of every word  *)
(* that occurs in that source.  loadkey finds the source of a word by      *)
(* comparing these names, so two sources must never share one.             *)
(*                                                                         *)
(* The specification numbers one source after the other, as Exmacronize    *)
(* does with each text that brings new words.                              *)
(***************************************************************************)
EXTENDS Naturals

CONSTANT MaxSources   \* bound: how many sources a model numbers

ASSUME LetterKeyAssumption == MaxSources \in Nat \ {0}

\* A name is a letter, given as its ASCII code, and a number; 0 stands for no
\* number after the letter.
Upper == 65..90
Lower == 97..122

\* Mutated form: the case of a multiple of 26 is missing.
Factorial_mod(num) == num % 26

Factorial(num) == IF num % 26 = 0 THEN 26 ELSE num % 26

Quotient(num) == IF num % 26 = 0 THEN (num \div 26) - 1 ELSE num \div 26

LetterOf(num) == (IF Quotient(num) % 2 = 0 THEN 64 ELSE 96) + Factorial(num)

\* Mutated form: the numbers start one set late.
SuffixOf_late(num) == IF Quotient(num) > 3 THEN Quotient(num) \div 2 ELSE 0

SuffixOf(num) == IF Quotient(num) >= 2 THEN Quotient(num) \div 2 ELSE 0

Letterkey(num) == <<LetterOf(num), SuffixOf(num)>>

VARIABLE num   \* the number of the newest source

\* #headersbynumtbl + 1 for a key without sources.
FirstNum == 1

NumInit == num = FirstNum
NumNext == num < MaxSources /\ num' = num + 1
NumSpec == NumInit /\ [][NumNext]_num
----------------------------------------------------------------------------
NumOK == num \in 1..MaxSources

\* The newest source has a name no earlier source has: the header a word's line
\* points to in key.txt is the header the word was counted under.
NamesDistinct == \A m \in 1..(num - 1) : Letterkey(m) # Letterkey(num)

\* Every name is a letter and a number, so that neither the commas between the
\* names on a word's line nor the " = " after a name can be part of one.
NamesReadable == Letterkey(num) \in (Upper \cup Lower) \X Nat

\* "53 = A2, 54 = B2" (comment above macra.letterkey).
CommentedNames == /\ num = 53 => Letterkey(num) = <<65, 2>>
                  /\ num = 54 => Letterkey(num) = <<66, 2>>
============================================================================
