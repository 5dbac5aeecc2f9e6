----------------------------- MODULE MCMacWord -----------------------------
(* Small words and keys for TLC, after adusque, nequene, and the like.           *)
EXTENDS MacWord, FiniteSets

CONSTANTS ad, ne, us, os, que, dot

MCParts == {ad, ne, us, os, que, dot}
MCPrefixes == << <<ad>>, <<ad, us>>, <<ne>> >>
MCEnclitics == {<<que>>, <<ne>>, <<ne, que>>}

W(s, d) == [sure |-> s, doubts |-> d]

\* No word here has both a prefix and an enclitic.
OneAffix == { W(<<ad, us>>, << >>), W(<<us, que>>, << >>), W(<<us, que, dot>>, << <<os, que, dot>> >>),
              W(<<ad, us, dot>>, << <<ad, os, dot>>, <<ad, os>> >>), W(<<us>>, << <<os>>, <<us>> >>),
              W(<<dot>>, << >>) }
\* Here each has, some twice, some with nothing between.
BothAffixes == { W(<<ad, us, que>>, << <<ad, os, que>> >>), W(<<ad, us, que, dot>>, << >>),
                 W(<<ne, que>>, << >>), W(<<ne>>, << >>), W(<<ne, us, que, ne>>, << >>),
                 W(<<ad, us, que, dot>>, << <<us, que>>, <<ad, os, que, dot>> >>) }
AllWords == OneAffix \cup BothAffixes

Known1 == { <<us>>, <<os>>, <<ad, us>>, <<us, que>>, <<us, dot>>, <<os, que>>, <<ad, os>>, <<que>> }
Frequencies == { <<5>>, <<6, 2>>, <<5, 1, 1>>, <<5, 0, 1>>, <<0, 0>> }
MCKeys == UNION { [S -> Frequencies] : S \in {T \in SUBSET Known1 : Cardinality(T) <= 2} }
============================================================================
