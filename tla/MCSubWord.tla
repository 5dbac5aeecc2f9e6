----------------------------- MODULE MCSubWord -----------------------------
(* Short words and lists for TLC, after the entries of orthography.txt.          *)
EXTENDS SubWord

CONSTANTS a, e, o, j, ii, c

MCLetters == {a, e, o, j, ii, c}
E(from, to) == [orig |-> from, repl |-> to, left |-> "any", right |-> "any",
                nochain |-> FALSE, doubt |-> FALSE]
Doubt(x) == [x EXCEPT !.doubt = TRUE]
NoChain(x) == [x EXCEPT !.nochain = TRUE]
Left(x, m) == [x EXCEPT !.left = m]
Right(x, m) == [x EXCEPT !.right = m]

OeAe == E(<<o, e>>, <<a, e>>)
AeOe == E(<<a, e>>, <<o, e>>)
OeE == E(<<o, e>>, <<e>>)
JI == E(<<j>>, <<ii>>)
IicIc == E(<<ii, ii, c>>, <<ii, c>>)

\* Every word of up to four letters, and two with a repeated diphthong.
MCWords == UNION {[1..n -> MCLetters \ {j, ii}] : n \in 1..4} \cup {<<o, e, c, o, e>>, <<c, a, e, o, e, c>>}

\* oe / ae / e as in the doubtful section, in several orders.
Doubtful == { <<Doubt(OeAe), Doubt(OeE), NoChain(Doubt(AeOe))>>,
              <<E(<<a, c>>, <<c, c>>), Doubt(OeAe), NoChain(Doubt(AeOe))>>,
              <<Right(E(<<c>>, <<j>>), "continue"), Left(Doubt(OeAe), "begin")>> }
\* Lists in which no substitution meets the result of another.
Apart == { <<OeE, E(<<j>>, <<ii>>)>>, <<Doubt(OeAe), E(<<c>>, <<j>>)>>,
           <<Left(OeE, "begin"), Right(E(<<c>>, <<c, a>>), "end")>> }
\* Single entries that keep the length of the word.
OneByOne == { <<OeAe>>, <<Left(OeAe, "begin")>>, <<Right(OeAe, "continue")>>, <<E(<<c>>, <<j>>)>> }
\* An entry that shortens it.
Shrinking == { <<OeE>> }
OeOe == { <<o, e, o, e>> }
AllLists == Doubtful \cup Apart \cup OneByOne
\* j = i, iic = ic: adjicio.
Chain == { <<JI, IicIc>> }
ChainWords == { <<a, j, ii, c>>, <<a, ii, ii, c>> }
Continue == { <<Left(OeAe, "continue")>> }
End == { <<Right(E(<<o>>, <<a>>), "end")>> }
NoEnclitics == {}
Enclitic == {<<c, e>>}
============================================================================
