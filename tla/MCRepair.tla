------------------------------ MODULE MCRepair ------------------------------
(* Small projects for TLC.  Plain word 1 has the forms cōmis, comīs and cōmīs,  *)
(* 2 tectum and tēctum, 3 quo and quō, 4 quoque and quōque, 5 ōra and ora.       *)
EXTENDS Repair, TLC

CONSTANTS comis, comisdat, comisboth, tectum, tectumlong, quo, quolong,
          quoque, quoquelong, oralong, ora

MCForms == {comis, comisdat, comisboth, tectum, tectumlong, quo, quolong,
            quoque, quoquelong, oralong, ora}
MCPlainOf == [w \in MCForms |-> CASE w \in {comis, comisdat, comisboth} -> 1
                                  [] w \in {tectum, tectumlong} -> 2
                                  [] w \in {quo, quolong} -> 3
                                  [] w \in {quoque, quoquelong} -> 4
                                  [] w \in {oralong, ora} -> 5]
MCWithEnc == (quo :> quoque) @@ (quolong :> quoquelong)
MCMacronFirst == {oralong}

MCKey == (<<1, 0>> :> comis) @@ (<<1, 1>> :> comisdat) @@ (<<2, 0>> :> tectum)
           @@ (<<3, 0>> :> quo) @@ (<<4, 0>> :> quoque) @@ (<<5, 0>> :> oralong)

At(w, place) == [form |-> w, at |-> place]
P(w) == At(w, "plain")

\* The texts of the passing runs: capitals, and no word at an edge or in a comment.
MCTexts == { << <<P(comis), P(tectum), At(comis, "capital"), P(quoque)>>,
                <<P(tectum), P(comisdat), P(tectum), P(quo)>> >> }
TextsComment == { << <<At(tectum, "comment"), P(quo), P(tectum)>>, <<P(tectum)>> >> }
TextsCapital == { << <<P(oralong), At(oralong, "capital")>>, <<P(comis)>> >> }
TextsEnclitic == { << <<P(quo), P(quoque)>>, <<P(quoque)>> >> }

Replace(o, r) == [does |-> "replace", orig |-> o, repl |-> r]
Do(what, o, r) == [does |-> what, orig |-> o, repl |-> r]
Line(what, w) == [does |-> what, orig |-> w, repl |-> w]

\* Corrections that do not build on one another.
FilesUser == { <<Replace(comis, comisboth), Line("add", quolong)>>,
               <<Replace(comis, comisdat), Replace(tectum, tectumlong)>>,
               <<Do("multi", quoque, quoquelong), Replace(tectum, tectumlong),
                 Line("ok", comis)>>,
               <<Do("enc", quoque, quo), Do("abv", tectum, comisboth)>> }

\* Chains, cycles, several originals for one form, lines that fail.
FilesChained == { <<Replace(comis, comisdat), Replace(comisdat, comisboth),
                Replace(tectum, comis)>>,
              <<Replace(comis, comisdat), Replace(comisdat, comis)>>,
              <<Replace(comis, comisboth), Replace(comisdat, comisboth)>>,
              <<Do("multi", tectum, tectumlong), Replace(comisboth, comis)>>,
              <<Replace(tectum, comis), Line("broken", comis)>> }

\* Corrections that the key gets and the texts do not.
FilesKeyOnly == { <<Do("abv", tectum, comisboth), Do("enc", quoque, quo)>>,
                  <<Do("enc", quoque, quo), Replace(quo, quolong)>>,
                  <<Line("add", quolong), Do("multi", quo, quolong),
                    Do("enc", quoque, quo), Replace(comisboth, tectum)>> }

FilesChain == { <<Replace(comis, comisdat), Replace(comisdat, comisboth)>> }
FilesParallel == { <<Replace(comis, comisboth), Replace(comisdat, comisboth)>> }
FilesTectum == { <<Replace(tectum, tectumlong)>> }
FilesOra == { <<Replace(oralong, ora)>> }
FilesQuo == { <<Replace(quo, quolong), Line("ok", quoque)>> }
FilesMindChange == { <<Replace(comis, comisdat)>>, <<Replace(comisdat, comisboth)>> }
FilesAmbiguity == { <<Line("broken", comisdat)>> }
============================================================================
