----------------------------- MODULE MCAnalyze -----------------------------
(* Small keys for TLC.  Plain word 1 has the forms absque and absquelong, 2      *)
(* tectumque and tēctumque, 3 cēperis and cēperīs, 4 the abbreviations kal. and kāl. *)
EXTENDS Analyze, TLC

CONSTANTS absque, absquelong, tectumque, tectumquelong, ceperis, ceperislong, kal, kallong

MCForms == {absque, absquelong, tectumque, tectumquelong, ceperis, ceperislong, kal, kallong}
MCPlainOf == [w \in MCForms |-> CASE w \in {absque, absquelong} -> 1
                                  [] w \in {tectumque, tectumquelong} -> 2
                                  [] w \in {ceperis, ceperislong} -> 3
                                  [] w \in {kal, kallong} -> 4]
Pair(o, r) == [x \in {o} |-> r]

\* The replacement of absque is not in the key, that of tectumque may be.
MCKeys == { <<absque, ceperis, ceperislong, kal, kallong, tectumque, tectumquelong>>,
            <<absque, ceperislong, tectumquelong, tectumque>>, <<absque, ceperis, tectumque>> }
MCIssues == { [abv |-> {kal, kallong}, enc |-> e, prf |-> Pair(ceperis, ceperislong),
               hid |-> h, orth |-> EmptyTable] :
                 e \in {{}, {absque, absquelong}, {tectumque, tectumquelong},
                        {absque, absquelong, tectumque, tectumquelong}},
                 h \in {EmptyTable, Pair(tectumque, tectumquelong), Pair(absque, absquelong),
                        Pair(tectumque, tectumquelong) @@ Pair(absque, absquelong)} }
MCOk == SUBSET {absque, tectumque, ceperislong}
MCAuto == {EmptyTable, Pair(ceperislong, ceperis), Pair(ceperis, ceperislong),
           Pair(tectumque, tectumquelong)}

\* Substitutions of the orthography, and an automatic abbreviation.
OrthIssues == { [t EXCEPT !.orth = Pair(absque, tectumque)] : t \in MCIssues }
AllIssues == MCIssues \cup OrthIssues
AutoKal == {Pair(kal, absque)}
AnyAuto == MCAuto \cup AutoKal
============================================================================
