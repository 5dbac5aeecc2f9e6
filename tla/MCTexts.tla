------------------------------- MODULE MCTexts -------------------------------
(* Four texts in three folders.  Headers collide between a folder and its parent,  *)
(* and between two texts once macrons are removed ("amāre", "amare").              *)
EXTENDS Texts, TLC

CONSTANTS a, b, c, d, sub, deep

MCListing == Root :> <<a, sub, b>> @@ sub :> <<c, deep>> @@ deep :> <<d>>
MCStem == [f \in Files |-> f]

\* Are there macrons in the text?
Macrons(f, steps) ==
    \E i \in 0..Len(steps) :
        /\ IF i = 0 THEN f = d ELSE steps[i] = "macronize"
        /\ \A j \in (i + 1)..Len(steps) : steps[j] # "remmac"

MCHeader(f, steps) ==
    <<IF f \in {a, c} THEN "arma" ELSE "amare",
      Macrons(f, steps)>>

\* Two folders with a file of the same name.
TwinListing == Root :> <<sub, deep>> @@ sub :> <<a>> @@ deep :> <<b>>
TwinStem == [f \in Files |-> "text"]
TwinHeader(f, steps) == <<f>>
==============================================================================
