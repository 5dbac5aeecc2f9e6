------------------------------- MODULE MCScan -------------------------------
(* Short texts for TLC.  "aa" and "aaa" are words of which the key has a form    *)
(* with a macron and an ambiguous one; "A." is an abbreviation.                  *)
EXTENDS Scan, TLC

CONSTANTS a, along, atilde, A, Along, Atilde, quote, flag, invalid, dot, sp, nl, slash, star, MaxLen

MCChar == {a, along, atilde, A, Along, Atilde, quote, flag, invalid, dot, sp, nl, slash, star}
MCWidth == [c \in MCChar |-> CASE c \in {quote, flag, invalid} -> 3
                                [] c \in {along, atilde, Along, Atilde} -> 2
                                [] OTHER -> 1]
MCLower == A :> a @@ Along :> along @@ Atilde :> atilde
MCPlain == along :> a @@ atilde :> a @@ Along :> A @@ Atilde :> A
MCSure == <<a, a, a, a>> :> <<a>>
F(form, flags) == [form |-> form, flags |-> flags]
MCKey == <<a>> :> F(<<along>>, << >>) @@ <<a, a>> :> F(<<a, along>>, <<flag>>)
         @@ <<a, a, a>> :> F(<<atilde, a, along>>, <<flag>>)
         @@ <<a, dot>> :> F(<<along, dot>>, << >>)

ASSUME MCKeySpelled == KeySpelled

\* Every short text, and some with longer words, flags and comments.
MCSources ==
    UNION {[1..n -> {a, A, along, quote, dot, sp}] : n \in 0..MaxLen}
    \cup { <<a, a, a, sp, A, a, a, dot, a>>, <<quote, a, a, a, a, quote, sp, A, dot, quote, sp, a>>,
           <<flag, a, a, sp, a, a, flag, sp, invalid, a>>, <<a, a, a, a, a, sp, A, A, dot>>,
           <<a, slash, star, a, star, slash, a, sp, slash, slash, a, nl, A>>,
           <<a, slash, slash, nl, A, a>>, <<slash, slash, slash, a>>,
           <<a, a, quote, flag, quote>> }

Unusual == { <<a, a, quote, quote, quote>> }
Commented == { <<slash, slash, a, nl, a>> }
TwoComments == { <<slash, star, along, star, slash, a, slash, star, along, star, slash>> }
Praenomen == { <<A, dot, along>> }
============================================================================
