-------------------------------- MODULE Scan --------------------------------
(***************************************************************************)
(* The scan over one text that Exmacronize makes before it learns it       *)
(* (scripts/exmac.lua formatsource) and that Macronize makes to edit it    *)
(* (scripts/mac.lua macronize): find the next word, clean it with          *)
(* macra.ignorechars, put something else in its place, and go on behind it *)
(* in the text that has changed meanwhile.                                 *)
(*                                                                         *)
(* string.find and string.sub count bytes, utf8.sub counts characters, and *)
(* most of what is cut or inserted takes two or three bytes.  So the text  *)
(* is a sequence of bytes <<c, k>>, the k-th of character c, and a word    *)
(* taken out of it is a sequence of characters.                            *)
(***************************************************************************)
EXTENDS Integers, Sequences, SequencesExt, FiniteSetsExt, Functions

CONSTANTS
    Char, Width,          \* characters and their lengths in bytes
    Separators,           \* what LETTERS excludes: spaces, digits, punctuation
    Space, Newline, Slash, Star, Period,
    Ignored,              \* macra.ignoretbl, the flags among them
    Flags, Invalid, NotFound,
    Lower,                \* macra.capsinvtbl: from capitals to small letters
    Plain,                \* macra.unicodeinvtbl: from marked vowels to plain ones
    Long,                 \* the marked vowels that have a macron
    OverwriteMacs,        \* the option "Overwrite macrons?" of _CONFIG.txt
    Sure,                 \* sure substitutions, from words to words
    Key,                  \* from words to [form, flags]: what the variation loop finds
    Sources               \* the texts

\* A lookup with the key itself for a missing entry (mapping[c] or c).
Mapped(f, c) == IF c \in DOMAIN f THEN f[c] ELSE c

ASSUME ScanAssumption ==
    /\ Width \in [Char -> 1..3]
    /\ {Space, Newline, Slash, Star} \subseteq Separators /\ Separators \subseteq Char
    /\ \A c \in Separators \cup {Period} : Width[c] = 1
    /\ Period \in Char \ (Separators \cup Ignored)
    /\ {Invalid, NotFound} \subseteq Flags /\ Flags \subseteq Ignored
    /\ Ignored \subseteq Char \ Separators
    /\ \A f \in {Lower, Plain} : \A c \in DOMAIN f :
          {c, f[c]} \subseteq Char \ (Separators \cup {Period} \cup Ignored)
    /\ \A c, d \in DOMAIN Lower : Lower[c] = Lower[d] => c = d
    /\ \A c \in DOMAIN Lower :
          /\ Width[Lower[c]] = Width[c] /\ (Lower[c] \in Long => c \in Long)
          /\ Mapped(Plain, c) \in DOMAIN Lower
          /\ Mapped(Plain, Lower[c]) = Lower[Mapped(Plain, c)]
    /\ \A c \in Char, d \in DOMAIN Lower :
          Mapped(Plain, c) = Lower[d] => \E e \in DOMAIN Lower : Lower[e] = c
    /\ \A c \in DOMAIN Plain : Plain[c] \notin DOMAIN Plain /\ Width[Plain[c]] <= Width[c]
    /\ Long \subseteq DOMAIN Plain
    /\ << >> \notin DOMAIN Sure /\ \A x \in DOMAIN Sure : Sure[x] \in Seq(Char)
    /\ \A x \in DOMAIN Key : Key[x].form \in Seq(Char) /\ Key[x].flags \in Seq(Flags)
    /\ Sources \subseteq Seq(Char)

VARIABLES
    mode,            \* "learn" (formatsource) or "macronize"
    source,          \* the text as it was
    pass,            \* runs of Macronize over the text
    text,            \* the text, in bytes
    from,            \* where the search goes on
    wstart, wend,    \* the match, and what ignorechars makes of it:
    w,               \* the word
    newstart, newend,\* its place
    posright,        \* the character looked at from the right
    pc               \* "find", "trim", "word", "nothing" (w is nil), "done", "failed"

match == <<wstart, wend, w, newstart, newend, posright>>
vars == <<mode, source, pass, text, from, match, pc>>
----------------------------------------------------------------------------
Each(f, s) == [i \in DOMAIN s |-> Mapped(f, s[i])]

Bytes(s) == FlattenSeq([i \in DOMAIN s |-> [k \in 1..Width[s[i]] |-> <<s[i], k>>]])

\* The elements of s that are in T, in their order.
Selected(s, T) == FlattenSeq([i \in DOMAIN s |-> IF s[i] \in T THEN <<s[i]>> ELSE << >>])

Chars(b) == LET leads == Selected(b, Char \X {1})
            IN  [i \in DOMAIN leads |-> leads[i][1]]

\* string.sub
Cut(s, i, j) == SubSeq(s, Max({1, i}), Min({j, Len(s)}))
Behind(s, i) == Cut(s, i, Len(s))

\* macra.remflags
RemFlags(s) == Selected(s, Char \ Flags)

\* macra.decomment: from the first /* to the last */, then from each // to the line end.
Pair(s, i, c, d) == i < Len(s) /\ s[i] = c /\ s[i + 1] = d

Decommented(s) ==
    LET opened == {i \in DOMAIN s : Pair(s, i, Slash, Star) /\
                      \E j \in (i + 3)..Len(s) : Pair(s, j, Star, Slash)}
        closed == {j \in DOMAIN s : Pair(s, j, Star, Slash)}
        t == IF opened = {} THEN s
             ELSE Cut(s, 1, Min(opened) - 1) \o Behind(s, Max(closed) + 2)
        commented == {i \in DOMAIN t : \E j \in 1..i : Pair(t, j, Slash, Slash) /\
                         \A k \in j..i : t[k] # Newline}
        kept == Selected([i \in DOMAIN t |-> i], DOMAIN t \ commented)
    IN  [n \in DOMAIN kept |-> t[kept[n]]]

HasComments(s) ==
    \/ \E i \in DOMAIN s : Pair(s, i, Slash, Slash) /\ i + 2 <= Len(s) /\ s[i + 2] # Newline
    \/ \E i \in DOMAIN s : Pair(s, i, Slash, Star) /\
          \E j \in (i + 2)..Len(s) : Pair(s, j, Star, Slash)
----------------------------------------------------------------------------
\* mac.lua copies the option before it has been read, when it is false.
overwrite == FALSE

\* What macronize starts from; removing macrons includes removing tildes.
Prepared(s) == IF overwrite THEN Each(Plain, RemFlags(s)) ELSE RemFlags(s)

NoMatch == /\ wstart = 0 /\ wend = 0 /\ w = << >>
           /\ newstart = 0 /\ newend = 0 /\ posright = 0

\* The text that is scanned: without comments, or without flags.
Start == IF mode = "learn" THEN Decommented(source) ELSE Prepared(source)

Init ==
    /\ mode \in {"learn", "macronize"} /\ source \in Sources
    /\ pass = 1
    /\ from = 1 /\ NoMatch
    /\ text = Bytes(Start)
    /\ pc = IF mode = "macronize" /\ HasComments(RemFlags(source))
            THEN "failed"      \* getcommentset is not defined in mac.lua
            ELSE "find"

IsLetter(b) == b[1] \notin Separators
Letters == {p \in Max({1, from})..Len(text) : IsLetter(text[p])}

\* The match that begins at p goes up to the next separator.
MatchEnd(p) == Max({q \in p..Len(text) : \A r \in p..q : IsLetter(text[r])})

\* Mutated form: periods in the middle are not looked for.
UpToPeriod_whole(s) == s

\* "if a period is in the middle of the word, split it and take the first part".
UpToPeriod(s) ==
    LET dots == {i \in DOMAIN s : s[i] = Period}
    IN  IF dots = {} THEN s ELSE Cut(s, 1, Min(dots))

\* text:find(LETTERS), and the periods at the start, in the middle and at the end.
\* A match that begins inside a character ends the program (utf8.len).
FindWord ==
    /\ pc = "find" /\ Letters # {}
    /\ LET p == Min(Letters)
           q == MatchEnd(p)
           chunk == Chars(Cut(text, p, q))
           solid == {i \in DOMAIN chunk : chunk[i] # Period}
           lead == IF solid = {} THEN Len(chunk) ELSE Min(solid) - 1
           s == UpToPeriod(Behind(chunk, lead + 1))
           end == IF solid = {} THEN p + lead ELSE p + lead + Len(Bytes(s)) - 1
           quoted == Len(s) > 1 /\ Last(s) = Period /\ s[Len(s) - 1] \in Ignored
       IN  IF text[p][2] # 1
           THEN pc' = "failed" /\ UNCHANGED match
           ELSE /\ wstart' = p /\ wend' = q
                /\ newstart' = p + lead
                /\ newend' = IF quoted THEN end - 1 ELSE end
                /\ w' = IF quoted THEN Front(s) ELSE s
                /\ posright' = Len(w')
                /\ pc' = IF s = << >> THEN "word" ELSE "trim"
    /\ UNCHANGED <<mode, source, pass, text, from>>

\* Mutated form: positions are moved by characters.
CharBytes_one(c) == 1

CharBytes(c) == Width[c]

\* utf8.sub(w, p, p) as a single character; with p = 0 it gives the whole word.
At(p) == IF p \in DOMAIN w THEN {w[p]} ELSE IF p = 0 /\ Len(w) = 1 THEN {w[1]} ELSE {}

\* One round of the loop of ignorechars that cuts ignored characters from both ends.
\* posright goes down by two for each one cut from the right.
Trim ==
    /\ pc = "trim"
    /\ LET right == At(posright) \cap Ignored
           left == At(1) \cap Ignored
           width == IF right = {} THEN 0 ELSE CharBytes(CHOOSE c \in right : TRUE)
           pr == IF right = {} THEN posright ELSE posright - 2
           end == newend - width
           s == IF right = {} THEN w ELSE Cut(w, 1, posright - 1)
       IN  IF pr < 1
           THEN /\ pc' = "nothing"
                /\ newend' = IF end < newstart
                             THEN end + Len(Bytes(IF posright = 0 THEN w ELSE <<w[posright]>>))
                             ELSE end
                /\ UNCHANGED <<w, newstart, posright>>
           ELSE /\ newend' = end
                /\ w' = IF left = {} THEN s ELSE Tail(s)
                /\ newstart' = newstart + (IF left = {} THEN 0 ELSE CharBytes(w[1]))
                /\ posright' = IF left = {} THEN pr ELSE pr - 1
                /\ pc' = IF left \cup right = {} THEN "word" ELSE "trim"
    /\ UNCHANGED <<mode, source, pass, text, from, wstart, wend>>

MiddleFound == \E i \in DOMAIN w : w[i] \in Ignored
EndsAbbreviated == w # << >> /\ Last(w) = Period
IsAbbrev == EndsAbbreviated /\ w[1] \in DOMAIN Lower /\ ~MiddleFound

\* Where formatsource goes on when n bytes stand in the place of the word.
ResumeLearned(n) == wstart + n

\* formatsource: the word in lower case in the place of the match, with sure
\* substitutions; only an abbreviation keeps its period.
LearnWord ==
    /\ mode = "learn" /\ pc = "word" /\ ~MiddleFound
    /\ LET word == IF EndsAbbreviated /\ ~IsAbbrev THEN Front(w) ELSE w
           end == IF word = w THEN newend ELSE newend - 1
           kept == Cut(text, 1, wstart - 1) \o Cut(text, newstart, end) \o Behind(text, wend + 1)
           shorter == wstart + end - newstart
           small == Each(Lower, word)
           subst == Bytes(Mapped(Sure, small))
           moved == Len(subst) - Len(Bytes(small))
       IN  /\ text' = Cut(kept, 1, wstart - 1) \o subst \o Behind(kept, shorter + 1)
           /\ from' = ResumeLearned(shorter - wstart + 1 + moved)
    /\ pc' = "find"
    /\ UNCHANGED <<mode, source, pass, match>>

\* Nothing, or something with ignored characters in it: the match is cut out.
SkipWord ==
    /\ mode = "learn"
    /\ pc = "nothing" \/ (pc = "word" /\ MiddleFound)
    /\ text' = Cut(text, 1, wstart - 1) \o Behind(text, wend + 1)
    /\ from' = wstart
    /\ pc' = "find"
    /\ UNCHANGED <<mode, source, pass, match>>

\* The forms that are found are their words with marks (module MacWord, SpellsWord).
KeySpelled == \A s \in DOMAIN Key : Each(Plain, Key[s].form) = s

\* What the key has for word s, as it is or without its period.
Entry(s) ==
    IF s \in DOMAIN Key THEN [form |-> Key[s].form, flags |-> Key[s].flags, period |-> 0]
    ELSE IF s # << >> /\ Last(s) = Period /\ Front(s) \in DOMAIN Key
    THEN [form |-> Key[Front(s)].form, flags |-> Key[Front(s)].flags, period |-> 1]
    ELSE [form |-> << >>, flags |-> << >>, period |-> 0]

Upper(c) == CHOOSE d \in DOMAIN Lower : Lower[d] = c

\* Mutated form: no capitals are put back.
Recapitalized_small(form) == form

Recapitalized(form) ==
    [i \in DOMAIN form |-> IF w[i] \in DOMAIN Lower THEN Upper(form[i]) ELSE form[i]]

macroninvtbl == [c \in Long |-> Plain[c]]

HasMacrons == \E i \in DOMAIN w : w[i] \in Long

\* Mutated form: a longer word does not move the end.
Grown_not(n) == 0

\* "if lendiff > 0 then wend = wend + lendiff"
Grown(n) == IF n > 0 THEN n ELSE 0

\* Mutated form: words with macrons are looked up like the others.
Untouched_none == FALSE

\* A word that has macrons stays as it is.
Untouched == ~overwrite /\ HasMacrons

\* macronize: flags and the form found replace the word.
MacronizeWord ==
    /\ mode = "macronize" /\ pc = "word" /\ w # << >>
    /\ LET entry == Entry(Each(macroninvtbl, Each(Lower, w)))
           found == ~MiddleFound /\ ~Untouched /\ entry.form # << >>
           finalw == Bytes(IF found THEN Recapitalized(entry.form) ELSE w)
           flags == Bytes(IF MiddleFound THEN <<Invalid>>
                          ELSE IF Untouched THEN << >>
                          ELSE IF found THEN entry.flags ELSE <<NotFound>>)
           period == IF found THEN entry.period ELSE 0
           lendiff == Len(finalw) - Len(Bytes(w)) + period
       IN  /\ text' = Cut(text, 1, newstart - 1) \o flags \o finalw
                         \o Behind(text, newend + 1 - period)
           /\ from' = newend + Len(flags) + Grown(lendiff) + 1
    /\ pc' = "find"
    /\ UNCHANGED <<mode, source, pass, match>>

PassOver ==
    /\ mode = "macronize"
    /\ pc = "nothing" \/ (pc = "word" /\ w = << >>)
    /\ from' = newend + 1
    /\ pc' = "find"
    /\ UNCHANGED <<mode, source, pass, text, match>>

EndOfText ==
    /\ pc = "find" /\ Letters = {}
    /\ pc' = "done"
    /\ UNCHANGED <<mode, source, pass, text, from, match>>

\* Macronize is run again: the flags are removed first.
RunAgain ==
    /\ mode = "macronize" /\ pc = "done" /\ pass = 1
    /\ pass' = 2
    /\ text' = Bytes(Prepared(Chars(text)))
    /\ from' = 1 /\ pc' = "find"
    /\ UNCHANGED <<mode, source, match>>

\* The program has ended.
Ended ==
    /\ pc = "failed" \/ (pc = "done" /\ (mode = "macronize" => pass = 2))
    /\ UNCHANGED vars

Next == \/ FindWord \/ Trim \/ LearnWord \/ SkipWord \/ MacronizeWord \/ PassOver
        \/ EndOfText \/ RunAgain \/ Ended

Spec == Init /\ [][Next]_vars
----------------------------------------------------------------------------
\* Types: positions stay in the text, and no byte is there without a character.
TypeOK ==
    /\ \A i \in DOMAIN text : text[i][1] \in Char /\ text[i][2] \in 1..Width[text[i][1]]
    /\ from \in 1..(Len(text) + 4)
    /\ w \in Seq(Char) /\ posright \in 0..Len(w)
    /\ pass \in 1..2
    /\ pc \in {"find", "trim", "word", "nothing", "done", "failed"}

\* Each round of the scan leaves less of the text to be searched than the one before,
\* though the text may grow meanwhile: the scan comes to an end ("while wstart do").
Rest == Len(text) - from
Advances == [][pc # "find" /\ pc' = "find" /\ pass' = pass => Rest' < Rest]_vars

\* Where words end that ignorechars looks at.
Bounds == Separators \cup {Period}

\* No word ends with an ignored character that has another one two places before it.
\* (ignorechars, having cut the last, looks past the one before it.)
Tidy(s) ==
    \A j \in 3..Len(s) :
       s[j] \in Ignored /\ (j = Len(s) \/ s[j + 1] \in Bounds) =>
          s[j - 1] \in Bounds \/ s[j - 2] \notin Ignored

Unmarked(s) == Each(Plain, RemFlags(s))

\* Macronize only adds flags and macrons: apart from them the text is at every moment
\* the one that was given, character by character ("adds macrons and flags", README).
OnlyMarks ==
    mode = "macronize" /\ Tidy(Start) =>
        text = Bytes(Chars(text)) /\ Unmarked(Chars(text)) = Unmarked(source)

\* No text without comments, or none for Exmacronize, ends the program.
NoCrash ==
    Tidy(Start) /\ (mode = "macronize" => ~HasComments(RemFlags(source))) => pc # "failed"

\* A word in which the user has set a macron stays as it is, run after run ("if "N",
\* words with macrons are left untouched", _CONFIG.txt).
Together(s, i, j) == \A k \in Min({i, j})..Max({i, j}) : s[k] \notin Bounds

MacronsKept ==
    LET given == RemFlags(source)
        now == RemFlags(Chars(text))
    IN  mode = "macronize" /\ Tidy(Start) =>
            \A i, j \in DOMAIN given :
                given[j] \in Long /\ Together(given, i, j) => now[i] = given[i]

\* The words of a text as Exmacronize reads them (text:gmatch(LETTERS)).
WordSeq(s) ==
    LET begins == {i \in DOMAIN s : s[i] \notin Separators
                                    /\ (i = 1 \/ s[i - 1] \in Separators)}
        last(i) == Max({j \in i..Len(s) : \A k \in i..j : s[k] \notin Separators})
        sorted == SetToSortSeq(begins, <)
    IN  [n \in DOMAIN sorted |-> SubSeq(s, sorted[n], last(sorted[n]))]

\* What is to be learned of chunk c: its letters without what surrounds them, in lower
\* case; with its period if it is capitalized; nothing if ignored characters divide it.
Inner(c) == {i \in DOMAIN c : c[i] \notin Ignored \cup {Period}}
Core(c) == IF Inner(c) = {} THEN << >> ELSE SubSeq(c, Min(Inner(c)), Max(Inner(c)))

Expected(c) ==
    LET core == Core(c)
        dotted == core # << >> /\ core[1] \in DOMAIN Lower
                  /\ Max(Inner(c)) < Len(c) /\ c[Max(Inner(c)) + 1] = Period
    IN  IF \E i \in DOMAIN core : core[i] \in Ignored THEN << >>
        ELSE Mapped(Sure, Each(Lower, core) \o (IF dotted THEN <<Period>> ELSE << >>))

\* Chunks with periods only at their very beginning and behind the letters, closed by one
\* ignored character at most, and not a single letter so closed.
Simple(c) ==
    LET core == Core(c)
        behind == IF core = << >> THEN << >> ELSE Behind(c, Max(Inner(c)) + 1)
        closing == {i \in DOMAIN behind : behind[i] \in Ignored}
        opening == {i \in 1..(Min(Inner(c) \cup {Len(c) + 1}) - 1) : c[i] = Period}
    IN  /\ Period \notin Range(core)
        /\ \A i \in opening : \A j \in 1..i : c[j] = Period
        /\ closing = {} \/ (Cardinality(closing) = 1 /\ Len(core) > 1)

\* Exmacronize learns each word of a text as it stands there, freed of quotation marks,
\* case and punctuation, in the order of the text.
LearnedRight ==
    LET chunks == WordSeq(Decommented(source)) IN
    mode = "learn" /\ pc = "done" /\ Tidy(Start)
        /\ (\A n \in DOMAIN chunks : Simple(chunks[n])) =>
        WordSeq(Chars(text)) =
            SelectSeq([n \in DOMAIN chunks |-> Expected(chunks[n])], LAMBDA x : x # << >>)

\* "nothing in the middle is deleted" (macra.lua), for every text.
NothingInTheMiddle ==
    mode = "macronize" => Unmarked(Chars(text)) = Unmarked(source)

\* Macronize gets through every text ("To exclude any words ... use C-style comments").
CommentsAllowed == mode = "macronize" => pc # "failed"

\* "if "Y", all macrons are removed at the beginning of Macronize" (_CONFIG.txt).
MacronsOverwritten ==
    OverwriteMacs /\ mode = "macronize" /\ pass = 1 /\ pc = "word" => ~HasMacrons

\* A word after a period in the same chunk is learned too ("split it", macra.lua).
RestLearned ==
    mode = "learn" /\ pc = "done" =>
        \A i \in DOMAIN source : source[i] \notin Separators \cup Ignored \cup {Period} =>
            \E j \in DOMAIN Chars(text) : Chars(text)[j] = Mapped(Lower, source[i])

\* A word between two comments is learned ("removes single- and multi-line comments").
InComment(s, i) ==
    \E o \in 1..(i - 1) : Pair(s, o, Slash, Star)
                         /\ \A k \in (o + 2)..(i - 2) : ~Pair(s, k, Star, Slash)

BetweenComments ==
    mode = "learn" /\ pc = "done" =>
        \A i \in DOMAIN source : source[i] \notin Separators /\ ~InComment(source, i) =>
            \E j \in DOMAIN Chars(text) : Chars(text)[j] = Mapped(Lower, source[i])
============================================================================
