----------------------------- MODULE Dictionary -----------------------------
(***************************************************************************)
(* The dictionary search of the analyzer (internal/analyzer/analyzer.go):  *)
(* which stretches of a text are custom words, whatever their case.        *)
(*                                                                         *)
(* A text is a sequence of characters.  Positions in a text are byte       *)
(* offsets from 0, as in the code, and a character may take another number *)
(* of bytes than its lower case.                                           *)
(***************************************************************************)
EXTENDS Naturals, Sequences, SequencesExt, FiniteSetsExt

CONSTANTS
  Char,
  Width,        \* how many bytes a character takes in UTF-8
  ToLower,      \* its lower case
  WordChar,     \* letters, digits and "_"
  CustomWords   \* the words of the configuration

ASSUME DictionaryAssumption ==
  /\ Width \in [Char -> Nat \ {0}] /\ ToLower \in [Char -> Char]
  /\ WordChar \subseteq Char /\ CustomWords \in Seq(Seq(Char))

\* The byte offset at which each character begins, and that of the end.
runeOffsets(text) ==
  LET at[i \in 0 .. Len(text)] ==
        IF i = 0 THEN 0 ELSE at[i - 1] + Width[text[i]]
  IN at

\* Mutant of foldForMatch: a place in the lower case is taken for one in the text.
foldInPlace(text) ==
  LET low == [i \in DOMAIN text |-> ToLower[text[i]]]
      at == runeOffsets(low)
      n == at[Len(low)]
      rune(p) == CHOOSE i \in DOMAIN low : at[i - 1] <= p /\ p < at[i]
  IN [ bytes  |-> [p \in 1 .. n |-> <<low[rune(p - 1)], p - at[rune(p - 1) - 1]>>],
       origOf |-> [p \in 0 .. n |-> p] ]

\* The text in lower case, as bytes, and for every byte of it (and the end) the
\* offset in the text that it comes from.  A byte is known by its character and its
\* number in it.
foldForMatch(text) ==
  LET low == [i \in DOMAIN text |-> ToLower[text[i]]]
      at == runeOffsets(low)
      n == at[Len(low)]
      rune(p) == CHOOSE i \in DOMAIN low : at[i - 1] <= p /\ p < at[i]
  IN [ bytes  |-> [p \in 1 .. n |-> <<low[rune(p - 1)], p - at[rune(p - 1) - 1]>>],
       origOf |-> [p \in 0 .. n |->
                     runeOffsets(text)[IF p = n THEN Len(text) ELSE rune(p) - 1]] ]

\* New: the words in lower case, each once, without the empty one.
dict ==
  LET words[n \in 0 .. Len(CustomWords)] ==
        IF n = 0 THEN << >>
        ELSE LET folded == foldForMatch(CustomWords[n]).bytes
             IN IF folded \in {<< >>} \union Range(words[n - 1]) THEN words[n - 1]
                ELSE Append(words[n - 1], folded)
  IN words[Len(CustomWords)]

\* Mutant of wordBounded: only the beginning is looked at.
wordBegins(text, start, end) ==
  \A i \in DOMAIN text : runeOffsets(text)[i] = start => text[i] \notin WordChar

\* No word goes on before start or behind end.
wordBounded(text, start, end) ==
  \A i \in DOMAIN text :
     runeOffsets(text)[i] = start \/ runeOffsets(text)[i - 1] = end => text[i] \notin WordChar

\* The occurrences of a word: each search begins where the last match ended,
\* whether that was bounded or not.  (The automaton only leaves out words that do
\* not occur.)
occurrences(text, word) ==
  LET folded == foldForMatch(text)
      origOf == folded.origOf
      matches == { p \in DOMAIN origOf :
                     /\ p + Len(word) \in DOMAIN origOf
                     /\ SubSeq(folded.bytes, p + 1, p + Len(word)) = word }
      found[off \in DOMAIN origOf] ==
        LET rest == { p \in matches : p >= off }
            start == Min(rest)
            end == start + Len(word)
            span == [start |-> origOf[start], end |-> origOf[end],
                     kind |-> "CUSTOM", tier |-> "sure"]
            here == IF wordBounded(text, span.start, span.end) THEN <<span>> ELSE << >>
        IN IF rest = {} THEN << >> ELSE here \o found[end]
  IN found[0]

collectCustom(text) ==
  LET spans[i \in 0 .. Len(dict)] ==
        IF i = 0 THEN << >> ELSE spans[i - 1] \o occurrences(text, dict[i])
  IN spans[Len(dict)]
=============================================================================
