---------------------------- MODULE AnonymizeText ----------------------------
(***************************************************************************)
(* anonymizeText, the masking of one text (internal/analyzer: analyzer.go, *)
(* secrets.go, conflict.go).  Trusted spans come from regular expressions, *)
(* from what stands behind a word like "password", and from the dictionary; *)
(* the model's guesses, given in characters, yield to them.  All are       *)
(* merged, sorted and swept from left to right, and the session gives      *)
(* every span that is not skipped its token.                               *)
(*                                                                         *)
(* A span is half open, in bytes; it has a kind, and remembers which tier  *)
(* it came from.  What the regular expressions match and what the model    *)
(* says are inputs.                                                        *)
(***************************************************************************)
EXTENDS TokenSession, Integers, Dictionary

CONSTANTS
  Inputs,         \* records: a text, what matches in it (spans), what stands behind
                  \* the word for a password (captures), and the model's entities
  ProseChar,      \* letters, "-" and "'"
  EndMark,        \* ".", "," and ";"
  sanitizeLabel   \* a label reduced to A-Z: a kind, or NoKind when nothing is left
CONSTANT NoKind

\* Matches and captures are stretches of the text that are not empty; a match begins
\* and ends between characters, and only the dictionary reports custom words.  Entities
\* are whatever the model says.
ASSUME TextAssumption ==
  /\ {"CUSTOM", "PASSWORD"} \subseteq Kind
  /\ \A l \in DOMAIN sanitizeLabel : sanitizeLabel[l] \in Kind \union {NoKind}
  /\ \A in \in Inputs :
       /\ in.text \in Seq(Char)
       /\ \A i, j \in DOMAIN in.text : i <= j => SubSeq(in.text, i, j) \in Value
       /\ LET Cut == Range(runeOffsets(in.text))
          IN in.matches \in Seq([start : Cut, end : Cut, kind : Kind \ {"CUSTOM"}, tier : {"sure"}])
       /\ LET Place == 0 .. Len(in.text)
          IN in.captures \in Seq([start : Place, end : Place, quoted : BOOLEAN, is : BOOLEAN])
       /\ \A s \in Range(in.matches) \union Range(in.captures) : s.start < s.end
       /\ in.entities \in Seq([start : Int, end : Int, label : DOMAIN sanitizeLabel,
                               entity : Seq(Char)])

VARIABLES
  input,     \* the text and what is found in it
  sure,      \* what collect has returned
  spans,     \* the spans still to be swept
  phase,     \* "collect", "sweep" or "done"
  last,      \* the end of the last masked span
  masked     \* the spans masked so far

textVars == <<sessionVars, input, sure, spans, phase, last, masked>>

TextInit ==
  /\ SessionInit
  /\ input \in Inputs
  /\ sure = << >> /\ spans = << >> /\ masked = << >>
  /\ last = 0 /\ phase = "collect"

-----------------------------------------------------------------------------
\* text[s.start:s.end], as characters.
Slice(text, s) ==
  LET at == runeOffsets(text)
      inside == { i \in DOMAIN text : s.start <= at[i - 1] /\ at[i] <= s.end }
  IN IF inside = {} THEN << >> ELSE SubSeq(text, Min(inside), Max(inside))

looksLikeProse(value) == Range(value) \subseteq ProseChar

\* The elements of a sequence that are in a set, in their order.
Kept(s, set) ==
  LET kept[n \in 0 .. Len(s)] ==
        IF n = 0 THEN << >>
        ELSE IF s[n] \in set THEN Append(kept[n - 1], s[n]) ELSE kept[n - 1]
  IN kept[Len(s)]

\* contextSpans, of the characters a group has captured behind a marker: a bare
\* value ends before its punctuation, and behind "is" a bare word is not a value.
contextSpans(text, captures) ==
  LET ending(c) ==
        IF c.quoted THEN c.end
        ELSE Max({c.start} \union { i \in c.start + 1 .. c.end : text[i] \notin EndMark })
      values == Kept(captures, { c \in Range(captures) :
        /\ c.start < ending(c)
        /\ c.quoted \/ ~c.is \/ ~looksLikeProse(SubSeq(text, c.start + 1, ending(c))) })
  IN [i \in DOMAIN values |->
        [ start |-> runeOffsets(text)[values[i].start],
          end   |-> runeOffsets(text)[ending(values[i])],
          kind  |-> "PASSWORD", tier |-> "sure" ]]

collect(in) ==
  in.matches \o contextSpans(in.text, in.captures) \o collectCustom(in.text)

\* Mutant of byteRange: character positions are taken for byte positions.
charRange(text, e) ==
  [start |-> e.start, end |-> e.end, kind |-> sanitizeLabel[e.label], tier |-> "guess"]

byteRange(text, e) ==
  [ start |-> runeOffsets(text)[e.start], end |-> runeOffsets(text)[e.end],
    kind |-> sanitizeLabel[e.label], tier |-> "guess" ]

\* The model's word is not taken for anything: not for the place, the label or the
\* value; and what it takes for a secret must not be an ordinary word.
Usable(text, e) ==
  /\ 0 <= e.start /\ e.start < e.end /\ e.end <= Len(text)
  /\ sanitizeLabel[e.label] # NoKind
  /\ LET value == SubSeq(text, e.start + 1, e.end)
     IN /\ e.entity \in {<< >>, value}
        /\ sanitizeLabel[e.label] \in {"PASSWORD", "SECRET"} => ~looksLikeProse(value)

collectML(in) ==
  LET good == Kept(in.entities, { e \in Range(in.entities) : Usable(in.text, e) })
  IN [i \in DOMAIN good |-> byteRange(in.text, good[i])]

\* The orders sort.Slice, which is not stable, may bring trusted spans into.
ByStart(ss) ==
  { idx \in { [i \in DOMAIN ss |-> ss[p[i]]] : p \in Bijection(DOMAIN ss, DOMAIN ss) } :
      \A i, j \in DOMAIN ss : i < j => idx[i].start <= idx[j].start }

\* Mutant of maxEnd: the end of each span by itself.
ownEnd(idx) == [i \in DOMAIN idx |-> idx[i].end]

\* The furthest end among the first spans of an index.
maxEnd(idx) ==
  LET furthest[i \in DOMAIN idx] ==
        IF i = 1 THEN idx[1].end ELSE Max({furthest[i - 1], idx[i].end})
  IN furthest

\* overlaps: of the spans that begin before g ends (sort.Search finds the first
\* that does not), does one reach beyond the beginning of g?
overlaps(idx, g) ==
  LET beyond == { i \in DOMAIN idx : idx[i].start >= g.end }
      i == (IF beyond = {} THEN Len(idx) + 1 ELSE Min(beyond)) - 1
  IN i > 0 /\ maxEnd(idx)[i] > g.start

resolveConflicts(trusted, idx, guess) ==
  trusted \o Kept(guess, { g \in Range(guess) : ~overlaps(idx, g) })

\* Mutant of sortSpans: the spans stay as they were merged.
unsorted(ss) == ss

\* Leftmost first, and longest among those; the sort is stable.
sortSpans(ss) ==
  LET before(i, j) == \/ ss[i].start < ss[j].start
                      \/ ss[i].start = ss[j].start /\ ss[i].end > ss[j].end
                      \/ ss[i].start = ss[j].start /\ ss[i].end = ss[j].end /\ i < j
      place == [i \in DOMAIN ss |-> 1 + Cardinality({ j \in DOMAIN ss : before(j, i) })]
  IN [k \in DOMAIN ss |-> ss[CHOOSE i \in DOMAIN ss : place[i] = k]]

\* Both tiers are merged and sorted, however the index was ordered.
Collect ==
  /\ phase = "collect"
  /\ sure' = collect(input)
  /\ \E merged \in { resolveConflicts(sure', idx, collectML(input)) : idx \in ByStart(sure') } :
       spans' = sortSpans(merged)
  /\ phase' = "sweep"
  /\ UNCHANGED <<sessionVars, input, last, masked>>

\* A span that begins at or behind the end of the last one is replaced by the
\* token of its value.
Mask ==
  /\ phase = "sweep" /\ spans # << >>
  /\ Head(spans).start >= last
  /\ Replace(Head(spans).kind, Slice(input.text, Head(spans)))
  /\ masked' = Append(masked, Head(spans))
  /\ last' = Head(spans).end
  /\ spans' = Tail(spans)
  /\ UNCHANGED <<input, sure, phase>>

Skip ==
  /\ phase = "sweep" /\ spans # << >>
  /\ Head(spans).start < last
  /\ spans' = Tail(spans)
  /\ UNCHANGED <<sessionVars, input, sure, phase, last, masked>>

\* The rest of the text is copied.
Copy ==
  /\ phase = "sweep" /\ spans = << >>
  /\ phase' = "done"
  /\ UNCHANGED <<sessionVars, input, sure, spans, last, masked>>

TextNext == Collect \/ Mask \/ Skip \/ Copy

TextSpec == TextInit /\ [][TextNext]_textVars

-----------------------------------------------------------------------------
Bytes(s) == s.start .. s.end - 1

Masked == Range(masked)

\* TYPE INVARIANT.  The session keeps its types, and every span that is considered
\* is a stretch of the text that begins and ends between characters, whatever the
\* model says and however the case of a character changes its width.
TextTypeOK ==
  /\ SessionTypeOK
  /\ phase \in {"collect", "sweep", "done"}
  /\ \A s \in Range(spans) \union Masked :
        /\ s.start < s.end /\ s.kind \in Kind
        /\ {s.start, s.end} \subseteq Range(runeOffsets(input.text))

\* Masked stretches do not overlap, and what is copied between them is what stands
\* there: the slices the sweep takes never run backwards.
MaskedInOrder ==
  /\ \A i, j \in DOMAIN masked : i < j => masked[i].end <= masked[j].start
  /\ \A i \in DOMAIN masked : masked[i].end <= last

\* SAFETY.  "An ML guess overlapping one is dropped outright": what is masked for
\* a guess shares no byte with a trusted span; the index, built for speed, answers
\* as the plain comparison would.  And every other usable guess is considered.
GuessesGiveWay ==
  /\ \A m \in Masked : m.tier = "guess" =>
        \A s \in Range(sure) : Bytes(s) \cap Bytes(m) = {}
  /\ phase = "done" =>
        \A g \in Range(collectML(input)) :
           \E s \in Range(sure) \union Masked : Bytes(s) \cap Bytes(g) # {}

\* SAFETY.  Where something trusted begins, something trusted is masked: no trusted
\* value leaves as a whole, and none is displaced by a guess.
EverySureIsMet ==
  phase = "done" =>
    \A s \in Range(sure) :
       \E m \in Masked : m.tier = "sure" /\ s.start \in Bytes(m)

\* The places (first and last character) where a word stands in a text, whatever
\* its case, and whether it is a word of its own there: what collectCustom, with its
\* automaton, its bytes and its offsets, is to find.
Lower(s) == [i \in DOMAIN s |-> ToLower[s[i]]]

Places(text, word) ==
  { p \in (DOMAIN text) \X (DOMAIN text) :
      p[1] <= p[2] /\ Lower(SubSeq(text, p[1], p[2])) = Lower(word) }

WholeWord(text, p) ==
  \A i \in {p[1] - 1, p[2] + 1} \cap DOMAIN text : text[i] \notin WordChar

BytesAt(text, p) == runeOffsets(text)[p[1] - 1] .. runeOffsets(text)[p[2]] - 1

\* SAFETY.  Only whole words of the dictionary are taken for custom words.
CustomAreWords ==
  \A s \in Range(sure) : s.kind = "CUSTOM" =>
     \E word \in Range(CustomWords) : \E p \in Places(input.text, word) :
        WholeWord(input.text, p) /\ Bytes(s) = BytesAt(input.text, p)

\* SAFETY.  "Case-insensitive whole-word matching": where a word of the dictionary
\* stands by itself, something is masked, unless another place of the same word
\* overlaps this one.
WordsAreMasked ==
  phase = "done" =>
    \A word \in Range(CustomWords) : \A p \in Places(input.text, word) :
      (/\ WholeWord(input.text, p)
       /\ \A q \in Places(input.text, word) \ {p} : q[2] < p[1] \/ p[2] < q[1])
      => \E m \in Masked : Bytes(m) \cap BytesAt(input.text, p) # {}
=============================================================================
