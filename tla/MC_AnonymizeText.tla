-------------------------- MODULE MC_AnonymizeText --------------------------
(***************************************************************************)
(* Texts over a letter with an upper case three bytes wide (as the Kelvin  *)
(* sign has for "k"), a digit, a dash and a full stop.  The first inputs   *)
(* have one text and every choice of matches that a sweep or an index can  *)
(* get wrong; the second have every short text, for the dictionary; the    *)
(* third, what stands behind the word for a password.                      *)
(***************************************************************************)
EXTENDS AnonymizeText

MCChar == {"k", "K", "7", "-", "."}
MCWidth == [c \in MCChar |-> IF c = "K" THEN 3 ELSE 1]
MCToLower == [c \in MCChar |-> IF c = "K" THEN "k" ELSE c]
MCWordChar == {"k", "K", "7"}
MCProseChar == {"k", "K", "-"}
MCEndMark == {"."}

MCKind == {"EMAIL", "CUSTOM", "PASSWORD", "PERSON"}
MCSanitizeLabel ==
  [l \in {"person", "pass_word", "12"} |->
     CASE l = "person" -> "PERSON" [] l = "pass_word" -> "PASSWORD" [] l = "12" -> NoKind]

-----------------------------------------------------------------------------
\* One value twice, and once more in upper case; "kk" is a word of the dictionary.
MixedText == <<"K", "-", "k", "k">>

Cuts == Range(runeOffsets(MixedText))

Match == { s \in [start : Cuts, end : Cuts, kind : {"EMAIL"}, tier : {"sure"}] : s.start < s.end }

\* Any two in either order, and three that begin one after the other, as they may
\* when three detectors disagree.
Matches ==
  BoundedSeq(Match, 2)
  \union { t \in [1 .. 3 -> Match] : t[1].start < t[2].start /\ t[2].start < t[3].start }

\* Entities anywhere, also outside the text, empty or backwards; and some with a
\* label or a value that is no good, or a word for a password.
Entities ==
  [start : 0 .. 3, end : 1 .. 4, label : {"person"}, entity : {<< >>}]
  \union [start : {-1, 3}, end : {2, 5}, label : {"person"}, entity : {<< >>}]
  \union [start : {0}, end : {1}, label : {"12", "pass_word"}, entity : {<<"K">>}]
  \union [start : {1}, end : {2}, label : {"person"}, entity : {<<"k">>}]

MixedInputs ==
  [text : {MixedText}, matches : Matches, captures : {<< >>}, entities : BoundedSeq(Entities, 2)]

\* Every text of up to six characters.
WordInputs ==
  [text : BoundedSeq({"k", "K", "-"}, 6), matches : {<< >>}, captures : {<< >>},
   entities : {<< >>}]

PasswordText == <<"k", "7", ".", "k">>

PasswordInputs ==
  [ text : {PasswordText}, matches : {<< >>}, entities : {<< >>},
    captures : { <<c>> : c \in { c \in [start : 0 .. 3, end : 1 .. 4, quoted : BOOLEAN, is : BOOLEAN] :
                                   c.start < c.end } } ]

MCInputs == MixedInputs \union WordInputs \union PasswordInputs

\* Two words that have an end in common with themselves or with each other, one of
\* them given twice, and no word.
MCCustomWords == << <<"K", "-", "k">>, << >>, <<"k", "-", "K">>, <<"k", "k">> >>

MCValue == BoundedSeq({"k", "K", "-"}, 6) \union { SubSeq(PasswordText, i, j) : i, j \in 1 .. 4 }
=============================================================================
