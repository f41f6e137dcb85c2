--------------------------- MODULE MC_SplitEvents ---------------------------
(***************************************************************************)
(* Event streams as providers send them: the model's text arrives in       *)
(* pieces, each piece in an event of its own, with the framing of the      *)
(* events (the end of one JSON document, "data:", the start of the next)   *)
(* between them.  "other" bytes stand for framing, all the others are the  *)
(* model's text.                                                           *)
(***************************************************************************)
EXTENDS DemaskReader, SequencesExt

MCMaxTokenLen == 5

TokenText == <<"open", "letter", "underscore", "digit", "close">>
Framing == <<"other">>

\* One token, in one event or cut into two.
MCInputs ==
  { Framing \o SubSeq(TokenText, 1, k) \o Framing \o SubSeq(TokenText, k + 1, 5) \o Framing :
      k \in 0 .. 4 }

ModelText == SelectSeq(input, LAMBDA byte : byte # "other")

\* CLAIM (README.md, Streaming Support): "Tokens are unmasked on the fly without
\* breaking the streaming experience".  When a stream has ended, every token of
\* the text it carried has been looked up.
StreamedTokensAreRestored ==
  result = "eof" /\ IsToken(ModelText) =>
    \E i \in 1 .. Len(sent) : sent[i].kind # "raw"
=============================================================================
