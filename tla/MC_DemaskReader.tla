-------------------------- MODULE MC_DemaskReader ---------------------------
(***************************************************************************)
(* Small instances of DemaskReader: all concatenations of two fragments,   *)
(* among them texts that hold a token, a token behind a dead candidate,    *)
(* two tokens in a row, one that is cut off and one over the cap.          *)
(***************************************************************************)
EXTENDS DemaskReader

MCMaxTokenLen == 5

Opn == "open"
Cls == "close"
Und == "underscore"
A == "letter"
D == "digit"
X == "other"
Token == <<Opn, A, Und, D, Cls>>

Fragments ==
  { << >>, <<X>>, <<Opn>>, <<Opn, A, Und>>, Token, Token \o <<X>>,
    <<Opn, A, A, Und, D, Cls>> }

MCInputs == { f \o g : f, g \in Fragments }
=============================================================================
