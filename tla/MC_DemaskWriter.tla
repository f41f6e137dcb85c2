-------------------------- MODULE MC_DemaskWriter ---------------------------
(***************************************************************************)
(* Small instances of DemaskWriter.  The texts are all the concatenations  *)
(* of three fragments, chosen so that dead candidates, candidates at and   *)
(* over the cap, adjacent tokens and a text that ends inside a token occur *)
(* next to one another.                                                    *)
(***************************************************************************)
EXTENDS DemaskWriter

MCMaxTokenLen == 5

Opn == "open"
Cls == "close"
Und == "underscore"
A == "letter"
D == "digit"
X == "other"

Fragments ==
  { <<Opn>>, <<A>>, <<Und, D>>, <<Cls>>, <<X>>, <<Opn, A>>,
    <<Opn, A, Und, D, Cls>>, <<Opn, A, A, Und, D, Cls>> }

MCInputs == { f \o g \o h : f, g, h \in Fragments }
=============================================================================
