---------------------------- MODULE TokenGrammar ----------------------------
(***************************************************************************)
(* The shape of a placeholder token, [KIND_N], as the response writer      *)
(* recognises it: internal/proxy/streaming.go, classify.                   *)
(*                                                                         *)
(* classify tells six classes of byte apart and no more, so a byte is its  *)
(* class: "open" is [, "close" is ], "underscore" is _, "letter" any       *)
(* capital letter, "digit" any digit and "other" every remaining byte.     *)
(***************************************************************************)
EXTENDS Naturals, Sequences

Byte == {"open", "close", "underscore", "letter", "digit", "other"}
Letter == {"letter"}
Digit == {"digit"}

\* s[lo..hi] holds only bytes of the class C (true of an empty range).
Run(s, lo, hi, C) == \A k \in lo .. hi : s[k] \in C

\* The scan is still among the letters of the kind, or has only seen "[".
InKind(s) == Run(s, 2, Len(s), Letter)

\* The scan is past the underscore, among the digits (or before the first).
InNumber(s) ==
  \E u \in 3 .. Len(s) :
     /\ Run(s, 2, u - 1, Letter)
     /\ s[u] = "underscore"
     /\ Run(s, u + 1, Len(s), Digit)

\* A whole token: at least one letter, an underscore, at least one digit, "]".
Complete(s) ==
  \E u \in 3 .. Len(s) - 2 :
     /\ Run(s, 2, u - 1, Letter)
     /\ s[u] = "underscore"
     /\ Run(s, u + 1, Len(s) - 1, Digit)
     /\ s[Len(s)] = "close"

\* The verdict on a buffer that starts with "[".
classify(s) ==
  CASE Complete(s)               -> "complete"
    [] InKind(s) \/ InNumber(s)  -> "partial"
    [] OTHER                     -> "dead"

-----------------------------------------------------------------------------
\* The same two notions for a stretch of text, whatever its first byte.
IsToken(s) == Len(s) > 0 /\ s[1] = "open" /\ Complete(s)
IsCandidate(s) == Len(s) > 0 /\ s[1] = "open" /\ (InKind(s) \/ InNumber(s))
=============================================================================
