------------------------- MODULE MC_InferenceEngine -------------------------
(***************************************************************************)
(* Six calls, three and two with the same settings and one with nothing    *)
(* to look for: batches of several groups of several jobs, and a call that *)
(* waits for a thread.                                                     *)
(***************************************************************************)
EXTENDS InferenceEngine

CONSTANTS c1, c2, c3, c4, c5, c6

MCSettings == c1 :> "names" @@ c2 :> "names" @@ c3 :> "names"
              @@ c4 :> "places" @@ c5 :> "places" @@ c6 :> "none"
=============================================================================
