--------------------------- MODULE RestoredStream ---------------------------
(***************************************************************************)
(* What the client of a streamed response is promised, whatever reads,     *)
(* windows and buffers lie between: the response arrives from upstream     *)
(* byte by byte, and is passed on in order, never more than Window - 1     *)
(* bytes behind for good; a response that ended is passed on to its last   *)
(* byte and ends as it ended upstream, cleanly or cut.                     *)
(***************************************************************************)
EXTENDS Naturals

CONSTANT Window

VARIABLES
  total,    \* length of the whole response
  arrived,  \* bytes upstream has delivered
  source,   \* "open", or how upstream ended: "eof", "fail"
  passed,   \* bytes of it that were passed on, as they are or restored
  ending    \* what the client was told: "none", "eof", "fail"; "gone" if it left

streamVars == <<total, arrived, source, passed, ending>>

StreamInit ==
  /\ total \in Nat
  /\ arrived = 0 /\ passed = 0
  /\ source = "open" /\ ending = "none"

\* Upstream delivers some bytes, and may end with them.  A clean end comes only
\* after the last byte.
Arrive(n, s) ==
  /\ source = "open" /\ ending = "none"
  /\ arrived + n <= total
  /\ s \in {"open", "fail"} \/ (s = "eof" /\ arrived + n = total)
  /\ arrived' = arrived + n /\ source' = s
  /\ UNCHANGED <<total, passed, ending>>

PassOn(n) ==
  /\ ending = "none"
  /\ passed + n <= arrived
  /\ passed' = passed + n
  /\ UNCHANGED <<total, arrived, source, ending>>

Finish ==
  /\ ending = "none" /\ source # "open" /\ passed = arrived
  /\ ending' = source
  /\ UNCHANGED <<total, arrived, source, passed>>

Leave ==
  /\ ending = "none"
  /\ ending' = "gone"
  /\ UNCHANGED <<total, arrived, source, passed>>

PassSome == \E n \in 1 .. arrived - passed : PassOn(n)
\* Passing on may not be put off: too much is held back, or no more is to come.
Overdue == passed + Window <= arrived \/ source # "open"

StreamNext ==
  \/ \E n \in 0 .. total - arrived, s \in {"open", "eof", "fail"} : Arrive(n, s)
  \/ PassSome \/ Finish \/ Leave

StreamSpec ==
  /\ StreamInit /\ [][StreamNext]_streamVars
  /\ WF_streamVars(Overdue /\ PassSome)
  /\ WF_streamVars(Finish)
=============================================================================
