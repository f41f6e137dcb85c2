----------------------------- MODULE LossyStore -----------------------------
(***************************************************************************)
(* What the proxy may count on from a vault, whichever backend is behind   *)
(* it: a lookup answers with the very value this request saved under this  *)
(* token, or with nothing.  A mapping may be forgotten at any moment (it   *)
(* has been idle too long, the backend was restarted), and a lookup may    *)
(* fail although the mapping is there.                                     *)
(***************************************************************************)
EXTENDS GoMaps

CONSTANTS
  Req,      \* the requests; one id each, never used again
  Tok, Val, \* the tokens and the values
  Missing   \* the answer of a lookup that finds nothing

VARIABLES
  saved,    \* what was saved under a key, kept or not
  held,     \* the keys of "saved" that are still known
  answer    \* the last answer each request got

storeVars == <<saved, held, answer>>

\* Mutant of key: one scope for all requests.
KeyWithoutScope(r, t) == <<CHOOSE q \in Req : TRUE, t>>

\* reqID + ":" + token.  An id has no ":" in it, so the two parts of a key can
\* be told apart: it is the pair of them.
key(r, t) == <<r, t>>

NoAnswer == [token |-> Missing, value |-> Missing]

StoreInit ==
  /\ saved = EmptyMap /\ held = {}
  /\ answer = [r \in Req |-> NoAnswer]

Keep(k, v) ==
  /\ k \notin DOMAIN saved
  /\ saved' = Put(saved, k, v)
  /\ held' = held \cup {k}
  /\ UNCHANGED answer

Forget(K) ==
  /\ K # {} /\ K \subseteq held
  /\ held' = held \ K
  /\ UNCHANGED <<saved, answer>>

Found(r, t) ==
  /\ key(r, t) \in held
  /\ answer' = [answer EXCEPT ![r] = [token |-> t, value |-> saved[key(r, t)]]]
  /\ UNCHANGED <<saved, held>>

NotFound(r, t) ==
  /\ answer' = [answer EXCEPT ![r] = [token |-> t, value |-> Missing]]
  /\ UNCHANGED <<saved, held>>

StoreNext ==
  \/ \E r \in Req, t \in Tok, v \in Val : Keep(key(r, t), v)
  \/ \E K \in SUBSET held : Forget(K)
  \/ \E r \in Req, t \in Tok : Found(r, t) \/ NotFound(r, t)

StoreSpec == StoreInit /\ [][StoreNext]_storeVars
=============================================================================
