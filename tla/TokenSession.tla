---------------------------- MODULE TokenSession ----------------------------
(***************************************************************************)
(* One Anonymize call as a state machine: the detectors report values in   *)
(* any order, under any kind, as often as they occur, and each occurrence  *)
(* is replaced by the token tokenFor gives.  "replaced" records the        *)
(* occurrences: what stood there and what stands there now.                *)
(***************************************************************************)
EXTENDS TokenOps, Sequences

CONSTANTS
  Value,     \* the values that occur in the body
  MaxSpans   \* how many occurrences a body has at most (bound)

ASSUME SessionAssumption == MaxSpans \in Nat

VARIABLES
  sess,      \* the session
  replaced   \* history: sequence of [value, token], one per occurrence

sessionVars == <<sess, replaced>>

SessionInit ==
  /\ sess = newSession
  /\ replaced = << >>

\* Mutant of Replace: a new session for every text.
ReplaceAlone(kind, value) ==
  /\ Len(replaced) < MaxSpans
  /\ sess' = AfterTokenFor(newSession, kind, value)
  /\ replaced' = Append(replaced,
       [value |-> value, token |-> tokenFor(newSession, kind, value)])

Replace(kind, value) ==
  /\ Len(replaced) < MaxSpans
  /\ sess' = AfterTokenFor(sess, kind, value)
  /\ replaced' = Append(replaced,
       [value |-> value, token |-> tokenFor(sess, kind, value)])

SessionNext == \E kind \in Kind, value \in Value : Replace(kind, value)

SessionSpec == SessionInit /\ [][SessionNext]_sessionVars

-----------------------------------------------------------------------------
\* TYPE INVARIANT.  The maps of a session relate tokens and values, and every
\* kind has a counter.
SessionTypeOK ==
  /\ DOMAIN sess.mapping \subseteq Token /\ DOMAIN sess.tokenOf \subseteq Value
  /\ \A t \in DOMAIN sess.mapping : sess.mapping[t] \in Value
  /\ \A v \in DOMAIN sess.tokenOf : sess.tokenOf[v] \in Token
  /\ sess.counters \in [Kind -> Nat]
  /\ replaced \in Seq([value : Value, token : Token])

\* SAFETY.  The two maps are inverse to each other: different values never share
\* a token, so nothing is restored as something else, and a value never has two
\* ("Repeats of the same value share one token").
OneToOne ==
  /\ \A v \in DOMAIN sess.tokenOf :
        /\ sess.tokenOf[v] \in DOMAIN sess.mapping
        /\ sess.mapping[sess.tokenOf[v]] = v
  /\ \A t \in DOMAIN sess.mapping :
        /\ sess.mapping[t] \in DOMAIN sess.tokenOf
        /\ sess.tokenOf[sess.mapping[t]] = t

\* SAFETY.  Every occurrence replaced so far, the first ones included, would be
\* restored to what stood there by the mapping as it is now.
RestoresEveryOccurrence ==
  \A i \in 1 .. Len(replaced) :
     /\ replaced[i].token \in DOMAIN sess.mapping
     /\ sess.mapping[replaced[i].token] = replaced[i].value

\* SAFETY.  The tokens of a kind are numbered from 1 without a gap, so the
\* number of values masked is the number of tokens given out.
NumberedWithoutGaps ==
  /\ \A t \in DOMAIN sess.mapping : t.n <= sess.counters[t.kind]
  /\ \A k \in Kind : \A i \in 1 .. sess.counters[k] :
        [kind |-> k, n |-> i] \in DOMAIN sess.mapping

\* ACTION PROPERTY.  A token never changes its value: what has been written into
\* the text cannot come to mean something else.
TokensAreForGood ==
  [][ \A t \in DOMAIN sess.mapping :
         t \in DOMAIN sess'.mapping /\ sess'.mapping[t] = sess.mapping[t]
    ]_sessionVars
=============================================================================
