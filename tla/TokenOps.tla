------------------------------ MODULE TokenOps ------------------------------
(***************************************************************************)
(* The bookkeeping of one Anonymize call (internal/analyzer/analyzer.go,   *)
(* type session): which token stands for which value.  A token [KIND_N] is *)
(* a record of its two parts.                                              *)
(***************************************************************************)
EXTENDS Naturals, GoMaps

CONSTANT Kind    \* the kinds a detector can report, [A-Z]+

Token == [kind : Kind, n : Nat \ {0}]

newSession ==
  [mapping |-> EmptyMap, tokenOf |-> EmptyMap, counters |-> [k \in Kind |-> 0]]

\* Mutant of NextToken: the counter is read before it is raised.
TokenFromZero(sess, kind) == [kind |-> kind, n |-> sess.counters[kind]]

\* The token a new value of this kind would get.
NextToken(sess, kind) == [kind |-> kind, n |-> sess.counters[kind] + 1]

\* Mutant of AfterTokenFor: every occurrence gets a token of its own.
TokenPerOccurrence(sess, kind, value) ==
  [ mapping  |-> Put(sess.mapping, NextToken(sess, kind), value),
    tokenOf  |-> Put(sess.tokenOf, value, NextToken(sess, kind)),
    counters |-> [sess.counters EXCEPT ![kind] = @ + 1] ]

\* Mutant of AfterTokenFor: the counter stays where it is.
CounterStays(sess, kind, value) ==
  IF value \in DOMAIN sess.tokenOf THEN sess
  ELSE [ sess EXCEPT !.mapping = Put(@, NextToken(sess, kind), value),
                     !.tokenOf = Put(@, value, NextToken(sess, kind)) ]

\* tokenFor: the session afterwards, and the token it returns.  A value that
\* already has a token keeps it, whatever kind it is reported as this time.
AfterTokenFor(sess, kind, value) ==
  IF value \in DOMAIN sess.tokenOf THEN sess
  ELSE [ mapping  |-> Put(sess.mapping, NextToken(sess, kind), value),
         tokenOf  |-> Put(sess.tokenOf, value, NextToken(sess, kind)),
         counters |-> [sess.counters EXCEPT ![kind] = @ + 1] ]

tokenFor(sess, kind, value) == AfterTokenFor(sess, kind, value).tokenOf[value]
=============================================================================
