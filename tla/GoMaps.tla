------------------------------- MODULE GoMaps -------------------------------
(***************************************************************************)
(* A Go map as a function whose domain is the set of its keys.             *)
(***************************************************************************)

EmptyMap == [x \in {} |-> x]

\* m[k] = v
Put(m, k, v) == [x \in DOMAIN m \cup {k} |-> IF x = k THEN v ELSE m[x]]

\* All of m, and of n what m has no key for.
Overlay(m, n) == [x \in DOMAIN m \cup DOMAIN n |-> IF x \in DOMAIN m THEN m[x] ELSE n[x]]
=============================================================================
