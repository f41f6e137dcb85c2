----------------------------- MODULE StatsStore -----------------------------
(***************************************************************************)
(* The statistics (internal/stats/stats.go): totals and a ring of the last *)
(* requests.  Each operation is carried out under the mutex as one step;   *)
(* that a snapshot is a deep copy is what values are in TLA+.              *)
(***************************************************************************)
EXTENDS Naturals, Sequences

CONSTANT Cap  \* how many requests the ring holds

ASSUME StatsAssumption == Cap \in Nat \ {0}

Empty == [requests |-> 0, masked |-> 0, recent |-> << >>]

\* Mutant of Remember: a full ring loses its newest entry, not its oldest.
RememberUnshifted(recent, ev) ==
  IF Len(recent) = Cap THEN [recent EXCEPT ![Cap] = ev] ELSE Append(recent, ev)

Remember(recent, ev) ==
  IF Len(recent) = Cap THEN Append(Tail(recent), ev) ELSE Append(recent, ev)

Record(store, ev) ==
  [ requests |-> store.requests + 1,
    masked   |-> store.masked + ev.masked,
    recent   |-> Remember(store.recent, ev) ]

Snapshot(store) == store
=============================================================================
