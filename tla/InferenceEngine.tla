--------------------------- MODULE InferenceEngine ---------------------------
(***************************************************************************)
(* The sidecar's batching worker (ml_engine/main.py): handlers of /analyze *)
(* put jobs in a queue and block on a future; one thread takes jobs in     *)
(* batches, groups a batch by labels and threshold, asks the model about   *)
(* each group and settles the futures.                                     *)
(*                                                                         *)
(* A call is known by its name; Settings gives its labels and threshold, as *)
(* one value.  The model either finds something for every text, fails, or   *)
(* returns the wrong number of results; what it finds is known by the text  *)
(* and the settings it was found with.  Handlers run in a pool of Threads   *)
(* threads (the server's), so calls wait for a thread, and a call whose     *)
(* client has given up keeps its thread all the same.                       *)
(***************************************************************************)
EXTENDS Naturals, Sequences, SequencesExt, FiniteSets, FiniteSetsExt

CONSTANTS
  Call,       \* calls of /analyze
  Settings,   \* function of a call: its labels and threshold, NoLabels if it has none
  NoLabels,   \* the settings of a call with no text or no labels
  MaxBatch,   \* self._max_batch
  Threads     \* handlers that may run at a time

ASSUME EngineAssumption ==
  /\ DOMAIN Settings = Call
  /\ MaxBatch \in Nat /\ Threads \in Nat \ {0}

VARIABLES
  call,    \* a call: "away", "waiting" for a thread, or "blocked" on its future;
           \* in the end "answered", "failed", or "empty"
  answer,  \* what a call got: sets of [found, settings], empty or singletons
  queue,   \* self._q
  batch,   \* the batch being gathered or worked on
  todo,    \* the places in the batch whose groups are still to be asked about
  worker,  \* "get", "window" or "flush"
  spoilt   \* history: calls for whose group the model failed

engineVars == <<call, answer, queue, batch, todo, worker, spoilt>>

Outcome == {"answered", "failed", "empty"}

EngineInit ==
  /\ call = [c \in Call |-> "away"] /\ answer = [c \in Call |-> {}]
  /\ queue = << >> /\ batch = << >> /\ todo = {}
  /\ worker = "get" /\ spoilt = {}

Blocked == { c \in Call : call[c] = "blocked" }

-----------------------------------------------------------------------------
\* A request comes in, and its handler, which is not a coroutine, waits for a thread.
Arrive(c) ==
  /\ call[c] = "away"
  /\ call' = [call EXCEPT ![c] = "waiting"]
  /\ UNCHANGED <<answer, queue, batch, todo, worker, spoilt>>

MayRun(c) == call[c] = "waiting" /\ Cardinality(Blocked) < Threads

\* With nothing to look for, the handler returns.
ReturnEmpty(c) ==
  /\ MayRun(c) /\ Settings[c] = NoLabels
  /\ call' = [call EXCEPT ![c] = "empty"]
  /\ UNCHANGED <<answer, queue, batch, todo, worker, spoilt>>

\* predict: the job joins the queue.
Predict(c) ==
  /\ MayRun(c) /\ Settings[c] # NoLabels
  /\ call' = [call EXCEPT ![c] = "blocked"]
  /\ queue' = Append(queue, c)
  /\ UNCHANGED <<answer, batch, todo, worker, spoilt>>

-----------------------------------------------------------------------------
\* The worker: the first job opens a batch and the window.
Get ==
  /\ worker = "get" /\ queue # << >>
  /\ batch' = <<Head(queue)>>
  /\ queue' = Tail(queue)
  /\ worker' = "window"
  /\ UNCHANGED <<call, answer, todo, spoilt>>

\* Mutant of Join: the job stays in the queue.
JoinKeeping ==
  /\ worker = "window" /\ Len(batch) < MaxBatch /\ queue # << >>
  /\ batch' = Append(batch, Head(queue))
  /\ UNCHANGED <<call, answer, queue, todo, worker, spoilt>>

\* Mutant of Join: the newest job joins.
JoinNewest ==
  /\ worker = "window" /\ Len(batch) < MaxBatch /\ queue # << >>
  /\ batch' = Append(batch, Last(queue))
  /\ queue' = Front(queue)
  /\ UNCHANGED <<call, answer, todo, worker, spoilt>>

\* A job that is there before the window closes joins the batch.
Join ==
  /\ worker = "window" /\ Len(batch) < MaxBatch /\ queue # << >>
  /\ batch' = Append(batch, Head(queue))
  /\ queue' = Tail(queue)
  /\ UNCHANGED <<call, answer, todo, worker, spoilt>>

\* The batch is full, or the window closes, also on jobs still in the queue.
Close ==
  /\ worker = "window"
  /\ todo' = DOMAIN batch
  /\ worker' = "flush"
  /\ UNCHANGED <<call, answer, queue, batch, spoilt>>

\* Groups are asked about in the order of their first jobs.
First == Min(todo)

\* Mutant of Group: a batch is one group.
GroupAll == todo

\* The places of the jobs that share the settings of the first one left.
Group == { i \in todo : Settings[batch[i]] = Settings[batch[First]] }

Asked == { batch[i] : i \in Group }

\* The futures of the group are settled; its handlers return.
Settle(outcome) ==
  /\ worker = "flush"
  /\ call' = [c \in Call |-> IF c \in Asked THEN outcome ELSE call[c]]
  /\ todo' = todo \ Group
  /\ IF todo' = {}
       THEN worker' = "get" /\ batch' = << >>
       ELSE UNCHANGED <<worker, batch>>
  /\ UNCHANGED queue

\* The model answers for every text of the group under the settings of its first
\* job, and every job gets what was found in the text at its place.
Answer ==
  /\ Settle("answered")
  /\ answer' = [c \in Call |->
       IF c \in Asked
         THEN { [found |-> batch[i], settings |-> Settings[batch[First]]] :
                  i \in { j \in Group : batch[j] = c } }
         ELSE answer[c]]
  /\ UNCHANGED spoilt

\* Mutants of Fail: the other groups of the batch fail too, and nobody is told.
FailBatch ==
  /\ worker = "flush"
  /\ call' = [c \in Call |-> IF c \in Range(batch) /\ call[c] = "blocked"
                               THEN "failed" ELSE call[c]]
  /\ todo' = {} /\ worker' = "get" /\ batch' = << >>
  /\ spoilt' = spoilt \union Asked
  /\ UNCHANGED <<queue, answer>>

FailSilently ==
  /\ Settle("blocked")
  /\ spoilt' = spoilt \union Asked
  /\ UNCHANGED answer

\* The model raises, for one of the texts or for all, or returns another number
\* of results: every job of the group gets the error.
Fail ==
  /\ Settle("failed")
  /\ spoilt' = spoilt \union Asked
  /\ UNCHANGED answer

Worker == Get \/ Join \/ Close \/ Answer \/ Fail

Handler(c) == ReturnEmpty(c) \/ Predict(c)

EngineNext == Worker \/ \E c \in Call : Arrive(c) \/ Handler(c)

\* The worker thread runs, the window closes by the clock, the model returns or
\* raises, and a free thread takes up a waiting call.
EngineSpec ==
  /\ EngineInit /\ [][EngineNext]_engineVars
  /\ WF_engineVars(Worker)
  /\ \A c \in Call : WF_engineVars(Handler(c))

-----------------------------------------------------------------------------
\* The jobs that are in the queue, in the batch and not yet settled.
Queued == Range(queue)
InWork == IF worker = "flush" THEN { batch[i] : i \in todo } ELSE Range(batch)

\* TYPE INVARIANT.  The batch is bounded, and every blocked handler's job is in
\* exactly one place: nowhere is it lost or doubled.
EngineTypeOK ==
  /\ call \in [Call -> {"away", "waiting", "blocked"} \union Outcome]
  /\ answer \in [Call -> SUBSET [found : Call, settings : Range(Settings)]]
  /\ queue \in Seq(Call) /\ batch \in Seq(Call) /\ todo \subseteq DOMAIN batch
  /\ worker \in {"get", "window", "flush"} /\ spoilt \subseteq Call
  /\ Len(batch) <= 1 \/ Len(batch) <= MaxBatch
  /\ worker = "get" <=> batch = << >>
  /\ worker = "flush" <=> todo # {}
  /\ IsInjective(queue) /\ Queued \cap InWork = {}
  /\ Queued \union InWork = Blocked

\* SAFETY.  A handler gets what the model found in its own text, under its own
\* labels and threshold, whatever else was in the batch.
AnswersAreForTheCall ==
  \A c \in Call : answer[c] =
     IF call[c] = "answered" THEN {[found |-> c, settings |-> Settings[c]]} ELSE {}

\* SAFETY.  Only the calls of a group for which the model failed fail.
FailuresStayInTheirGroup ==
  /\ \A c \in Call : call[c] = "failed" => c \in spoilt
  /\ \A c, d \in Range(batch) : Settings[c] = Settings[d] =>
        (c \in spoilt <=> d \in spoilt)

\* ACTION PROPERTY.  A job is never overtaken by one behind it in the queue, except
\* within a batch.
NoOvertaking ==
  [][ \A i, j \in DOMAIN queue :
         i < j /\ queue[i] \in Range(queue') => queue[j] \in Range(queue') ]_engineVars

\* LIVENESS.  Every call is answered, one way or another: no handler blocks on its
\* future for good.
EveryCallIsAnswered == \A c \in Call : call[c] = "waiting" ~> call[c] \in Outcome
=============================================================================
