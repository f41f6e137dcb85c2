------------------------ MODULE InferenceEngineProofs ------------------------
(***************************************************************************)
(* Proofs about the sidecar's batching worker, for any number of calls,    *)
(* any settings, and any bounds on the batch and the threads.              *)
(***************************************************************************)
EXTENDS InferenceEngine, SequenceTheorems, TLAPS

\* A group is settled as a whole: of two jobs of the batch with the same settings,
\* both or neither are still to be asked about.
GroupsAreWhole ==
  worker = "flush" => \A i, j \in DOMAIN batch :
    Settings[batch[i]] = Settings[batch[j]] => (i \in todo <=> j \in todo)

\* The history agrees with what the handlers got.
SpoiltHaveFailed == spoilt = { c \in Call : call[c] = "failed" }

EngineInv ==
  /\ EngineTypeOK /\ AnswersAreForTheCall
  /\ GroupsAreWhole /\ SpoiltHaveFailed /\ FailuresStayInTheirGroup

-----------------------------------------------------------------------------
\* Sequences.

LEMMA TailOfQueue ==
  ASSUME NEW S, NEW q \in Seq(S), q # << >>, IsInjective(q)
  PROVE  /\ Tail(q) \in Seq(S) /\ Head(q) \in S
         /\ IsInjective(Tail(q))
         /\ Range(q) = {Head(q)} \union Range(Tail(q))
         /\ Head(q) \notin Range(Tail(q))
<1> DEFINE t == Tail(q)
<1>1. t \in Seq(S) /\ Head(q) \in S /\ Len(q) \in Nat \ {0} /\ Head(q) = q[1]
  OBVIOUS
<1>2. Len(t) = Len(q) - 1 /\ \A i \in 1 .. Len(t) : t[i] = q[i + 1]
  OBVIOUS
<1>3. DOMAIN q = 1 .. Len(q) /\ DOMAIN t = 1 .. Len(t)
  BY <1>1
<1>4. \A i, j \in 1 .. Len(q) : q[i] = q[j] => i = j
  BY <1>3 DEF IsInjective
<1> HIDE DEF t
<1>5. IsInjective(t)
  <2>1. \A i, j \in 1 .. Len(t) : t[i] = t[j] => i = j
    BY <1>1, <1>2, <1>4
  <2> QED BY <1>3, <2>1 DEF IsInjective
<1>6. Range(q) = {Head(q)} \union Range(t)
  <2>1. ASSUME NEW i \in 1 .. Len(q) PROVE q[i] = Head(q) \/ \E j \in 1 .. Len(t) : q[i] = t[j]
    <3>1. CASE i = 1 BY <3>1, <1>1
    <3>2. CASE i # 1
      <4>1. i - 1 \in 1 .. Len(t) /\ (i - 1) + 1 = i
        BY <3>2, <1>1, <1>2
      <4>2. q[i] = t[i - 1]
        BY <4>1, <1>2
      <4> QED BY <4>1, <4>2
    <3> QED BY <3>1, <3>2
  <2>2. ASSUME NEW j \in 1 .. Len(t) PROVE \E i \in 1 .. Len(q) : t[j] = q[i]
    <3>1. j + 1 \in 1 .. Len(q)
      BY <1>1, <1>2
    <3> QED BY <3>1, <1>2
  <2>3. 1 \in 1 .. Len(q)
    BY <1>1
  <2>4. Range(q) = { q[i] : i \in 1 .. Len(q) } /\ Range(t) = { t[i] : i \in 1 .. Len(t) }
    BY <1>3 DEF Range
  <2>5. \A x : x \in Range(q) => x \in {Head(q)} \union Range(t)
    BY <2>1, <2>4
  <2>6. \A x : x \in {Head(q)} \union Range(t) => x \in Range(q)
    BY <1>1, <2>2, <2>3, <2>4
  <2> QED BY <2>5, <2>6
<1>7. Head(q) \notin Range(t)
  <2>1. ASSUME NEW j \in 1 .. Len(t), t[j] = q[1] PROVE FALSE
    <3>1. j + 1 \in 1 .. Len(q) /\ 1 \in 1 .. Len(q) /\ j + 1 # 1
      BY <1>1, <1>2
    <3> QED BY <3>1, <2>1, <1>2, <1>4
  <2> QED BY <1>1, <1>3, <2>1 DEF Range
<1> QED BY <1>1, <1>5, <1>6, <1>7 DEF t

LEMMA AppendToQueue ==
  ASSUME NEW S, NEW q \in Seq(S), NEW e \in S
  PROVE  /\ Append(q, e) \in Seq(S)
         /\ Len(Append(q, e)) = Len(q) + 1
         /\ Range(Append(q, e)) = Range(q) \union {e}
         /\ IsInjective(q) /\ e \notin Range(q) => IsInjective(Append(q, e))
<1> DEFINE a == Append(q, e)
<1>1. a \in Seq(S) /\ Len(q) \in Nat /\ Len(a) = Len(q) + 1
  OBVIOUS
<1>2. a[Len(q) + 1] = e /\ \A i \in 1 .. Len(q) : a[i] = q[i]
  OBVIOUS
<1>3. DOMAIN q = 1 .. Len(q) /\ DOMAIN a = 1 .. Len(a)
  BY <1>1
<1> HIDE DEF a
<1>4. \A i : i \in 1 .. Len(a) <=> i \in 1 .. Len(q) \/ i = Len(q) + 1
  BY <1>1
<1>5. Range(a) = Range(q) \union {e}
  BY <1>2, <1>3, <1>4 DEF Range
<1>6. ASSUME IsInjective(q), e \notin Range(q) PROVE IsInjective(a)
  <2>1. \A i \in 1 .. Len(q) : q[i] # e
    BY <1>3, <1>6 DEF Range
  <2>2. \A i, j \in 1 .. Len(q) : q[i] = q[j] => i = j
    BY <1>3, <1>6 DEF IsInjective
  <2>3. \A i, j \in 1 .. Len(a) : a[i] = a[j] => i = j
    BY <1>2, <1>4, <2>1, <2>2
  <2> QED BY <1>3, <2>3 DEF IsInjective
<1> QED BY <1>1, <1>5, <1>6 DEF a

LEMMA OneJob ==
  ASSUME NEW e
  PROVE  Range(<<e>>) = {e} /\ Range(<< >>) = {} /\ <<e>> # << >> /\ Len(<<e>>) = 1
BY DEF Range

-----------------------------------------------------------------------------
\* What the operators on the batch say.

LEMMA InitKeepsInv ==
  ASSUME EngineInit
  PROVE  EngineInv
<1> USE DEF EngineInit
<1>1. EngineTypeOK
  <2>1. IsInjective(<< >>) /\ Range(<< >>) = {} /\ Len(<< >>) = 0 /\ DOMAIN << >> = {}
    BY DEF IsInjective, Range
  <2> QED BY <2>1 DEF EngineTypeOK, Queued, InWork, Blocked, Outcome
<1>2. AnswersAreForTheCall /\ GroupsAreWhole /\ SpoiltHaveFailed
  BY DEF AnswersAreForTheCall, GroupsAreWhole, SpoiltHaveFailed
<1>3. FailuresStayInTheirGroup
  BY DEF FailuresStayInTheirGroup, Range
<1> QED BY <1>1, <1>2, <1>3 DEF EngineInv

\* A call that has no job yet and gets none leaves the answers and the history in
\* agreement.
LEMMA ArriveKeepsInv ==
  ASSUME EngineInv, NEW c \in Call, Arrive(c) \/ ReturnEmpty(c)
  PROVE  EngineInv'
<1> USE DEF EngineInv, EngineTypeOK
<1> DEFINE o == call'[c]
<1>1. /\ call[c] \in {"away", "waiting"}
      /\ \E r \in {"empty", "waiting"} : call' = [call EXCEPT ![c] = r]
      /\ UNCHANGED <<answer, queue, batch, todo, worker, spoilt>>
  BY DEF Arrive, ReturnEmpty, MayRun
<1>2. /\ call' \in [Call -> {"away", "waiting", "blocked"} \union Outcome]
      /\ call'[c] = o /\ \A d \in Call : d # c => call'[d] = call[d]
  BY <1>1 DEF Outcome
<1>3. o \in {"empty", "waiting"} /\ call[c] \in {"away", "waiting"}
  BY <1>1
<1> HIDE DEF o
<1>4. Blocked' = Blocked
  BY <1>2, <1>3 DEF Blocked
<1>5. Queued' = Queued /\ InWork' = InWork
  BY <1>1 DEF Queued, InWork
<1>6. EngineTypeOK'
  BY <1>1, <1>2, <1>4, <1>5
<1>7. AnswersAreForTheCall'
  BY <1>1, <1>2, <1>3 DEF AnswersAreForTheCall
<1>8. GroupsAreWhole'
  BY <1>1 DEF GroupsAreWhole
<1>9. SpoiltHaveFailed'
  BY <1>1, <1>2, <1>3 DEF SpoiltHaveFailed
<1>10. FailuresStayInTheirGroup'
  BY <1>1, <1>2, <1>3 DEF FailuresStayInTheirGroup
<1> QED BY <1>6, <1>7, <1>8, <1>9, <1>10

LEMMA PredictKeepsInv ==
  ASSUME EngineInv, NEW c \in Call, Predict(c)
  PROVE  EngineInv'
<1> USE DEF EngineInv, EngineTypeOK, Predict, MayRun
<1>1. /\ call' \in [Call -> {"away", "waiting", "blocked"} \union Outcome]
      /\ call'[c] = "blocked" /\ \A d \in Call : d # c => call'[d] = call[d]
  OBVIOUS
<1>2. call[c] = "waiting"
  OBVIOUS
<1>3. Blocked' = Blocked \union {c} /\ c \notin Blocked
  BY <1>1, <1>2 DEF Blocked
<1>4. /\ queue' \in Seq(Call) /\ Queued' = Queued \union {c}
      /\ IsInjective(queue')
  BY <1>3, AppendToQueue DEF Queued
<1>5. InWork' = InWork
  BY DEF InWork
<1>6. EngineTypeOK'
  BY <1>1, <1>3, <1>4, <1>5
<1>7. AnswersAreForTheCall'
  BY <1>1, <1>2 DEF AnswersAreForTheCall
<1>8. GroupsAreWhole'
  BY DEF GroupsAreWhole
<1>9. SpoiltHaveFailed'
  BY <1>1, <1>2 DEF SpoiltHaveFailed
<1>10. FailuresStayInTheirGroup'
  BY <1>1, <1>2 DEF FailuresStayInTheirGroup
<1> QED BY <1>6, <1>7, <1>8, <1>9, <1>10

-----------------------------------------------------------------------------
\* Taking up jobs: they move from the queue to the batch, and none of them has
\* failed before.

LEMMA GetKeepsInv ==
  ASSUME EngineInv, Get
  PROVE  EngineInv'
<1> USE DEF EngineInv, EngineTypeOK, Get
<1>1. /\ queue' \in Seq(Call) /\ Head(queue) \in Call /\ IsInjective(queue')
      /\ Queued = {Head(queue)} \union Queued' /\ Head(queue) \notin Queued'
  BY TailOfQueue DEF Queued
<1>2. /\ batch' \in Seq(Call) /\ Range(batch') = {Head(queue)}
      /\ batch' # << >> /\ Len(batch') = 1 /\ Range(batch) = {}
  BY <1>1, OneJob
<1>3. InWork = {} /\ InWork' = {Head(queue)} /\ Blocked' = Blocked
  BY <1>2 DEF InWork, Blocked
<1>4. todo' = {} /\ worker' = "window"
  OBVIOUS
<1>5. EngineTypeOK'
  BY <1>1, <1>2, <1>3, <1>4
<1>6. AnswersAreForTheCall' /\ GroupsAreWhole' /\ SpoiltHaveFailed'
  BY <1>4 DEF AnswersAreForTheCall, GroupsAreWhole, SpoiltHaveFailed
<1>7. FailuresStayInTheirGroup'
  BY <1>2 DEF FailuresStayInTheirGroup
<1> QED BY <1>5, <1>6, <1>7

LEMMA JoinKeepsInv ==
  ASSUME EngineInv, Join
  PROVE  EngineInv'
<1> USE DEF EngineInv, EngineTypeOK, Join
<1>1. /\ queue' \in Seq(Call) /\ Head(queue) \in Call /\ IsInjective(queue')
      /\ Queued = {Head(queue)} \union Queued' /\ Head(queue) \notin Queued'
  BY TailOfQueue DEF Queued
<1>2. /\ batch' \in Seq(Call) /\ Range(batch') = Range(batch) \union {Head(queue)}
      /\ Len(batch') = Len(batch) + 1
  BY <1>1, AppendToQueue
<1>3. batch' # << >> /\ Len(batch') <= MaxBatch
  <2>1. Len(batch) \in Nat /\ Len(<< >>) = 0 /\ Len(batch') \in Nat
    BY <1>2
  <2> QED BY <1>2, <2>1, EngineAssumption
<1>4. InWork = Range(batch) /\ InWork' = Range(batch') /\ Blocked' = Blocked
  BY DEF InWork, Blocked
<1>5. todo' = {} /\ worker' = "window"
  OBVIOUS
<1>6. EngineTypeOK'
  BY <1>1, <1>2, <1>3, <1>4, <1>5
<1>7. AnswersAreForTheCall' /\ GroupsAreWhole' /\ SpoiltHaveFailed'
  BY <1>5 DEF AnswersAreForTheCall, GroupsAreWhole, SpoiltHaveFailed
<1>8. \A d \in Range(batch') : d \in Blocked
  BY <1>1, <1>2, <1>4
<1>9. \A d \in Range(batch') : d \notin spoilt
  BY <1>8 DEF Blocked, SpoiltHaveFailed
<1>10. FailuresStayInTheirGroup'
  BY <1>9 DEF FailuresStayInTheirGroup
<1> QED BY <1>6, <1>7, <1>10

LEMMA CloseKeepsInv ==
  ASSUME EngineInv, Close
  PROVE  EngineInv'
<1> USE DEF EngineInv, EngineTypeOK, Close
<1>1. DOMAIN batch # {} /\ batch # << >>
  <2>1. batch \in Seq(Call) /\ batch # << >>
    OBVIOUS
  <2>2. DOMAIN batch = 1 .. Len(batch) /\ Len(batch) \in Nat \ {0}
    BY <2>1
  <2>3. 1 \in 1 .. Len(batch)
    BY <2>2
  <2> QED BY <2>1, <2>2, <2>3
<1>2. InWork = Range(batch) /\ InWork' = Range(batch)
  BY DEF InWork, Range
<1>3. Blocked' = Blocked /\ Queued' = Queued
  BY DEF Blocked, Queued
<1>4. EngineTypeOK'
  BY <1>1, <1>2, <1>3
<1>5. AnswersAreForTheCall' /\ GroupsAreWhole' /\ SpoiltHaveFailed' /\ FailuresStayInTheirGroup'
  BY DEF AnswersAreForTheCall, GroupsAreWhole, SpoiltHaveFailed, FailuresStayInTheirGroup
<1> QED BY <1>4, <1>5

-----------------------------------------------------------------------------
\* Settling a group.

\* The jobs of a group share the settings of its first one; they are blocked, they
\* were in work, and no other place of the batch holds one of them or their settings.
LEMMA GroupFacts ==
  ASSUME EngineInv, worker = "flush"
  PROVE  /\ Asked \subseteq Blocked /\ Asked \subseteq Call
         /\ Group \subseteq todo
         /\ \A i \in Group : batch[i] \in Call /\ Settings[batch[i]] = Settings[batch[First]]
         /\ \A i \in DOMAIN batch, c \in Asked :
              Settings[batch[i]] = Settings[c] => i \in Group
<1> USE DEF EngineInv, EngineTypeOK
<1>1. \A i \in DOMAIN batch : batch[i] \in Call
  OBVIOUS
<1>2. Asked \subseteq InWork /\ Group \subseteq todo
  BY DEF Asked, Group, InWork
<1>3. Asked \subseteq Blocked
  BY <1>2
<1>4. \A i \in Group : batch[i] \in Call /\ Settings[batch[i]] = Settings[batch[First]]
  BY <1>1, <1>2 DEF Group
<1>5. ASSUME NEW i \in DOMAIN batch, NEW c \in Asked, Settings[batch[i]] = Settings[c]
      PROVE  i \in Group
  <2>1. PICK j \in Group : c = batch[j]
    BY DEF Asked
  <2>2. j \in todo /\ j \in DOMAIN batch /\ Settings[batch[i]] = Settings[batch[j]]
    BY <1>2, <1>5, <2>1
  <2>3. i \in todo
    BY <2>2 DEF GroupsAreWhole
  <2> QED BY <1>4, <1>5, <2>1, <2>3 DEF Group
<1>6. Asked \subseteq Call
  BY <1>3 DEF Blocked
<1> QED BY <1>2, <1>3, <1>4, <1>5, <1>6

\* Whatever the outcome, the rest of the batch is what is left to be asked about.
LEMMA SettleKeeps ==
  ASSUME EngineInv, NEW outcome \in Outcome, Settle(outcome),
         answer' \in [Call -> SUBSET [found : Call, settings : Range(Settings)]],
         spoilt' \subseteq Call
  PROVE  EngineTypeOK' /\ GroupsAreWhole'
<1> USE DEF EngineInv, EngineTypeOK, Settle
<1>1. worker = "flush" /\ todo' = todo \ Group /\ queue' = queue
  OBVIOUS
<1>2. /\ call' \in [Call -> {"away", "waiting", "blocked"} \union Outcome]
      /\ \A c \in Call : call'[c] = IF c \in Asked THEN outcome ELSE call[c]
  OBVIOUS
<1>3. Blocked' = Blocked \ Asked
  <2>1. outcome # "blocked"
    BY DEF Outcome
  <2> QED BY <1>2, <2>1 DEF Blocked
<1>4. InWork' = InWork \ Asked
  <2>1. InWork = { batch[i] : i \in todo }
    BY <1>1 DEF InWork
  <2>2. { batch[i] : i \in todo' } = InWork \ Asked
    <3>1. ASSUME NEW i \in todo, i \notin Group PROVE batch[i] \notin Asked
      <4>1. i \in DOMAIN batch
        BY <3>1
      <4> QED BY <1>1, <3>1, <4>1, GroupFacts
    <3>2. ASSUME NEW i \in todo, batch[i] \notin Asked PROVE i \notin Group
      BY <3>2 DEF Asked
    <3> QED BY <1>1, <2>1, <3>1, <3>2
  <2>3. CASE todo' = {}
    <3>1. worker' = "get" /\ batch' = << >>
      BY <2>3
    <3>2. InWork' = {}
      BY <3>1, OneJob DEF InWork
    <3> QED BY <2>2, <2>3, <3>2
  <2>4. CASE todo' # {}
    BY <1>1, <2>2, <2>4 DEF InWork
  <2> QED BY <2>3, <2>4
<1>5. Queued' = Queued /\ Queued \cap Asked = {}
  BY <1>1, GroupFacts DEF Queued, InWork, Asked, Group
<1>6. /\ batch' \in Seq(Call) /\ todo' \subseteq DOMAIN batch'
      /\ Len(batch') <= 1 \/ Len(batch') <= MaxBatch
      /\ worker' \in {"get", "window", "flush"}
      /\ worker' = "get" <=> batch' = << >>
      /\ worker' = "flush" <=> todo' # {}
  <2>1. CASE todo' = {}
    <3>1. worker' = "get" /\ batch' = << >>
      BY <2>1
    <3>2. << >> \in Seq(Call) /\ Len(<< >>) = 0
      OBVIOUS
    <3> QED BY <2>1, <3>1, <3>2
  <2>2. CASE todo' # {}
    <3>1. worker' = "flush" /\ batch' = batch
      BY <1>1, <2>2
    <3> QED BY <1>1, <2>2, <3>1
  <2> QED BY <2>1, <2>2
<1>7. EngineTypeOK'
  <2>1. IsInjective(queue') /\ queue' \in Seq(Call)
    BY <1>1
  <2>2. Queued' \cap InWork' = {} /\ Queued' \union InWork' = Blocked'
    BY <1>3, <1>4, <1>5
  <2> QED BY <1>2, <1>6, <2>1, <2>2
<1>8. GroupsAreWhole'
  <2>1. CASE todo' = {}
    BY <2>1 DEF GroupsAreWhole
  <2>2. CASE todo' # {}
    <3>1. batch' = batch
      BY <2>2
    <3>2. ASSUME NEW i \in DOMAIN batch, NEW j \in DOMAIN batch,
                 Settings[batch[i]] = Settings[batch[j]]
          PROVE  i \in Group <=> j \in Group
      BY <1>1, <3>2 DEF Group, GroupsAreWhole
    <3> QED BY <1>1, <3>1, <3>2 DEF GroupsAreWhole
  <2> QED BY <2>1, <2>2
<1> QED BY <1>7, <1>8

\* Every job of the group gets the one thing found in its own text under its own
\* settings, which are those of the group's first job.
LEMMA AnswerKeepsInv ==
  ASSUME EngineInv, Answer
  PROVE  EngineInv'
<1>1. worker = "flush" /\ spoilt' = spoilt
  BY DEF Answer, Settle
<1>2. ASSUME NEW c \in Asked
      PROVE  { [found |-> batch[i], settings |-> Settings[batch[First]]] :
                 i \in { j \in Group : batch[j] = c } } = {[found |-> c, settings |-> Settings[c]]}
  <2>1. PICK k \in Group : batch[k] = c
    BY DEF Asked
  <2>2. Settings[batch[First]] = Settings[c]
    BY <1>1, <2>1, GroupFacts
  <2>3. \A i \in { j \in Group : batch[j] = c } :
          [found |-> batch[i], settings |-> Settings[batch[First]]]
            = [found |-> c, settings |-> Settings[c]]
    BY <2>2
  <2> QED BY <2>1, <2>3
<1>3. \A c \in Call : answer'[c] =
        IF c \in Asked THEN {[found |-> c, settings |-> Settings[c]]} ELSE answer[c]
  BY <1>2 DEF Answer
<1>4. \A c \in Call : call'[c] = IF c \in Asked THEN "answered" ELSE call[c]
  BY DEF Answer, Settle
<1>5. answer' \in [Call -> SUBSET [found : Call, settings : Range(Settings)]]
  <2>1. DOMAIN answer' = Call /\ answer' = [c \in Call |-> answer'[c]]
    BY DEF Answer
  <2>2. \A c \in Call : [found |-> c, settings |-> Settings[c]]
                          \in [found : Call, settings : Range(Settings)]
    BY EngineAssumption DEF Range
  <2>3. \A c \in Call : answer[c] \in SUBSET [found : Call, settings : Range(Settings)]
    BY DEF EngineInv, EngineTypeOK
  <2>4. \A c \in Call : answer'[c] \in SUBSET [found : Call, settings : Range(Settings)]
    BY <1>3, <2>2, <2>3
  <2> QED BY <2>1, <2>4
<1>6. EngineTypeOK' /\ GroupsAreWhole'
  BY <1>1, <1>5, SettleKeeps DEF Answer, Outcome, EngineInv, EngineTypeOK
<1>7. AnswersAreForTheCall'
  BY <1>3, <1>4 DEF EngineInv, AnswersAreForTheCall
<1>8. \A c \in Asked : call[c] = "blocked"
  BY <1>1, GroupFacts DEF Blocked
<1>9. SpoiltHaveFailed'
  BY <1>1, <1>4, <1>8 DEF EngineInv, SpoiltHaveFailed
<1>10. FailuresStayInTheirGroup'
  <2>1. Range(batch') \subseteq Range(batch)
    BY DEF Answer, Settle, Range
  <2>2. \A c \in Call : call'[c] = "failed" => call[c] = "failed"
    BY <1>4
  <2> QED BY <1>1, <2>1, <2>2 DEF EngineInv, FailuresStayInTheirGroup
<1> QED BY <1>6, <1>7, <1>9, <1>10 DEF EngineInv

\* The group that fails is all there is of its settings in the batch.
LEMMA FailKeepsInv ==
  ASSUME EngineInv, Fail
  PROVE  EngineInv'
<1>1. /\ worker = "flush" /\ answer' = answer /\ spoilt' = spoilt \union Asked
      /\ Settle("failed")
  BY DEF Fail, Settle
<1>2. \A c \in Call : call'[c] = IF c \in Asked THEN "failed" ELSE call[c]
  BY <1>1 DEF Settle
<1>3. Asked \subseteq Blocked /\ Asked \subseteq Call
  BY <1>1, GroupFacts
<1>4. EngineTypeOK' /\ GroupsAreWhole'
  BY <1>1, <1>3, SettleKeeps DEF Outcome, EngineInv, EngineTypeOK
<1>5. AnswersAreForTheCall'
  BY <1>1, <1>2, <1>3 DEF EngineInv, AnswersAreForTheCall, Blocked
<1>6. SpoiltHaveFailed'
  BY <1>1, <1>2, <1>3 DEF EngineInv, SpoiltHaveFailed
<1>7. FailuresStayInTheirGroup'
  <2>1. Range(batch') \subseteq Range(batch)
    BY <1>1 DEF Settle, Range
  <2>2. ASSUME NEW c \in Range(batch), NEW d \in Range(batch),
               Settings[c] = Settings[d], c \in Asked
        PROVE  d \in Asked
    <3>1. PICK i \in DOMAIN batch : d = batch[i]
      BY DEF Range
    <3>2. i \in Group
      BY <1>1, <2>2, <3>1, GroupFacts
    <3> QED BY <3>1, <3>2 DEF Asked
  <2>3. \A c, d \in Range(batch) : Settings[c] = Settings[d] =>
          (c \in spoilt \union Asked <=> d \in spoilt \union Asked)
    BY <2>2 DEF EngineInv, FailuresStayInTheirGroup
  <2>4. \A c \in Call : call'[c] = "failed" => c \in spoilt'
    BY <1>6 DEF SpoiltHaveFailed
  <2> QED BY <1>1, <2>1, <2>3, <2>4 DEF FailuresStayInTheirGroup
<1> QED BY <1>4, <1>5, <1>6, <1>7 DEF EngineInv

-----------------------------------------------------------------------------
LEMMA StutterKeepsInv ==
  ASSUME EngineInv, UNCHANGED engineVars
  PROVE  EngineInv'
BY DEF EngineInv, engineVars, EngineTypeOK, AnswersAreForTheCall, GroupsAreWhole,
       SpoiltHaveFailed, FailuresStayInTheirGroup, Queued, InWork, Blocked

\* The inductive invariant holds throughout.
THEOREM EngineInvariant == EngineSpec => []EngineInv
<1>1. EngineInit => EngineInv
  BY InitKeepsInv
<1>2. EngineInv /\ [EngineNext]_engineVars => EngineInv'
  <2> SUFFICES ASSUME EngineInv, [EngineNext]_engineVars PROVE EngineInv'
    OBVIOUS
  <2>1. CASE UNCHANGED engineVars
    BY <2>1, StutterKeepsInv
  <2>2. CASE Worker
    BY <2>2, GetKeepsInv, JoinKeepsInv, CloseKeepsInv, AnswerKeepsInv, FailKeepsInv DEF Worker
  <2>3. CASE \E c \in Call : Arrive(c) \/ Handler(c)
    BY <2>3, ArriveKeepsInv, PredictKeepsInv DEF Handler
  <2> QED BY <2>1, <2>2, <2>3 DEF EngineNext
<1> QED BY <1>1, <1>2, PTL DEF EngineSpec

\* No job is lost or doubled: the blocked handlers' jobs are in the queue, in the
\* batch or still to be asked about, each in one place, and the batch is bounded.
THEOREM NoJobIsLost == EngineSpec => []EngineTypeOK
<1>1. EngineInv => EngineTypeOK
  BY DEF EngineInv
<1> QED BY <1>1, EngineInvariant, PTL

\* A handler gets what was found in its own text under its own settings, however the
\* batches were cut and whatever failed beside it.
THEOREM AnswersReachTheirCalls == EngineSpec => []AnswersAreForTheCall
<1>1. EngineInv => AnswersAreForTheCall
  BY DEF EngineInv
<1> QED BY <1>1, EngineInvariant, PTL

\* A group's failure is the failure of all its jobs and of no other group's.
THEOREM FailuresAreContained == EngineSpec => []FailuresStayInTheirGroup
<1>1. EngineInv => FailuresStayInTheirGroup
  BY DEF EngineInv
<1> QED BY <1>1, EngineInvariant, PTL

\* The queue is left from the front: while a job is in it, so are those behind it.
THEOREM QueueIsFirstInFirstOut == EngineSpec => NoOvertaking
<1> DEFINE Kept == \A i, j \in DOMAIN queue :
             i < j /\ queue[i] \in Range(queue') => queue[j] \in Range(queue')
<1>1. ASSUME EngineInv, [EngineNext]_engineVars
      PROVE  \/ UNCHANGED queue
             \/ \E c \in Call : queue' = Append(queue, c)
             \/ queue # << >> /\ queue' = Tail(queue)
  BY <1>1 DEF EngineNext, Worker, Get, Join, Close, Answer, Fail, Settle, Arrive, Handler,
         ReturnEmpty, Predict, engineVars
<1>2. ASSUME EngineInv, [EngineNext]_engineVars PROVE Kept
  <2>1. queue \in Seq(Call) /\ IsInjective(queue)
    BY <1>2 DEF EngineInv, EngineTypeOK
  <2>2. CASE UNCHANGED queue
    BY <2>2 DEF Range
  <2>3. CASE \E c \in Call : queue' = Append(queue, c)
    <3>1. Range(queue) \subseteq Range(queue')
      BY <2>1, <2>3, AppendToQueue
    <3> QED BY <3>1 DEF Range
  <2>4. CASE queue # << >> /\ queue' = Tail(queue)
    <3>1. ASSUME NEW i \in DOMAIN queue, NEW j \in DOMAIN queue, i < j
          PROVE  queue[j] \in Range(queue')
      <4>1. Range(queue) = {Head(queue)} \union Range(queue') /\ Head(queue) = queue[1]
        BY <2>1, <2>4, TailOfQueue
      <4>2. j # 1 /\ 1 \in DOMAIN queue
        BY <2>1, <3>1
      <4>3. queue[j] # queue[1] /\ queue[j] \in Range(queue)
        BY <2>1, <4>2 DEF IsInjective, Range
      <4> QED BY <4>1, <4>3
    <3> QED BY <3>1
  <2> QED BY <1>1, <1>2, <2>2, <2>3, <2>4
<1>3. EngineInv /\ [EngineNext]_engineVars => [Kept]_engineVars
  BY <1>2
<1> QED BY <1>3, EngineInvariant, PTL DEF EngineSpec, NoOvertaking
=============================================================================
