----------------------------- MODULE VaultProofs -----------------------------
(***************************************************************************)
(* The properties of Vault, and that it implements LossyStore, for any     *)
(* requests, tokens, values and any lifetime.                              *)
(***************************************************************************)
EXTENDS Vault, TLAPS

\* What the backend holds, and what a lookup under way has in hand, is what the
\* request saved there.
HoldsWhatWasSaved ==
  /\ \A k \in DOMAIN items : k \in DOMAIN saved /\ items[k].value = saved[k]
  /\ \A r \in Req : pending[r] # NoAnswer =>
        /\ pending[r].token \in Tok
        /\ <<r, pending[r].token>> \in DOMAIN saved
        /\ pending[r].value = saved[<<r, pending[r].token>>]

\* A mapping is there exactly until it has been idle for the lifetime, and has the
\* rest of it left.
LivesItsTime ==
  ~restarted =>
    \A k \in DOMAIN saved :
       /\ k \in DOMAIN items <=> idle[k] < TTL
       /\ k \in DOMAIN items => items[k].left = TTL - idle[k]

\* The inductive invariant: UsedStaysAlive alone does not bound what is left of a
\* lifetime, nor AnswersAreOwn what a lookup may still return.
VaultInv ==
  /\ VaultTypeOK
  /\ HoldsWhatWasSaved
  /\ LivesItsTime
  /\ AnswersAreOwn

-----------------------------------------------------------------------------
LEMMA VaultInitEstablishes ==
  ASSUME VaultInit
  PROVE  VaultInv
<1>1. DOMAIN items = {} /\ DOMAIN saved = {} /\ DOMAIN idle = {}
  BY DEF VaultInit, EmptyMap
<1>2. \A r \in Req : pending[r] = NoAnswer /\ answer[r] = NoAnswer
  BY DEF VaultInit
<1>3. VaultTypeOK
  <2>1. NoAnswer \in [token : Tok \cup {Missing}, value : Val \cup {Missing}]
    BY DEF NoAnswer
  <2>2. \A f \in {pending, answer} :
           f \in [Req -> [token : Tok \cup {Missing}, value : Val \cup {Missing}]]
    BY <2>1 DEF VaultInit
  <2>3. \A S : EmptyMap \in [{} -> S]
    BY DEF EmptyMap
  <2>4. /\ items \in [DOMAIN items -> [value : Val, left : 1 .. TTL]]
        /\ saved \in [DOMAIN saved -> Val] /\ idle \in [DOMAIN saved -> 0 .. TTL]
    BY <1>1, <2>3 DEF VaultInit
  <2> QED BY <1>1, <2>2, <2>4 DEF VaultInit, VaultTypeOK
<1>4. HoldsWhatWasSaved /\ LivesItsTime
  BY <1>1, <1>2 DEF HoldsWhatWasSaved, LivesItsTime
<1>5. AnswersAreOwn
  BY <1>2 DEF AnswersAreOwn, NoAnswer
<1> QED BY <1>3, <1>4, <1>5 DEF VaultInv

\* A mapping that is set, new or again, starts its time anew.
LEMMA SetPreserves ==
  ASSUME VaultInv, NEW k0 \in Req \X Tok, NEW v \in Val,
         items' = Put(items, k0, Fresh(v)),
         idle' = Put(idle, k0, 0),
         DOMAIN saved' = DOMAIN saved \cup {k0}, saved'[k0] = v,
         \A k \in DOMAIN saved : k # k0 => saved'[k] = saved[k],
         restarted' = restarted
  PROVE  /\ DOMAIN items' \subseteq Req \X Tok /\ DOMAIN saved' \subseteq Req \X Tok
         /\ items' \in [DOMAIN items' -> [value : Val, left : 1 .. TTL]]
         /\ \A k \in DOMAIN items' : k \in DOMAIN saved' /\ items'[k].value = saved'[k]
         /\ idle' \in [DOMAIN saved' -> 0 .. TTL]
         /\ LivesItsTime'
<1>1. /\ DOMAIN items' = DOMAIN items \cup {k0} /\ items'[k0] = Fresh(v)
      /\ \A k \in DOMAIN items : k # k0 => items'[k] = items[k]
  BY DEF Put
<1>2. /\ DOMAIN idle' = DOMAIN idle \cup {k0} /\ idle'[k0] = 0
      /\ \A k \in DOMAIN idle : k # k0 => idle'[k] = idle[k]
  BY DEF Put
<1>3. /\ DOMAIN saved' = DOMAIN saved \cup {k0} /\ saved'[k0] = v
      /\ \A k \in DOMAIN saved : k # k0 => saved'[k] = saved[k]
  OBVIOUS
<1>4. /\ TTL \in Nat \ {0} /\ Fresh(v).value = v /\ Fresh(v).left = TTL
      /\ Fresh(v) \in [value : Val, left : 1 .. TTL]
  BY VaultAssumption DEF Fresh
<1>5. ASSUME NEW k \in DOMAIN items'
      PROVE  /\ items'[k] \in [value : Val, left : 1 .. TTL]
             /\ k \in DOMAIN saved' /\ items'[k].value = saved'[k]
  <2>1. CASE k = k0
    BY <1>1, <1>3, <1>4, <2>1
  <2>2. CASE k # k0
    BY <1>1, <1>3, <2>2 DEF VaultInv, VaultTypeOK, HoldsWhatWasSaved
  <2> QED BY <2>1, <2>2
<1>6. items' \in [DOMAIN items' -> [value : Val, left : 1 .. TTL]]
  BY <1>5 DEF Put
<1>7. DOMAIN idle' = DOMAIN saved' /\ DOMAIN idle = DOMAIN saved
  BY <1>2, <1>3 DEF VaultInv, VaultTypeOK
<1>8. idle' \in [DOMAIN saved' -> 0 .. TTL]
  <2>1. ASSUME NEW k \in DOMAIN saved' PROVE idle'[k] \in 0 .. TTL
    BY <1>2, <1>4, <1>7 DEF VaultInv, VaultTypeOK
  <2> QED BY <1>7, <2>1 DEF Put
<1>9. LivesItsTime'
  <2> SUFFICES ASSUME ~restarted, NEW k \in DOMAIN saved'
               PROVE  /\ k \in DOMAIN items' <=> idle'[k] < TTL
                      /\ k \in DOMAIN items' => items'[k].left = TTL - idle'[k]
    BY DEF LivesItsTime
  <2>1. CASE k = k0
    BY <1>1, <1>2, <1>4, <2>1
  <2>2. CASE k # k0
    <3>1. k \in DOMAIN saved /\ k \in DOMAIN idle
      BY <1>3, <1>7, <2>2
    <3> QED BY <1>1, <1>2, <2>2, <3>1 DEF VaultInv, LivesItsTime
  <2> QED BY <2>1, <2>2
<1>10. DOMAIN items' \subseteq Req \X Tok /\ DOMAIN saved' \subseteq Req \X Tok
  BY <1>1, <1>3 DEF VaultInv, VaultTypeOK
<1> QED BY <1>5, <1>6, <1>8, <1>9, <1>10

LEMMA SavePreserves ==
  ASSUME VaultInv, NEW r \in Req, NEW t \in Tok, NEW v \in Val, SaveMapping(r, t, v)
  PROVE  VaultInv'
<1> DEFINE k0 == <<r, t>>
<1>1. /\ k0 \notin DOMAIN saved /\ saved' = Put(saved, k0, v)
      /\ items' = Put(items, k0, Fresh(v)) /\ idle' = Put(idle, k0, 0)
      /\ UNCHANGED <<backend, pending, over, answer, restarted>>
  BY DEF SaveMapping, key
<1>2. k0 \in Req \X Tok
  OBVIOUS
<1> HIDE DEF k0
<1>3. /\ DOMAIN saved' = DOMAIN saved \cup {k0} /\ saved'[k0] = v
      /\ \A k \in DOMAIN saved : k # k0 => saved'[k] = saved[k]
  BY <1>1 DEF Put
<1>4. saved' \in [DOMAIN saved' -> Val]
  BY <1>1, <1>3 DEF Put, VaultInv, VaultTypeOK
<1>5. VaultTypeOK' /\ LivesItsTime'
      /\ \A k \in DOMAIN items' : k \in DOMAIN saved' /\ items'[k].value = saved'[k]
  BY <1>1, <1>2, <1>3, <1>4, SetPreserves DEF VaultInv, VaultTypeOK
<1>6. HoldsWhatWasSaved'
  BY <1>1, <1>3, <1>5 DEF VaultInv, HoldsWhatWasSaved, NoAnswer
<1>7. AnswersAreOwn'
  BY <1>1, <1>3 DEF VaultInv, AnswersAreOwn
<1> QED BY <1>5, <1>6, <1>7 DEF VaultInv

\* What a request is handed is in the types and is its own, or nothing.
LEMMA ReturnPreserves ==
  ASSUME VaultInv, NEW r \in Req, NEW t \in Tok, NEW v \in Val \cup {Missing},
         Return(r, t, v), saved' = saved,
         v # Missing => <<r, t>> \in DOMAIN saved /\ v = saved[<<r, t>>]
  PROVE  /\ AnswersAreOwn'
         /\ answer' \in [Req -> [token : Tok \cup {Missing}, value : Val \cup {Missing}]]
<1>1. answer' = [answer EXCEPT ![r] = [token |-> t, value |-> v]]
  BY DEF Return
<1>2. answer \in [Req -> [token : Tok \cup {Missing}, value : Val \cup {Missing}]]
  BY DEF VaultInv, VaultTypeOK
<1>3. AnswersAreOwn'
  <2> SUFFICES ASSUME NEW q \in Req, answer'[q].value # Missing
               PROVE  /\ <<q, answer'[q].token>> \in DOMAIN saved
                      /\ answer'[q].value = saved[<<q, answer'[q].token>>]
    BY DEF AnswersAreOwn
  <2>1. CASE q = r
    BY <1>1, <1>2, <2>1
  <2>2. CASE q # r
    BY <1>1, <1>2, <2>2 DEF VaultInv, AnswersAreOwn
  <2> QED BY <2>1, <2>2
<1> QED BY <1>1, <1>2, <1>3

\* A mapping of the request is renewed: its value is known, so nothing is saved anew.
LEMMA RenewPreserves ==
  ASSUME VaultInv, NEW r \in Req, NEW t \in Tok, NEW v \in Val,
         Renew(r, t, v), UNCHANGED <<saved, restarted>>,
         <<r, t>> \in DOMAIN saved, v = saved[<<r, t>>]
  PROVE  /\ DOMAIN items' \subseteq Req \X Tok
         /\ items' \in [DOMAIN items' -> [value : Val, left : 1 .. TTL]]
         /\ \A k \in DOMAIN items' : k \in DOMAIN saved' /\ items'[k].value = saved'[k]
         /\ idle' \in [DOMAIN saved' -> 0 .. TTL]
         /\ LivesItsTime'
<1> DEFINE k0 == <<r, t>>
<1>1. items' = Put(items, k0, Fresh(v)) /\ idle' = Put(idle, k0, 0) /\ k0 \in Req \X Tok
  BY DEF Renew, key
<1> HIDE DEF k0
<1>2. /\ DOMAIN saved' = DOMAIN saved \cup {k0} /\ saved'[k0] = v
      /\ \A k \in DOMAIN saved : k # k0 => saved'[k] = saved[k]
  BY DEF k0
<1> QED BY <1>1, <1>2, SetPreserves

LEMMA MissPreserves ==
  ASSUME VaultInv, NEW r \in Req, NEW t \in Tok, LookupMisses(r, t)
  PROVE  VaultInv'
<1>1. Return(r, t, Missing) /\ UNCHANGED <<backend, items, pending, over, saved, idle, restarted>>
  BY DEF LookupMisses
<1>2. AnswersAreOwn' /\ answer' \in [Req -> [token : Tok \cup {Missing}, value : Val \cup {Missing}]]
  BY <1>1, ReturnPreserves
<1> QED BY <1>1, <1>2 DEF VaultInv, VaultTypeOK, HoldsWhatWasSaved, LivesItsTime

\* What Get found is what was saved, and stays so until Set puts it back.
LEMMA MemoryGetPreserves ==
  ASSUME VaultInv, NEW r \in Req, NEW t \in Tok, MemoryGet(r, t)
  PROVE  VaultInv'
<1> DEFINE k0 == <<r, t>>
           got == [token |-> t, value |-> items[k0].value]
<1>1. /\ k0 \in DOMAIN items /\ pending' = [pending EXCEPT ![r] = got]
      /\ UNCHANGED <<backend, items, over, answer, saved, idle, restarted>>
  BY DEF MemoryGet, key
<1>2. k0 \in DOMAIN saved /\ items[k0].value = saved[k0] /\ saved[k0] \in Val
  BY <1>1 DEF VaultInv, VaultTypeOK, HoldsWhatWasSaved
<1>3. got \in [token : Tok \cup {Missing}, value : Val \cup {Missing}]
      /\ got.token = t /\ got.value = saved[k0]
  BY <1>2
<1> HIDE DEF got
<1>4. pending \in [Req -> [token : Tok \cup {Missing}, value : Val \cup {Missing}]]
  BY DEF VaultInv, VaultTypeOK
<1>5. pending' \in [Req -> [token : Tok \cup {Missing}, value : Val \cup {Missing}]]
  BY <1>1, <1>3, <1>4
<1>6. VaultTypeOK'
  BY <1>1, <1>5 DEF VaultInv, VaultTypeOK
<1>7. HoldsWhatWasSaved'
  <2>1. ASSUME NEW q \in Req, pending'[q] # NoAnswer
        PROVE  /\ pending'[q].token \in Tok
               /\ <<q, pending'[q].token>> \in DOMAIN saved
               /\ pending'[q].value = saved[<<q, pending'[q].token>>]
    <3>1. CASE q = r
      <4>1. pending'[q] = got
        BY <1>1, <1>4, <3>1
      <4> QED BY <1>2, <1>3, <3>1, <4>1
    <3>2. CASE q # r
      <4>1. pending'[q] = pending[q]
        BY <1>1, <1>4, <3>2
      <4> QED BY <2>1, <4>1 DEF VaultInv, HoldsWhatWasSaved
    <3> QED BY <3>1, <3>2
  <2> QED BY <1>1, <2>1 DEF VaultInv, HoldsWhatWasSaved, NoAnswer
<1> QED BY <1>1, <1>6, <1>7 DEF VaultInv, LivesItsTime, AnswersAreOwn

LEMMA MemorySetPreserves ==
  ASSUME VaultInv, NEW r \in Req, MemorySet(r)
  PROVE  VaultInv'
<1> DEFINE t == pending[r].token
           v == pending[r].value
<1>1. /\ Renew(r, t, v) /\ Return(r, t, v) /\ pending' = [pending EXCEPT ![r] = NoAnswer]
      /\ UNCHANGED <<backend, over, saved, restarted>>
  BY DEF MemorySet
<1>2. /\ t \in Tok /\ <<r, t>> \in DOMAIN saved /\ v = saved[<<r, t>>] /\ v \in Val
  BY DEF MemorySet, VaultInv, VaultTypeOK, HoldsWhatWasSaved
<1>3. pending \in [Req -> [token : Tok \cup {Missing}, value : Val \cup {Missing}]]
  BY DEF VaultInv, VaultTypeOK
<1> HIDE DEF t, v
<1>4. /\ DOMAIN items' \subseteq Req \X Tok
      /\ items' \in [DOMAIN items' -> [value : Val, left : 1 .. TTL]]
      /\ \A k \in DOMAIN items' : k \in DOMAIN saved' /\ items'[k].value = saved'[k]
      /\ idle' \in [DOMAIN saved' -> 0 .. TTL]
      /\ LivesItsTime'
  BY <1>1, <1>2, RenewPreserves
<1>5. /\ AnswersAreOwn'
      /\ answer' \in [Req -> [token : Tok \cup {Missing}, value : Val \cup {Missing}]]
  BY <1>1, <1>2, ReturnPreserves
<1>6. pending' \in [Req -> [token : Tok \cup {Missing}, value : Val \cup {Missing}]]
  BY <1>1, <1>3 DEF NoAnswer
<1>7. \A q \in Req : pending'[q] # NoAnswer => pending'[q] = pending[q]
  BY <1>1, <1>3
<1>8. VaultTypeOK'
  BY <1>1, <1>4, <1>5, <1>6 DEF VaultInv, VaultTypeOK
<1>9. HoldsWhatWasSaved'
  BY <1>1, <1>4, <1>7 DEF VaultInv, HoldsWhatWasSaved, NoAnswer
<1> QED BY <1>4, <1>5, <1>8, <1>9 DEF VaultInv

\* Redis: the mapping may or may not have been renewed, and the caller is handed
\* its value, or an error.
LEMMA RedisPreserves ==
  ASSUME VaultInv, NEW r \in Req, NEW t \in Tok, RedisGetEx(r, t) \/ RedisGetFails(r, t)
  PROVE  VaultInv'
<1> DEFINE v == items[<<r, t>>].value
<1>1. /\ <<r, t>> \in DOMAIN items
      /\ Renew(r, t, v) \/ UNCHANGED <<items, idle>>
      /\ Return(r, t, v) \/ Return(r, t, Missing)
      /\ UNCHANGED <<backend, pending, over, saved, restarted>>
  BY DEF RedisGetEx, RedisGetFails, key
<1>2. <<r, t>> \in DOMAIN saved /\ v = saved[<<r, t>>] /\ v \in Val
  BY <1>1 DEF VaultInv, VaultTypeOK, HoldsWhatWasSaved
<1> HIDE DEF v
<1>3. /\ DOMAIN items' \subseteq Req \X Tok
      /\ items' \in [DOMAIN items' -> [value : Val, left : 1 .. TTL]]
      /\ \A k \in DOMAIN items' : k \in DOMAIN saved' /\ items'[k].value = saved'[k]
      /\ idle' \in [DOMAIN saved' -> 0 .. TTL]
      /\ LivesItsTime'
  <2>1. CASE Renew(r, t, v)
    BY <1>1, <1>2, <2>1, RenewPreserves
  <2>2. CASE UNCHANGED <<items, idle>>
    BY <1>1, <2>2 DEF VaultInv, VaultTypeOK, HoldsWhatWasSaved, LivesItsTime
  <2> QED BY <1>1, <2>1, <2>2
<1>4. /\ AnswersAreOwn'
      /\ answer' \in [Req -> [token : Tok \cup {Missing}, value : Val \cup {Missing}]]
  BY <1>1, <1>2, ReturnPreserves
<1>5. VaultTypeOK' /\ HoldsWhatWasSaved'
  BY <1>1, <1>3, <1>4 DEF VaultInv, VaultTypeOK, HoldsWhatWasSaved, NoAnswer
<1> QED BY <1>3, <1>4, <1>5 DEF VaultInv

LEMMA OverPreserves ==
  ASSUME VaultInv, NEW r \in Req, Over(r)
  PROVE  VaultInv'
<1>1. over' = [over EXCEPT ![r] = TRUE]
      /\ UNCHANGED <<backend, items, pending, answer, saved, idle, restarted>>
  BY DEF Over
<1>2. over' \in [Req -> BOOLEAN]
  BY <1>1 DEF VaultInv, VaultTypeOK
<1> QED BY <1>1, <1>2 DEF VaultInv, VaultTypeOK, HoldsWhatWasSaved, LivesItsTime, AnswersAreOwn

\* A tick takes one from what is left and adds one to the idle time; a mapping
\* goes when the one is used up, which is when the other is the lifetime.
LEMMA TickPreserves ==
  ASSUME VaultInv, Tick
  PROVE  VaultInv'
<1>1. /\ DOMAIN items' = { k \in DOMAIN items : items[k].left > 1 }
      /\ \A k \in DOMAIN items' : items'[k] = [items[k] EXCEPT !.left = @ - 1]
      /\ DOMAIN idle' = DOMAIN idle
      /\ \A k \in DOMAIN idle : idle'[k] = IF idle[k] < TTL THEN idle[k] + 1 ELSE TTL
      /\ UNCHANGED <<backend, pending, over, answer, saved, restarted>>
  BY DEF Tick
<1>2. TTL \in Nat \ {0}
  BY VaultAssumption
<1>3. /\ \A k \in DOMAIN idle : idle[k] \in 0 .. TTL
      /\ idle' \in [DOMAIN saved -> 0 .. TTL]
  BY <1>1, <1>2 DEF VaultInv, VaultTypeOK, Tick
<1>4. ASSUME NEW k \in DOMAIN items'
      PROVE  /\ k \in DOMAIN items /\ items[k].left \in 2 .. TTL
             /\ items'[k] \in [value : Val, left : 1 .. TTL]
             /\ items'[k].value = items[k].value
             /\ items'[k].left = items[k].left - 1
  <2>1. k \in DOMAIN items /\ items[k].left > 1 /\ items[k].left \in 1 .. TTL
    BY <1>1 DEF VaultInv, VaultTypeOK
  <2>2. items[k] \in [value : Val, left : 1 .. TTL] /\ items'[k] = [items[k] EXCEPT !.left = @ - 1]
    BY <1>1, <2>1 DEF VaultInv, VaultTypeOK
  <2> QED BY <1>2, <2>1, <2>2
<1>5. VaultTypeOK'
  <2>1. items' \in [DOMAIN items' -> [value : Val, left : 1 .. TTL]]
    BY <1>4 DEF Tick
  <2> QED BY <1>1, <1>2, <1>3, <1>4, <2>1 DEF VaultInv, VaultTypeOK
<1>6. HoldsWhatWasSaved'
  BY <1>1, <1>4 DEF VaultInv, HoldsWhatWasSaved, NoAnswer
<1>7. LivesItsTime'
  <2> SUFFICES ASSUME ~restarted, NEW k \in DOMAIN saved
               PROVE  /\ k \in DOMAIN items' <=> idle'[k] < TTL
                      /\ k \in DOMAIN items' => items'[k].left = TTL - idle'[k]
    BY <1>1 DEF LivesItsTime
  <2>1. /\ k \in DOMAIN idle /\ idle[k] \in 0 .. TTL
        /\ k \in DOMAIN items <=> idle[k] < TTL
        /\ k \in DOMAIN items => items[k].left = TTL - idle[k]
    BY <1>3 DEF VaultInv, VaultTypeOK, LivesItsTime
  <2>2. idle'[k] = IF idle[k] < TTL THEN idle[k] + 1 ELSE TTL
    BY <1>1, <2>1
  <2>3. k \in DOMAIN items' <=> k \in DOMAIN items /\ items[k].left > 1
    BY <1>1
  <2> QED BY <1>2, <1>4, <2>1, <2>2, <2>3
<1> QED BY <1>1, <1>5, <1>6, <1>7 DEF VaultInv, AnswersAreOwn

LEMMA RestartPreserves ==
  ASSUME VaultInv, Restart
  PROVE  VaultInv'
<1>1. /\ restarted' = TRUE /\ DOMAIN items' = {}
      /\ UNCHANGED <<backend, answer, saved, idle>>
      /\ over' \in [Req -> BOOLEAN]
      /\ pending' = pending \/ pending' = [q \in Req |-> NoAnswer]
  BY DEF Restart, EmptyMap, VaultInv, VaultTypeOK
<1>2. NoAnswer \in [token : Tok \cup {Missing}, value : Val \cup {Missing}]
  BY DEF NoAnswer
<1>3. /\ pending' \in [Req -> [token : Tok \cup {Missing}, value : Val \cup {Missing}]]
      /\ \A q \in Req : pending'[q] # NoAnswer => pending'[q] = pending[q]
  BY <1>1, <1>2 DEF VaultInv, VaultTypeOK
<1>4. VaultTypeOK'
  BY <1>1, <1>3 DEF VaultInv, VaultTypeOK
<1>5. HoldsWhatWasSaved' /\ LivesItsTime' /\ AnswersAreOwn'
  BY <1>1, <1>3 DEF VaultInv, HoldsWhatWasSaved, LivesItsTime, AnswersAreOwn, NoAnswer
<1> QED BY <1>4, <1>5 DEF VaultInv

LEMMA VaultInvariant == VaultSpec => []VaultInv
<1>1. VaultInit => VaultInv
  BY VaultInitEstablishes
<1>2. VaultInv /\ [VaultNext]_vaultVars => VaultInv'
  <2> SUFFICES ASSUME VaultInv, [VaultNext]_vaultVars
               PROVE  VaultInv'
    OBVIOUS
  <2>1. ASSUME NEW r \in Req, NEW t \in Tok, NEW v \in Val, SaveMapping(r, t, v)
        PROVE  VaultInv'
    BY <2>1, SavePreserves
  <2>2. ASSUME NEW r \in Req, NEW t \in Tok, LookupMisses(r, t)
        PROVE  VaultInv'
    BY <2>2, MissPreserves
  <2>3. ASSUME NEW r \in Req, NEW t \in Tok, MemoryGet(r, t)
        PROVE  VaultInv'
    BY <2>3, MemoryGetPreserves
  <2>4. ASSUME NEW r \in Req, NEW t \in Tok, RedisGetEx(r, t) \/ RedisGetFails(r, t)
        PROVE  VaultInv'
    BY <2>4, RedisPreserves
  <2>5. ASSUME NEW r \in Req, MemorySet(r)
        PROVE  VaultInv'
    BY <2>5, MemorySetPreserves
  <2>6. ASSUME NEW r \in Req, Over(r)
        PROVE  VaultInv'
    BY <2>6, OverPreserves
  <2>7. CASE Tick
    BY <2>7, TickPreserves
  <2>8. CASE Restart
    BY <2>8, RestartPreserves
  <2>9. CASE UNCHANGED vaultVars
    BY <2>9 DEF vaultVars, VaultInv, VaultTypeOK, HoldsWhatWasSaved, LivesItsTime,
                AnswersAreOwn, NoAnswer
  <2> QED BY <2>1, <2>2, <2>3, <2>4, <2>5, <2>6, <2>7, <2>8, <2>9 DEF VaultNext
<1> QED BY <1>1, <1>2, PTL DEF VaultSpec

\* The maps of the vault keep their types, and no mapping is kept without time left.
THEOREM VaultTypeCorrect == VaultSpec => []VaultTypeOK
<1>1. VaultInv => VaultTypeOK
  BY DEF VaultInv
<1> QED BY <1>1, VaultInvariant, PTL

\* A request is only ever answered with what it saved itself, in either backend
\* and between any two steps of another request's lookup.
THEOREM NoAnswerLeaksAcross == VaultSpec => []AnswersAreOwn
<1>1. VaultInv => AnswersAreOwn
  BY DEF VaultInv
<1> QED BY <1>1, VaultInvariant, PTL

\* A mapping used less than the lifetime ago is still there, whatever the lifetime.
THEOREM UsedMappingsStay == VaultSpec => []UsedStaysAlive
<1>1. VaultInv => UsedStaysAlive
  BY DEF VaultInv, LivesItsTime, UsedStaysAlive, key
<1> QED BY <1>1, VaultInvariant, PTL

-----------------------------------------------------------------------------
\* The refinement mapping's "held".
Held == DOMAIN items \cup
        { key(r, pending[r].token) : r \in {q \in Req : pending[q] # NoAnswer} }

LEMMA MapsToInit ==
  ASSUME VaultInit
  PROVE  Store!StoreInit
<1>1. /\ DOMAIN items = {} /\ saved = EmptyMap /\ answer = [r \in Req |-> NoAnswer]
      /\ \A r \in Req : pending[r] = NoAnswer
  BY DEF VaultInit, EmptyMap
<1>2. { key(r, pending[r].token) : r \in {q \in Req : pending[q] # NoAnswer} } = {}
  BY <1>1
<1>3. saved = Store!EmptyMap /\ answer = [r \in Req |-> Store!NoAnswer]
  BY <1>1 DEF EmptyMap, Store!EmptyMap, NoAnswer, Store!NoAnswer
<1> QED BY <1>1, <1>2, <1>3 DEF Store!StoreInit

LEMMA MapsToKeep ==
  ASSUME NEW r \in Req, NEW t \in Tok, NEW v \in Val,
         <<r, t>> \notin DOMAIN saved, saved' = Put(saved, <<r, t>>, v),
         Held' = Held \cup {<<r, t>>}, answer' = answer
  PROVE  Store!StoreNext
<1>1. Store!Keep(<<r, t>>, v)
  BY DEF Store!Keep, Store!Put, Put, Held
<1> QED BY <1>1 DEF Store!StoreNext, Store!key

LEMMA MapsToFound ==
  ASSUME NEW r \in Req, NEW t \in Tok,
         <<r, t>> \in Held, Return(r, t, saved[<<r, t>>]), saved' = saved, Held' = Held
  PROVE  Store!StoreNext
<1>1. Store!Found(r, t)
  BY DEF Store!Found, Store!key, Held, Return
<1> QED BY <1>1 DEF Store!StoreNext

LEMMA MapsToNotFound ==
  ASSUME NEW r \in Req, NEW t \in Tok,
         Return(r, t, Missing), saved' = saved, Held' = Held
  PROVE  Store!StoreNext
<1>1. Store!NotFound(r, t)
  BY DEF Store!NotFound, Held, Return
<1> QED BY <1>1 DEF Store!StoreNext

\* What is no longer held has been forgotten, all of it at once, or nothing was.
LEMMA MapsToForget ==
  ASSUME Held' \subseteq Held, UNCHANGED <<saved, answer>>
  PROVE  Store!StoreNext \/ UNCHANGED Store!storeVars
<1>1. CASE Held' = Held
  BY <1>1 DEF Store!storeVars, Held
<1>2. CASE Held' # Held
  <2>1. PICK K : K = Held \ Held'
    OBVIOUS
  <2>2. K # {} /\ K \in SUBSET Held /\ Held' = Held \ K
    BY <1>2, <2>1
  <2>3. Store!Forget(K)
    BY <2>2 DEF Store!Forget, Held
  <2> QED BY <2>2, <2>3 DEF Store!StoreNext, Held
<1> QED BY <1>1, <1>2

\* What a change of the pending lookups does to the keys that are held.
LEMMA HeldPending ==
  ASSUME VaultInv, NEW r \in Req, NEW p,
         pending' = [pending EXCEPT ![r] = p]
  PROVE  Held' = DOMAIN items' \cup
                 { key(q, pending[q].token) : q \in {x \in Req : x # r /\ pending[x] # NoAnswer} }
                 \cup (IF p # NoAnswer THEN {key(r, p.token)} ELSE {})
<1>1. \A q \in Req : pending'[q] = IF q = r THEN p ELSE pending[q]
  BY DEF VaultInv, VaultTypeOK
<1> QED BY <1>1 DEF Held, key, NoAnswer

LEMMA VaultStepMaps ==
  ASSUME VaultInv, VaultInv', [VaultNext]_vaultVars
  PROVE  Store!StoreNext \/ UNCHANGED Store!storeVars
<1>1. ASSUME NEW r \in Req, NEW t \in Tok, NEW v \in Val, SaveMapping(r, t, v)
      PROVE  Store!StoreNext
  <2>1. /\ <<r, t>> \notin DOMAIN saved /\ saved' = Put(saved, <<r, t>>, v)
        /\ DOMAIN items' = DOMAIN items \cup {<<r, t>>}
        /\ answer' = answer /\ pending' = pending
    BY <1>1 DEF SaveMapping, Put, key
  <2>2. Held' = Held \cup {<<r, t>>}
    BY <2>1 DEF Held, NoAnswer, key
  <2> QED BY <2>1, <2>2, MapsToKeep
<1>2. ASSUME NEW r \in Req, NEW t \in Tok, LookupMisses(r, t)
      PROVE  Store!StoreNext
  <2>1. Return(r, t, Missing) /\ saved' = saved /\ Held' = Held
    BY <1>2 DEF LookupMisses, Held, NoAnswer, key
  <2> QED BY <2>1, MapsToNotFound
<1>3. ASSUME NEW r \in Req, NEW t \in Tok, MemoryGet(r, t)
      PROVE  UNCHANGED Store!storeVars
  <2> DEFINE p == [token |-> t, value |-> items[key(r, t)].value]
  <2>1. /\ pending[r] = NoAnswer /\ key(r, t) \in DOMAIN items
        /\ pending' = [pending EXCEPT ![r] = p] /\ p.token = t
        /\ UNCHANGED <<items, saved, answer>>
    BY <1>3 DEF MemoryGet, Ready
  <2> HIDE DEF p
  <2>2. Held' = Held
    BY <2>1, HeldPending DEF Held
  <2> QED BY <2>1, <2>2 DEF Store!storeVars, Held
<1>4. ASSUME NEW r \in Req, MemorySet(r)
      PROVE  Store!StoreNext
  <2> DEFINE t == pending[r].token
  <2>1. /\ pending[r] # NoAnswer /\ t \in Tok
        /\ <<r, t>> \in DOMAIN saved /\ pending[r].value = saved[<<r, t>>]
    BY <1>4 DEF MemorySet, VaultInv, HoldsWhatWasSaved
  <2>2. /\ DOMAIN items' = DOMAIN items \cup {<<r, t>>}
        /\ Return(r, t, saved[<<r, t>>]) /\ saved' = saved
        /\ pending' = [pending EXCEPT ![r] = NoAnswer]
    BY <1>4, <2>1 DEF MemorySet, Renew, Put, key
  <2>3. <<r, t>> \in Held /\ Held' = Held
    BY <2>1, <2>2, HeldPending DEF Held, key
  <2> QED BY <2>1, <2>2, <2>3, MapsToFound
<1>5. ASSUME NEW r \in Req, NEW t \in Tok, RedisGetEx(r, t) \/ RedisGetFails(r, t)
      PROVE  Store!StoreNext
  <2>1. /\ <<r, t>> \in DOMAIN items /\ items[<<r, t>>].value = saved[<<r, t>>]
        /\ saved' = saved /\ pending' = pending
        /\ DOMAIN items' = DOMAIN items \cup {<<r, t>>} \/ items' = items
        /\ Return(r, t, items[<<r, t>>].value) \/ Return(r, t, Missing)
    BY <1>5 DEF RedisGetEx, RedisGetFails, Renew, Put, key, VaultInv, HoldsWhatWasSaved
  <2>2. <<r, t>> \in Held /\ Held' = Held
    BY <2>1 DEF Held, NoAnswer, key
  <2> QED BY <2>1, <2>2, MapsToFound, MapsToNotFound
<1>6. ASSUME NEW r \in Req, Over(r)
      PROVE  UNCHANGED Store!storeVars
  BY <1>6 DEF Over, Store!storeVars, key, NoAnswer
<1>7. ASSUME Tick
      PROVE  Store!StoreNext \/ UNCHANGED Store!storeVars
  <2>1. DOMAIN items' \subseteq DOMAIN items /\ UNCHANGED <<pending, saved, answer>>
    BY <1>7 DEF Tick
  <2>2. Held' \subseteq Held
    BY <2>1 DEF Held, key, NoAnswer
  <2> QED BY <2>1, <2>2, MapsToForget
<1>8. ASSUME Restart
      PROVE  Store!StoreNext \/ UNCHANGED Store!storeVars
  <2>1. /\ DOMAIN items' = {} /\ UNCHANGED <<saved, answer>>
        /\ \A q \in Req : pending'[q] # NoAnswer => pending'[q] = pending[q]
    BY <1>8 DEF Restart, EmptyMap
  <2>2. Held' \subseteq Held
    BY <2>1 DEF Held, key, NoAnswer
  <2> QED BY <2>1, <2>2, MapsToForget
<1>9. ASSUME UNCHANGED vaultVars
      PROVE  UNCHANGED Store!storeVars
  BY <1>9 DEF vaultVars, Store!storeVars, key, NoAnswer
<1> QED BY <1>1, <1>2, <1>3, <1>4, <1>5, <1>6, <1>7, <1>8, <1>9 DEF VaultNext

\* Either backend keeps the promise of LossyStore: the two-step lookup in memory,
\* renewed and lost lifetimes, expiry and restarts are seen as lookups that find,
\* lookups that do not, and mappings that are forgotten.
THEOREM VaultKeepsStorePromise == VaultSpec => KeepsStorePromise
<1>1. VaultInit => Store!StoreInit
  BY MapsToInit
<1>2. VaultInv /\ VaultInv' /\ [VaultNext]_vaultVars => [Store!StoreNext]_(Store!storeVars)
  BY VaultStepMaps
<1> QED BY <1>1, <1>2, VaultInvariant, PTL DEF VaultSpec, KeepsStorePromise, Store!StoreSpec
=============================================================================
