------------------------------- MODULE Vault --------------------------------
(***************************************************************************)
(* The vault (internal/vault): token -> value mappings, scoped to a        *)
(* request, that disappear when they have not been used for a while.       *)
(*                                                                         *)
(* Both backends are here.  The in-memory one keeps the mappings in the    *)
(* process, in a cache that is locked operation by operation: GetMapping   *)
(* is a Get and then a Set, and time may pass between them.  Redis looks a *)
(* mapping up and renews it in one command, but the reply to a command may *)
(* be lost, and the server may lose its data.                              *)
(*                                                                         *)
(* A request makes one call at a time.  Its context ends when its client   *)
(* is gone and when its handler returns.                                   *)
(***************************************************************************)
EXTENDS Naturals, FiniteSets, GoMaps

CONSTANTS
  Req, Tok, Val,
  Missing,
  TTL,        \* ttl, in ticks of the clock (bound)
  MaxSaved    \* how many mappings are saved in all (bound)

ASSUME VaultAssumption == TTL \in Nat \ {0} /\ MaxSaved \in Nat

VARIABLES
  backend,    \* cfg.Type: "memory" or "redis"
  items,      \* key -> the value and how many ticks it has left
  pending,    \* in-memory GetMapping between Get and Set: what Get returned
  over,       \* ctx.Err() # nil
  answer,     \* what the last lookup of a request returned
  saved,      \* history: <<request, token>> -> what it saved
  idle,       \* history: ticks since that was saved or found, up to TTL
  restarted   \* history: the backend has lost its data

vaultVars == <<backend, items, pending, over, answer, saved, idle, restarted>>

\* Mutant of key: one scope for all requests.
KeyWithoutScope(r, t) == <<CHOOSE q \in Req : TRUE, t>>
key(r, t) == <<r, t>>    \* reqID + ":" + token; an id has no ":" in it

\* A mapping that has just been set or used.
Fresh(v) == [value |-> v, left |-> TTL]

NoAnswer == [token |-> Missing, value |-> Missing]

\* The request may make a call: it is not in one, and its context has not ended.
Ready(r) == ~over[r] /\ pending[r] = NoAnswer

VaultInit ==
  /\ backend \in {"memory", "redis"}
  /\ items = EmptyMap /\ saved = EmptyMap /\ idle = EmptyMap
  /\ pending = [r \in Req |-> NoAnswer]
  /\ answer = [r \in Req |-> NoAnswer]
  /\ over = [r \in Req |-> FALSE]
  /\ restarted = FALSE

-----------------------------------------------------------------------------
\* Mutant of SaveMapping: cache.Replace, which wants the key to be there.
SaveReplaces(r, t, v) ==
  /\ Ready(r) /\ <<r, t>> \notin DOMAIN saved
  /\ Cardinality(DOMAIN saved) < MaxSaved
  /\ saved' = Put(saved, <<r, t>>, v)
  /\ idle' = Put(idle, <<r, t>>, 0)
  /\ UNCHANGED <<backend, items, pending, over, answer, restarted>>

\* SaveMapping, carried out.  (With Redis the caller may see an error all the
\* same; a call that is not carried out changes nothing.)  The tokens of a
\* request are distinct, so it saves each at most once.
SaveMapping(r, t, v) ==
  /\ Ready(r) /\ <<r, t>> \notin DOMAIN saved
  /\ Cardinality(DOMAIN saved) < MaxSaved
  /\ items' = Put(items, key(r, t), Fresh(v))
  /\ saved' = Put(saved, <<r, t>>, v)
  /\ idle' = Put(idle, <<r, t>>, 0)
  /\ UNCHANGED <<backend, pending, over, answer, restarted>>

\* The caller is handed v for token t.
Return(r, t, v) == answer' = [answer EXCEPT ![r] = [token |-> t, value |-> v]]

\* Mutant of Renew: a lookup leaves the lifetime as it is.
RenewNothing(r, t, v) == idle' = Put(idle, <<r, t>>, 0) /\ UNCHANGED items

\* The mapping has been used: its lifetime starts again.
Renew(r, t, v) ==
  /\ items' = Put(items, key(r, t), Fresh(v))
  /\ idle' = Put(idle, <<r, t>>, 0)

\* Either backend: there is no such mapping, or it has expired.
LookupMisses(r, t) ==
  /\ Ready(r) /\ key(r, t) \notin DOMAIN items
  /\ Return(r, t, Missing)
  /\ UNCHANGED <<backend, items, pending, over, saved, idle, restarted>>

\* Mutant of MemoryGet: no look at the context first.
GetWithoutContext(r, t) ==
  /\ backend = "memory" /\ pending[r] = NoAnswer /\ key(r, t) \in DOMAIN items
  /\ pending' = [pending EXCEPT
       ![r] = [token |-> t, value |-> items[key(r, t)].value]]
  /\ UNCHANGED <<backend, items, over, answer, saved, idle, restarted>>

\* In memory: c.Get finds the mapping ...
MemoryGet(r, t) ==
  /\ backend = "memory" /\ Ready(r) /\ key(r, t) \in DOMAIN items
  /\ pending' = [pending EXCEPT
       ![r] = [token |-> t, value |-> items[key(r, t)].value]]
  /\ UNCHANGED <<backend, items, over, answer, saved, idle, restarted>>

\* ... and c.Set puts it back, with its lifetime renewed.
MemorySet(r) ==
  /\ pending[r] # NoAnswer
  /\ Renew(r, pending[r].token, pending[r].value)
  /\ Return(r, pending[r].token, pending[r].value)
  /\ pending' = [pending EXCEPT ![r] = NoAnswer]
  /\ UNCHANGED <<backend, over, saved, restarted>>

\* Redis: GETEX.
RedisGetEx(r, t) ==
  /\ backend = "redis" /\ Ready(r) /\ key(r, t) \in DOMAIN items
  /\ Renew(r, t, items[key(r, t)].value)
  /\ Return(r, t, items[key(r, t)].value)
  /\ UNCHANGED <<backend, pending, over, saved, restarted>>

\* The command, or its reply, is lost: the caller gets an error and the mapping
\* may have been renewed.
RedisGetFails(r, t) ==
  /\ backend = "redis" /\ Ready(r) /\ key(r, t) \in DOMAIN items
  /\ UNCHANGED <<items, idle>> \/ Renew(r, t, items[key(r, t)].value)
  /\ Return(r, t, Missing)
  /\ UNCHANGED <<backend, pending, over, saved, restarted>>

\* The context of the request ends.  A Set under way is not stopped.
Over(r) ==
  /\ ~over[r]
  /\ over' = [over EXCEPT ![r] = TRUE]
  /\ UNCHANGED <<backend, items, pending, answer, saved, idle, restarted>>

\* Time passes; what has no time left is gone.
Tick ==
  /\ items' = [k \in {x \in DOMAIN items : items[x].left > 1} |->
                 [items[k] EXCEPT !.left = @ - 1]]
  /\ idle' = [k \in DOMAIN idle |-> IF idle[k] < TTL THEN idle[k] + 1 ELSE TTL]
  /\ UNCHANGED <<backend, pending, over, answer, saved, restarted>>

\* Redis comes back empty; or the process does, and its requests are gone.
Restart ==
  /\ ~restarted /\ restarted' = TRUE
  /\ items' = EmptyMap
  /\ IF backend = "memory"
       THEN /\ over' = [r \in Req |-> TRUE]
            /\ pending' = [r \in Req |-> NoAnswer]
       ELSE UNCHANGED <<over, pending>>
  /\ UNCHANGED <<backend, answer, saved, idle>>

VaultNext ==
  \/ \E r \in Req, t \in Tok :
        \/ \E v \in Val : SaveMapping(r, t, v)
        \/ LookupMisses(r, t) \/ MemoryGet(r, t)
        \/ RedisGetEx(r, t) \/ RedisGetFails(r, t)
  \/ \E r \in Req : MemorySet(r) \/ Over(r)
  \/ Tick
  \/ Restart

\* Time goes on, and a Set is carried out.  Calls need not be made, and a
\* context need not end.
VaultSpec ==
  /\ VaultInit /\ [][VaultNext]_vaultVars
  /\ WF_vaultVars(Tick)
  /\ \A r \in Req : WF_vaultVars(MemorySet(r))

-----------------------------------------------------------------------------
\* TYPE INVARIANT.  The maps are keyed by a request and a token, and no mapping
\* is kept that has no time left.
VaultTypeOK ==
  /\ backend \in {"memory", "redis"}
  /\ DOMAIN items \subseteq Req \X Tok /\ DOMAIN saved \subseteq Req \X Tok
  /\ items \in [DOMAIN items -> [value : Val, left : 1 .. TTL]]
  /\ saved \in [DOMAIN saved -> Val] /\ idle \in [DOMAIN saved -> 0 .. TTL]
  /\ \A f \in {pending, answer} :
        f \in [Req -> [token : Tok \cup {Missing}, value : Val \cup {Missing}]]
  /\ over \in [Req -> BOOLEAN] /\ restarted \in BOOLEAN

\* SAFETY.  A request is only ever answered with what it saved itself under that
\* token, though all requests use the same token names ("the same token in
\* another request must not leak across").
AnswersAreOwn ==
  \A r \in Req : answer[r].value # Missing =>
     /\ <<r, answer[r].token>> \in DOMAIN saved
     /\ answer[r].value = saved[<<r, answer[r].token>>]

\* SAFETY.  A mapping that was saved or found less than the lifetime ago is
\* still there, unless the backend has lost its data.
UsedStaysAlive ==
  ~restarted =>
    \A r \in Req, t \in Tok :
       <<r, t>> \in DOMAIN saved /\ idle[<<r, t>>] < TTL
       => key(r, t) \in DOMAIN items

\* LIVENESS.  When a request is over its values are forgotten, for good: no
\* lookup that was still under way keeps them alive.
ForgottenInTheEnd ==
  \A r \in Req :
    over[r] ~> [](\A t \in Tok : key(r, t) \notin DOMAIN items)

\* REFINEMENT.  Either backend is a LossyStore.  A mapping that is about to be
\* set again counts as known, even when it expires in between.
Store == INSTANCE LossyStore WITH
  held <- DOMAIN items \cup
          { key(r, pending[r].token) : r \in {q \in Req : pending[q] # NoAnswer} }

KeepsStorePromise == Store!StoreSpec

-----------------------------------------------------------------------------
\* CLAIM (vault.go, on ttl): "GetMapping refreshes it so a long streaming
\* response cannot outlive the values it still needs to restore".  While a
\* request keeps finding values, none of the others it saved expires.
StreamKeepsItsValues ==
  \A r \in Req :
    /\ ~over[r] /\ ~restarted
    /\ answer[r].value # Missing /\ idle[<<r, answer[r].token>>] < TTL
    => \A t \in Tok : <<r, t>> \in DOMAIN saved => key(r, t) \in DOMAIN items
=============================================================================
