-------------------------- MODULE RoundTripProofs ---------------------------
(***************************************************************************)
(* Proofs about a proxied request, for any number of requests at a time,   *)
(* any bodies and replies, and whatever goes wrong.                        *)
(***************************************************************************)
EXTENDS RoundTrip, SequenceTheorems, FiniteSetTheorems, LeastNumber, TLAPS

\* What a text is made of, and what a token can stand for.
Item == Word \cup Token

Maps(D, R) == UNION { [E -> R] : E \in SUBSET D }

Session ==
  [mapping : Maps(Token, Item), tokenOf : Maps(Item, Token), counters : [Kind -> Nat]]

\* A value's token stands for the value, and no token is ahead of its counter, so
\* that the next one is fresh.
SessionOK(s) ==
  /\ s \in Session /\ IsFiniteSet(DOMAIN s.mapping)
  /\ \A v \in DOMAIN s.tokenOf :
       s.tokenOf[v] \in DOMAIN s.mapping /\ s.mapping[s.tokenOf[v]] = v
  /\ \A t \in DOMAIN s.mapping : t.n <= s.counters[t.kind]

\* The tokens of m mean the same in n.
Extends(m, n) == \A t \in DOMAIN m : t \in DOMAIN n /\ n[t] = m[t]

Phase ==
  {"idle", "masking", "saving", "recorded", "upstream", "responding", "closing", "done", "aborted"}

Mode == {"none", "stream", "buffered"}
Source == {"open", "eof", "fail", "large"}
Status == {0, 200, 404, 502}

Request ==
  [ phase : Phase, body : Seq(Leaf), wire : Seq(Leaf), sess : Session,
    unsaved : SUBSET Token, records : Seq(Nat), logs : Seq(Nat),
    mode : Mode, reply : Seq(Item), source : Source, restored : Seq(Item),
    status : Status, left : BOOLEAN, lost : SUBSET Token ]

\* A leaf b of a body became leaf w: every place of w that differs from b, and every
\* one that may not go out, holds a token that stands for what is there in b.
LeafMasked(b, w, mapping) ==
  /\ w.where = b.where /\ Len(w.text) = Len(b.text)
  /\ \A j \in 1 .. Len(b.text) :
       \/ /\ b.where = "number" \/ (b.where = "string" /\ b.text[j] \notin Sure)
          /\ w.text[j] = b.text[j]
       \/ /\ b.where # "number"
          /\ w.text[j] \in DOMAIN mapping /\ mapping[w.text[j]] = b.text[j]

LeafTokens(b, w) ==
  { w.text[j] : j \in { k \in 1 .. Len(w.text) : w.where = "secret" \/ b.text[k] \notin Token } }

PutIn(q) == (UNION { LeafTokens(q.body[i], q.wire[i]) : i \in 1 .. Len(q.wire) }) \cap Token

\* The wire so far, and that no token is in the mapping that is not on the wire.
WireOK(q) ==
  /\ \A i \in 1 .. Len(q.body) :
       /\ q.body[i].where = "secret" => Len(q.body[i].text) = 1
       /\ q.body[i].where = "number" => q.body[i].text \in Seq(Word)
  /\ Len(q.wire) <= Len(q.body)
  /\ \A i \in 1 .. Len(q.wire) : LeafMasked(q.body[i], q.wire[i], q.sess.mapping)
  /\ DOMAIN q.sess.mapping \subseteq PutIn(q)

Meaning(mapping, x) == IF x \in DOMAIN mapping THEN mapping[x] ELSE x

\* The reply so far: restored, but for the tokens the vault failed on.
ReplyOK(q) ==
  /\ Len(q.restored) <= Len(q.reply) /\ Len(q.reply) <= MaxReply
  /\ \A i \in 1 .. Len(q.restored) :
       \/ q.restored[i] = Meaning(q.sess.mapping, q.reply[i])
       \/ q.restored[i] = q.reply[i] /\ q.reply[i] \in q.lost
  /\ q.phase \in {"idle", "masking"} => q.reply = << >>

TextsOK(q) == SessionOK(q.sess) /\ WireOK(q) /\ ReplyOK(q)

\* What is over and done with in each phase.
PhaseOK(q) ==
  /\ q.phase = "idle" => q.wire = << >>
  /\ q.phase \notin {"idle", "masking"} => q.wire = << >> \/ Len(q.wire) = Len(q.body)
  /\ q.phase # "saving" => q.unsaved = {}
  /\ q.unsaved \subseteq DOMAIN q.sess.mapping
  /\ Len(q.records) <= 1
  /\ q.phase \in {"idle", "masking", "saving"} => q.records = << >>
  /\ q.phase \in {"recorded", "upstream", "responding", "aborted"} =>
       q.records = <<Cardinality(DOMAIN q.sess.mapping)>>
  /\ q.logs # << >> => q.phase = "done" /\ q.logs = <<Cardinality(DOMAIN q.sess.mapping)>>

\* The vault holds nothing under the request's id but its mapping, and from the time
\* it is saved on, all of it but what is still to be saved or was lost.
VaultOK(r, q) ==
  /\ \A t \in Token : <<r, t>> \in DOMAIN saved =>
       t \in DOMAIN q.sess.mapping /\ saved[<<r, t>>] = q.sess.mapping[t]
  /\ q.phase # "masking" => \A t \in DOMAIN q.sess.mapping :
       t \in q.unsaved \/ <<r, t>> \in held \/ t \in q.lost

StoreOK ==
  /\ held \subseteq DOMAIN saved /\ DOMAIN saved \subseteq Req \X Token
  /\ answer \in [Req -> [token : Token \cup {Missing}, value : Item \cup {Missing}]]

RoundTripInv ==
  /\ req \in [Req -> Request] /\ StoreOK
  /\ \A r \in Req : TextsOK(req[r]) /\ PhaseOK(req[r]) /\ VaultOK(r, req[r])

-----------------------------------------------------------------------------
\* Maps and sessions.

LEMMA MapFacts ==
  ASSUME NEW D, NEW R, NEW m \in Maps(D, R)
  PROVE  /\ DOMAIN m \subseteq D /\ \A x \in DOMAIN m : m[x] \in R
         /\ m = [x \in DOMAIN m |-> m[x]]
<1>1. PICK E \in SUBSET D : m \in [E -> R]
  BY DEF Maps
<1> QED BY <1>1

LEMMA SessionFacts ==
  ASSUME NEW s, SessionOK(s)
  PROVE  /\ s.mapping \in Maps(Token, Item) /\ s.tokenOf \in Maps(Item, Token)
         /\ s.counters \in [Kind -> Nat]
         /\ DOMAIN s.mapping \subseteq Token
         /\ \A t \in DOMAIN s.mapping : s.mapping[t] \in Item
         /\ DOMAIN s.tokenOf \subseteq Item
         /\ \A v \in DOMAIN s.tokenOf : s.tokenOf[v] \in Token
<1>1. /\ s.mapping \in Maps(Token, Item) /\ s.tokenOf \in Maps(Item, Token)
      /\ s.counters \in [Kind -> Nat]
  BY DEF SessionOK, Session
<1> QED BY <1>1, MapFacts

LEMMA EmptySession == SessionOK(newSession) /\ DOMAIN newSession.mapping = {}
<1> DEFINE s == newSession
<1>1. /\ s.mapping = EmptyMap /\ s.tokenOf = EmptyMap
      /\ s.counters = [k \in Kind |-> 0]
  BY DEF newSession
<1>2. DOMAIN EmptyMap = {}
  BY DEF EmptyMap
<1>3. EmptyMap \in Maps(Token, Item) /\ EmptyMap \in Maps(Item, Token)
  <2>1. EmptyMap \in [{} -> Item] /\ EmptyMap \in [{} -> Token]
    BY DEF EmptyMap
  <2> QED BY <2>1 DEF Maps
<1>4. s \in Session
  BY <1>3 DEF newSession, Session
<1>5. IsFiniteSet(DOMAIN s.mapping)
  BY <1>1, <1>2, FS_EmptySet
<1> HIDE DEF s
<1> QED BY <1>1, <1>2, <1>4, <1>5 DEF SessionOK, s

\* tokenFor: the value has the token it returns, no other token changes, and this one
\* is the only one there may be in addition.
LEMMA TokenGiven ==
  ASSUME NEW s, SessionOK(s), NEW kind \in Kind, NEW value \in Item
  PROVE  LET a == AfterTokenFor(s, kind, value)
             t == tokenFor(s, kind, value)
         IN  /\ SessionOK(a) /\ Extends(s.mapping, a.mapping)
             /\ t \in Token /\ t \in DOMAIN a.mapping /\ a.mapping[t] = value
             /\ DOMAIN a.mapping = DOMAIN s.mapping \cup {t}
<1> DEFINE a == AfterTokenFor(s, kind, value)
           t == tokenFor(s, kind, value)
           n == NextToken(s, kind)
<1>1. CASE value \in DOMAIN s.tokenOf
  <2>1. a = s /\ t = s.tokenOf[value]
    BY <1>1 DEF AfterTokenFor, tokenFor
  <2>2. t \in DOMAIN s.mapping /\ s.mapping[t] = value /\ t \in Token
    BY <1>1, <2>1, SessionFacts DEF SessionOK
  <2> HIDE DEF a, t
  <2>3. Extends(s.mapping, a.mapping)
    BY <2>1 DEF Extends
  <2>4. DOMAIN a.mapping = DOMAIN s.mapping \cup {t}
    BY <2>1, <2>2
  <2> QED BY <2>1, <2>2, <2>3, <2>4 DEF a, t
<1>2. CASE value \notin DOMAIN s.tokenOf
  <2>1. s.counters \in [Kind -> Nat] /\ s.counters[kind] \in Nat
    BY SessionFacts
  <2>2. n \in Token /\ n.kind = kind /\ n.n = s.counters[kind] + 1
    BY <2>1 DEF NextToken, Token
  <2>3. n \notin DOMAIN s.mapping
    <3>1. ~(n.n <= s.counters[n.kind])
      BY <2>1, <2>2
    <3> QED BY <3>1 DEF SessionOK
  <2>4. a = [ mapping  |-> Put(s.mapping, n, value),
              tokenOf  |-> Put(s.tokenOf, value, n),
              counters |-> [s.counters EXCEPT ![kind] = s.counters[kind] + 1] ]
    BY <1>2 DEF AfterTokenFor
  <2>5. a.tokenOf = Put(s.tokenOf, value, n) /\ a.mapping = Put(s.mapping, n, value)
        /\ a.counters = [s.counters EXCEPT ![kind] = s.counters[kind] + 1]
    BY <2>4
  <2>6. t = n
    BY <2>5 DEF tokenFor, Put
  <2> HIDE DEF n, a, t
  <2>7. /\ a.mapping \in Maps(Token, Item) /\ DOMAIN a.mapping = DOMAIN s.mapping \cup {n}
        /\ a.mapping[n] = value
        /\ \A x \in DOMAIN s.mapping : x # n => a.mapping[x] = s.mapping[x]
    <3> DEFINE m == Put(s.mapping, n, value)
    <3>1. DOMAIN s.mapping \subseteq Token /\ \A x \in DOMAIN s.mapping : s.mapping[x] \in Item
      BY SessionFacts
    <3>2. /\ m \in [DOMAIN s.mapping \cup {n} -> Item] /\ DOMAIN m = DOMAIN s.mapping \cup {n}
          /\ m[n] = value /\ \A x \in DOMAIN s.mapping : x # n => m[x] = s.mapping[x]
      BY <2>2, <3>1 DEF Put
    <3>3. m \in Maps(Token, Item)
      BY <2>2, <3>1, <3>2 DEF Maps
    <3> HIDE DEF m
    <3> QED BY <2>5, <3>2, <3>3 DEF m
  <2>8. /\ a.tokenOf \in Maps(Item, Token) /\ DOMAIN a.tokenOf = DOMAIN s.tokenOf \cup {value}
        /\ a.tokenOf[value] = n
        /\ \A x \in DOMAIN s.tokenOf : x # value => a.tokenOf[x] = s.tokenOf[x]
    <3> DEFINE m == Put(s.tokenOf, value, n)
    <3>1. DOMAIN s.tokenOf \subseteq Item /\ \A x \in DOMAIN s.tokenOf : s.tokenOf[x] \in Token
      BY SessionFacts
    <3>2. /\ m \in [DOMAIN s.tokenOf \cup {value} -> Token] /\ DOMAIN m = DOMAIN s.tokenOf \cup {value}
          /\ m[value] = n /\ \A x \in DOMAIN s.tokenOf : x # value => m[x] = s.tokenOf[x]
      BY <2>2, <3>1 DEF Put
    <3>3. m \in Maps(Item, Token)
      BY <2>2, <3>1, <3>2 DEF Maps
    <3> HIDE DEF m
    <3> QED BY <2>5, <3>2, <3>3 DEF m
  <2>9. /\ a.counters \in [Kind -> Nat] /\ a.counters[kind] = s.counters[kind] + 1
        /\ \A k \in Kind : k # kind => a.counters[k] = s.counters[k]
    BY <2>1, <2>5
  <2>10. a \in Session
    BY <2>4, <2>5, <2>7, <2>8, <2>9 DEF Session
  <2>11. IsFiniteSet(DOMAIN a.mapping)
    BY <2>7, FS_AddElement DEF SessionOK
  <2>12. \A v \in DOMAIN a.tokenOf :
           a.tokenOf[v] \in DOMAIN a.mapping /\ a.mapping[a.tokenOf[v]] = v
    <3>1. \A v \in DOMAIN s.tokenOf : v # value
      BY <1>2
    <3>2. \A v \in DOMAIN s.tokenOf : s.tokenOf[v] \in DOMAIN s.mapping /\ s.tokenOf[v] # n
            /\ s.mapping[s.tokenOf[v]] = v
      BY <2>3 DEF SessionOK
    <3> QED BY <2>7, <2>8, <3>1, <3>2
  <2>13. \A x \in DOMAIN a.mapping : x.n <= a.counters[x.kind]
    <3>1. ASSUME NEW x \in DOMAIN s.mapping PROVE x.n <= a.counters[x.kind]
      <4>1. x \in Token /\ x.n <= s.counters[x.kind]
        BY SessionFacts DEF SessionOK
      <4>2. x.kind \in Kind /\ x.n \in Nat
        BY <4>1 DEF Token
      <4> QED BY <2>1, <2>9, <4>1, <4>2
    <3>2. n.n <= a.counters[n.kind]
      BY <2>1, <2>2, <2>9
    <3> QED BY <2>7, <3>1, <3>2
  <2>14. SessionOK(a)
    BY <2>10, <2>11, <2>12, <2>13 DEF SessionOK
  <2>15. Extends(s.mapping, a.mapping)
    BY <2>3, <2>7 DEF Extends
  <2> QED BY <2>2, <2>6, <2>7, <2>14, <2>15 DEF a, t
<1> QED BY <1>1, <1>2

-----------------------------------------------------------------------------
\* The sweep over a text.

\* What has come of the first n words of a text, swept from session s on: those found
\* are replaced by tokens that stand for them, the others are there, and no token
\* is new but those.
Swept(s, acc, text, found, n) ==
  /\ SessionOK(acc.sess) /\ Extends(s.mapping, acc.sess.mapping)
  /\ acc.text \in Seq(Item) /\ Len(acc.text) = n
  /\ \A j \in 1 .. n :
       IF text[j] \in found
         THEN acc.text[j] \in DOMAIN acc.sess.mapping /\ acc.sess.mapping[acc.text[j]] = text[j]
         ELSE acc.text[j] = text[j]
  /\ DOMAIN acc.sess.mapping \subseteq
       DOMAIN s.mapping \cup { acc.text[j] : j \in { k \in 1 .. n : text[k] \in found } }

LEMMA AppendItem ==
  ASSUME NEW S, NEW q \in Seq(S), NEW e \in S
  PROVE  /\ Append(q, e) \in Seq(S) /\ Len(Append(q, e)) = Len(q) + 1 /\ Len(q) \in Nat
         /\ \A i \in 1 .. Len(q) : Append(q, e)[i] = q[i]
         /\ Append(q, e)[Len(q) + 1] = e
  OBVIOUS

LEMMA WordSwept ==
  ASSUME NEW s, NEW text \in Seq(Item), NEW found \in SUBSET (Sure \cup Guess),
         NEW n \in Nat, n + 1 <= Len(text), NEW acc, Swept(s, acc, text, found, n)
  PROVE  Swept(s, AfterWord(acc, text[n + 1], found), text, found, n + 1)
<1> DEFINE w == text[n + 1]
           new == AfterWord(acc, w, found)
<1>1. w \in Item
  OBVIOUS
<1>2. /\ SessionOK(acc.sess) /\ Extends(s.mapping, acc.sess.mapping)
      /\ acc.text \in Seq(Item) /\ Len(acc.text) = n
  BY DEF Swept
<1>3. PICK x : /\ x \in Item /\ new.text = Append(acc.text, x)
               /\ SessionOK(new.sess) /\ Extends(acc.sess.mapping, new.sess.mapping)
               /\ IF w \in found
                    THEN /\ x \in DOMAIN new.sess.mapping /\ new.sess.mapping[x] = w
                         /\ DOMAIN new.sess.mapping = DOMAIN acc.sess.mapping \cup {x}
                    ELSE x = w /\ new.sess = acc.sess
  <2>1. CASE w \in found
    <3> DEFINE t == tokenFor(acc.sess, KindOf[w], w)
    <3>1. KindOf[w] \in Kind
      BY <2>1, RoundTripAssumption
    <3>2. new.sess = AfterTokenFor(acc.sess, KindOf[w], w) /\ new.text = Append(acc.text, t)
      BY <2>1 DEF AfterWord
    <3> HIDE DEF new, w
    <3>3. /\ SessionOK(new.sess) /\ Extends(acc.sess.mapping, new.sess.mapping)
          /\ t \in Token /\ t \in DOMAIN new.sess.mapping /\ new.sess.mapping[t] = w
          /\ DOMAIN new.sess.mapping = DOMAIN acc.sess.mapping \cup {t}
      BY <1>1, <1>2, <3>1, <3>2, TokenGiven
    <3> HIDE DEF t
    <3> QED BY <2>1, <3>2, <3>3 DEF Item
  <2>2. CASE w \notin found
    <3>1. new.sess = acc.sess /\ new.text = Append(acc.text, w)
      BY <2>2 DEF AfterWord
    <3> HIDE DEF new, w
    <3> QED BY <1>1, <1>2, <2>2, <3>1 DEF Extends
  <2> QED BY <2>1, <2>2
<1> HIDE DEF new, w
<1>4. /\ new.text \in Seq(Item) /\ Len(new.text) = n + 1
      /\ \A j \in 1 .. n : new.text[j] = acc.text[j]
      /\ new.text[n + 1] = x
  BY <1>2, <1>3, AppendItem
<1>5. Extends(s.mapping, new.sess.mapping)
  BY <1>2, <1>3 DEF Extends
<1>6. ASSUME NEW j \in 1 .. n + 1
      PROVE  IF text[j] \in found
               THEN /\ new.text[j] \in DOMAIN new.sess.mapping
                    /\ new.sess.mapping[new.text[j]] = text[j]
               ELSE new.text[j] = text[j]
  <2>1. CASE j = n + 1
    BY <1>3, <1>4, <2>1 DEF w
  <2>2. CASE j \in 1 .. n
    BY <1>3, <1>4, <2>2 DEF Swept, Extends
  <2> QED BY <2>1, <2>2
<1>7. ASSUME NEW t \in DOMAIN new.sess.mapping
      PROVE  t \in DOMAIN s.mapping
               \/ \E j \in { k \in 1 .. n + 1 : text[k] \in found } : t = new.text[j]
  <2>1. CASE t \in DOMAIN acc.sess.mapping
    <3>1. CASE t \notin DOMAIN s.mapping
      <4>1. PICK j \in { k \in 1 .. n : text[k] \in found } : t = acc.text[j]
        BY <2>1, <3>1 DEF Swept
      <4>2. j \in { k \in 1 .. n + 1 : text[k] \in found } /\ t = new.text[j]
        BY <1>4, <4>1
      <4> QED BY <4>2
    <3> QED BY <3>1
  <2>2. CASE t \notin DOMAIN acc.sess.mapping
    <3>1. t = x /\ w \in found
      BY <1>3, <2>2
    <3>2. n + 1 \in { k \in 1 .. n + 1 : text[k] \in found } /\ t = new.text[n + 1]
      BY <1>4, <3>1 DEF w
    <3> QED BY <3>2
  <2> QED BY <2>1, <2>2
<1>8. DOMAIN new.sess.mapping \subseteq
        DOMAIN s.mapping \cup { new.text[j] : j \in { k \in 1 .. n + 1 : text[k] \in found } }
  BY <1>7
<1>9. Swept(s, new, text, found, n + 1)
  BY <1>3, <1>4, <1>5, <1>6, <1>8 DEF Swept
<1> QED BY <1>9 DEF new, w

\* A function that is defined along a text exists: a longer one extends a shorter.
LEMMA SweepExists ==
  ASSUME NEW start, NEW text, NEW found, NEW k \in Nat
  PROVE  \E f : f = [n \in 0 .. k |-> IF n = 0 THEN start
                                      ELSE AfterWord(f[n - 1], text[n], found)]
<1> DEFINE Is(f, m) == f = [n \in 0 .. m |-> IF n = 0 THEN start
                                             ELSE AfterWord(f[n - 1], text[n], found)]
           S == { m \in Nat : \E f : Is(f, m) }
<1>1. 0 \in S
  <2> DEFINE f == [n \in 0 .. 0 |-> start]
  <2>1. f = [n \in 0 .. 0 |-> IF n = 0 THEN start
                              ELSE AfterWord(f[n - 1], text[n], found)]
    OBVIOUS
  <2>2. Is(f, 0)
    BY <2>1
  <2> QED BY <2>2
<1>2. ASSUME NEW m \in Nat, m \in S PROVE m + 1 \in S
  <2>1. PICK f : Is(f, m)
    BY <1>2
  <2> DEFINE g == [n \in 0 .. m + 1 |-> IF n = m + 1 THEN AfterWord(f[m], text[m + 1], found)
                                        ELSE f[n]]
  <2>2. ASSUME NEW n \in 0 .. m + 1
        PROVE  g[n] = IF n = 0 THEN start ELSE AfterWord(g[n - 1], text[n], found)
    <3>1. CASE n = m + 1
      <4>1. n # 0 /\ n - 1 = m /\ g[n - 1] = f[m]
        BY <3>1
      <4> QED BY <3>1, <4>1
    <3>2. CASE n # m + 1
      <4>1. n \in 0 .. m /\ g[n] = f[n]
        BY <3>2
      <4>2. CASE n = 0
        BY <2>1, <4>1, <4>2
      <4>3. CASE n # 0
        <5>1. n - 1 \in 0 .. m /\ n - 1 # m + 1 /\ n - 1 \in 0 .. m + 1
          BY <4>1, <4>3
        <5>2. g[n - 1] = f[n - 1]
          BY <5>1
        <5>3. f[n] = AfterWord(f[n - 1], text[n], found)
          BY <2>1, <4>1, <4>3
        <5> QED BY <4>1, <4>3, <5>2, <5>3
      <4> QED BY <4>2, <4>3
    <3> QED BY <3>1, <3>2
  <2>3. Is(g, m + 1)
    <3>1. g = [n \in 0 .. m + 1 |-> g[n]]
      OBVIOUS
    <3> HIDE DEF g
    <3> QED BY <2>2, <3>1
  <2>4. \E h : Is(h, m + 1)
    <3> HIDE DEF g, Is
    <3> QED BY <2>3
  <2> QED BY <2>4
<1> HIDE DEF S
<1>3. k \in S
  BY <1>1, <1>2, NatSets
<1> QED BY <1>3 DEF S

LEMMA MaskedIsSwept ==
  ASSUME NEW s, SessionOK(s), NEW text \in Seq(Item), NEW found \in SUBSET (Sure \cup Guess)
  PROVE  Swept(s, Masked(s, text, found), text, found, Len(text))
<1> DEFINE start == [sess |-> s, text |-> << >>]
           f == CHOOSE g : g = [n \in 0 .. Len(text) |-> IF n = 0 THEN start
                                  ELSE AfterWord(g[n - 1], text[n], found)]
           S == { n \in Nat : n <= Len(text) => Swept(s, f[n], text, found, n) }
<1>1. Masked(s, text, found) = f[Len(text)]
  BY DEF Masked
<1>2. f = [n \in 0 .. Len(text) |-> IF n = 0 THEN start
                                    ELSE AfterWord(f[n - 1], text[n], found)]
  <2>1. Len(text) \in Nat
    OBVIOUS
  <2> QED BY <2>1, SweepExists
<1> HIDE DEF f
<1>3. 0 \in S
  <2>1. f[0] = start
    BY <1>2
  <2>2. f[0].sess = s /\ f[0].text = << >>
    BY <2>1
  <2>3. << >> \in Seq(Item) /\ Len(<< >>) = 0
    OBVIOUS
  <2>4. Swept(s, f[0], text, found, 0)
    BY <2>2, <2>3 DEF Swept, Extends
  <2> QED BY <2>4
<1>4. ASSUME NEW n \in Nat, n \in S PROVE n + 1 \in S
  <2> SUFFICES ASSUME n + 1 <= Len(text) PROVE Swept(s, f[n + 1], text, found, n + 1)
    OBVIOUS
  <2>1. Swept(s, f[n], text, found, n)
    BY <1>4
  <2>2. n + 1 \in 0 .. Len(text) /\ n + 1 # 0 /\ (n + 1) - 1 = n
    OBVIOUS
  <2>3. f[n + 1] = AfterWord(f[n], text[n + 1], found)
    BY <1>2, <2>2
  <2> QED BY <2>1, <2>3, WordSwept
<1> HIDE DEF S
<1>5. Len(text) \in S
  BY <1>3, <1>4, NatSets
<1> QED BY <1>1, <1>5 DEF S

-----------------------------------------------------------------------------
\* The invariant from one request's point of view.

LEMMA EmptyTexts ==
  ASSUME NEW q \in Request, q.sess = newSession, q.wire = << >>, q.reply = << >>,
         q.restored = << >>, q.body \in Bodies \cup {<< >>}
  PROVE  TextsOK(q)
<1>1. SessionOK(q.sess) /\ DOMAIN q.sess.mapping = {}
  BY EmptySession
<1>2. Len(q.wire) = 0 /\ Len(q.reply) = 0 /\ Len(q.restored) = 0 /\ 1 .. 0 = {}
  OBVIOUS
<1>3. q.body \in Seq(Leaf)
  BY DEF Request
<1>4. Len(q.body) \in Nat
  BY <1>3
<1>5. \A i \in 1 .. Len(q.body) :
        /\ q.body[i].where = "secret" => Len(q.body[i].text) = 1
        /\ q.body[i].where = "number" => q.body[i].text \in Seq(Word)
  <2>1. CASE q.body = << >>
    <3>1. 1 .. Len(q.body) = {}
      BY <2>1
    <3> QED BY <3>1
  <2>2. CASE q.body \in Bodies
    BY <2>2, RoundTripAssumption
  <2> QED BY <2>1, <2>2
<1>6. WireOK(q)
  BY <1>1, <1>2, <1>4, <1>5 DEF WireOK
<1>7. ReplyOK(q)
  BY <1>2, RoundTripAssumption DEF ReplyOK
<1> QED BY <1>1, <1>6, <1>7 DEF TextsOK

LEMMA SameTexts ==
  ASSUME NEW p \in Request, NEW q \in Request, TextsOK(p),
         q.body = p.body, q.wire = p.wire, q.sess = p.sess, q.reply = p.reply,
         q.restored = p.restored, p.lost \subseteq q.lost,
         q.phase \in {"idle", "masking"} => p.phase \in {"idle", "masking"}
  PROVE  TextsOK(q)
<1>1. WireOK(q)
  BY DEF TextsOK, WireOK, PutIn
<1>2. ReplyOK(q)
  BY DEF TextsOK, ReplyOK
<1> QED BY <1>1, <1>2 DEF TextsOK

\* A step of one request.
LEMMA OneStep ==
  ASSUME RoundTripInv, NEW r \in Req, NEW q \in Request, req' = [req EXCEPT ![r] = q],
         TextsOK(q), PhaseOK(q), StoreOK', \A o \in Req : VaultOK(o, req[o])'
  PROVE  RoundTripInv'
<1>1. req' \in [Req -> Request] /\ \A o \in Req : req'[o] = IF o = r THEN q ELSE req[o]
  BY DEF RoundTripInv
<1>2. ASSUME NEW o \in Req PROVE TextsOK(req[o])' /\ PhaseOK(req[o])'
  <2>1. CASE o = r
    <3>1. req'[o] = q
      BY <1>1, <2>1
    <3> QED BY <3>1
  <2>2. CASE o # r
    <3>1. req'[o] = req[o]
      BY <1>1, <2>2
    <3>2. TextsOK(req[o]) /\ PhaseOK(req[o])
      BY DEF RoundTripInv
    <3> QED BY <3>1, <3>2
  <2> QED BY <2>1, <2>2
<1> QED BY <1>1, <1>2 DEF RoundTripInv

\* A step of one request that does not write to the vault.
LEMMA OneLookup ==
  ASSUME RoundTripInv, NEW r \in Req, NEW q \in Request, req' = [req EXCEPT ![r] = q],
         TextsOK(q), PhaseOK(q), VaultOK(r, q), StoreOK', UNCHANGED <<saved, held>>
  PROVE  RoundTripInv'
<1>1. \A o \in Req : req'[o] = IF o = r THEN q ELSE req[o]
  BY DEF RoundTripInv
<1>2. ASSUME NEW o \in Req PROVE VaultOK(o, req[o])'
  <2>1. CASE o = r
    <3>1. req'[o] = q
      BY <1>1, <2>1
    <3> QED BY <2>1, <3>1 DEF VaultOK
  <2>2. CASE o # r
    <3>1. req'[o] = req[o]
      BY <1>1, <2>2
    <3>2. VaultOK(o, req[o])
      BY DEF RoundTripInv
    <3> QED BY <3>1, <3>2 DEF VaultOK
  <2> QED BY <2>1, <2>2
<1> QED BY <1>2, OneStep

\* A step of one request that leaves the vault alone.
LEMMA OneRequest ==
  ASSUME RoundTripInv, NEW r \in Req, NEW q \in Request, req' = [req EXCEPT ![r] = q],
         TextsOK(q), PhaseOK(q), VaultOK(r, q), VaultUnchanged
  PROVE  RoundTripInv'
<1>1. UNCHANGED <<saved, held>> /\ StoreOK'
  BY DEF VaultUnchanged, RoundTripInv, StoreOK
<1> QED BY <1>1, OneLookup

\* A step that changes nothing but the phase and the marks of a request.
LEMMA OnePhase ==
  ASSUME RoundTripInv, NEW r \in Req, NEW q \in Request,
         req' = [req EXCEPT ![r] = q], VaultUnchanged,
         q.body = req[r].body, q.wire = req[r].wire, q.sess = req[r].sess,
         q.reply = req[r].reply, q.restored = req[r].restored, q.lost = req[r].lost,
         q.phase \in {"idle", "masking"} => req[r].phase = q.phase,
         q.unsaved = req[r].unsaved,
         req[r].phase = "masking" /\ q.phase # "masking" => DOMAIN q.sess.mapping = {},
         PhaseOK(q)
  PROVE  RoundTripInv'
<1>1. req[r] \in Request /\ TextsOK(req[r]) /\ VaultOK(r, req[r])
  BY DEF RoundTripInv
<1>2. TextsOK(q)
  BY <1>1, SameTexts
<1>3. VaultOK(r, q)
  BY <1>1 DEF VaultOK
<1> QED BY <1>2, <1>3, OneRequest

LEMMA InitKeepsInv ==
  ASSUME RoundTripInit
  PROVE  RoundTripInv
<1> DEFINE q == NewRequest
<1>1. newSession \in Session /\ DOMAIN newSession.mapping = {}
  BY EmptySession DEF SessionOK
<1>2. << >> \in Seq(Leaf) /\ << >> \in Seq(Nat) /\ << >> \in Seq(Item) /\ Len(<< >>) = 0
  OBVIOUS
<1>3. q \in Request
  BY <1>1, <1>2 DEF NewRequest, Request, Phase, Mode, Source, Status
<1>4. /\ q.phase = "idle" /\ q.sess = newSession /\ q.body = << >> /\ q.wire = << >>
      /\ q.reply = << >> /\ q.restored = << >> /\ q.unsaved = {} /\ q.records = << >>
      /\ q.logs = << >>
  BY DEF NewRequest
<1>5. req = [r \in Req |-> q]
  BY DEF RoundTripInit
<1>6. /\ DOMAIN saved = {} /\ held = {}
      /\ answer \in [Req -> [token : Token \cup {Missing}, value : Item \cup {Missing}]]
  BY DEF RoundTripInit, Vault!StoreInit, Vault!NoAnswer, Vault!EmptyMap
<1> HIDE DEF q
<1>7. TextsOK(q)
  BY <1>3, <1>4, EmptyTexts
<1>8. PhaseOK(q)
  BY <1>1, <1>2, <1>4 DEF PhaseOK
<1>9. \A r \in Req : VaultOK(r, q)
  BY <1>1, <1>4, <1>6 DEF VaultOK
<1> QED BY <1>3, <1>5, <1>6, <1>7, <1>8, <1>9 DEF RoundTripInv, StoreOK
-----------------------------------------------------------------------------
\* The steps that only change the phase and the marks of a request.

LEMMA RequestFacts ==
  ASSUME RoundTripInv, NEW r \in Req
  PROVE  /\ req[r] \in Request /\ PhaseOK(req[r]) /\ TextsOK(req[r]) /\ VaultOK(r, req[r])
         /\ req \in [Req -> Request]
         /\ req[r].sess.mapping \in Maps(Token, Item)
         /\ IsFiniteSet(DOMAIN req[r].sess.mapping)
BY SessionFacts DEF RoundTripInv, TextsOK, SessionOK

\* The fields that a step leaves alone.
SameWire(p, q) == q.body = p.body /\ q.wire = p.wire /\ q.sess = p.sess
SameReply(p, q) == q.reply = p.reply /\ q.restored = p.restored /\ q.lost = p.lost
SameBooks(p, q) == q.unsaved = p.unsaved /\ q.records = p.records /\ q.logs = p.logs
SameMatter(p, q) == SameWire(p, q) /\ SameReply(p, q) /\ SameBooks(p, q)

LEMMA PhaseSet ==
  ASSUME NEW p \in Request, NEW ph \in Phase
  PROVE  /\ [p EXCEPT !.phase = ph] \in Request
         /\ SameMatter(p, [p EXCEPT !.phase = ph]) /\ [p EXCEPT !.phase = ph].phase = ph
BY DEF Request, SameMatter, SameWire, SameReply, SameBooks

LEMMA StatusSet ==
  ASSUME NEW p \in Request, NEW ph \in Phase, NEW st \in Status
  PROVE  LET q == [p EXCEPT !.phase = ph, !.status = st]
         IN  q \in Request /\ SameMatter(p, q) /\ q.phase = ph
BY DEF Request, SameMatter, SameWire, SameReply, SameBooks

LEMMA Closing ==
  ASSUME NEW p \in Request, NEW st \in Status
  PROVE  LET q == [p EXCEPT !.phase = "closing", !.status = st]
         IN  q \in Request /\ SameMatter(p, q) /\ q.phase = "closing"
<1>1. PICK ph \in Phase : ph = "closing"
  BY DEF Phase
<1>2. LET q == [p EXCEPT !.phase = ph, !.status = st]
      IN  q \in Request /\ SameMatter(p, q) /\ q.phase = ph
  BY StatusSet
<1> QED BY <1>1, <1>2, Zenon

LEMMA ModeSet ==
  ASSUME NEW p \in Request, NEW ph \in Phase, NEW st \in Status, NEW md \in Mode
  PROVE  LET q == [p EXCEPT !.phase = ph, !.mode = md, !.status = st]
         IN  q \in Request /\ SameMatter(p, q) /\ q.phase = ph
BY DEF Request, SameMatter, SameWire, SameReply, SameBooks

LEMMA SourceSet ==
  ASSUME NEW p \in Request, NEW e \in Source
  PROVE  /\ [p EXCEPT !.source = e] \in Request /\ SameMatter(p, [p EXCEPT !.source = e])
         /\ [p EXCEPT !.source = e].phase = p.phase
BY DEF Request, SameMatter, SameWire, SameReply, SameBooks

LEMMA LeftSet ==
  ASSUME NEW p \in Request
  PROVE  /\ [p EXCEPT !.left = TRUE] \in Request /\ SameMatter(p, [p EXCEPT !.left = TRUE])
         /\ [p EXCEPT !.left = TRUE].phase = p.phase
BY DEF Request, SameMatter, SameWire, SameReply, SameBooks

LEMMA BodySet ==
  ASSUME NEW p \in Request, NEW b \in Seq(Leaf)
  PROVE  LET q == [p EXCEPT !.phase = "masking", !.body = b]
         IN  /\ q \in Request /\ SameReply(p, q) /\ SameBooks(p, q)
             /\ q.wire = p.wire /\ q.sess = p.sess /\ q.body = b /\ q.phase = "masking"
BY DEF Request, SameReply, SameBooks, Phase

LEMMA WireSet ==
  ASSUME NEW p \in Request, NEW w \in Seq(Leaf), NEW s \in Session
  PROVE  LET q == [p EXCEPT !.wire = w, !.sess = s]
         IN  /\ q \in Request /\ SameReply(p, q) /\ SameBooks(p, q)
             /\ q.wire = w /\ q.sess = s /\ q.body = p.body
             /\ q.phase = p.phase
BY DEF Request, SameReply, SameBooks

LEMMA UnsavedSet ==
  ASSUME NEW p \in Request, NEW u \in SUBSET Token
  PROVE  LET q == [p EXCEPT !.phase = "saving", !.unsaved = u]
         IN  /\ q \in Request /\ SameReply(p, q) /\ SameWire(p, q)
             /\ q.unsaved = u /\ q.records = p.records /\ q.logs = p.logs /\ q.phase = "saving"
BY DEF Request, SameReply, SameWire, Phase

LEMMA RecordsSet ==
  ASSUME NEW p \in Request, NEW x \in Seq(Nat)
  PROVE  LET q == [p EXCEPT !.phase = "recorded", !.records = x]
         IN  /\ q \in Request /\ SameReply(p, q) /\ SameWire(p, q)
             /\ q.unsaved = p.unsaved /\ q.records = x /\ q.logs = p.logs /\ q.phase = "recorded"
BY DEF Request, SameReply, SameWire, Phase

LEMMA LogsSet ==
  ASSUME NEW p \in Request, NEW x \in Seq(Nat)
  PROVE  LET q == [p EXCEPT !.phase = "done", !.logs = x]
         IN  /\ q \in Request /\ SameReply(p, q) /\ SameWire(p, q)
             /\ q.unsaved = p.unsaved /\ q.records = p.records /\ q.logs = x /\ q.phase = "done"
BY DEF Request, SameReply, SameWire, Phase

LEMMA SavedSet ==
  ASSUME NEW p \in Request, NEW u \in SUBSET Token
  PROVE  LET q == [p EXCEPT !.unsaved = u]
         IN  /\ q \in Request /\ SameReply(p, q) /\ SameWire(p, q)
             /\ q.unsaved = u /\ q.records = p.records /\ q.logs = p.logs /\ q.phase = p.phase
BY DEF Request, SameReply, SameWire

LEMMA GivenUpSet ==
  ASSUME NEW p \in Request, NEW t \in Token
  PROVE  LET q == [p EXCEPT !.unsaved = p.unsaved \ {t}, !.lost = p.lost \cup {t}]
         IN  /\ q \in Request /\ SameWire(p, q) /\ q.reply = p.reply /\ q.restored = p.restored
             /\ q.unsaved = p.unsaved \ {t} /\ q.records = p.records /\ q.logs = p.logs
             /\ q.phase = p.phase /\ q.lost = p.lost \cup {t}
BY DEF Request, SameWire

LEMMA LostSet ==
  ASSUME NEW p \in Request, NEW l \in SUBSET Token
  PROVE  LET q == [p EXCEPT !.lost = l]
         IN  /\ q \in Request /\ SameWire(p, q) /\ SameBooks(p, q)
             /\ q.reply = p.reply /\ q.restored = p.restored /\ q.phase = p.phase /\ q.lost = l
BY DEF Request, SameWire, SameBooks

LEMMA ReplySet ==
  ASSUME NEW p \in Request, NEW x \in Seq(Item)
  PROVE  LET q == [p EXCEPT !.reply = x]
         IN  /\ q \in Request /\ SameWire(p, q) /\ SameBooks(p, q) /\ q.phase = p.phase
             /\ q.reply = x /\ q.restored = p.restored /\ q.lost = p.lost
BY DEF Request, SameWire, SameBooks

\* What a request may have lost.
Losses == SUBSET Token

LEMMA RestoredSet ==
  ASSUME NEW p \in Request, NEW x \in Seq(Item), NEW l \in Losses
  PROVE  LET q == [p EXCEPT !.restored = x, !.lost = l]
         IN  /\ q \in Request /\ SameWire(p, q) /\ SameBooks(p, q) /\ q.phase = p.phase
             /\ q.reply = p.reply /\ q.restored = x /\ q.lost = l
BY DEF Request, SameWire, SameBooks, Losses

LEMMA PhaseStep ==
  ASSUME RoundTripInv, NEW r \in Req, NEW q \in Request,
         req' = [req EXCEPT ![r] = q], VaultUnchanged, SameMatter(req[r], q),
         \/ q.phase = req[r].phase
         \/ /\ req[r].phase \in {"recorded", "upstream", "responding"}
            /\ q.phase \in {"upstream", "responding", "closing"}
         \/ req[r].phase = "idle" /\ q.phase = "closing"
         \/ req[r].phase = "responding" /\ q.phase = "aborted"
  PROVE  RoundTripInv'
<1> USE DEF SameMatter, SameWire, SameReply, SameBooks
<1>1. PhaseOK(req[r])
  BY RequestFacts
<1>2. CASE q.phase = req[r].phase
  <2>1. PhaseOK(q)
    BY <1>1, <1>2 DEF PhaseOK
  <2> QED BY <1>2, <2>1, OnePhase
<1>3. CASE q.phase # req[r].phase
  <2>1. /\ req[r].phase \in {"idle", "recorded", "upstream", "responding"}
        /\ q.phase \in {"upstream", "responding", "closing", "aborted"}
        /\ req[r].phase = "idle" => q.phase = "closing"
        /\ q.phase \in {"upstream", "responding", "aborted"} =>
             req[r].phase \in {"recorded", "upstream", "responding"}
    BY <1>3
  <2>2. PhaseOK(q)
    BY <1>1, <2>1 DEF PhaseOK
  <2> QED BY <2>1, <2>2, OnePhase
<1> QED BY <1>2, <1>3

LEMMA MarksKeepInv ==
  ASSUME RoundTripInv, NEW r \in Req,
         \/ NotRouted(r) \/ Send(r) \/ SendFails(r) \/ UpstreamFails(r)
         \/ \E mode \in {"stream", "buffered"} : Respond(r, mode)
         \/ UpstreamEnds(r) \/ RestoreFails(r) \/ Finish(r) \/ Abort(r) \/ Leave(r)
  PROVE  RoundTripInv'
<1> DEFINE p == req[r]
<1>1. p \in Request
  BY RequestFacts
<1> HIDE DEF p
<1>2. CASE NotRouted(r)
  <2> DEFINE q == [p EXCEPT !.phase = "closing", !.status = 404]
  <2>1. req' = [req EXCEPT ![r] = q]
    BY <1>2, Zenon DEF NotRouted, p
  <2>2. VaultUnchanged /\ p.phase = "idle"
    BY <1>2 DEF NotRouted, p
  <2>3. q \in Request /\ SameMatter(p, q) /\ q.phase = "closing"
    <3>1. \A st \in Status : LET o == [p EXCEPT !.phase = "closing", !.status = st]
            IN  o \in Request /\ SameMatter(p, o) /\ o.phase = "closing"
      BY <1>1, Closing
    <3>2. 200 \in Status /\ 404 \in Status /\ 502 \in Status
      BY DEF Status
    <3> QED BY <3>1, <3>2, Zenon
  <2> HIDE DEF q
  <2> QED BY <2>1, <2>2, <2>3, PhaseStep DEF p
<1>3. CASE Send(r)
  <2> DEFINE q == [p EXCEPT !.phase = "upstream"]
  <2>1. req' = [req EXCEPT ![r] = q]
    BY <1>3, Zenon DEF Send, p
  <2>2. VaultUnchanged /\ p.phase = "recorded"
    BY <1>3 DEF Send, p
  <2>3. q \in Request /\ SameMatter(p, q) /\ q.phase = "upstream"
    <3>1. "upstream" \in Phase
      BY DEF Phase
    <3> QED BY <1>1, <3>1, PhaseSet
  <2> HIDE DEF q
  <2> QED BY <2>1, <2>2, <2>3, PhaseStep DEF p
<1>4. CASE SendFails(r) \/ UpstreamFails(r) \/ RestoreFails(r)
  <2> DEFINE q == [p EXCEPT !.phase = "closing", !.status = 502]
  <2>1. BadGateway(r) /\ p.phase \in {"recorded", "upstream", "responding"}
    BY <1>4 DEF SendFails, UpstreamFails, RestoreFails, p
  <2>2. req' = [req EXCEPT ![r] = q]
    <3>1. req' = [req EXCEPT ![r].phase = "closing", ![r].status = 502]
      BY <2>1 DEF BadGateway
    <3> QED BY <3>1, ZenonT(30) DEF p
  <2>3. VaultUnchanged
    BY <2>1 DEF BadGateway
  <2>4. q \in Request /\ SameMatter(p, q) /\ q.phase = "closing"
    <3>1. \A st \in Status : LET o == [p EXCEPT !.phase = "closing", !.status = st]
            IN  o \in Request /\ SameMatter(p, o) /\ o.phase = "closing"
      BY <1>1, Closing
    <3>2. 200 \in Status /\ 404 \in Status /\ 502 \in Status
      BY DEF Status
    <3> QED BY <3>1, <3>2, Zenon
  <2> HIDE DEF q
  <2> QED BY <2>1, <2>2, <2>3, <2>4, PhaseStep DEF p
<1>5. CASE \E mode \in {"stream", "buffered"} : Respond(r, mode)
  <2>1. PICK mode \in {"stream", "buffered"} : Respond(r, mode)
    BY <1>5
  <2> DEFINE st == IF mode = "stream" THEN 200 ELSE 0
             q == [p EXCEPT !.phase = "responding", !.mode = mode, !.status = st]
  <2>2. req' = [req EXCEPT ![r] = q]
    BY <2>1, Zenon DEF Respond, p
  <2>3. VaultUnchanged /\ p.phase = "upstream"
    BY <2>1 DEF Respond, p
  <2>4. q \in Request /\ SameMatter(p, q) /\ q.phase = "responding"
    <3>1. "responding" \in Phase /\ st \in Status /\ mode \in Mode
      BY DEF Phase, Status, Mode
    <3> HIDE DEF st
    <3> QED BY <1>1, <3>1, ModeSet
  <2> HIDE DEF q
  <2> QED BY <2>2, <2>3, <2>4, PhaseStep DEF p
<1>6. CASE UpstreamEnds(r)
  <2>1. PICK e \in {"eof", "fail", "large"} : req' = [req EXCEPT ![r].source = e]
    BY <1>6, Zenon DEF UpstreamEnds
  <2> DEFINE q == [p EXCEPT !.source = e]
  <2>2. req' = [req EXCEPT ![r] = q]
    BY <2>1, Zenon DEF p
  <2>3. VaultUnchanged
    BY <1>6, Zenon DEF UpstreamEnds
  <2>4. q \in Request /\ SameMatter(p, q) /\ q.phase = p.phase
    <3>1. e \in Source
      BY DEF Source
    <3> QED BY <1>1, <3>1, SourceSet
  <2> HIDE DEF q
  <2> QED BY <2>2, <2>3, <2>4, PhaseStep DEF p
<1>7. CASE Finish(r)
  <2> DEFINE q == [p EXCEPT !.phase = "closing", !.status = 200]
  <2>1. req' = [req EXCEPT ![r] = q]
    BY <1>7, Zenon DEF Finish, p
  <2>2. VaultUnchanged /\ p.phase = "responding"
    BY <1>7 DEF Finish, p, AllRestored
  <2>3. q \in Request /\ SameMatter(p, q) /\ q.phase = "closing"
    <3>1. \A st \in Status : LET o == [p EXCEPT !.phase = "closing", !.status = st]
            IN  o \in Request /\ SameMatter(p, o) /\ o.phase = "closing"
      BY <1>1, Closing
    <3>2. 200 \in Status /\ 404 \in Status /\ 502 \in Status
      BY DEF Status
    <3> QED BY <3>1, <3>2, Zenon
  <2> HIDE DEF q
  <2> QED BY <2>1, <2>2, <2>3, PhaseStep DEF p
<1>8. CASE Abort(r)
  <2> DEFINE q == [p EXCEPT !.phase = "aborted"]
  <2>1. req' = [req EXCEPT ![r] = q]
    BY <1>8, Zenon DEF Abort, p
  <2>2. VaultUnchanged /\ p.phase = "responding"
    BY <1>8 DEF Abort, p, AllRestored
  <2>3. q \in Request /\ SameMatter(p, q) /\ q.phase = "aborted"
    <3>1. "aborted" \in Phase
      BY DEF Phase
    <3> QED BY <1>1, <3>1, PhaseSet
  <2> HIDE DEF q
  <2> QED BY <2>1, <2>2, <2>3, PhaseStep DEF p
<1>9. CASE Leave(r)
  <2> DEFINE q == [p EXCEPT !.left = TRUE]
  <2>1. req' = [req EXCEPT ![r] = q]
    BY <1>9, Zenon DEF Leave, p
  <2>2. VaultUnchanged
    BY <1>9 DEF Leave
  <2>3. q \in Request /\ SameMatter(p, q) /\ q.phase = p.phase
    BY <1>1, LeftSet
  <2> HIDE DEF q
  <2> QED BY <2>1, <2>2, <2>3, PhaseStep DEF p
<1> QED BY <1>2, <1>3, <1>4, <1>5, <1>6, <1>7, <1>8, <1>9
-----------------------------------------------------------------------------
\* The way out, up to the recording.

\* The wire is empty until the body is there, and so is the mapping.
LEMMA EmptyWire ==
  ASSUME NEW q \in Request, WireOK(q), q.wire = << >>
  PROVE  DOMAIN q.sess.mapping = {}
<1>1. 1 .. Len(q.wire) = {}
  OBVIOUS
<1>2. PutIn(q) = {}
  BY <1>1 DEF PutIn
<1> QED BY <1>2 DEF WireOK

LEMMA ArriveKeepsInv ==
  ASSUME RoundTripInv, NEW r \in Req, NEW body \in Bodies, Arrive(r, body)
  PROVE  RoundTripInv'
<1> DEFINE p == req[r]
           q == [p EXCEPT !.phase = "masking", !.body = body]
<1>1. p \in Request /\ PhaseOK(p) /\ TextsOK(p) /\ VaultOK(r, p)
  BY RequestFacts
<1>2. req' = [req EXCEPT ![r] = q]
  BY Zenon DEF Arrive
<1>3. VaultUnchanged /\ p.phase = "idle"
  BY DEF Arrive
<1> HIDE DEF p
<1>4. /\ q \in Request /\ SameReply(p, q) /\ SameBooks(p, q)
      /\ q.wire = p.wire /\ q.sess = p.sess /\ q.body = body /\ q.phase = "masking"
  <2>1. "masking" \in Phase /\ body \in Seq(Leaf)
    BY RoundTripAssumption DEF Phase
  <2>2. \A x \in Seq(Leaf) : LET o == [p EXCEPT !.phase = "masking", !.body = x]
          IN  /\ o \in Request /\ SameReply(p, o)
              /\ SameBooks(p, o) /\ o.wire = p.wire /\ o.sess = p.sess /\ o.body = x /\ o.phase = "masking"
    BY <1>1, BodySet
  <2> QED BY <1>1, <2>1, <2>2, Zenon
<1> HIDE DEF q
<1>5. p.wire = << >> /\ DOMAIN p.sess.mapping = {}
  BY <1>1, <1>3, EmptyWire DEF PhaseOK, TextsOK
<1>6. WireOK(q)
  <2>1. /\ \A i \in 1 .. Len(body) :
             /\ body[i].where = "secret" => Len(body[i].text) = 1
             /\ body[i].where = "number" => body[i].text \in Seq(Word)
        /\ body \in Seq(Leaf)
    BY RoundTripAssumption
  <2>2. Len(body) \in Nat /\ Len(<< >>) = 0 /\ 1 .. 0 = {}
    BY <2>1
  <2> QED BY <1>4, <1>5, <2>1, <2>2 DEF WireOK
<1>7. TextsOK(q)
  BY <1>1, <1>3, <1>4, <1>6 DEF TextsOK, ReplyOK, SameReply
<1>8. PhaseOK(q)
  BY <1>1, <1>3, <1>4, <1>5 DEF PhaseOK, SameBooks
<1>9. VaultOK(r, q)
  BY <1>1, <1>4, <1>5 DEF VaultOK
<1> QED BY <1>2, <1>3, <1>4, <1>7, <1>8, <1>9, OneRequest

LEMMA DropBodyKeepsInv ==
  ASSUME RoundTripInv, NEW r \in Req, DropBody(r)
  PROVE  RoundTripInv'
<1> DEFINE p == req[r]
           q == [p EXCEPT !.phase = "saving"]
<1>1. p \in Request /\ PhaseOK(p) /\ TextsOK(p)
  BY RequestFacts
<1>2. req' = [req EXCEPT ![r] = q]
  BY Zenon DEF DropBody
<1>3. VaultUnchanged /\ p.phase = "masking" /\ p.wire = << >>
  BY DEF DropBody
<1> HIDE DEF p
<1>4. q \in Request /\ SameMatter(p, q) /\ q.phase = "saving"
  <2>1. "saving" \in Phase
    BY DEF Phase
  <2> QED BY <1>1, <2>1, PhaseSet
<1> HIDE DEF q
<1>5. DOMAIN p.sess.mapping = {}
  BY <1>1, <1>3, EmptyWire DEF TextsOK
<1> USE DEF SameMatter, SameWire, SameReply, SameBooks
<1>6. PhaseOK(q)
  BY <1>1, <1>3, <1>4 DEF PhaseOK
<1> QED BY <1>2, <1>3, <1>4, <1>5, <1>6, OnePhase DEF p

LEMMA AllMaskedKeepsInv ==
  ASSUME RoundTripInv, NEW r \in Req, AllMasked(r)
  PROVE  RoundTripInv'
<1> DEFINE p == req[r]
           q == [p EXCEPT !.phase = "saving", !.unsaved = DOMAIN p.sess.mapping]
<1>1. p \in Request /\ PhaseOK(p) /\ TextsOK(p) /\ VaultOK(r, p) /\ DOMAIN p.sess.mapping \subseteq Token
  BY RequestFacts, SessionFacts DEF TextsOK
<1>2. req' = [req EXCEPT ![r] = q]
  BY Zenon DEF AllMasked
<1>3. VaultUnchanged /\ p.phase = "masking" /\ Len(p.wire) = Len(p.body)
  BY DEF AllMasked
<1> HIDE DEF p
<1>4. /\ q \in Request /\ SameReply(p, q) /\ SameWire(p, q) /\ q.unsaved = DOMAIN p.sess.mapping
      /\ q.records = p.records /\ q.logs = p.logs /\ q.phase = "saving"
  <2>1. "saving" \in Phase
    BY DEF Phase
  <2>2. \A x \in SUBSET Token : LET o == [p EXCEPT !.phase = "saving", !.unsaved = x]
          IN  /\ o \in Request /\ SameReply(p, o)
              /\ SameWire(p, o) /\ o.unsaved = x
              /\ o.records = p.records /\ o.logs = p.logs /\ o.phase = "saving"
    BY <1>1, UnsavedSet
  <2> QED BY <1>1, <2>1, <2>2, Zenon
<1> HIDE DEF q
<1> USE DEF SameWire, SameReply
<1>5. TextsOK(q)
  BY <1>1, <1>3, <1>4, SameTexts
<1>6. PhaseOK(q)
  BY <1>1, <1>3, <1>4 DEF PhaseOK
<1>7. VaultOK(r, q)
  BY <1>1, <1>4 DEF VaultOK
<1> QED BY <1>2, <1>3, <1>4, <1>5, <1>6, <1>7, OneRequest

LEMMA RecordKeepsInv ==
  ASSUME RoundTripInv, NEW r \in Req, Record(r)
  PROVE  RoundTripInv'
<1> DEFINE p == req[r]
           n == Cardinality(DOMAIN p.sess.mapping)
           q == [p EXCEPT !.phase = "recorded", !.records = <<n>>]
<1>1. /\ p \in Request /\ PhaseOK(p) /\ TextsOK(p) /\ VaultOK(r, p)
      /\ n \in Nat
  BY RequestFacts, FS_CardinalityType
<1>2. VaultUnchanged /\ p.phase = "saving" /\ p.unsaved = {} /\ p.records = << >>
  BY <1>1 DEF Record, PhaseOK
<1>3. req' = [req EXCEPT ![r] = q]
  <2>1. req' = [req EXCEPT ![r] = [p EXCEPT !.phase = "recorded", !.records = Append(p.records, n)]]
    BY Zenon DEF Record
  <2>2. Append(p.records, n) = <<n>>
    BY <1>2
  <2> QED BY <2>1, <2>2, Zenon
<1> HIDE DEF p, n
<1>4. /\ q \in Request /\ SameReply(p, q) /\ SameWire(p, q) /\ q.unsaved = p.unsaved
      /\ q.records = <<n>> /\ q.logs = p.logs /\ q.phase = "recorded"
  <2>1. "recorded" \in Phase /\ <<n>> \in Seq(Nat)
    BY <1>1 DEF Phase
  <2>2. \A x \in Seq(Nat) : LET o == [p EXCEPT !.phase = "recorded", !.records = x]
          IN  /\ o \in Request /\ SameReply(p, o)
              /\ SameWire(p, o) /\ o.unsaved = p.unsaved /\ o.records = x /\ o.logs = p.logs /\ o.phase = "recorded"
    BY <1>1, RecordsSet
  <2> QED BY <1>1, <2>1, <2>2, Zenon
<1>5. Len(<<n>>) = 1
  OBVIOUS
<1> HIDE DEF q
<1> USE DEF SameWire, SameReply
<1>6. PhaseOK(q)
  BY <1>1, <1>2, <1>4, <1>5 DEF PhaseOK, n
<1> QED BY <1>2, <1>3, <1>4, <1>6, OnePhase DEF p

LEMMA LogKeepsInv ==
  ASSUME RoundTripInv, NEW r \in Req, Log(r)
  PROVE  RoundTripInv'
<1> DEFINE p == req[r]
           n == Cardinality(DOMAIN p.sess.mapping)
           q == [p EXCEPT !.phase = "done", !.logs = <<n>>]
<1>1. /\ p \in Request /\ PhaseOK(p) /\ TextsOK(p) /\ VaultOK(r, p)
      /\ n \in Nat
  BY RequestFacts, FS_CardinalityType
<1>2. VaultUnchanged /\ p.phase = "closing" /\ p.unsaved = {} /\ p.logs = << >>
  BY <1>1 DEF Log, PhaseOK
<1>3. req' = [req EXCEPT ![r] = q]
  <2>1. req' = [req EXCEPT ![r] = [p EXCEPT !.phase = "done", !.logs = Append(p.logs, n)]]
    BY Zenon DEF Log
  <2>2. Append(p.logs, n) = <<n>>
    BY <1>2
  <2> QED BY <2>1, <2>2, Zenon
<1> HIDE DEF p, n
<1>4. /\ q \in Request /\ SameReply(p, q) /\ SameWire(p, q) /\ q.unsaved = p.unsaved
      /\ q.records = p.records /\ q.logs = <<n>> /\ q.phase = "done"
  <2>1. "done" \in Phase /\ <<n>> \in Seq(Nat)
    BY <1>1 DEF Phase
  <2>2. \A x \in Seq(Nat) : LET o == [p EXCEPT !.phase = "done", !.logs = x]
          IN  /\ o \in Request /\ SameReply(p, o)
              /\ SameWire(p, o) /\ o.unsaved = p.unsaved /\ o.records = p.records /\ o.logs = x /\ o.phase = "done"
    BY <1>1, LogsSet
  <2> QED BY <1>1, <2>1, <2>2, Zenon
<1> HIDE DEF q
<1> USE DEF SameWire, SameReply
<1>5. PhaseOK(q)
  BY <1>1, <1>2, <1>4 DEF PhaseOK, n
<1> QED BY <1>2, <1>3, <1>4, <1>5, OnePhase DEF p
-----------------------------------------------------------------------------
\* The vault.

LEMMA SaveKeepsInv ==
  ASSUME RoundTripInv, NEW r \in Req, NEW t \in DOMAIN req[r].sess.mapping, Save(r, t)
  PROVE  RoundTripInv'
<1> DEFINE p == req[r]
           u == p.unsaved \ {t}
<1>1. /\ p \in Request /\ PhaseOK(p) /\ TextsOK(p) /\ VaultOK(r, p)
      /\ p.unsaved \in SUBSET Token /\ p.lost \in SUBSET Token
  BY RequestFacts DEF Request
<1>2. p.phase = "saving" /\ t \in p.unsaved /\ t \in Token /\ u \in SUBSET Token
  BY <1>1 DEF Save
<1>3. CASE /\ Vault!Keep(Vault!key(r, t), req[r].sess.mapping[t])
           /\ req' = [req EXCEPT ![r].unsaved = @ \ {t}]
  <2> DEFINE q == [p EXCEPT !.unsaved = u]
  <2>1. req' = [req EXCEPT ![r] = q]
    BY <1>3, Zenon
  <2>2. /\ <<r, t>> \notin DOMAIN saved /\ UNCHANGED answer
        /\ saved' = [x \in DOMAIN saved \cup {<<r, t>>} |->
                       IF x = <<r, t>> THEN p.sess.mapping[t] ELSE saved[x]]
        /\ held' = held \cup {<<r, t>>}
    BY <1>3 DEF Vault!Keep, Vault!key, Vault!Put
  <2> HIDE DEF p, u
  <2>3. /\ q \in Request /\ SameReply(p, q) /\ SameWire(p, q) /\ q.unsaved = u
        /\ q.records = p.records /\ q.logs = p.logs /\ q.phase = p.phase
    BY <1>1, <1>2, SavedSet
  <2> HIDE DEF q
  <2>4. TextsOK(q)
    BY <1>1, <2>3, SameTexts DEF SameReply, SameWire
  <2>5. PhaseOK(q)
    BY <1>1, <1>2, <2>3 DEF PhaseOK, SameWire, u
  <2>6. StoreOK'
    BY <1>2, <2>2 DEF RoundTripInv, StoreOK
  <2>7. \A o \in Req : req'[o] = IF o = r THEN q ELSE req[o]
    BY <2>1 DEF RoundTripInv
  <2>8. ASSUME NEW o \in Req PROVE VaultOK(o, req[o])'
    <3>1. ASSUME NEW x \in Token, <<o, x>> \in DOMAIN saved'
          PROVE  x \in DOMAIN req'[o].sess.mapping /\ saved'[<<o, x>>] = req'[o].sess.mapping[x]
      <4>1. req'[o].sess = req[o].sess
        BY <2>3, <2>7 DEF SameWire, p
      <4>2. CASE <<o, x>> = <<r, t>>
        <5>1. o = r /\ x = t
          BY <4>2
        <5>2. saved'[<<r, t>>] = p.sess.mapping[t] /\ t \in DOMAIN p.sess.mapping
          BY <2>2 DEF p
        <5> QED BY <4>1, <5>1, <5>2 DEF p
      <4>3. CASE <<o, x>> # <<r, t>>
        <5>1. <<o, x>> \in DOMAIN saved /\ saved'[<<o, x>>] = saved[<<o, x>>]
          BY <2>2, <3>1, <4>3
        <5> QED BY <4>1, <5>1 DEF RoundTripInv, VaultOK
      <4> QED BY <4>2, <4>3
    <3>2. ASSUME req'[o].phase # "masking", NEW x \in DOMAIN req'[o].sess.mapping
          PROVE  x \in req'[o].unsaved \/ <<o, x>> \in held' \/ x \in req'[o].lost
      <4>1. CASE o = r
        <5>1. req'[o] = q /\ x \in DOMAIN p.sess.mapping /\ q.phase = p.phase
          BY <2>3, <2>7, <3>2, <4>1 DEF SameWire
        <5>2. x \in p.unsaved \/ <<r, x>> \in held \/ x \in p.lost
          BY <1>1, <3>2, <5>1 DEF VaultOK
        <5> QED BY <2>2, <2>3, <4>1, <5>1, <5>2 DEF SameReply, u
      <4>2. CASE o # r
        BY <2>2, <2>7, <3>2, <4>2 DEF RoundTripInv, VaultOK
      <4> QED BY <4>1, <4>2
    <3> QED BY <3>1, <3>2 DEF VaultOK
  <2> QED BY <2>1, <2>3, <2>4, <2>5, <2>6, <2>8, OneStep
<1>4. CASE /\ req' = [req EXCEPT ![r].unsaved = @ \ {t}, ![r].lost = @ \cup {t}]
           /\ VaultUnchanged
  <2> DEFINE l == p.lost \cup {t}
             q == [p EXCEPT !.unsaved = u, !.lost = l]
  <2>1. req' = [req EXCEPT ![r] = q]
    BY <1>4, Zenon
  <2>2. l \in SUBSET Token
    BY <1>1, <1>2
  <2> HIDE DEF p, u, l
  <2>3. /\ q \in Request /\ SameWire(p, q) /\ q.reply = p.reply /\ q.restored = p.restored
        /\ q.unsaved = u /\ q.records = p.records /\ q.logs = p.logs /\ q.phase = p.phase
        /\ q.lost = l
    BY <1>1, <1>2, GivenUpSet DEF u, l
  <2> HIDE DEF q
  <2>4. TextsOK(q)
    BY <1>1, <2>3, SameTexts DEF SameWire, l
  <2>5. PhaseOK(q)
    BY <1>1, <1>2, <2>3 DEF PhaseOK, SameWire, u
  <2>6. VaultOK(r, q)
    BY <1>1, <2>3 DEF VaultOK, SameWire, u, l
  <2> QED BY <1>4, <2>1, <2>3, <2>4, <2>5, <2>6, OneRequest
<1> QED BY <1>3, <1>4 DEF Save

LEMMA ForgetKeepsInv ==
  ASSUME RoundTripInv, NEW k \in held, Forget(k)
  PROVE  RoundTripInv'
<1>1. PICK r \in Req, t \in Token : k = <<r, t>>
  BY DEF RoundTripInv, StoreOK
<1> DEFINE p == req[r]
           l == p.lost \cup {t}
           q == [p EXCEPT !.lost = l]
<1>2. /\ p \in Request /\ PhaseOK(p) /\ TextsOK(p) /\ VaultOK(r, p) /\ l \in SUBSET Token
  BY RequestFacts DEF Request
<1>3. req' = [req EXCEPT ![r] = q]
  <2>1. k[1] = r /\ k[2] = t
    BY <1>1
  <2>2. req' = [req EXCEPT ![k[1]].lost = @ \cup {k[2]}]
    BY DEF Forget
  <2> QED BY <2>1, <2>2, Zenon
<1>4. held' = held \ {<<r, t>>} /\ UNCHANGED <<saved, answer>>
  BY <1>1 DEF Forget, Vault!Forget
<1> HIDE DEF p, l
<1>5. /\ q \in Request /\ SameWire(p, q) /\ SameBooks(p, q)
      /\ q.reply = p.reply /\ q.restored = p.restored /\ q.phase = p.phase /\ q.lost = l
  BY <1>2, LostSet
<1> HIDE DEF q
<1>6. TextsOK(q)
  BY <1>2, <1>5, SameTexts DEF SameWire, l
<1>7. PhaseOK(q)
  BY <1>2, <1>5 DEF PhaseOK, SameWire, SameBooks
<1>8. StoreOK'
  BY <1>4 DEF RoundTripInv, StoreOK
<1>9. \A o \in Req : req'[o] = IF o = r THEN q ELSE req[o]
  BY <1>3 DEF RoundTripInv
<1>10. ASSUME NEW o \in Req PROVE VaultOK(o, req[o])'
  <2>1. CASE o = r
    <3>1. req'[o] = q
      BY <1>9, <2>1
    <3> QED BY <1>2, <1>4, <1>5, <2>1, <3>1 DEF VaultOK, SameWire, SameBooks, l
  <2>2. CASE o # r
    <3>1. req'[o] = req[o] /\ \A x : <<o, x>> # <<r, t>>
      BY <1>9, <2>2
    <3> QED BY <1>4, <3>1 DEF RoundTripInv, VaultOK
  <2> QED BY <2>1, <2>2
<1> QED BY <1>3, <1>5, <1>6, <1>7, <1>8, <1>10, OneStep
-----------------------------------------------------------------------------
\* Masking one leaf.

LEMMA PutInIs ==
  ASSUME NEW q, NEW t
  PROVE  t \in PutIn(q) <=>
           t \in Token /\ \E i \in 1 .. Len(q.wire) : t \in LeafTokens(q.body[i], q.wire[i])
BY DEF PutIn

LEMMA NextLeafIs ==
  ASSUME RoundTripInv, NEW r \in Req, NEW where, Masking(r, where)
  PROVE  /\ NextLeaf(r) \in Leaf /\ NextLeaf(r).where = where
         /\ req[r].phase = "masking" /\ Len(req[r].wire) < Len(req[r].body)
         /\ where = "secret" => Len(NextLeaf(r).text) = 1
         /\ where = "number" => NextLeaf(r).text \in Seq(Word)
<1>1. req[r].wire \in Seq(Leaf) /\ req[r].body \in Seq(Leaf) /\ WireOK(req[r])
  BY RequestFacts DEF Request, TextsOK
<1>2. /\ req[r].phase = "masking" /\ Len(req[r].wire) < Len(req[r].body)
      /\ NextLeaf(r).where = where
  BY DEF Masking
<1>3. Len(req[r].wire) + 1 \in 1 .. Len(req[r].body)
  BY <1>1, <1>2
<1> QED BY <1>1, <1>2, <1>3 DEF NextLeaf, WireOK

LEMMA LeafKeepsInv ==
  ASSUME RoundTripInv, NEW r \in Req, NEW where, Masking(r, where), VaultUnchanged,
         NEW text \in Seq(Item), NEW s, Emit(r, text, s),
         SessionOK(s), Extends(req[r].sess.mapping, s.mapping),
         LeafMasked(NextLeaf(r), [where |-> where, text |-> text], s.mapping),
         DOMAIN s.mapping \subseteq DOMAIN req[r].sess.mapping
           \cup (LeafTokens(NextLeaf(r), [where |-> where, text |-> text]) \cap Token)
  PROVE  RoundTripInv'
<1> DEFINE p == req[r]
           n == Len(p.wire)
           leaf == [where |-> where, text |-> text]
           w == Append(p.wire, leaf)
           q == [p EXCEPT !.wire = w, !.sess = s]
<1>1. /\ p \in Request /\ PhaseOK(p) /\ TextsOK(p) /\ VaultOK(r, p)
      /\ p.wire \in Seq(Leaf) /\ p.body \in Seq(Leaf)
  BY RequestFacts DEF Request
<1>2. leaf \in Leaf
  BY NextLeafIs DEF Leaf, Item
<1>3. NextLeaf(r) = p.body[n + 1] /\ n < Len(p.body) /\ p.phase = "masking"
  BY DEF NextLeaf, Masking
<1>4. /\ Extends(p.sess.mapping, s.mapping) /\ LeafMasked(NextLeaf(r), leaf, s.mapping)
      /\ DOMAIN s.mapping \subseteq
           DOMAIN p.sess.mapping \cup (LeafTokens(NextLeaf(r), leaf) \cap Token)
  OBVIOUS
<1>5. req' = [req EXCEPT ![r] = q]
  <2>1. NextLeaf(r).where = where
    BY NextLeafIs
  <2> QED BY <2>1, Zenon DEF Emit
<1> HIDE DEF p, w, leaf
<1>6. /\ q \in Request /\ SameReply(p, q) /\ SameBooks(p, q)
      /\ q.wire = Append(p.wire, leaf) /\ q.sess = s /\ q.body = p.body /\ q.phase = p.phase
  <2>1. s \in Session /\ w \in Seq(Leaf)
    BY <1>1, <1>2 DEF SessionOK, w
  <2>2. \A z \in Session : LET o == [p EXCEPT !.wire = w, !.sess = z]
          IN  /\ o \in Request /\ SameReply(p, o) /\ SameBooks(p, o)
              /\ o.wire = w /\ o.sess = z /\ o.body = p.body /\ o.phase = p.phase
    BY <1>1, <2>1, WireSet
  <2> QED BY <2>1, <2>2, Zenon DEF w
<1> HIDE DEF q
<1>7. /\ Len(q.wire) = n + 1 /\ n \in Nat /\ Len(p.body) \in Nat /\ q.wire[n + 1] = leaf
      /\ \A i \in 1 .. n : q.wire[i] = p.wire[i]
  BY <1>1, <1>6, <1>2, AppendItem
<1> HIDE DEF n
<1>8. /\ WireOK(p) /\ ReplyOK(p)
  BY <1>1 DEF TextsOK
<1>9. \A i \in 1 .. n + 1 : LeafMasked(q.body[i], q.wire[i], q.sess.mapping)
  <2>1. ASSUME NEW i \in 1 .. n PROVE LeafMasked(q.body[i], q.wire[i], q.sess.mapping)
    <3>1. LeafMasked(p.body[i], p.wire[i], p.sess.mapping)
      BY <1>8, <2>1 DEF WireOK, n
    <3>2. LeafMasked(p.body[i], p.wire[i], s.mapping)
      BY <1>4, <3>1 DEF LeafMasked, Extends
    <3> QED BY <1>6, <1>7, <3>2
  <2>2. LeafMasked(q.body[n + 1], q.wire[n + 1], q.sess.mapping)
    BY <1>3, <1>4, <1>6, <1>7
  <2>3. \A i \in 1 .. n + 1 : i \in 1 .. n \/ i = n + 1
    BY <1>7
  <2> QED BY <2>1, <2>2, <2>3
<1>10. DOMAIN q.sess.mapping \subseteq PutIn(q)
  <2>1. ASSUME NEW t \in DOMAIN s.mapping PROVE t \in PutIn(q)
    <3>1. CASE t \in DOMAIN p.sess.mapping
      <4>1. t \in PutIn(p)
        BY <1>8, <3>1 DEF WireOK
      <4>2. PICK i \in 1 .. n : t \in LeafTokens(p.body[i], p.wire[i]) /\ t \in Token
        BY <4>1, PutInIs DEF n
      <4>3. i \in 1 .. Len(q.wire) /\ q.wire[i] = p.wire[i]
        BY <1>7, <4>2
      <4> QED BY <1>6, <4>2, <4>3, PutInIs
    <3>2. CASE t \notin DOMAIN p.sess.mapping
      <4>1. t \in LeafTokens(NextLeaf(r), leaf) /\ t \in Token
        BY <1>4, <3>2
      <4>2. n + 1 \in 1 .. Len(q.wire) /\ q.wire[n + 1] = leaf /\ q.body[n + 1] = NextLeaf(r)
        BY <1>3, <1>6, <1>7
      <4> QED BY <4>1, <4>2, PutInIs
    <3> QED BY <3>1, <3>2
  <2> QED BY <1>6, <2>1
<1>11. WireOK(q)
  <2>1. Len(q.wire) <= Len(q.body)
    BY <1>3, <1>6, <1>7
  <2> QED BY <1>6, <1>7, <1>8, <1>9, <1>10, <2>1 DEF WireOK
<1>12. ReplyOK(q)
  <2>1. p.reply = << >> /\ Len(p.restored) <= Len(p.reply) /\ p.restored \in Seq(Item)
    BY <1>1, <1>3, <1>8 DEF ReplyOK, Request
  <2>2. Len(p.reply) = 0 /\ Len(p.restored) \in Nat
    BY <2>1
  <2>3. 1 .. Len(p.restored) = {}
    BY <2>1, <2>2
  <2> QED BY <1>6, <1>8, <2>1, <2>3 DEF ReplyOK, SameReply
<1>13. TextsOK(q)
  BY <1>6, <1>11, <1>12 DEF TextsOK
<1>14. PhaseOK(q)
  BY <1>1, <1>3, <1>4, <1>6 DEF PhaseOK, SameBooks, Extends
<1>15. VaultOK(r, q)
  BY <1>1, <1>3, <1>4, <1>6 DEF VaultOK, Extends
<1> QED BY <1>6, <1>5, <1>13, <1>14, <1>15, OneRequest

LEMMA SweepKeepsInv ==
  ASSUME RoundTripInv, NEW r \in Req, Masking(r, "string"), VaultUnchanged,
         NEW found \in SUBSET (Sure \cup Guess), Sure \subseteq found,
         NEW m, m = Masked(req[r].sess, NextLeaf(r).text, found), Emit(r, m.text, m.sess)
  PROVE  RoundTripInv'
<1> DEFINE b == NextLeaf(r)
           sess == req[r].sess
           leaf == [where |-> "string", text |-> m.text]
<1>1. b \in Leaf /\ b.where = "string" /\ b.text \in Seq(Item)
  BY NextLeafIs DEF Leaf, Item
<1>2. SessionOK(sess)
  BY RequestFacts DEF TextsOK
<1>3. Swept(sess, m, b.text, found, Len(b.text)) /\ Emit(r, m.text, m.sess)
  BY <1>1, <1>2, MaskedIsSwept
<1> HIDE DEF b, sess
<1>4. /\ SessionOK(m.sess) /\ Extends(sess.mapping, m.sess.mapping)
      /\ m.text \in Seq(Item) /\ Len(m.text) = Len(b.text)
      /\ DOMAIN m.sess.mapping \subseteq Token
  BY <1>3, SessionFacts DEF Swept
<1>5. leaf.where = "string" /\ leaf.text = m.text
  OBVIOUS
<1> HIDE DEF leaf
<1>6. LeafMasked(b, leaf, m.sess.mapping)
  BY <1>1, <1>3, <1>4, <1>5 DEF LeafMasked, Swept
<1>7. ASSUME NEW t \in DOMAIN m.sess.mapping, t \notin DOMAIN sess.mapping
      PROVE  t \in LeafTokens(b, leaf) \cap Token
  <2>1. PICK j \in { k \in 1 .. Len(b.text) : b.text[k] \in found } : t = m.text[j]
    BY <1>3, <1>7 DEF Swept
  <2>2. b.text[j] \notin Token
    BY <2>1, RoundTripAssumption
  <2> QED BY <1>4, <1>5, <2>1, <2>2 DEF LeafTokens
<1>8. DOMAIN m.sess.mapping \subseteq DOMAIN sess.mapping \cup (LeafTokens(b, leaf) \cap Token)
  BY <1>7
<1> QED BY <1>3, <1>4, <1>6, <1>8, LeafKeepsInv DEF b, sess, leaf

LEMMA MaskStringKeepsInv ==
  ASSUME RoundTripInv, NEW r \in Req, MaskString(r)
  PROVE  RoundTripInv'
<1>1. PICK found \in {Sure \cup Guess, Sure} :
        LET m == Masked(req[r].sess, NextLeaf(r).text, found) IN Emit(r, m.text, m.sess)
  BY DEF MaskString
<1>2. Masking(r, "string") /\ VaultUnchanged
  BY DEF MaskString
<1>3. found \in SUBSET (Sure \cup Guess) /\ Sure \subseteq found
  OBVIOUS
<1> DEFINE m == Masked(req[r].sess, NextLeaf(r).text, found)
<1>4. m = Masked(req[r].sess, NextLeaf(r).text, found) /\ Emit(r, m.text, m.sess)
  BY <1>1
<1> HIDE DEF m
<1> QED BY <1>2, <1>3, <1>4, SweepKeepsInv

LEMMA MaskSecretKeepsInv ==
  ASSUME RoundTripInv, NEW r \in Req, MaskSecret(r)
  PROVE  RoundTripInv'
<1> DEFINE b == NextLeaf(r)
           sess == req[r].sess
           secret == b.text[1]
           t == tokenFor(sess, Password, secret)
           a == AfterTokenFor(sess, Password, secret)
           leaf == [where |-> "secret", text |-> <<t>>]
<1>1. Masking(r, "secret") /\ VaultUnchanged /\ Emit(r, <<t>>, a)
  BY DEF MaskSecret
<1>2. b.where = "secret" /\ b.text \in Seq(Item) /\ Len(b.text) = 1
  BY <1>1, NextLeafIs DEF Leaf, Item
<1>3. SessionOK(sess) /\ secret \in Item /\ Password \in Kind
  BY <1>2, RequestFacts, RoundTripAssumption DEF TextsOK
<1> HIDE DEF b, sess, secret
<1>4. /\ SessionOK(a) /\ Extends(sess.mapping, a.mapping)
      /\ t \in Token /\ t \in DOMAIN a.mapping /\ a.mapping[t] = secret
      /\ DOMAIN a.mapping = DOMAIN sess.mapping \cup {t}
  BY <1>3, TokenGiven
<1> HIDE DEF t, a
<1>5. /\ <<t>> \in Seq(Item) /\ leaf.where = "secret" /\ leaf.text = <<t>>
      /\ Len(leaf.text) = 1 /\ leaf.text[1] = t
  BY <1>4 DEF Item
<1> HIDE DEF leaf
<1>6. LeafMasked(b, leaf, a.mapping)
  BY <1>2, <1>4, <1>5 DEF LeafMasked, secret
<1>7. t \in LeafTokens(b, leaf)
  <2>1. 1 \in { k \in 1 .. Len(leaf.text) : leaf.where = "secret" \/ b.text[k] \notin Token }
    BY <1>5
  <2> QED BY <1>5, <2>1 DEF LeafTokens
<1>8. DOMAIN a.mapping \subseteq DOMAIN sess.mapping \cup (LeafTokens(b, leaf) \cap Token)
  BY <1>4, <1>7
<1> QED BY <1>1, <1>4, <1>5, <1>6, <1>8, LeafKeepsInv DEF b, sess, leaf

LEMMA PassScalarKeepsInv ==
  ASSUME RoundTripInv, NEW r \in Req, PassScalar(r)
  PROVE  RoundTripInv'
<1> DEFINE b == NextLeaf(r)
           sess == req[r].sess
           leaf == [where |-> "number", text |-> b.text]
<1>1. Masking(r, "number") /\ VaultUnchanged /\ Emit(r, b.text, sess)
  BY DEF PassScalar
<1>2. b.where = "number" /\ b.text \in Seq(Item)
  BY <1>1, NextLeafIs DEF Leaf, Item
<1>3. SessionOK(sess)
  BY RequestFacts DEF TextsOK
<1>4. leaf.where = "number" /\ leaf.text = b.text
  OBVIOUS
<1> HIDE DEF b, sess, leaf
<1>5. LeafMasked(b, leaf, sess.mapping) /\ Extends(sess.mapping, sess.mapping)
  BY <1>2, <1>4 DEF LeafMasked, Extends
<1> QED BY <1>1, <1>2, <1>3, <1>5, LeafKeepsInv DEF b, sess, leaf
-----------
\* The reply.

LEMMA UpstreamSaysKeepsInv ==
  ASSUME RoundTripInv, NEW r \in Req, NEW w \in TokensSent(r) \cup Other, UpstreamSays(r, w)
  PROVE  RoundTripInv'
<1> DEFINE p == req[r]
           x == Append(p.reply, w)
           q == [p EXCEPT !.reply = x]
<1>1. /\ p \in Request /\ PhaseOK(p) /\ TextsOK(p) /\ VaultOK(r, p)
      /\ p.reply \in Seq(Item) /\ p.restored \in Seq(Item)
  BY RequestFacts DEF Request
<1>2. VaultUnchanged /\ p.phase = "responding" /\ Len(p.reply) < MaxReply
  BY DEF UpstreamSays
<1>3. req' = [req EXCEPT ![r] = q]
  BY Zenon DEF UpstreamSays
<1>4. w \in Item
  BY RoundTripAssumption DEF TokensSent, Item
<1> HIDE DEF p, x
<1>5. /\ x \in Seq(Item) /\ Len(x) = Len(p.reply) + 1 /\ Len(p.reply) \in Nat
      /\ \A i \in 1 .. Len(p.reply) : x[i] = p.reply[i]
  BY <1>1, <1>4, AppendItem DEF x
<1>6. /\ q \in Request /\ SameWire(p, q) /\ SameBooks(p, q) /\ q.phase = p.phase
      /\ q.reply = x /\ q.restored = p.restored /\ q.lost = p.lost
  BY <1>1, <1>5, ReplySet
<1> HIDE DEF q
<1>7. SessionOK(q.sess) /\ WireOK(q)
  BY <1>1, <1>6 DEF TextsOK, WireOK, PutIn, SameWire
<1>8. ReplyOK(q)
  <2>1. Len(q.restored) <= Len(q.reply) /\ Len(q.reply) <= MaxReply
    <3>1. Len(p.restored) <= Len(p.reply) /\ Len(p.restored) \in Nat
      BY <1>1 DEF TextsOK, ReplyOK
    <3> QED BY <1>2, <1>5, <1>6, <3>1, RoundTripAssumption
  <2>2. \A i \in 1 .. Len(q.restored) : q.reply[i] = p.reply[i]
    <3>1. \A i \in 1 .. Len(p.restored) : i \in 1 .. Len(p.reply)
      BY <1>1, <1>5 DEF TextsOK, ReplyOK
    <3> QED BY <1>5, <1>6, <3>1
  <2> QED BY <1>1, <1>2, <1>6, <2>1, <2>2 DEF TextsOK, ReplyOK, SameWire
<1>9. PhaseOK(q) /\ VaultOK(r, q)
  BY <1>1, <1>6 DEF PhaseOK, VaultOK, SameWire, SameBooks
<1> QED BY <1>2, <1>3, <1>6, <1>7, <1>8, <1>9, OneRequest DEF TextsOK

\* The next word of the reply is passed on as what it means, or as it is when the vault
\* failed on it.
LEMMA RestoreKeepsInv ==
  ASSUME RoundTripInv, NEW r \in Req, Restore(r)
  PROVE  RoundTripInv'
<1> DEFINE p == req[r]
           w == p.reply[Len(p.restored) + 1]
           Pass(v, lost) == req' = [req EXCEPT ![r] =
                              [p EXCEPT !.restored = Append(p.restored, v), !.lost = p.lost \cup lost]]
<1>1. /\ p \in Request /\ PhaseOK(p) /\ TextsOK(p) /\ VaultOK(r, p)
      /\ p.reply \in Seq(Item) /\ p.restored \in Seq(Item) /\ p.lost \in SUBSET Token
      /\ DOMAIN p.sess.mapping \subseteq Token
      /\ \A t \in DOMAIN p.sess.mapping : p.sess.mapping[t] \in Item
  BY RequestFacts, MapFacts DEF Request
<1>2. p.phase = "responding" /\ Len(p.restored) < Len(p.reply) /\ p.unsaved = {}
  BY <1>1 DEF Restore, PhaseOK
<1>3. w \in Item
  <2>1. Len(p.restored) + 1 \in 1 .. Len(p.reply)
    BY <1>1, <1>2
  <2> QED BY <1>1, <2>1
<1>4. /\ held \subseteq DOMAIN saved
      /\ answer \in [Req -> [token : Token \cup {Missing}, value : Item \cup {Missing}]]
  BY DEF RoundTripInv, StoreOK
<1>5. \/ w \notin Token /\ VaultUnchanged /\ Pass(w, {})
      \/ w \in Token /\ Vault!Found(r, w) /\ Pass(answer'[r].value, {})
      \/ w \in Token /\ Vault!key(r, w) \notin held /\ Vault!NotFound(r, w) /\ Pass(w, {})
      \/ w \in Token /\ Vault!NotFound(r, w) /\ Pass(w, {w})
  BY Zenon DEF Restore
<1>6. p = req[r] /\ w = p.reply[Len(p.restored) + 1]
  OBVIOUS
<1> HIDE DEF p, w
<1>7. ASSUME NEW v \in Item, NEW l \in Losses, p.lost \subseteq l,
              v = Meaning(p.sess.mapping, w) \/ (v = w /\ w \in l),
              req' = [req EXCEPT ![r] = [p EXCEPT !.restored = Append(p.restored, v), !.lost = l]],
              StoreOK', UNCHANGED <<saved, held>>
       PROVE  RoundTripInv'
  <2> DEFINE n == Len(p.restored)
             x == Append(p.restored, v)
             q == [p EXCEPT !.restored = x, !.lost = l]
  <2>1. /\ p.phase = "responding" /\ n < Len(p.reply) /\ req' = [req EXCEPT ![r] = q]
        /\ w = p.reply[n + 1] /\ p.lost \subseteq l
        /\ v = Meaning(p.sess.mapping, w) \/ (v = w /\ w \in l)
    BY <1>2, <1>6, <1>7
  <2> HIDE DEF x
  <2>2. /\ x \in Seq(Item) /\ Len(x) = n + 1 /\ n \in Nat /\ x[n + 1] = v
        /\ \A i \in 1 .. n : x[i] = p.restored[i]
    BY <1>1, AppendItem DEF x
  <2>3. /\ q \in Request /\ SameWire(p, q) /\ SameBooks(p, q) /\ q.phase = p.phase
        /\ q.reply = p.reply /\ q.restored = x /\ q.lost = l
    <3>1. p \in Request /\ x \in Seq(Item)
      BY <1>1, <2>2
    <3>2. \A y \in Losses : LET o == [p EXCEPT !.restored = x, !.lost = y]
            IN  /\ o \in Request /\ SameWire(p, o) /\ SameBooks(p, o) /\ o.phase = p.phase
                /\ o.reply = p.reply /\ o.restored = x /\ o.lost = y
      BY <3>1, RestoredSet
    <3> QED BY <3>2, Zenon
  <2> HIDE DEF q
  <2>4. SessionOK(q.sess) /\ WireOK(q)
    BY <1>1, <2>3 DEF TextsOK, WireOK, PutIn, SameWire
  <2>5. ReplyOK(q)
    <3>1. Len(q.restored) <= Len(q.reply) /\ Len(q.reply) <= MaxReply
      <4>1. Len(p.reply) \in Nat /\ Len(p.reply) <= MaxReply
        <5>1. ReplyOK(p)
          BY <1>1 DEF TextsOK
        <5> QED BY <1>1, <5>1 DEF ReplyOK
      <4> QED BY <2>1, <2>2, <2>3, <4>1
    <3>2. ASSUME NEW i \in 1 .. n + 1
          PROVE  \/ q.restored[i] = Meaning(q.sess.mapping, q.reply[i])
                 \/ q.restored[i] = q.reply[i] /\ q.reply[i] \in q.lost
      <4>1. q.sess = p.sess
        BY <2>3 DEF SameWire
      <4>2. CASE i = n + 1
        BY <2>1, <2>2, <2>3, <4>1, <4>2
      <4>3. CASE i \in 1 .. n
        <5>1. \/ p.restored[i] = Meaning(p.sess.mapping, p.reply[i])
              \/ p.restored[i] = p.reply[i] /\ p.reply[i] \in p.lost
          BY <1>1, <4>3 DEF TextsOK, ReplyOK
        <5> QED BY <2>1, <2>2, <2>3, <4>1, <4>3, <5>1
      <4> QED BY <2>2, <4>2, <4>3
    <3> QED BY <2>1, <2>2, <2>3, <3>1, <3>2 DEF ReplyOK
  <2>6. PhaseOK(q) /\ VaultOK(r, q)
    BY <1>1, <2>1, <2>3 DEF PhaseOK, VaultOK, SameWire, SameBooks
  <2> QED BY <2>1, <2>3, <2>4, <2>5, <2>6, <1>7, OneLookup DEF TextsOK
<1>8. CASE w \notin Token /\ VaultUnchanged /\ Pass(w, {})
  <2>1. w = Meaning(p.sess.mapping, w)
    BY <1>1, <1>8 DEF Meaning
  <2>2. StoreOK' /\ UNCHANGED <<saved, held>>
    BY <1>8 DEF RoundTripInv, VaultUnchanged, StoreOK
  <2>3. p.lost \cup {} \in Losses /\ p.lost \subseteq p.lost \cup {}
    BY <1>1 DEF Losses
  <2> QED BY <1>8, <1>3, <1>7, <2>1, <2>2, <2>3, Zenon
<1>9. CASE w \in Token /\ Vault!Found(r, w) /\ Pass(answer'[r].value, {})
  <2>1. <<r, w>> \in held /\ UNCHANGED <<saved, held>>
        /\ answer' = [answer EXCEPT ![r] = [token |-> w, value |-> saved[<<r, w>>]]]
    BY <1>9 DEF Vault!Found, Vault!key
  <2>2. w \in DOMAIN p.sess.mapping /\ saved[<<r, w>>] = p.sess.mapping[w]
    BY <1>1, <1>4, <1>9, <2>1 DEF VaultOK
  <2> DEFINE v == saved[<<r, w>>]
  <2>3. v \in Item /\ v = Meaning(p.sess.mapping, w)
    BY <1>1, <2>2 DEF Meaning
  <2> HIDE DEF v
  <2>4. answer'[r] = [token |-> w, value |-> v]
    BY <1>4, <2>1 DEF v
  <2>5. StoreOK'
    BY <1>9, <2>1, <2>3 DEF RoundTripInv, StoreOK, v
  <2>6. Pass(v, {})
    BY <1>9, <2>4
  <2>7. p.lost \cup {} \in Losses /\ p.lost \subseteq p.lost \cup {}
    BY <1>1 DEF Losses
  <2> QED BY <1>7, <2>1, <2>3, <2>5, <2>6, <2>7, Zenon
<1>10. CASE w \in Token /\ Vault!NotFound(r, w)
  <2>1. /\ UNCHANGED <<saved, held>>
        /\ answer' = [answer EXCEPT ![r] = [token |-> w, value |-> Missing]]
    BY <1>10 DEF Vault!NotFound
  <2>2. StoreOK'
    BY <1>10, <2>1 DEF RoundTripInv, StoreOK
  <2>3. CASE Vault!key(r, w) \notin held /\ Pass(w, {})
    <3>1. w \notin DOMAIN p.sess.mapping \/ w \in p.lost
      BY <1>1, <1>2, <2>3 DEF VaultOK, Vault!key
    <3>2. w = Meaning(p.sess.mapping, w) \/ (w = w /\ w \in p.lost \cup {})
      <4>1. CASE w \notin DOMAIN p.sess.mapping
        BY <4>1 DEF Meaning
      <4>2. CASE w \in p.lost
        BY <4>2
      <4> QED BY <3>1, <4>1, <4>2
    <3>3. p.lost \cup {} \in Losses /\ p.lost \subseteq p.lost \cup {}
      BY <1>1 DEF Losses
    <3> QED BY <1>3, <1>7, <2>1, <2>2, <2>3, <3>2, <3>3, Zenon
  <2>4. CASE Pass(w, {w})
    <3>1. p.lost \cup {w} \in Losses /\ p.lost \subseteq p.lost \cup {w}
          /\ w \in p.lost \cup {w}
      BY <1>1, <1>10 DEF Losses
    <3> QED BY <1>3, <1>7, <2>1, <2>2, <2>4, <3>1, Zenon
  <2> QED BY <1>5, <1>10, <2>3, <2>4, <1>8, <1>9
<1> QED BY <1>5, <1>8, <1>9, <1>10
-----------------------------------------------------------------------------
\* All steps.

LEMMA NextKeepsInv ==
  ASSUME RoundTripInv, [RoundTripNext]_roundTripVars
  PROVE  RoundTripInv'
<1>1. ASSUME NEW r \in Req, Proxy(r) PROVE RoundTripInv'
  <2>1. CASE DropBody(r)
    BY <2>1, DropBodyKeepsInv
  <2>2. CASE MaskString(r)
    BY <2>2, MaskStringKeepsInv
  <2>3. CASE MaskSecret(r)
    BY <2>3, MaskSecretKeepsInv
  <2>4. CASE PassScalar(r)
    BY <2>4, PassScalarKeepsInv
  <2>5. CASE AllMasked(r)
    BY <2>5, AllMaskedKeepsInv
  <2>6. ASSUME NEW t \in DOMAIN req[r].sess.mapping, Save(r, t) PROVE RoundTripInv'
    BY <2>6, SaveKeepsInv
  <2>7. CASE Record(r)
    BY <2>7, RecordKeepsInv
  <2>8. CASE Restore(r)
    BY <2>8, RestoreKeepsInv
  <2>9. CASE Log(r)
    BY <2>9, LogKeepsInv
  <2>10. CASE Send(r) \/ SendFails(r) \/ RestoreFails(r) \/ Finish(r) \/ Abort(r)
    BY <2>10, MarksKeepInv
  <2> QED BY <1>1, <2>1, <2>2, <2>3, <2>4, <2>5, <2>6, <2>7, <2>8, <2>9, <2>10 DEF Proxy
<1>2. ASSUME NEW r \in Req, World(r) PROVE RoundTripInv'
  <2>1. ASSUME NEW body \in Bodies, Arrive(r, body) PROVE RoundTripInv'
    BY <2>1, ArriveKeepsInv
  <2>2. ASSUME NEW w \in TokensSent(r) \cup Other, UpstreamSays(r, w) PROVE RoundTripInv'
    BY <2>2, UpstreamSaysKeepsInv
  <2>3. CASE \/ NotRouted(r) \/ Leave(r) \/ UpstreamEnds(r) \/ UpstreamFails(r)
             \/ \E mode \in {"stream", "buffered"} : Respond(r, mode)
    BY <2>3, MarksKeepInv
  <2> QED BY <1>2, <2>1, <2>2, <2>3 DEF World
<1>3. ASSUME NEW k \in held, Forget(k) PROVE RoundTripInv'
  BY <1>3, ForgetKeepsInv
<1>4. CASE UNCHANGED roundTripVars
  BY <1>4 DEF roundTripVars, RoundTripInv, StoreOK, VaultOK
<1> QED BY <1>1, <1>2, <1>3, <1>4 DEF RoundTripNext

THEOREM RoundTripInvariant == RoundTripSpec => []RoundTripInv
<1>1. RoundTripInit => RoundTripInv
  BY InitKeepsInv
<1>2. RoundTripInv /\ [RoundTripNext]_roundTripVars => RoundTripInv'
  BY NextKeepsInv
<1> QED BY <1>1, <1>2, PTL DEF RoundTripSpec

-----------------------------------------------------------------------------
\* What the invariant says of the requests.

LEMMA RequestTypes ==
  ASSUME NEW q \in Request, TextsOK(q)
  PROVE  /\ q.body \in Seq(Leaf) /\ q.wire \in Seq(Leaf) /\ Len(q.wire) <= Len(q.body)
         /\ q.reply \in Seq(Item) /\ q.restored \in Seq(Item)
         /\ DOMAIN q.sess.mapping \subseteq Token
         /\ \A i \in 1 .. Len(q.wire) :
              /\ i \in 1 .. Len(q.body) /\ q.body[i] \in Leaf /\ q.wire[i] \in Leaf
              /\ LeafMasked(q.body[i], q.wire[i], q.sess.mapping)
<1>1. /\ q.body \in Seq(Leaf) /\ q.wire \in Seq(Leaf)
      /\ q.reply \in Seq(Item) /\ q.restored \in Seq(Item)
  BY DEF Request
<1>2. WireOK(q) /\ DOMAIN q.sess.mapping \subseteq Token
  BY SessionFacts DEF TextsOK
<1>3. Len(q.wire) <= Len(q.body) /\ Len(q.body) \in Nat /\ Len(q.wire) \in Nat
  BY <1>1, <1>2 DEF WireOK
<1>4. \A i \in 1 .. Len(q.wire) : i \in 1 .. Len(q.body)
  BY <1>3
<1> QED BY <1>1, <1>2, <1>3, <1>4 DEF WireOK

\* TYPE INVARIANT of the requests and the vault.
THEOREM RoundTripTypeCorrect == RoundTripSpec => []RoundTripTypeOK
<1>1. ASSUME RoundTripInv PROVE RoundTripTypeOK
  <2>1. ASSUME NEW r \in Req
        PROVE  /\ req[r].phase \in Phase /\ req[r].mode \in Mode /\ req[r].source \in Source
               /\ req[r].status \in Status /\ req[r].left \in BOOLEAN
               /\ Len(req[r].wire) <= Len(req[r].body)
               /\ DOMAIN req[r].sess.mapping \subseteq Token
               /\ req[r].unsaved \subseteq DOMAIN req[r].sess.mapping
               /\ req[r].lost \subseteq Token
               /\ Len(req[r].restored) <= Len(req[r].reply) /\ Len(req[r].reply) <= MaxReply
               /\ Len(req[r].records) <= 1 /\ Len(req[r].logs) <= 1
    <3> DEFINE p == req[r]
    <3>1. p \in Request /\ PhaseOK(p) /\ TextsOK(p)
      BY <1>1, RequestFacts
    <3> HIDE DEF p
    <3>2. /\ Len(p.wire) <= Len(p.body) /\ DOMAIN p.sess.mapping \subseteq Token
      BY <3>1, RequestTypes
    <3>3. Len(p.restored) <= Len(p.reply) /\ Len(p.reply) <= MaxReply
      BY <3>1 DEF TextsOK, ReplyOK
    <3>4. /\ p.phase \in Phase /\ p.mode \in Mode /\ p.source \in Source
          /\ p.status \in Status /\ p.left \in BOOLEAN /\ p.lost \subseteq Token
      BY <3>1 DEF Request
    <3>5. p.unsaved \subseteq DOMAIN p.sess.mapping /\ Len(p.records) <= 1
      BY <3>1 DEF PhaseOK
    <3>6. Len(p.logs) <= 1
      <4>1. p.logs = << >> \/ p.logs = <<Cardinality(DOMAIN p.sess.mapping)>>
        BY <3>1 DEF PhaseOK
      <4>2. \A n : Len(<<n>>) = 1
        OBVIOUS
      <4>3. CASE p.logs = << >>
        BY <4>3
      <4>4. CASE p.logs = <<Cardinality(DOMAIN p.sess.mapping)>>
        BY <4>2, <4>4
      <4> QED BY <4>1, <4>3, <4>4
    <3> QED BY <3>2, <3>3, <3>4, <3>5, <3>6 DEF p
  <2>2. held \subseteq DOMAIN saved /\ DOMAIN saved \subseteq Req \X Token
    BY <1>1 DEF RoundTripInv, StoreOK
  <2> QED BY <2>1, <2>2 DEF RoundTripTypeOK, Phase, Mode, Source, Status
<1> QED BY <1>1, RoundTripInvariant, PTL

\* SAFETY.  What the deterministic detectors find never goes upstream (maskRequest and
\* anonymizeText), whatever fails and however many requests are under way.
THEOREM NoSureWordLeaves == RoundTripSpec => []NothingSureLeaves
<1>1. ASSUME RoundTripInv PROVE NothingSureLeaves
  <2>1. ASSUME NEW r \in Req,
               req[r].phase \in {"recorded", "upstream", "responding", "done", "aborted"}
        PROVE  req[r].wire = << >> \/ Len(req[r].wire) = Len(req[r].body)
    BY <1>1, <2>1, RequestFacts DEF PhaseOK
  <2>2. ASSUME NEW r \in Req, NEW i \in 1 .. Len(req[r].wire)
        PROVE  /\ req[r].wire[i].where = "number" => req[r].wire[i] = req[r].body[i]
               /\ req[r].wire[i].where = "secret" => Range(req[r].wire[i].text) \subseteq Token
               /\ req[r].wire[i].where \notin {"number", "secret"} =>
                    Range(req[r].wire[i].text) \cap Sure = {}
    <3> DEFINE b == req[r].body[i]
               w == req[r].wire[i]
               mapping == req[r].sess.mapping
    <3>1. /\ b \in Leaf /\ w \in Leaf /\ LeafMasked(b, w, mapping)
          /\ DOMAIN mapping \subseteq Token
      BY <1>1, <2>2, RequestFacts, RequestTypes
    <3> HIDE DEF b, w, mapping
    <3>2. /\ b.text \in Seq(Word \cup Token) /\ w.text \in Seq(Word \cup Token)
          /\ b = [where |-> b.where, text |-> b.text] /\ w = [where |-> w.where, text |-> w.text]
          /\ w.where = b.where /\ Len(w.text) = Len(b.text)
          /\ w.where \in {"string", "secret", "number"}
      BY <3>1 DEF Leaf, LeafMasked
    <3>3. Range(w.text) = { w.text[j] : j \in 1 .. Len(b.text) }
      BY <3>2 DEF Range
    <3>4. CASE w.where = "number"
      <4>1. \A j \in 1 .. Len(b.text) : w.text[j] = b.text[j]
        BY <3>1, <3>2, <3>4 DEF LeafMasked
      <4>2. w.text = b.text
        BY <3>2, <4>1
      <4> QED BY <3>2, <3>4, <4>2 DEF b, w
    <3>5. CASE w.where = "secret"
      <4>1. \A j \in 1 .. Len(b.text) : w.text[j] \in Token
        BY <3>1, <3>2, <3>5 DEF LeafMasked
      <4> QED BY <3>3, <3>5, <4>1 DEF w
    <3>6. CASE w.where = "string"
      <4>1. \A j \in 1 .. Len(b.text) : w.text[j] \notin Sure
        BY <3>1, <3>2, <3>6, RoundTripAssumption DEF LeafMasked
      <4> QED BY <3>3, <3>6, <4>1 DEF w
    <3> QED BY <3>2, <3>4, <3>5, <3>6 DEF w
  <2> QED BY <2>1, <2>2 DEF NothingSureLeaves
<1> QED BY <1>1, RoundTripInvariant, PTL

\* SAFETY.  Putting the values back into what goes upstream gives the body that came in,
\* but for the places where the client had written a token itself.
THEOREM MaskingCanBeUndone == RoundTripSpec => []MaskingIsReversible
<1>1. ASSUME RoundTripInv PROVE MaskingIsReversible
  <2>1. ASSUME NEW r \in Req, NEW i \in 1 .. Len(req[r].wire)
        PROVE  /\ Len(req[r].wire[i].text) = Len(req[r].body[i].text)
               /\ \A j \in 1 .. Len(req[r].body[i].text) :
                    \/ req[r].body[i].text[j] \in Token
                    \/ Unmask(req[r].sess.mapping, req[r].wire[i].text)[j] = req[r].body[i].text[j]
    <3> DEFINE b == req[r].body[i]
               w == req[r].wire[i]
               mapping == req[r].sess.mapping
    <3>1. LeafMasked(b, w, mapping) /\ DOMAIN mapping \subseteq Token
      BY <1>1, <2>1, RequestFacts, RequestTypes
    <3> HIDE DEF b, w, mapping
    <3>2. Len(w.text) = Len(b.text)
      BY <3>1 DEF LeafMasked
    <3>3. ASSUME NEW j \in 1 .. Len(b.text), b.text[j] \notin Token
          PROVE  Unmask(mapping, w.text)[j] = b.text[j]
      <4>1. Unmask(mapping, w.text)[j] =
              IF w.text[j] \in DOMAIN mapping THEN mapping[w.text[j]] ELSE w.text[j]
        BY <3>2 DEF Unmask
      <4> QED BY <3>1, <3>3, <4>1 DEF LeafMasked
    <3> QED BY <3>2, <3>3 DEF b, w, mapping
  <2> QED BY <2>1 DEF MaskingIsReversible
<1> QED BY <1>1, RoundTripInvariant, PTL

LEMMA RestoredIs ==
  ASSUME RoundTripInv, NEW r \in Req, NEW i \in 1 .. Len(req[r].restored)
  PROVE  \/ req[r].restored[i] = Unmask(req[r].sess.mapping, req[r].reply)[i]
         \/ req[r].restored[i] = req[r].reply[i] /\ req[r].reply[i] \in req[r].lost
<1> DEFINE p == req[r]
<1>1. p \in Request /\ TextsOK(p)
  BY RequestFacts
<1> HIDE DEF p
<1>2. p.reply \in Seq(Item) /\ p.restored \in Seq(Item) /\ ReplyOK(p)
  BY <1>1, RequestTypes DEF TextsOK
<1>3. i \in 1 .. Len(p.reply)
  BY <1>2 DEF ReplyOK, p
<1>4. Unmask(p.sess.mapping, p.reply)[i] = Meaning(p.sess.mapping, p.reply[i])
  BY <1>3 DEF Unmask, Meaning
<1> QED BY <1>2, <1>4 DEF ReplyOK, p

\* SAFETY.  A reply shows a client nothing but what upstream said and what it sent itself,
\* although all requests use the same token names in one vault.
THEOREM RepliesShowOwnValuesOnly == RoundTripSpec => []OwnValuesOnly
<1>1. ASSUME RoundTripInv PROVE OwnValuesOnly
  BY <1>1, RestoredIs DEF OwnValuesOnly
<1> QED BY <1>1, RoundTripInvariant, PTL

\* SAFETY.  Every token of the request that upstream sends back is restored, unless the
\* vault failed on that very token: all of the mapping is saved before it is sent.
THEOREM EchoesAreRestored == RoundTripSpec => []EchoIsRestored
<1>1. ASSUME RoundTripInv PROVE EchoIsRestored
  BY <1>1, RestoredIs DEF EchoIsRestored
<1> QED BY <1>1, RoundTripInvariant, PTL

LEMMA MappingIsWhatWasPut ==
  ASSUME RoundTripInv, NEW r \in Req
  PROVE  TokensPut(r) = DOMAIN req[r].sess.mapping
<1> DEFINE p == req[r]
<1>1. p \in Request /\ TextsOK(p)
  BY RequestFacts
<1>2. TokensPut(r) = PutIn(p)
  BY DEF TokensPut, PutIn, LeafTokens
<1> HIDE DEF p
<1>3. DOMAIN p.sess.mapping \subseteq PutIn(p)
  BY <1>1 DEF TextsOK, WireOK
<1>4. ASSUME NEW t \in PutIn(p) PROVE t \in DOMAIN p.sess.mapping
  <2>1. PICK i \in 1 .. Len(p.wire) : t \in LeafTokens(p.body[i], p.wire[i])
    BY PutInIs
  <2>2. t \in Token
    BY PutInIs
  <2> DEFINE b == p.body[i]
             w == p.wire[i]
  <2>3. LeafMasked(b, w, p.sess.mapping)
    BY <1>1, RequestTypes
  <2>4. t \in LeafTokens(b, w)
    BY <2>1
  <2> HIDE DEF b, w
  <2>5. PICK j \in 1 .. Len(w.text) : /\ t = w.text[j]
                                      /\ w.where = "secret" \/ b.text[j] \notin Token
    BY <2>4 DEF LeafTokens
  <2> QED BY <2>2, <2>3, <2>5 DEF LeafMasked
<1> QED BY <1>2, <1>3, <1>4 DEF p

\* SAFETY.  What the statistics and the log count of a request is the number of different
\* tokens that were put in the place of something (the deferred record of maskRequest).
THEOREM CountsAreTrue == RoundTripSpec => []CountedAsSent
<1>1. ASSUME RoundTripInv PROVE CountedAsSent
  BY <1>1, RequestFacts, MappingIsWhatWasPut DEF PhaseOK, CountedAsSent
<1> QED BY <1>1, RoundTripInvariant, PTL
=============================================================================
