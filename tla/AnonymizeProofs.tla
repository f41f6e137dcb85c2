--------------------------- MODULE AnonymizeProofs ---------------------------
(***************************************************************************)
(* The properties of TokenSession and of AnonymizeText for any kinds,      *)
(* values, texts, dictionaries and detectors, and that the masking of a    *)
(* text is a session: first the session, then the operators from the       *)
(* smallest to collect, then the sweep.                                    *)
(***************************************************************************)
EXTENDS AnonymizeText, SequenceTheorems, FunctionTheorems, LeastNumber

-----------------------------------------------------------------------------
\* The session.

\* The invariant: the properties of TokenSession hold together.
SessionInv ==
  /\ SessionTypeOK
  /\ OneToOne
  /\ NumberedWithoutGaps
  /\ RestoresEveryOccurrence

\* The step for a value that has a token already.
LEMMA KnownValue ==
  ASSUME SessionInv, NEW kind \in Kind, NEW value \in Value,
         value \in DOMAIN sess.tokenOf
  PROVE  /\ AfterTokenFor(sess, kind, value) = sess
         /\ tokenFor(sess, kind, value) = sess.tokenOf[value]
  BY DEF AfterTokenFor, tokenFor

\* The step for a new value: its token is fresh, and is the next of its kind.
LEMMA NewValue ==
  ASSUME SessionInv, NEW kind \in Kind, NEW value \in Value,
         value \notin DOMAIN sess.tokenOf
  PROVE  LET s == AfterTokenFor(sess, kind, value)
             t == NextToken(sess, kind)
         IN  /\ t \in Token /\ t.kind = kind /\ t.n = sess.counters[kind] + 1
             /\ t \notin DOMAIN sess.mapping
             /\ tokenFor(sess, kind, value) = t
             /\ s.mapping = Put(sess.mapping, t, value)
             /\ s.tokenOf = Put(sess.tokenOf, value, t)
             /\ s.counters = [sess.counters EXCEPT ![kind] = @ + 1]
<1> DEFINE s == AfterTokenFor(sess, kind, value)
           t == NextToken(sess, kind)
<1>1. sess.counters[kind] \in Nat
  BY DEF SessionInv, SessionTypeOK
<1>2. t \in Token /\ t.kind = kind /\ t.n = sess.counters[kind] + 1
  BY <1>1 DEF NextToken, Token
<1>3. t \notin DOMAIN sess.mapping
  <2>1. ~(t.n <= sess.counters[t.kind])
    BY <1>1, <1>2
  <2> QED BY <2>1 DEF SessionInv, NumberedWithoutGaps
<1>4. /\ s.mapping = Put(sess.mapping, t, value)
      /\ s.tokenOf = Put(sess.tokenOf, value, t)
      /\ s.counters = [sess.counters EXCEPT ![kind] = @ + 1]
  BY DEF AfterTokenFor
<1>5. tokenFor(sess, kind, value) = t
  BY <1>4 DEF tokenFor, Put
<1> QED BY <1>2, <1>3, <1>4, <1>5

\* A session begins with empty maps.
LEMMA SessionInitEstablishes ==
  ASSUME SessionInit
  PROVE  SessionInv
<1>1. /\ DOMAIN sess.mapping = {} /\ DOMAIN sess.tokenOf = {}
      /\ sess.counters = [k \in Kind |-> 0]
      /\ replaced = << >>
  BY DEF SessionInit, newSession, EmptyMap
<1>2. replaced \in Seq([value : Value, token : Token]) /\ Len(replaced) = 0
  BY <1>1, EmptySeq
<1>3. sess.counters \in [Kind -> Nat]
  BY <1>1
<1>4. SessionTypeOK
  BY <1>1, <1>2, <1>3 DEF SessionTypeOK
<1>5. OneToOne
  BY <1>1 DEF OneToOne
<1>6. NumberedWithoutGaps
  BY <1>1 DEF NumberedWithoutGaps
<1>7. RestoresEveryOccurrence
  BY <1>2 DEF RestoresEveryOccurrence
<1> QED BY <1>4, <1>5, <1>6, <1>7 DEF SessionInv

\* One occurrence: the invariant is kept and no token changes its value.
LEMMA ReplacePreserves ==
  ASSUME SessionInv, NEW kind \in Kind, NEW value \in Value, Replace(kind, value)
  PROVE  /\ SessionInv'
         /\ \A t \in DOMAIN sess.mapping :
               t \in DOMAIN sess'.mapping /\ sess'.mapping[t] = sess.mapping[t]
<1> DEFINE tok == tokenFor(sess, kind, value)
           occ == [value |-> value, token |-> tok]
<1>1. sess' = AfterTokenFor(sess, kind, value) /\ replaced' = Append(replaced, occ)
  BY DEF Replace
<1>2. /\ SessionTypeOK' /\ OneToOne' /\ NumberedWithoutGaps'
      /\ tok \in Token /\ tok \in DOMAIN sess'.mapping /\ sess'.mapping[tok] = value
      /\ \A t \in DOMAIN sess.mapping :
            t \in DOMAIN sess'.mapping /\ sess'.mapping[t] = sess.mapping[t]
  <2>0. tok \in Token => replaced' \in Seq([value : Value, token : Token])
    BY <1>1, AppendProperties DEF SessionInv, SessionTypeOK
  <2> HIDE DEF tok
  <2>1. CASE value \in DOMAIN sess.tokenOf
    <3>1. sess' = sess /\ tok = sess.tokenOf[value]
      BY <1>1, <2>1, KnownValue DEF tok
    <3>2. tok \in Token
      BY <2>1, <3>1 DEF SessionInv, SessionTypeOK
    <3>3. tok \in DOMAIN sess.mapping /\ sess.mapping[tok] = value
      BY <2>1, <3>1 DEF SessionInv, OneToOne
    <3>4. SessionTypeOK'
      BY <2>0, <3>1, <3>2 DEF SessionInv, SessionTypeOK
    <3>5. OneToOne' /\ NumberedWithoutGaps'
      BY <3>1 DEF SessionInv, OneToOne, NumberedWithoutGaps
    <3> QED BY <3>1, <3>2, <3>3, <3>4, <3>5
  <2>2. CASE value \notin DOMAIN sess.tokenOf
    <3>1. /\ tok \in Token /\ tok.kind = kind /\ tok.n = sess.counters[kind] + 1
          /\ tok \notin DOMAIN sess.mapping
          /\ tok = NextToken(sess, kind)
          /\ sess'.mapping = Put(sess.mapping, tok, value)
          /\ sess'.tokenOf = Put(sess.tokenOf, value, tok)
          /\ sess'.counters = [sess.counters EXCEPT ![kind] = @ + 1]
      BY <1>1, <2>2, NewValue DEF tok
    <3>2. /\ DOMAIN sess'.mapping = DOMAIN sess.mapping \cup {tok}
          /\ sess'.mapping[tok] = value
          /\ \A t \in DOMAIN sess.mapping : sess'.mapping[t] = sess.mapping[t]
      BY <3>1 DEF Put
    <3>3. /\ DOMAIN sess'.tokenOf = DOMAIN sess.tokenOf \cup {value}
          /\ sess'.tokenOf[value] = tok
          /\ \A v \in DOMAIN sess.tokenOf : sess'.tokenOf[v] = sess.tokenOf[v]
      <4>1. \A v \in DOMAIN sess.tokenOf : v # value
        BY <2>2
      <4> QED BY <3>1, <4>1 DEF Put
    <3>4. /\ sess.counters \in [Kind -> Nat] /\ sess'.counters \in [Kind -> Nat]
          /\ sess'.counters[kind] = sess.counters[kind] + 1
          /\ \A k \in Kind : k # kind => sess'.counters[k] = sess.counters[k]
      BY <3>1 DEF SessionInv, SessionTypeOK
    <3>5. SessionTypeOK'
      <4>1. /\ DOMAIN sess'.mapping \subseteq Token
            /\ DOMAIN sess'.tokenOf \subseteq Value
        BY <3>1, <3>2, <3>3 DEF SessionInv, SessionTypeOK
      <4>2. \A t \in DOMAIN sess'.mapping : sess'.mapping[t] \in Value
        BY <3>2 DEF SessionInv, SessionTypeOK
      <4>3. \A v \in DOMAIN sess'.tokenOf : sess'.tokenOf[v] \in Token
        BY <3>1, <3>3 DEF SessionInv, SessionTypeOK
      <4> QED BY <2>0, <3>1, <3>4, <4>1, <4>2, <4>3 DEF SessionTypeOK
    <3>6. OneToOne'
      <4>1. ASSUME NEW v \in DOMAIN sess'.tokenOf
            PROVE  /\ sess'.tokenOf[v] \in DOMAIN sess'.mapping
                   /\ sess'.mapping[sess'.tokenOf[v]] = v
        BY <3>2, <3>3 DEF SessionInv, OneToOne
      <4>2. ASSUME NEW t \in DOMAIN sess'.mapping
            PROVE  /\ sess'.mapping[t] \in DOMAIN sess'.tokenOf
                   /\ sess'.tokenOf[sess'.mapping[t]] = t
        BY <3>2, <3>3 DEF SessionInv, OneToOne
      <4> QED BY <4>1, <4>2 DEF OneToOne
    <3>7. NumberedWithoutGaps'
      <4>1. ASSUME NEW t \in DOMAIN sess'.mapping
            PROVE  t.n <= sess'.counters[t.kind]
        <5>1. CASE t = tok
          BY <3>1, <3>4, <5>1
        <5>2. CASE t \in DOMAIN sess.mapping
          <6>1. t \in Token /\ t.n <= sess.counters[t.kind]
            BY <5>2 DEF SessionInv, SessionTypeOK, NumberedWithoutGaps
          <6>2. t.kind \in Kind /\ t.n \in Nat
            BY <6>1 DEF Token
          <6> QED BY <3>4, <6>1, <6>2
        <5> QED BY <3>2, <5>1, <5>2
      <4>2. ASSUME NEW k \in Kind, NEW i \in 1 .. sess'.counters[k]
            PROVE  [kind |-> k, n |-> i] \in DOMAIN sess'.mapping
        <5>1. CASE k = kind /\ i = sess.counters[kind] + 1
          BY <3>1, <3>2, <5>1 DEF NextToken
        <5>2. CASE i \in 1 .. sess.counters[k]
          BY <3>2, <5>2 DEF SessionInv, NumberedWithoutGaps
        <5> QED BY <3>4, <5>1, <5>2
      <4> QED BY <4>1, <4>2 DEF NumberedWithoutGaps
    <3> QED BY <3>1, <3>2, <3>5, <3>6, <3>7
  <2> QED BY <2>1, <2>2
<1>3. RestoresEveryOccurrence'
  <2>1. occ \in [value : Value, token : Token] /\ occ.value = value /\ occ.token = tok
    BY <1>2
  <2>2. replaced \in Seq([value : Value, token : Token])
    BY DEF SessionInv, SessionTypeOK
  <2> HIDE DEF tok, occ
  <2>3. /\ Len(replaced') = Len(replaced) + 1 /\ Len(replaced) \in Nat
        /\ \A i \in 1 .. Len(replaced) : replaced'[i] = replaced[i]
        /\ replaced'[Len(replaced) + 1] = occ
    BY <1>1, <2>1, <2>2, AppendProperties, LenProperties
  <2>4. ASSUME NEW i \in 1 .. Len(replaced')
        PROVE  /\ replaced'[i].token \in DOMAIN sess'.mapping
               /\ sess'.mapping[replaced'[i].token] = replaced'[i].value
    <3>1. CASE i \in 1 .. Len(replaced)
      BY <1>2, <2>3, <3>1 DEF SessionInv, RestoresEveryOccurrence
    <3>2. CASE i = Len(replaced) + 1
      BY <1>2, <2>1, <2>3, <3>2
    <3> QED BY <2>3, <3>1, <3>2
  <2> QED BY <2>4 DEF RestoresEveryOccurrence
<1> QED BY <1>2, <1>3 DEF SessionInv

\* Every step of a session keeps the invariant, and changes no token.
LEMMA SessionStep ==
  ASSUME SessionInv, [SessionNext]_sessionVars
  PROVE  /\ SessionInv'
         /\ [ \A t \in DOMAIN sess.mapping :
                t \in DOMAIN sess'.mapping /\ sess'.mapping[t] = sess.mapping[t]
            ]_sessionVars
<1>1. CASE SessionNext
  BY <1>1, ReplacePreserves DEF SessionNext
<1>2. CASE UNCHANGED sessionVars
  BY <1>2 DEF sessionVars, SessionInv, SessionTypeOK, OneToOne,
              NumberedWithoutGaps, RestoresEveryOccurrence
<1> QED BY <1>1, <1>2

\* The invariant holds in every session.
LEMMA SessionInvariant == SessionSpec => []SessionInv
  BY SessionInitEstablishes, SessionStep, PTL DEF SessionSpec

\* The maps of a session keep their types.
THEOREM SessionTypeCorrect == SessionSpec => []SessionTypeOK
<1>1. SessionInv => SessionTypeOK
  BY DEF SessionInv
<1> QED BY <1>1, SessionInvariant, PTL

\* Tokens and values are in one-to-one correspondence in every session.
THEOREM TokensAndValuesAreInverse == SessionSpec => []OneToOne
<1>1. SessionInv => OneToOne
  BY DEF SessionInv
<1> QED BY <1>1, SessionInvariant, PTL

\* Whatever was replaced can be restored to exactly what stood there.
THEOREM EveryOccurrenceRestorable == SessionSpec => []RestoresEveryOccurrence
<1>1. SessionInv => RestoresEveryOccurrence
  BY DEF SessionInv
<1> QED BY <1>1, SessionInvariant, PTL

\* The numbers of a kind's tokens run from 1 to its counter.
THEOREM TokensNumberedWithoutGaps == SessionSpec => []NumberedWithoutGaps
<1>1. SessionInv => NumberedWithoutGaps
  BY DEF SessionInv
<1> QED BY <1>1, SessionInvariant, PTL

\* A token that was given out keeps its value for the rest of the call.
THEOREM TokensNeverChangeMeaning == SessionSpec => TokensAreForGood
  BY SessionInvariant, SessionStep, PTL DEF SessionSpec, TokensAreForGood

-----------------------------------------------------------------------------
\* Sets of numbers, sequences, and the offsets of a text.

\* Min and Max of a set of numbers that is not empty (and has a bound).
LEMMA MinOf ==
  ASSUME NEW T \in SUBSET Nat, T # {}
  PROVE  Min(T) \in T /\ \A x \in T : Min(T) <= x
BY Least DEF Min

\* The same for Max, of a set that has a bound.
LEMMA MaxOf ==
  ASSUME NEW b \in Nat, NEW T \in SUBSET (0 .. b), T # {}
  PROVE  Max(T) \in T /\ \A x \in T : x <= Max(T)
<1> DEFINE U == { b - x : x \in T }
<1>1. U \in SUBSET Nat /\ U # {}
  <2>1. \A x \in T : x \in 0 .. b /\ b - x \in Nat
    OBVIOUS
  <2> QED BY <2>1
<1>2. PICK y \in U : \A z \in U : y <= z
  BY <1>1, Least
<1>3. PICK m \in T : y = b - m
  OBVIOUS
<1>4. \A x \in T : m >= x
  <2>1. ASSUME NEW x \in T PROVE m >= x
    <3>1. b - m <= b - x
      BY <1>2, <1>3
    <3>2. x \in 0 .. b /\ m \in 0 .. b
      OBVIOUS
    <3> QED BY <3>1, <3>2
  <2> QED BY <2>1
<1>5. Max(T) \in T /\ \A x \in T : Max(T) >= x
  BY <1>4 DEF Max
<1> QED BY <1>5

\* The elements of a sequence are a set.
LEMMA RangeSeq ==
  ASSUME NEW S, NEW s \in Seq(S)
  PROVE  /\ Len(s) \in Nat /\ DOMAIN s = 1 .. Len(s)
         /\ Range(s) = { s[i] : i \in 1 .. Len(s) }
         /\ Range(s) \subseteq S
  BY DEF Range

\* What a sequence holds when an element is appended, and when two are joined.
LEMMA RangeAppend ==
  ASSUME NEW S, NEW s \in Seq(S), NEW x \in S
  PROVE  /\ Append(s, x) \in Seq(S) /\ Range(Append(s, x)) = Range(s) \union {x}
         /\ Len(Append(s, x)) = Len(s) + 1
         /\ Append(s, x)[Len(s) + 1] = x
         /\ \A i \in 1 .. Len(s) : Append(s, x)[i] = s[i]
<1>1. /\ Append(s, x) \in Seq(S) /\ Len(Append(s, x)) = Len(s) + 1
      /\ Append(s, x)[Len(s) + 1] = x
      /\ \A i \in 1 .. Len(s) : Append(s, x)[i] = s[i]
      /\ Len(s) \in Nat /\ DOMAIN Append(s, x) = 1 .. Len(s) + 1 /\ DOMAIN s = 1 .. Len(s)
  OBVIOUS
<1>2. Range(Append(s, x)) \subseteq Range(s) \union {x}
  BY <1>1 DEF Range
<1>3. x \in Range(Append(s, x))
  <2>1. Len(s) + 1 \in DOMAIN Append(s, x)
    BY <1>1
  <2> QED BY <1>1, <2>1 DEF Range
<1>4. Range(s) \subseteq Range(Append(s, x))
  <2>1. ASSUME NEW i \in 1 .. Len(s) PROVE s[i] \in Range(Append(s, x))
    <3>1. i \in DOMAIN Append(s, x) /\ Append(s, x)[i] = s[i]
      BY <1>1
    <3> HIDE <1>1
    <3> QED BY <3>1 DEF Range
  <2> QED BY <1>1, <2>1 DEF Range
<1> QED BY <1>1, <1>2, <1>3, <1>4

\* What two sequences hold together.
LEMMA RangeConcat ==
  ASSUME NEW S, NEW s \in Seq(S), NEW t \in Seq(S)
  PROVE  s \o t \in Seq(S) /\ Range(s \o t) = Range(s) \union Range(t)
<1>1. /\ s \o t \in Seq(S) /\ Len(s \o t) = Len(s) + Len(t)
      /\ \A i \in 1 .. Len(s) + Len(t) :
            (s \o t)[i] = IF i <= Len(s) THEN s[i] ELSE t[i - Len(s)]
      /\ Len(s) \in Nat /\ Len(t) \in Nat
      /\ DOMAIN (s \o t) = 1 .. Len(s) + Len(t) /\ DOMAIN s = 1 .. Len(s) /\ DOMAIN t = 1 .. Len(t)
  BY ConcatProperties
<1>2. ASSUME NEW i \in 1 .. Len(s) + Len(t) PROVE (s \o t)[i] \in Range(s) \union Range(t)
  <2>1. CASE i <= Len(s)
    <3>1. i \in DOMAIN s /\ (s \o t)[i] = s[i]
      BY <1>1, <2>1
    <3> QED BY <3>1 DEF Range
  <2>2. CASE ~(i <= Len(s))
    <3>1. i - Len(s) \in DOMAIN t /\ (s \o t)[i] = t[i - Len(s)]
      BY <1>1, <2>2
    <3> QED BY <3>1 DEF Range
  <2> QED BY <2>1, <2>2
<1>3. ASSUME NEW i \in 1 .. Len(s) PROVE s[i] \in Range(s \o t)
  <2>1. i \in DOMAIN (s \o t) /\ (s \o t)[i] = s[i]
    BY <1>1
  <2> QED BY <2>1 DEF Range
<1>4. ASSUME NEW i \in 1 .. Len(t) PROVE t[i] \in Range(s \o t)
  <2>1. i + Len(s) \in DOMAIN (s \o t) /\ (s \o t)[i + Len(s)] = t[i]
    <3>1. i + Len(s) \in 1 .. Len(s) + Len(t) /\ ~(i + Len(s) <= Len(s)) /\ (i + Len(s)) - Len(s) = i
      BY <1>1
    <3> QED BY <1>1, <3>1
  <2> QED BY <2>1 DEF Range
<1>5. Range(s \o t) \subseteq Range(s) \union Range(t)
  BY <1>1, <1>2 DEF Range
<1>6. Range(s) \subseteq Range(s \o t) /\ Range(t) \subseteq Range(s \o t)
  BY <1>1, <1>3, <1>4 DEF Range
<1> QED BY <1>1, <1>5, <1>6

\* The offsets of a text begin at 0 and grow with every character by its width.
LEMMA OffsetsGrow ==
  ASSUME NEW text \in Seq(Char)
  PROVE  LET at == runeOffsets(text)
         IN /\ at \in [0 .. Len(text) -> Nat] /\ at[0] = 0
            /\ \A i \in 1 .. Len(text) : at[i] = at[i - 1] + Width[text[i]]
            /\ \A i, j \in 0 .. Len(text) : i < j => at[i] < at[j]
<1> DEFINE n == Len(text)
           Is(f) == f = [i \in 0 .. n |-> IF i = 0 THEN 0 ELSE f[i - 1] + Width[text[i]]]
           w == [i \in 1 .. n |-> Width[text[i]]]
<1>1. n \in Nat /\ w \in [1 .. n -> Nat \ {0}]
  BY DictionaryAssumption
<1>2. \E f : Is(f)
  <2> HIDE DEF n
  <2> DEFINE step == [p \in Nat \X (1 .. n) |-> p[1] + w[p[2]]]
  <2>1. \A x \in Nat : \A i \in 1 .. n : step[<<x, i>>] = x + w[i] /\ x + w[i] \in Nat
    BY <1>1
  <2> HIDE DEF step
  <2>a. From0(n, Nat, 0, step) # {}
    <3>1. \A x \in Nat : \A i \in 1 .. n : step[<<x, i>>] \in Nat
      BY <2>1
    <3> QED BY <1>1, <3>1, RecursionFrom0, Zenon
  <2>2. PICK f : f \in [0 .. n -> Nat] /\ f[0] = 0 /\ \A i \in 1 .. n : f[i] = step[<<f[i - 1], i>>]
    BY <2>a DEF From0
  <2>3. ASSUME NEW i \in 0 .. n PROVE f[i] = IF i = 0 THEN 0 ELSE f[i - 1] + Width[text[i]]
    <3>1. CASE i # 0
      <4>1. i \in 1 .. n /\ i - 1 \in 0 .. n
        BY <1>1, <3>1
      <4> QED BY <2>1, <2>2, <3>1, <4>1
    <3> QED BY <2>2, <3>1
  <2>4. f = [i \in 0 .. n |-> f[i]]
    BY <2>2
  <2>5. Is(f)
    BY <2>3, <2>4
  <2> QED BY <2>5
<1> DEFINE at == runeOffsets(text)
<1>3. Is(at)
  BY <1>2 DEF runeOffsets
<1> HIDE DEF at, n
<1>4. at[0] = 0 /\ \A i \in 1 .. n : at[i] = at[i - 1] + w[i]
  BY <1>1, <1>3
<1>5. \A i \in 0 .. n : at[i] \in Nat
  <2> DEFINE T == { i \in Nat : i <= n => at[i] \in Nat }
  <2>1. 0 \in T
    BY <1>4
  <2>2. ASSUME NEW i \in Nat, i \in T PROVE i + 1 \in T
    <3> SUFFICES ASSUME i + 1 <= n PROVE at[i + 1] \in Nat
      OBVIOUS
    <3>1. i + 1 \in 1 .. n /\ (i + 1) - 1 = i /\ i <= n
      BY <1>1
    <3>2. at[i + 1] = at[i] + w[i + 1] /\ w[i + 1] \in Nat /\ at[i] \in Nat
      BY <1>1, <1>4, <2>2, <3>1
    <3> QED BY <3>2
  <2>3. Nat \subseteq T
    <3> HIDE DEF T
    <3> QED BY <2>1, <2>2, NatSets
  <2> QED BY <2>3
<1>6. at \in [0 .. n -> Nat]
  BY <1>3, <1>5
<1>7. ASSUME NEW i \in 0 .. n PROVE \A j \in 0 .. n : i < j => at[i] < at[j]
  <2> DEFINE T == { j \in Nat : i < j /\ j <= n => at[i] < at[j] }
  <2>1. 0 \in T
    OBVIOUS
  <2>2. ASSUME NEW j \in Nat, j \in T PROVE j + 1 \in T
    <3> SUFFICES ASSUME i < j + 1, j + 1 <= n PROVE at[i] < at[j + 1]
      OBVIOUS
    <3>1. j + 1 \in 1 .. n /\ (j + 1) - 1 = j /\ j \in 0 .. n
      BY <1>1
    <3>2. at[j + 1] = at[j] + w[j + 1] /\ w[j + 1] \in Nat \ {0} /\ at[j] \in Nat /\ at[i] \in Nat
      BY <1>1, <1>4, <1>5, <3>1
    <3>3. CASE i = j
      BY <3>2, <3>3
    <3>4. CASE i < j
      BY <2>2, <3>1, <3>2, <3>4
    <3> QED BY <3>3, <3>4
  <2>3. Nat \subseteq T
    <3> HIDE DEF T
    <3> QED BY <2>1, <2>2, NatSets
  <2> QED BY <1>1, <2>3
<1>8. at[0] = 0 /\ \A i \in 1 .. n : at[i] = at[i - 1] + Width[text[i]]
  BY <1>4
<1> QED BY <1>6, <1>7, <1>8 DEF at, n

\* Kept takes the elements that are in the set, and no other.
LEMMA KeptElements ==
  ASSUME NEW S, NEW s \in Seq(S), NEW set
  PROVE  Kept(s, set) \in Seq(S) /\ Range(Kept(s, set)) = Range(s) \cap set
<1> DEFINE n == Len(s)
           Is(f) == f = [i \in 0 .. n |-> IF i = 0 THEN << >>
                           ELSE IF s[i] \in set THEN Append(f[i - 1], s[i]) ELSE f[i - 1]]
           step == [p \in Seq(S) \X (1 .. n) |->
                      IF s[p[2]] \in set THEN Append(p[1], s[p[2]]) ELSE p[1]]
<1>1. n \in Nat /\ DOMAIN s = 1 .. n /\ \A i \in 1 .. n : s[i] \in S
  OBVIOUS
<1> HIDE DEF n
<1>2. ASSUME NEW t \in Seq(S), NEW i \in 1 .. n
      PROVE  /\ step[<<t, i>>] = IF s[i] \in set THEN Append(t, s[i]) ELSE t
             /\ step[<<t, i>>] \in Seq(S)
  <2>1. <<t, i>> \in Seq(S) \X (1 .. n)
    OBVIOUS
  <2>2. step[<<t, i>>] = IF s[i] \in set THEN Append(t, s[i]) ELSE t
    BY <2>1
  <2>3. s[i] \in S
    BY <1>1
  <2> HIDE DEF step
  <2> QED BY <2>2, <2>3
<1> HIDE DEF step
<1>a. From0(n, Seq(S), << >>, step) # {}
  <2>1. \A t \in Seq(S) : \A i \in 1 .. n : step[<<t, i>>] \in Seq(S)
    BY <1>2
  <2>2. << >> \in Seq(S)
    OBVIOUS
  <2> QED BY <1>1, <2>1, <2>2, RecursionFrom0, Zenon
<1>3. PICK f : /\ f \in [0 .. n -> Seq(S)] /\ f[0] = << >>
               /\ \A i \in 1 .. n : f[i] = step[<<f[i - 1], i>>]
  BY <1>a DEF From0
<1>4. ASSUME NEW i \in 0 .. n
      PROVE  f[i] = IF i = 0 THEN << >>
                    ELSE IF s[i] \in set THEN Append(f[i - 1], s[i]) ELSE f[i - 1]
  <2>1. CASE i # 0
    <3>1. i \in 1 .. n /\ i - 1 \in 0 .. n
      BY <1>1, <2>1
    <3> QED BY <1>2, <1>3, <2>1, <3>1
  <2> QED BY <1>3, <2>1
<1>5. Is(f)
  <2>1. f = [i \in 0 .. n |-> f[i]]
    BY <1>3
  <2> QED BY <1>4, <2>1
<1> DEFINE k == CHOOSE g : Is(g)
<1>6. Is(k) /\ Kept(s, set) = k[n]
  <2>1. Kept(s, set) = k[n]
    BY DEF Kept, n
  <2> QED BY <1>5, <2>1
<1> HIDE DEF k
<1> DEFINE T == { i \in Nat : i <= n =>
                    k[i] \in Seq(S) /\ Range(k[i]) = { s[j] : j \in 1 .. i } \cap set }
<1>7. 0 \in T
  <2>1. k[0] = << >>
    BY <1>1, <1>6
  <2>2. k[0] \in Seq(S) /\ Range(k[0]) = {} /\ { s[j] : j \in 1 .. 0 } = {}
    BY <2>1 DEF Range
  <2> QED BY <2>2
<1>8. ASSUME NEW i \in Nat, i \in T PROVE i + 1 \in T
  <2> SUFFICES ASSUME i + 1 <= n
               PROVE  /\ k[i + 1] \in Seq(S)
                      /\ Range(k[i + 1]) = { s[j] : j \in 1 .. i + 1 } \cap set
    OBVIOUS
  <2>1. k[i] \in Seq(S) /\ Range(k[i]) = { s[j] : j \in 1 .. i } \cap set
    <3>1. i <= n
      BY <1>1
    <3> QED BY <1>8, <3>1
  <2>2. i + 1 \in 0 .. n /\ i + 1 # 0 /\ (i + 1) - 1 = i /\ i + 1 \in 1 .. n
    BY <1>1
  <2>3. k[i + 1] = IF s[i + 1] \in set THEN Append(k[i], s[i + 1]) ELSE k[i]
    BY <1>6, <2>2
  <2>4. { s[j] : j \in 1 .. i + 1 } = { s[j] : j \in 1 .. i } \union {s[i + 1]}
    <3>1. 1 .. i + 1 = (1 .. i) \union {i + 1}
      OBVIOUS
    <3> QED BY <3>1
  <2>5. s[i + 1] \in S
    BY <1>1, <2>2
  <2>6. CASE s[i + 1] \in set
    <3>1. k[i + 1] = Append(k[i], s[i + 1])
      BY <2>3, <2>6
    <3>2. k[i + 1] \in Seq(S) /\ Range(k[i + 1]) = Range(k[i]) \union {s[i + 1]}
      BY <2>1, <2>5, <3>1, RangeAppend
    <3> QED BY <2>1, <2>4, <2>6, <3>2
  <2>7. CASE s[i + 1] \notin set
    BY <2>1, <2>3, <2>4, <2>7
  <2> QED BY <2>6, <2>7
<1>9. n \in T
  <2> HIDE DEF T
  <2> QED BY <1>1, <1>7, <1>8, NatSets
<1>10. Range(s) = { s[j] : j \in 1 .. n }
  BY <1>1 DEF Range
<1> QED BY <1>1, <1>6, <1>9, <1>10

-----------------------------------------------------------------------------
\* The order of the spans.

\* Places from 1 to n, one for each element, in the order B.
Ranks(n, B, place) ==
  /\ place \in [1 .. n -> 1 .. n]
  /\ \A i, j \in 1 .. n : <<i, j>> \in B => place[i] < place[j]
  /\ \A k \in 1 .. n : \E i \in 1 .. n : place[i] = k

\* Counting, for every element of a finite set, those before it in a strict total
\* order numbers the elements from 1 in that order.
LEMMA Ranking ==
  ASSUME NEW n \in Nat, NEW B,
         \A i \in 1 .. n : <<i, i>> \notin B,
         \A i, j, k \in 1 .. n : <<i, j>> \in B /\ <<j, k>> \in B => <<i, k>> \in B,
         \A i, j \in 1 .. n : i # j => <<i, j>> \in B \/ <<j, i>> \in B,
         NEW place,
         place = [i \in 1 .. n |-> 1 + Cardinality({ j \in 1 .. n : <<j, i>> \in B })]
  PROVE  Ranks(n, B, place)
<1> DEFINE D == 1 .. n
           Below(i) == { j \in D : <<j, i>> \in B }
<1>1. IsFiniteSet(D) /\ Cardinality(D) = n
  <2>1. 1 \in Int /\ n \in Int
    OBVIOUS
  <2>2. IsFiniteSet(1 .. n) /\ Cardinality(1 .. n) = IF 1 > n THEN 0 ELSE n - 1 + 1
    BY <2>1, FS_Interval
  <2> QED BY <2>2
<1>2. ASSUME NEW i \in D
      PROVE  IsFiniteSet(Below(i)) /\ Cardinality(Below(i)) \in Nat /\ Cardinality(Below(i)) < n
  <2>1. IsFiniteSet(D \ {i}) /\ Cardinality(D \ {i}) = n - 1
    BY <1>1, FS_RemoveElement
  <2>2. Below(i) \in SUBSET (D \ {i})
    OBVIOUS
  <2> HIDE DEF Below, D
  <2>3. IsFiniteSet(Below(i)) /\ Cardinality(Below(i)) <= n - 1
    BY <2>1, <2>2, FS_Subset
  <2>4. Cardinality(Below(i)) \in Nat
    BY <2>3, FS_CardinalityType
  <2> QED BY <2>3, <2>4
<1>3. ASSUME NEW i \in D, NEW j \in D, <<i, j>> \in B
      PROVE  Cardinality(Below(i)) < Cardinality(Below(j))
  <2>1. Below(i) \in SUBSET Below(j) /\ i \in Below(j) /\ i \notin Below(i)
    BY <1>3
  <2> HIDE DEF Below
  <2>2. /\ Cardinality(Below(i)) <= Cardinality(Below(j))
        /\ Cardinality(Below(i)) = Cardinality(Below(j)) => Below(i) = Below(j)
    BY <1>2, <2>1, FS_Subset
  <2>3. Cardinality(Below(i)) \in Nat /\ Cardinality(Below(j)) \in Nat
    BY <1>2
  <2> QED BY <2>1, <2>2, <2>3
<1>4. \A i \in D : place[i] = 1 + Cardinality(Below(i))
  OBVIOUS
<1>5. place \in [D -> D]
  <2>1. \A i \in D : place[i] \in D
    <3> SUFFICES ASSUME NEW i \in D PROVE place[i] \in D
      OBVIOUS
    <3>1. Cardinality(Below(i)) \in Nat /\ Cardinality(Below(i)) < n
      BY <1>2
    <3>2. place[i] = 1 + Cardinality(Below(i))
      BY <1>4
    <3> HIDE DEF Below
    <3> QED BY <3>1, <3>2
  <2>2. place = [i \in D |-> place[i]]
    OBVIOUS
  <2> QED BY <2>1, <2>2
<1>6. \A i, j \in D : <<i, j>> \in B => place[i] < place[j]
  <2> SUFFICES ASSUME NEW i \in D, NEW j \in D, <<i, j>> \in B PROVE place[i] < place[j]
    OBVIOUS
  <2>1. place[i] = 1 + Cardinality(Below(i)) /\ place[j] = 1 + Cardinality(Below(j))
    BY <1>4
  <2>2. /\ Cardinality(Below(i)) \in Nat /\ Cardinality(Below(j)) \in Nat
        /\ Cardinality(Below(i)) < Cardinality(Below(j))
    BY <1>2, <1>3
  <2> HIDE DEF Below, D
  <2> QED BY <2>1, <2>2
<1>7. place \in Injection(D, D)
  <2>1. ASSUME NEW i \in D, NEW j \in D, place[i] = place[j] PROVE i = j
    <3>1. place[i] \in Nat
      BY <1>5
    <3>2. ~(place[i] < place[j]) /\ ~(place[j] < place[i])
      BY <2>1, <3>1
    <3>3. <<i, j>> \notin B /\ <<j, i>> \notin B
      BY <1>6, <3>2
    <3> QED BY <3>3
  <2>2. place \in [D -> D]
    BY <1>5
  <2> HIDE DEF D
  <2> QED BY <2>1, <2>2, Fun_IsInj
<1>8. place \in Surjection(D, D)
  <2> HIDE DEF D
  <2> QED BY <1>1, <1>7, FS_Injection
<1>9. \A k \in D : \E i \in D : place[i] = k
  BY <1>8, Zenon DEF Surjection
<1> QED BY <1>5, <1>6, <1>9 DEF Ranks

\* sortSpans orders the spans, and neither loses one nor adds one.
LEMMA SortedSpans ==
  ASSUME NEW S, \A s \in S : s.start \in Int /\ s.end \in Int, NEW ss \in Seq(S)
  PROVE  /\ sortSpans(ss) \in Seq(S)
         /\ Range(sortSpans(ss)) = Range(ss)
         /\ \A k, l \in DOMAIN sortSpans(ss) :
               k < l => sortSpans(ss)[k].start <= sortSpans(ss)[l].start
<1> DEFINE n == Len(ss)
           before(i, j) == \/ ss[i].start < ss[j].start
                           \/ ss[i].start = ss[j].start /\ ss[i].end > ss[j].end
                           \/ ss[i].start = ss[j].start /\ ss[i].end = ss[j].end /\ i < j
           B == { p \in (1 .. n) \X (1 .. n) : before(p[1], p[2]) }
           place == [i \in 1 .. n |-> 1 + Cardinality({ j \in 1 .. n : before(j, i) })]
           from(k) == CHOOSE i \in 1 .. n : place[i] = k
           sorted == [k \in 1 .. n |-> ss[from(k)]]
<1>1. n \in Nat /\ DOMAIN ss = 1 .. n /\ \A i \in 1 .. n : ss[i] \in S
  OBVIOUS
<1>2. \A i \in 1 .. n : ss[i].start \in Int /\ ss[i].end \in Int
  BY <1>1
<1>3. sortSpans(ss) = sorted
  BY <1>1 DEF sortSpans
<1> HIDE DEF n
<1>4. \A i, j \in 1 .. n : <<i, j>> \in B <=> before(i, j)
  <2> HIDE DEF before
  <2> QED OBVIOUS
<1>5. \A i \in 1 .. n : ~before(i, i)
  BY <1>1, <1>2
<1>6. \A i, j, k \in 1 .. n : before(i, j) /\ before(j, k) => before(i, k)
  BY <1>1, <1>2
<1>7. \A i, j \in 1 .. n : i # j => before(i, j) \/ before(j, i)
  BY <1>1, <1>2
<1>8. \A i, j \in 1 .. n : before(i, j) => ss[i].start <= ss[j].start
  BY <1>1, <1>2
<1> HIDE DEF before, B
<1>9. place = [i \in 1 .. n |-> 1 + Cardinality({ j \in 1 .. n : <<j, i>> \in B })]
  <2>1. ASSUME NEW i \in 1 .. n
        PROVE  { j \in 1 .. n : before(j, i) } = { j \in 1 .. n : <<j, i>> \in B }
    BY <1>4
  <2> QED BY <2>1
<1> HIDE DEF place
<1>10. /\ place \in [1 .. n -> 1 .. n]
       /\ \A i, j \in 1 .. n : <<i, j>> \in B => place[i] < place[j]
       /\ \A k \in 1 .. n : \E i \in 1 .. n : place[i] = k
  <2>1. /\ \A i \in 1 .. n : <<i, i>> \notin B
        /\ \A i, j, k \in 1 .. n : <<i, j>> \in B /\ <<j, k>> \in B => <<i, k>> \in B
        /\ \A i, j \in 1 .. n : i # j => <<i, j>> \in B \/ <<j, i>> \in B
    BY <1>4, <1>5, <1>6, <1>7
  <2>2. Ranks(n, B, place)
    BY <1>1, <1>9, <2>1, Ranking
  <2> QED BY <2>2 DEF Ranks
<1>11. \A k \in 1 .. n : from(k) \in 1 .. n /\ place[from(k)] = k
  BY <1>10
<1>12. ASSUME NEW i \in 1 .. n PROVE place[i] \in 1 .. n /\ from(place[i]) = i
  <2>1. place[i] \in 1 .. n
    BY <1>10
  <2>2. from(place[i]) \in 1 .. n /\ place[from(place[i])] = place[i]
    <3> HIDE DEF from
    <3> QED BY <1>11, <2>1
  <2> DEFINE j == from(place[i])
  <2>3. j \in 1 .. n /\ place[j] = place[i]
    BY <2>2
  <2> HIDE DEF j
  <2>4. j = i
    <3>1. SUFFICES ASSUME j # i PROVE FALSE
      OBVIOUS
    <3>2. place[j] < place[i] \/ place[i] < place[j]
      BY <1>4, <1>7, <1>10, <2>3, <3>1
    <3> QED BY <2>1, <2>3, <3>2
  <2> QED BY <2>1, <2>4 DEF j
<1> HIDE DEF from
<1>13. sorted \in Seq(S) /\ DOMAIN sorted = 1 .. n /\ \A k \in 1 .. n : sorted[k] = ss[from(k)]
  <2>1. \A k \in 1 .. n : ss[from(k)] \in S
    BY <1>1, <1>11
  <2> QED BY <1>1, <2>1
<1>14. Range(sorted) = Range(ss)
  <2> HIDE DEF sorted
  <2>1. ASSUME NEW k \in 1 .. n PROVE sorted[k] \in Range(ss)
    BY <1>1, <1>11, <1>13 DEF Range
  <2>2. ASSUME NEW i \in 1 .. n PROVE ss[i] \in Range(sorted)
    <3>1. place[i] \in 1 .. n /\ sorted[place[i]] = ss[i]
      BY <1>12, <1>13
    <3> QED BY <1>13, <3>1 DEF Range
  <2> QED BY <1>1, <1>13, <2>1, <2>2 DEF Range
<1>15. ASSUME NEW k \in 1 .. n, NEW l \in 1 .. n, k < l
       PROVE  sorted[k].start <= sorted[l].start
  <2> HIDE DEF sorted
  <2>1. /\ from(k) \in 1 .. n /\ place[from(k)] = k
        /\ from(l) \in 1 .. n /\ place[from(l)] = l
    BY <1>11
  <2>2. from(k) # from(l) /\ ~(l < k)
    BY <1>15, <2>1
  <2>3. ~before(from(l), from(k))
    BY <1>4, <1>10, <2>1, <2>2
  <2>4. before(from(k), from(l))
    BY <1>7, <2>1, <2>2, <2>3
  <2> QED BY <1>8, <1>13, <2>1, <2>4
<1> HIDE DEF sorted
<1> QED BY <1>3, <1>13, <1>14, <1>15

-----------------------------------------------------------------------------
\* The index of the trusted spans.

\* The larger of two numbers.
LEMMA MaxOfTwo ==
  ASSUME NEW a \in Nat, NEW b \in Nat
  PROVE  Max({a, b}) \in {a, b} /\ a <= Max({a, b}) /\ b <= Max({a, b})
<1>1. a + b \in Nat /\ {a, b} \in SUBSET (0 .. a + b) /\ {a, b} # {}
  OBVIOUS
<1> QED BY <1>1, MaxOf

\* The i-th entry of maxEnd is the furthest end of the first i spans.
LEMMA MaxEndIs ==
  ASSUME NEW S, \A s \in S : s.end \in Nat, NEW idx \in Seq(S), idx # << >>
  PROVE  \A i \in 1 .. Len(idx) :
           /\ maxEnd(idx)[i] \in Nat
           /\ \A j \in 1 .. i : idx[j].end <= maxEnd(idx)[i]
           /\ \E j \in 1 .. i : idx[j].end = maxEnd(idx)[i]
<1> DEFINE n == Len(idx)
           Is(f) == f = [i \in 1 .. n |-> IF i = 1 THEN idx[1].end
                                          ELSE Max({f[i - 1], idx[i].end})]
           step == [p \in Nat \X (1 .. n) |-> Max({p[1], idx[p[2]].end})]
<1>1. n \in Nat \ {0} /\ DOMAIN idx = 1 .. n /\ \A i \in 1 .. n : idx[i] \in S /\ idx[i].end \in Nat
  OBVIOUS
<1> HIDE DEF n
<1>2. ASSUME NEW x \in Nat, NEW i \in 1 .. n
      PROVE  step[<<x, i>>] = Max({x, idx[i].end}) /\ Max({x, idx[i].end}) \in Nat
  <2>1. <<x, i>> \in Nat \X (1 .. n)
    OBVIOUS
  <2>2. step[<<x, i>>] = Max({x, idx[i].end})
    BY <2>1
  <2>3. Max({x, idx[i].end}) \in {x, idx[i].end}
    BY <1>1, MaxOfTwo
  <2> QED BY <1>1, <2>2, <2>3
<1> HIDE DEF step
<1>3. From1(n, Nat, idx[1].end, step) # {}
  <2>1. ASSUME NEW x \in Nat, NEW i \in 2 .. n PROVE step[<<x, i>>] \in Nat
    <3>1. i \in 1 .. n
      BY <1>1
    <3> QED BY <1>2, <3>1
  <2>2. idx[1].end \in Nat
    BY <1>1
  <2> QED BY <1>1, <2>1, <2>2, RecursionFrom1, Zenon
<1>4. PICK f : /\ f \in [1 .. n -> Nat] /\ f[1] = idx[1].end
               /\ \A i \in 2 .. n : f[i] = step[<<f[i - 1], i>>]
  BY <1>3 DEF From1
<1>5. Is(f)
  <2>1. f = [i \in 1 .. n |-> f[i]]
    BY <1>4
  <2>2. ASSUME NEW i \in 1 .. n
        PROVE  f[i] = IF i = 1 THEN idx[1].end ELSE Max({f[i - 1], idx[i].end})
    <3>1. CASE i # 1
      <4>1. i \in 2 .. n /\ i - 1 \in 1 .. n
        BY <1>1, <3>1
      <4>2. f[i - 1] \in Nat /\ f[i] = step[<<f[i - 1], i>>]
        BY <1>4, <4>1
      <4> QED BY <1>2, <3>1, <4>2
    <3> QED BY <1>4, <3>1
  <2> QED BY <2>1, <2>2
<1> DEFINE m == maxEnd(idx)
<1>6. Is(m)
  <2>1. \E h : Is(h)
    BY <1>5
  <2> QED BY <1>1, <2>1 DEF maxEnd, n
<1> HIDE DEF m
<1> DEFINE Furthest(i) == /\ m[i] \in Nat
                          /\ \A j \in 1 .. i : idx[j].end <= m[i]
                          /\ \E j \in 1 .. i : idx[j].end = m[i]
           T == { i \in Nat : i + 1 <= n => Furthest(i + 1) }
<1>7. 0 \in T
  <2>1. m[1] = idx[1].end /\ m[1] \in Nat
    BY <1>1, <1>6
  <2>2. 0 + 1 = 1 /\ 1 .. 1 = {1}
    OBVIOUS
  <2>3. Furthest(1)
    BY <2>1, <2>2
  <2> HIDE DEF Furthest
  <2> QED BY <2>2, <2>3
<1>8. ASSUME NEW k \in Nat, k \in T PROVE k + 1 \in T
  <2> SUFFICES ASSUME (k + 1) + 1 <= n PROVE Furthest((k + 1) + 1)
    OBVIOUS
  <2> DEFINE i == k + 1
             e == idx[i + 1].end
  <2>1. k + 1 <= n
    BY <1>1
  <2>2. Furthest(i)
    BY <1>8, <2>1
  <2>3. i \in Nat /\ i >= 1 /\ i + 1 \in 1 .. n /\ i + 1 # 1 /\ (i + 1) - 1 = i
    BY <1>1
  <2> HIDE DEF i
  <2>4. m[i + 1] = Max({m[i], e}) /\ e \in Nat
    BY <1>1, <1>6, <2>3
  <2>5. m[i + 1] \in {m[i], e} /\ m[i] <= m[i + 1] /\ e <= m[i + 1] /\ m[i] \in Nat
    BY <2>2, <2>4, MaxOfTwo
  <2>6. ASSUME NEW j \in 1 .. i + 1 PROVE idx[j].end <= m[i + 1]
    <3>1. CASE j = i + 1
      BY <2>5, <3>1
    <3>2. CASE j # i + 1
      <4>1. j \in 1 .. i /\ j \in 1 .. n
        BY <1>1, <2>3, <3>2
      <4>2. idx[j].end <= m[i] /\ idx[j].end \in Nat
        BY <1>1, <2>2, <4>1
      <4> QED BY <2>4, <2>5, <4>2
    <3> QED BY <3>1, <3>2
  <2>7. \E j \in 1 .. i + 1 : idx[j].end = m[i + 1]
    <3>1. CASE m[i + 1] = e
      <4>1. i + 1 \in 1 .. i + 1
        BY <2>3
      <4> QED BY <3>1, <4>1
    <3>2. CASE m[i + 1] = m[i]
      <4>1. PICK j \in 1 .. i : idx[j].end = m[i]
        BY <2>2
      <4>2. j \in 1 .. i + 1
        BY <2>3
      <4> QED BY <3>2, <4>1, <4>2
    <3> QED BY <2>5, <3>1, <3>2
  <2>8. Furthest(i + 1)
    BY <2>4, <2>5, <2>6, <2>7
  <2> HIDE DEF Furthest
  <2> QED BY <2>8 DEF i
<1>9. Nat \subseteq T
  <2> HIDE DEF T
  <2> QED BY <1>7, <1>8, NatSets
<1> HIDE DEF Furthest
<1>10. ASSUME NEW i \in 1 .. n PROVE Furthest(i)
  <2>1. i - 1 \in Nat /\ (i - 1) + 1 = i /\ i <= n
    BY <1>1
  <2> QED BY <1>9, <2>1
<1> QED BY <1>10 DEF Furthest, m, n

\* Two stretches that are not empty share a byte where each begins before the other
\* ends.
LEMMA SharedByte ==
  ASSUME NEW s, NEW g, s.start \in Int, s.end \in Int, g.start \in Int, g.end \in Int,
         s.start < s.end, g.start < g.end
  PROVE  Bytes(s) \cap Bytes(g) # {} <=> s.start < g.end /\ g.start < s.end
<1>1. ASSUME s.start < g.end, g.start < s.end PROVE Bytes(s) \cap Bytes(g) # {}
  <2>1. CASE s.start <= g.start
    <3>1. g.start \in Bytes(s) /\ g.start \in Bytes(g)
      BY <1>1, <2>1 DEF Bytes
    <3> QED BY <3>1
  <2>2. CASE ~(s.start <= g.start)
    <3>1. s.start \in Bytes(s) /\ s.start \in Bytes(g)
      BY <1>1, <2>2 DEF Bytes
    <3> QED BY <3>1
  <2> QED BY <2>1, <2>2
<1>2. ASSUME NEW b \in Bytes(s) \cap Bytes(g) PROVE s.start < g.end /\ g.start < s.end
  BY DEF Bytes
<1> QED BY <1>1, <1>2

\* An index has the spans it was made from, by where they begin.
LEMMA IndexOf ==
  ASSUME NEW S, NEW ss \in Seq(S), NEW idx \in ByStart(ss)
  PROVE  /\ idx \in Seq(S) /\ Len(idx) = Len(ss) /\ Range(idx) = Range(ss)
         /\ \A i, j \in 1 .. Len(idx) : i < j => idx[i].start <= idx[j].start
<1> DEFINE n == Len(ss)
<1>1. n \in Nat /\ DOMAIN ss = 1 .. n /\ \A i \in 1 .. n : ss[i] \in S
  OBVIOUS
<1>2. PICK p \in Bijection(DOMAIN ss, DOMAIN ss) : idx = [i \in DOMAIN ss |-> ss[p[i]]]
  BY DEF ByStart
<1>3. \A i, j \in DOMAIN ss : i < j => idx[i].start <= idx[j].start
  BY DEF ByStart
<1> HIDE DEF n
<1>4. p \in Bijection(1 .. n, 1 .. n)
  BY <1>1, <1>2
<1>5. p \in [1 .. n -> 1 .. n] /\ \A k \in 1 .. n : \E i \in 1 .. n : p[i] = k
  BY <1>4, Zenon DEF Bijection, Injection, Surjection
<1>6. idx = [i \in 1 .. n |-> ss[p[i]]] /\ \A i \in 1 .. n : ss[p[i]] \in S
  BY <1>1, <1>2, <1>5
<1>7. idx \in Seq(S) /\ Len(idx) = n /\ DOMAIN idx = 1 .. n
  BY <1>1, <1>6
<1>8. Range(idx) = Range(ss)
  <2>1. ASSUME NEW k \in 1 .. n PROVE ss[k] \in Range(idx)
    <3>1. PICK i \in 1 .. n : p[i] = k
      BY <1>5
    <3>2. idx[i] = ss[k]
      BY <1>6, <3>1
    <3> QED BY <1>7, <3>2 DEF Range
  <2>2. ASSUME NEW i \in 1 .. n PROVE idx[i] \in Range(ss)
    <3>1. idx[i] = ss[p[i]] /\ p[i] \in 1 .. n
      BY <1>5, <1>6
    <3> QED BY <1>1, <3>1 DEF Range
  <2> QED BY <1>1, <1>7, <2>1, <2>2 DEF Range
<1> QED BY <1>1, <1>3, <1>7, <1>8 DEF n

\* The index answers as the comparison with every trusted span would.
LEMMA OverlapsIs ==
  ASSUME NEW S, \A s \in S : s.start \in Nat /\ s.end \in Nat /\ s.start < s.end,
         NEW ss \in Seq(S), NEW idx \in ByStart(ss),
         NEW g, g.start \in Nat, g.end \in Nat, g.start < g.end
  PROVE  overlaps(idx, g) <=> \E s \in Range(ss) : Bytes(s) \cap Bytes(g) # {}
<1> DEFINE n == Len(idx)
           beyond == { i \in 1 .. n : idx[i].start >= g.end }
           i == (IF beyond = {} THEN n + 1 ELSE Min(beyond)) - 1
<1>1. /\ idx \in Seq(S) /\ Range(idx) = Range(ss) /\ n \in Nat /\ DOMAIN idx = 1 .. n
      /\ \A j, k \in 1 .. n : j < k => idx[j].start <= idx[k].start
      /\ \A j \in 1 .. n : idx[j] \in S
  BY IndexOf
<1>2. overlaps(idx, g) <=> i > 0 /\ maxEnd(idx)[i] > g.start
  BY <1>1 DEF overlaps
<1>3. i \in 0 .. n /\ \A j \in 1 .. n : j <= i <=> idx[j].start < g.end
  <2>1. \A j \in 1 .. n : idx[j].start \in Nat
    BY <1>1
  <2>2. CASE beyond = {}
    BY <1>1, <2>1, <2>2
  <2>3. CASE beyond # {}
    <3>1. beyond \in SUBSET Nat
      OBVIOUS
    <3>2. Min(beyond) \in beyond /\ \A x \in beyond : Min(beyond) <= x
      <4> HIDE DEF beyond
      <4> QED BY <2>3, <3>1, MinOf
    <3> DEFINE b == Min(beyond)
    <3>3. b \in 1 .. n /\ idx[b].start >= g.end /\ i = b - 1
      BY <2>3, <3>2
    <3>4. \A j \in 1 .. n : idx[j].start >= g.end => b <= j
      BY <3>2
    <3> HIDE DEF b, beyond, i
    <3>5. i \in 0 .. n
      BY <1>1, <3>3
    <3>6. ASSUME NEW j \in 1 .. n PROVE j <= i <=> idx[j].start < g.end
      <4>1. CASE j < b
        BY <2>1, <3>3, <3>4, <4>1
      <4>2. CASE ~(j < b)
        <5>1. idx[b].start <= idx[j].start
          BY <1>1, <2>1, <3>3, <4>2
        <5> QED BY <2>1, <3>3, <4>2, <5>1
      <4> QED BY <4>1, <4>2
    <3> QED BY <3>5, <3>6
  <2> QED BY <2>2, <2>3
<1> HIDE DEF i, n
<1>4. \A j \in 1 .. n : /\ idx[j].start \in Nat /\ idx[j].end \in Nat /\ idx[j].start < idx[j].end
                        /\ Bytes(idx[j]) \cap Bytes(g) # {}
                             <=> idx[j].start < g.end /\ g.start < idx[j].end
  BY <1>1, SharedByte
<1>5. (\E s \in Range(ss) : Bytes(s) \cap Bytes(g) # {})
        <=> \E j \in 1 .. n : j <= i /\ g.start < idx[j].end
  BY <1>1, <1>3, <1>4 DEF Range
<1>6. CASE i = 0
  BY <1>2, <1>5, <1>6
<1>7. CASE i > 0
  <2>1. idx # << >> /\ i \in 1 .. n
    BY <1>1, <1>3, <1>7 DEF n
  <2>2. /\ maxEnd(idx)[i] \in Nat
        /\ \A j \in 1 .. i : idx[j].end <= maxEnd(idx)[i]
        /\ \E j \in 1 .. i : idx[j].end = maxEnd(idx)[i]
    BY <1>1, <2>1, MaxEndIs DEF n
  <2>3. ASSUME maxEnd(idx)[i] > g.start PROVE \E j \in 1 .. n : j <= i /\ g.start < idx[j].end
    <3>1. PICK j \in 1 .. i : idx[j].end = maxEnd(idx)[i]
      BY <2>2
    <3> QED BY <1>1, <2>1, <2>3, <3>1
  <2>4. ASSUME NEW j \in 1 .. n, j <= i, g.start < idx[j].end PROVE maxEnd(idx)[i] > g.start
    <3>1. idx[j].end <= maxEnd(idx)[i] /\ idx[j].end \in Nat
      BY <1>4, <2>2, <2>4
    <3> QED BY <2>2, <2>4, <3>1
  <2> QED BY <1>2, <1>5, <1>7, <2>3, <2>4
<1> QED BY <1>3, <1>6, <1>7

-----------------------------------------------------------------------------
\* A text in lower case.

\* The offsets of the text in lower case, and its length.
LowAt(text) == runeOffsets(Lower(text))
LowEnd(text) == LowAt(text)[Len(text)]

\* The lower case of a text: as many characters, at offsets of their own.
LEMMA LowerIs ==
  ASSUME NEW text \in Seq(Char)
  PROVE  /\ Lower(text) \in Seq(Char) /\ Len(Lower(text)) = Len(text)
         /\ \A i \in 1 .. Len(text) : Lower(text)[i] = ToLower[text[i]]
         /\ LowAt(text) \in [0 .. Len(text) -> Nat] /\ LowAt(text)[0] = 0
         /\ \A i \in 1 .. Len(text) : LowAt(text)[i] = LowAt(text)[i - 1] + Width[Lower(text)[i]]
         /\ \A i, j \in 0 .. Len(text) : i < j => LowAt(text)[i] < LowAt(text)[j]
         /\ Len(text) \in Nat /\ LowEnd(text) \in Nat /\ LowEnd(text) = LowAt(text)[Len(text)]
<1>1. /\ Lower(text) \in Seq(Char) /\ Len(Lower(text)) = Len(text)
      /\ \A i \in 1 .. Len(text) : Lower(text)[i] = ToLower[text[i]]
  <2>1. \A i \in 1 .. Len(text) : text[i] \in Char /\ ToLower[text[i]] \in Char
    BY DictionaryAssumption
  <2>2. Lower(text) = [i \in 1 .. Len(text) |-> ToLower[text[i]]] /\ Len(text) \in Nat
    BY DEF Lower
  <2> QED BY <2>1, <2>2
<1> DEFINE low == Lower(text)
<1> HIDE DEF low
<1>2. /\ runeOffsets(low) \in [0 .. Len(low) -> Nat] /\ runeOffsets(low)[0] = 0
      /\ \A i \in 1 .. Len(low) : runeOffsets(low)[i] = runeOffsets(low)[i - 1] + Width[low[i]]
      /\ \A i, j \in 0 .. Len(low) : i < j => runeOffsets(low)[i] < runeOffsets(low)[j]
  BY <1>1, OffsetsGrow DEF low
<1>3. Len(text) \in Nat
  OBVIOUS
<1> QED BY <1>1, <1>2, <1>3 DEF LowAt, LowEnd, low

\* Every byte belongs to one character.
LEMMA RuneOf ==
  ASSUME NEW text \in Seq(Char), NEW p \in 0 .. LowEnd(text) - 1
  PROVE  /\ \E i \in 1 .. Len(text) : LowAt(text)[i - 1] <= p /\ p < LowAt(text)[i]
         /\ \A i, j \in 1 .. Len(text) :
               (/\ LowAt(text)[i - 1] <= p /\ p < LowAt(text)[i]
                /\ LowAt(text)[j - 1] <= p /\ p < LowAt(text)[j]) => i = j
<1> DEFINE at == LowAt(text)
           n == Len(text)
           T == { i \in 0 .. n : p < at[i] }
<1>1. /\ n \in Nat /\ at \in [0 .. n -> Nat] /\ at[0] = 0
      /\ \A i, j \in 0 .. n : i < j => at[i] < at[j]
      /\ at[n] \in Nat /\ p \in 0 .. at[n] - 1
  <2>1. n \in Nat /\ p \in 0 .. at[n] - 1
    BY DEF LowEnd
  <2>2. /\ at \in [0 .. n -> Nat] /\ at[0] = 0
        /\ \A i, j \in 0 .. n : i < j => at[i] < at[j]
    BY LowerIs
  <2> HIDE DEF at, n
  <2> QED BY <2>1, <2>2
<1> HIDE DEF at, n
<1>2. n \in T /\ T \in SUBSET Nat
  BY <1>1
<1>3. PICK i \in T : \A j \in T : i <= j
  BY <1>2, Least
<1>4. i # 0 /\ i \in 1 .. n /\ i - 1 \in 0 .. n /\ i - 1 \notin T
  BY <1>1, <1>3
<1>5. at[i - 1] <= p /\ p < at[i]
  BY <1>1, <1>4
<1>6. ASSUME NEW j \in 1 .. n, NEW k \in 1 .. n, at[j - 1] <= p, p < at[j], at[k - 1] <= p, p < at[k]
      PROVE  ~(j < k)
  <2>1. SUFFICES ASSUME j < k PROVE FALSE
    OBVIOUS
  <2>2. j \in 0 .. n /\ k - 1 \in 0 .. n /\ (j = k - 1 \/ j < k - 1)
    BY <1>1, <2>1
  <2>3. at[j] <= at[k - 1] /\ at[j] \in Nat /\ at[k - 1] \in Nat
    <3> DEFINE l == k - 1
    <3>1. j \in 0 .. n /\ l \in 0 .. n /\ (j = l \/ j < l)
      BY <2>2
    <3> HIDE DEF l
    <3>2. at[j] \in Nat /\ at[l] \in Nat
      BY <1>1, <3>1
    <3>3. at[j] = at[l] \/ at[j] < at[l]
      BY <1>1, <3>1
    <3> QED BY <3>2, <3>3 DEF l
  <2> QED BY <1>1, <1>6, <2>3
<1>7. ASSUME NEW j \in 1 .. n, NEW k \in 1 .. n, at[j - 1] <= p, p < at[j], at[k - 1] <= p, p < at[k]
      PROVE  j = k
  <2>1. ~(j < k) /\ ~(k < j)
    BY <1>6, <1>7
  <2> QED BY <1>1, <2>1
<1> QED BY <1>4, <1>5, <1>7 DEF at, n

\* What foldForMatch makes of a text: the bytes of each character, and for each of them
\* the offset in the text of the character.
LEMMA FoldIs ==
  ASSUME NEW text \in Seq(Char)
  PROVE  LET f == foldForMatch(text)
         IN /\ f.bytes \in Seq(Char \X Nat) /\ Len(f.bytes) = LowEnd(text)
            /\ f.origOf \in [0 .. LowEnd(text) -> Nat]
            /\ f.origOf[LowEnd(text)] = runeOffsets(text)[Len(text)]
            /\ \A i \in 1 .. Len(text) : \A p \in LowAt(text)[i - 1] .. LowAt(text)[i] - 1 :
                  /\ p \in 0 .. LowEnd(text) - 1
                  /\ f.bytes[p + 1] = <<Lower(text)[i], p + 1 - LowAt(text)[i - 1]>>
                  /\ f.origOf[p] = runeOffsets(text)[i - 1]
<1> DEFINE low == [i \in DOMAIN text |-> ToLower[text[i]]]
           at == runeOffsets(low)
           n == at[Len(low)]
           rune(p) == CHOOSE i \in DOMAIN low : at[i - 1] <= p /\ p < at[i]
           bytes == [p \in 1 .. n |-> <<low[rune(p - 1)], p - at[rune(p - 1) - 1]>>]
           orig == [p \in 0 .. n |->
                      runeOffsets(text)[IF p = n THEN Len(text) ELSE rune(p) - 1]]
           len == Len(text)
<1>1. low = Lower(text) /\ at = LowAt(text) /\ len \in Nat /\ DOMAIN text = 1 .. len
  BY DEF Lower, LowAt
<1>2. foldForMatch(text) = [bytes |-> bytes, origOf |-> orig]
  BY DEF foldForMatch
<1> HIDE DEF low, at, len
<1>3. /\ low \in Seq(Char) /\ Len(low) = len /\ DOMAIN low = 1 .. len
      /\ \A i \in 1 .. len : low[i] \in Char
      /\ at \in [0 .. len -> Nat] /\ at[0] = 0
      /\ \A i, j \in 0 .. len : i < j => at[i] < at[j]
      /\ n = LowEnd(text) /\ n \in Nat
  <2>1. /\ low \in Seq(Char) /\ Len(low) = len
        /\ at \in [0 .. len -> Nat] /\ at[0] = 0
        /\ \A i, j \in 0 .. len : i < j => at[i] < at[j]
        /\ LowEnd(text) \in Nat /\ LowEnd(text) = at[len]
    BY <1>1, LowerIs DEF len, LowEnd
  <2> QED BY <2>1
<1>4. /\ runeOffsets(text) \in [0 .. len -> Nat]
      /\ \A i \in 0 .. len : runeOffsets(text)[i] \in Nat
  BY OffsetsGrow DEF len
<1> HIDE DEF n
<1>5. ASSUME NEW p \in 0 .. n - 1
      PROVE  rune(p) \in 1 .. len /\ at[rune(p) - 1] <= p /\ p < at[rune(p)]
  <2>1. \E i \in 1 .. len : at[i - 1] <= p /\ p < at[i]
    BY <1>1, <1>3, RuneOf DEF len
  <2> QED BY <1>3, <2>1
<1>6. ASSUME NEW p \in 0 .. n - 1, NEW i \in 1 .. len, at[i - 1] <= p, p < at[i]
      PROVE  rune(p) = i
  <2>1. \A j, k \in 1 .. len : (at[j - 1] <= p /\ p < at[j] /\ at[k - 1] <= p /\ p < at[k]) => j = k
    BY <1>1, <1>3, RuneOf DEF len
  <2> HIDE DEF rune
  <2> QED BY <1>5, <1>6, <2>1
<1> HIDE DEF rune
<1>7. bytes \in Seq(Char \X Nat) /\ Len(bytes) = n
  <2>1. ASSUME NEW p \in 1 .. n PROVE <<low[rune(p - 1)], p - at[rune(p - 1) - 1]>> \in Char \X Nat
    <3> DEFINE r == rune(p - 1)
    <3>1. p - 1 \in 0 .. n - 1
      BY <1>3
    <3>2. r \in 1 .. len /\ at[r - 1] <= p - 1
      BY <1>5, <3>1
    <3> HIDE DEF r
    <3>3. r - 1 \in 0 .. len /\ at[r - 1] \in Nat
      BY <1>1, <1>3, <3>2
    <3>4. low[r] \in Char /\ p - at[r - 1] \in Nat
      BY <1>3, <3>2, <3>3
    <3> QED BY <3>4 DEF r
  <2> QED BY <1>3, <2>1
<1>8. orig \in [0 .. n -> Nat]
  <2>1. ASSUME NEW p \in 0 .. n
        PROVE  runeOffsets(text)[IF p = n THEN Len(text) ELSE rune(p) - 1] \in Nat
    <3>1. CASE p = n
      BY <1>1, <1>4, <3>1 DEF len
    <3>2. CASE p # n
      <4>1. rune(p) \in 1 .. len
        BY <1>3, <1>5, <3>2
      <4>2. rune(p) - 1 \in 0 .. len
        BY <1>1, <4>1
      <4> QED BY <1>4, <3>2, <4>2
    <3> QED BY <3>1, <3>2
  <2> QED BY <2>1
<1>9. orig[n] = runeOffsets(text)[len]
  BY <1>3 DEF len
<1>10. ASSUME NEW i \in 1 .. len, NEW p \in at[i - 1] .. at[i] - 1
       PROVE  /\ p \in 0 .. n - 1
              /\ bytes[p + 1] = <<low[i], p + 1 - at[i - 1]>>
              /\ orig[p] = runeOffsets(text)[i - 1]
  <2>1. i - 1 \in 0 .. len /\ i \in 0 .. len /\ len \in 0 .. len /\ (i = len \/ i < len)
    BY <1>1
  <2>2. at[i - 1] \in Nat /\ at[i] \in Nat /\ at[i] <= at[len] /\ at[len] = n
    BY <1>3, <2>1 DEF n
  <2>3. p \in 0 .. n - 1 /\ at[i - 1] <= p /\ p < at[i]
    BY <1>3, <2>2
  <2>4. rune(p) = i
    BY <1>6, <2>3
  <2>5. p + 1 \in 1 .. n /\ (p + 1) - 1 = p /\ p \in 0 .. n /\ p # n
    BY <1>3, <2>3
  <2>6. bytes[p + 1] = <<low[rune(p)], p + 1 - at[rune(p) - 1]>>
    <3>1. \A q \in 1 .. n : bytes[q] = <<low[rune(q - 1)], q - at[rune(q - 1) - 1]>>
      OBVIOUS
    <3>2. PICK q \in 1 .. n : q = p + 1 /\ q - 1 = p
      BY <2>5
    <3> HIDE DEF bytes
    <3>3. bytes[q] = <<low[rune(q - 1)], q - at[rune(q - 1) - 1]>>
      BY <3>1
    <3>4. rune(q - 1) = rune(p)
      BY <3>2
    <3>5. bytes[p + 1] = <<low[rune(p)], q - at[rune(p) - 1]>>
      BY <3>2, <3>3, <3>4
    <3>6. at[rune(p) - 1] \in Nat /\ p \in Nat
      BY <2>2, <2>3, <2>4
    <3>7. q - at[rune(p) - 1] = p + 1 - at[rune(p) - 1]
      BY <3>2, <3>6
    <3> QED BY <3>5, <3>7
  <2>7. orig[p] = runeOffsets(text)[rune(p) - 1]
    BY <2>5
  <2> QED BY <2>3, <2>4, <2>6, <2>7
<1> HIDE DEF bytes, orig
<1>11. foldForMatch(text).bytes = bytes /\ foldForMatch(text).origOf = orig
  BY <1>2
<1> QED BY <1>1, <1>3, <1>7, <1>8, <1>9, <1>10, <1>11 DEF len

-----------------------------------------------------------------------------
\* Where a word stands.

\* The same characters take the same bytes wherever they stand.
LEMMA Shifted ==
  ASSUME NEW u \in Seq(Char), NEW v \in Seq(Char), NEW a \in Nat, NEW m \in 0 .. Len(v),
         a + m <= Len(u), \A k \in 1 .. m : u[a + k] = v[k]
  PROVE  \A k \in 0 .. m : runeOffsets(u)[a + k] = runeOffsets(u)[a] + runeOffsets(v)[k]
<1> DEFINE at == runeOffsets(u)
           av == runeOffsets(v)
           T == { k \in Nat : k <= m => at[a + k] = at[a] + av[k] }
<1>1. /\ at \in [0 .. Len(u) -> Nat] /\ \A i \in 1 .. Len(u) : at[i] = at[i - 1] + Width[u[i]]
      /\ av \in [0 .. Len(v) -> Nat] /\ av[0] = 0
      /\ \A i \in 1 .. Len(v) : av[i] = av[i - 1] + Width[v[i]]
  BY OffsetsGrow
<1>2. Len(u) \in Nat /\ Len(v) \in Nat /\ m \in Nat
  OBVIOUS
<1>3. \A i \in 1 .. Len(v) : Width[v[i]] \in Nat
  BY DictionaryAssumption
<1> HIDE DEF at, av
<1>4. 0 \in T
  <2>1. a \in 0 .. Len(u) /\ a + 0 = a
    BY <1>2
  <2>2. at[a] \in Nat
    BY <1>1, <2>1
  <2> QED BY <1>1, <2>1, <2>2
<1>5. ASSUME NEW k \in Nat, k \in T PROVE k + 1 \in T
  <2> SUFFICES ASSUME k + 1 <= m PROVE at[a + (k + 1)] = at[a] + av[k + 1]
    OBVIOUS
  <2>1. /\ k <= m /\ k + 1 \in 1 .. m /\ k + 1 \in 1 .. Len(v) /\ (k + 1) - 1 = k
        /\ k \in 0 .. Len(v) /\ a \in 0 .. Len(u)
        /\ a + (k + 1) \in 1 .. Len(u) /\ (a + (k + 1)) - 1 = a + k
    BY <1>2
  <2>2. at[a + k] = at[a] + av[k] /\ at[a] \in Nat /\ av[k] \in Nat
    BY <1>1, <1>5, <2>1
  <2>3. at[a + (k + 1)] = at[a + k] + Width[v[k + 1]]
    BY <1>1, <2>1
  <2>4. av[k + 1] = av[k] + Width[v[k + 1]] /\ Width[v[k + 1]] \in Nat
    BY <1>1, <1>3, <2>1
  <2> QED BY <2>2, <2>3, <2>4
<1>6. Nat \subseteq T
  <2> HIDE DEF T
  <2> QED BY <1>4, <1>5, NatSets
<1> QED BY <1>2, <1>6 DEF at, av

\* A word stands behind the first a characters of a text, whatever its case.
StandsAt(text, w, a) ==
  /\ a + Len(w) <= Len(text)
  /\ \A k \in 1 .. Len(w) : Lower(text)[a + k] = Lower(w)[k]

\* A word that stands in a text takes the bytes it takes by itself.
LEMMA WordEndsAt ==
  ASSUME NEW text \in Seq(Char), NEW w \in Seq(Char), NEW a \in Nat, NEW m \in 0 .. Len(w),
         a + m <= Len(text), \A k \in 1 .. m : Lower(text)[a + k] = Lower(w)[k]
  PROVE  \A k \in 0 .. m : LowAt(text)[a + k] = LowAt(text)[a] + LowAt(w)[k]
<1> DEFINE u == Lower(text)
           v == Lower(w)
<1>1. u \in Seq(Char) /\ Len(u) = Len(text) /\ v \in Seq(Char) /\ Len(v) = Len(w)
  BY LowerIs
<1> HIDE DEF u, v
<1>2. \A k \in 0 .. m : runeOffsets(u)[a + k] = runeOffsets(u)[a] + runeOffsets(v)[k]
  <2>1. \A k \in 1 .. m : u[a + k] = v[k]
    BY DEF u, v
  <2>2. m \in 0 .. Len(v) /\ a + m <= Len(u)
    BY <1>1
  <2> QED BY <1>1, <2>1, <2>2, Shifted
<1> QED BY <1>2 DEF LowAt, u, v

\* The bytes of a character.
LEMMA ByteOf ==
  ASSUME NEW text \in Seq(Char), NEW i \in 1 .. Len(text), NEW q \in Nat,
         LowAt(text)[i - 1] < q, q <= LowAt(text)[i]
  PROVE  foldForMatch(text).bytes[q] = <<Lower(text)[i], q - LowAt(text)[i - 1]>>
<1> DEFINE at == LowAt(text)
<1>1. at \in [0 .. Len(text) -> Nat] /\ i - 1 \in 0 .. Len(text) /\ i \in 0 .. Len(text)
  BY LowerIs
<1> HIDE DEF at
<1>2. at[i - 1] \in Nat /\ at[i] \in Nat /\ at[i - 1] < q /\ q <= at[i]
  BY <1>1 DEF at
<1>3. PICK p \in at[i - 1] .. at[i] - 1 : p + 1 = q /\ p + 1 - at[i - 1] = q - at[i - 1]
  <2>1. q - 1 \in at[i - 1] .. at[i] - 1 /\ (q - 1) + 1 = q
    BY <1>2
  <2> QED BY <1>2, <2>1
<1>4. foldForMatch(text).bytes[p + 1] = <<Lower(text)[i], p + 1 - at[i - 1]>>
  BY <1>3, FoldIs DEF at
<1> QED BY <1>3, <1>4 DEF at

\* The byte at which a character begins.
LEMMA ByteAt ==
  ASSUME NEW text \in Seq(Char), NEW i \in 1 .. Len(text)
  PROVE  LET f == foldForMatch(text)
         IN /\ f.bytes[LowAt(text)[i - 1] + 1] = <<Lower(text)[i], 1>>
            /\ f.origOf[LowAt(text)[i - 1]] = runeOffsets(text)[i - 1]
            /\ LowAt(text)[i - 1] < LowEnd(text)
<1> DEFINE at == LowAt(text)
<1>1. at \in [0 .. Len(text) -> Nat] /\ \A j, k \in 0 .. Len(text) : j < k => at[j] < at[k]
  BY LowerIs
<1>2. i - 1 \in 0 .. Len(text) /\ i \in 0 .. Len(text) /\ i - 1 < i
  OBVIOUS
<1>3. at[i - 1] \in Nat /\ at[i] \in Nat /\ at[i - 1] < at[i]
  BY <1>1, <1>2
<1>4. at[i - 1] \in at[i - 1] .. at[i] - 1 /\ at[i - 1] + 1 - at[i - 1] = 1
  BY <1>3
<1> DEFINE p == at[i - 1]
<1>5. p \in at[i - 1] .. at[i] - 1 /\ p + 1 - at[i - 1] = 1 /\ p \in Nat
  BY <1>3, <1>4
<1> HIDE DEF p, at
<1>6. /\ p \in 0 .. LowEnd(text) - 1
      /\ foldForMatch(text).bytes[p + 1] = <<Lower(text)[i], p + 1 - at[i - 1]>>
      /\ foldForMatch(text).origOf[p] = runeOffsets(text)[i - 1]
  BY <1>5, FoldIs DEF at
<1>7. LowEnd(text) \in Nat
  BY LowerIs
<1> QED BY <1>5, <1>6, <1>7 DEF p, at

\* Where a character begins, or the text ends, foldForMatch leads back to its offset.
LEMMA OrigAt ==
  ASSUME NEW text \in Seq(Char), NEW i \in 0 .. Len(text)
  PROVE  /\ foldForMatch(text).origOf[LowAt(text)[i]] = runeOffsets(text)[i]
         /\ LowAt(text)[i] \in 0 .. LowEnd(text)
<1>0. Len(text) \in Nat /\ LowEnd(text) \in Nat /\ LowAt(text) \in [0 .. Len(text) -> Nat]
  BY LowerIs
<1>1. CASE i = Len(text)
  BY <1>0, <1>1, FoldIs DEF LowEnd
<1>2. CASE i # Len(text)
  <2>1. i + 1 \in 1 .. Len(text) /\ (i + 1) - 1 = i
    BY <1>0, <1>2
  <2>2. /\ foldForMatch(text).origOf[LowAt(text)[(i + 1) - 1]] = runeOffsets(text)[(i + 1) - 1]
        /\ LowAt(text)[(i + 1) - 1] < LowEnd(text)
    BY <2>1, ByteAt
  <2>3. LowAt(text)[i] \in Nat
    BY <1>0
  <2> QED BY <1>0, <2>1, <2>2, <2>3
<1> QED BY <1>1, <1>2

\* A word that is found among the bytes stands in the text: a match never begins or ends
\* within a character.
LEMMA MatchIsPlace ==
  ASSUME NEW text \in Seq(Char), NEW w \in Seq(Char), LowEnd(w) > 0,
         NEW p \in 0 .. LowEnd(text), p + LowEnd(w) <= LowEnd(text),
         \A q \in 1 .. LowEnd(w) : foldForMatch(text).bytes[p + q] = foldForMatch(w).bytes[q]
  PROVE  \E a \in 0 .. Len(text) : StandsAt(text, w, a) /\ p = LowAt(text)[a]
<1> DEFINE tb == foldForMatch(text).bytes
           wb == foldForMatch(w).bytes
           at == LowAt(text)
           aw == LowAt(w)
           n == Len(text)
           m == Len(w)
           low == Lower(text)
           loww == Lower(w)
<1>1. /\ n \in Nat /\ m \in Nat
      /\ at \in [0 .. n -> Nat] /\ \A i, j \in 0 .. n : i < j => at[i] < at[j]
      /\ aw \in [0 .. m -> Nat] /\ aw[0] = 0 /\ \A i, j \in 0 .. m : i < j => aw[i] < aw[j]
      /\ LowEnd(text) = at[n] /\ LowEnd(w) = aw[m]
      /\ LowEnd(text) \in Nat /\ LowEnd(w) \in Nat
  <2>1. /\ n \in Nat /\ at \in [0 .. n -> Nat] /\ (\A i, j \in 0 .. n : i < j => at[i] < at[j])
        /\ LowEnd(text) = at[n] /\ LowEnd(text) \in Nat
    BY LowerIs
  <2>2. /\ m \in Nat /\ aw \in [0 .. m -> Nat] /\ aw[0] = 0
        /\ (\A i, j \in 0 .. m : i < j => aw[i] < aw[j])
        /\ LowEnd(w) = aw[m] /\ LowEnd(w) \in Nat
    BY LowerIs
  <2> QED BY <2>1, <2>2
<1>2. p \in Nat /\ p \in 0 .. LowEnd(text) - 1 /\ m >= 1
  <2>1. m # 0
    BY <1>1
  <2> QED BY <1>1, <2>1
<1>3. \A q \in 1 .. aw[m] : tb[p + q] = wb[q]
  BY <1>1
<1> HIDE DEF tb, wb, at, aw, n, m, low, loww
<1>4. PICK i \in 1 .. n : at[i - 1] <= p /\ p < at[i]
  BY <1>2, RuneOf DEF at, n
<1> DEFINE a == i - 1
<1>5. a \in 0 .. n /\ a \in Nat /\ a + 1 = i /\ at[a] \in Nat /\ at[i] \in Nat
  BY <1>1, <1>4
<1>6. p = at[a]
  <2>1. wb[1] = <<loww[1], 1>>
    <3>1. 1 \in 1 .. m /\ aw[1 - 1] + 1 = 1
      BY <1>1, <1>2
    <3>2. wb[aw[1 - 1] + 1] = <<loww[1], 1>>
      BY <3>1, ByteAt DEF wb, aw, m, loww
    <3> QED BY <3>1, <3>2
  <2>2. tb[p + 1] = <<low[i], p + 1 - at[i - 1]>>
    <3>1. p \in at[i - 1] .. at[i] - 1
      BY <1>2, <1>4, <1>5
    <3> QED BY <3>1, FoldIs DEF tb, at, low, n
  <2>3. 1 \in 1 .. aw[m]
    BY <1>1
  <2>4. tb[p + 1] = wb[1]
    BY <1>3, <2>3
  <2>5. p + 1 - at[a] = 1
    BY <2>1, <2>2, <2>4
  <2> QED BY <1>2, <1>5, <2>5
<1> DEFINE T == { k \in Nat : k <= m => /\ a + k <= n
                                        /\ \A j \in 1 .. k : low[a + j] = loww[j] }
<1>7. 0 \in T
  BY <1>1, <1>5
<1> HIDE DEF a
<1>8. ASSUME NEW k \in Nat, k \in T PROVE k + 1 \in T
  <2> SUFFICES ASSUME k + 1 <= m
               PROVE  a + (k + 1) <= n /\ \A j \in 1 .. k + 1 : low[a + j] = loww[j]
    OBVIOUS
  <2>1. k <= m /\ k \in 0 .. m /\ a + k <= n /\ \A j \in 1 .. k : low[a + j] = loww[j]
    BY <1>1, <1>8
  <2>2. at[a + k] = p + aw[k]
    <3>1. \A j \in 0 .. k : at[a + j] = at[a] + aw[j]
      BY <1>5, <2>1, WordEndsAt DEF at, aw, n, m, low, loww
    <3>2. k \in 0 .. k
      OBVIOUS
    <3> QED BY <1>6, <3>1, <3>2
  <2>3. aw[k] \in Nat /\ aw[k] < aw[m] /\ aw[m] \in Nat
    <3>1. k \in 0 .. m /\ m \in 0 .. m /\ k < m
      BY <1>1
    <3> QED BY <1>1, <3>1
  <2>4. a + k \in 0 .. n /\ at[a + k] < at[n] /\ at[n] \in Nat
    <3>1. a + k \in 0 .. n /\ at[n] \in Nat
      BY <1>1, <1>5, <2>1
    <3>2. p + aw[m] <= at[n]
      BY <1>1
    <3>3. p + aw[k] < p + aw[m]
      BY <1>2, <2>3
    <3> QED BY <1>2, <2>2, <2>3, <3>1, <3>2, <3>3
  <2>5. a + (k + 1) \in 1 .. n /\ (a + (k + 1)) - 1 = a + k /\ k + 1 \in 1 .. m /\ (k + 1) - 1 = k
    <3>1. a + k # n
      BY <2>4
    <3> QED BY <1>1, <1>5, <2>4, <3>1
  <2>6. tb[at[a + k] + 1] = <<low[a + (k + 1)], 1>>
    <3>1. tb[at[(a + (k + 1)) - 1] + 1] = <<low[a + (k + 1)], 1>>
      BY <2>5, ByteAt DEF tb, at, n, low
    <3> QED BY <2>5, <3>1
  <2>7. wb[aw[k] + 1] = <<loww[k + 1], 1>>
    <3>1. wb[aw[(k + 1) - 1] + 1] = <<loww[k + 1], 1>>
      BY <2>5, ByteAt DEF wb, aw, m, loww
    <3> QED BY <2>5, <3>1
  <2>8. tb[at[a + k] + 1] = wb[aw[k] + 1]
    <3>1. aw[k] + 1 \in 1 .. aw[m] /\ p + (aw[k] + 1) = at[a + k] + 1
      BY <1>2, <2>2, <2>3
    <3>2. tb[p + (aw[k] + 1)] = wb[aw[k] + 1]
      BY <1>3, <3>1
    <3> QED BY <3>1, <3>2
  <2>9. low[a + (k + 1)] = loww[k + 1]
    BY <2>6, <2>7, <2>8
  <2>10. ASSUME NEW j \in 1 .. k + 1 PROVE low[a + j] = loww[j]
    <3>1. j = k + 1 \/ j \in 1 .. k
      OBVIOUS
    <3> QED BY <2>1, <2>9, <3>1
  <2> QED BY <1>1, <2>5, <2>10
<1>9. m \in T
  <2> HIDE DEF T
  <2> QED BY <1>1, <1>7, <1>8, NatSets
<1>10. a + m <= n /\ \A j \in 1 .. m : low[a + j] = loww[j]
  BY <1>1, <1>9
<1>11. StandsAt(text, w, a)
  BY <1>10 DEF StandsAt, n, m, low, loww
<1> QED BY <1>5, <1>6, <1>11 DEF at, n

\* A word that stands in the text is found among the bytes.
LEMMA PlaceIsMatch ==
  ASSUME NEW text \in Seq(Char), NEW w \in Seq(Char), NEW a \in Nat, StandsAt(text, w, a)
  PROVE  /\ LowAt(text)[a] + LowEnd(w) = LowAt(text)[a + Len(w)]
         /\ \A q \in 1 .. LowEnd(w) :
              foldForMatch(text).bytes[LowAt(text)[a] + q] = foldForMatch(w).bytes[q]
<1> DEFINE tb == foldForMatch(text).bytes
           wb == foldForMatch(w).bytes
           at == LowAt(text)
           aw == LowAt(w)
           n == Len(text)
           m == Len(w)
           low == Lower(text)
           loww == Lower(w)
<1>1. /\ n \in Nat /\ m \in Nat
      /\ at \in [0 .. n -> Nat] /\ aw \in [0 .. m -> Nat]
      /\ LowEnd(w) = aw[m] /\ LowEnd(w) \in Nat
  BY LowerIs
<1>2. a + m <= n /\ \A k \in 1 .. m : low[a + k] = loww[k]
  BY DEF StandsAt
<1> HIDE DEF tb, wb, at, aw, n, m, low, loww
<1>3. \A k \in 0 .. m : at[a + k] = at[a] + aw[k]
  <2>1. m \in 0 .. m
    BY <1>1
  <2> QED BY <1>2, <2>1, WordEndsAt DEF at, aw, n, m, low, loww
<1>4. at[a] + aw[m] = at[a + m] /\ a \in 0 .. n /\ at[a] \in Nat
  BY <1>1, <1>2, <1>3
<1>5. ASSUME NEW q \in 1 .. aw[m] PROVE tb[at[a] + q] = wb[q]
  <2>1. q - 1 \in 0 .. LowEnd(w) - 1 /\ q \in Nat /\ (q - 1) + 1 = q
    BY <1>1
  <2>2. PICK k \in 1 .. m : aw[k - 1] <= q - 1 /\ q - 1 < aw[k]
    BY <2>1, RuneOf DEF aw, m
  <2>3. /\ k - 1 \in 0 .. m /\ k \in 0 .. m /\ a + k \in 1 .. n /\ (a + k) - 1 = a + (k - 1)
    BY <1>1, <1>2, <2>2
  <2>4. /\ aw[k - 1] \in Nat /\ aw[k] \in Nat
        /\ at[a + k] = at[a] + aw[k] /\ at[a + (k - 1)] = at[a] + aw[k - 1]
    BY <1>1, <1>3, <2>3
  <2>5. wb[q] = <<loww[k], q - aw[k - 1]>>
    <3>1. q \in Nat /\ aw[k - 1] < q /\ q <= aw[k]
      BY <2>1, <2>2, <2>4
    <3> QED BY <3>1, ByteOf DEF wb, aw, m, loww
  <2>6. tb[at[a] + q] = <<low[a + k], (at[a] + q) - at[a + (k - 1)]>>
    <3>a. aw[k - 1] < q /\ q <= aw[k] /\ q \in Nat
      BY <2>1, <2>2, <2>4
    <3>b. /\ at[a] + q \in Nat /\ at[a] + aw[k - 1] < at[a] + q /\ at[a] + q <= at[a] + aw[k]
      BY <1>4, <2>4, <3>a
    <3>0. at[(a + k) - 1] = at[a] + aw[k - 1]
      BY <2>3, <2>4
    <3>1. /\ at[a] + q \in Nat /\ at[(a + k) - 1] < at[a] + q /\ at[a] + q <= at[a + k]
      BY <2>4, <3>0, <3>b
    <3>2. tb[at[a] + q] = <<low[a + k], (at[a] + q) - at[(a + k) - 1]>>
      <4> DEFINE i == a + k
                 b == at[a] + q
      <4>1. i \in 1 .. n /\ b \in Nat /\ at[i - 1] < b /\ b <= at[i]
        BY <2>3, <3>1
      <4> HIDE DEF i, b
      <4>2. tb[b] = <<low[i], b - at[i - 1]>>
        BY <4>1, ByteOf DEF tb, at, n, low
      <4> QED BY <4>2 DEF i, b
    <3> QED BY <2>4, <3>0, <3>2
  <2>7. (at[a] + q) - at[a + (k - 1)] = q - aw[k - 1]
    BY <1>4, <2>1, <2>4
  <2> QED BY <1>2, <2>2, <2>5, <2>6, <2>7
<1> QED BY <1>1, <1>4, <1>5 DEF tb, wb, at, aw, n, m

-----------------------------------------------------------------------------
\* A search from match to match.

\* A search that goes from each match to where it ends, and what it collects on its way
\* from every place.
Walk(n, len, matches, here, f) ==
  f = [off \in 0 .. n |->
         LET rest == { p \in matches : p >= off }
         IN IF rest = {} THEN << >> ELSE here[Min(rest)] \o f[Min(rest) + len]]

Walks(n, len, matches, S, here) ==
  { f \in [0 .. n -> Seq(S)] : Walk(n, len, matches, here, f) }

\* The first match from a place on.
LEMMA NextMatch ==
  ASSUME NEW n \in Nat, NEW matches \in SUBSET (0 .. n), NEW off \in 0 .. n,
         { p \in matches : p >= off } # {}
  PROVE  LET first == Min({ p \in matches : p >= off })
         IN first \in matches /\ first \in off .. n
            /\ \A p \in matches : p >= off => first <= p
<1> DEFINE rest == { p \in matches : p >= off }
<1>1. rest \in SUBSET Nat /\ rest # {}
  <2>1. \A p \in matches : p \in 0 .. n /\ p \in Nat
    OBVIOUS
  <2>2. \A p \in rest : p \in Nat
    BY <2>1
  <2> HIDE DEF rest
  <2>3. rest \subseteq Nat
    BY <2>2
  <2> QED BY <2>3 DEF rest
<1> DEFINE first == Min(rest)
<1>2. first \in rest /\ \A p \in rest : first <= p
  <2> HIDE DEF rest
  <2> QED BY <1>1, MinOf
<1> HIDE DEF first
<1>3. first \in matches /\ first \in off .. n /\ \A p \in matches : p >= off => first <= p
  BY <1>2
<1> QED BY <1>3 DEF first

\* Such a search exists: every match leads further on.
LEMMA WalkExists ==
  ASSUME NEW n \in Nat, NEW len \in Nat \ {0}, NEW matches \in SUBSET (0 .. n),
         \A p \in matches : p + len <= n,
         NEW S, NEW here, \A p \in matches : here[p] \in Seq(S)
  PROVE  Walks(n, len, matches, S, here) # {}
<1> DEFINE rest(off) == { p \in matches : p >= off }
           stop == { off \in 0 .. n : rest(off) = {} }
           next == [off \in 0 .. n |-> Min(rest(off)) + len]
           join == [x \in (0 .. n) \X Seq(S) |->
                      IF rest(x[1]) = {} THEN << >> ELSE here[Min(rest(x[1]))] \o x[2]]
<1>1. ASSUME NEW off \in 0 .. n, off \notin stop
      PROVE  next[off] \in off + 1 .. n /\ Min(rest(off)) \in matches
  <2>1. rest(off) # {}
    BY <1>1
  <2>2. Min(rest(off)) \in matches /\ Min(rest(off)) \in off .. n
    BY <2>1, NextMatch
  <2> HIDE DEF rest
  <2>3. next[off] = Min(rest(off)) + len
    OBVIOUS
  <2> QED BY <2>2, <2>3
<1>2. ASSUME NEW off \in 0 .. n, NEW x \in Seq(S)
      PROVE  /\ join[<<off, x>>] = IF rest(off) = {} THEN << >> ELSE here[Min(rest(off))] \o x
             /\ join[<<off, x>>] \in Seq(S)
  <2>1. <<off, x>> \in (0 .. n) \X Seq(S)
    OBVIOUS
  <2>2. join[<<off, x>>] = IF rest(off) = {} THEN << >> ELSE here[Min(rest(off))] \o x
    BY <2>1
  <2>3. CASE rest(off) = {}
    BY <2>2, <2>3
  <2>4. CASE rest(off) # {}
    <3>1. Min(rest(off)) \in matches
      BY <1>1, <2>4
    <3>2. here[Min(rest(off))] \in Seq(S)
      BY <3>1
    <3> HIDE DEF rest, join
    <3> QED BY <2>2, <2>4, <3>2
  <2> QED BY <2>2, <2>3, <2>4
<1>3. \A off \in 0 .. n : off \in stop <=> rest(off) = {}
  OBVIOUS
<1>4. \A off \in 0 .. n : next[off] = Min(rest(off)) + len
  OBVIOUS
<1> HIDE DEF rest, stop, next, join
<1>5. Chained(n, Seq(S), stop, << >>, next, join) # {}
  <2>1. << >> \in Seq(S)
    OBVIOUS
  <2> QED BY <1>1, <1>2, <2>1, ChainRecursion, Zenon
<1>6. PICK f : f \in Chained(n, Seq(S), stop, << >>, next, join)
  BY <1>5
<1>7. f \in [0 .. n -> Seq(S)]
  BY <1>6 DEF Chained
<1>8. ASSUME NEW off \in 0 .. n
      PROVE  f[off] = IF rest(off) = {} THEN << >>
                      ELSE here[Min(rest(off))] \o f[Min(rest(off)) + len]
  <2>1. CASE rest(off) = {}
    BY <1>3, <1>6, <2>1 DEF Chained
  <2>2. CASE rest(off) # {}
    <3>1. off \notin stop /\ f[off] = join[<<off, f[next[off]]>>]
      BY <1>3, <1>6, <2>2 DEF Chained
    <3>2. next[off] \in 0 .. n
      BY <1>1, <3>1
    <3>3. f[next[off]] \in Seq(S)
      BY <1>7, <3>2
    <3> QED BY <1>2, <1>4, <2>2, <3>1, <3>3
  <2> QED BY <2>1, <2>2
<1>9. f = [off \in 0 .. n |-> f[off]]
  BY <1>7
<1>10. f = [off \in 0 .. n |-> IF rest(off) = {} THEN << >>
                               ELSE here[Min(rest(off))] \o f[Min(rest(off)) + len]]
  BY <1>8, <1>9
<1>11. Walk(n, len, matches, here, f)
  BY <1>10 DEF Walk, rest
<1> QED BY <1>7, <1>11 DEF Walks

CollectsAll(len, matches, S, here, f) ==
  /\ f[0] \in Seq(S)
  /\ \A p \in matches : (\A q \in matches : q < p => q + len <= p)
        => Range(here[p]) \subseteq Range(f[0])

\* A search collects nothing but what is at the matches, and it does not pass by a match
\* that no other one reaches into.
LEMMA WalkCollects ==
  ASSUME NEW n \in Nat, NEW len \in Nat \ {0}, NEW matches \in SUBSET (0 .. n),
         \A p \in matches : p + len <= n,
         NEW S, NEW here, \A p \in matches : here[p] \in Seq(S),
         NEW f, Walk(n, len, matches, here, f)
  PROVE  CollectsAll(len, matches, S, here, f)
<1> DEFINE rest(off) == { p \in matches : p >= off }
<1>1. ASSUME NEW off \in 0 .. n
      PROVE  f[off] = IF rest(off) = {} THEN << >>
                      ELSE here[Min(rest(off))] \o f[Min(rest(off)) + len]
  BY DEF Walk
<1>2. ASSUME NEW off \in 0 .. n, rest(off) # {}
      PROVE  /\ Min(rest(off)) \in matches /\ Min(rest(off)) \in off .. n
             /\ \A p \in matches : p >= off => Min(rest(off)) <= p
  BY <1>2, NextMatch
<1>3. \A off \in 0 .. n : \A p \in matches : p >= off => rest(off) # {}
  OBVIOUS
<1> HIDE DEF rest
<1> DEFINE T == { d \in Nat : \A off \in 0 .. n : n < off + d => f[off] \in Seq(S) }
<1>4. 0 \in T
  OBVIOUS
<1>5. ASSUME NEW d \in Nat, d \in T PROVE d + 1 \in T
  <2> SUFFICES ASSUME NEW off \in 0 .. n, n < off + (d + 1) PROVE f[off] \in Seq(S)
    OBVIOUS
  <2>1. CASE rest(off) = {}
    <3>1. f[off] = << >>
      BY <1>1, <2>1
    <3>2. << >> \in Seq(S)
      OBVIOUS
    <3> QED BY <3>1, <3>2
  <2>2. CASE rest(off) # {}
    <3> DEFINE p == Min(rest(off))
    <3>1. p \in matches /\ p \in off .. n
      BY <1>2, <2>2
    <3>2. f[off] = here[p] \o f[p + len]
      BY <1>1, <2>2
    <3> HIDE DEF p
    <3>3. p + len \in 0 .. n /\ n < (p + len) + d
      BY <3>1
    <3>4. f[p + len] \in Seq(S) /\ here[p] \in Seq(S)
      BY <1>5, <3>1, <3>3
    <3> QED BY <3>2, <3>4
  <2> QED BY <2>1, <2>2
<1>6. ASSUME NEW off \in 0 .. n PROVE f[off] \in Seq(S)
  <2>1. Nat \subseteq T
    <3> HIDE DEF T
    <3> QED BY <1>4, <1>5, NatSets
  <2>2. n + 1 \in Nat /\ n < off + (n + 1)
    OBVIOUS
  <2>3. n + 1 \in T
    <3> HIDE DEF T
    <3> QED BY <2>1, <2>2
  <2> QED BY <2>2, <2>3
<1> HIDE DEF T
<1>7. ASSUME NEW p \in matches, \A q \in matches : q < p => q + len <= p
      PROVE  Range(here[p]) \subseteq Range(f[0])
  <2>0. p \in 0 .. n /\ here[p] \in Seq(S)
    OBVIOUS
  <2> DEFINE U == { d \in Nat : \A off \in 0 .. n : off <= p /\ p < off + d
                                  => Range(here[p]) \subseteq Range(f[off]) }
  <2>1. 0 \in U
    BY <2>0
  <2>2. ASSUME NEW d \in Nat, d \in U PROVE d + 1 \in U
    <3> SUFFICES ASSUME NEW off \in 0 .. n, off <= p, p < off + (d + 1)
                 PROVE  Range(here[p]) \subseteq Range(f[off])
      OBVIOUS
    <3> DEFINE q == Min(rest(off))
    <3>1. rest(off) # {}
      BY <1>3
    <3>2. q \in matches /\ q \in off .. n /\ q <= p
      BY <1>2, <3>1
    <3>3. f[off] = here[q] \o f[q + len]
      BY <1>1, <3>1
    <3> HIDE DEF q
    <3>4. q + len \in 0 .. n
      BY <3>2
    <3>5. here[q] \in Seq(S) /\ f[q + len] \in Seq(S)
      BY <1>6, <3>2, <3>4
    <3>6. Range(f[off]) = Range(here[q]) \union Range(f[q + len])
      BY <3>3, <3>5, RangeConcat
    <3>7. CASE q = p
      BY <3>6, <3>7
    <3>8. CASE q # p
      <4>1. q + len <= p /\ p < (q + len) + d
        BY <1>7, <2>0, <3>2, <3>8
      <4>2. Range(here[p]) \subseteq Range(f[q + len])
        BY <2>2, <3>4, <4>1
      <4> QED BY <3>6, <4>2
    <3> QED BY <3>7, <3>8
  <2>3. Nat \subseteq U
    <3> HIDE DEF U
    <3> QED BY <2>1, <2>2, NatSets
  <2>4. p + 1 \in Nat /\ 0 \in 0 .. n /\ 0 <= p /\ p < 0 + (p + 1)
    BY <2>0
  <2>5. p + 1 \in U
    <3> HIDE DEF U
    <3> QED BY <2>3, <2>4
  <2> QED BY <2>4, <2>5
<1>8. 0 \in 0 .. n
  OBVIOUS
<1> QED BY <1>6, <1>7, <1>8 DEF CollectsAll

-----------------------------------------------------------------------------
\* The occurrences of a word.

\* Where the search for a word finds its bytes.
Matches(text, word) ==
  LET f == foldForMatch(text)
  IN { p \in DOMAIN f.origOf :
         /\ p + Len(word) \in DOMAIN f.origOf
         /\ SubSeq(f.bytes, p + 1, p + Len(word)) = word }

\* It finds them exactly where the word stands.
LEMMA MatchesAre ==
  ASSUME NEW text \in Seq(Char), NEW w \in Seq(Char), LowEnd(w) > 0
  PROVE  LET matches == Matches(text, foldForMatch(w).bytes)
         IN /\ matches \in SUBSET (0 .. LowEnd(text))
            /\ \A p \in matches : p + LowEnd(w) <= LowEnd(text)
            /\ \A p \in matches : \E a \in 0 .. Len(text) : StandsAt(text, w, a) /\ p = LowAt(text)[a]
            /\ \A a \in 0 .. Len(text) : StandsAt(text, w, a) => LowAt(text)[a] \in matches
<1> DEFINE n == LowEnd(text)
           len == LowEnd(w)
           tb == foldForMatch(text).bytes
           wb == foldForMatch(w).bytes
           matches == { p \in 0 .. n : p + len \in 0 .. n /\ SubSeq(tb, p + 1, p + len) = wb }
<1>1. /\ n \in Nat /\ tb \in Seq(Char \X Nat) /\ Len(tb) = n
      /\ DOMAIN foldForMatch(text).origOf = 0 .. n
  <2>1. /\ tb \in Seq(Char \X Nat) /\ Len(tb) = n
        /\ foldForMatch(text).origOf \in [0 .. n -> Nat]
    BY FoldIs
  <2>2. n \in Nat
    BY LowerIs
  <2> HIDE DEF n, tb
  <2> QED BY <2>1, <2>2
<1>2. len \in Nat \ {0} /\ wb \in Seq(Char \X Nat) /\ Len(wb) = len
  <2>1. wb \in Seq(Char \X Nat) /\ Len(wb) = len
    BY FoldIs
  <2>2. len \in Nat
    BY LowerIs
  <2> QED BY <2>1, <2>2
<1>3. Matches(text, wb) = matches
  BY <1>1, <1>2 DEF Matches
<1> HIDE DEF n, len, tb, wb
<1>4. ASSUME NEW p \in 0 .. n, p + len <= n
      PROVE  SubSeq(tb, p + 1, p + len) = wb <=> \A q \in 1 .. len : tb[p + q] = wb[q]
  <2> DEFINE lo == p + 1
             hi == p + len
             sub == SubSeq(tb, lo, hi)
  <2>1. lo \in Int /\ hi \in Int /\ lo <= hi /\ hi - lo + 1 = len
    BY <1>1, <1>2
  <2>2. \A i \in lo .. hi : tb[i] \in Char \X Nat
    BY <1>1, <1>2, <1>4
  <2>4. \A i \in 1 .. len : lo + i - 1 = p + i
    BY <1>1, <1>2
  <2> HIDE DEF lo, hi
  <2>3. /\ sub \in Seq(Char \X Nat) /\ Len(sub) = len
        /\ \A i \in 1 .. len : sub[i] = tb[lo + i - 1]
    <3>1. /\ sub \in Seq(Char \X Nat) /\ Len(sub) = IF lo <= hi THEN hi - lo + 1 ELSE 0
          /\ \A i \in 1 .. hi - lo + 1 : sub[i] = tb[lo + i - 1]
      BY <2>1, <2>2, SubSeqProperties
    <3> HIDE DEF sub
    <3> QED BY <2>1, <3>1
  <2> HIDE DEF sub
  <2>5. \A i \in 1 .. len : sub[i] = tb[p + i]
    BY <2>3, <2>4
  <2>6. sub = wb <=> \A i \in 1 .. len : sub[i] = wb[i]
    BY <1>2, <2>3, SeqEqual
  <2> QED BY <2>5, <2>6 DEF sub, lo, hi
<1>5. ASSUME NEW p \in matches
      PROVE  \E a \in 0 .. Len(text) : StandsAt(text, w, a) /\ p = LowAt(text)[a]
  <2>1. p \in 0 .. n /\ p + len <= n /\ SubSeq(tb, p + 1, p + len) = wb
    BY <1>1, <1>2
  <2>2. \A q \in 1 .. len : tb[p + q] = wb[q]
    BY <1>4, <2>1
  <2> QED BY <2>1, <2>2, MatchIsPlace DEF n, len, tb, wb
<1>6. ASSUME NEW a \in 0 .. Len(text), StandsAt(text, w, a) PROVE LowAt(text)[a] \in matches
  <2> DEFINE p == LowAt(text)[a]
  <2>0. a \in Nat
    OBVIOUS
  <2>1. /\ p + len = LowAt(text)[a + Len(w)]
        /\ \A q \in 1 .. len : tb[p + q] = wb[q]
    BY <1>6, <2>0, PlaceIsMatch DEF len, tb, wb
  <2>2. p \in 0 .. n
    BY OrigAt DEF n
  <2>3. a + Len(w) \in 0 .. Len(text)
    BY <1>6 DEF StandsAt
  <2>4. p + len \in 0 .. n
    BY <2>1, <2>3, OrigAt DEF n
  <2> HIDE DEF p
  <2>5. SubSeq(tb, p + 1, p + len) = wb
    <3>1. p + len <= n
      BY <1>1, <1>2, <2>2, <2>4
    <3>2. \A q \in 1 .. len : tb[p + q] = wb[q]
      BY <2>1 DEF p
    <3> QED BY <1>4, <2>2, <3>1, <3>2
  <2> QED BY <2>2, <2>4, <2>5 DEF p
<1>7. \A p \in matches : p + len <= n
  BY <1>1, <1>2
<1>8. matches \in SUBSET (0 .. n)
  OBVIOUS
<1> HIDE DEF matches
<1> QED BY <1>3, <1>5, <1>6, <1>7, <1>8 DEF n, len, wb

\* The span of a word that stands behind the first a characters, and those of the words
\* that are bounded.
Hit(text, w, a) ==
  [ start |-> runeOffsets(text)[a], end |-> runeOffsets(text)[a + Len(w)],
    kind |-> "CUSTOM", tier |-> "sure" ]

Bounded(text, w) ==
  { a \in 0 .. Len(text) :
      /\ StandsAt(text, w, a)
      /\ wordBounded(text, runeOffsets(text)[a], runeOffsets(text)[a + Len(w)]) }

Hits(text, w) == { Hit(text, w, a) : a \in Bounded(text, w) }

\* The occurrences of a word are places where it stands by itself, and each such place
\* that overlaps no other is among them.
LEMMA OccurrencesAre ==
  ASSUME NEW text \in Seq(Char), NEW w \in Seq(Char), LowEnd(w) > 0
  PROVE  LET occ == occurrences(text, foldForMatch(w).bytes)
         IN /\ occ \in Seq(Hits(text, w))
            /\ \A a \in Bounded(text, w) :
                  (\A b \in 0 .. Len(text) : StandsAt(text, w, b) /\ b < a => b + Len(w) <= a)
                  => Hit(text, w, a) \in Range(occ)
<1> DEFINE word == foldForMatch(w).bytes
           orig == foldForMatch(text).origOf
           at == LowAt(text)
           matches == Matches(text, word)
           n == LowEnd(text)
           len == LowEnd(w)
           S == Hits(text, w)
           span(p) == [start |-> orig[p], end |-> orig[p + len], kind |-> "CUSTOM", tier |-> "sure"]
           here == [p \in matches |->
                      IF wordBounded(text, orig[p], orig[p + len]) THEN <<span(p)>> ELSE << >>]
<1>1. n \in Nat /\ len \in Nat \ {0} /\ Len(word) = len /\ DOMAIN orig = 0 .. n
  <2>1. n \in Nat
    BY LowerIs
  <2>2. len \in Nat
    BY LowerIs
  <2>3. Len(word) = len
    BY FoldIs
  <2>4. orig \in [0 .. n -> Nat]
    BY FoldIs
  <2> HIDE DEF n, orig, word
  <2> QED BY <2>1, <2>2, <2>3, <2>4
<1>2. /\ matches \in SUBSET (0 .. n) /\ \A p \in matches : p + len <= n
      /\ \A p \in matches : \E a \in 0 .. Len(text) : StandsAt(text, w, a) /\ p = at[a]
      /\ \A a \in 0 .. Len(text) : StandsAt(text, w, a) => at[a] \in matches
  BY MatchesAre
<1>3. ASSUME NEW a \in 0 .. Len(text), StandsAt(text, w, a)
      PROVE  /\ orig[at[a]] = runeOffsets(text)[a]
             /\ orig[at[a] + len] = runeOffsets(text)[a + Len(w)]
             /\ at[a] + len = at[a + Len(w)] /\ a + Len(w) \in 0 .. Len(text)
  <2>1. a \in Nat /\ a + Len(w) \in 0 .. Len(text)
    BY <1>3 DEF StandsAt
  <2>2. at[a] + len = at[a + Len(w)]
    BY <1>3, <2>1, PlaceIsMatch
  <2> QED BY <2>1, <2>2, OrigAt
<1>4. matches = { p \in DOMAIN orig : /\ p + Len(word) \in DOMAIN orig
                                      /\ SubSeq(foldForMatch(text).bytes, p + 1, p + Len(word)) = word }
  BY DEF Matches
<1>a. \A p \in matches : here[p] = IF wordBounded(text, orig[p], orig[p + len])
                                   THEN <<span(p)>> ELSE << >>
  OBVIOUS
<1> DEFINE found == CHOOSE f : f = [off \in DOMAIN orig |->
        LET rest == { p \in matches : p >= off }
            start == Min(rest)
            end == start + Len(word)
            sp == [start |-> orig[start], end |-> orig[end], kind |-> "CUSTOM", tier |-> "sure"]
            h == IF wordBounded(text, sp.start, sp.end) THEN <<sp>> ELSE << >>
        IN IF rest = {} THEN << >> ELSE h \o f[end]]
<1>5. occurrences(text, word) = found[0]
  BY DEF occurrences, Matches
<1> HIDE DEF word, orig, at, matches, n, S, here, len
<1>6. ASSUME NEW p \in matches PROVE here[p] \in Seq(S)
  <2>1. PICK a \in 0 .. Len(text) : StandsAt(text, w, a) /\ p = at[a]
    BY <1>2
  <2>2. orig[p] = runeOffsets(text)[a] /\ orig[p + len] = runeOffsets(text)[a + Len(w)]
    BY <1>3, <2>1
  <2>3. span(p) = Hit(text, w, a)
    BY <2>2 DEF Hit
  <2>4. CASE wordBounded(text, orig[p], orig[p + len])
    <3>1. a \in Bounded(text, w)
      BY <2>1, <2>2, <2>4 DEF Bounded
    <3>2. span(p) \in S
      BY <2>3, <3>1 DEF Hits, S
    <3>3. here[p] = <<span(p)>>
      BY <1>a, <2>4
    <3> HIDE DEF span
    <3> QED BY <3>2, <3>3
  <2>5. CASE ~wordBounded(text, orig[p], orig[p + len])
    <3>1. here[p] = << >>
      BY <1>a, <2>5
    <3> QED BY <3>1
  <2> QED BY <2>4, <2>5
<1>7. PICK f : f \in Walks(n, len, matches, S, here)
  <2>1. Walks(n, len, matches, S, here) # {}
    BY <1>1, <1>2, <1>6, WalkExists
  <2> QED BY <2>1
<1> DEFINE body(g) == [off \in DOMAIN orig |->
        LET rest == { p \in matches : p >= off }
            start == Min(rest)
            end == start + Len(word)
            sp == [start |-> orig[start], end |-> orig[end], kind |-> "CUSTOM", tier |-> "sure"]
            h == IF wordBounded(text, sp.start, sp.end) THEN <<sp>> ELSE << >>
        IN IF rest = {} THEN << >> ELSE h \o g[end]]
           walk(g) == [off \in 0 .. n |->
         LET rest == { p \in matches : p >= off }
         IN IF rest = {} THEN << >> ELSE here[Min(rest)] \o g[Min(rest) + len]]
<1>8. ASSUME NEW g PROVE body(g) = walk(g)
  <2>1. ASSUME NEW off \in 0 .. n PROVE body(g)[off] = walk(g)[off]
    <3> DEFINE rest == { p \in matches : p >= off }
               start == Min(rest)
    <3>1. CASE rest = {}
      BY <1>1, <3>1
    <3>2. CASE rest # {}
      <4>1. start \in matches
        BY <1>1, <1>2, <3>2, NextMatch
      <4>2. here[start] = IF wordBounded(text, orig[start], orig[start + len])
                          THEN <<span(start)>> ELSE << >>
        BY <1>a, <4>1
      <4>3. walk(g)[off] = here[start] \o g[start + len]
        BY <3>2
      <4>4. body(g)[off] = (IF wordBounded(text, orig[start], orig[start + len])
                            THEN <<span(start)>> ELSE << >>) \o g[start + len]
        BY <1>1, <3>2
      <4> QED BY <4>2, <4>3, <4>4
    <3> QED BY <3>1, <3>2
  <2>2. DOMAIN body(g) = 0 .. n /\ DOMAIN walk(g) = 0 .. n
    BY <1>1
  <2>3. body(g) = [off \in 0 .. n |-> body(g)[off]] /\ walk(g) = [off \in 0 .. n |-> walk(g)[off]]
    BY <1>1
  <2> HIDE DEF body, walk
  <2> QED BY <2>1, <2>3
<1>9. found = body(found)
  <2>1. f = walk(f)
    BY <1>7 DEF Walks, Walk
  <2>2. f = body(f)
    BY <1>8, <2>1
  <2> QED BY <2>2
<1> HIDE DEF body, walk, found
<1>10. found = walk(found)
  BY <1>8, <1>9
<1>11. Walk(n, len, matches, here, found)
  BY <1>10 DEF Walk, walk
<1>12. /\ found[0] \in Seq(S)
       /\ \A p \in matches : (\A q \in matches : q < p => q + len <= p)
               => Range(here[p]) \subseteq Range(found[0])
  <2>1. matches \in SUBSET (0 .. n) /\ n \in Nat /\ len \in Nat \ {0}
    BY <1>1, <1>2
  <2>2. \A p \in matches : p + len <= n
    BY <1>2
  <2>3. \A p \in matches : here[p] \in Seq(S)
    BY <1>6
  <2>4. CollectsAll(len, matches, S, here, found)
    BY <1>11, <2>1, <2>2, <2>3, WalkCollects, Zenon
  <2> QED BY <2>4 DEF CollectsAll
<1>13. ASSUME NEW a \in Bounded(text, w),
              \A b \in 0 .. Len(text) : StandsAt(text, w, b) /\ b < a => b + Len(w) <= a
       PROVE  Hit(text, w, a) \in Range(found[0])
  <2>1. /\ a \in 0 .. Len(text) /\ StandsAt(text, w, a)
        /\ wordBounded(text, runeOffsets(text)[a], runeOffsets(text)[a + Len(w)])
    BY DEF Bounded
  <2>2. /\ at \in [0 .. Len(text) -> Nat] /\ \A i, j \in 0 .. Len(text) : i < j => at[i] < at[j]
        /\ Len(text) \in Nat
    BY LowerIs DEF at
  <2>3. at[a] \in matches
    BY <1>2, <2>1
  <2>4. ASSUME NEW q \in matches, q < at[a] PROVE q + len <= at[a]
    <3>1. PICK b \in 0 .. Len(text) : StandsAt(text, w, b) /\ q = at[b]
      BY <1>2
    <3>2. b < a
      <4>1. at[a] \in Nat /\ at[b] \in Nat /\ at[b] < at[a] /\ a \in Nat /\ b \in Nat
        BY <2>1, <2>2, <2>4, <3>1
      <4>2. a # b
        BY <4>1
      <4>3. ~(a < b)
        BY <2>1, <2>2, <4>1
      <4> QED BY <4>1, <4>2, <4>3
    <3>3. b + Len(w) <= a /\ b + Len(w) \in 0 .. Len(text) /\ q + len = at[b + Len(w)]
      BY <1>3, <1>13, <3>1, <3>2
    <3>4. b + Len(w) = a \/ b + Len(w) < a
      <4> DEFINE c == b + Len(w)
      <4>1. c \in 0 .. Len(text) /\ c <= a
        BY <3>3
      <4> HIDE DEF c
      <4>2. c = a \/ c < a
        BY <2>1, <2>2, <4>1
      <4> QED BY <4>2 DEF c
    <3>5. at[b + Len(w)] \in Nat /\ at[a] \in Nat
      BY <2>1, <2>2, <3>3
    <3> QED BY <2>1, <2>2, <3>3, <3>4, <3>5
  <2>5. Range(here[at[a]]) \subseteq Range(found[0])
    BY <1>12, <2>3, <2>4
  <2>6. here[at[a]] = <<Hit(text, w, a)>>
    <3>1. orig[at[a]] = runeOffsets(text)[a] /\ orig[at[a] + len] = runeOffsets(text)[a + Len(w)]
      BY <1>3, <2>1
    <3>2. here[at[a]] = <<span(at[a])>>
      BY <1>a, <2>1, <2>3, <3>1
    <3> QED BY <3>1, <3>2 DEF Hit
  <2>7. Hit(text, w, a) \in Range(here[at[a]])
    <3> HIDE DEF Hit
    <3> QED BY <2>6 DEF Range
  <2> QED BY <2>5, <2>7
<1> QED BY <1>5, <1>12, <1>13 DEF S, word

-----------------------------------------------------------------------------
\* The dictionary.

\* The words the configuration gives, but for the empty one.
Words == { w \in Range(CustomWords) : LowEnd(w) > 0 }

\* The dictionary has every word that is not empty, folded, and nothing else.
LEMMA DictIs ==
  /\ Words \subseteq Seq(Char)
  /\ dict \in Seq(Seq(Char \X Nat))
  /\ Range(dict) = { foldForMatch(w).bytes : w \in Words }
<1> DEFINE n == Len(CustomWords)
           B == Seq(Char \X Nat)
           F == [i \in 1 .. n |-> foldForMatch(CustomWords[i]).bytes]
           Is(f) == f = [i \in 0 .. n |-> IF i = 0 THEN << >>
                           ELSE IF F[i] \in {<< >>} \union Range(f[i - 1]) THEN f[i - 1]
                           ELSE Append(f[i - 1], F[i])]
           step == [p \in Seq(B) \X (1 .. n) |->
                      IF F[p[2]] \in {<< >>} \union Range(p[1]) THEN p[1]
                      ELSE Append(p[1], F[p[2]])]
<1>1. n \in Nat /\ DOMAIN CustomWords = 1 .. n /\ \A i \in 1 .. n : CustomWords[i] \in Seq(Char)
  BY DictionaryAssumption
<1>2. /\ Range(CustomWords) \subseteq Seq(Char)
      /\ Range(CustomWords) = { CustomWords[i] : i \in 1 .. n }
  BY <1>1 DEF Range
<1>3. Words \subseteq Seq(Char)
  BY <1>2 DEF Words
<1>4. ASSUME NEW w \in Seq(Char)
      PROVE  foldForMatch(w).bytes \in B /\ (foldForMatch(w).bytes = << >> <=> ~(LowEnd(w) > 0))
  <2>1. foldForMatch(w).bytes \in B /\ Len(foldForMatch(w).bytes) = LowEnd(w)
    BY FoldIs
  <2>2. LowEnd(w) \in Nat
    BY LowerIs
  <2> QED BY <2>1, <2>2
<1>5. \A i \in 1 .. n : F[i] = foldForMatch(CustomWords[i]).bytes /\ F[i] \in B
  BY <1>1, <1>4
<1> DEFINE d == CHOOSE f : f = [i \in 0 .. n |-> IF i = 0 THEN << >>
                  ELSE LET folded == foldForMatch(CustomWords[i]).bytes
                       IN IF folded \in {<< >>} \union Range(f[i - 1]) THEN f[i - 1]
                          ELSE Append(f[i - 1], folded)]
<1>6. dict = d[n]
  BY DEF dict
<1> HIDE DEF n, B, F
<1>7. ASSUME NEW t \in Seq(B), NEW i \in 1 .. n
      PROVE  /\ step[<<t, i>>] = IF F[i] \in {<< >>} \union Range(t) THEN t ELSE Append(t, F[i])
             /\ step[<<t, i>>] \in Seq(B)
  <2>1. <<t, i>> \in Seq(B) \X (1 .. n)
    OBVIOUS
  <2>2. step[<<t, i>>] = IF F[i] \in {<< >>} \union Range(t) THEN t ELSE Append(t, F[i])
    BY <2>1
  <2>3. F[i] \in B
    BY <1>5
  <2> HIDE DEF step
  <2> QED BY <2>2, <2>3
<1> HIDE DEF step
<1>8. From0(n, Seq(B), << >>, step) # {}
  <2>1. \A t \in Seq(B) : \A i \in 1 .. n : step[<<t, i>>] \in Seq(B)
    BY <1>7
  <2>2. << >> \in Seq(B)
    OBVIOUS
  <2> QED BY <1>1, <2>1, <2>2, RecursionFrom0, Zenon
<1>9. PICK f : /\ f \in [0 .. n -> Seq(B)] /\ f[0] = << >>
               /\ \A i \in 1 .. n : f[i] = step[<<f[i - 1], i>>]
  BY <1>8 DEF From0
<1>10. ASSUME NEW i \in 0 .. n
       PROVE  f[i] = IF i = 0 THEN << >>
                     ELSE LET folded == foldForMatch(CustomWords[i]).bytes
                          IN IF folded \in {<< >>} \union Range(f[i - 1]) THEN f[i - 1]
                             ELSE Append(f[i - 1], folded)
  <2>1. CASE i # 0
    <3>1. i \in 1 .. n /\ i - 1 \in 0 .. n
      BY <1>1, <2>1
    <3>2. f[i] = IF F[i] \in {<< >>} \union Range(f[i - 1]) THEN f[i - 1]
                 ELSE Append(f[i - 1], F[i])
      BY <1>7, <1>9, <3>1
    <3>3. F[i] = foldForMatch(CustomWords[i]).bytes
      BY <1>5, <3>1
    <3> QED BY <2>1, <3>2, <3>3
  <2> QED BY <1>9, <2>1
<1>11. f = [i \in 0 .. n |-> IF i = 0 THEN << >>
                  ELSE LET folded == foldForMatch(CustomWords[i]).bytes
                       IN IF folded \in {<< >>} \union Range(f[i - 1]) THEN f[i - 1]
                          ELSE Append(f[i - 1], folded)]
  <2>1. f = [i \in 0 .. n |-> f[i]]
    BY <1>9
  <2> QED BY <1>10, <2>1
<1>12. d = [i \in 0 .. n |-> IF i = 0 THEN << >>
                  ELSE LET folded == foldForMatch(CustomWords[i]).bytes
                       IN IF folded \in {<< >>} \union Range(d[i - 1]) THEN d[i - 1]
                          ELSE Append(d[i - 1], folded)]
  BY <1>11
<1> HIDE DEF d
<1>13. /\ d[0] = << >>
       /\ \A i \in 1 .. n : d[i] = IF F[i] \in {<< >>} \union Range(d[i - 1]) THEN d[i - 1]
                                   ELSE Append(d[i - 1], F[i])
  <2>1. 0 \in 0 .. n /\ \A i \in 1 .. n : i \in 0 .. n /\ i # 0
    BY <1>1
  <2> QED BY <1>5, <1>12, <2>1
<1> DEFINE T == { i \in Nat : i <= n =>
                    d[i] \in Seq(B) /\ Range(d[i]) = { F[j] : j \in 1 .. i } \ {<< >>} }
<1>14. 0 \in T
  <2>1. d[0] \in Seq(B) /\ Range(d[0]) = {} /\ { F[j] : j \in 1 .. 0 } = {}
    BY <1>13 DEF Range
  <2> QED BY <2>1
<1>15. ASSUME NEW i \in Nat, i \in T PROVE i + 1 \in T
  <2> SUFFICES ASSUME i + 1 <= n
               PROVE  /\ d[i + 1] \in Seq(B)
                      /\ Range(d[i + 1]) = { F[j] : j \in 1 .. i + 1 } \ {<< >>}
    OBVIOUS
  <2>1. d[i] \in Seq(B) /\ Range(d[i]) = { F[j] : j \in 1 .. i } \ {<< >>}
    <3>1. i <= n
      BY <1>1
    <3> QED BY <1>15, <3>1
  <2>2. (i + 1) - 1 = i /\ i + 1 \in 1 .. n
    BY <1>1
  <2>3. d[i + 1] = IF F[i + 1] \in {<< >>} \union Range(d[i]) THEN d[i] ELSE Append(d[i], F[i + 1])
    BY <1>13, <2>2
  <2>4. { F[j] : j \in 1 .. i + 1 } = { F[j] : j \in 1 .. i } \union {F[i + 1]}
    <3>1. 1 .. i + 1 = (1 .. i) \union {i + 1}
      OBVIOUS
    <3> QED BY <3>1
  <2>5. F[i + 1] \in B
    BY <1>5, <2>2
  <2>6. CASE F[i + 1] \in {<< >>} \union Range(d[i])
    BY <2>1, <2>3, <2>4, <2>6
  <2>7. CASE F[i + 1] \notin {<< >>} \union Range(d[i])
    <3>1. d[i + 1] = Append(d[i], F[i + 1])
      BY <2>3, <2>7
    <3>2. d[i + 1] \in Seq(B) /\ Range(d[i + 1]) = Range(d[i]) \union {F[i + 1]}
      BY <2>1, <2>5, <3>1, RangeAppend
    <3> QED BY <2>1, <2>4, <2>7, <3>2
  <2> QED BY <2>6, <2>7
<1>16. n \in T
  <2> HIDE DEF T
  <2> QED BY <1>1, <1>14, <1>15, NatSets
<1>17. dict \in Seq(B) /\ Range(dict) = { F[j] : j \in 1 .. n } \ {<< >>}
  BY <1>1, <1>6, <1>16
<1>18. { F[j] : j \in 1 .. n } \ {<< >>} = { foldForMatch(w).bytes : w \in Words }
  <2>1. ASSUME NEW j \in 1 .. n, F[j] # << >>
        PROVE  F[j] \in { foldForMatch(w).bytes : w \in Words }
    <3>1. CustomWords[j] \in Words
      BY <1>1, <1>2, <1>4, <1>5, <2>1 DEF Words
    <3> QED BY <1>5, <3>1
  <2>2. ASSUME NEW w \in Words
        PROVE  foldForMatch(w).bytes \in { F[j] : j \in 1 .. n } \ {<< >>}
    <3>1. PICK j \in 1 .. n : w = CustomWords[j]
      BY <1>2 DEF Words
    <3>2. foldForMatch(w).bytes # << >>
      BY <1>3, <1>4 DEF Words
    <3> QED BY <1>5, <3>1, <3>2
  <2> QED BY <2>1, <2>2
<1> QED BY <1>3, <1>17, <1>18 DEF B

\* What collectCustom finds: the occurrences of the words.
AllHits(text) == UNION { Hits(text, w) : w \in Words }

\* Every occurrence of a word is found, and nothing else.
LEMMA CustomIs ==
  ASSUME NEW text \in Seq(Char)
  PROVE  /\ collectCustom(text) \in Seq(AllHits(text))
         /\ \A w \in Words :
              Range(occurrences(text, foldForMatch(w).bytes)) \subseteq Range(collectCustom(text))
<1> DEFINE n == Len(dict)
           A == AllHits(text)
           O == [i \in 1 .. n |-> occurrences(text, dict[i])]
           step == [p \in Seq(A) \X (1 .. n) |-> p[1] \o O[p[2]]]
           d == CHOOSE f : f = [i \in 0 .. n |-> IF i = 0 THEN << >>
                                  ELSE f[i - 1] \o occurrences(text, dict[i])]
<1>1. /\ n \in Nat /\ \A i \in 1 .. n : \E w \in Words : dict[i] = foldForMatch(w).bytes
      /\ \A w \in Words : \E i \in 1 .. n : dict[i] = foldForMatch(w).bytes
      /\ Words \subseteq Seq(Char)
  <2>1. /\ dict \in Seq(Seq(Char \X Nat))
        /\ Range(dict) = { foldForMatch(w).bytes : w \in Words } /\ Words \subseteq Seq(Char)
    BY DictIs
  <2>2. /\ n \in Nat /\ Range(dict) = { dict[i] : i \in 1 .. n }
    BY <2>1, RangeSeq
  <2> HIDE DEF n
  <2> QED BY <2>1, <2>2
<1>2. collectCustom(text) = d[n]
  BY DEF collectCustom
<1>3. \A i \in 1 .. n : O[i] = occurrences(text, dict[i])
  OBVIOUS
<1> HIDE DEF n, A, O
<1>4. ASSUME NEW i \in 1 .. n PROVE O[i] \in Seq(A)
  <2>1. PICK w \in Words : dict[i] = foldForMatch(w).bytes
    BY <1>1
  <2>2. O[i] \in Seq(Hits(text, w))
    <3>1. w \in Seq(Char) /\ LowEnd(w) > 0
      <4>1. Words \subseteq Seq(Char)
        BY <1>1
      <4>2. LowEnd(w) > 0
        BY Zenon DEF Words
      <4> QED BY <4>1, <4>2
    <3>2. occurrences(text, foldForMatch(w).bytes) \in Seq(Hits(text, w))
      BY <3>1, OccurrencesAre
    <3> QED BY <1>3, <2>1, <3>2
  <2>3. Hits(text, w) \subseteq A
    BY DEF AllHits, A
  <2> QED BY <2>2, <2>3
<1>5. ASSUME NEW t \in Seq(A), NEW i \in 1 .. n
      PROVE  step[<<t, i>>] = t \o O[i] /\ step[<<t, i>>] \in Seq(A)
  <2>1. <<t, i>> \in Seq(A) \X (1 .. n)
    OBVIOUS
  <2>2. step[<<t, i>>] = t \o O[i]
    BY <2>1
  <2>3. O[i] \in Seq(A)
    BY <1>4
  <2> HIDE DEF step
  <2> QED BY <2>2, <2>3
<1> HIDE DEF step
<1>6. From0(n, Seq(A), << >>, step) # {}
  <2>1. \A t \in Seq(A) : \A i \in 1 .. n : step[<<t, i>>] \in Seq(A)
    BY <1>5
  <2>2. << >> \in Seq(A)
    OBVIOUS
  <2> QED BY <1>1, <2>1, <2>2, RecursionFrom0, Zenon
<1>7. PICK f : /\ f \in [0 .. n -> Seq(A)] /\ f[0] = << >>
               /\ \A i \in 1 .. n : f[i] = step[<<f[i - 1], i>>]
  BY <1>6 DEF From0
<1>8. ASSUME NEW i \in 0 .. n
      PROVE  f[i] = IF i = 0 THEN << >> ELSE f[i - 1] \o occurrences(text, dict[i])
  <2>1. CASE i # 0
    <3>1. i \in 1 .. n /\ i - 1 \in 0 .. n
      BY <1>1, <2>1
    <3>2. f[i - 1] \in Seq(A) /\ f[i] = step[<<f[i - 1], i>>]
      BY <1>7, <3>1
    <3>3. f[i] = f[i - 1] \o O[i]
      BY <1>5, <3>1, <3>2
    <3> QED BY <1>3, <2>1, <3>1, <3>3
  <2> QED BY <1>7, <2>1
<1>9. f = [i \in 0 .. n |-> IF i = 0 THEN << >> ELSE f[i - 1] \o occurrences(text, dict[i])]
  <2>1. f = [i \in 0 .. n |-> f[i]]
    BY <1>7
  <2> QED BY <1>8, <2>1
<1>10. d = [i \in 0 .. n |-> IF i = 0 THEN << >> ELSE d[i - 1] \o occurrences(text, dict[i])]
  BY <1>9
<1> HIDE DEF d
<1>11. d[0] = << >> /\ \A i \in 1 .. n : d[i] = d[i - 1] \o O[i]
  <2>1. 0 \in 0 .. n /\ \A i \in 1 .. n : i \in 0 .. n /\ i # 0
    BY <1>1
  <2> QED BY <1>3, <1>10, <2>1
<1> DEFINE T == { i \in Nat : i <= n => /\ d[i] \in Seq(A)
                                        /\ \A j \in 1 .. i : Range(O[j]) \subseteq Range(d[i]) }
<1>12. 0 \in T
  <2>1. d[0] \in Seq(A)
    BY <1>11
  <2> QED BY <2>1
<1>13. ASSUME NEW i \in Nat, i \in T PROVE i + 1 \in T
  <2> SUFFICES ASSUME i + 1 <= n
               PROVE  /\ d[i + 1] \in Seq(A)
                      /\ \A j \in 1 .. i + 1 : Range(O[j]) \subseteq Range(d[i + 1])
    OBVIOUS
  <2>1. d[i] \in Seq(A) /\ \A j \in 1 .. i : Range(O[j]) \subseteq Range(d[i])
    <3>1. i <= n
      BY <1>1
    <3> QED BY <1>13, <3>1
  <2>2. (i + 1) - 1 = i /\ i + 1 \in 1 .. n
    BY <1>1
  <2>3. d[i + 1] = d[i] \o O[i + 1] /\ O[i + 1] \in Seq(A)
    BY <1>4, <1>11, <2>2
  <2>4. d[i + 1] \in Seq(A) /\ Range(d[i + 1]) = Range(d[i]) \union Range(O[i + 1])
    BY <2>1, <2>3, RangeConcat
  <2>5. \A j \in 1 .. i + 1 : j = i + 1 \/ j \in 1 .. i
    OBVIOUS
  <2> QED BY <2>1, <2>4, <2>5
<1>14. n \in T
  <2> HIDE DEF T
  <2> QED BY <1>1, <1>12, <1>13, NatSets
<1>15. d[n] \in Seq(A) /\ \A j \in 1 .. n : Range(O[j]) \subseteq Range(d[n])
  BY <1>1, <1>14
<1>16. ASSUME NEW w \in Words
       PROVE  Range(occurrences(text, foldForMatch(w).bytes)) \subseteq Range(collectCustom(text))
  <2>1. PICK i \in 1 .. n : dict[i] = foldForMatch(w).bytes
    BY <1>1
  <2> QED BY <1>2, <1>3, <1>15, <2>1
<1> QED BY <1>2, <1>15, <1>16 DEF A

-----------------------------------------------------------------------------
\* What is collected.

\* The elements of a sequence, one by one.
LEMMA SeqElements ==
  ASSUME NEW S, NEW s \in Seq(S)
  PROVE  /\ Len(s) \in Nat /\ DOMAIN s = 1 .. Len(s) /\ s = [i \in 1 .. Len(s) |-> s[i]]
         /\ \A i \in 1 .. Len(s) : s[i] \in S /\ s[i] \in Range(s)
         /\ \A x \in Range(s) : \E i \in 1 .. Len(s) : x = s[i]
  BY DEF Range

Cut(text) == Range(runeOffsets(text))

\* The stretches of a text that begin and end between characters.
Span(text) ==
  { s \in [start : Cut(text), end : Cut(text), kind : Kind, tier : {"sure", "guess"}] :
      s.start < s.end }

Tier(text, tier) == { s \in Span(text) : s.tier = tier }

\* The stretch between two places among the characters.
LEMMA StretchIsSpan ==
  ASSUME NEW text \in Seq(Char), NEW i \in 0 .. Len(text), NEW j \in 0 .. Len(text), i < j,
         NEW kind \in Kind, NEW tier \in {"sure", "guess"}
  PROVE  [start |-> runeOffsets(text)[i], end |-> runeOffsets(text)[j],
          kind |-> kind, tier |-> tier] \in Tier(text, tier)
<1> DEFINE at == runeOffsets(text)
           n == Len(text)
           span == [start |-> at[i], end |-> at[j], kind |-> kind, tier |-> tier]
<1>1. at \in [0 .. n -> Nat] /\ \A k, l \in 0 .. n : k < l => at[k] < at[l]
  BY OffsetsGrow
<1> HIDE DEF at, n
<1>2. at[i] \in Cut(text) /\ at[j] \in Cut(text)
  BY <1>1 DEF Cut, Range, at, n
<1>3. at[i] < at[j]
  BY <1>1 DEF n
<1>4. span \in Span(text) /\ span.tier = tier
  BY <1>2, <1>3 DEF Span
<1> QED BY <1>4 DEF Tier, at

\* What the input has.
LEMMA InputIs ==
  ASSUME NEW in \in Inputs
  PROVE  /\ in.text \in Seq(Char)
         /\ in.matches \in Seq([start : Cut(in.text), end : Cut(in.text),
                                kind : Kind \ {"CUSTOM"}, tier : {"sure"}])
         /\ in.captures \in Seq([start : 0 .. Len(in.text), end : 0 .. Len(in.text),
                                 quoted : BOOLEAN, is : BOOLEAN])
         /\ \A s \in Range(in.matches) \union Range(in.captures) : s.start < s.end
         /\ in.entities \in Seq([start : Int, end : Int, label : DOMAIN sanitizeLabel,
                                 entity : Seq(Char)])
         /\ {"CUSTOM", "PASSWORD"} \subseteq Kind
         /\ \A l \in DOMAIN sanitizeLabel : sanitizeLabel[l] \in Kind \union {NoKind}
  BY TextAssumption, Zenon DEF Cut

\* What the regular expressions match: no custom word is among it.
LEMMA MatchesAreSpans ==
  ASSUME NEW in \in Inputs
  PROVE  /\ in.matches \in Seq(Tier(in.text, "sure"))
         /\ \A s \in Range(in.matches) : s.kind # "CUSTOM"
<1> DEFINE C == Cut(in.text)
           m == in.matches
           R == [start : C, end : C, kind : Kind \ {"CUSTOM"}, tier : {"sure"}]
<1>1. m \in Seq(R) /\ \A s \in Range(m) : s.start < s.end
  BY InputIs
<1> HIDE DEF C, m
<1>2. \A s \in R : s.kind # "CUSTOM" /\ (s.start < s.end => s \in Tier(in.text, "sure"))
  BY DEF Tier, Span, C
<1> HIDE DEF R
<1>3. /\ Len(m) \in Nat /\ m = [i \in 1 .. Len(m) |-> m[i]]
      /\ \A i \in 1 .. Len(m) : m[i] \in R /\ m[i] \in Range(m)
      /\ \A x \in Range(m) : \E i \in 1 .. Len(m) : x = m[i]
  BY <1>1, SeqElements
<1>5. ASSUME NEW i \in 1 .. Len(m) PROVE m[i] \in Tier(in.text, "sure")
  <2>1. m[i] \in R /\ m[i].start < m[i].end
    BY <1>1, <1>3
  <2> QED BY <1>2, <2>1
<1>6. m \in Seq(Tier(in.text, "sure"))
  BY <1>3, <1>5
<1>7. \A s \in Range(m) : s \in R
  BY <1>3
<1> QED BY <1>2, <1>6, <1>7 DEF m

\* A value behind a marker ends where its captured characters end, or before.
LEMMA ContextIs ==
  ASSUME NEW in \in Inputs
  PROVE  /\ contextSpans(in.text, in.captures) \in Seq(Tier(in.text, "sure"))
         /\ \A s \in Range(contextSpans(in.text, in.captures)) : s.kind = "PASSWORD"
<1> DEFINE text == in.text
           captures == in.captures
           n == Len(text)
           R == [start : 0 .. n, end : 0 .. n, quoted : BOOLEAN, is : BOOLEAN]
           ending(c) ==
             IF c.quoted THEN c.end
             ELSE Max({c.start} \union { i \in c.start + 1 .. c.end : text[i] \notin EndMark })
           good == { c \in Range(captures) :
             /\ c.start < ending(c)
             /\ c.quoted \/ ~c.is \/ ~looksLikeProse(SubSeq(text, c.start + 1, ending(c))) }
           values == Kept(captures, good)
           spans0 == [i \in DOMAIN values |->
                       [ start |-> runeOffsets(text)[values[i].start],
                         end   |-> runeOffsets(text)[ending(values[i])],
                         kind  |-> "PASSWORD", tier |-> "sure" ]]
<1>1. /\ text \in Seq(Char) /\ captures \in Seq(R) /\ "PASSWORD" \in Kind
  BY InputIs
<1>2. n \in Nat
  BY <1>1
<1>3. contextSpans(text, captures) = spans0
  BY DEF contextSpans
<1> HIDE DEF text, captures, n
<1>4. ASSUME NEW c \in R PROVE ending(c) \in 0 .. n
  <2>1. c.start \in 0 .. n /\ c.end \in 0 .. n
    OBVIOUS
  <2> DEFINE E == {c.start} \union { i \in c.start + 1 .. c.end : text[i] \notin EndMark }
  <2>2. E \subseteq 0 .. n /\ E # {}
    BY <1>2, <2>1
  <2>3. Max(E) \in E
    <3> HIDE DEF E
    <3> QED BY <1>2, <2>2, MaxOf
  <2>4. Max(E) \in 0 .. n
    <3> HIDE DEF E
    <3> QED BY <2>2, <2>3
  <2>5. ending(c) = IF c.quoted THEN c.end ELSE Max(E)
    OBVIOUS
  <2> HIDE DEF E, ending
  <2> QED BY <2>1, <2>4, <2>5
<1>5. \A c \in good : c.start < ending(c)
  OBVIOUS
<1> HIDE DEF ending, good
<1>6. values \in Seq(R) /\ Range(values) \subseteq good
  BY <1>1, KeptElements
<1> HIDE DEF values, R
<1>7. /\ DOMAIN values = 1 .. Len(values) /\ Len(values) \in Nat
      /\ \A i \in 1 .. Len(values) : values[i] \in R /\ values[i] \in Range(values)
  BY <1>6, SeqElements
<1>8. DOMAIN values = 1 .. Len(values) /\ Len(values) \in Nat
  BY <1>7
<1>9. ASSUME NEW i \in DOMAIN values
      PROVE  spans0[i] \in Tier(text, "sure") /\ spans0[i].kind = "PASSWORD"
  <2> DEFINE v == values[i]
             e == ending(v)
  <2>1. v \in R /\ v.start < e /\ e \in 0 .. n
    BY <1>4, <1>5, <1>6, <1>7
  <2>2. v.start \in 0 .. n
    BY <2>1 DEF R
  <2> DEFINE span == [ start |-> runeOffsets(text)[v.start], end |-> runeOffsets(text)[e],
                       kind |-> "PASSWORD", tier |-> "sure" ]
  <2>3. spans0[i] = span
    OBVIOUS
  <2> HIDE DEF v, e, spans0
  <2>4. span \in Tier(text, "sure")
    BY <1>1, <2>1, <2>2, StretchIsSpan DEF n
  <2> QED BY <2>3, <2>4
<1>10. DOMAIN spans0 = 1 .. Len(values)
  BY <1>8
<1>11. spans0 = [i \in 1 .. Len(values) |-> spans0[i]]
  BY <1>8
<1> HIDE DEF spans0
<1>12. spans0 \in Seq(Tier(text, "sure"))
  BY <1>8, <1>9, <1>11
<1>13. \A s \in Range(spans0) : s.kind = "PASSWORD"
  BY <1>8, <1>9, <1>10 DEF Range
<1> QED BY <1>3, <1>12, <1>13 DEF text, captures

\* The place where a word stands is a stretch of the text.
LEMMA HitsAreSpans ==
  ASSUME NEW text \in Seq(Char), "CUSTOM" \in Kind
  PROVE  AllHits(text) \subseteq Tier(text, "sure")
<1> SUFFICES ASSUME NEW w \in Words, NEW a \in Bounded(text, w)
             PROVE  Hit(text, w, a) \in Tier(text, "sure")
  BY DEF AllHits, Hits
<1>1. w \in Seq(Char) /\ LowEnd(w) > 0
  <2>1. Words \subseteq Seq(Char)
    BY DictIs
  <2>2. LowEnd(w) > 0
    BY Zenon DEF Words
  <2> QED BY <2>1, <2>2
<1>2. Len(w) \in Nat \ {0}
  <2>1. LowAt(w)[0] = 0 /\ LowEnd(w) = LowAt(w)[Len(w)] /\ Len(w) \in Nat
    BY <1>1, LowerIs
  <2> QED BY <1>1, <2>1
<1>3. a \in 0 .. Len(text) /\ a + Len(w) <= Len(text) /\ Len(text) \in Nat
  BY DEF Bounded, StandsAt
<1> DEFINE b == a + Len(w)
<1>4. b \in 0 .. Len(text) /\ a < b
  BY <1>2, <1>3
<1> HIDE DEF b
<1>5. [start |-> runeOffsets(text)[a], end |-> runeOffsets(text)[b],
       kind |-> "CUSTOM", tier |-> "sure"] \in Tier(text, "sure")
  BY <1>3, <1>4, StretchIsSpan
<1> QED BY <1>5 DEF Hit, b

\* Everything that is collected is a stretch of the text, and the custom words are hits.
LEMMA Collected ==
  ASSUME NEW in \in Inputs
  PROVE  /\ collect(in) \in Seq(Tier(in.text, "sure"))
         /\ collectML(in) \in Seq(Tier(in.text, "guess"))
<1>1. in.matches \in Seq(Tier(in.text, "sure"))
  BY MatchesAreSpans
<1>2. contextSpans(in.text, in.captures) \in Seq(Tier(in.text, "sure"))
  BY ContextIs
<1>3. collectCustom(in.text) \in Seq(Tier(in.text, "sure"))
  <2>1. in.text \in Seq(Char) /\ "CUSTOM" \in Kind
    BY InputIs
  <2>2. collectCustom(in.text) \in Seq(AllHits(in.text))
    BY <2>1, CustomIs
  <2>3. AllHits(in.text) \subseteq Tier(in.text, "sure")
    BY <2>1, HitsAreSpans
  <2> QED BY <2>2, <2>3
<1>4. collect(in) \in Seq(Tier(in.text, "sure"))
  BY <1>1, <1>2, <1>3, RangeConcat DEF collect
<1>5. collectML(in) \in Seq(Tier(in.text, "guess"))
  <2> DEFINE text == in.text
             n == Len(text)
             R == [start : Int, end : Int, label : DOMAIN sanitizeLabel, entity : Seq(Char)]
             usable == { e \in Range(in.entities) : Usable(text, e) }
             good == Kept(in.entities, usable)
             spans0 == [i \in DOMAIN good |-> byteRange(text, good[i])]
  <2>1. /\ text \in Seq(Char) /\ in.entities \in Seq(R)
        /\ \A l \in DOMAIN sanitizeLabel : sanitizeLabel[l] \in Kind \union {NoKind}
    BY InputIs
  <2>2. collectML(in) = spans0
    BY DEF collectML
  <2>3. \A e \in usable : Usable(text, e)
    OBVIOUS
  <2> HIDE DEF text, usable
  <2>4. good \in Seq(R) /\ Range(good) \subseteq usable
    BY <2>1, KeptElements
  <2> HIDE DEF good, R
  <2>5. DOMAIN good = 1 .. Len(good) /\ Len(good) \in Nat
    BY <2>4, SeqElements
  <2>6. \A i \in DOMAIN good : good[i] \in R /\ good[i] \in usable
    <3>1. \A i \in 1 .. Len(good) : good[i] \in R /\ good[i] \in Range(good)
      BY <2>4, SeqElements
    <3> QED BY <2>4, <2>5, <3>1
  <2>7. ASSUME NEW i \in DOMAIN good PROVE spans0[i] \in Tier(text, "guess")
    <3> DEFINE e == good[i]
               kind == sanitizeLabel[e.label]
    <3>1. e \in R /\ Usable(text, e)
      BY <2>3, <2>6
    <3>2. spans0[i] = byteRange(text, e)
      OBVIOUS
    <3> HIDE DEF e, spans0
    <3>3. e.start \in Int /\ e.end \in Int /\ e.label \in DOMAIN sanitizeLabel
      BY <3>1 DEF R
    <3>4. 0 <= e.start /\ e.start < e.end /\ e.end <= n /\ kind # NoKind
      BY <3>1 DEF Usable
    <3>5. n \in Nat
      BY <2>1
    <3> DEFINE i1 == e.start
               i2 == e.end
    <3>6. i1 \in 0 .. n /\ i2 \in 0 .. n /\ i1 < i2
      BY <3>3, <3>4, <3>5
    <3>7. kind \in Kind
      BY <2>1, <3>3, <3>4
    <3>8. byteRange(text, e) = [start |-> runeOffsets(text)[i1], end |-> runeOffsets(text)[i2],
                                kind |-> kind, tier |-> "guess"]
      BY DEF byteRange
    <3> HIDE DEF i1, i2, kind
    <3>9. byteRange(text, e) \in Tier(text, "guess")
      BY <2>1, <3>6, <3>7, <3>8, StretchIsSpan
    <3> QED BY <3>2, <3>9
  <2>8. spans0 = [i \in 1 .. Len(good) |-> spans0[i]]
    BY <2>5
  <2> HIDE DEF spans0
  <2>9. spans0 \in Seq(Tier(text, "guess"))
    BY <2>5, <2>7, <2>8
  <2> QED BY <2>2, <2>9 DEF text
<1> QED BY <1>4, <1>5

\* Of what is collected, only the dictionary's finds are custom words, and all of them are
\* collected.
LEMMA CustomCollected ==
  ASSUME NEW in \in Inputs
  PROVE  /\ \A s \in Range(collect(in)) : s.kind = "CUSTOM" => s \in AllHits(in.text)
         /\ Range(collectCustom(in.text)) \subseteq Range(collect(in))
<1> DEFINE S == Tier(in.text, "sure")
           m == in.matches
           c == contextSpans(in.text, in.captures)
           d == collectCustom(in.text)
<1>1. m \in Seq(S) /\ \A s \in Range(m) : s.kind # "CUSTOM"
  BY MatchesAreSpans
<1>2. c \in Seq(S) /\ \A s \in Range(c) : s.kind = "PASSWORD"
  BY ContextIs
<1>3. in.text \in Seq(Char) /\ "CUSTOM" \in Kind
  BY InputIs
<1>4. d \in Seq(AllHits(in.text)) /\ AllHits(in.text) \subseteq S
  BY <1>3, CustomIs, HitsAreSpans
<1>5. collect(in) = m \o c \o d
  BY DEF collect
<1> HIDE DEF S, m, c, d
<1>6. d \in Seq(S) /\ Range(d) \subseteq AllHits(in.text)
  BY <1>4, RangeSeq
<1>7. m \o c \in Seq(S) /\ Range(m \o c) = Range(m) \union Range(c)
  BY <1>1, <1>2, RangeConcat
<1>8. Range((m \o c) \o d) = (Range(m) \union Range(c)) \union Range(d)
  <2> DEFINE e == m \o c
  <2>1. e \in Seq(S) /\ Range(e) = Range(m) \union Range(c)
    BY <1>7
  <2> HIDE DEF e
  <2>2. Range(e \o d) = Range(e) \union Range(d)
    BY <1>6, <2>1, RangeConcat
  <2> QED BY <2>1, <2>2 DEF e
<1>9. "PASSWORD" # "CUSTOM"
  OBVIOUS
<1> QED BY <1>1, <1>2, <1>5, <1>6, <1>8, <1>9 DEF d

-----------------------------------------------------------------------------
\* The sweep.

\* The ends of a span are numbers, and it is not empty.
LEMMA CutsAreNumbers ==
  ASSUME NEW text \in Seq(Char)
  PROVE  /\ Cut(text) \subseteq Nat
         /\ \A s \in Span(text) : /\ s.start \in Nat /\ s.end \in Nat /\ s.start < s.end
                                  /\ s.kind \in Kind /\ s.tier \in {"sure", "guess"}
                                  /\ {s.start, s.end} \subseteq Cut(text)
<1>1. Cut(text) \subseteq Nat
  <2>1. runeOffsets(text) \in [0 .. Len(text) -> Nat]
    BY OffsetsGrow
  <2> HIDE DEF Cut
  <2> QED BY <2>1 DEF Cut, Range
<1> QED BY <1>1 DEF Span

\* What is considered: everything trusted, and the guesses that share no byte with it.
Free(in) ==
  { g \in Range(collectML(in)) : \A s \in Range(collect(in)) : Bytes(s) \cap Bytes(g) = {} }

Considered(in) == Range(collect(in)) \union Free(in)

\* Whatever order the index has, what is considered is merged, and sorted.
LEMMA MergedIs ==
  ASSUME NEW in \in Inputs, NEW idx \in ByStart(collect(in))
  PROVE  LET merged == resolveConflicts(collect(in), idx, collectML(in))
         IN merged \in Seq(Span(in.text)) /\ Range(merged) = Considered(in)
<1> DEFINE S == Span(in.text)
           c == collect(in)
           guess == collectML(in)
           free == { g \in Range(guess) : ~overlaps(idx, g) }
<1>1. c \in Seq(S) /\ guess \in Seq(S)
  <2>1. Tier(in.text, "sure") \subseteq S /\ Tier(in.text, "guess") \subseteq S
    BY DEF Tier
  <2> HIDE DEF S
  <2> QED BY <2>1, Collected
<1>2. \A s \in S : s.start \in Nat /\ s.end \in Nat /\ s.start < s.end
  BY CutsAreNumbers, TextAssumption
<1> HIDE DEF S, c, guess
<1>3. ASSUME NEW g \in Range(guess)
      PROVE  overlaps(idx, g) <=> \E s \in Range(c) : Bytes(s) \cap Bytes(g) # {}
  <2>1. g \in S
    BY <1>1, RangeSeq
  <2>2. g.start \in Nat /\ g.end \in Nat /\ g.start < g.end
    BY <1>2, <2>1
  <2>3. idx \in ByStart(c)
    BY DEF c
  <2> QED BY <1>1, <1>2, <2>2, <2>3, OverlapsIs
<1>4. Kept(guess, free) \in Seq(S) /\ Range(Kept(guess, free)) = Range(guess) \cap free
  BY <1>1, KeptElements
<1>5. Range(guess) \cap free = Free(in)
  BY <1>3 DEF Free, c, guess
<1> HIDE DEF free
<1>6. c \o Kept(guess, free) \in Seq(S) /\ Range(c \o Kept(guess, free)) = Range(c) \union Free(in)
  BY <1>1, <1>4, <1>5, RangeConcat
<1>7. resolveConflicts(c, idx, guess) = c \o Kept(guess, free)
  BY DEF resolveConflicts, free
<1> QED BY <1>6, <1>7 DEF Considered, S, c, guess

\* What a span holds is a value.
LEMMA SliceIsValue ==
  ASSUME NEW in \in Inputs, NEW s \in Span(in.text)
  PROVE  Slice(in.text, s) \in Value
<1> DEFINE text == in.text
           at == runeOffsets(text)
           n == Len(text)
           inside == { i \in DOMAIN text : s.start <= at[i - 1] /\ at[i] <= s.end }
<1>1. /\ text \in Seq(Char) /\ n \in Nat /\ DOMAIN text = 1 .. n
      /\ \A i, j \in 1 .. n : i <= j => SubSeq(text, i, j) \in Value
  <2>1. /\ text \in Seq(Char)
        /\ \A i, j \in DOMAIN text : i <= j => SubSeq(text, i, j) \in Value
    BY TextAssumption, Zenon
  <2>2. n \in Nat /\ DOMAIN text = 1 .. n
    BY <2>1
  <2> QED BY <2>1, <2>2
<1>2. at \in [0 .. n -> Nat] /\ \A i, j \in 0 .. n : i < j => at[i] < at[j]
  BY <1>1, OffsetsGrow
<1>3. s.start \in Cut(text) /\ s.end \in Cut(text) /\ s.start < s.end
  BY DEF Span
<1>4. Slice(text, s) = IF inside = {} THEN << >> ELSE SubSeq(text, Min(inside), Max(inside))
  BY DEF Slice
<1> HIDE DEF at, n, text
<1>5. PICK a \in 0 .. n, b \in 0 .. n : s.start = at[a] /\ s.end = at[b]
  BY <1>2, <1>3 DEF Cut, Range, at
<1>6. a < b
  <2>1. at[a] \in Nat /\ at[b] \in Nat /\ at[a] < at[b]
    BY <1>2, <1>3, <1>5
  <2>2. a # b /\ ~(b < a)
    BY <1>2, <2>1
  <2> QED BY <1>1, <2>2
<1>7. b \in inside
  <2>1. b \in 1 .. n /\ b - 1 \in 0 .. n /\ (a = b - 1 \/ a < b - 1)
    BY <1>1, <1>6
  <2>2. at[a] <= at[b - 1] /\ at[b] <= at[b]
    BY <1>2, <2>1
  <2> QED BY <1>1, <1>5, <2>1, <2>2
<1>8. inside \in SUBSET Nat /\ inside \in SUBSET (0 .. n)
  BY <1>1
<1> HIDE DEF inside
<1>9. /\ Min(inside) \in inside /\ Max(inside) \in inside
      /\ \A x \in inside : Min(inside) <= x
  BY <1>1, <1>7, <1>8, MinOf, MaxOf
<1>10. Min(inside) \in 1 .. n /\ Max(inside) \in 1 .. n /\ Min(inside) <= Max(inside)
  BY <1>1, <1>9 DEF inside
<1> QED BY <1>1, <1>4, <1>7, <1>10 DEF text

-----------------------------------------------------------------------------
\* What a sweep keeps.
TextInv ==
  /\ input \in Inputs
  /\ phase \in {"collect", "sweep", "done"}
  /\ phase = "collect" => spans = << >> /\ masked = << >>
  /\ sure = IF phase = "collect" THEN << >> ELSE collect(input)
  /\ spans \in Seq(Span(input.text)) /\ masked \in Seq(Span(input.text))
  \* The spans are swept from left to right, and none is behind what is masked.
  /\ \A i, j \in 1 .. Len(spans) : i < j => spans[i].start <= spans[j].start
  /\ \A m \in Masked : \A s \in Range(spans) : m.start <= s.start
  /\ last \in Nat
  /\ last # 0 => \E m \in Masked : m.end = last
  /\ MaskedInOrder
  \* Everything considered waits, or begins inside something masked.
  /\ Range(spans) \union Masked \subseteq Considered(input)
  /\ phase # "collect" =>
        \A c \in Considered(input) : c \in Range(spans) \/ \E m \in Masked : c.start \in Bytes(m)
  /\ phase = "done" => spans = << >>

\* The invariant holds at first, and every action keeps it.
LEMMA TextInitEstablishes ==
  ASSUME TextInit
  PROVE  TextInv
<1>1. /\ input \in Inputs /\ sure = << >> /\ spans = << >> /\ masked = << >>
      /\ last = 0 /\ phase = "collect"
  BY DEF TextInit
<1>2. Len(spans) = 0 /\ Range(spans) = {} /\ Masked = {} /\ DOMAIN masked = {}
  BY <1>1 DEF Masked, Range
<1>3. MaskedInOrder
  BY <1>2 DEF MaskedInOrder
<1> QED BY <1>1, <1>2, <1>3 DEF TextInv

\* All that is considered waits in its order, and nothing is masked yet.
LEMMA CollectPreserves ==
  ASSUME TextInv, Collect
  PROVE  TextInv'
<1>1. /\ phase = "collect" /\ phase' = "sweep" /\ sure' = collect(input)
      /\ input' = input /\ last' = last /\ masked' = masked
  BY DEF Collect
<1>2. masked = << >> /\ last \in Nat /\ input \in Inputs /\ (last # 0 => \E m \in Masked : m.end = last)
  BY <1>1 DEF TextInv
<1>3. Masked = {} /\ Masked' = {} /\ DOMAIN masked' = {} /\ masked' = << >>
  BY <1>1, <1>2 DEF Masked, Range
<1>4. PICK idx \in ByStart(collect(input)) :
         spans' = sortSpans(resolveConflicts(collect(input), idx, collectML(input)))
  BY <1>1 DEF Collect
<1> DEFINE merged == resolveConflicts(collect(input), idx, collectML(input))
           S == Span(input.text)
<1>5. merged \in Seq(S) /\ Range(merged) = Considered(input)
  BY <1>2, <1>4, MergedIs
<1>6. \A s \in S : s.start \in Int /\ s.end \in Int
  <2>1. input.text \in Seq(Char)
    BY <1>2, TextAssumption
  <2> QED BY <2>1, CutsAreNumbers
<1>7. spans' = sortSpans(merged)
  BY <1>4
<1> HIDE DEF merged, S
<1>8. /\ spans' \in Seq(S) /\ Range(spans') = Considered(input)
      /\ \A i, j \in DOMAIN spans' : i < j => spans'[i].start <= spans'[j].start
  BY <1>5, <1>6, <1>7, SortedSpans
<1>9. DOMAIN spans' = 1 .. Len(spans')
  BY <1>8
<1>10. MaskedInOrder'
  BY <1>3 DEF MaskedInOrder
<1>11. masked' \in Seq(S)
  BY <1>3
<1> QED BY <1>1, <1>2, <1>3, <1>8, <1>9, <1>10, <1>11 DEF TextInv, S

\* What a step of the sweep knows of the first span.
LEMMA FirstSpan ==
  ASSUME TextInv, spans # << >>
  PROVE  /\ Head(spans) \in Span(input.text) /\ Head(spans) \in Range(spans)
         /\ Head(spans).start \in Nat /\ Head(spans).end \in Nat
         /\ Head(spans).start < Head(spans).end
         /\ Tail(spans) \in Seq(Span(input.text))
         /\ Range(spans) = {Head(spans)} \union Range(Tail(spans))
         /\ \A s \in Range(Tail(spans)) : Head(spans).start <= s.start
         /\ \A i, j \in 1 .. Len(Tail(spans)) : i < j => Tail(spans)[i].start <= Tail(spans)[j].start
<1> DEFINE S == Span(input.text)
           n == Len(spans)
<1>1. /\ spans \in Seq(S) /\ input \in Inputs
      /\ \A i, j \in 1 .. n : i < j => spans[i].start <= spans[j].start
  BY DEF TextInv
<1>2. input.text \in Seq(Char)
  BY <1>1, TextAssumption
<1>3. \A s \in S : s.start \in Nat /\ s.end \in Nat /\ s.start < s.end
  BY <1>2, CutsAreNumbers
<1> HIDE DEF S
<1>4. /\ n \in Nat \ {0} /\ DOMAIN spans = 1 .. n /\ Head(spans) = spans[1]
      /\ Tail(spans) \in Seq(S) /\ Len(Tail(spans)) = n - 1
      /\ \A i \in 1 .. n - 1 : Tail(spans)[i] = spans[i + 1]
  BY <1>1, HeadTailProperties
<1> DEFINE t == Tail(spans)
<1> HIDE DEF n, t
<1>5. DOMAIN t = 1 .. n - 1 /\ 1 \in 1 .. n
  BY <1>4 DEF t
<1>6. Range(spans) = {spans[1]} \union Range(t)
  <2>1. ASSUME NEW i \in 1 .. n PROVE spans[i] \in {spans[1]} \union Range(t)
    <3>1. CASE i # 1
      <4>1. i - 1 \in 1 .. n - 1 /\ (i - 1) + 1 = i
        BY <1>4, <3>1
      <4>2. t[i - 1] = spans[i]
        BY <1>4, <4>1 DEF t
      <4> QED BY <1>5, <4>1, <4>2 DEF Range
    <3> QED BY <3>1
  <2>2. ASSUME NEW i \in 1 .. n - 1 PROVE t[i] \in Range(spans)
    <3>1. i + 1 \in 1 .. n /\ t[i] = spans[i + 1]
      BY <1>4 DEF t
    <3> QED BY <1>4, <3>1 DEF Range
  <2>3. spans[1] \in Range(spans)
    BY <1>4, <1>5 DEF Range
  <2> QED BY <1>4, <1>5, <2>1, <2>2, <2>3 DEF Range
<1>7. ASSUME NEW s \in Range(t) PROVE spans[1].start <= s.start
  <2>1. PICK i \in 1 .. n - 1 : s = t[i]
    BY <1>5 DEF Range
  <2>2. i + 1 \in 1 .. n /\ 1 < i + 1 /\ s = spans[i + 1]
    BY <1>4, <2>1 DEF t
  <2> QED BY <1>1, <1>5, <2>2 DEF n
<1>8. ASSUME NEW i \in 1 .. n - 1, NEW j \in 1 .. n - 1, i < j
      PROVE  t[i].start <= t[j].start
  <2>1. i + 1 \in 1 .. n /\ j + 1 \in 1 .. n /\ i + 1 < j + 1
    BY <1>4, <1>8
  <2> QED BY <1>1, <1>4, <2>1 DEF n, t
<1>9. Head(spans) \in S /\ Head(spans) \in Range(spans)
  BY <1>4, <1>5, <1>6, RangeSeq, <1>1
<1> QED BY <1>3, <1>4, <1>6, <1>7, <1>8, <1>9 DEF S, n, t

\* The first span becomes the last masked one, and its value gets a token.
LEMMA MaskPreserves ==
  ASSUME TextInv, Mask
  PROVE  TextInv' /\ \E kind \in Kind, value \in Value : Replace(kind, value)
<1> DEFINE s == Head(spans)
           S == Span(input.text)
<1>1. /\ phase = "sweep" /\ spans # << >> /\ s.start >= last
      /\ Replace(s.kind, Slice(input.text, s))
      /\ masked' = Append(masked, s) /\ last' = s.end /\ spans' = Tail(spans)
      /\ input' = input /\ sure' = sure /\ phase' = phase
  BY DEF Mask
<1>2. /\ s \in S /\ s \in Range(spans)
      /\ s.start \in Nat /\ s.end \in Nat /\ s.start < s.end
      /\ spans' \in Seq(S)
      /\ Range(spans) = {s} \union Range(spans')
      /\ \A r \in Range(spans') : s.start <= r.start
      /\ \A i, j \in 1 .. Len(spans') : i < j => spans'[i].start <= spans'[j].start
  BY <1>1, FirstSpan
<1>3. /\ input \in Inputs /\ sure = collect(input) /\ last \in Nat
      /\ masked \in Seq(S) /\ MaskedInOrder
      /\ \A m \in Masked : \A r \in Range(spans) : m.start <= r.start
      /\ Range(spans) \union Masked \subseteq Considered(input)
      /\ \A c \in Considered(input) : c \in Range(spans) \/ \E m \in Masked : c.start \in Bytes(m)
  BY <1>1 DEF TextInv
<1>4. Slice(input.text, s) \in Value /\ s.kind \in Kind
  BY <1>2, <1>3, SliceIsValue DEF Span
<1> HIDE DEF s, S
<1>5. /\ masked' \in Seq(S) /\ Masked' = Masked \union {s}
      /\ Len(masked') = Len(masked) + 1 /\ Len(masked) \in Nat
      /\ masked'[Len(masked) + 1] = s
      /\ \A i \in 1 .. Len(masked) : masked'[i] = masked[i]
      /\ DOMAIN masked = 1 .. Len(masked) /\ DOMAIN masked' = 1 .. Len(masked) + 1
  BY <1>1, <1>2, <1>3, RangeAppend DEF Masked
<1>6. MaskedInOrder'
  <2>1. input.text \in Seq(Char)
    BY <1>3, TextAssumption
  <2>2. \A i \in 1 .. Len(masked) : masked[i].end \in Nat /\ masked[i].start \in Nat
    <3>1. \A i \in 1 .. Len(masked) : masked[i] \in S
      BY <1>3
    <3> QED BY <2>1, <3>1, CutsAreNumbers DEF S
  <2>3. \A i \in 1 .. Len(masked) : masked[i].end <= last
    BY <1>3, <1>5 DEF MaskedInOrder
  <2>4. ASSUME NEW i \in DOMAIN masked', NEW j \in DOMAIN masked', i < j
        PROVE  masked'[i].end <= masked'[j].start
    <3>1. i \in 1 .. Len(masked)
      BY <1>5, <2>4
    <3>2. CASE j = Len(masked) + 1
      BY <1>1, <1>2, <1>3, <1>5, <2>2, <2>3, <3>1, <3>2
    <3>3. CASE j # Len(masked) + 1
      <4>1. j \in 1 .. Len(masked)
        BY <1>5, <3>3
      <4> QED BY <1>3, <1>5, <2>4, <3>1, <4>1 DEF MaskedInOrder
    <3> QED BY <3>2, <3>3
  <2>5. ASSUME NEW i \in DOMAIN masked' PROVE masked'[i].end <= last'
    <3>1. CASE i = Len(masked) + 1
      BY <1>1, <1>2, <1>5, <3>1
    <3>2. CASE i # Len(masked) + 1
      <4>1. i \in 1 .. Len(masked)
        BY <1>5, <3>2
      <4>2. masked'[i].end <= last /\ masked'[i].end \in Nat
        BY <1>5, <2>2, <2>3, <4>1
      <4> QED BY <1>1, <1>2, <1>3, <4>2
    <3> QED BY <3>1, <3>2
  <2> QED BY <2>4, <2>5 DEF MaskedInOrder
<1>7. \A m \in Masked' : \A r \in Range(spans') : m.start <= r.start
  BY <1>2, <1>3, <1>5
<1>8. Range(spans') \union Masked' \subseteq Considered(input)
  BY <1>2, <1>3, <1>5
<1>9. ASSUME NEW c \in Considered(input)
      PROVE  c \in Range(spans') \/ \E m \in Masked' : c.start \in Bytes(m)
  <2>1. CASE c = s
    <3>1. c.start \in Bytes(s)
      BY <1>2, <2>1 DEF Bytes
    <3> QED BY <1>5, <3>1
  <2> QED BY <1>2, <1>3, <1>5, <2>1
<1>10. \E m \in Masked' : m.end = last'
  BY <1>1, <1>5
<1>11. TextInv'
  BY <1>1, <1>2, <1>3, <1>5, <1>6, <1>7, <1>8, <1>9, <1>10 DEF TextInv, S
<1>12. \E kind \in Kind, value \in Value : Replace(kind, value)
  BY <1>1, <1>4
<1> QED BY <1>11, <1>12

\* A span that is skipped begins inside the last masked one.
LEMMA SkipPreserves ==
  ASSUME TextInv, Skip
  PROVE  TextInv'
<1> DEFINE s == Head(spans)
           S == Span(input.text)
<1>1. /\ phase = "sweep" /\ spans # << >> /\ s.start < last /\ spans' = Tail(spans)
      /\ input' = input /\ sure' = sure /\ phase' = phase /\ last' = last /\ masked' = masked
  BY DEF Skip
<1>2. /\ s \in S /\ s \in Range(spans) /\ s.start \in Nat
      /\ spans' \in Seq(S)
      /\ Range(spans) = {s} \union Range(spans')
      /\ \A i, j \in 1 .. Len(spans') : i < j => spans'[i].start <= spans'[j].start
  BY <1>1, FirstSpan
<1>3. /\ input \in Inputs /\ sure = collect(input) /\ last \in Nat
      /\ masked \in Seq(S) /\ MaskedInOrder
      /\ last # 0 => \E m \in Masked : m.end = last
      /\ \A m \in Masked : \A r \in Range(spans) : m.start <= r.start
      /\ Range(spans) \union Masked \subseteq Considered(input)
      /\ \A c \in Considered(input) : c \in Range(spans) \/ \E m \in Masked : c.start \in Bytes(m)
  BY <1>1 DEF TextInv
<1> HIDE DEF s, S
<1>4. Masked' = Masked /\ MaskedInOrder'
  BY <1>1, <1>3 DEF Masked, MaskedInOrder
<1>5. \E m \in Masked : s.start \in Bytes(m)
  <2>1. PICK m \in Masked : m.end = last
    BY <1>1, <1>2, <1>3
  <2>2. m \in S
    BY <1>3, RangeSeq DEF Masked
  <2>3. m.start \in Nat /\ m.start <= s.start /\ s.start < m.end
    <3>1. input.text \in Seq(Char)
      BY <1>3, TextAssumption
    <3> QED BY <1>1, <1>2, <1>3, <2>1, <2>2, <3>1, CutsAreNumbers DEF S
  <2> QED BY <1>2, <1>3, <2>1, <2>3 DEF Bytes
<1>6. ASSUME NEW c \in Considered(input)
      PROVE  c \in Range(spans') \/ \E m \in Masked' : c.start \in Bytes(m)
  BY <1>2, <1>3, <1>4, <1>5
<1>7. \A m \in Masked' : \A r \in Range(spans') : m.start <= r.start
  BY <1>2, <1>3, <1>4
<1> QED BY <1>1, <1>2, <1>3, <1>4, <1>6, <1>7 DEF TextInv, S

\* The end of the text masks nothing.
LEMMA CopyPreserves ==
  ASSUME TextInv, Copy
  PROVE  TextInv'
<1>1. /\ phase = "sweep" /\ spans = << >> /\ phase' = "done"
      /\ UNCHANGED <<input, sure, spans, last, masked>>
  BY DEF Copy
<1>2. Masked' = Masked /\ (MaskedInOrder' <=> MaskedInOrder)
  BY <1>1 DEF Masked, MaskedInOrder
<1> QED BY <1>1, <1>2 DEF TextInv

\* A step of a text is one of its session, or none.
LEMMA TextStep ==
  ASSUME TextInv, [TextNext]_textVars
  PROVE  TextInv' /\ [SessionNext]_sessionVars
<1>1. CASE Collect
  BY <1>1, CollectPreserves DEF Collect
<1>2. CASE Mask
  BY <1>2, MaskPreserves DEF SessionNext
<1>3. CASE Skip
  BY <1>3, SkipPreserves DEF Skip
<1>4. CASE Copy
  BY <1>4, CopyPreserves DEF Copy
<1>5. CASE UNCHANGED textVars
  <2>1. UNCHANGED <<input, sure, spans, phase, last, masked>> /\ UNCHANGED sessionVars
    BY <1>5 DEF textVars
  <2>2. Masked' = Masked /\ (MaskedInOrder' <=> MaskedInOrder)
    BY <2>1 DEF Masked, MaskedInOrder
  <2> QED BY <2>1, <2>2 DEF TextInv
<1> QED BY <1>1, <1>2, <1>3, <1>4, <1>5 DEF TextNext

\* The invariant holds while a text is masked.
LEMMA TextInvariant == TextSpec => []TextInv
  BY TextInitEstablishes, TextStep, PTL DEF TextSpec

\* Whatever is detected in a text, its masking is one call's session.
THEOREM MaskingATextIsASession == TextSpec => SessionSpec
<1>1. TextInit => SessionInit
  BY DEF TextInit
<1> QED BY <1>1, TextInvariant, TextStep, PTL DEF TextSpec, SessionSpec

-----------------------------------------------------------------------------
\* What the sweep has done.

\* The input, and the tiers of what was found in it.
LEMMA InputText ==
  ASSUME TextInv
  PROVE  /\ input \in Inputs /\ input.text \in Seq(Char)
         /\ Range(spans) \union Masked \subseteq Span(input.text)
         /\ \A s \in Range(collect(input)) : s \in Span(input.text) /\ s.tier = "sure"
         /\ \A g \in Range(collectML(input)) : g \in Span(input.text) /\ g.tier = "guess"
<1>1. /\ input \in Inputs
      /\ spans \in Seq(Span(input.text)) /\ masked \in Seq(Span(input.text))
  BY DEF TextInv
<1>2. Range(spans) \union Masked \subseteq Span(input.text)
  BY <1>1, RangeSeq DEF Masked
<1>3. /\ Range(collect(input)) \subseteq Tier(input.text, "sure")
      /\ Range(collectML(input)) \subseteq Tier(input.text, "guess")
  <2>1. /\ collect(input) \in Seq(Tier(input.text, "sure"))
        /\ collectML(input) \in Seq(Tier(input.text, "guess"))
    BY <1>1, Collected
  <2> QED BY <2>1, RangeSeq
<1>4. input.text \in Seq(Char)
  BY <1>1, TextAssumption
<1> QED BY <1>1, <1>2, <1>3, <1>4 DEF Tier

\* A masked guess shares no byte with anything trusted.
LEMMA MaskedGuessIsFree ==
  ASSUME TextInv, NEW m \in Masked, m.tier = "guess", NEW s \in Range(collect(input))
  PROVE  Bytes(s) \cap Bytes(m) = {}
<1>1. m \in Considered(input)
  BY DEF TextInv
<1>2. m \notin Range(collect(input))
  BY InputText
<1> QED BY <1>1, <1>2 DEF Considered, Free

\* The invariant says that guesses have given way,
LEMMA GuessesHaveGivenWay ==
  ASSUME TextInv
  PROVE  GuessesGiveWay
<1>1. ASSUME NEW m \in Masked, m.tier = "guess", NEW s \in Range(sure)
      PROVE  Bytes(s) \cap Bytes(m) = {}
  <2>1. s \in Range(collect(input))
    BY DEF TextInv, Range
  <2> QED BY <1>1, <2>1, MaskedGuessIsFree
<1>2. ASSUME phase = "done", NEW g \in Range(collectML(input))
      PROVE  \E s \in Range(sure) \union Masked : Bytes(s) \cap Bytes(g) # {}
  <2>1. sure = collect(input) /\ spans = << >>
    BY <1>2 DEF TextInv
  <2>2. CASE g \in Free(input)
    <3>1. g \in Considered(input) /\ g \notin Range(spans)
      BY <2>1, <2>2 DEF Considered, Range
    <3>2. PICK m \in Masked : g.start \in Bytes(m)
      BY <1>2, <3>1 DEF TextInv
    <3>3. g.start \in Bytes(g)
      BY InputText, CutsAreNumbers DEF Bytes
    <3> QED BY <3>2, <3>3
  <2>3. CASE g \notin Free(input)
    <3>1. PICK s \in Range(collect(input)) : Bytes(s) \cap Bytes(g) # {}
      BY <2>3 DEF Free
    <3> QED BY <2>1, <3>1
  <2> QED BY <2>2, <2>3
<1> QED BY <1>1, <1>2 DEF GuessesGiveWay

\* and that everything trusted has been met.
LEMMA EverySureHasBeenMet ==
  ASSUME TextInv
  PROVE  EverySureIsMet
<1> SUFFICES ASSUME phase = "done", NEW s \in Range(sure)
             PROVE  \E m \in Masked : m.tier = "sure" /\ s.start \in Bytes(m)
  BY DEF EverySureIsMet
<1>1. sure = collect(input) /\ spans = << >>
  BY DEF TextInv
<1>2. s \in Considered(input) /\ s \notin Range(spans)
  BY <1>1 DEF Considered, Range
<1>3. PICK m \in Masked : s.start \in Bytes(m)
  BY <1>2 DEF TextInv
<1>4. s.start \in Bytes(s)
  BY <1>1, InputText, CutsAreNumbers DEF Bytes
<1>5. m.tier # "guess"
  BY <1>1, <1>3, <1>4, MaskedGuessIsFree
<1>6. m.tier \in {"sure", "guess"}
  BY InputText, CutsAreNumbers
<1> QED BY <1>3, <1>5, <1>6

\* Whatever the detectors and the model report, in whatever order and of whatever width
\* the characters are, only stretches of the text are considered, and the session keeps
\* its types.
THEOREM TextTypeCorrect == TextSpec => []TextTypeOK
<1>1. ASSUME TextInv, SessionTypeOK PROVE TextTypeOK
  <2>1. phase \in {"collect", "sweep", "done"}
    BY <1>1 DEF TextInv
  <2>2. ASSUME NEW s \in Range(spans) \union Masked
        PROVE  /\ s.start < s.end /\ s.kind \in Kind
               /\ {s.start, s.end} \subseteq Range(runeOffsets(input.text))
    BY <1>1, InputText, CutsAreNumbers DEF Cut
  <2> QED BY <1>1, <2>1, <2>2 DEF TextTypeOK
<1> QED BY <1>1, TextInvariant, MaskingATextIsASession, SessionTypeCorrect, PTL

\* The slices the sweep takes never run backwards, and masked stretches are disjoint.
THEOREM TheSweepGoesForward == TextSpec => []MaskedInOrder
<1>1. TextInv => MaskedInOrder
  BY DEF TextInv
<1> QED BY <1>1, TextInvariant, PTL

\* What is masked for a guess shares no byte with a trusted span, and every other usable
\* guess is met.
THEOREM TrustedComesFirst == TextSpec => []GuessesGiveWay
<1>1. TextInv => GuessesGiveWay
  BY GuessesHaveGivenWay
<1> QED BY <1>1, TextInvariant, PTL

\* Where something trusted begins, something trusted is masked.
THEOREM NothingTrustedIsLeftWhole == TextSpec => []EverySureIsMet
<1>1. TextInv => EverySureIsMet
  BY EverySureHasBeenMet
<1> QED BY <1>1, TextInvariant, PTL

\* Tokens and values of a text are in one-to-one correspondence, and no token changes
\* its value.
THEOREM TextTokensAreOneToOne == TextSpec => []OneToOne /\ TokensAreForGood
  BY MaskingATextIsASession, TokensAndValuesAreInverse, TokensNeverChangeMeaning

\* Every stretch that was masked is restored to what stood there.
THEOREM MaskedTextIsRestorable == TextSpec => []RestoresEveryOccurrence
  BY MaskingATextIsASession, EveryOccurrenceRestorable

-----------------------------------------------------------------------------
\* The words.

\* A stretch of characters in lower case is a stretch of the text in lower case.
LEMMA LowerSub ==
  ASSUME NEW text \in Seq(Char), NEW i \in 1 .. Len(text), NEW j \in i .. Len(text)
  PROVE  /\ Lower(SubSeq(text, i, j)) \in Seq(Char)
         /\ Len(Lower(SubSeq(text, i, j))) = (j - i) + 1
         /\ \A k \in 1 .. (j - i) + 1 : Lower(SubSeq(text, i, j))[k] = Lower(text)[(i - 1) + k]
<1> DEFINE sub == SubSeq(text, i, j)
           len == (j - i) + 1
<1>1. Len(text) \in Nat /\ i \in Int /\ j \in Int /\ i <= j /\ len \in Nat /\ j - i + 1 = len
      /\ i >= 1 /\ j <= Len(text)
  OBVIOUS
<1>2. \A k \in i .. j : text[k] \in Char
  BY <1>1
<1>3. /\ sub \in Seq(Char) /\ Len(sub) = len
      /\ \A k \in 1 .. len : sub[k] = text[i + k - 1]
  <2>1. /\ sub \in Seq(Char) /\ Len(sub) = IF i <= j THEN j - i + 1 ELSE 0
        /\ \A k \in 1 .. j - i + 1 : sub[k] = text[i + k - 1]
    BY <1>1, <1>2, SubSeqProperties
  <2> HIDE DEF sub
  <2> QED BY <1>1, <2>1
<1>4. ASSUME NEW k \in 1 .. len
      PROVE  (i - 1) + k \in 1 .. Len(text) /\ i + k - 1 = (i - 1) + k
  <2>1. k \in Int /\ 1 <= k /\ k <= (j - i) + 1
    BY <1>1
  <2> QED BY <1>1, <2>1
<1> HIDE DEF sub, len
<1>5. /\ Lower(sub) \in Seq(Char) /\ Len(Lower(sub)) = len
      /\ \A k \in 1 .. len : Lower(sub)[k] = ToLower[sub[k]]
  BY <1>3, LowerIs
<1>6. \A k \in 1 .. Len(text) : Lower(text)[k] = ToLower[text[k]]
  BY LowerIs
<1>7. ASSUME NEW k \in 1 .. len PROVE Lower(sub)[k] = Lower(text)[(i - 1) + k]
  <2>1. PICK l \in 1 .. Len(text) : l = (i - 1) + k /\ l = i + k - 1
    BY <1>4
  <2>2. sub[k] = text[l]
    BY <1>3, <2>1
  <2>3. Lower(sub)[k] = Lower(text)[l]
    BY <1>5, <1>6, <2>2
  <2> QED BY <2>1, <2>3
<1> QED BY <1>5, <1>7 DEF sub, len

\* The place of a word is where it stands.
LEMMA PlaceOf ==
  ASSUME NEW text \in Seq(Char), NEW w \in Seq(Char), NEW p \in Places(text, w)
  PROVE  /\ p = <<p[1], p[2]>> /\ p[1] \in 1 .. Len(text) /\ p[2] \in p[1] .. Len(text)
         /\ StandsAt(text, w, p[1] - 1) /\ (p[1] - 1) + Len(w) = p[2] /\ Len(w) > 0
<1> DEFINE i == p[1]
           j == p[2]
           low == Lower(SubSeq(text, i, j))
<1>0. Len(text) \in Nat /\ Len(w) \in Nat /\ DOMAIN text = 1 .. Len(text)
  OBVIOUS
<1>1. p = <<i, j>> /\ i \in 1 .. Len(text) /\ j \in i .. Len(text) /\ low = Lower(w)
  <2>1. p \in (DOMAIN text) \X (DOMAIN text) /\ i <= j /\ low = Lower(w)
    BY DEF Places
  <2> HIDE DEF low
  <2> QED BY <1>0, <2>1
<1> HIDE DEF i, j
<1>2. /\ Len(low) = (j - i) + 1
      /\ \A k \in 1 .. (j - i) + 1 : low[k] = Lower(text)[(i - 1) + k]
  BY <1>1, LowerSub
<1>3. Len(Lower(w)) = Len(w)
  BY LowerIs
<1> HIDE DEF low
<1>4. Len(w) = (j - i) + 1
  BY <1>1, <1>2, <1>3
<1>5. (i - 1) + Len(w) = j /\ Len(w) > 0 /\ j <= Len(text)
  BY <1>0, <1>1, <1>4
<1>6. \A k \in 1 .. Len(w) : Lower(text)[(i - 1) + k] = Lower(w)[k]
  BY <1>1, <1>2, <1>4
<1>7. StandsAt(text, w, i - 1)
  BY <1>5, <1>6 DEF StandsAt
<1> QED BY <1>1, <1>5, <1>7 DEF i, j

\* Where a word stands is a place of it.
LEMMA StandsInPlace ==
  ASSUME NEW text \in Seq(Char), NEW w \in Seq(Char), Len(w) > 0,
         NEW a \in 0 .. Len(text), StandsAt(text, w, a)
  PROVE  <<a + 1, a + Len(w)>> \in Places(text, w)
<1> DEFINE i == a + 1
           j == a + Len(w)
           low == Lower(SubSeq(text, i, j))
<1>1. Len(text) \in Nat /\ Len(w) \in Nat /\ DOMAIN text = 1 .. Len(text) /\ a \in Nat
  OBVIOUS
<1>2. a + Len(w) <= Len(text) /\ \A k \in 1 .. Len(w) : Lower(text)[a + k] = Lower(w)[k]
  BY DEF StandsAt
<1>3. i \in 1 .. Len(text) /\ j \in i .. Len(text) /\ (j - i) + 1 = Len(w) /\ i - 1 = a
  BY <1>1, <1>2
<1> HIDE DEF i, j
<1>4. /\ low \in Seq(Char) /\ Len(low) = (j - i) + 1
      /\ \A k \in 1 .. (j - i) + 1 : low[k] = Lower(text)[(i - 1) + k]
  BY <1>3, LowerSub
<1>5. Lower(w) \in Seq(Char) /\ Len(Lower(w)) = Len(w)
  BY LowerIs
<1> HIDE DEF low
<1>6. \A k \in 1 .. Len(w) : low[k] = Lower(w)[k]
  BY <1>2, <1>3, <1>4
<1>7. low = Lower(w)
  BY <1>3, <1>4, <1>5, <1>6, SeqElements
<1>8. <<i, j>> \in (DOMAIN text) \X (DOMAIN text) /\ i <= j
  BY <1>1, <1>3
<1>9. <<i, j>> \in Places(text, w)
  BY <1>7, <1>8 DEF Places, low
<1> QED BY <1>9 DEF i, j

\* No two characters begin at the same byte.
LEMMA OffsetsDiffer ==
  ASSUME NEW text \in Seq(Char), NEW i \in 0 .. Len(text), NEW j \in 0 .. Len(text),
         runeOffsets(text)[i] = runeOffsets(text)[j]
  PROVE  i = j
<1> DEFINE at == runeOffsets(text)
<1>1. at \in [0 .. Len(text) -> Nat] /\ \A k, l \in 0 .. Len(text) : k < l => at[k] < at[l]
  BY OffsetsGrow
<1>2. at[i] = at[j] /\ i \in Nat /\ j \in Nat
  OBVIOUS
<1> HIDE DEF at
<1>3. at[i] \in Nat /\ at[j] \in Nat
  BY <1>1
<1>4. ~(i < j) /\ ~(j < i)
  BY <1>1, <1>2, <1>3
<1> QED BY <1>2, <1>4

\* wordBounded, of byte offsets, says that a place is a whole word.
LEMMA BoundedIsWhole ==
  ASSUME NEW text \in Seq(Char), NEW a \in 0 .. Len(text), NEW b \in 0 .. Len(text)
  PROVE  wordBounded(text, runeOffsets(text)[a], runeOffsets(text)[b])
           <=> WholeWord(text, <<a + 1, b>>)
<1> DEFINE at == runeOffsets(text)
           n == Len(text)
<1>1. n \in Nat /\ DOMAIN text = 1 .. n /\ a \in Nat /\ b \in Nat
  OBVIOUS
<1>2. ASSUME NEW i \in 1 .. n PROVE at[i] = at[a] <=> i = a
  <2>1. i \in 0 .. n
    OBVIOUS
  <2> QED BY <2>1, OffsetsDiffer
<1>3. ASSUME NEW i \in 1 .. n PROVE at[i - 1] = at[b] <=> i = b + 1
  <2>1. i - 1 \in 0 .. n
    BY <1>1
  <2>2. i - 1 = b <=> i = b + 1
    BY <1>1
  <2>3. PICK k \in 0 .. n : k = i - 1
    BY <2>1
  <2>4. at[k] = at[b] <=> k = b
    BY OffsetsDiffer
  <2> QED BY <2>2, <2>3, <2>4
<1>4. wordBounded(text, at[a], at[b])
        <=> \A i \in 1 .. n : at[i] = at[a] \/ at[i - 1] = at[b] => text[i] \notin WordChar
  BY <1>1 DEF wordBounded
<1>5. WholeWord(text, <<a + 1, b>>)
        <=> \A i \in 1 .. n : i = a \/ i = b + 1 => text[i] \notin WordChar
  <2>1. <<a + 1, b>>[1] - 1 = a /\ <<a + 1, b>>[2] + 1 = b + 1
    BY <1>1
  <2> QED BY <1>1, <2>1 DEF WholeWord
<1> HIDE DEF at, n
<1> QED BY <1>2, <1>3, <1>4, <1>5 DEF at

\* Only whole words of the dictionary are hits.
LEMMA HitsAreWords ==
  ASSUME NEW text \in Seq(Char), NEW s \in AllHits(text)
  PROVE  \E word \in Range(CustomWords) : \E p \in Places(text, word) :
            WholeWord(text, p) /\ Bytes(s) = BytesAt(text, p)
<1>1. PICK w \in Words : s \in Hits(text, w)
  BY DEF AllHits
<1>2. PICK a \in Bounded(text, w) : s = Hit(text, w, a)
  BY <1>1 DEF Hits
<1>3. w \in Range(CustomWords) /\ w \in Seq(Char) /\ LowEnd(w) > 0
  <2>1. w \in Range(CustomWords) /\ LowEnd(w) > 0
    BY Zenon DEF Words
  <2>2. Words \subseteq Seq(Char)
    BY DictIs
  <2> QED BY <2>1, <2>2
<1>4. Len(w) \in Nat /\ Len(w) > 0
  <2>1. LowAt(w)[0] = 0 /\ LowEnd(w) = LowAt(w)[Len(w)] /\ Len(w) \in Nat
    BY <1>3, LowerIs
  <2> QED BY <1>3, <2>1
<1>5. /\ a \in 0 .. Len(text) /\ StandsAt(text, w, a)
      /\ wordBounded(text, runeOffsets(text)[a], runeOffsets(text)[a + Len(w)])
      /\ a + Len(w) <= Len(text) /\ Len(text) \in Nat
  BY DEF Bounded, StandsAt
<1> DEFINE b == a + Len(w)
           p == <<a + 1, b>>
<1>6. b \in 0 .. Len(text) /\ a \in Nat /\ (a + 1) - 1 = a
  BY <1>4, <1>5
<1>7. p \in Places(text, w)
  BY <1>3, <1>4, <1>5, StandsInPlace
<1>8. s.start = runeOffsets(text)[a] /\ s.end = runeOffsets(text)[b]
  BY <1>2 DEF Hit
<1>9. wordBounded(text, runeOffsets(text)[a], runeOffsets(text)[b])
  BY <1>5
<1> HIDE DEF b
<1>10. WholeWord(text, p)
  BY <1>5, <1>6, <1>9, BoundedIsWhole
<1>11. Bytes(s) = BytesAt(text, p)
  BY <1>6, <1>8 DEF Bytes, BytesAt
<1> HIDE DEF p
<1> QED BY <1>3, <1>7, <1>10, <1>11

\* A whole word that overlaps no other place of itself is found.
LEMMA WordsAreFound ==
  ASSUME NEW text \in Seq(Char), NEW word \in Range(CustomWords),
         NEW p \in Places(text, word), WholeWord(text, p),
         \A q \in Places(text, word) \ {p} : q[2] < p[1] \/ p[2] < q[1]
  PROVE  \E s \in Range(collectCustom(text)) :
            s.start = runeOffsets(text)[p[1] - 1] /\ s.start \in BytesAt(text, p)
<1>1. word \in Seq(Char)
  <2>1. CustomWords \in Seq(Seq(Char))
    BY DictionaryAssumption
  <2> QED BY <2>1, RangeSeq
<1>2. /\ p = <<p[1], p[2]>> /\ p[1] \in 1 .. Len(text) /\ p[2] \in p[1] .. Len(text)
      /\ StandsAt(text, word, p[1] - 1) /\ (p[1] - 1) + Len(word) = p[2] /\ Len(word) > 0
  BY <1>1, PlaceOf
<1>3. Len(text) \in Nat /\ Len(word) \in Nat
  BY <1>1
<1>4. PICK a \in 0 .. Len(text) : a = p[1] - 1 /\ a + 1 = p[1] /\ a + Len(word) = p[2] /\ a < p[2]
  BY <1>2, <1>3
<1> DEFINE m == Len(word)
           j == p[2]
<1>5. j \in 0 .. Len(text) /\ a \in Nat /\ m \in Nat /\ m > 0 /\ a + m = j
  BY <1>2, <1>3, <1>4
<1>6. LowEnd(word) > 0 /\ word \in Words
  <2>1. /\ LowAt(word) \in [0 .. m -> Nat] /\ LowAt(word)[0] = 0 /\ LowEnd(word) = LowAt(word)[m]
        /\ \A k, l \in 0 .. m : k < l => LowAt(word)[k] < LowAt(word)[l]
    BY <1>1, LowerIs
  <2>2. 0 \in 0 .. m /\ m \in 0 .. m /\ 0 < m
    BY <1>5
  <2>3. LowAt(word)[0] < LowAt(word)[m]
    BY <2>1, <2>2
  <2> QED BY <2>1, <2>3 DEF Words
<1>7. wordBounded(text, runeOffsets(text)[a], runeOffsets(text)[j])
  <2>1. WholeWord(text, <<a + 1, j>>)
    BY <1>2, <1>4
  <2> QED BY <1>5, <2>1, BoundedIsWhole
<1>8. a \in Bounded(text, word)
  BY <1>2, <1>4, <1>7 DEF Bounded
<1>9. ASSUME NEW b \in 0 .. Len(text), StandsAt(text, word, b), b < a PROVE b + m <= a
  <2> DEFINE q == <<b + 1, b + m>>
  <2>1. q \in Places(text, word)
    BY <1>1, <1>5, <1>9, StandsInPlace
  <2>2. q[1] = b + 1 /\ q[2] = b + m
    OBVIOUS
  <2> HIDE DEF q
  <2>3. q # p
    BY <1>3, <1>4, <1>9, <2>2
  <2>4. q[2] < p[1] \/ p[2] < q[1]
    BY <2>1, <2>3
  <2>5. b + m < a + 1 \/ a + m < b + 1
    BY <1>4, <1>5, <2>2, <2>4
  <2>6. b \in Nat /\ a \in Nat /\ m \in Nat
    BY <1>3, <1>5
  <2> QED BY <1>5, <1>9, <2>5, <2>6
<1> DEFINE s == Hit(text, word, a)
<1>10. s \in Range(collectCustom(text))
  <2>1. s \in Range(occurrences(text, foldForMatch(word).bytes))
    BY <1>1, <1>6, <1>8, <1>9, OccurrencesAre
  <2>2. Range(occurrences(text, foldForMatch(word).bytes)) \subseteq Range(collectCustom(text))
    BY <1>6, CustomIs
  <2> QED BY <2>1, <2>2
<1>11. s.start = runeOffsets(text)[a]
  BY DEF Hit
<1> HIDE DEF s
<1>12. runeOffsets(text)[a] \in BytesAt(text, p)
  <2> DEFINE at == runeOffsets(text)
  <2>1. at \in [0 .. Len(text) -> Nat] /\ \A k, l \in 0 .. Len(text) : k < l => at[k] < at[l]
    BY OffsetsGrow
  <2>2. BytesAt(text, p) = at[a] .. at[j] - 1
    BY <1>4 DEF BytesAt
  <2> HIDE DEF at, j
  <2>3. at[a] \in Nat /\ at[j] \in Nat /\ at[a] < at[j]
    BY <1>4, <1>5, <2>1 DEF j
  <2> QED BY <2>2, <2>3 DEF at
<1> QED BY <1>4, <1>10, <1>11, <1>12

\* For every dictionary, and however the lower case changes the width of a character, only
\* whole words of the dictionary are taken for custom words.
THEOREM OnlyWordsAreTaken == TextSpec => []CustomAreWords
<1>1. ASSUME TextInv PROVE CustomAreWords
  <2> SUFFICES ASSUME NEW s \in Range(sure), s.kind = "CUSTOM"
               PROVE  \E word \in Range(CustomWords) : \E p \in Places(input.text, word) :
                         WholeWord(input.text, p) /\ Bytes(s) = BytesAt(input.text, p)
    BY DEF CustomAreWords
  <2>1. input \in Inputs /\ s \in Range(collect(input))
    BY <1>1 DEF TextInv, Range
  <2>2. s \in AllHits(input.text) /\ input.text \in Seq(Char)
    BY <2>1, CustomCollected, InputIs
  <2> QED BY <2>2, HitsAreWords
<1> QED BY <1>1, TextInvariant, PTL

\* A word of the dictionary that stands by itself, in whatever case, is masked, but for one
\* that another place of the same word reaches into.
THEOREM WordsDoNotLeave == TextSpec => []WordsAreMasked
<1>1. ASSUME TextInv PROVE WordsAreMasked
  <2> SUFFICES ASSUME phase = "done",
                      NEW word \in Range(CustomWords), NEW p \in Places(input.text, word),
                      WholeWord(input.text, p),
                      \A q \in Places(input.text, word) \ {p} : q[2] < p[1] \/ p[2] < q[1]
               PROVE  \E m \in Masked : Bytes(m) \cap BytesAt(input.text, p) # {}
    BY DEF WordsAreMasked
  <2>1. input \in Inputs /\ sure = collect(input) /\ EverySureIsMet
    BY <1>1, EverySureHasBeenMet DEF TextInv
  <2>2. input.text \in Seq(Char)
    BY <2>1, InputIs
  <2>3. PICK s \in Range(collectCustom(input.text)) : s.start \in BytesAt(input.text, p)
    BY <2>2, WordsAreFound
  <2>4. s \in Range(sure)
    BY <2>1, CustomCollected
  <2>5. PICK m \in Masked : s.start \in Bytes(m)
    BY <2>1, <2>4 DEF EverySureIsMet
  <2> QED BY <2>3, <2>5
<1> QED BY <1>1, TextInvariant, PTL
=============================================================================
