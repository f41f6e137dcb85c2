---------------------------- MODULE DemaskProofs ----------------------------
(***************************************************************************)
(* The safety properties of DemaskWriter and of DemaskReader, for every    *)
(* cap and every set of texts, and that the reader implements              *)
(* RestoredStream as far as safety goes.                                   *)
(***************************************************************************)
EXTENDS DemaskReader, SequenceTheorems, LeastNumber

\* Part one, the writer: first what classify does when a buffer grows by one byte,
\* then the inductive invariant.

\* Appending to a non-empty sequence leaves its bytes in place.
LEMMA GrowFacts ==
  ASSUME NEW t \in Seq(Byte), NEW c \in Byte
  PROVE  /\ Append(t, c) \in Seq(Byte)
         /\ Len(Append(t, c)) = Len(t) + 1
         /\ Len(t) \in Nat
         /\ \A k \in 1 .. Len(t) : Append(t, c)[k] = t[k]
         /\ Append(t, c)[Len(t) + 1] = c
  BY AppendProperties, LenProperties

\* A stretch that is a token or a candidate was a candidate a byte earlier.
LEMMA ShorterIsCandidate ==
  ASSUME NEW t \in Seq(Byte), NEW s \in Seq(Byte),
         NEW n \in Nat \ {0}, Len(t) = n, Len(s) = n + 1,
         \A k \in 1 .. n : s[k] = t[k],
         IsToken(s) \/ IsCandidate(s)
  PROVE  IsCandidate(t)
<1>1. t[1] = "open"
  BY DEF IsToken, IsCandidate
<1>2. CASE InKind(s)
  <2>1. InKind(t)
    BY <1>2 DEF InKind, Run
  <2> QED BY <1>1, <2>1 DEF IsCandidate
<1>3. CASE InNumber(s)
  <2>1. PICK u \in 3 .. n + 1 : /\ Run(s, 2, u - 1, Letter)
                                /\ s[u] = "underscore"
                                /\ Run(s, u + 1, n + 1, Digit)
    BY <1>3 DEF InNumber
  <2>2. CASE u = n + 1
    <3>1. InKind(t)
      BY <2>1, <2>2 DEF InKind, Run
    <3> QED BY <1>1, <3>1 DEF IsCandidate
  <2>3. CASE u <= n
    <3>1. Run(t, 2, u - 1, Letter)
      BY <2>1, <2>3 DEF Run
    <3>2. Run(t, u + 1, n, Digit)
      BY <2>1, <2>3 DEF Run
    <3>3. InNumber(t)
      BY <2>1, <2>3, <3>1, <3>2 DEF InNumber
    <3> QED BY <1>1, <3>3 DEF IsCandidate
  <2> QED BY <2>1, <2>2, <2>3
<1>4. CASE Complete(s)
  <2>1. PICK u \in 3 .. n - 1 : /\ Run(s, 2, u - 1, Letter)
                                /\ s[u] = "underscore"
                                /\ Run(s, u + 1, n, Digit)
    BY <1>4 DEF Complete
  <2>2. Run(t, 2, u - 1, Letter) /\ Run(t, u + 1, n, Digit)
    BY <2>1 DEF Run
  <2>3. InNumber(t)
    BY <2>1, <2>2 DEF InNumber
  <2> QED BY <1>1, <2>3 DEF IsCandidate
<1> QED BY <1>2, <1>3, <1>4 DEF IsToken, IsCandidate

LEMMA CandidatePrefix ==
  ASSUME NEW t \in Seq(Byte), NEW c \in Byte, t # << >>,
         IsToken(Append(t, c)) \/ IsCandidate(Append(t, c))
  PROVE  IsCandidate(t)
<1>1. Len(t) \in Nat \ {0}
  BY EmptySeq
<1> QED BY <1>1, GrowFacts, ShorterIsCandidate

\* Only its first byte is "[", and no byte is "]".
LEMMA CandidateBytes ==
  ASSUME NEW t \in Seq(Byte), IsCandidate(t)
  PROVE  \A k \in 1 .. Len(t) : t[k] # "close" /\ (k > 1 => t[k] # "open")
<1>1. Len(t) \in Nat
  BY LenProperties
<1>2. CASE InKind(t)
  BY <1>1, <1>2 DEF IsCandidate, InKind, Run, Letter
<1>3. CASE InNumber(t)
  <2>1. PICK u \in 3 .. Len(t) : /\ Run(t, 2, u - 1, Letter)
                                 /\ t[u] = "underscore"
                                 /\ Run(t, u + 1, Len(t), Digit)
    BY <1>3 DEF InNumber
  <2>2. \A k \in 2 .. Len(t) : k \in 2 .. u - 1 \/ k = u \/ k \in u + 1 .. Len(t)
    BY <1>1, <2>1
  <2>3. \A k \in 2 .. Len(t) : t[k] \in {"letter", "underscore", "digit"}
    BY <2>1, <2>2 DEF Run, Letter, Digit
  <2> QED BY <1>1, <2>3 DEF IsCandidate
<1> QED BY <1>2, <1>3 DEF IsCandidate

\* The three verdicts, as facts about the grown buffer.
LEMMA Verdicts ==
  ASSUME NEW s \in Seq(Byte), Len(s) > 0, s[1] = "open"
  PROVE  /\ (classify(s) = "complete") <=> IsToken(s)
         /\ (classify(s) = "partial") <=> IsCandidate(s)
         /\ (classify(s) = "dead") <=> ~IsToken(s) /\ ~IsCandidate(s)
<1>1. ~(IsToken(s) /\ IsCandidate(s))
  <2> SUFFICES ASSUME IsToken(s), IsCandidate(s) PROVE FALSE
    OBVIOUS
  <2>1. Len(s) \in Nat /\ s[Len(s)] = "close"
    BY LenProperties DEF IsToken, Complete
  <2> QED BY <2>1, CandidateBytes
<1>2. CASE IsToken(s)
  BY <1>1, <1>2 DEF classify, IsToken, IsCandidate
<1>3. CASE IsCandidate(s)
  BY <1>1, <1>3 DEF classify, IsToken, IsCandidate
<1>4. CASE ~IsToken(s) /\ ~IsCandidate(s)
  BY <1>4 DEF classify, IsToken, IsCandidate
<1> QED BY <1>1, <1>2, <1>3, <1>4

\* "[" inside a candidate always kills it.
LEMMA BracketKills ==
  ASSUME NEW t \in Seq(Byte), t # << >>
  PROVE  ~IsToken(Append(t, "open")) /\ ~IsCandidate(Append(t, "open"))
<1> DEFINE s == Append(t, "open")
<1>1. "open" \in Byte
  BY DEF Byte
<1>2. s \in Seq(Byte) /\ Len(s) = Len(t) + 1 /\ Len(t) > 0 /\ Len(t) \in Nat
      /\ s[Len(s)] = "open"
  BY <1>1, GrowFacts, EmptySeq
<1> HIDE DEF s
<1>3. ~IsCandidate(s)
  <2> SUFFICES ASSUME IsCandidate(s) PROVE FALSE
    OBVIOUS
  <2>1. Len(s) \in 1 .. Len(s) /\ Len(s) > 1
    BY <1>2
  <2> QED BY <1>2, <2>1, CandidateBytes
<1>4. ~IsToken(s)
  BY <1>2 DEF IsToken, Complete
<1> QED BY <1>3, <1>4 DEF s

\* A single byte is a candidate exactly if it opens one, and never a token.
LEMMA OneByte ==
  ASSUME NEW c \in Byte
  PROVE  /\ <<c>> \in Seq(Byte) /\ Len(<<c>>) = 1
         /\ IsCandidate(<<c>>) <=> c = "open"
         /\ ~IsToken(<<c>>)
  BY DEF IsCandidate, IsToken, InKind, InNumber, Complete, Run

\* The stretch of a text that ends one byte later.
LEMMA StretchGrows ==
  ASSUME NEW s \in Seq(Byte), NEW p \in 0 .. Len(s) - 1, NEW lo \in 1 .. p + 1
  PROVE  /\ SubSeq(s, lo, p + 1) =
              IF lo = p + 1 THEN <<s[p + 1]>>
              ELSE Append(SubSeq(s, lo, p), s[p + 1])
         /\ SubSeq(s, lo, p) \in Seq(Byte)
         /\ Len(SubSeq(s, lo, p)) = p - lo + 1
         /\ lo <= p => SubSeq(s, lo, p) # << >>
         /\ s[p + 1] \in Byte
<1>1. Len(s) \in Nat /\ p \in Nat /\ lo \in Nat
  BY LenProperties
<1>2. \A k \in lo .. p : s[k] \in Byte
  BY <1>1, ElementOfSeq
<1>3. SubSeq(s, lo, p) \in Seq(Byte) /\ Len(SubSeq(s, lo, p)) = p - lo + 1
  BY <1>1, <1>2, SubSeqProperties
<1>4. s[p + 1] \in Byte
  BY <1>1, ElementOfSeq
<1>5. SubSeq(s, lo, p + 1) = SubSeq(s, lo, p) \o <<s[p + 1]>>
  BY <1>1, SubSeqRecursiveSecond
<1>6. CASE lo = p + 1
  <2>1. SubSeq(s, lo, p) = << >>
    BY <1>1, <1>3, <1>6, EmptySeq
  <2>2. << >> \o <<s[p + 1]>> = <<s[p + 1]>>
    BY <1>4, OneByte, ConcatEmptySeq
  <2>3. SubSeq(s, lo, p + 1) = <<s[p + 1]>>
    BY <1>5, <2>1, <2>2, Zenon
  <2> QED BY <1>1, <1>3, <1>4, <1>6, <2>3
<1>7. CASE lo <= p
  BY <1>1, <1>3, <1>4, <1>5, <1>7, AppendIsConcat, EmptySeq
<1> QED BY <1>1, <1>3, <1>4, <1>6, <1>7

\* Of a text: a stretch that is a token or a candidate was one a byte earlier.
LEMMA StretchPrefix ==
  ASSUME NEW s \in Seq(Byte), NEW p \in 0 .. Len(s) - 1, NEW lo \in 1 .. p,
         IsToken(SubSeq(s, lo, p + 1)) \/ IsCandidate(SubSeq(s, lo, p + 1))
  PROVE  IsCandidate(SubSeq(s, lo, p))
<1>1. lo \in 1 .. p + 1 /\ lo # p + 1 /\ lo <= p
  BY LenProperties
<1>2. /\ SubSeq(s, lo, p) \in Seq(Byte) /\ SubSeq(s, lo, p) # << >>
      /\ s[p + 1] \in Byte
      /\ SubSeq(s, lo, p + 1) = Append(SubSeq(s, lo, p), s[p + 1])
  BY <1>1, StretchGrows
<1>3. \/ IsToken(Append(SubSeq(s, lo, p), s[p + 1]))
      \/ IsCandidate(Append(SubSeq(s, lo, p), s[p + 1]))
  BY <1>2, Zenon
<1> QED BY <1>2, <1>3, CandidatePrefix

-----------------------------------------------------------------------------
\* Sequences of segments.

LEMMA ContiguousAppend ==
  ASSUME NEW s \in Seq(Segment), NEW g \in Segment,
         Contiguous(s), g.lo = Upto(s) + 1, g.lo <= g.hi
  PROVE  /\ Append(s, g) \in Seq(Segment)
         /\ Contiguous(Append(s, g))
         /\ Upto(Append(s, g)) = g.hi
<1> DEFINE t == Append(s, g)
<1>1. /\ t \in Seq(Segment) /\ t # << >>
      /\ Len(t) = Len(s) + 1 /\ Len(s) \in Nat
      /\ \A i \in 1 .. Len(s) : t[i] = s[i]
      /\ t[Len(s) + 1] = g
  BY AppendProperties, LenProperties
<1>2. s # << >> => Len(s) >= 1
  BY EmptySeq
<1>3. s = << >> => Len(s) = 0
  BY EmptySeq
<1> HIDE DEF t
<1>4. Contiguous(t)
  BY <1>1, <1>2, <1>3 DEF Contiguous, Upto
<1>5. Upto(t) = g.hi
  BY <1>1 DEF Upto
<1> QED BY <1>1, <1>4, <1>5 DEF t

LEMMA ContiguousPrefix ==
  ASSUME NEW s \in Seq(Segment), NEW t \in Seq(Segment),
         Contiguous(s \o t), NEW k \in 0 .. Len(t)
  PROVE  /\ s \o SubSeq(t, 1, k) \in Seq(Segment)
         /\ Contiguous(s \o SubSeq(t, 1, k))
<1>1. Len(s) \in Nat /\ Len(t) \in Nat
  BY LenProperties
<1>2. \A i \in 1 .. k : t[i] \in Segment
  BY <1>1, ElementOfSeq
<1>3. /\ SubSeq(t, 1, k) \in Seq(Segment)
      /\ Len(SubSeq(t, 1, k)) = k
      /\ \A i \in 1 .. k : SubSeq(t, 1, k)[i] = t[i]
  BY <1>1, <1>2, SubSeqProperties
<1> DEFINE u == s \o SubSeq(t, 1, k)
           v == s \o t
<1>4. /\ u \in Seq(Segment)
      /\ Len(u) = Len(s) + k
      /\ \A i \in 1 .. Len(s) + k :
            u[i] = IF i <= Len(s) THEN s[i] ELSE SubSeq(t, 1, k)[i - Len(s)]
  BY <1>3, ConcatProperties
<1>5. /\ Len(v) = Len(s) + Len(t)
      /\ \A i \in 1 .. Len(s) + Len(t) :
            v[i] = IF i <= Len(s) THEN s[i] ELSE t[i - Len(s)]
  BY ConcatProperties
<1> HIDE DEF u, v
<1>6. ASSUME NEW i \in 1 .. Len(u)
      PROVE  u[i] = v[i] /\ i \in 1 .. Len(v)
  <2>1. i \in 1 .. Len(s) + k /\ i \in 1 .. Len(s) + Len(t)
    BY <1>1, <1>4
  <2>2. CASE i <= Len(s)
    BY <1>4, <1>5, <2>1, <2>2
  <2>3. CASE ~(i <= Len(s))
    <3>1. i - Len(s) \in 1 .. k
      BY <1>1, <2>1, <2>3
    <3>2. SubSeq(t, 1, k)[i - Len(s)] = t[i - Len(s)]
      BY <1>3, <3>1
    <3> QED BY <1>4, <1>5, <2>1, <2>3, <3>2
  <2> QED BY <2>2, <2>3
<1>7. Contiguous(v)
  BY DEF v
<1>8. \A i \in 1 .. Len(u) : i # 1 => i - 1 \in 1 .. Len(u)
  BY <1>1, <1>4
<1>9. Contiguous(u)
  BY <1>6, <1>7, <1>8 DEF Contiguous
<1> QED BY <1>4, <1>9 DEF u

LEMMA ConcatAppend ==
  ASSUME NEW s \in Seq(Segment), NEW t \in Seq(Segment), NEW g \in Segment
  PROVE  s \o Append(t, g) = Append(s \o t, g)
<1>1. Append(t, g) = t \o <<g>> /\ <<g>> \in Seq(Segment)
  BY AppendIsConcat
<1>2. s \o t \in Seq(Segment)
  BY ConcatProperties
<1>3. Append(s \o t, g) = (s \o t) \o <<g>>
  BY <1>2, AppendIsConcat
<1> QED BY <1>1, <1>3, ConcatAssociative

\* One more segment: what was looked up, and the new one if it was.
LEMMA LookedUpAppend ==
  ASSUME NEW e, NEW f, Len(e) \in Nat, Len(f) = Len(e) + 1,
         \A i \in 1 .. Len(e) : f[i] = e[i],
         NEW lo, NEW hi
  PROVE  LookedUp(f, lo, hi)
         <=> \/ LookedUp(e, lo, hi)
             \/ /\ f[Len(e) + 1].lo = lo /\ f[Len(e) + 1].hi = hi
                /\ f[Len(e) + 1].kind # "raw"
<1>1. \A i : i \in 1 .. Len(f) <=> i \in 1 .. Len(e) \/ i = Len(e) + 1
  OBVIOUS
<1> QED BY <1>1, Zenon DEF LookedUp

-----------------------------------------------------------------------------
\* What the invariant says of the byte under the cursor: the candidate with it
\* is the only stretch that can have become a token, and the only one, besides
\* the byte alone, that can go on.
LEMMA ByteFacts ==
  ASSUME WriterInv, wpc = "writing", pos < end
  PROVE  /\ ~err /\ pos \in Nat /\ pos + 1 \in 1 .. Len(input) /\ pos + 1 <= end
         /\ input \in Seq(Byte) /\ b \in Byte
         /\ Len(buf) \in Nat /\ Start \in 1 .. pos + 1
         /\ buf # << >> =>
              /\ Start <= pos /\ Len(buf) < MaxTokenLen
              /\ IsCandidate(buf)
              /\ Grown \in Seq(Byte) /\ Len(Grown) = Len(buf) + 1
              /\ Grown[1] = "open"
              /\ Grown = SubSeq(input, Start, pos + 1)
         /\ buf = << >> => Start = pos + 1
         /\ \A lo \in 1 .. pos + 1 :
              /\ pos - lo + 2 <= MaxTokenLen /\ IsToken(SubSeq(input, lo, pos + 1))
                   => buf # << >> /\ lo = Start /\ IsToken(Grown)
              /\ pos - lo + 2 < MaxTokenLen /\ IsCandidate(SubSeq(input, lo, pos + 1))
                   => \/ lo = pos + 1 /\ b = "open"
                      \/ buf # << >> /\ lo = Start /\ IsCandidate(Grown)
<1>1. /\ ~err /\ wpc # "closed"
      /\ input \in Seq(Byte) /\ Len(input) \in Nat
      /\ pos \in 0 .. Len(input) - 1 /\ pos + 1 \in 1 .. Len(input)
      /\ end \in Nat /\ MaxTokenLen \in Nat
      /\ buf \in Seq(Byte) /\ Len(buf) \in Nat /\ Len(buf) <= pos
  BY WriterAssumption, LenProperties DEF WriterInv, WriterTypeOK
<1>2. /\ buf = SubSeq(input, Start, pos)
      /\ \A lo \in 1 .. pos :
           (pos - lo + 1 < MaxTokenLen /\ IsCandidate(SubSeq(input, lo, pos)))
             <=> lo = Start
  BY <1>1 DEF WriterInv, HeldBackIsCandidate
<1>3. b \in Byte
  BY <1>1, StretchGrows DEF b
<1>4. Start \in 1 .. pos + 1 /\ (buf = << >> <=> Start = pos + 1)
  BY <1>1, EmptySeq DEF Start
<1>5. ASSUME buf # << >>
      PROVE  /\ Start <= pos /\ Len(buf) < MaxTokenLen
             /\ IsCandidate(buf)
             /\ Grown \in Seq(Byte) /\ Len(Grown) = Len(buf) + 1
             /\ Grown[1] = "open"
             /\ Grown = SubSeq(input, Start, pos + 1)
  <2>1. Start \in 1 .. pos
    BY <1>1, <1>4, <1>5
  <2>2. IsCandidate(buf) /\ Len(buf) < MaxTokenLen
    <3>1. Len(buf) = pos - Start + 1
      BY <1>1 DEF Start
    <3>2. pos - Start + 1 < MaxTokenLen /\ IsCandidate(SubSeq(input, Start, pos))
      BY <1>2, <2>1
    <3> QED BY <1>2, <3>1, <3>2
  <2>3. Grown \in Seq(Byte) /\ Len(Grown) = Len(buf) + 1 /\ Grown[1] = buf[1]
    BY <1>1, <1>3, <2>2, GrowFacts DEF Grown, IsCandidate
  <2>4. Grown = SubSeq(input, Start, pos + 1)
    BY <1>1, <1>2, <2>1, StretchGrows DEF Grown, b
  <2> QED BY <1>1, <2>1, <2>2, <2>3, <2>4 DEF IsCandidate
<1>6. ASSUME NEW lo \in 1 .. pos + 1,
             pos - lo + 2 <= MaxTokenLen, IsToken(SubSeq(input, lo, pos + 1))
      PROVE  buf # << >> /\ lo = Start /\ IsToken(Grown)
  <2>1. lo # pos + 1
    BY <1>1, <1>3, <1>6, StretchGrows, OneByte DEF b
  <2>2. lo \in 1 .. pos
    BY <1>1, <2>1
  <2>3. IsCandidate(SubSeq(input, lo, pos))
    BY <1>1, <1>6, <2>2, StretchPrefix
  <2>4. lo = Start
    BY <1>1, <1>2, <1>6, <2>2, <2>3
  <2>5. buf # << >>
    BY <1>1, <1>4, <2>2, <2>4
  <2>6. Grown = SubSeq(input, lo, pos + 1)
    BY <1>5, <2>4, <2>5
  <2> QED BY <1>6, <2>4, <2>5, <2>6
<1>7. ASSUME NEW lo \in 1 .. pos + 1,
             pos - lo + 2 < MaxTokenLen, IsCandidate(SubSeq(input, lo, pos + 1))
      PROVE  \/ lo = pos + 1 /\ b = "open"
             \/ buf # << >> /\ lo = Start /\ IsCandidate(Grown)
  <2>1. CASE lo = pos + 1
    BY <1>1, <1>3, <1>7, <2>1, StretchGrows, OneByte DEF b
  <2>2. CASE lo \in 1 .. pos
    <3>1. IsCandidate(SubSeq(input, lo, pos))
      BY <1>1, <1>7, <2>2, StretchPrefix
    <3>2. lo = Start
      BY <1>1, <1>2, <1>7, <2>2, <3>1
    <3>3. buf # << >>
      BY <1>1, <1>4, <2>2, <3>2
    <3>4. Grown = SubSeq(input, lo, pos + 1)
      BY <1>5, <3>2, <3>3
    <3> QED BY <1>7, <3>2, <3>3, <3>4
  <2> QED BY <1>1, <2>1, <2>2
<1> QED BY <1>1, <1>3, <1>4, <1>5, <1>6, <1>7

\* A step that settles one segment.
LEMMA EmitFacts ==
  ASSUME WriterInv, ~err, NEW g \in Segment,
         g.lo = Start, g.lo <= g.hi,
         sent' = sent, out' = Append(out, g)
  PROVE  /\ out' \in Seq(Segment)
         /\ Contiguous(Emitted') /\ Upto(Emitted') = g.hi
         /\ Len(Emitted) \in Nat /\ Len(Emitted') = Len(Emitted) + 1
         /\ \A i \in 1 .. Len(Emitted) : Emitted'[i] = Emitted[i]
         /\ Emitted'[Len(Emitted) + 1] = g
<1>1. /\ out \in Seq(Segment) /\ sent \in Seq(Segment)
      /\ pos \in Nat /\ Len(buf) \in Nat /\ Len(buf) <= pos
  BY WriterAssumption, LenProperties DEF WriterInv, WriterTypeOK
<1>2. Emitted \in Seq(Segment) /\ Len(Emitted) \in Nat
  BY <1>1, ConcatProperties, LenProperties DEF Emitted
<1>3. Emitted' = Append(Emitted, g)
  BY <1>1, ConcatAppend DEF Emitted
<1>4. Contiguous(Emitted) /\ g.lo = Upto(Emitted) + 1
  BY <1>1 DEF WriterInv, NothingLost, Start
<1>5. Contiguous(Emitted') /\ Upto(Emitted') = g.hi
  BY <1>2, <1>3, <1>4, ContiguousAppend
<1>6. out' \in Seq(Segment)
  BY <1>1, AppendProperties
<1> QED BY <1>2, <1>3, <1>5, <1>6, AppendProperties

\* No segment starts past what was read.
LEMMA SegmentsBehind ==
  ASSUME WriterInv, ~err, NEW i \in 1 .. Len(Emitted)
  PROVE  /\ Emitted[i].lo \in Nat /\ Emitted[i].hi \in Nat
         /\ Emitted[i].lo <= pos /\ Emitted[i].lo # pos + 1
<1>1. Emitted[i].lo <= Emitted[i].hi /\ Emitted[i].hi <= pos
  BY DEF WriterInv, NothingLost, Contiguous
<1>2. Emitted \in Seq(Segment)
  BY ConcatProperties DEF WriterInv, WriterTypeOK, Emitted
<1>3. Emitted[i] \in Segment
  BY <1>2, ElementOfSeq
<1>4. Emitted[i].lo \in Nat /\ Emitted[i].hi \in Nat
  BY <1>3 DEF Segment
<1>5. pos \in Nat
  BY WriterAssumption, LenProperties DEF WriterInv, WriterTypeOK
<1> QED BY <1>1, <1>4, <1>5

\* A byte that completes no token, whether it settles a raw segment or none.
LEMMA NoNewToken ==
  ASSUME WriterInv, wpc = "writing", pos < end,
         pos' = pos + 1, input' = input, err' = err,
         ~(buf # << >> /\ IsToken(Grown)),
         Len(Emitted) \in Nat,
         \/ Emitted' = Emitted
         \/ /\ Len(Emitted') = Len(Emitted) + 1
            /\ \A i \in 1 .. Len(Emitted) : Emitted'[i] = Emitted[i]
            /\ Emitted'[Len(Emitted) + 1].kind = "raw"
  PROVE  EveryTokenLookedUp'
<1>1. ~err /\ pos \in Nat /\ ~err'
  BY ByteFacts
<1>2. ASSUME NEW lo \in 1 .. pos', NEW hi \in 1 .. pos'
      PROVE  (hi - lo + 1 <= MaxTokenLen /\ IsToken(SubSeq(input', lo, hi)))
             <=> LookedUp(Emitted', lo, hi)
  <2>1. LookedUp(Emitted', lo, hi) <=> LookedUp(Emitted, lo, hi)
    <3>1. CASE Emitted' = Emitted
      BY <3>1 DEF LookedUp
    <3>2. CASE ~(Emitted' = Emitted)
      <4>1. LookedUp(Emitted', lo, hi)
            <=> \/ LookedUp(Emitted, lo, hi)
                \/ /\ Emitted'[Len(Emitted) + 1].lo = lo
                   /\ Emitted'[Len(Emitted) + 1].hi = hi
                   /\ Emitted'[Len(Emitted) + 1].kind # "raw"
        BY <3>2, LookedUpAppend
      <4> QED BY <3>2, <4>1
    <3> QED BY <3>1, <3>2
  <2>2. CASE hi \in 1 .. pos /\ lo \in 1 .. pos
    BY <1>1, <2>1, <2>2 DEF WriterInv, EveryTokenLookedUp
  <2>3. CASE hi = pos + 1
    <3>1. ~(hi - lo + 1 <= MaxTokenLen /\ IsToken(SubSeq(input', lo, hi)))
      <4>1. hi - lo + 1 = pos - lo + 2
        BY <1>1, <2>3
      <4> QED BY <1>1, <2>3, <4>1, ByteFacts
    <3>2. \A i \in 1 .. Len(Emitted) : Emitted[i].hi <= pos
      BY <1>1 DEF WriterInv
    <3>3. \A i \in 1 .. Len(Emitted) : Emitted[i].hi # hi
      BY <1>1, <2>3, <3>2
    <3> QED BY <2>1, <3>1, <3>3 DEF LookedUp
  <2>4. CASE lo = pos + 1 /\ hi \in 1 .. pos
    <3>1. ~IsToken(SubSeq(input', lo, hi))
      <4>1. SubSeq(input', lo, hi) = << >>
        BY <1>1, <2>4, SubSeqEmpty
      <4> QED BY <4>1, EmptySeq DEF IsToken
    <3>2. \A i \in 1 .. Len(Emitted) : Emitted[i].lo # lo
      BY <1>1, <2>4, SegmentsBehind
    <3> QED BY <2>1, <3>1, <3>2 DEF LookedUp
  <2> QED BY <1>1, <2>2, <2>3, <2>4
<1> QED BY <1>2 DEF EveryTokenLookedUp

\* The parts of the invariant a byte step settles the same way, whatever it does.
LEMMA ByteStep ==
  ASSUME WriterInv, Advance,
         input' = input, end' = end, sent' = sent, err' = err, wpc' = wpc,
         \/ out' = out
         \/ \E g \in Segment : /\ g.lo = Start /\ g.lo <= g.hi /\ g.hi <= pos + 1
                               /\ out' = Append(out, g)
                               /\ g.hi = pos + 1 - Len(buf'),
         out' = out => Upto(Emitted) = pos + 1 - Len(buf'),
         buf' \in Seq(Byte), Len(buf') <= pos + 1,
         EveryTokenLookedUp', HeldBackIsCandidate'
  PROVE  WriterInv'
<1>1. /\ wpc = "writing" /\ pos < end /\ pos' = pos + 1 /\ ~err
      /\ pos \in Nat /\ pos + 1 \in 1 .. Len(input) /\ pos + 1 <= end
      /\ Len(input) \in Nat /\ end \in pos .. Len(input)
  BY ByteFacts, WriterAssumption, LenProperties DEF Advance, WriterInv, WriterTypeOK
<1>2. /\ out' \in Seq(Segment)
      /\ Contiguous(Emitted') /\ Upto(Emitted') = pos + 1 - Len(buf')
      /\ \A i \in 1 .. Len(Emitted') : Emitted'[i].hi <= pos'
  <2>1. CASE out' = out
    <3>1. Emitted' = Emitted /\ out \in Seq(Segment)
      BY <2>1 DEF Emitted, WriterInv, WriterTypeOK
    <3>2. \A i \in 1 .. Len(Emitted) : Emitted[i].hi <= pos + 1
      <4>1. Emitted \in Seq(Segment)
        BY ConcatProperties DEF WriterInv, WriterTypeOK, Emitted
      <4>2. ASSUME NEW i \in 1 .. Len(Emitted) PROVE Emitted[i].hi <= pos + 1
        <5>1. Emitted[i] \in Segment /\ Emitted[i].hi <= pos
          BY <1>1, <4>1, ElementOfSeq DEF WriterInv
        <5> QED BY <1>1, <5>1 DEF Segment
      <4> QED BY <4>2
    <3> QED BY <1>1, <2>1, <3>1, <3>2 DEF WriterInv, NothingLost
  <2>2. CASE \E g \in Segment : /\ g.lo = Start /\ g.lo <= g.hi /\ g.hi <= pos + 1
                                /\ out' = Append(out, g)
                                /\ g.hi = pos + 1 - Len(buf')
    <3>1. PICK g \in Segment : /\ g.lo = Start /\ g.lo <= g.hi /\ g.hi <= pos + 1
                               /\ out' = Append(out, g)
                               /\ g.hi = pos + 1 - Len(buf')
      BY <2>2
    <3>2. /\ out' \in Seq(Segment)
          /\ Contiguous(Emitted') /\ Upto(Emitted') = g.hi
          /\ Len(Emitted) \in Nat /\ Len(Emitted') = Len(Emitted) + 1
          /\ \A i \in 1 .. Len(Emitted) : Emitted'[i] = Emitted[i]
          /\ Emitted'[Len(Emitted) + 1] = g
      BY <1>1, <3>1, EmitFacts
    <3>3. ASSUME NEW i \in 1 .. Len(Emitted') PROVE Emitted'[i].hi <= pos'
      <4>1. CASE i \in 1 .. Len(Emitted)
        <5>1. Emitted \in Seq(Segment)
          BY ConcatProperties DEF WriterInv, WriterTypeOK, Emitted
        <5>2. Emitted[i] \in Segment /\ Emitted[i].hi <= pos
          BY <1>1, <4>1, <5>1, ElementOfSeq DEF WriterInv
        <5> QED BY <1>1, <3>2, <4>1, <5>2 DEF Segment
      <4>2. CASE i = Len(Emitted) + 1
        BY <1>1, <3>1, <3>2, <4>2
      <4> QED BY <3>2, <4>1, <4>2
    <3> QED BY <3>1, <3>2, <3>3
  <2> QED BY <2>1, <2>2
<1>3. WriterTypeOK'
  BY <1>1, <1>2 DEF WriterInv, WriterTypeOK
<1>4. NothingLost'
  BY <1>1, <1>2 DEF WriterInv, NothingLost
<1> QED BY <1>1, <1>2, <1>3, <1>4 DEF WriterInv

LEMMA EmptyStretch ==
  ASSUME NEW s, NEW p \in Nat
  PROVE  SubSeq(s, p + 1, p) = << >> /\ p + 1 \notin 1 .. p
<1>1. p + 1 \in Int /\ p \in Int /\ p < p + 1
  OBVIOUS
<1> QED BY <1>1, SubSeqEmpty

\* Nothing is held back any more.
LEMMA NothingHeld ==
  ASSUME pos' \in Nat, Len(input') \in Nat, buf' = << >>,
         \A lo \in 1 .. pos' : ~( pos' - lo + 1 < MaxTokenLen
                                  /\ IsCandidate(SubSeq(input', lo, pos')) )
  PROVE  HeldBackIsCandidate'
<1>1. Start' = pos' + 1
  BY EmptySeq DEF Start
<1>2. buf' = SubSeq(input', Start', pos')
  BY <1>1, EmptyStretch
<1>3. Start' \notin 1 .. pos'
  BY <1>1, EmptyStretch, Zenon
<1> QED BY <1>2, <1>3 DEF HeldBackIsCandidate

\* Only the byte just read is held back.
LEMMA OneHeld ==
  ASSUME NEW p \in Nat, pos' = p + 1, Len(buf') = 1,
         buf' = SubSeq(input', p + 1, p + 1), IsCandidate(buf'),
         \A lo \in 1 .. pos' :
            pos' - lo + 1 < MaxTokenLen /\ IsCandidate(SubSeq(input', lo, pos'))
              => lo = p + 1
  PROVE  HeldBackIsCandidate'
<1>1. Start' = p + 1
  BY DEF Start
<1>2. pos' - Start' + 1 < MaxTokenLen
  BY <1>1, WriterAssumption
<1>3. IsCandidate(SubSeq(input', Start', pos')) /\ buf' = SubSeq(input', Start', pos')
  BY <1>1
<1> QED BY <1>1, <1>2, <1>3 DEF HeldBackIsCandidate

-----------------------------------------------------------------------------
\* One lemma per byte action.

\* The segment a byte step emits is well formed.
LEMMA SegFacts ==
  ASSUME NEW lo \in Nat \ {0}, NEW hi \in Nat \ {0},
         NEW kind \in {"raw", "value", "miss"}
  PROVE  /\ Seg(lo, hi, kind) \in Segment
         /\ Seg(lo, hi, kind).lo = lo /\ Seg(lo, hi, kind).hi = hi
         /\ Seg(lo, hi, kind).kind = kind
  BY DEF Seg, Segment

\* What the verdict on the grown candidate tells.
LEMMA GrownVerdict ==
  ASSUME WriterInv, wpc = "writing", pos < end, buf # << >>
  PROVE  /\ (classify(Grown) = "complete") => IsToken(Grown) /\ ~IsCandidate(Grown)
         /\ (classify(Grown) = "partial") => ~IsToken(Grown) /\ IsCandidate(Grown)
         /\ (classify(Grown) = "dead") => ~IsToken(Grown) /\ ~IsCandidate(Grown)
<1>1. /\ Grown \in Seq(Byte) /\ Len(Grown) = Len(buf) + 1 /\ Len(buf) \in Nat
      /\ Grown[1] = "open"
  BY ByteFacts
<1>2. Len(Grown) > 0
  BY <1>1
<1>3. /\ (classify(Grown) = "complete") <=> IsToken(Grown)
      /\ (classify(Grown) = "partial") <=> IsCandidate(Grown)
      /\ (classify(Grown) = "dead") <=> ~IsToken(Grown) /\ ~IsCandidate(Grown)
  BY <1>1, <1>2, Verdicts
<1> QED BY <1>3

LEMMA PassBytePreserves ==
  ASSUME WriterInv, PassByte
  PROVE  WriterInv'
<1>1. /\ wpc = "writing" /\ pos < end /\ pos' = pos + 1
      /\ input' = input /\ end' = end /\ sent' = sent /\ err' = err /\ wpc' = wpc
      /\ buf = << >> /\ buf' = << >> /\ b # "open"
      /\ out' = Append(out, Seg(pos + 1, pos + 1, "raw"))
  BY DEF PassByte, Advance
<1>2. ~err /\ pos \in Nat /\ Start = pos + 1 /\ Len(input) \in Nat
  BY <1>1, ByteFacts, WriterAssumption, LenProperties
<1> DEFINE g == Seg(pos + 1, pos + 1, "raw")
<1>3. g \in Segment /\ g.lo = pos + 1 /\ g.hi = pos + 1 /\ g.kind = "raw"
  BY <1>2, SegFacts
<1> HIDE DEF g
<1>4. EveryTokenLookedUp'
  <2>1. /\ Len(Emitted) \in Nat /\ Len(Emitted') = Len(Emitted) + 1
        /\ \A i \in 1 .. Len(Emitted) : Emitted'[i] = Emitted[i]
        /\ Emitted'[Len(Emitted) + 1] = g
    BY <1>1, <1>2, <1>3, EmitFacts DEF g
  <2> QED BY <1>1, <1>3, <2>1, NoNewToken
<1>5. HeldBackIsCandidate'
  <2>1. ASSUME NEW lo \in 1 .. pos'
        PROVE  ~( pos' - lo + 1 < MaxTokenLen
                  /\ IsCandidate(SubSeq(input', lo, pos')) )
    <3>1. lo \in 1 .. pos + 1 /\ pos' - lo + 1 = pos - lo + 2
      BY <1>1, <1>2
    <3> QED BY <1>1, <3>1, ByteFacts
  <2> QED BY <1>1, <1>2, <2>1, NothingHeld
<1>6. buf' \in Seq(Byte) /\ Len(buf') = 0
  BY <1>1, EmptySeq
<1>7. /\ g.lo = Start /\ g.lo <= g.hi /\ g.hi <= pos + 1 /\ out' = Append(out, g)
      /\ g.hi = pos + 1 - Len(buf')
  BY <1>1, <1>2, <1>3, <1>6 DEF g
<1>8. out' # out
  BY <1>1, <1>3, AppendProperties, LenProperties DEF WriterInv, WriterTypeOK, g
<1> QED
  BY <1>1, <1>2, <1>3, <1>4, <1>5, <1>6, <1>7, <1>8, ByteStep DEF Advance

LEMMA OpenCandidatePreserves ==
  ASSUME WriterInv, OpenCandidate
  PROVE  WriterInv'
<1>1. /\ wpc = "writing" /\ pos < end /\ pos' = pos + 1
      /\ input' = input /\ end' = end /\ sent' = sent /\ err' = err /\ wpc' = wpc
      /\ buf = << >> /\ buf' = <<b>> /\ b = "open"
      /\ out' = out
  BY DEF OpenCandidate, Advance
<1>2. /\ ~err /\ pos \in Nat /\ Start = pos + 1 /\ Len(input) \in Nat /\ b \in Byte
      /\ input \in Seq(Byte) /\ pos \in 0 .. Len(input) - 1
  BY <1>1, ByteFacts, WriterAssumption, LenProperties
<1>3. /\ buf' \in Seq(Byte) /\ Len(buf') = 1 /\ IsCandidate(buf')
      /\ buf' = SubSeq(input, pos + 1, pos + 1)
  BY <1>1, <1>2, OneByte, StretchGrows DEF b
<1>4. EveryTokenLookedUp'
  <2>1. Emitted' = Emitted /\ Len(Emitted) \in Nat
    BY <1>1, ConcatProperties, LenProperties DEF Emitted, WriterInv, WriterTypeOK
  <2> QED BY <1>1, <2>1, NoNewToken
<1>5. HeldBackIsCandidate'
  <2>1. ASSUME NEW lo \in 1 .. pos',
               pos' - lo + 1 < MaxTokenLen, IsCandidate(SubSeq(input', lo, pos'))
        PROVE  lo = pos + 1
    <3>1. lo \in 1 .. pos + 1 /\ pos' - lo + 1 = pos - lo + 2
      BY <1>1, <1>2
    <3> QED BY <1>1, <2>1, <3>1, ByteFacts
  <2> QED BY <1>1, <1>2, <1>3, <2>1, OneHeld
<1>6. Upto(Emitted) = pos + 1 - Len(buf')
  BY <1>1, <1>2, <1>3, EmptySeq DEF WriterInv, NothingLost
<1> QED
  BY <1>1, <1>2, <1>3, <1>4, <1>5, <1>6, ByteStep DEF Advance

LEMMA ResolvePreserves ==
  ASSUME WriterInv, NEW kind \in {"value", "miss"}, Resolve(kind)
  PROVE  WriterInv'
<1>1. /\ wpc = "writing" /\ pos < end /\ pos' = pos + 1
      /\ input' = input /\ end' = end /\ sent' = sent /\ err' = err /\ wpc' = wpc
      /\ buf # << >> /\ buf' = << >> /\ classify(Grown) = "complete"
      /\ out' = Append(out, Seg(Start, pos + 1, kind))
  BY DEF Resolve, Advance
<1>2. /\ ~err /\ pos \in Nat /\ Start \in 1 .. pos /\ Len(input) \in Nat
      /\ Len(buf) \in Nat /\ Len(buf) < MaxTokenLen
      /\ Grown \in Seq(Byte) /\ Len(Grown) = Len(buf) + 1 /\ Grown[1] = "open"
      /\ Grown = SubSeq(input, Start, pos + 1)
  BY <1>1, ByteFacts, WriterAssumption, LenProperties
<1>3. IsToken(Grown) /\ ~IsCandidate(Grown)
  BY <1>1, GrownVerdict
<1> DEFINE g == Seg(Start, pos + 1, kind)
<1>4. g \in Segment /\ g.lo = Start /\ g.hi = pos + 1 /\ g.kind # "raw"
  BY <1>2, SegFacts
<1> HIDE DEF g
<1>5. /\ Len(Emitted) \in Nat /\ Len(Emitted') = Len(Emitted) + 1
      /\ \A i \in 1 .. Len(Emitted) : Emitted'[i] = Emitted[i]
      /\ Emitted'[Len(Emitted) + 1] = g
  BY <1>1, <1>2, <1>4, EmitFacts DEF g
<1>6. EveryTokenLookedUp'
  <2>1. ASSUME NEW lo \in 1 .. pos', NEW hi \in 1 .. pos'
        PROVE  (hi - lo + 1 <= MaxTokenLen /\ IsToken(SubSeq(input', lo, hi)))
               <=> LookedUp(Emitted', lo, hi)
    <3>1. LookedUp(Emitted', lo, hi)
          <=> LookedUp(Emitted, lo, hi) \/ (lo = Start /\ hi = pos + 1)
      BY <1>4, <1>5, LookedUpAppend
    <3>2. CASE hi \in 1 .. pos /\ lo \in 1 .. pos
      <4>1. hi # pos + 1
        BY <1>2, <3>2
      <4> QED BY <1>1, <1>2, <3>1, <3>2, <4>1 DEF WriterInv, EveryTokenLookedUp
    <3>3. CASE hi = pos + 1
      <4>1. hi - lo + 1 = pos - lo + 2 /\ lo \in 1 .. pos + 1
        BY <1>1, <1>2, <3>3
      <4>2. ~LookedUp(Emitted, lo, hi)
        <5>1. \A i \in 1 .. Len(Emitted) : Emitted[i].hi <= pos
          BY <1>2 DEF WriterInv
        <5>2. \A i \in 1 .. Len(Emitted) : Emitted[i].hi # hi
          BY <1>2, <3>3, <5>1
        <5> QED BY <5>2 DEF LookedUp
      <4>3. lo = Start => pos - lo + 2 <= MaxTokenLen
        BY <1>2, WriterAssumption DEF Start, WriterInv, WriterTypeOK
      <4>4. lo = Start => IsToken(SubSeq(input, lo, pos + 1))
        BY <1>2, <1>3
      <4>5. pos - lo + 2 <= MaxTokenLen /\ IsToken(SubSeq(input, lo, pos + 1))
              => lo = Start
        BY <1>1, <4>1, ByteFacts
      <4> QED BY <1>1, <3>1, <3>3, <4>1, <4>2, <4>3, <4>4, <4>5
    <3>4. CASE lo = pos + 1 /\ hi \in 1 .. pos
      <4>1. ~IsToken(SubSeq(input', lo, hi))
        BY <1>2, <3>4, SubSeqEmpty, EmptySeq DEF IsToken
      <4>2. ~LookedUp(Emitted, lo, hi)
        BY <1>1, <1>2, <3>4, SegmentsBehind DEF LookedUp
      <4>3. lo # Start
        BY <1>2, <3>4
      <4> QED BY <3>1, <4>1, <4>2, <4>3
    <3> QED BY <1>1, <1>2, <3>2, <3>3, <3>4
  <2> QED BY <2>1 DEF EveryTokenLookedUp
<1>7. HeldBackIsCandidate'
  <2>1. ASSUME NEW lo \in 1 .. pos'
        PROVE  ~( pos' - lo + 1 < MaxTokenLen
                  /\ IsCandidate(SubSeq(input', lo, pos')) )
    <3>1. lo \in 1 .. pos + 1 /\ pos' - lo + 1 = pos - lo + 2
      BY <1>1, <1>2
    <3>2. ~(lo = pos + 1 /\ b = "open")
      BY <1>1, <1>3, BracketKills DEF Grown, WriterInv, WriterTypeOK
    <3> QED BY <1>1, <1>3, <3>1, <3>2, ByteFacts
  <2> QED BY <1>1, <1>2, <2>1, NothingHeld
<1>8. buf' \in Seq(Byte) /\ Len(buf') = 0
  BY <1>1, EmptySeq
<1>9. /\ g.lo = Start /\ g.lo <= g.hi /\ g.hi <= pos + 1 /\ out' = Append(out, g)
      /\ g.hi = pos + 1 - Len(buf')
  BY <1>1, <1>2, <1>4, <1>8 DEF g
<1>10. out' # out
  BY <1>1, <1>4, AppendProperties, LenProperties DEF WriterInv, WriterTypeOK, g
<1> QED
  BY <1>1, <1>2, <1>4, <1>6, <1>7, <1>8, <1>9, <1>10, ByteStep DEF Advance

LEMMA ReleasePreserves ==
  ASSUME WriterInv, Release
  PROVE  WriterInv'
<1>1. /\ wpc = "writing" /\ pos < end /\ pos' = pos + 1
      /\ input' = input /\ end' = end /\ sent' = sent /\ err' = err /\ wpc' = wpc
      /\ buf # << >> /\ classify(Grown) = "dead"
  BY DEF Release, Advance
<1>2. /\ ~err /\ pos \in Nat /\ Start \in 1 .. pos /\ Len(input) \in Nat
      /\ Len(buf) \in Nat /\ b \in Byte
      /\ input \in Seq(Byte) /\ pos \in 0 .. Len(input) - 1
  BY <1>1, ByteFacts, WriterAssumption, LenProperties
<1>3. ~IsToken(Grown) /\ ~IsCandidate(Grown)
  BY <1>1, GrownVerdict
<1>4. PICK hi \in {pos, pos + 1} :
         /\ out' = Append(out, Seg(Start, hi, "raw"))
         /\ hi = pos => b = "open" /\ buf' = <<b>>
         /\ hi = pos + 1 => b # "open" /\ buf' = << >>
  BY <1>2 DEF Release
<1> DEFINE g == Seg(Start, hi, "raw")
<1>5. hi \in Nat \ {0} /\ Start <= hi /\ hi <= pos + 1
  BY <1>2, <1>4
<1>6. g \in Segment /\ g.lo = Start /\ g.hi = hi /\ g.kind = "raw"
  BY <1>2, <1>5, SegFacts
<1> HIDE DEF g
<1>7. EveryTokenLookedUp'
  <2>1. /\ Len(Emitted) \in Nat /\ Len(Emitted') = Len(Emitted) + 1
        /\ \A i \in 1 .. Len(Emitted) : Emitted'[i] = Emitted[i]
        /\ Emitted'[Len(Emitted) + 1] = g
    BY <1>1, <1>2, <1>4, <1>5, <1>6, EmitFacts DEF g
  <2> QED BY <1>1, <1>3, <1>6, <2>1, NoNewToken
<1>8. buf' \in Seq(Byte) /\ Len(buf') = pos + 1 - hi
  <2>1. CASE hi = pos
    <3>1. buf' \in Seq(Byte) /\ Len(buf') = 1
      BY <1>2, <1>4, <2>1, OneByte
    <3>2. pos + 1 - hi = 1
      BY <1>2, <2>1
    <3> QED BY <3>1, <3>2
  <2>2. CASE hi = pos + 1
    BY <1>2, <1>4, <2>2, EmptySeq
  <2> QED BY <1>4, <2>1, <2>2
<1>9. HeldBackIsCandidate'
  <2>1. ASSUME NEW lo \in 1 .. pos',
               pos' - lo + 1 < MaxTokenLen, IsCandidate(SubSeq(input', lo, pos'))
        PROVE  lo = pos + 1 /\ b = "open"
    <3>1. lo \in 1 .. pos + 1 /\ pos' - lo + 1 = pos - lo + 2
      BY <1>1, <1>2
    <3> QED BY <1>1, <1>3, <2>1, <3>1, ByteFacts
  <2>2. CASE hi = pos + 1
    BY <1>1, <1>2, <1>4, <2>1, <2>2, NothingHeld
  <2>3. CASE hi = pos
    <3>1. /\ buf' = SubSeq(input, pos + 1, pos + 1) /\ IsCandidate(buf')
          /\ b = "open" /\ Len(buf') = 1
      BY <1>2, <1>4, <2>3, OneByte, StretchGrows DEF b
    <3> QED BY <1>1, <1>2, <2>1, <3>1, OneHeld
  <2> QED BY <1>4, <2>2, <2>3
<1>10. /\ g.lo = Start /\ g.lo <= g.hi /\ g.hi <= pos + 1 /\ out' = Append(out, g)
       /\ g.hi = pos + 1 - Len(buf') /\ Len(buf') <= pos + 1
  BY <1>1, <1>2, <1>4, <1>5, <1>6, <1>8 DEF g
<1>11. out' # out
  BY <1>4, <1>6, AppendProperties, LenProperties DEF WriterInv, WriterTypeOK, g
<1> QED
  BY <1>1, <1>2, <1>6, <1>7, <1>8, <1>9, <1>10, <1>11, ByteStep DEF Advance

LEMMA GrowPreserves ==
  ASSUME WriterInv, Grow
  PROVE  WriterInv'
<1>1. /\ wpc = "writing" /\ pos < end /\ pos' = pos + 1
      /\ input' = input /\ end' = end /\ sent' = sent /\ err' = err /\ wpc' = wpc
      /\ buf # << >> /\ classify(Grown) = "partial"
  BY DEF Grow, Advance
<1>2. /\ ~err /\ pos \in Nat /\ Start \in 1 .. pos /\ Len(input) \in Nat
      /\ Len(buf) \in Nat /\ Len(buf) < MaxTokenLen /\ Len(buf) = pos - Start + 1
      /\ b \in Byte /\ buf \in Seq(Byte)
      /\ Grown \in Seq(Byte) /\ Len(Grown) = Len(buf) + 1
      /\ Grown = SubSeq(input, Start, pos + 1)
  BY <1>1, ByteFacts, WriterAssumption, LenProperties
    DEF Start, WriterInv, WriterTypeOK
<1>3. ~IsToken(Grown) /\ IsCandidate(Grown)
  BY <1>1, GrownVerdict
<1>4. b # "open"
  BY <1>1, <1>2, <1>3, BracketKills DEF Grown
<1>5. ASSUME NEW lo \in 1 .. pos',
             pos' - lo + 1 < MaxTokenLen, IsCandidate(SubSeq(input', lo, pos'))
      PROVE  lo = Start
  <2>1. lo \in 1 .. pos + 1 /\ pos' - lo + 1 = pos - lo + 2
    BY <1>1, <1>2
  <2> QED BY <1>1, <1>4, <1>5, <2>1, ByteFacts
<1>6. CASE Len(Grown) >= MaxTokenLen
  <2>1. out' = Append(out, Seg(Start, pos + 1, "raw")) /\ buf' = << >>
    BY <1>6 DEF Grow
  <2> DEFINE g == Seg(Start, pos + 1, "raw")
  <2>2. g \in Segment /\ g.lo = Start /\ g.hi = pos + 1 /\ g.kind = "raw"
    BY <1>2, SegFacts
  <2> HIDE DEF g
  <2>3. EveryTokenLookedUp'
    <3>1. /\ Len(Emitted) \in Nat /\ Len(Emitted') = Len(Emitted) + 1
          /\ \A i \in 1 .. Len(Emitted) : Emitted'[i] = Emitted[i]
          /\ Emitted'[Len(Emitted) + 1] = g
      BY <1>1, <1>2, <2>1, <2>2, EmitFacts DEF g
    <3> QED BY <1>1, <1>3, <2>2, <3>1, NoNewToken
  <2>4. HeldBackIsCandidate'
    <3>1. Start \in Nat /\ MaxTokenLen \in Nat /\ pos' - Start + 1 >= MaxTokenLen
      BY <1>1, <1>2, <1>6, WriterAssumption
    <3>2. ASSUME NEW lo \in 1 .. pos'
          PROVE  ~( pos' - lo + 1 < MaxTokenLen
                    /\ IsCandidate(SubSeq(input', lo, pos')) )
      <4> SUFFICES ASSUME pos' - lo + 1 < MaxTokenLen,
                          IsCandidate(SubSeq(input', lo, pos'))
                   PROVE  FALSE
        OBVIOUS
      <4>1. lo = Start
        BY <1>5
      <4> QED BY <1>1, <1>2, <3>1, <4>1
    <3> QED BY <1>1, <1>2, <2>1, <3>2, NothingHeld
  <2>5. buf' \in Seq(Byte) /\ Len(buf') = 0
    BY <2>1, EmptySeq
  <2>6. /\ g.lo = Start /\ g.lo <= g.hi /\ g.hi <= pos + 1 /\ out' = Append(out, g)
        /\ g.hi = pos + 1 - Len(buf')
    BY <1>1, <1>2, <2>1, <2>2, <2>5 DEF g
  <2>7. out' # out
    BY <2>1, <2>2, AppendProperties, LenProperties DEF WriterInv, WriterTypeOK, g
  <2> QED
    BY <1>1, <1>2, <2>2, <2>3, <2>4, <2>5, <2>6, <2>7, ByteStep DEF Advance
<1>7. CASE ~(Len(Grown) >= MaxTokenLen)
  <2>1. out' = out /\ buf' = Grown
    BY <1>7 DEF Grow
  <2>2. EveryTokenLookedUp'
    <3>1. Emitted' = Emitted /\ Len(Emitted) \in Nat
      BY <1>1, <2>1, ConcatProperties, LenProperties
        DEF Emitted, WriterInv, WriterTypeOK
    <3> QED BY <1>1, <1>3, <3>1, NoNewToken
  <2>3. HeldBackIsCandidate'
    <3>1. Start' = Start
      <4>1. Len(buf') = Len(buf) + 1
        BY <1>2, <2>1
      <4> QED BY <1>1, <1>2, <4>1 DEF Start
    <3>2. pos' - Start + 1 < MaxTokenLen /\ IsCandidate(SubSeq(input', Start, pos'))
      BY <1>1, <1>2, <1>3, <1>7, WriterAssumption
    <3>3. buf' = SubSeq(input', Start', pos')
      BY <1>1, <1>2, <2>1, <3>1
    <3> QED BY <1>5, <3>1, <3>2, <3>3 DEF HeldBackIsCandidate
  <2>4. Upto(Emitted) = pos + 1 - Len(buf')
    BY <1>1, <1>2, <2>1 DEF WriterInv, NothingLost
  <2>5. buf' \in Seq(Byte) /\ Len(buf') <= pos + 1
    BY <1>2, <2>1
  <2> QED
    BY <1>1, <2>1, <2>2, <2>3, <2>4, <2>5, ByteStep DEF Advance
<1> QED BY <1>6, <1>7

-----------------------------------------------------------------------------
\* The steps between the bytes.

LEMMA InitEstablishes ==
  ASSUME WriterInit
  PROVE  WriterInv
<1>1. /\ input \in Inputs /\ input \in Seq(Byte) /\ Len(input) \in Nat
      /\ pos = 0 /\ end = 0 /\ buf = << >> /\ out = << >> /\ sent = << >>
      /\ err = FALSE /\ wpc = "idle"
  BY WriterAssumption, LenProperties DEF WriterInit
<1>2. /\ buf \in Seq(Byte) /\ out \in Seq(Segment) /\ sent \in Seq(Segment)
      /\ Len(buf) = 0 /\ Len(sent) = 0
  BY <1>1, EmptySeq
<1>3. Emitted = << >> /\ Emitted = sent /\ Len(Emitted) = 0
  BY <1>1, <1>2, ConcatEmptySeq DEF Emitted
<1>4. WriterTypeOK
  <2>1. pos \in 0 .. Len(input) /\ end \in pos .. Len(input)
    BY <1>1
  <2>2. err \in BOOLEAN
    BY <1>1, Zenon
  <2>3. wpc \in {"idle", "writing", "closed"} /\ Len(buf) <= pos
    BY <1>1, <1>2
  <2> QED BY <1>1, <1>2, <2>1, <2>2, <2>3, Zenon DEF WriterTypeOK
<1>5. NothingLost
  <2>1. Contiguous(sent)
    BY <1>2 DEF Contiguous
  <2>2. Upto(Emitted) = 0
    BY <1>3 DEF Upto
  <2> QED BY <1>1, <1>2, <1>3, <2>1, <2>2 DEF NothingLost
<1>6. EveryTokenLookedUp
  BY <1>1 DEF EveryTokenLookedUp
<1>7. HeldBackIsCandidate
  <2>1. Start = 1
    BY <1>1, <1>2 DEF Start
  <2>2. SubSeq(input, 1, 0) = << >>
    BY EmptyStretch
  <2> QED BY <1>1, <2>1, <2>2 DEF HeldBackIsCandidate
<1> QED BY <1>1, <1>2, <1>3, <1>4, <1>5, <1>6, <1>7 DEF WriterInv

LEMMA CallPreserves ==
  ASSUME WriterInv, NEW n \in 1 .. Len(input) - pos, Write(n) \/ Refuse(n)
  PROVE  WriterInv'
<1>1. /\ input \in Seq(Byte) /\ Len(input) \in Nat /\ pos \in 0 .. Len(input)
      /\ end \in Nat /\ Len(buf) <= pos /\ Len(buf) \in Nat /\ pos \in Nat
  BY WriterAssumption, LenProperties DEF WriterInv, WriterTypeOK
<1>2. CASE Write(n)
  <2>1. /\ wpc = "idle" /\ ~err /\ wpc' = "writing" /\ end' = pos + n
        /\ UNCHANGED <<input, pos, buf, out, sent, err>>
    BY <1>2 DEF Write
  <2>2. Emitted' = Emitted /\ Start' = Start
    BY <2>1 DEF Emitted, Start
  <2>3. WriterTypeOK'
    BY <1>1, <2>1 DEF WriterInv, WriterTypeOK
  <2>4. NothingLost' /\ EveryTokenLookedUp'
    BY <2>1, <2>2 DEF WriterInv, NothingLost, EveryTokenLookedUp
  <2>5. HeldBackIsCandidate'
    BY <2>1, <2>2 DEF WriterInv, HeldBackIsCandidate
  <2> QED BY <2>1, <2>2, <2>3, <2>4, <2>5 DEF WriterInv
<1>3. CASE Refuse(n)
  <2>1. /\ wpc = "idle" /\ err /\ pos' = pos + n /\ end' = pos + n
        /\ UNCHANGED <<input, buf, out, sent, err, wpc>>
    BY <1>3 DEF Refuse
  <2>2. WriterTypeOK'
    BY <1>1, <2>1 DEF WriterInv, WriterTypeOK
  <2>3. NothingLost' /\ EveryTokenLookedUp' /\ HeldBackIsCandidate'
    BY <2>1 DEF WriterInv, NothingLost, EveryTokenLookedUp, HeldBackIsCandidate
  <2> QED BY <2>1, <2>2, <2>3 DEF WriterInv
<1> QED BY <1>2, <1>3

LEMMA DeliverPreserves ==
  ASSUME WriterInv, Deliver
  PROVE  WriterInv'
<1>1. /\ wpc = "writing" /\ ~err /\ wpc' = "idle"
      /\ sent' = sent \o out /\ out' = << >>
      /\ UNCHANGED <<input, pos, end, buf, err>>
  BY DEF Deliver, WriterInv
<1>2. sent \in Seq(Segment) /\ out \in Seq(Segment)
  BY DEF WriterInv, WriterTypeOK
<1>3. sent' \in Seq(Segment) /\ << >> \in Seq(Segment)
  BY <1>1, <1>2, ConcatProperties, EmptySeq
<1>4. Emitted' = Emitted /\ sent' = Emitted /\ Start' = Start
  BY <1>1, <1>3, ConcatEmptySeq DEF Emitted, Start
<1>5. WriterTypeOK'
  BY <1>1, <1>3 DEF WriterInv, WriterTypeOK
<1>6. NothingLost'
  BY <1>1, <1>4 DEF WriterInv, NothingLost
<1>7. EveryTokenLookedUp' /\ HeldBackIsCandidate'
  BY <1>1, <1>4 DEF WriterInv, EveryTokenLookedUp, HeldBackIsCandidate
<1> QED BY <1>1, <1>4, <1>5, <1>6, <1>7 DEF WriterInv

LEMMA DeliverFailsPreserves ==
  ASSUME WriterInv, NEW k, DeliverFails(k)
  PROVE  WriterInv'
<1>1. /\ wpc = "writing" /\ ~err /\ wpc' = "idle" /\ err' = TRUE
      /\ k \in 0 .. Len(out) - 1
      /\ sent' = sent \o SubSeq(out, 1, k) /\ out' = << >>
      /\ UNCHANGED <<input, pos, end, buf>>
  BY DEF DeliverFails, WriterInv
<1>2. sent \in Seq(Segment) /\ out \in Seq(Segment) /\ Contiguous(sent \o out)
  BY <1>1 DEF WriterInv, WriterTypeOK, NothingLost, Emitted
<1>3. k \in 0 .. Len(out)
  BY <1>1, <1>2, LenProperties
<1>4. sent' \in Seq(Segment) /\ Contiguous(sent') /\ << >> \in Seq(Segment)
  BY <1>1, <1>2, <1>3, ContiguousPrefix, EmptySeq
<1>5. WriterTypeOK'
  BY <1>1, <1>4 DEF WriterInv, WriterTypeOK
<1>6. NothingLost' /\ EveryTokenLookedUp' /\ HeldBackIsCandidate'
  BY <1>1, <1>4 DEF NothingLost, EveryTokenLookedUp, HeldBackIsCandidate
<1> QED BY <1>1, <1>5, <1>6 DEF WriterInv

LEMMA ClosePreserves ==
  ASSUME WriterInv, Close
  PROVE  WriterInv'
<1>1. /\ wpc = "idle" /\ ~err /\ wpc' = "closed" /\ buf' = << >>
      /\ sent' = (IF buf = << >> THEN sent ELSE Append(sent, Seg(Start, pos, "raw")))
      /\ UNCHANGED <<input, pos, end, out, err>>
  BY DEF Close
<1>2. /\ sent \in Seq(Segment) /\ out = << >> /\ out' = << >> /\ buf \in Seq(Byte)
      /\ pos \in Nat /\ Len(buf) \in Nat /\ Len(buf) <= pos
  BY <1>1, WriterAssumption, LenProperties DEF WriterInv, WriterTypeOK
<1>3. Emitted = sent /\ Emitted' = sent'
  <2>1. sent' \in Seq(Segment)
    <3>1. CASE buf = << >>
      BY <1>1, <1>2, <3>1
    <3>2. CASE buf # << >>
      <4>1. Len(buf) > 0
        BY <1>2, <3>2, EmptySeq
      <4>2. Seg(Start, pos, "raw") \in Segment
        BY <1>2, <4>1, SegFacts DEF Start
      <4> QED BY <1>1, <1>2, <3>2, <4>2, AppendProperties
    <3> QED BY <3>1, <3>2
  <2> QED BY <1>1, <1>2, <2>1, ConcatEmptySeq DEF Emitted
<1>4. /\ Contiguous(sent) /\ Upto(sent) = pos - Len(buf)
      /\ \A i \in 1 .. Len(sent) : sent[i].hi <= pos
      /\ \A lo, hi \in 1 .. pos :
            (hi - lo + 1 <= MaxTokenLen /\ IsToken(SubSeq(input, lo, hi)))
            <=> LookedUp(sent, lo, hi)
  BY <1>1, <1>3 DEF WriterInv, NothingLost, EveryTokenLookedUp
<1>5. /\ sent' \in Seq(Segment) /\ Contiguous(sent') /\ Upto(sent') = pos
      /\ \A i \in 1 .. Len(sent') : sent'[i].hi <= pos
      /\ \A lo, hi \in 1 .. pos : LookedUp(sent', lo, hi) <=> LookedUp(sent, lo, hi)
  <2>1. CASE buf = << >>
    BY <1>1, <1>2, <1>4, <2>1, EmptySeq
  <2>2. CASE buf # << >>
    <3> DEFINE g == Seg(Start, pos, "raw")
    <3>1. Len(buf) > 0 /\ Start \in Nat \ {0} /\ Start <= pos
      BY <1>2, <2>2, EmptySeq DEF Start
    <3>2. g \in Segment /\ g.lo = Start /\ g.hi = pos /\ g.kind = "raw"
      BY <1>2, <3>1, SegFacts
    <3>3. sent' = Append(sent, g)
      BY <1>1, <2>2
    <3> HIDE DEF g
    <3>4. Start = Upto(sent) + 1
      BY <1>2, <1>4 DEF Start
    <3>5. sent' \in Seq(Segment) /\ Contiguous(sent') /\ Upto(sent') = pos
      BY <1>2, <1>4, <3>1, <3>2, <3>3, <3>4, ContiguousAppend
    <3>6. /\ Len(sent) \in Nat /\ Len(sent') = Len(sent) + 1
          /\ \A i \in 1 .. Len(sent) : sent'[i] = sent[i]
          /\ sent'[Len(sent) + 1] = g
      BY <1>2, <3>2, <3>3, AppendProperties, LenProperties
    <3>7. ASSUME NEW i \in 1 .. Len(sent') PROVE sent'[i].hi <= pos
      <4>1. CASE i \in 1 .. Len(sent)
        BY <1>4, <3>6, <4>1
      <4>2. CASE i = Len(sent) + 1
        BY <1>2, <3>2, <3>6, <4>2
      <4> QED BY <3>6, <4>1, <4>2
    <3>8. ASSUME NEW lo \in 1 .. pos, NEW hi \in 1 .. pos
          PROVE  LookedUp(sent', lo, hi) <=> LookedUp(sent, lo, hi)
      BY <3>2, <3>6, LookedUpAppend
    <3> QED BY <3>5, <3>7, <3>8
  <2> QED BY <2>1, <2>2
<1>6. Len(buf') = 0 /\ buf' \in Seq(Byte) /\ out' \in Seq(Segment)
  BY <1>1, <1>2, EmptySeq
<1>7. WriterTypeOK'
  BY <1>1, <1>2, <1>5, <1>6 DEF WriterInv, WriterTypeOK
<1>8. NothingLost'
  BY <1>1, <1>2, <1>3, <1>5, <1>6 DEF NothingLost
<1>9. EveryTokenLookedUp'
  BY <1>1, <1>3, <1>4, <1>5 DEF EveryTokenLookedUp
<1>10. HeldBackIsCandidate'
  BY <1>1 DEF HeldBackIsCandidate
<1> QED BY <1>1, <1>2, <1>3, <1>5, <1>7, <1>8, <1>9, <1>10 DEF WriterInv

LEMMA CloseInErrorPreserves ==
  ASSUME WriterInv, CloseFails \/ CloseAfterError
  PROVE  WriterInv'
<1>1. /\ wpc = "idle" /\ err' = TRUE /\ wpc' = "closed"
      /\ UNCHANGED <<input, pos, end, buf, out, sent>>
  BY DEF CloseFails, CloseAfterError, WriterInv, WriterTypeOK
<1>2. WriterTypeOK'
  BY <1>1 DEF WriterInv, WriterTypeOK
<1>3. NothingLost' /\ EveryTokenLookedUp' /\ HeldBackIsCandidate'
  BY <1>1 DEF WriterInv, NothingLost, EveryTokenLookedUp, HeldBackIsCandidate
<1> QED BY <1>1, <1>2, <1>3 DEF WriterInv

-----------------------------------------------------------------------------
\* The invariant is inductive, hence it holds in every reachable state.
LEMMA WriterInvariant == WriterSpec => []WriterInv
<1>1. WriterInit => WriterInv
  BY InitEstablishes
<1>2. WriterInv /\ [WriterNext]_writerVars => WriterInv'
  <2> SUFFICES ASSUME WriterInv, [WriterNext]_writerVars
               PROVE  WriterInv'
    OBVIOUS
  <2>1. CASE \E n \in 1 .. Len(input) - pos : Write(n) \/ Refuse(n)
    BY <2>1, CallPreserves
  <2>2. CASE Step
    BY <2>2, PassBytePreserves, OpenCandidatePreserves, ReleasePreserves,
       GrowPreserves, ResolvePreserves DEF Step
  <2>3. CASE Deliver
    BY <2>3, DeliverPreserves
  <2>4. CASE \E k \in 0 .. Len(out) : DeliverFails(k)
    BY <2>4, DeliverFailsPreserves
  <2>5. CASE Close
    BY <2>5, ClosePreserves
  <2>6. CASE CloseFails \/ CloseAfterError
    BY <2>6, CloseInErrorPreserves
  <2>7. CASE UNCHANGED writerVars
    <3>1. UNCHANGED <<input, pos, end, buf, out, sent, err, wpc>>
      BY <2>7 DEF writerVars
    <3> QED
      BY <3>1 DEF WriterInv, WriterTypeOK, NothingLost, EveryTokenLookedUp,
                  HeldBackIsCandidate, Emitted, Start
  <2> QED BY <2>1, <2>2, <2>3, <2>4, <2>5, <2>6, <2>7 DEF WriterNext
<1> QED BY <1>1, <1>2, PTL DEF WriterSpec

\* Every variable keeps its type, for any cap and any texts.
THEOREM WriterTypeCorrect == WriterSpec => []WriterTypeOK
<1>1. WriterInv => WriterTypeOK
  BY DEF WriterInv
<1> QED BY <1>1, WriterInvariant, PTL

\* However the response is cut into chunks and whenever a write fails, no byte
\* is lost, repeated or reordered on the way to the client.
THEOREM WriterLosesNothing == WriterSpec => []NothingLost
<1>1. WriterInv => NothingLost
  BY DEF WriterInv
<1> QED BY <1>1, WriterInvariant, PTL

\* The tokens looked up are exactly the tokens of the text, however it is cut
\* into chunks: splitting a token over chunks never hides it.
THEOREM SplitsHideNoToken == WriterSpec => []EveryTokenLookedUp
<1>1. WriterInv => EveryTokenLookedUp
  BY DEF WriterInv
<1> QED BY <1>1, WriterInvariant, PTL

\* Bytes are held back exactly while they may still become a token, and never
\* as many as the cap.
THEOREM HoldsBackOnlyCandidates == WriterSpec => []HeldBackIsCandidate
<1>1. WriterInv => HeldBackIsCandidate
  BY DEF WriterInv
<1> QED BY <1>1, WriterInvariant, PTL

-----------------------------------------------------------------------------
\* Part two, the reader.  The writer inside it keeps its invariant.

\* Where the writer stands, by where the reader stands.
WriterFollows ==
  /\ wpc = "writing" <=> rpc = "writing"
  /\ wpc = "closed" <=> drain
  /\ rpc # "writing" => pos = end
  /\ rpc = "writing" => taken = Len(sent)

\* How the source ended is remembered until the caller has been told.
EndIsRemembered ==
  /\ srcErr = "eof" => end = Len(input)
  /\ ~drain => readErr = "nil" /\ (rpc \in {"out", "loop"} => srcErr = "nil")
  /\ drain => srcErr # "nil" /\ buf = << >> /\ rpc \in {"out", "loop"}
  /\ drain /\ result \notin {"eof", "fail"} =>
        readErr = IF srcErr = "fail" THEN "fail" ELSE "nil"
  /\ result # "none" => rpc = "out"
  /\ result \in {"eof", "fail"} => drain /\ taken = Len(sent) /\ srcErr = result

\* The inductive invariant.
ReaderInv == WriterInv /\ ReaderTypeOK /\ WriterFollows /\ EndIsRemembered

-----------------------------------------------------------------------------
\* What the caller has taken, as a place in the text.

\* Segments that follow one another end one behind the other.
LEMMA ContiguousGrows ==
  ASSUME NEW s \in Seq(Segment), Contiguous(s),
         NEW i \in 1 .. Len(s), NEW j \in 1 .. Len(s), i < j
  PROVE  s[i].hi < s[j].hi
<1> DEFINE T == { k \in i + 1 .. Len(s) : ~(s[i].hi < s[k].hi) }
<1> SUFFICES ASSUME j \in T PROVE FALSE
  BY LenProperties
<1>1. Len(s) \in Nat /\ T \in SUBSET Nat /\ T # {}
  BY LenProperties
<1>2. PICK k \in T : \A l \in T : k <= l
  BY <1>1, Least
<1>3. k \in 2 .. Len(s) /\ k - 1 \in i .. Len(s) /\ k - 1 \in 1 .. Len(s)
  BY <1>1, <1>2
<1>4. s[i].hi \in Nat /\ s[k].hi \in Nat /\ s[k - 1].hi \in Nat /\ s[k].lo \in Nat
  <2>1. s[i] \in Segment /\ s[k] \in Segment /\ s[k - 1] \in Segment
    BY <1>3, ElementOfSeq
  <2> QED BY <2>1 DEF Segment
<1>5. s[k].lo = s[k - 1].hi + 1 /\ s[k].lo <= s[k].hi
  BY <1>3 DEF Contiguous
<1>6. s[i].hi <= s[k - 1].hi
  <2>1. CASE k - 1 = i
    BY <1>4, <2>1
  <2>2. CASE k - 1 # i
    <3>1. k - 1 \notin T
      BY <1>1, <1>2
    <3>2. k - 1 \in i + 1 .. Len(s)
      BY <1>1, <1>3, <2>2
    <3> QED BY <1>4, <3>1, <3>2
  <2> QED BY <2>1, <2>2
<1>7. ~(s[i].hi < s[k].hi)
  BY <1>2
<1> HIDE DEF T
<1> QED BY <1>4, <1>5, <1>6, <1>7

\* Passed is the end of the last segment taken.
LEMMA UptoTaken ==
  ASSUME NEW s \in Seq(Segment), NEW k \in 0 .. Len(s)
  PROVE  Upto(SubSeq(s, 1, k)) = IF k = 0 THEN 0 ELSE s[k].hi
<1>1. Len(s) \in Nat /\ \A i \in 1 .. k : s[i] \in Segment
  BY LenProperties, ElementOfSeq
<1>2. /\ SubSeq(s, 1, k) \in Seq(Segment)
      /\ Len(SubSeq(s, 1, k)) = k
      /\ \A i \in 1 .. k : SubSeq(s, 1, k)[i] = s[i]
  BY <1>1, SubSeqProperties
<1>3. CASE k = 0
  <2>1. SubSeq(s, 1, k) = << >>
    BY <1>2, <1>3, EmptySeq
  <2> QED BY <1>3, <2>1 DEF Upto
<1>4. CASE k # 0
  <2>1. SubSeq(s, 1, k) # << >> /\ k \in 1 .. k
    BY <1>2, <1>4, EmptySeq
  <2> QED BY <1>2, <1>4, <2>1 DEF Upto
<1> QED BY <1>3, <1>4

\* All that was taken, if it is all there is.
LEMMA UptoAll ==
  ASSUME NEW s \in Seq(Segment)
  PROVE  Upto(SubSeq(s, 1, Len(s))) = Upto(s)
<1>1. Len(s) \in Nat /\ Len(s) \in 0 .. Len(s)
  BY LenProperties
<1>2. s = << >> <=> Len(s) = 0
  BY EmptySeq
<1> QED BY <1>1, <1>2, UptoTaken DEF Upto

\* What has been taken stays taken when the sink gets more.
LEMMA TakenStays ==
  ASSUME NEW s \in Seq(Segment), NEW t \in Seq(Segment), NEW k \in 0 .. Len(s),
         Len(s) <= Len(t), \A i \in 1 .. Len(s) : t[i] = s[i]
  PROVE  Upto(SubSeq(t, 1, k)) = Upto(SubSeq(s, 1, k))
<1>1. Len(s) \in Nat /\ Len(t) \in Nat
  BY LenProperties
<1>2. k \in 0 .. Len(t) /\ (k # 0 => k \in 1 .. Len(s))
  BY <1>1
<1> QED BY <1>2, UptoTaken

-----------------------------------------------------------------------------
\* The inductive invariant.

LEMMA ReaderTypes ==
  ASSUME ReaderInv
  PROVE  /\ input \in Seq(Byte) /\ Len(input) \in Nat
         /\ pos \in 0 .. Len(input) /\ end \in pos .. Len(input)
         /\ sent \in Seq(Segment) /\ out \in Seq(Segment) /\ Len(sent) \in Nat
         /\ buf \in Seq(Byte) /\ Len(buf) \in Nat /\ Len(buf) <= pos
         /\ ~err /\ taken \in 0 .. Len(sent)
         /\ Contiguous(sent)
BY WriterAssumption, LenProperties
   DEF ReaderInv, WriterInv, WriterTypeOK, ReaderTypeOK, NothingLost

\* Between the writer's calls the sink ends where the candidate begins.
LEMMA SinkIsSettled ==
  ASSUME ReaderInv, rpc # "writing"
  PROVE  /\ out = << >> /\ Upto(sent) = pos - Len(buf) /\ Len(buf) < MaxTokenLen
         /\ \A i \in 1 .. Len(sent) : sent[i].hi <= pos
<1>1. wpc # "writing" /\ ~err /\ out = << >> /\ sent \in Seq(Segment)
  BY ReaderTypes DEF ReaderInv, WriterFollows, WriterInv
<1>2. Emitted = sent
  BY <1>1, ConcatEmptySeq DEF Emitted
<1>3. Upto(sent) = pos - Len(buf) /\ \A i \in 1 .. Len(sent) : sent[i].hi <= pos
  BY <1>1, <1>2 DEF ReaderInv, WriterInv, NothingLost
<1>4. Len(buf) < MaxTokenLen
  <2>1. CASE buf = << >>
    BY <2>1, WriterAssumption, EmptySeq
  <2>2. CASE buf # << >>
    <3>1. wpc # "closed"
      BY <2>2 DEF ReaderInv, WriterFollows, EndIsRemembered
    <3>2. pos \in Nat /\ Len(buf) \in 1 .. pos /\ Start \in 1 .. pos
      BY <2>2, ReaderTypes, EmptySeq DEF Start
    <3>3. pos - Start + 1 < MaxTokenLen
      BY <1>1, <3>1, <3>2 DEF ReaderInv, WriterInv, HeldBackIsCandidate
    <3> QED BY <3>2, <3>3, WriterAssumption DEF Start
  <2> QED BY <2>1, <2>2
<1> QED BY <1>1, <1>3, <1>4

LEMMA ReaderInitInv == ReaderInit => ReaderInv
<1> SUFFICES ASSUME ReaderInit PROVE ReaderInv
  OBVIOUS
<1>1. WriterInit /\ WriterInv
  BY InitEstablishes DEF ReaderInit
<1>2. Len(sent) = 0 /\ buf = << >> /\ pos = end /\ err = FALSE /\ wpc = "idle"
  BY <1>1, EmptySeq DEF WriterInit
<1>3. ReaderTypeOK
  <2>1. WriterTypeOK /\ taken \in 0 .. Len(sent)
    BY <1>1, <1>2 DEF ReaderInit, WriterInv
  <2> QED BY <1>2, <2>1 DEF ReaderInit, ReaderTypeOK
<1>4. WriterFollows /\ EndIsRemembered
  BY <1>2 DEF ReaderInit, WriterFollows, EndIsRemembered
<1> QED BY <1>1, <1>3, <1>4 DEF ReaderInv

\* Steps that leave the writer alone.
LEMMA WriterStays == WriterInv /\ UNCHANGED writerVars => WriterInv'
<1> SUFFICES ASSUME WriterInv, UNCHANGED writerVars PROVE WriterInv'
  OBVIOUS
<1>1. UNCHANGED <<input, pos, end, buf, out, sent, err, wpc>>
  BY DEF writerVars
<1> QED
  BY <1>1 DEF WriterInv, WriterTypeOK, NothingLost, EveryTokenLookedUp,
              HeldBackIsCandidate, Emitted, Start

LEMMA ReadPreserves == ReaderInv /\ Read => ReaderInv'
<1> SUFFICES ASSUME ReaderInv, Read PROVE ReaderInv'
  OBVIOUS
<1>1. /\ rpc = "out" /\ rpc' = "loop" /\ result = "none"
      /\ UNCHANGED <<input, pos, end, buf, out, sent, err, wpc>>
      /\ UNCHANGED <<srcErr, drain, readErr, taken, result>>
  BY DEF Read, writerVars
<1>2. WriterInv'
  BY <1>1, WriterStays DEF ReaderInv, writerVars
<1>3. ReaderTypeOK' /\ WriterFollows' /\ EndIsRemembered'
  BY <1>1, <1>2 DEF ReaderInv, ReaderTypeOK, WriterFollows, EndIsRemembered, WriterInv
<1> QED BY <1>2, <1>3 DEF ReaderInv

LEMMA PullPreserves ==
  ASSUME ReaderInv, NEW n \in 0 .. Len(input) - pos, NEW e \in {"nil", "eof", "fail"},
         Pull(n, e)
  PROVE  ReaderInv'
<1>1. /\ rpc = "loop" /\ taken = Len(sent) /\ ~drain /\ srcErr' = e
      /\ e = "eof" => pos + n = Len(input)
      /\ n > 0 \/ e # "nil"
      /\ UNCHANGED <<drain, readErr, taken, result>>
  BY DEF Pull, SinkEmpty
<1>2. pos = end /\ pos \in Nat /\ Len(input) \in Nat /\ result = "none" /\ srcErr = "nil"
  BY <1>1, ReaderTypes DEF ReaderInv, WriterFollows, EndIsRemembered
<1>3. CASE n > 0
  <2>1. Write(n) /\ rpc' = "writing"
    BY <1>3 DEF Pull
  <2>2. /\ wpc' = "writing" /\ end' = pos + n
        /\ UNCHANGED <<input, pos, buf, out, sent, err>>
    BY <2>1 DEF Write
  <2>3. WriterInv'
    <3>1. n \in 1 .. Len(input) - pos
      BY <1>2, <1>3
    <3> QED BY <2>1, <3>1, CallPreserves DEF ReaderInv
  <2>4. ReaderTypeOK'
    BY <1>1, <2>1, <2>2, <2>3 DEF ReaderInv, ReaderTypeOK, WriterInv
  <2>5. WriterFollows' /\ EndIsRemembered'
    BY <1>1, <1>2, <2>1, <2>2 DEF ReaderInv, WriterFollows, EndIsRemembered
  <2> QED BY <2>3, <2>4, <2>5 DEF ReaderInv
<1>4. CASE n = 0
  <2>1. /\ rpc' = "finishing" /\ e # "nil"
        /\ UNCHANGED <<input, pos, end, buf, out, sent, err, wpc>>
    BY <1>1, <1>4 DEF Pull, writerVars
  <2>2. WriterInv'
    BY <2>1, WriterStays DEF ReaderInv, writerVars
  <2>3. e = "eof" => end = Len(input)
    BY <1>1, <1>2, <1>4
  <2>4. ReaderTypeOK'
    BY <1>1, <2>1, <2>2 DEF ReaderInv, ReaderTypeOK, WriterInv
  <2>5. WriterFollows' /\ EndIsRemembered'
    BY <1>1, <1>2, <2>1, <2>3 DEF ReaderInv, WriterFollows, EndIsRemembered
  <2> QED BY <2>2, <2>4, <2>5 DEF ReaderInv
<1> QED BY <1>2, <1>3, <1>4

\* A byte changes neither what was sent nor where the chunk ends.
LEMMA StepFrame ==
  Step => /\ wpc = "writing" /\ UNCHANGED <<input, end, sent, err, wpc>>
BY DEF Step, Advance, PassByte, OpenCandidate, Release, Grow, Resolve

LEMMA PushBytePreserves == ReaderInv /\ PushByte => ReaderInv'
<1> SUFFICES ASSUME ReaderInv, PushByte PROVE ReaderInv'
  OBVIOUS
<1>1. /\ rpc = "writing" /\ Step
      /\ UNCHANGED <<srcErr, drain, readErr, taken, rpc, result>>
  BY DEF PushByte
<1>2. wpc = "writing" /\ UNCHANGED <<input, end, sent, err, wpc>>
  BY <1>1, StepFrame
<1>3. WriterInv'
  BY <1>1, PassBytePreserves, OpenCandidatePreserves, ReleasePreserves,
     GrowPreserves, ResolvePreserves DEF Step, ReaderInv
<1>4. ReaderTypeOK' /\ WriterFollows'
  BY <1>1, <1>2, <1>3 DEF ReaderInv, ReaderTypeOK, WriterFollows, WriterInv
<1>5. EndIsRemembered'
  BY <1>1, <1>2 DEF ReaderInv, WriterFollows, EndIsRemembered
<1> QED BY <1>3, <1>4, <1>5 DEF ReaderInv

LEMMA PushEndPreserves == ReaderInv /\ PushEnd => ReaderInv' /\ UNCHANGED Passed
<1> SUFFICES ASSUME ReaderInv, PushEnd PROVE ReaderInv' /\ UNCHANGED Passed
  OBVIOUS
<1>1. /\ rpc = "writing" /\ rpc' = "finishing"
      /\ wpc = "writing" /\ pos = end /\ sent' = sent \o out /\ wpc' = "idle"
      /\ UNCHANGED <<input, pos, end, buf, err>>
      /\ UNCHANGED <<srcErr, drain, readErr, taken, result>>
  BY DEF PushEnd, Deliver
<1>2. WriterInv'
  BY DeliverPreserves DEF ReaderInv, PushEnd
<1>3. /\ sent \o out \in Seq(Segment) /\ Len(sent \o out) \in Nat
      /\ Len(sent) \in Nat /\ Len(sent) <= Len(sent \o out)
      /\ \A i \in 1 .. Len(sent) : (sent \o out)[i] = sent[i]
      /\ taken \in 0 .. Len(sent)
  BY ReaderTypes, ConcatProperties, LenProperties
<1>4. taken \in 0 .. Len(sent') /\ Passed' = Passed
  <2>1. taken \in 0 .. Len(sent \o out)
    BY <1>3
  <2>2. Upto(SubSeq(sent \o out, 1, taken)) = Upto(SubSeq(sent, 1, taken))
    BY <1>3, ReaderTypes, TakenStays
  <2> QED BY <1>1, <2>1, <2>2 DEF Passed
<1>5. ReaderTypeOK' /\ WriterFollows' /\ EndIsRemembered'
  BY <1>1, <1>2, <1>4
     DEF ReaderInv, ReaderTypeOK, WriterFollows, EndIsRemembered, WriterInv
<1> QED BY <1>2, <1>4, <1>5 DEF ReaderInv

LEMMA FinishPullPreserves == ReaderInv /\ FinishPull => ReaderInv' /\ UNCHANGED Passed
<1> SUFFICES ASSUME ReaderInv, FinishPull PROVE ReaderInv' /\ UNCHANGED Passed
  OBVIOUS
<1>1. /\ rpc = "finishing" /\ rpc' = "loop"
      /\ UNCHANGED <<srcErr, taken, result>>
  BY DEF FinishPull
<1>2. /\ pos = end /\ ~drain /\ readErr = "nil" /\ result = "none"
      /\ wpc # "writing" /\ srcErr \in {"nil", "eof", "fail"}
  BY <1>1 DEF ReaderInv, ReaderTypeOK, WriterFollows, EndIsRemembered
<1>3. CASE srcErr = "nil"
  <2>1. UNCHANGED <<input, pos, end, buf, out, sent, err, wpc>> /\ UNCHANGED <<drain, readErr>>
    BY <1>3 DEF FinishPull, writerVars
  <2>2. WriterInv'
    BY <2>1, WriterStays DEF ReaderInv, writerVars
  <2>3. ReaderTypeOK' /\ WriterFollows' /\ EndIsRemembered'
    BY <1>1, <1>2, <1>3, <2>1, <2>2
       DEF ReaderInv, ReaderTypeOK, WriterFollows, EndIsRemembered, WriterInv
  <2> QED BY <1>1, <2>1, <2>2, <2>3 DEF ReaderInv, Passed
<1>4. CASE srcErr # "nil"
  <2>1. /\ drain' = TRUE /\ Close
        /\ readErr' = IF srcErr = "fail" THEN "fail" ELSE "nil"
    BY <1>2, <1>4 DEF FinishPull
  <2>2. /\ sent' = (IF buf = << >> THEN sent ELSE Append(sent, Seg(Start, pos, "raw")))
        /\ buf' = << >> /\ wpc' = "closed"
        /\ UNCHANGED <<input, pos, end, out, err>>
    BY <2>1 DEF Close
  <2>3. WriterInv'
    BY <2>1, ClosePreserves DEF ReaderInv
  <2>4. /\ sent' \in Seq(Segment) /\ Len(sent) <= Len(sent')
        /\ \A i \in 1 .. Len(sent) : sent'[i] = sent[i]
        /\ sent \in Seq(Segment) /\ taken \in 0 .. Len(sent)
        /\ Len(sent) \in Nat /\ Len(sent') \in Nat
    <3>1. sent' \in Seq(Segment) /\ Len(sent') \in Nat
      BY <2>3, LenProperties DEF WriterInv, WriterTypeOK
    <3>2. CASE buf = << >>
      BY <2>2, <3>1, <3>2, ReaderTypes
    <3>3. CASE buf # << >>
      <4>1. Seg(Start, pos, "raw") \in Segment
        BY <3>3, ReaderTypes, EmptySeq, SegFacts DEF Start
      <4>2. /\ sent' = Append(sent, Seg(Start, pos, "raw"))
            /\ Len(sent') = Len(sent) + 1
            /\ \A i \in 1 .. Len(sent) : sent'[i] = sent[i]
        BY <2>2, <3>3, <4>1, ReaderTypes, AppendProperties
      <4> QED BY <3>1, <4>2, ReaderTypes
    <3> QED BY <3>2, <3>3
  <2>5. taken \in 0 .. Len(sent') /\ Passed' = Passed
    BY <1>1, <2>4, TakenStays DEF Passed
  <2>6. ReaderTypeOK' /\ WriterFollows' /\ EndIsRemembered'
    BY <1>1, <1>2, <1>4, <2>1, <2>2, <2>3, <2>5
       DEF ReaderInv, ReaderTypeOK, WriterFollows, EndIsRemembered, WriterInv
  <2> QED BY <2>3, <2>5, <2>6 DEF ReaderInv
<1> QED BY <1>3, <1>4

LEMMA ReturnDataPreserves ==
  ASSUME ReaderInv, NEW k \in 1 .. Len(sent) - taken, ReturnData(k)
  PROVE  ReaderInv'
<1>1. /\ rpc = "loop" /\ taken # Len(sent) /\ taken' = taken + k /\ rpc' = "out"
      /\ UNCHANGED <<input, pos, end, buf, out, sent, err, wpc>>
      /\ UNCHANGED <<srcErr, drain, readErr, result>>
  BY DEF ReturnData, SinkEmpty, writerVars
<1>2. WriterInv'
  BY <1>1, WriterStays DEF ReaderInv, writerVars
<1>3. taken + k \in 0 .. Len(sent) /\ result = "none"
  BY <1>1, ReaderTypes DEF ReaderInv, EndIsRemembered
<1>4. ReaderTypeOK' /\ WriterFollows' /\ EndIsRemembered'
  BY <1>1, <1>2, <1>3
     DEF ReaderInv, ReaderTypeOK, WriterFollows, EndIsRemembered, WriterInv
<1> QED BY <1>2, <1>4 DEF ReaderInv

LEMMA ReturnEndPreserves == ReaderInv /\ ReturnEnd => ReaderInv'
<1> SUFFICES ASSUME ReaderInv, ReturnEnd PROVE ReaderInv'
  OBVIOUS
<1>1. /\ rpc = "loop" /\ taken = Len(sent) /\ drain
      /\ result' = IF readErr = "nil" THEN "eof" ELSE "fail"
      /\ readErr' = "nil" /\ rpc' = "out"
      /\ UNCHANGED <<input, pos, end, buf, out, sent, err, wpc>>
      /\ UNCHANGED <<srcErr, drain, taken>>
  BY DEF ReturnEnd, SinkEmpty, writerVars
<1>2. WriterInv'
  BY <1>1, WriterStays DEF ReaderInv, writerVars
<1>3. result = "none" /\ srcErr \in {"eof", "fail"} /\ result' = srcErr
  BY <1>1 DEF ReaderInv, ReaderTypeOK, EndIsRemembered
<1>4. ReaderTypeOK' /\ WriterFollows' /\ EndIsRemembered'
  BY <1>1, <1>2, <1>3
     DEF ReaderInv, ReaderTypeOK, WriterFollows, EndIsRemembered, WriterInv
<1> QED BY <1>2, <1>4 DEF ReaderInv

LEMMA AbandonPreserves == ReaderInv /\ Abandon => ReaderInv'
<1> SUFFICES ASSUME ReaderInv, Abandon PROVE ReaderInv'
  OBVIOUS
<1>1. /\ rpc = "out" /\ result = "none" /\ result' = "gone"
      /\ UNCHANGED <<input, pos, end, buf, out, sent, err, wpc>>
      /\ UNCHANGED <<srcErr, drain, readErr, taken, rpc>>
  BY DEF Abandon, writerVars
<1>2. WriterInv'
  BY <1>1, WriterStays DEF ReaderInv, writerVars
<1>3. ReaderTypeOK' /\ WriterFollows' /\ EndIsRemembered'
  BY <1>1, <1>2 DEF ReaderInv, ReaderTypeOK, WriterFollows, EndIsRemembered, WriterInv
<1> QED BY <1>2, <1>3 DEF ReaderInv

LEMMA ReaderStutters == ReaderInv /\ UNCHANGED readerVars => ReaderInv'
<1> SUFFICES ASSUME ReaderInv, UNCHANGED readerVars PROVE ReaderInv'
  OBVIOUS
<1>1. UNCHANGED <<input, pos, end, buf, out, sent, err, wpc>>
      /\ UNCHANGED <<srcErr, drain, readErr, taken, rpc, result>>
  BY DEF readerVars, writerVars
<1>2. WriterInv'
  BY <1>1, WriterStays DEF ReaderInv, writerVars
<1>3. ReaderTypeOK' /\ WriterFollows' /\ EndIsRemembered'
  BY <1>1, <1>2 DEF ReaderInv, ReaderTypeOK, WriterFollows, EndIsRemembered, WriterInv
<1> QED BY <1>2, <1>3 DEF ReaderInv

LEMMA ReaderInvariant == ReaderSpec => []ReaderInv
<1>1. ReaderInv /\ [ReaderNext]_readerVars => ReaderInv'
  BY ReadPreserves, PullPreserves, PushBytePreserves, PushEndPreserves,
     FinishPullPreserves, ReturnDataPreserves, ReturnEndPreserves, AbandonPreserves,
     ReaderStutters DEF ReaderNext, ReaderStep
<1> QED BY <1>1, ReaderInitInv, PTL DEF ReaderSpec

-----------------------------------------------------------------------------
\* What holds of every behaviour.

\* The reader's variables keep their types, and its writer, which writes into
\* memory, never fails.
THEOREM ReaderTypeCorrect == ReaderSpec => []ReaderTypeOK
<1>1. ReaderInv => ReaderTypeOK
  BY DEF ReaderInv
<1> QED BY <1>1, ReaderInvariant, PTL

\* demaskReader.Read reports the end only behind the last byte that arrived, and as
\* the source reported it: a response that was cut off never looks complete.
THEOREM EndComesLast == ReaderSpec => []EndIsTrue
<1>1. ASSUME ReaderInv PROVE EndIsTrue
  <2> SUFFICES ASSUME result \in {"eof", "fail"}
               PROVE  Passed = pos /\ srcErr = result /\ (result = "eof" => Passed = Len(input))
    BY DEF EndIsTrue
  <2>1. /\ drain /\ taken = Len(sent) /\ srcErr = result /\ rpc = "out" /\ buf = << >>
        /\ pos = end /\ (result = "eof" => end = Len(input))
    BY <1>1 DEF ReaderInv, EndIsRemembered, WriterFollows
  <2>2. Upto(sent) = pos - Len(buf) /\ Passed = Upto(sent)
    BY <1>1, <2>1, SinkIsSettled, ReaderTypes, UptoAll DEF Passed
  <2>3. Passed = pos
    BY <1>1, <2>1, <2>2, ReaderTypes, EmptySeq
  <2> QED BY <2>1, <2>3
<1> QED BY <1>1, ReaderInvariant, PTL

\* demaskReader.Read turns to upstream only when the caller has got all that was
\* read, up to a candidate shorter than the cap.
THEOREM EventsComeThrough == ReaderSpec => NothingWaitsBehindUpstream
<1>1. ASSUME ReaderInv, [ReaderNext]_readerVars
      PROVE  [ rpc = "loop" /\ rpc' \in {"writing", "finishing"} =>
                 Passed = pos - Len(buf) /\ pos - Passed < MaxTokenLen ]_readerVars
  <2> SUFFICES ASSUME ReaderNext, rpc = "loop", rpc' \in {"writing", "finishing"}
               PROVE  Passed = pos - Len(buf) /\ pos - Passed < MaxTokenLen
    BY <1>1
  <2>1. taken = Len(sent)
    <3>1. PICK n, e : Pull(n, e)
      BY DEF ReaderNext, ReaderStep, Read, Abandon, PushByte, PushEnd, FinishPull,
             ReturnEnd, ReturnData
    <3> QED BY <3>1 DEF Pull, SinkEmpty
  <2>2. /\ Upto(sent) = pos - Len(buf) /\ Len(buf) < MaxTokenLen
        /\ Passed = Upto(sent)
    BY <1>1, <2>1, SinkIsSettled, ReaderTypes, UptoAll DEF Passed
  <2> QED BY <1>1, <2>2, ReaderTypes
<1> QED BY <1>1, ReaderInvariant, PTL DEF ReaderSpec, NothingWaitsBehindUpstream

-----------------------------------------------------------------------------
\* The refinement, step by step.

LEMMA InitIsStreamInit == ReaderInit => Stream!StreamInit
<1> SUFFICES ASSUME ReaderInit PROVE Stream!StreamInit
  OBVIOUS
<1>1. ReaderInv /\ taken = 0 /\ end = 0 /\ srcErr = "nil" /\ result = "none"
  BY ReaderInitInv DEF ReaderInit, WriterInit
<1>2. Passed = 0
  BY <1>1, ReaderTypes, UptoTaken DEF Passed
<1> QED BY <1>1, <1>2, ReaderTypes DEF Stream!StreamInit

\* A read of the source is an arrival, of nothing if it only reports the end.
LEMMA PullIsArrival ==
  ASSUME ReaderInv, NEW n \in 0 .. Len(input) - pos, NEW e \in {"nil", "eof", "fail"},
         Pull(n, e)
  PROVE  Stream!StreamNext
<1> DEFINE s == IF e = "nil" THEN "open" ELSE e
<1>1. /\ rpc = "loop" /\ ~drain /\ srcErr' = e
      /\ e = "eof" => pos + n = Len(input)
      /\ UNCHANGED <<taken, result>>
  BY DEF Pull
<1>2. pos = end /\ pos \in Nat /\ Len(input) \in Nat /\ result = "none" /\ srcErr = "nil"
  BY <1>1, ReaderTypes DEF ReaderInv, WriterFollows, EndIsRemembered
<1>3. end' = end + n /\ UNCHANGED <<input, sent>>
  BY <1>2 DEF Pull, Write, writerVars
<1>4. UNCHANGED Passed
  BY <1>1, <1>3 DEF Passed
<1>5. Stream!Arrive(n, s)
  BY <1>1, <1>2, <1>3, <1>4 DEF Stream!Arrive
<1>6. n \in 0 .. Len(input) - end /\ s \in {"open", "eof", "fail"}
  BY <1>2
<1> QED BY <1>5, <1>6 DEF Stream!StreamNext

\* What the caller takes is passed on, and is something.
LEMMA ReturnDataPassesOn ==
  ASSUME ReaderInv, NEW k \in 1 .. Len(sent) - taken, ReturnData(k)
  PROVE  Stream!StreamNext
<1>1. /\ rpc = "loop" /\ taken' = taken + k
      /\ UNCHANGED <<input, end, sent, srcErr, result>>
  BY DEF ReturnData, writerVars
<1>2. /\ sent \in Seq(Segment) /\ Contiguous(sent) /\ Len(sent) \in Nat
      /\ taken \in 0 .. Len(sent) /\ taken + k \in 1 .. Len(sent)
      /\ end \in Nat /\ pos = end /\ result = "none"
  BY <1>1, ReaderTypes DEF ReaderInv, WriterFollows, EndIsRemembered
<1>3. \A i \in 1 .. Len(sent) : sent[i].hi \in Nat \ {0} /\ sent[i].hi <= pos
  <2>1. \A i \in 1 .. Len(sent) : sent[i] \in Segment /\ sent[i].hi <= pos
    BY <1>1, <1>2, SinkIsSettled, ElementOfSeq
  <2> QED BY <2>1 DEF Segment
<1>4. Passed = IF taken = 0 THEN 0 ELSE sent[taken].hi
  BY <1>2, UptoTaken DEF Passed
<1>5. Passed' = sent[taken + k].hi
  <2>1. Upto(SubSeq(sent, 1, taken + k)) = sent[taken + k].hi
    BY <1>2, UptoTaken
  <2> QED BY <1>1, <2>1 DEF Passed
<1>6. Passed \in Nat /\ Passed' \in Nat /\ Passed < Passed' /\ Passed' <= end
  <2>1. Passed' \in Nat \ {0} /\ Passed' <= end
    BY <1>2, <1>3, <1>5
  <2>2. CASE taken = 0
    BY <1>4, <2>1, <2>2
  <2>3. CASE taken # 0
    <3>1. taken \in 1 .. Len(sent) /\ taken < taken + k
      BY <1>2, <2>3
    <3>2. sent[taken].hi < sent[taken + k].hi
      BY <1>2, <3>1, ContiguousGrows
    <3> QED BY <1>3, <1>4, <1>5, <2>1, <2>3, <3>1, <3>2
  <2> QED BY <2>2, <2>3
<1>7. PICK n \in 1 .. end - Passed : Passed' = Passed + n /\ Passed + n <= end
  <2>1. ASSUME NEW p \in Nat, NEW q \in Nat, p < q, q <= end
        PROVE  \E n \in 1 .. end - p : q = p + n /\ p + n <= end
    <3>1. q - p \in 1 .. end - p /\ q = p + (q - p) /\ p + (q - p) <= end
      BY <1>2, <2>1
    <3> QED BY <3>1
  <2> QED BY <1>6, <2>1, Zenon
<1>8. Stream!PassOn(n)
  BY <1>1, <1>2, <1>7 DEF Stream!PassOn
<1> QED BY <1>7, <1>8 DEF Stream!StreamNext, Stream!PassSome

LEMMA ReturnEndFinishes == ReaderInv /\ ReturnEnd => Stream!StreamNext
<1> SUFFICES ASSUME ReaderInv, ReturnEnd PROVE Stream!Finish
  BY DEF Stream!StreamNext
<1>1. /\ rpc = "loop" /\ taken = Len(sent) /\ drain
      /\ result' = IF readErr = "nil" THEN "eof" ELSE "fail"
      /\ UNCHANGED <<input, end, sent, srcErr, taken>>
  BY DEF ReturnEnd, SinkEmpty, writerVars
<1>2. result = "none" /\ srcErr \in {"eof", "fail"} /\ result' = srcErr /\ buf = << >>
      /\ pos = end
  BY <1>1 DEF ReaderInv, ReaderTypeOK, EndIsRemembered, WriterFollows
<1>3. Passed = end
  <2>1. Upto(sent) = pos - Len(buf) /\ Passed = Upto(sent)
    BY <1>1, SinkIsSettled, ReaderTypes, UptoAll DEF Passed
  <2> QED BY <1>2, <2>1, ReaderTypes, EmptySeq
<1>4. UNCHANGED Passed
  BY <1>1 DEF Passed
<1> QED BY <1>1, <1>2, <1>3, <1>4 DEF Stream!Finish

\* A step is a step of the stream, or changes nothing the stream sees.
LEMMA StepIsStreamStep ==
  ReaderInv /\ [ReaderNext]_readerVars => [Stream!StreamNext]_(Stream!streamVars)
<1> SUFFICES ASSUME ReaderInv, [ReaderNext]_readerVars
             PROVE  \/ Stream!StreamNext
                    \/ UNCHANGED <<input, end, srcErr, Passed, result>>
  BY DEF Stream!streamVars
<1>1. CASE Read
  BY <1>1 DEF Read, writerVars, Passed
<1>2. ASSUME NEW n \in 0 .. Len(input) - pos, NEW e \in {"nil", "eof", "fail"}, Pull(n, e)
      PROVE  Stream!StreamNext
  BY <1>2, PullIsArrival
<1>3. CASE PushByte
  BY <1>3, StepFrame DEF PushByte, Passed
<1>4. CASE PushEnd
  BY <1>4, PushEndPreserves DEF PushEnd, Deliver
<1>5. CASE FinishPull
  BY <1>5, FinishPullPreserves DEF FinishPull, Close, writerVars
<1>6. ASSUME NEW k \in 1 .. Len(sent) - taken, ReturnData(k)
      PROVE  Stream!StreamNext
  BY <1>6, ReturnDataPassesOn
<1>7. CASE ReturnEnd
  BY <1>7, ReturnEndFinishes
<1>8. CASE Abandon
  <2>1. /\ result = "none" /\ result' = "gone"
        /\ UNCHANGED <<input, end, srcErr, sent, taken>>
    BY <1>8 DEF Abandon, writerVars
  <2>2. Stream!Leave
    BY <2>1 DEF Stream!Leave, Passed
  <2> QED BY <2>2 DEF Stream!StreamNext
<1>9. CASE UNCHANGED readerVars
  BY <1>9 DEF readerVars, writerVars, Passed
<1> QED
  BY <1>1, <1>2, <1>3, <1>4, <1>5, <1>6, <1>7, <1>8, <1>9 DEF ReaderNext, ReaderStep

\* demaskReader keeps the promise of RestoredStream as far as safety goes: bytes are
\* passed on in order, no byte before it arrived, and the end is told behind the
\* last one.  (That it also passes them on in time is the fairness of StreamSpec.)
THEOREM ReaderImplementsStream ==
  ReaderSpec => Stream!StreamInit /\ [][Stream!StreamNext]_(Stream!streamVars)
<1> QED BY ReaderInvariant, InitIsStreamInit, StepIsStreamStep, PTL DEF ReaderSpec
=============================================================================
