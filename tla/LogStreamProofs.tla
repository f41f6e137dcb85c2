--------------------------- MODULE LogStreamProofs ---------------------------
(***************************************************************************)
(* The safety properties of LogStream, for any watchers, any ring, any     *)
(* channel size and any number of lines.                                   *)
(***************************************************************************)
EXTENDS LogStream, SequenceTheorems, TLAPS

\* The ring holds the latest lines, without a gap.
RingIsLatest ==
  /\ Len(lines) = IF written < Cap THEN written ELSE Cap
  /\ \A i \in 1 .. Len(lines) : lines[i] = written - Len(lines) + i

\* Whose channel is known to the sink, and whose connection may stand, at each
\* stage of a handler.
HandlersMatch ==
  /\ \A w \in Watcher : w \in subs <=> handler[w] = "live"
  /\ \A w \in connected : handler[w] \in {"greeting", "live"}
  /\ subs \cap closed = {}

Increasing(s) == \A i, j \in 1 .. Len(s) : i < j => s[i] < s[j]

\* What holds of a watcher's page while its connection stands: h is the state of its
\* handler, ch its channel, f and d its history and n the number of lines written.
\* Nothing is on the page, or on its way to it, that has not been written, and all of
\* it is in order.  The last two conjuncts say what the page may miss.
PageOK(h, ch, page, f, d, n) ==
  LET got == IF h = "live" THEN page \o ch ELSE page
  IN  /\ \A i \in 1 .. Len(got) : got[i] <= n
      /\ Increasing(got)
      /\ \A k \in 1 .. f.snapshot : k + Cap > f.snapshot => k \in Lines(page)
      /\ h = "live" =>
           /\ f.subscription <= n
           /\ \A k \in d : k <= n
           /\ \A k \in f.subscription + 1 .. n : k \in Lines(got) <=> k \notin d

PagesOK ==
  \A w \in connected :
     PageOK(handler[w], channel[w], shown[w], from[w], dropped[w], written)

\* The inductive invariant.  A page is in order because a new line is greater than
\* anything the page and its channel hold; and since it is greater than anything that
\* was dropped, too, it is either got or dropped and never both.
LogInv ==
  /\ LogTypeOK
  /\ RingIsLatest /\ HandlersMatch /\ PagesOK /\ NeverSendsOnClosed

-----------------------------------------------------------------------------
\* Sequences.

\* A line more at the end.
LEMMA AppendFacts ==
  ASSUME NEW s \in Seq(LineNo), NEW x \in LineNo
  PROVE  LET t == Append(s, x)
         IN  /\ t \in Seq(LineNo) /\ Len(t) = Len(s) + 1 /\ Len(s) \in Nat
             /\ \A i \in 1 .. Len(s) : t[i] = s[i]
             /\ t[Len(s) + 1] = x
             /\ Lines(t) = Lines(s) \cup {x}
             /\ Increasing(s) /\ (\A i \in 1 .. Len(s) : s[i] < x) => Increasing(t)
<1> DEFINE t == Append(s, x)
<1>1. /\ t \in Seq(LineNo) /\ Len(t) = Len(s) + 1 /\ Len(s) \in Nat
      /\ \A i \in 1 .. Len(s) : t[i] = s[i]
      /\ t[Len(s) + 1] = x
  BY AppendProperties, LenProperties
<1>2. DOMAIN t = 1 .. Len(s) + 1 /\ DOMAIN s = 1 .. Len(s)
  BY <1>1, LenProperties
<1> HIDE DEF t
<1>3. Lines(t) = Lines(s) \cup {x}
  <2>1. \A i : i \in DOMAIN t <=> i \in DOMAIN s \/ i = Len(s) + 1
    BY <1>1, <1>2
  <2> QED BY <1>1, <1>2, <2>1 DEF Lines
<1>4. ASSUME Increasing(s), \A i \in 1 .. Len(s) : s[i] < x
      PROVE  Increasing(t)
  <2> SUFFICES ASSUME NEW i \in 1 .. Len(t), NEW j \in 1 .. Len(t), i < j
               PROVE  t[i] < t[j]
    BY DEF Increasing
  <2>1. i \in 1 .. Len(s) /\ (j \in 1 .. Len(s) \/ j = Len(s) + 1)
    BY <1>1
  <2> QED BY <1>1, <1>4, <2>1 DEF Increasing
<1> QED BY <1>1, <1>3, <1>4 DEF t

\* The lines of a page and its channel.
LEMMA ConcatFacts ==
  ASSUME NEW s \in Seq(LineNo), NEW t \in Seq(LineNo)
  PROVE  /\ s \o t \in Seq(LineNo) /\ Len(s \o t) = Len(s) + Len(t)
         /\ Len(s) \in Nat /\ Len(t) \in Nat
         /\ \A i \in 1 .. Len(s) : (s \o t)[i] = s[i]
         /\ \A i \in 1 .. Len(t) : (s \o t)[Len(s) + i] = t[i]
         /\ Lines(s) \subseteq Lines(s \o t) /\ Lines(t) \subseteq Lines(s \o t)
<1>1. /\ s \o t \in Seq(LineNo) /\ Len(s \o t) = Len(s) + Len(t)
      /\ Len(s) \in Nat /\ Len(t) \in Nat
      /\ \A i \in 1 .. Len(s) + Len(t) :
            (s \o t)[i] = IF i <= Len(s) THEN s[i] ELSE t[i - Len(s)]
  BY ConcatProperties, LenProperties
<1>2. /\ DOMAIN s = 1 .. Len(s) /\ DOMAIN t = 1 .. Len(t)
      /\ DOMAIN (s \o t) = 1 .. Len(s) + Len(t)
  BY <1>1, LenProperties
<1>3. \A i \in 1 .. Len(s) : i \in 1 .. Len(s) + Len(t) /\ (s \o t)[i] = s[i]
  BY <1>1
<1>4. ASSUME NEW i \in 1 .. Len(t)
      PROVE  Len(s) + i \in 1 .. Len(s) + Len(t) /\ (s \o t)[Len(s) + i] = t[i]
  <2>1. Len(s) + i \in 1 .. Len(s) + Len(t) /\ ~(Len(s) + i <= Len(s))
        /\ (Len(s) + i) - Len(s) = i
    BY <1>1
  <2> QED BY <1>1, <2>1
<1>5. Lines(s) \subseteq Lines(s \o t) /\ Lines(t) \subseteq Lines(s \o t)
  BY <1>2, <1>3, <1>4 DEF Lines
<1> QED BY <1>1, <1>3, <1>4, <1>5

\* What is moved from the front of the channel to the end of the page stays where
\* it is in the two taken together.
LEMMA FollowKeepsTogether ==
  ASSUME NEW s \in Seq(LineNo), NEW t \in Seq(LineNo), t # << >>
  PROVE  /\ Append(s, Head(t)) \o Tail(t) = s \o t
         /\ Append(s, Head(t)) \in Seq(LineNo) /\ Tail(t) \in Seq(LineNo)
         /\ Lines(s) \subseteq Lines(Append(s, Head(t)))
<1>1. /\ Head(t) \in LineNo /\ Tail(t) \in Seq(LineNo) /\ Head(t) = t[1]
      /\ Len(t) \in Nat \ {0} /\ Len(s) \in Nat
      /\ Len(Tail(t)) = Len(t) - 1
      /\ \A i \in 1 .. Len(Tail(t)) : Tail(t)[i] = t[i + 1]
  BY HeadTailProperties, EmptySeq, LenProperties
<1> DEFINE u == Append(s, Head(t))
           v == u \o Tail(t)
           w == s \o t
<1>2. /\ u \in Seq(LineNo) /\ Len(u) = Len(s) + 1
      /\ \A i \in 1 .. Len(s) : u[i] = s[i]
      /\ u[Len(s) + 1] = t[1]
      /\ Lines(s) \subseteq Lines(u)
  BY <1>1, AppendFacts
<1> HIDE DEF u
<1>3. /\ v \in Seq(LineNo) /\ Len(v) = Len(s) + Len(t)
      /\ \A i \in 1 .. Len(s) + Len(t) :
            v[i] = IF i <= Len(s) + 1 THEN u[i] ELSE Tail(t)[i - (Len(s) + 1)]
  <2>1. /\ v \in Seq(LineNo) /\ Len(v) = Len(u) + Len(Tail(t))
        /\ \A i \in 1 .. Len(u) + Len(Tail(t)) :
              v[i] = IF i <= Len(u) THEN u[i] ELSE Tail(t)[i - Len(u)]
    BY <1>1, <1>2, ConcatProperties
  <2>2. Len(u) + Len(Tail(t)) = Len(s) + Len(t)
    BY <1>1, <1>2
  <2> QED BY <1>2, <2>1, <2>2
<1>4. /\ w \in Seq(LineNo) /\ Len(w) = Len(s) + Len(t)
      /\ \A i \in 1 .. Len(s) + Len(t) :
            w[i] = IF i <= Len(s) THEN s[i] ELSE t[i - Len(s)]
  BY <1>1, ConcatProperties
<1> HIDE DEF v, w
<1>5. ASSUME NEW i \in 1 .. Len(v) PROVE v[i] = w[i]
  <2>1. i \in 1 .. Len(s) + Len(t)
    BY <1>3
  <2>2. CASE i <= Len(s)
    <3>1. i \in 1 .. Len(s) /\ i <= Len(s) + 1
      BY <1>1, <2>1, <2>2
    <3> QED BY <1>2, <1>3, <1>4, <2>1, <2>2, <3>1
  <2>3. CASE i = Len(s) + 1
    <3>1. i - Len(s) = 1 /\ ~(i <= Len(s)) /\ i <= Len(s) + 1
      BY <1>1, <2>3
    <3> QED BY <1>2, <1>3, <1>4, <2>1, <2>3, <3>1
  <2>4. CASE i > Len(s) + 1
    <3>1. i - (Len(s) + 1) \in 1 .. Len(Tail(t)) /\ i - (Len(s) + 1) + 1 = i - Len(s)
          /\ ~(i <= Len(s)) /\ ~(i <= Len(s) + 1)
      BY <1>1, <2>1, <2>4
    <3> QED BY <1>1, <1>3, <1>4, <2>1, <3>1
  <2> QED BY <1>1, <2>1, <2>2, <2>3, <2>4
<1>6. v = w
  BY <1>3, <1>4, <1>5, SeqEqual
<1> QED BY <1>1, <1>2, <1>6 DEF u, v, w

\* A line more at the end of the channel is one more at the end of the two together.
LEMMA OfferExtends ==
  ASSUME NEW s \in Seq(LineNo), NEW t \in Seq(LineNo), NEW x \in LineNo
  PROVE  s \o Append(t, x) = Append(s \o t, x)
<1> DEFINE u == Append(t, x)
           v == s \o u
           w == Append(s \o t, x)
<1>1. /\ u \in Seq(LineNo) /\ Len(u) = Len(t) + 1 /\ Len(t) \in Nat /\ Len(s) \in Nat
      /\ \A i \in 1 .. Len(t) : u[i] = t[i]
      /\ u[Len(t) + 1] = x
  BY AppendFacts, LenProperties
<1> HIDE DEF u
<1>2. /\ v \in Seq(LineNo) /\ Len(v) = Len(s) + (Len(t) + 1)
      /\ \A i \in 1 .. Len(s) : v[i] = s[i]
      /\ \A i \in 1 .. Len(t) + 1 : v[Len(s) + i] = u[i]
  <2>1. /\ v \in Seq(LineNo) /\ Len(v) = Len(s) + Len(u)
        /\ \A i \in 1 .. Len(s) : v[i] = s[i]
        /\ \A i \in 1 .. Len(u) : v[Len(s) + i] = u[i]
    <3>1. u \in Seq(LineNo)
      BY <1>1
    <3> QED BY <3>1, ConcatFacts
  <2> QED BY <1>1, <2>1
<1>3. /\ s \o t \in Seq(LineNo) /\ Len(s \o t) = Len(s) + Len(t)
      /\ \A i \in 1 .. Len(s) : (s \o t)[i] = s[i]
      /\ \A i \in 1 .. Len(t) : (s \o t)[Len(s) + i] = t[i]
  BY ConcatFacts
<1>4. /\ w \in Seq(LineNo) /\ Len(w) = Len(s \o t) + 1
      /\ \A i \in 1 .. Len(s \o t) : w[i] = (s \o t)[i]
      /\ w[Len(s \o t) + 1] = x
  BY <1>3, AppendFacts
<1> HIDE DEF v, w
<1>5. ASSUME NEW i \in 1 .. Len(v) PROVE v[i] = w[i]
  <2>1. CASE i \in 1 .. Len(s)
    <3>1. i \in 1 .. Len(s \o t)
      BY <1>1, <1>3, <2>1
    <3> QED BY <1>2, <1>3, <1>4, <2>1, <3>1
  <2>2. CASE i > Len(s) /\ i <= Len(s) + Len(t)
    <3>1. PICK j \in 1 .. Len(t) : i = Len(s) + j
      <4>1. i - Len(s) \in 1 .. Len(t) /\ i = Len(s) + (i - Len(s))
        BY <1>1, <2>2
      <4> QED BY <4>1
    <3>2. i \in 1 .. Len(s \o t) /\ j \in 1 .. Len(t) + 1
      BY <1>1, <1>3, <2>2
    <3> QED BY <1>1, <1>2, <1>3, <1>4, <3>1, <3>2
  <2>3. CASE i = Len(s) + (Len(t) + 1)
    <3>1. Len(t) + 1 \in 1 .. Len(t) + 1 /\ i = Len(s \o t) + 1
      BY <1>1, <1>3, <2>3
    <3> QED BY <1>1, <1>2, <1>4, <2>3, <3>1
  <2>4. i \in 1 .. Len(s) + (Len(t) + 1)
    BY <1>2
  <2> QED BY <1>1, <2>1, <2>2, <2>3, <2>4
<1>6. Len(v) = Len(w)
  BY <1>1, <1>2, <1>3, <1>4
<1> QED BY <1>2, <1>4, <1>5, <1>6, SeqEqual DEF u, v, w

-----------------------------------------------------------------------------
\* What becomes of a page.  The history, and how far the lines have been numbered.
History == [snapshot : 0 .. MaxLines, subscription : 0 .. MaxLines]

\* The ring is a page that is in order and misses none of the last Cap lines.
LEMMA PageGreets ==
  ASSUME LogTypeOK, RingIsLatest, NEW ch, NEW f \in History, f.snapshot = written, NEW d
  PROVE  PageOK("greeting", ch, lines, f, d, written)
<1>1. /\ written \in Nat /\ Cap \in Nat \ {0} /\ Len(lines) \in Nat
      /\ lines \in Seq(LineNo) /\ DOMAIN lines = 1 .. Len(lines)
      /\ Len(lines) = IF written < Cap THEN written ELSE Cap
      /\ \A i \in 1 .. Len(lines) : lines[i] = written - Len(lines) + i
  BY LogAssumption, LenProperties DEF LogTypeOK, RingIsLatest
<1>2. \A i \in 1 .. Len(lines) : lines[i] <= written
  BY <1>1
<1>3. Increasing(lines)
  BY <1>1 DEF Increasing
<1>4. ASSUME NEW k \in 1 .. written, k + Cap > written
      PROVE  k \in Lines(lines)
  <2>1. PICK i \in 1 .. Len(lines) : k = written - Len(lines) + i
    <3>1. k - written + Len(lines) \in 1 .. Len(lines)
          /\ k = written - Len(lines) + (k - written + Len(lines))
      BY <1>1, <1>4
    <3> QED BY <3>1
  <2> QED BY <1>1, <2>1 DEF Lines
<1> QED BY <1>2, <1>3, <1>4 DEF PageOK

\* With an empty channel, everything is as it was, and no line is due.
LEMMA PageGoesLive ==
  ASSUME NEW ch, NEW page \in Seq(LineNo), NEW f \in History, NEW n \in 0 .. MaxLines,
         NEW d, PageOK("greeting", ch, page, f, d, n)
  PROVE  PageOK("live", << >>, page, [f EXCEPT !.subscription = n], {}, n)
<1>1. page \o << >> = page /\ << >> \in Seq(LineNo) /\ Len(<< >>) = 0
  BY ConcatEmptySeq, EmptySeq
<1>2. /\ [f EXCEPT !.subscription = n].subscription = n
      /\ [f EXCEPT !.subscription = n].snapshot = f.snapshot
  BY DEF History
<1>3. /\ \A i \in 1 .. Len(page) : page[i] <= n
      /\ Increasing(page)
      /\ \A k \in 1 .. f.snapshot : k + Cap > f.snapshot => k \in Lines(page)
  BY DEF PageOK
<1>4. n <= n /\ \A k : k \notin n + 1 .. n
  BY LogAssumption
<1> QED BY <1>1, <1>2, <1>3, <1>4 DEF PageOK

\* A line moves from the channel to the page.
LEMMA PageFollows ==
  ASSUME NEW ch \in Seq(LineNo), ch # << >>, NEW page \in Seq(LineNo),
         NEW f \in History, NEW d, NEW n \in 0 .. MaxLines,
         PageOK("live", ch, page, f, d, n)
  PROVE  PageOK("live", Tail(ch), Append(page, Head(ch)), f, d, n)
<1>1. /\ Append(page, Head(ch)) \o Tail(ch) = page \o ch
      /\ Lines(page) \subseteq Lines(Append(page, Head(ch)))
  BY FollowKeepsTogether
<1> DEFINE got == page \o ch
<1>2. /\ \A i \in 1 .. Len(got) : got[i] <= n
      /\ Increasing(got)
      /\ \A k \in 1 .. f.snapshot : k + Cap > f.snapshot => k \in Lines(page)
      /\ f.subscription <= n
      /\ \A k \in d : k <= n
      /\ \A k \in f.subscription + 1 .. n : k \in Lines(got) <=> k \notin d
  BY DEF PageOK
<1>3. \A k \in 1 .. f.snapshot :
         k + Cap > f.snapshot => k \in Lines(Append(page, Head(ch)))
  BY <1>1, <1>2
<1> QED BY <1>1, <1>2, <1>3 DEF PageOK

\* A line is written while the page is live: it joins the channel or what was dropped.
LEMMA PageSeesWrite ==
  ASSUME NEW ch \in Seq(LineNo), Len(ch) <= Buffer, NEW page \in Seq(LineNo),
         NEW f \in History, NEW d \in SUBSET LineNo,
         NEW n \in 0 .. MaxLines, n < MaxLines,
         PageOK("live", ch, page, f, d, n)
  PROVE  PageOK("live", Offered(ch, n + 1), page, f,
                IF Len(ch) = Buffer THEN d \union {n + 1} ELSE d, n + 1)
<1> DEFINE got == page \o ch
           new == page \o Offered(ch, n + 1)
           e == IF Len(ch) = Buffer THEN d \union {n + 1} ELSE d
<1>1. /\ got \in Seq(LineNo) /\ Len(ch) \in Nat /\ n \in Nat /\ n + 1 \in LineNo
      /\ f.subscription \in 0 .. MaxLines /\ MaxLines \in Nat /\ Buffer \in Nat \ {0}
  BY LogAssumption, ConcatFacts DEF History, LineNo
<1>2. /\ \A i \in 1 .. Len(got) : got[i] <= n
      /\ Increasing(got)
      /\ \A k \in 1 .. f.snapshot : k + Cap > f.snapshot => k \in Lines(page)
      /\ f.subscription <= n
      /\ \A k \in d : k <= n
      /\ \A k \in f.subscription + 1 .. n : k \in Lines(got) <=> k \notin d
  BY DEF PageOK
<1>3. /\ Len(ch) < Buffer => new = Append(got, n + 1)
      /\ Len(ch) = Buffer => new = got
  BY <1>1, OfferExtends DEF Offered
<1>4. PageOK("live", Offered(ch, n + 1), page, f, e, n + 1) <=>
        /\ \A i \in 1 .. Len(new) : new[i] <= n + 1
        /\ Increasing(new)
        /\ \A k \in 1 .. f.snapshot : k + Cap > f.snapshot => k \in Lines(page)
        /\ f.subscription <= n + 1
        /\ \A k \in e : k <= n + 1
        /\ \A k \in f.subscription + 1 .. n + 1 : k \in Lines(new) <=> k \notin e
  BY DEF PageOK
<1>5. /\ (Len(ch) = Buffer => e = d \union {n + 1})
      /\ (Len(ch) < Buffer => e = d)
  BY <1>1
<1> HIDE DEF got, new, e
<1>6. f.subscription <= n + 1
  BY <1>1, <1>2
<1>7. /\ Len(got) \in Nat
      /\ \A i \in 1 .. Len(got) : got[i] \in Nat /\ got[i] < n + 1 /\ got[i] <= n + 1
  <2> SUFFICES ASSUME NEW i \in 1 .. Len(got)
               PROVE  got[i] \in Nat /\ got[i] < n + 1 /\ got[i] <= n + 1
    BY <1>1, LenProperties
  <2>1. got[i] \in Nat
    BY <1>1, ElementOfSeq DEF LineNo
  <2>2. got[i] <= n
    BY <1>2
  <2> QED BY <1>1, <2>1, <2>2
<1>8. n + 1 \notin Lines(got) /\ n + 1 \notin d
  <2>1. n + 1 \notin Lines(got)
    <3>1. DOMAIN got = 1 .. Len(got)
      BY <1>1, LenProperties
    <3> QED BY <1>1, <1>7, <3>1 DEF Lines
  <2>2. n + 1 \notin d
    BY <1>1, <1>2
  <2> QED BY <2>1, <2>2
<1>9. \A k \in d : k <= n + 1
  <2> SUFFICES ASSUME NEW k \in d PROVE k <= n + 1
    OBVIOUS
  <2>1. k \in Nat /\ k <= n
    BY <1>2 DEF LineNo
  <2> QED BY <1>1, <2>1
<1>10. \A k \in f.subscription + 1 .. n + 1 : k = n + 1 \/ k \in f.subscription + 1 .. n
  BY <1>1
<1>11. CASE Len(ch) < Buffer
  <2>1. new = Append(got, n + 1) /\ e = d
    BY <1>3, <1>5, <1>11
  <2>2. /\ Len(new) = Len(got) + 1
        /\ \A i \in 1 .. Len(got) : new[i] = got[i]
        /\ new[Len(got) + 1] = n + 1
        /\ Lines(new) = Lines(got) \cup {n + 1}
    BY <1>1, <2>1, AppendFacts
  <2>3. Increasing(new)
    BY <1>1, <1>2, <1>7, <2>1, AppendFacts
  <2>4. \A i \in 1 .. Len(new) : i \in 1 .. Len(got) \/ i = Len(got) + 1
    BY <1>7, <2>2
  <2>5. \A i \in 1 .. Len(new) : new[i] <= n + 1
    BY <1>1, <1>7, <2>2, <2>4
  <2>6. \A k \in f.subscription + 1 .. n + 1 : k \in Lines(new) <=> k \notin e
    <3> SUFFICES ASSUME NEW k \in f.subscription + 1 .. n + 1
                 PROVE  k \in Lines(new) <=> k \notin e
      OBVIOUS
    <3>1. CASE k = n + 1
      BY <1>8, <2>1, <2>2, <3>1
    <3>2. CASE k # n + 1
      BY <1>2, <1>10, <2>1, <2>2, <3>2
    <3> QED BY <3>1, <3>2
  <2> QED BY <1>2, <1>4, <1>6, <1>9, <2>1, <2>3, <2>5, <2>6 DEF e
<1>12. CASE Len(ch) = Buffer
  <2>1. new = got /\ e = d \union {n + 1}
    BY <1>3, <1>5, <1>12
  <2>2. \A k \in e : k <= n + 1
    BY <1>1, <1>9, <2>1
  <2>3. \A k \in f.subscription + 1 .. n + 1 : k \in Lines(new) <=> k \notin e
    <3> SUFFICES ASSUME NEW k \in f.subscription + 1 .. n + 1
                 PROVE  k \in Lines(new) <=> k \notin e
      OBVIOUS
    <3>1. CASE k = n + 1
      BY <1>8, <2>1, <3>1
    <3>2. CASE k # n + 1
      BY <1>2, <1>10, <2>1, <3>2
    <3> QED BY <3>1, <3>2
  <2> QED BY <1>2, <1>4, <1>6, <1>7, <2>1, <2>2, <2>3 DEF e
<1> QED BY <1>1, <1>11, <1>12 DEF e

-----------------------------------------------------------------------------
\* The steps.

LEMMA LogInitInv == LogInit => LogInv
<1> SUFFICES ASSUME LogInit PROVE LogInv
  OBVIOUS
<1>1. /\ written = 0 /\ lines = << >> /\ Len(lines) = 0 /\ << >> \in Seq(LineNo)
      /\ 0 \in 0 .. MaxLines /\ Cap \in Nat \ {0} /\ Buffer \in Nat \ {0}
  BY LogAssumption, EmptySeq DEF LogInit
<1>2. /\ channel \in [Watcher -> Seq(LineNo)] /\ shown \in [Watcher -> Seq(LineNo)]
      /\ \A w \in Watcher : Len(channel[w]) <= Buffer
      /\ handler \in [Watcher -> {"none", "greeting", "live", "leaving"}]
      /\ from \in [Watcher -> [snapshot : 0 .. MaxLines, subscription : 0 .. MaxLines]]
  BY <1>1 DEF LogInit
<1>3. LogTypeOK
  <2>1. /\ subs \subseteq Watcher /\ closed \subseteq Watcher
        /\ connected \subseteq Watcher /\ panicked \in BOOLEAN
        /\ dropped \in [Watcher -> SUBSET LineNo]
    BY DEF LogInit
  <2>2. lines \in Seq(LineNo) /\ Len(lines) <= Cap /\ written \in 0 .. MaxLines
    BY <1>1
  <2> QED BY <1>2, <2>1, <2>2 DEF LogTypeOK
<1>4. RingIsLatest
  BY <1>1 DEF RingIsLatest
<1>5. HandlersMatch /\ PagesOK /\ NeverSendsOnClosed
  BY DEF LogInit, HandlersMatch, PagesOK, NeverSendsOnClosed
<1> QED BY <1>3, <1>4, <1>5 DEF LogInv

\* The types of one watcher's part of the state.
LEMMA WatcherTypes ==
  ASSUME LogTypeOK, NEW w \in Watcher
  PROVE  /\ channel[w] \in Seq(LineNo) /\ Len(channel[w]) <= Buffer
         /\ shown[w] \in Seq(LineNo) /\ from[w] \in History
         /\ dropped[w] \in SUBSET LineNo
         /\ handler[w] \in {"none", "greeting", "live", "leaving"}
         /\ written \in 0 .. MaxLines
BY DEF LogTypeOK, History

\* The ring with a line more is the latest lines again.
LEMMA RingShifts ==
  ASSUME LogTypeOK, RingIsLatest, written < MaxLines
  PROVE  LET ring == Remembered(lines, written + 1)
         IN  /\ ring \in Seq(LineNo) /\ Len(ring) <= Cap
             /\ Len(ring) = IF written + 1 < Cap THEN written + 1 ELSE Cap
             /\ \A i \in 1 .. Len(ring) : ring[i] = written + 1 - Len(ring) + i
<1> DEFINE ring == Remembered(lines, written + 1)
<1>1. /\ written \in Nat /\ written + 1 \in LineNo /\ Cap \in Nat \ {0}
      /\ lines \in Seq(LineNo) /\ Len(lines) \in Nat /\ Len(lines) <= Cap
      /\ Len(lines) = IF written < Cap THEN written ELSE Cap
      /\ \A i \in 1 .. Len(lines) : lines[i] = written - Len(lines) + i
  BY LogAssumption, LenProperties DEF LogTypeOK, RingIsLatest, LineNo
<1>2. CASE Len(lines) = Cap
  <2>1. lines # << >>
    BY <1>1, <1>2, EmptySeq
  <2> DEFINE t == Tail(lines)
  <2>2. /\ t \in Seq(LineNo) /\ Len(t) = Cap - 1 /\ \A i \in 1 .. Len(t) : t[i] = lines[i + 1]
    BY <1>1, <1>2, <2>1, HeadTailProperties
  <2>3. ring = Append(t, written + 1)
    BY <1>2 DEF Remembered
  <2> HIDE DEF t, ring
  <2>4. /\ ring \in Seq(LineNo) /\ Len(ring) = Len(t) + 1
        /\ \A i \in 1 .. Len(t) : ring[i] = t[i]
        /\ ring[Len(t) + 1] = written + 1
    BY <1>1, <2>2, <2>3, AppendFacts
  <2>5. Len(ring) = Cap /\ Len(t) = Cap - 1 /\ written >= Cap
    BY <1>1, <1>2, <2>2, <2>4
  <2>6. ASSUME NEW i \in 1 .. Cap
        PROVE  ring[i] = written + 1 - Cap + i
    <3>1. CASE i = Cap
      BY <1>1, <2>4, <2>5, <3>1
    <3>2. CASE i \in 1 .. Cap - 1
      <4>1. i + 1 \in 1 .. Len(lines)
        BY <1>1, <1>2, <3>2
      <4>2. lines[i + 1] = written - Cap + (i + 1)
        BY <1>1, <1>2, <4>1
      <4>3. ring[i] = lines[i + 1]
        BY <2>2, <2>4, <2>5, <3>2
      <4> QED BY <1>1, <4>2, <4>3
    <3> QED BY <1>1, <3>1, <3>2
  <2>7. Cap <= Cap /\ ~(written + 1 < Cap)
    BY <1>1, <2>5
  <2> QED BY <2>4, <2>5, <2>6, <2>7 DEF ring
<1>3. CASE Len(lines) # Cap
  <2>1. ring = Append(lines, written + 1)
    BY <1>3 DEF Remembered
  <2> HIDE DEF ring
  <2>2. /\ ring \in Seq(LineNo) /\ Len(ring) = Len(lines) + 1
        /\ \A i \in 1 .. Len(lines) : ring[i] = lines[i]
        /\ ring[Len(lines) + 1] = written + 1
    BY <1>1, <2>1, AppendFacts
  <2>3. Len(lines) = written /\ written < Cap /\ Len(ring) = written + 1
    BY <1>1, <1>3, <2>2
  <2>4. /\ Len(ring) <= Cap
        /\ Len(ring) = IF written + 1 < Cap THEN written + 1 ELSE Cap
    BY <1>1, <2>3
  <2>5. ASSUME NEW i \in 1 .. written + 1
        PROVE  ring[i] = written + 1 - (written + 1) + i
    <3>1. CASE i = written + 1
      BY <1>1, <2>2, <2>3, <3>1
    <3>2. CASE i \in 1 .. written
      <4>1. lines[i] = written - written + i
        BY <1>1, <2>3, <3>2
      <4>2. ring[i] = lines[i]
        BY <2>2, <2>3, <3>2
      <4> QED BY <1>1, <4>1, <4>2
    <3> QED BY <1>1, <3>1, <3>2
  <2> QED BY <2>2, <2>3, <2>4, <2>5 DEF ring
<1> QED BY <1>2, <1>3

LEMMA WritePreserves == LogInv /\ Write => LogInv'
<1> SUFFICES ASSUME LogInv, Write PROVE LogInv'
  OBVIOUS
<1>1. LogTypeOK /\ RingIsLatest /\ HandlersMatch /\ PagesOK /\ NeverSendsOnClosed
  BY DEF LogInv
<1>2. /\ written < MaxLines /\ written' = written + 1
      /\ lines' = Remembered(lines, written + 1)
      /\ channel' = [w \in Watcher |->
           IF w \in subs THEN Offered(channel[w], written + 1) ELSE channel[w]]
      /\ panicked' = (subs \cap closed # {})
      /\ dropped' = [w \in Watcher |->
           IF w \in subs /\ Len(channel[w]) = Buffer THEN dropped[w] \union {written + 1}
           ELSE dropped[w]]
      /\ UNCHANGED <<subs, closed, handler, connected, shown, from>>
  BY DEF Write, NoteFull
<1>3. /\ written' \in 0 .. MaxLines
      /\ lines' \in Seq(LineNo) /\ Len(lines') <= Cap
      /\ RingIsLatest'
  <2>1. written + 1 \in 0 .. MaxLines
    BY <1>1, <1>2, LogAssumption DEF LogTypeOK
  <2> DEFINE ring == Remembered(lines, written + 1)
  <2>2. /\ ring \in Seq(LineNo) /\ Len(ring) <= Cap
        /\ Len(ring) = IF written + 1 < Cap THEN written + 1 ELSE Cap
        /\ \A i \in 1 .. Len(ring) : ring[i] = written + 1 - Len(ring) + i
    BY <1>1, <1>2, RingShifts
  <2>3. lines' = ring /\ written' = written + 1
    BY <1>2
  <2> HIDE DEF ring
  <2>4. written' \in 0 .. MaxLines /\ lines' \in Seq(LineNo) /\ Len(lines') <= Cap
    BY <2>1, <2>2, <2>3
  <2>5. Len(lines') = IF written' < Cap THEN written' ELSE Cap
    BY <2>2, <2>3
  <2>6. \A i \in 1 .. Len(lines') : lines'[i] = written' - Len(lines') + i
    <3> SUFFICES ASSUME NEW i \in 1 .. Len(lines')
                 PROVE  lines'[i] = written' - Len(lines') + i
      OBVIOUS
    <3>1. i \in 1 .. Len(ring)
      BY <2>3
    <3>2. ring[i] = written + 1 - Len(ring) + i
      BY <2>2, <3>1
    <3>3. written \in Nat /\ Len(ring) \in Nat
      BY <1>1, <2>2, LenProperties DEF LogTypeOK
    <3> QED BY <2>3, <3>2, <3>3
  <2> QED BY <2>4, <2>5, <2>6 DEF RingIsLatest
<1>4. \A w \in Watcher : channel'[w] \in Seq(LineNo) /\ Len(channel'[w]) <= Buffer
  <2> SUFFICES ASSUME NEW w \in Watcher
               PROVE  channel'[w] \in Seq(LineNo) /\ Len(channel'[w]) <= Buffer
    OBVIOUS
  <2>1. /\ channel[w] \in Seq(LineNo) /\ Len(channel[w]) <= Buffer
        /\ written + 1 \in LineNo /\ Buffer \in Nat
    BY <1>1, <1>2, LogAssumption DEF LogTypeOK, LineNo
  <2>2. /\ Offered(channel[w], written + 1) \in Seq(LineNo)
        /\ Len(Offered(channel[w], written + 1)) <= Buffer
    <3>1. /\ Append(channel[w], written + 1) \in Seq(LineNo)
          /\ Len(Append(channel[w], written + 1)) = Len(channel[w]) + 1
          /\ Len(channel[w]) \in Nat
      BY <2>1, AppendFacts
    <3>2. Len(channel[w]) < Buffer => Len(Append(channel[w], written + 1)) <= Buffer
      BY <2>1, <3>1
    <3> QED BY <2>1, <3>1, <3>2 DEF Offered
  <2> QED BY <1>2, <2>1, <2>2
<1>5. panicked' = FALSE
  BY <1>1, <1>2 DEF HandlersMatch
<1>6. LogTypeOK'
  <2>1. channel' \in [Watcher -> Seq(LineNo)]
    BY <1>2, <1>4
  <2>2. dropped' \in [Watcher -> SUBSET LineNo]
    <3>1. written + 1 \in LineNo
      BY <1>1, <1>2, LogAssumption DEF LogTypeOK, LineNo
    <3>2. dropped \in [Watcher -> SUBSET LineNo]
      BY <1>1 DEF LogTypeOK
    <3> QED BY <1>2, <3>1, <3>2
  <2> QED BY <1>1, <1>2, <1>3, <1>4, <1>5, <2>1, <2>2 DEF LogTypeOK
<1>7. HandlersMatch' /\ NeverSendsOnClosed'
  BY <1>1, <1>2, <1>5 DEF HandlersMatch, NeverSendsOnClosed
<1>8. PagesOK'
  <2> SUFFICES ASSUME NEW w \in connected
               PROVE  PageOK(handler[w], channel'[w], shown[w], from[w], dropped'[w],
                             written + 1)
    BY <1>2 DEF PagesOK
  <2>1. /\ w \in Watcher
        /\ PageOK(handler[w], channel[w], shown[w], from[w], dropped[w], written)
    BY <1>1 DEF PagesOK, LogTypeOK
  <2>2. CASE handler[w] = "live"
    <3>1. /\ channel'[w] = Offered(channel[w], written + 1)
          /\ dropped'[w] = IF Len(channel[w]) = Buffer THEN dropped[w] \union {written + 1}
                           ELSE dropped[w]
      BY <1>1, <1>2, <2>1, <2>2 DEF HandlersMatch
    <3>2. /\ channel[w] \in Seq(LineNo) /\ Len(channel[w]) <= Buffer
          /\ shown[w] \in Seq(LineNo) /\ from[w] \in History
          /\ dropped[w] \in SUBSET LineNo /\ written \in 0 .. MaxLines
      BY <1>1, <2>1, WatcherTypes
    <3>3. PageOK("live", channel[w], shown[w], from[w], dropped[w], written)
      BY <2>1, <2>2
    <3>4. PageOK("live", Offered(channel[w], written + 1), shown[w], from[w],
                 IF Len(channel[w]) = Buffer THEN dropped[w] \union {written + 1}
                 ELSE dropped[w], written + 1)
      BY <1>2, <3>2, <3>3, PageSeesWrite
    <3> QED BY <2>2, <3>1, <3>4
  <2>3. CASE handler[w] # "live"
    <3>1. shown[w] \in Seq(LineNo) /\ written \in Nat
      BY <1>1, <2>1 DEF LogTypeOK
    <3>2. \A i \in 1 .. Len(shown[w]) : shown[w][i] <= written + 1
      <4> SUFFICES ASSUME NEW i \in 1 .. Len(shown[w]) PROVE shown[w][i] <= written + 1
        OBVIOUS
      <4>1. shown[w][i] \in LineNo
        BY <3>1, ElementOfSeq
      <4>2. shown[w][i] <= written
        BY <2>1, <2>3 DEF PageOK
      <4> QED BY <3>1, <4>1, <4>2 DEF LineNo
    <3> QED BY <2>1, <2>3, <3>2 DEF PageOK
  <2> QED BY <2>2, <2>3
<1> QED BY <1>3, <1>6, <1>7, <1>8 DEF LogInv

\* A step that writes nothing leaves the ring as it is.
LEMMA RingStays ==
  RingIsLatest /\ UNCHANGED <<written, lines>> => RingIsLatest'
BY DEF RingIsLatest

LEMMA SnapshotPreserves == ASSUME NEW w \in Watcher PROVE LogInv /\ Snapshot(w) => LogInv'
<1> SUFFICES ASSUME LogInv, Snapshot(w) PROVE LogInv'
  OBVIOUS
<1>1. LogTypeOK /\ RingIsLatest /\ HandlersMatch /\ PagesOK /\ NeverSendsOnClosed
  BY DEF LogInv
<1>2. /\ handler[w] = "none" /\ w \notin connected
      /\ connected' = connected \union {w}
      /\ shown' = [shown EXCEPT ![w] = lines]
      /\ handler' = [handler EXCEPT ![w] = "greeting"]
      /\ from' = [from EXCEPT ![w].snapshot = written]
      /\ UNCHANGED <<written, lines, subs, channel, closed, dropped, panicked>>
  BY DEF Snapshot
<1>3. /\ lines \in Seq(LineNo) /\ written \in 0 .. MaxLines
      /\ shown \in [Watcher -> Seq(LineNo)] /\ from \in [Watcher -> History]
      /\ handler \in [Watcher -> {"none", "greeting", "live", "leaving"}]
      /\ connected \subseteq Watcher
  BY <1>1 DEF LogTypeOK, History
<1>4. /\ shown' \in [Watcher -> Seq(LineNo)] /\ shown'[w] = lines
      /\ handler' \in [Watcher -> {"none", "greeting", "live", "leaving"}]
      /\ handler'[w] = "greeting"
      /\ \A v \in Watcher \ {w} : shown'[v] = shown[v] /\ handler'[v] = handler[v]
  BY <1>2, <1>3
<1>5. /\ from' \in [Watcher -> History] /\ from'[w].snapshot = written
      /\ \A v \in Watcher \ {w} : from'[v] = from[v]
  BY <1>2, <1>3 DEF History
<1>6. LogTypeOK'
  BY <1>1, <1>2, <1>3, <1>4, <1>5 DEF LogTypeOK, History
<1>7. RingIsLatest' /\ NeverSendsOnClosed'
  BY <1>1, <1>2, RingStays DEF NeverSendsOnClosed
<1>8. HandlersMatch'
  BY <1>1, <1>2, <1>3, <1>4 DEF HandlersMatch
<1>9. PagesOK'
  <2> SUFFICES ASSUME NEW v \in connected'
               PROVE  PageOK(handler'[v], channel'[v], shown'[v], from'[v], dropped'[v], written')
    BY DEF PagesOK
  <2>1. CASE v = w
    <3>1. from'[w] \in History
      BY <1>5
    <3>2. PageOK("greeting", channel'[w], lines, from'[w], dropped'[w], written)
      BY <1>1, <1>5, <3>1, PageGreets
    <3> QED BY <1>2, <1>4, <2>1, <3>2
  <2>2. CASE v # w
    <3>1. v \in connected /\ v \in Watcher \ {w}
      BY <1>2, <1>3, <2>2
    <3> QED BY <1>1, <1>2, <1>4, <1>5, <3>1 DEF PagesOK
  <2> QED BY <2>1, <2>2
<1> QED BY <1>6, <1>7, <1>8, <1>9 DEF LogInv

LEMMA SubscribePreserves == ASSUME NEW w \in Watcher PROVE LogInv /\ Subscribe(w) => LogInv'
<1> SUFFICES ASSUME LogInv, Subscribe(w) PROVE LogInv'
  OBVIOUS
<1>1. LogTypeOK /\ RingIsLatest /\ HandlersMatch /\ PagesOK /\ NeverSendsOnClosed
  BY DEF LogInv
<1>2. /\ handler[w] = "greeting"
      /\ subs' = subs \union {w}
      /\ closed' = closed \ {w}
      /\ channel' = [channel EXCEPT ![w] = << >>]
      /\ handler' = [handler EXCEPT ![w] = "live"]
      /\ from' = [from EXCEPT ![w].subscription = written]
      /\ dropped' = [dropped EXCEPT ![w] = {}]
      /\ UNCHANGED <<written, lines, connected, shown, panicked>>
  BY DEF Subscribe
<1>3. /\ written \in 0 .. MaxLines
      /\ channel \in [Watcher -> Seq(LineNo)] /\ from \in [Watcher -> History]
      /\ handler \in [Watcher -> {"none", "greeting", "live", "leaving"}]
      /\ subs \subseteq Watcher /\ closed \subseteq Watcher
      /\ connected \subseteq Watcher
      /\ << >> \in Seq(LineNo) /\ Len(<< >>) <= Buffer
  BY <1>1, LogAssumption, EmptySeq DEF LogTypeOK, History
<1>4. /\ channel' \in [Watcher -> Seq(LineNo)] /\ channel'[w] = << >>
      /\ handler' \in [Watcher -> {"none", "greeting", "live", "leaving"}]
      /\ handler'[w] = "live"
      /\ \A v \in Watcher \ {w} : channel'[v] = channel[v] /\ handler'[v] = handler[v]
  BY <1>2, <1>3
<1>5. /\ from' \in [Watcher -> History]
      /\ from'[w] = [from[w] EXCEPT !.subscription = written]
      /\ dropped' \in [Watcher -> SUBSET LineNo] /\ dropped'[w] = {}
      /\ \A v \in Watcher \ {w} : from'[v] = from[v] /\ dropped'[v] = dropped[v]
  <2>1. dropped \in [Watcher -> SUBSET LineNo]
    BY <1>1 DEF LogTypeOK
  <2> QED BY <1>2, <1>3, <2>1 DEF History
<1>6. LogTypeOK'
  <2>1. \A v \in Watcher : Len(channel'[v]) <= Buffer
    BY <1>1, <1>3, <1>4 DEF LogTypeOK
  <2> QED BY <1>1, <1>2, <1>3, <1>4, <1>5, <2>1 DEF LogTypeOK, History
<1>7. RingIsLatest' /\ NeverSendsOnClosed'
  BY <1>1, <1>2, RingStays DEF NeverSendsOnClosed
<1>8. HandlersMatch'
  BY <1>1, <1>2, <1>3, <1>4 DEF HandlersMatch
<1>9. PagesOK'
  <2> SUFFICES ASSUME NEW v \in connected
               PROVE  PageOK(handler'[v], channel'[v], shown[v], from'[v], dropped'[v], written)
    BY <1>2 DEF PagesOK
  <2>1. CASE v = w
    <3>1. PageOK("greeting", channel[w], shown[w], from[w], dropped[w], written)
      BY <1>1, <1>2, <2>1 DEF PagesOK
    <3>2. shown[w] \in Seq(LineNo) /\ from[w] \in History
      BY <1>1, WatcherTypes
    <3>3. PageOK("live", << >>, shown[w], [from[w] EXCEPT !.subscription = written], {},
                 written)
      BY <1>3, <3>1, <3>2, PageGoesLive
    <3> QED BY <1>4, <1>5, <2>1, <3>3
  <2>2. CASE v # w
    BY <1>1, <1>3, <1>4, <1>5, <2>2 DEF PagesOK
  <2> QED BY <2>1, <2>2
<1> QED BY <1>6, <1>7, <1>8, <1>9 DEF LogInv

LEMMA FollowPreserves == ASSUME NEW w \in Watcher PROVE LogInv /\ Follow(w) => LogInv'
<1> SUFFICES ASSUME LogInv, Follow(w) PROVE LogInv'
  OBVIOUS
<1>1. LogTypeOK /\ RingIsLatest /\ HandlersMatch /\ PagesOK /\ NeverSendsOnClosed
  BY DEF LogInv
<1>2. /\ handler[w] = "live" /\ channel[w] # << >>
      /\ channel' = [channel EXCEPT ![w] = Tail(channel[w])]
      /\ shown' = IF w \in connected
                    THEN [shown EXCEPT ![w] = Append(shown[w], Head(channel[w]))]
                    ELSE shown
      /\ UNCHANGED <<written, lines, subs, closed, handler, connected, from, dropped, panicked>>
  BY DEF Follow
<1>3. /\ channel[w] \in Seq(LineNo) /\ shown[w] \in Seq(LineNo)
      /\ channel \in [Watcher -> Seq(LineNo)] /\ shown \in [Watcher -> Seq(LineNo)]
      /\ Len(channel[w]) <= Buffer /\ connected \subseteq Watcher
  BY <1>1 DEF LogTypeOK
<1>4. /\ Tail(channel[w]) \in Seq(LineNo) /\ Len(Tail(channel[w])) <= Buffer
      /\ Append(shown[w], Head(channel[w])) \in Seq(LineNo)
  <2>1. /\ Len(channel[w]) \in Nat \ {0} /\ Buffer \in Nat
        /\ Len(Tail(channel[w])) = Len(channel[w]) - 1
    BY <1>2, <1>3, LogAssumption, HeadTailProperties, EmptySeq, LenProperties
  <2>2. Len(Tail(channel[w])) <= Buffer
    BY <1>3, <2>1
  <2> QED BY <1>2, <1>3, <2>2, FollowKeepsTogether
<1>5. /\ channel' \in [Watcher -> Seq(LineNo)] /\ channel'[w] = Tail(channel[w])
      /\ \A v \in Watcher \ {w} : channel'[v] = channel[v]
  BY <1>2, <1>3, <1>4
<1>6. /\ shown' \in [Watcher -> Seq(LineNo)]
      /\ w \in connected => shown'[w] = Append(shown[w], Head(channel[w]))
      /\ \A v \in Watcher \ {w} : shown'[v] = shown[v]
  BY <1>2, <1>3, <1>4
<1>7. LogTypeOK'
  <2>1. \A v \in Watcher : Len(channel'[v]) <= Buffer
    BY <1>1, <1>4, <1>5 DEF LogTypeOK
  <2> QED BY <1>1, <1>2, <1>5, <1>6, <2>1 DEF LogTypeOK
<1>8. RingIsLatest' /\ NeverSendsOnClosed' /\ HandlersMatch'
  BY <1>1, <1>2, RingStays DEF NeverSendsOnClosed, HandlersMatch
<1>9. PagesOK'
  <2> SUFFICES ASSUME NEW v \in connected
               PROVE  PageOK(handler[v], channel'[v], shown'[v], from[v], dropped[v], written)
    BY <1>2 DEF PagesOK
  <2>1. CASE v = w
    <3>1. PageOK("live", channel[w], shown[w], from[w], dropped[w], written)
      BY <1>1, <1>2, <2>1 DEF PagesOK
    <3>2. PageOK("live", Tail(channel[w]), Append(shown[w], Head(channel[w])),
                 from[w], dropped[w], written)
      BY <1>1, <1>2, <3>1, WatcherTypes, PageFollows
    <3> QED BY <1>2, <1>5, <1>6, <2>1, <3>2
  <2>2. CASE v # w
    BY <1>1, <1>3, <1>5, <1>6, <2>2 DEF PagesOK
  <2> QED BY <2>1, <2>2
<1> QED BY <1>7, <1>8, <1>9 DEF LogInv

LEMMA UnsubscribePreserves ==
  ASSUME NEW w \in Watcher PROVE LogInv /\ Unsubscribe(w) => LogInv'
<1> SUFFICES ASSUME LogInv, Unsubscribe(w) PROVE LogInv'
  OBVIOUS
<1>1. LogTypeOK /\ RingIsLatest /\ HandlersMatch /\ PagesOK /\ NeverSendsOnClosed
  BY DEF LogInv
<1>2. /\ handler[w] = "live" /\ w \notin connected
      /\ subs' = subs \ {w}
      /\ handler' = [handler EXCEPT ![w] = "leaving"]
      /\ UNCHANGED <<written, lines, channel, closed, connected, shown, from, dropped, panicked>>
  BY DEF Unsubscribe
<1>3. /\ handler \in [Watcher -> {"none", "greeting", "live", "leaving"}]
      /\ subs \subseteq Watcher /\ connected \subseteq Watcher
  BY <1>1 DEF LogTypeOK
<1>4. /\ handler' \in [Watcher -> {"none", "greeting", "live", "leaving"}]
      /\ handler'[w] = "leaving" /\ \A v \in Watcher \ {w} : handler'[v] = handler[v]
  BY <1>2, <1>3
<1>5. LogTypeOK'
  BY <1>1, <1>2, <1>3, <1>4 DEF LogTypeOK
<1>6. RingIsLatest' /\ NeverSendsOnClosed'
  BY <1>1, <1>2, RingStays DEF NeverSendsOnClosed
<1>7. HandlersMatch' /\ PagesOK'
  BY <1>1, <1>2, <1>3, <1>4 DEF HandlersMatch, PagesOK
<1> QED BY <1>5, <1>6, <1>7 DEF LogInv

LEMMA CloseChannelPreserves ==
  ASSUME NEW w \in Watcher PROVE LogInv /\ CloseChannel(w) => LogInv'
<1> SUFFICES ASSUME LogInv, CloseChannel(w) PROVE LogInv'
  OBVIOUS
<1>1. LogTypeOK /\ RingIsLatest /\ HandlersMatch /\ PagesOK /\ NeverSendsOnClosed
  BY DEF LogInv
<1>2. /\ handler[w] = "leaving"
      /\ closed' = closed \union {w}
      /\ channel' = [channel EXCEPT ![w] = << >>]
      /\ handler' = [handler EXCEPT ![w] = "none"]
      /\ UNCHANGED <<written, lines, subs, connected, shown, from, dropped, panicked>>
  BY DEF CloseChannel
<1>3. /\ handler \in [Watcher -> {"none", "greeting", "live", "leaving"}]
      /\ channel \in [Watcher -> Seq(LineNo)]
      /\ closed \subseteq Watcher /\ subs \subseteq Watcher /\ connected \subseteq Watcher
      /\ << >> \in Seq(LineNo) /\ Len(<< >>) <= Buffer
      /\ w \notin connected
  <2>1. << >> \in Seq(LineNo) /\ Len(<< >>) <= Buffer
    BY LogAssumption, EmptySeq
  <2>2. w \notin connected
    BY <1>1, <1>2 DEF HandlersMatch
  <2> QED BY <1>1, <2>1, <2>2 DEF LogTypeOK
<1>4. /\ handler' \in [Watcher -> {"none", "greeting", "live", "leaving"}]
      /\ channel' \in [Watcher -> Seq(LineNo)]
      /\ handler'[w] = "none" /\ channel'[w] = << >>
      /\ \A v \in Watcher \ {w} : handler'[v] = handler[v] /\ channel'[v] = channel[v]
  BY <1>2, <1>3
<1>5. LogTypeOK'
  <2>1. \A v \in Watcher : Len(channel'[v]) <= Buffer
    BY <1>1, <1>3, <1>4 DEF LogTypeOK
  <2> QED BY <1>1, <1>2, <1>3, <1>4, <2>1 DEF LogTypeOK
<1>6. RingIsLatest' /\ NeverSendsOnClosed'
  BY <1>1, <1>2, RingStays DEF NeverSendsOnClosed
<1>7. HandlersMatch' /\ PagesOK'
  BY <1>1, <1>2, <1>3, <1>4 DEF HandlersMatch, PagesOK
<1> QED BY <1>5, <1>6, <1>7 DEF LogInv

LEMMA DisconnectPreserves ==
  ASSUME NEW w \in Watcher PROVE LogInv /\ Disconnect(w) => LogInv'
<1> SUFFICES ASSUME LogInv, Disconnect(w) PROVE LogInv'
  OBVIOUS
<1>1. LogTypeOK /\ RingIsLatest /\ HandlersMatch /\ PagesOK /\ NeverSendsOnClosed
  BY DEF LogInv
<1>2. /\ connected' = connected \ {w}
      /\ UNCHANGED <<written, lines, subs, channel, closed, handler, shown, from, dropped, panicked>>
  BY DEF Disconnect
<1>3. LogTypeOK'
  BY <1>1, <1>2 DEF LogTypeOK
<1>4. RingIsLatest' /\ NeverSendsOnClosed' /\ HandlersMatch' /\ PagesOK'
  BY <1>1, <1>2, RingStays DEF NeverSendsOnClosed, HandlersMatch, PagesOK
<1> QED BY <1>3, <1>4 DEF LogInv

LEMMA LogStepInv == LogInv /\ [LogNext]_logVars => LogInv'
<1> SUFFICES ASSUME LogInv, [LogNext]_logVars PROVE LogInv'
  OBVIOUS
<1>1. CASE Write
  BY <1>1, WritePreserves
<1>2. ASSUME NEW w \in Watcher, Snapshot(w) PROVE LogInv'
  BY <1>2, SnapshotPreserves
<1>3. ASSUME NEW w \in Watcher, Subscribe(w) PROVE LogInv'
  BY <1>3, SubscribePreserves
<1>4. ASSUME NEW w \in Watcher, Follow(w) PROVE LogInv'
  BY <1>4, FollowPreserves
<1>5. ASSUME NEW w \in Watcher, Unsubscribe(w) PROVE LogInv'
  BY <1>5, UnsubscribePreserves
<1>6. ASSUME NEW w \in Watcher, CloseChannel(w) PROVE LogInv'
  BY <1>6, CloseChannelPreserves
<1>7. ASSUME NEW w \in Watcher, Disconnect(w) PROVE LogInv'
  BY <1>7, DisconnectPreserves
<1>8. CASE UNCHANGED logVars
  BY <1>8 DEF logVars, LogInv, LogTypeOK, RingIsLatest, HandlersMatch, PagesOK,
              NeverSendsOnClosed
<1> QED
  BY <1>1, <1>2, <1>3, <1>4, <1>5, <1>6, <1>7, <1>8 DEF LogNext, StreamLogs

LEMMA LogAlways == LogSpec => []LogInv
<1> QED BY LogInitInv, LogStepInv, PTL DEF LogSpec

-----------------------------------------------------------------------------
\* What holds of every behaviour.

\* The ring, the channels and the handlers keep their types and their limits.
THEOREM LogTypeCorrect == LogSpec => []LogTypeOK
<1>1. LogInv => LogTypeOK
  BY DEF LogInv
<1> QED BY <1>1, LogAlways, PTL

\* LogSink.Write never sends on a channel that the cancel function has closed: a
\* channel is in s.subs only until cancel takes it out, and is closed after that.
THEOREM NoSendOnClosed == LogSpec => []NeverSendsOnClosed
<1>1. LogInv => NeverSendsOnClosed
  BY DEF LogInv
<1> QED BY <1>1, LogAlways, PTL

LEMMA GotIsPage ==
  ASSUME LogInv, NEW w \in connected
  PROVE  /\ w \in Watcher /\ Got(w) \in Seq(LineNo)
         /\ Got(w) = IF handler[w] = "live" THEN shown[w] \o channel[w] ELSE shown[w]
         /\ PageOK(handler[w], channel[w], shown[w], from[w], dropped[w], written)
<1>1. w \in Watcher /\ channel[w] \in Seq(LineNo) /\ shown[w] \in Seq(LineNo)
  BY DEF LogInv, LogTypeOK
<1>2. shown[w] \o channel[w] \in Seq(LineNo)
  BY <1>1, ConcatFacts
<1> QED BY <1>1, <1>2 DEF LogInv, HandlersMatch, PagesOK, Got

\* streamLogs shows a page the lines in the order they were written and none twice,
\* however the log went on between the snapshot and the subscription.
THEOREM PagesInOrder == LogSpec => []InOrderAndOnce
<1>1. ASSUME LogInv PROVE InOrderAndOnce
  <2> SUFFICES ASSUME NEW w \in connected,
                      NEW i \in DOMAIN Got(w), NEW j \in DOMAIN Got(w), i < j
               PROVE  Got(w)[i] < Got(w)[j]
    BY DEF InOrderAndOnce
  <2>1. Increasing(Got(w)) /\ DOMAIN Got(w) = 1 .. Len(Got(w))
    BY <1>1, GotIsPage, LenProperties DEF PageOK
  <2> QED BY <2>1 DEF Increasing
<1> QED BY <1>1, LogAlways, PTL

\* A line after its subscription is on a page, or on its way to it, just if the
\* channel was not full when LogSink.Write offered it; and of the last Cap lines before
\* its snapshot a page misses none.
THEOREM MissesAreExcused == LogSpec => []MissesOnlyWhenFull
<1>1. ASSUME LogInv PROVE MissesOnlyWhenFull
  <2> SUFFICES ASSUME NEW w \in connected
               PROVE  /\ \A k \in 1 .. from[w].snapshot :
                            k + Cap > from[w].snapshot => k \in Lines(shown[w])
                      /\ handler[w] = "live" =>
                           \A k \in from[w].subscription + 1 .. written :
                              k \in Lines(Got(w)) <=> k \notin dropped[w]
    BY DEF MissesOnlyWhenFull
  <2> QED BY <1>1, GotIsPage DEF PageOK
<1> QED BY <1>1, LogAlways, PTL
=============================================================================
