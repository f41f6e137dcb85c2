-------------------------- MODULE DashboardProofs ---------------------------
(***************************************************************************)
(* Who is sent the statistics and what a page shows, for any settings,     *)
(* passwords, visitors and numbers of requests and of restarts.            *)
(***************************************************************************)
EXTENDS Dashboard, SequenceTheorems, LeastNumber

-----------------------------------------------------------------------------
\* The statistics.

\* The recursion that defines MaskedBy has a solution.
LEMMA SumExists ==
  ASSUME NEW k \in Nat
  PROVE  \E f : f = [n \in 0 .. k |-> IF n = 0 THEN 0 ELSE f[n - 1] + MaskCounts[n]]
<1> DEFINE Is(f, m) == f = [n \in 0 .. m |-> IF n = 0 THEN 0 ELSE f[n - 1] + MaskCounts[n]]
           S == { m \in Nat : \E f : Is(f, m) }
<1>1. 0 \in S
  <2> DEFINE f == [n \in 0 .. 0 |-> 0]
  <2>1. f = [n \in 0 .. 0 |-> IF n = 0 THEN 0 ELSE f[n - 1] + MaskCounts[n]]
    OBVIOUS
  <2>2. Is(f, 0)
    BY <2>1
  <2> QED BY <2>2
<1>2. ASSUME NEW m \in Nat, m \in S PROVE m + 1 \in S
  <2>1. PICK f : Is(f, m)
    BY <1>2
  <2> DEFINE g == [n \in 0 .. m + 1 |-> IF n = m + 1 THEN f[m] + MaskCounts[m + 1] ELSE f[n]]
  <2>2. ASSUME NEW n \in 0 .. m + 1
        PROVE  g[n] = IF n = 0 THEN 0 ELSE g[n - 1] + MaskCounts[n]
    <3>1. CASE n = m + 1
      <4>1. n # 0 /\ n - 1 = m /\ g[n - 1] = f[m]
        BY <3>1
      <4> QED BY <3>1, <4>1
    <3>2. CASE n # m + 1
      <4>1. n \in 0 .. m /\ g[n] = f[n]
        BY <3>2
      <4>2. CASE n = 0
        BY <2>1, <4>1, <4>2
      <4>3. CASE n # 0
        <5>1. n - 1 \in 0 .. m /\ n - 1 # m + 1 /\ n - 1 \in 0 .. m + 1
          BY <4>1, <4>3
        <5>2. g[n - 1] = f[n - 1]
          BY <5>1
        <5>3. f[n] = f[n - 1] + MaskCounts[n]
          BY <2>1, <4>1, <4>3
        <5> QED BY <4>1, <4>3, <5>2, <5>3
      <4> QED BY <4>2, <4>3
    <3> QED BY <3>1, <3>2
  <2>3. Is(g, m + 1)
    <3>1. g = [n \in 0 .. m + 1 |-> g[n]]
      OBVIOUS
    <3> HIDE DEF g
    <3> QED BY <2>2, <3>1
  <2>4. \E h : Is(h, m + 1)
    <3> HIDE DEF g, Is
    <3> QED BY <2>3
  <2> QED BY <2>4
<1> HIDE DEF S
<1>3. k \in S
  BY <1>1, <1>2, NatSets
<1> QED BY <1>3 DEF S

LEMMA MaskedByIs ==
  /\ MaskedBy[0] = 0
  /\ \A n \in 0 .. Len(MaskCounts) - 1 : MaskedBy[n + 1] = MaskedBy[n] + MaskCounts[n + 1]
<1>1. Len(MaskCounts) \in Nat
  BY DashboardAssumption
<1>2. MaskedBy = [n \in 0 .. Len(MaskCounts) |->
                    IF n = 0 THEN 0 ELSE MaskedBy[n - 1] + MaskCounts[n]]
  BY <1>1, SumExists DEF MaskedBy
<1>3. MaskedBy[0] = 0
  BY <1>1, <1>2
<1>4. ASSUME NEW n \in 0 .. Len(MaskCounts) - 1
      PROVE  MaskedBy[n + 1] = MaskedBy[n] + MaskCounts[n + 1]
  <2>1. n + 1 \in 0 .. Len(MaskCounts) /\ n + 1 # 0 /\ (n + 1) - 1 = n
    BY <1>1
  <2> QED BY <1>2, <2>1
<1> QED BY <1>3, <1>4

\* The last Cap of the first n events e, or all of them while there are no more.
Latest(e, n) == [i \in 1 .. n - Gone(n) |-> e[Gone(n) + i]]

LEMMA LatestNext ==
  ASSUME NEW S, NEW e \in [Nat -> S], NEW n \in Nat
  PROVE  Remember(Latest(e, n), e[n + 1]) = Latest(e, n + 1)
<1> DEFINE f == Latest(e, n)
           g == Latest(e, n + 1)
<1>1. Cap \in Nat \ {0}
  BY StatsAssumption
<1>2. CASE n < Cap
  <2>1. f = [i \in 1 .. n |-> e[i]] /\ g = [i \in 1 .. n + 1 |-> e[i]]
    <3>1. Gone(n) = 0 /\ Gone(n + 1) = 0 /\ n - 0 = n /\ (n + 1) - 0 = n + 1
      BY <1>1, <1>2 DEF Gone
    <3>2. \A i \in Nat : 0 + i = i
      OBVIOUS
    <3> QED BY <3>1, <3>2 DEF Latest
  <2>2. f \in Seq(S) /\ Len(f) = n /\ g \in Seq(S) /\ Len(g) = n + 1
    BY <2>1
  <2>3. Remember(f, e[n + 1]) = Append(f, e[n + 1])
    BY <1>1, <1>2, <2>2 DEF Remember
  <2>4. Append(f, e[n + 1]) = g
    <3>1. Append(f, e[n + 1]) \in Seq(S) /\ Len(Append(f, e[n + 1])) = n + 1
      BY <2>2
    <3>2. ASSUME NEW i \in 1 .. n + 1 PROVE Append(f, e[n + 1])[i] = g[i]
      BY <2>1, <2>2
    <3> HIDE DEF f, g
    <3> QED BY <2>2, <3>1, <3>2, SeqEqual
  <2> QED BY <2>3, <2>4
<1>3. CASE n >= Cap
  <2>1. f = [i \in 1 .. Cap |-> e[n - Cap + i]] /\ g = [i \in 1 .. Cap |-> e[n + 1 - Cap + i]]
    <3>1. ASSUME NEW m \in Nat, m >= Cap
          PROVE  Latest(e, m) = [i \in 1 .. Cap |-> e[m - Cap + i]]
      <4>1. Gone(m) = m - Cap /\ m - Gone(m) = Cap
        BY <1>1, <3>1 DEF Gone
      <4> QED BY <4>1, Zenon DEF Latest
    <3>2. n + 1 \in Nat /\ n + 1 >= Cap
      BY <1>1, <1>3
    <3>3. f = [i \in 1 .. Cap |-> e[n - Cap + i]]
      BY <1>3, <3>1, Zenon
    <3>4. g = [i \in 1 .. Cap |-> e[n + 1 - Cap + i]]
      <4>1. PICK k \in Nat : k = n + 1
        BY <3>2
      <4>2. Latest(e, k) = [i \in 1 .. Cap |-> e[k - Cap + i]]
        BY <3>1, <3>2, <4>1
      <4>3. \A i \in 1 .. Cap : e[k - Cap + i] = e[n + 1 - Cap + i]
        BY <1>1, <4>1
      <4>4. Latest(e, k) = Latest(e, n + 1)
        BY <4>1
      <4> QED BY <4>2, <4>3, <4>4, Zenon
    <3> HIDE DEF f, g
    <3> QED BY <3>3, <3>4
  <2>2. /\ \A i \in 1 .. Cap : e[n - Cap + i] \in S /\ e[n + 1 - Cap + i] \in S
        /\ e[n + 1] \in S
    BY <1>1, <1>3
  <2>3. f \in Seq(S) /\ Len(f) = Cap /\ g \in Seq(S) /\ Len(g) = Cap /\ f # << >>
    <3>1. f \in [1 .. Cap -> S] /\ g \in [1 .. Cap -> S]
      BY <2>1, <2>2
    <3> HIDE DEF f, g
    <3>2. f \in Seq(S) /\ Len(f) = Cap /\ g \in Seq(S) /\ Len(g) = Cap
      BY <1>1, <3>1
    <3> QED BY <1>1, <3>2
  <2>4. Remember(f, e[n + 1]) = Append(Tail(f), e[n + 1])
    BY <2>3 DEF Remember
  <2>5. Append(Tail(f), e[n + 1]) = g
    <3>1. Tail(f) \in Seq(S) /\ Len(Tail(f)) = Cap - 1
          /\ \A i \in 1 .. Cap - 1 : Tail(f)[i] = f[i + 1]
      <4> HIDE DEF f
      <4> QED BY <1>1, <2>3, HeadTailProperties
    <3>2. Append(Tail(f), e[n + 1]) \in Seq(S) /\ Len(Append(Tail(f), e[n + 1])) = Cap
      <4> HIDE DEF f
      <4> QED BY <1>1, <2>2, <3>1
    <3>3. ASSUME NEW i \in 1 .. Cap PROVE Append(Tail(f), e[n + 1])[i] = g[i]
      <4>1. CASE i = Cap
        <5>1. Append(Tail(f), e[n + 1])[i] = e[n + 1]
          <6> HIDE DEF f
          <6> QED BY <1>1, <2>2, <3>1, <4>1
        <5>2. n + 1 - Cap + i = n + 1
          BY <1>1, <4>1
        <5> QED BY <2>1, <5>1, <5>2
      <4>2. CASE i # Cap
        <5>1. i \in 1 .. Cap - 1 /\ i + 1 \in 1 .. Cap /\ n - Cap + (i + 1) = n + 1 - Cap + i
          BY <1>1, <4>2
        <5>2. Append(Tail(f), e[n + 1])[i] = f[i + 1]
          <6> HIDE DEF f
          <6> QED BY <1>1, <2>2, <3>1, <5>1
        <5> QED BY <2>1, <5>1, <5>2
      <4> QED BY <4>1, <4>2
    <3> HIDE DEF f, g
    <3> QED BY <2>3, <3>2, <3>3, SeqEqual
  <2> QED BY <2>4, <2>5
<1> QED BY <1>1, <1>2, <1>3

\* One more request takes the statistics from what they are to what they should be.
LEMMA RecordIsReference ==
  ASSUME NEW r, NEW n \in 0 .. Len(MaskCounts) - 1
  PROVE  Record(Reference(r, n), [of |-> r, path |-> n + 1, masked |-> MaskCounts[n + 1]])
           = Reference(r, n + 1)
<1> DEFINE event(i) == [of |-> r, path |-> i, masked |-> MaskCounts[i]]
           S == { event(i) : i \in Nat }
           e == [i \in Nat |-> event(i)]
<1>1. n \in Nat /\ n + 1 \in Nat /\ Gone(n) \in Nat /\ Gone(n + 1) \in Nat
  BY DashboardAssumption, StatsAssumption DEF Gone
<1>2. e \in [Nat -> S] /\ \A i \in Nat : e[i] = event(i)
  OBVIOUS
<1>3. \A m \in Nat : Gone(m) \in Nat =>
        [i \in 1 .. m - Gone(m) |-> event(Gone(m) + i)] = Latest(e, m)
  <2>1. ASSUME NEW m \in Nat, Gone(m) \in Nat, NEW i \in 1 .. m - Gone(m)
        PROVE  event(Gone(m) + i) = e[Gone(m) + i]
    <3>1. Gone(m) + i \in Nat
      BY <2>1
    <3> QED BY <1>2, <3>1
  <2> HIDE DEF e, event
  <2> QED BY <2>1 DEF Latest
<1>4. Reference(r, n) = [requests |-> n, masked |-> MaskedBy[n], recent |-> Latest(e, n)]
  BY <1>1, <1>3, Zenon DEF Reference
<1>5. Reference(r, n + 1) =
        [requests |-> n + 1, masked |-> MaskedBy[n + 1], recent |-> Latest(e, n + 1)]
  BY <1>1, <1>3, Zenon DEF Reference
<1>6. Remember(Latest(e, n), event(n + 1)) = Latest(e, n + 1)
  <2> HIDE DEF e, S
  <2>1. Remember(Latest(e, n), e[n + 1]) = Latest(e, n + 1)
    BY <1>1, <1>2, LatestNext
  <2> QED BY <1>1, <1>2, <2>1
<1>7. event(n + 1).masked = MaskCounts[n + 1]
  OBVIOUS
<1> HIDE DEF e, S
<1>8. MaskedBy[n + 1] = MaskedBy[n] + event(n + 1).masked
  BY <1>7, MaskedByIs
<1> HIDE DEF event
<1>9. Record(Reference(r, n), event(n + 1)) = Reference(r, n + 1)
  BY <1>4, <1>5, <1>6, <1>8 DEF Record
<1> QED BY <1>9 DEF event

LEMMA NoneIsReference ==
  ASSUME NEW r
  PROVE  Empty = Reference(r, 0)
<1>1. Gone(0) = 0 /\ 0 - 0 = 0
  BY StatsAssumption DEF Gone
<1>2. 1 .. 0 = {}
  OBVIOUS
<1> QED BY <1>1, <1>2, MaskedByIs DEF Reference, Empty

-----------------------------------------------------------------------------
\* The configuration.

LEMMA LoadIs ==
  ASSUME NEW s \in Settings
  PROVE  /\ {"port", "bind", "token", "log_level"} \subseteq DOMAIN Load(s.file, s.env)
         /\ Load(s.file, s.env).token \in Token \union {NoToken}
<1> DEFINE file == s.file
           env == s.env
           m == Overlay(file, defaults)
           o == Overlaid(file)
           t == IF IsSet("SHINEL_ADMIN_TOKEN", env) THEN env.SHINEL_ADMIN_TOKEN ELSE o.token
<1>1. /\ DOMAIN m = DOMAIN file \union DOMAIN defaults
      /\ \A x \in DOMAIN m : m[x] = IF x \in DOMAIN file THEN file[x] ELSE defaults[x]
  BY DEF Overlay
<1>2. /\ {"port", "bind", "token", "log_level", "providers"} \subseteq DOMAIN defaults
      /\ defaults.token = NoToken
  BY DEF defaults
<1>3. \E v : o = [m EXCEPT !.providers = v]
  BY Zenon DEF Overlaid
<1>4. \E b, v : Load(file, env) = [o EXCEPT !.bind = b, !.token = t, !.providers = v]
  BY Zenon DEF Load
<1>5. "token" \in DOMAIN file => file.token \in Token \union {NoToken}
  BY DashboardAssumption
<1>6. "SHINEL_ADMIN_TOKEN" \in DOMAIN env => env.SHINEL_ADMIN_TOKEN \in Token \union {NoToken}
  BY DashboardAssumption
<1>7. m.token \in Token \union {NoToken}
  <2> HIDE DEF m, file
  <2> QED BY <1>1, <1>2, <1>5
<1>8. o.token \in Token \union {NoToken} /\ DOMAIN o = DOMAIN m
  <2> HIDE DEF m, o
  <2> QED BY <1>1, <1>2, <1>3, <1>7
<1>9. t \in Token \union {NoToken}
  BY <1>6, <1>8 DEF IsSet
<1>10. Load(file, env).token = t /\ DOMAIN Load(file, env) = DOMAIN o
  <2>1. "token" \in DOMAIN o
    <3> HIDE DEF m, o
    <3> QED BY <1>1, <1>2, <1>8
  <2> HIDE DEF o, t, file, env
  <2> QED BY <1>4, <2>1
<1> HIDE DEF m, o, t, file
<1>11. {"port", "bind", "token", "log_level"} \subseteq DOMAIN Load(file, env)
  BY <1>1, <1>2, <1>8, <1>10
<1> QED BY <1>9, <1>10, <1>11 DEF file

-----------------------------------------------------------------------------
\* The invariant.  What a visitor may come to hold is what he may know; what is on
\* its way to a page was true of some process at some moment.

Generated == Range(Random)

Pages(k) == { Reference(r, n) : r \in 1 .. k, n \in 0 .. Len(MaskCounts) }

ProcessOK ==
  /\ run \in 0 .. Len(Random)
  /\ stage # "down" => run \in 1 .. Len(Random)
  /\ \E n \in 0 .. Len(MaskCounts) : store = Reference(run, n) /\ store.requests = n
  /\ admin # "off" => stage \in {"ready", "serving"}

ConfigOK ==
  /\ {"port", "bind", "token", "log_level"} \subseteq DOMAIN cfg
  /\ cfg.token \in Token \union {NoToken} \union Generated
  /\ stage \in {"loaded", "built"} => cfg.token \notin Generated
  /\ admin # "off" /\ cfg.token = NoToken => BindIsLoopback(cfg.bind)

VisitorOK ==
  /\ visitor \in Visitors /\ said \subseteq Generated
  /\ cookie \in Knows \union {NoCookie}
  /\ basic \in Knows \union {NoToken}

PageOK ==
  /\ flight \in Seq(Pages(run))
  /\ "recent" \in DOMAIN shown
  /\ shown.recent = Cleared \/ shown \in Pages(run)

DashboardInv == ProcessOK /\ ConfigOK /\ VisitorOK /\ PageOK

LEMMA SettingsTyped ==
  /\ Len(Random) \in Nat /\ Len(MaskCounts) \in Nat
  /\ \A n \in 1 .. Len(Random) : Random[n] \in Generated
  /\ NoToken \notin Generated /\ NoCookie \notin Token \union {NoToken} \union Generated
<1>1. Len(Random) \in Nat /\ Len(MaskCounts) \in Nat /\ DOMAIN Random = 1 .. Len(Random)
  BY DashboardAssumption
<1>2. \A n \in DOMAIN Random : Random[n] \in Range(Random)
  BY DEF Range
<1> QED BY <1>1, <1>2, DashboardAssumption DEF Generated

LEMMA PagesGrow ==
  ASSUME NEW k \in Nat
  PROVE  Pages(k) \subseteq Pages(k + 1) /\ Seq(Pages(k)) \subseteq Seq(Pages(k + 1))
<1>1. 1 .. k \subseteq 1 .. k + 1
  OBVIOUS
<1>2. Pages(k) \subseteq Pages(k + 1)
  <2>1. ASSUME NEW p \in Pages(k) PROVE p \in Pages(k + 1)
    <3>1. PICK r \in 1 .. k, n \in 0 .. Len(MaskCounts) : p = Reference(r, n)
      BY DEF Pages
    <3>2. r \in 1 .. k + 1
      BY <1>1
    <3> QED BY <3>1, <3>2 DEF Pages
  <2> QED BY <2>1
<1> HIDE DEF Pages
<1> QED BY <1>2

LEMMA InitOK ==
  ASSUME DashboardInit
  PROVE  DashboardInv
<1>1. ProcessOK
  <2>1. Empty = Reference(0, 0) /\ Empty.requests = 0
    BY NoneIsReference DEF Empty
  <2> QED BY <2>1, SettingsTyped DEF DashboardInit, ProcessOK
<1>2. ConfigOK
  BY SettingsTyped DEF DashboardInit, ConfigOK, defaults
<1>3. VisitorOK
  BY DEF DashboardInit, VisitorOK, Knows
<1>4. PageOK
  BY DEF DashboardInit, PageOK, Blank
<1> QED BY <1>1, <1>2, <1>3, <1>4 DEF DashboardInv

-----------------------------------------------------------------------------
\* What the program does.

\* A step of the program that leaves the browser alone and forgets nothing that was
\* said disturbs nothing of the visitor's.
LEMMA VisitorKept ==
  ASSUME VisitorOK, UNCHANGED <<visitor, cookie, basic>>, said \subseteq said', said' \subseteq Generated
  PROVE  VisitorOK'
BY DEF VisitorOK, Knows

LEMMA StartOK ==
  ASSUME DashboardInv, Start
  PROVE  DashboardInv'
<1> USE DEF DashboardInv
<1>1. run \in Nat /\ run' = run + 1 /\ run' \in 1 .. Len(Random) /\ stage' = "loaded"
  BY SettingsTyped DEF ProcessOK, Start
<1>2. admin = "off" /\ admin' = "off"
  BY DEF ProcessOK, Start
<1>3. ProcessOK'
  <2>1. store' = Reference(run', 0) /\ store'.requests = 0
    BY NoneIsReference DEF Start, Empty
  <2> QED BY <1>1, <1>2, <2>1, SettingsTyped DEF ProcessOK
<1>4. ConfigOK'
  <2>1. PICK s \in Settings : cfg' = Load(s.file, s.env)
    BY DEF Start
  <2>2. {"port", "bind", "token", "log_level"} \subseteq DOMAIN cfg' /\ cfg'.token \in Token \union {NoToken}
    BY <2>1, LoadIs
  <2>3. cfg'.token \notin Generated
    BY <2>2, DashboardAssumption DEF Generated
  <2> QED BY <1>2, <2>2, <2>3 DEF ConfigOK
<1>5. VisitorOK'
  BY VisitorKept DEF Start, browser, VisitorOK
<1>6. PageOK'
  BY <1>1, PagesGrow DEF PageOK, Start, browser
<1> QED BY <1>3, <1>4, <1>5, <1>6

LEMMA ExitOK ==
  ASSUME DashboardInv, Exit
  PROVE  DashboardInv'
<1> USE DEF DashboardInv
<1>1. ProcessOK'
  BY DEF ProcessOK, Exit
<1>2. ConfigOK'
  BY DEF ConfigOK, Exit
<1>3. VisitorOK'
  BY VisitorKept DEF Exit, VisitorOK
<1>4. PageOK'
  <2>1. flight' \in Seq(Pages(run))
    <3>1. flight' = flight \/ flight' = << >>
      BY DEF Exit
    <3>2. << >> \in Seq(Pages(run))
      OBVIOUS
    <3> QED BY <3>1, <3>2, Zenon DEF PageOK
  <2> QED BY <2>1 DEF PageOK, Exit
<1> QED BY <1>1, <1>2, <1>3, <1>4

LEMMA OpenAdminOK ==
  ASSUME DashboardInv, OpenAdmin
  PROVE  DashboardInv'
<1> USE DEF DashboardInv
<1>1. run \in 1 .. Len(Random) /\ run' = run /\ stage' = "ready"
  BY DEF ProcessOK, OpenAdmin
<1>2. ProcessOK'
  BY <1>1 DEF ProcessOK, OpenAdmin
<1>3. admin = "off"
  BY DEF ProcessOK, OpenAdmin
<1>4. Random[run] \in Generated /\ Random[run] # NoToken
  BY <1>1, SettingsTyped
<1>5. EnsureToken \in Token \union {NoToken} \union Generated
  BY <1>4 DEF EnsureToken, ConfigOK
<1>6. EnsureToken = NoToken => BindIsLoopback(cfg.bind)
  BY <1>4 DEF EnsureToken
<1>7. EnsureToken # cfg.token => EnsureToken \in Generated
  BY <1>4 DEF EnsureToken
<1>8. ConfigOK'
  <2>1. CASE cfg.port > 0
    <3>1. cfg' = [cfg EXCEPT !.token = EnsureToken]
      BY <2>1 DEF OpenAdmin
    <3>2. DOMAIN cfg' = DOMAIN cfg /\ cfg'.token = EnsureToken /\ cfg'.bind = cfg.bind
      <4> HIDE DEF DashboardInv
      <4>1. "token" \in DOMAIN cfg /\ "bind" \in DOMAIN cfg
        BY DEF DashboardInv, ConfigOK
      <4> QED BY <3>1, <4>1
    <3> QED BY <1>1, <1>5, <1>6, <3>2 DEF ConfigOK, BindIsLoopback
  <2>2. CASE ~(cfg.port > 0)
    <3>1. cfg' = cfg /\ admin' = "off"
      BY <1>3, <2>2 DEF OpenAdmin
    <3> QED BY <1>1, <3>1 DEF ConfigOK
  <2> QED BY <2>1, <2>2
<1>9. VisitorOK'
  <2>1. said \subseteq said' /\ said' \subseteq Generated
    BY <1>7 DEF OpenAdmin, VisitorOK, Logged
  <2> QED BY <2>1, VisitorKept DEF OpenAdmin, browser
<1>10. PageOK'
  BY <1>1 DEF PageOK, OpenAdmin, browser
<1> QED BY <1>2, <1>8, <1>9, <1>10

\* The steps that only move the process on.
LEMMA MoveOK ==
  ASSUME DashboardInv, Build \/ ServeAdmin \/ ListenAndServe
  PROVE  DashboardInv'
<1> USE DEF DashboardInv
<1>1. UNCHANGED <<run, cfg, said, store, visitor, browser>>
  BY DEF Build, ServeAdmin, ListenAndServe
<1>2. ProcessOK'
  BY DEF ProcessOK, Build, ServeAdmin, ListenAndServe
<1>3. ConfigOK'
  <2>1. stage' \in {"loaded", "built"} => stage \in {"loaded", "built"}
    BY DEF Build, ServeAdmin, ListenAndServe
  <2>2. admin' # "off" => admin # "off"
    BY DEF Build, ServeAdmin, ListenAndServe
  <2> QED BY <1>1, <2>1, <2>2 DEF ConfigOK
<1>4. VisitorOK'
  BY <1>1, VisitorKept DEF browser, VisitorOK
<1>5. PageOK'
  BY <1>1 DEF PageOK, browser
<1> QED BY <1>2, <1>3, <1>4, <1>5

LEMMA ProxiedOK ==
  ASSUME DashboardInv, Proxied
  PROVE  DashboardInv'
<1> USE DEF DashboardInv
<1>1. UNCHANGED <<stage, run, cfg, admin, said, visitor, browser>>
  BY DEF Proxied
<1>2. ProcessOK'
  <2>1. PICK n \in 0 .. Len(MaskCounts) : store = Reference(run, n) /\ store.requests = n
    BY DEF ProcessOK
  <2>2. n \in 0 .. Len(MaskCounts) - 1 /\ n + 1 \in 0 .. Len(MaskCounts)
    BY <2>1, SettingsTyped DEF Proxied
  <2>3. store' = Record(store, [of |-> run, path |-> n + 1, masked |-> MaskCounts[n + 1]])
    BY <2>1 DEF Proxied
  <2>4. store' = Reference(run, n + 1)
    BY <2>1, <2>2, <2>3, RecordIsReference
  <2>5. store'.requests = n + 1
    BY <2>4 DEF Reference
  <2> QED BY <1>1, <2>2, <2>4, <2>5 DEF ProcessOK
<1>3. ConfigOK'
  BY <1>1 DEF ConfigOK
<1>4. VisitorOK'
  BY <1>1, VisitorKept DEF browser, VisitorOK
<1>5. PageOK'
  BY <1>1 DEF PageOK, browser
<1> QED BY <1>2, <1>3, <1>4, <1>5

-----------------------------------------------------------------------------
\* What the visitor does.

\* Only one who may see the statistics is let in.
LEMMA AuthorizedIsEntitled ==
  ASSUME DashboardInv, Reachable,
         NEW c \in Knows \union {NoCookie}, NEW password \in Knows \union {NoToken},
         authorized(c, password)
  PROVE  Entitled
<1>1. cfg.token # NoCookie
  BY SettingsTyped DEF DashboardInv, ConfigOK
<1>2. CASE cfg.token = NoToken
  BY <1>2 DEF DashboardInv, ConfigOK, Reachable, Entitled
<1>3. CASE cfg.token # NoToken
  BY <1>1, <1>3 DEF authorized, cookieValue, Entitled
<1> QED BY <1>2, <1>3

\* An answer is a page, and is sent while the process runs.
LEMMA LoadedStats ==
  ASSUME DashboardInv, Reachable, NEW c, NEW password, NEW before \in Seq(Pages(run))
  PROVE  /\ loadStats(c, password, before) \in Seq(Pages(run))
         /\ Len(loadStats(c, password, before)) \in {Len(before), Len(before) + 1}
         /\ Len(loadStats(c, password, before)) > Len(before) => authorized(c, password)
<1>1. run \in 1 .. run
  BY SettingsTyped DEF DashboardInv, ProcessOK, Reachable
<1>2. store \in Pages(run)
  BY <1>1 DEF DashboardInv, ProcessOK, Pages
<1> QED BY <1>2 DEF loadStats, Snapshot

\* What a visit leaves as it was.
LEMMA ProcessKept ==
  ASSUME DashboardInv, UNCHANGED <<process, visitor>>
  PROVE  ProcessOK' /\ ConfigOK' /\ Knows' = Knows /\ Pages(run)' = Pages(run)
<1>1. UNCHANGED <<stage, run, cfg, admin, said, store, visitor>>
  BY DEF process
<1> QED BY <1>1 DEF DashboardInv, ProcessOK, ConfigOK, Knows

LEMMA BootOK ==
  ASSUME DashboardInv, Boot
  PROVE  DashboardInv'
<1> USE DEF DashboardInv
<1>1. PICK pw \in Knows \union {NoToken} :
        basic' = pw /\ flight' = loadStats(cookie, pw, << >>)
  BY DEF Boot
<1>2. UNCHANGED <<process, visitor, cookie, said, run>> /\ shown' = Blank /\ Reachable
  BY DEF Boot, process
<1>3. VisitorOK'
  BY <1>1, <1>2, ProcessKept DEF VisitorOK
<1>4. PageOK'
  <2>1. << >> \in Seq(Pages(run))
    OBVIOUS
  <2>2. flight' \in Seq(Pages(run))
    BY <1>1, <1>2, <2>1, LoadedStats
  <2> QED BY <1>2, <2>2 DEF PageOK, Blank
<1> QED BY <1>2, <1>3, <1>4, ProcessKept

LEMMA LoginOK ==
  ASSUME DashboardInv, Login
  PROVE  DashboardInv'
<1> USE DEF DashboardInv
<1>1. UNCHANGED <<process, visitor, basic, shown, said, run>> /\ Reachable
  BY DEF Login, process
<1>2. cookie' \in {cookie} \union Knows
  BY DEF Login, setSession, cookieValue
<1>3. flight' = loadStats(cookie', basic, flight)
  BY DEF Login, showApp
<1>4. VisitorOK'
  BY <1>1, <1>2, ProcessKept DEF VisitorOK
<1>5. PageOK'
  BY <1>1, <1>3, LoadedStats DEF PageOK
<1> QED BY <1>1, <1>4, <1>5, ProcessKept

LEMMA LogoutOK ==
  ASSUME DashboardInv, Logout
  PROVE  DashboardInv'
<1> USE DEF DashboardInv
<1>1. UNCHANGED <<process, visitor, basic, flight, said, run>> /\ cookie' = NoCookie
  BY DEF Logout, process, clearSession
<1>2. VisitorOK'
  BY <1>1, ProcessKept DEF VisitorOK
<1>3. PageOK'
  <2>1. "recent" \in DOMAIN shown' /\ shown'.recent = Cleared
    BY DEF PageOK, Logout
  <2> QED BY <1>1, <2>1 DEF PageOK
<1> QED BY <1>1, <1>2, <1>3, ProcessKept

LEMMA PollOK ==
  ASSUME DashboardInv, Poll
  PROVE  DashboardInv'
<1> USE DEF DashboardInv
<1>1. UNCHANGED <<process, visitor, cookie, basic, shown, said, run>> /\ Reachable
  BY DEF Poll, process
<1>2. VisitorOK'
  BY <1>1, ProcessKept DEF VisitorOK
<1>3. PageOK'
  <2>1. flight' = loadStats(cookie, basic, flight)
    BY DEF Poll
  <2> QED BY <1>1, <2>1, LoadedStats DEF PageOK
<1> QED BY <1>1, <1>2, <1>3, ProcessKept

LEMMA Without ==
  ASSUME NEW S, NEW q \in Seq(S), NEW i \in 1 .. Len(q)
  PROVE  /\ SubSeq(q, 1, i - 1) \o SubSeq(q, i + 1, Len(q)) \in Seq(S)
         /\ Len(SubSeq(q, 1, i - 1) \o SubSeq(q, i + 1, Len(q))) = Len(q) - 1
<1>1. Len(q) \in Nat
  OBVIOUS
<1>2. SubSeq(q, 1, i - 1) \in Seq(S) /\ Len(SubSeq(q, 1, i - 1)) = i - 1
  BY <1>1, SubSeqProperties
<1>3. SubSeq(q, i + 1, Len(q)) \in Seq(S) /\ Len(SubSeq(q, i + 1, Len(q))) = Len(q) - i
  BY <1>1, SubSeqProperties
<1>4. i - 1 + (Len(q) - i) = Len(q) - 1
  BY <1>1
<1> DEFINE a == SubSeq(q, 1, i - 1)
           b == SubSeq(q, i + 1, Len(q))
<1> HIDE DEF a, b
<1>5. a \o b \in Seq(S) /\ Len(a \o b) = Len(a) + Len(b)
  BY <1>2, <1>3, ConcatProperties DEF a, b
<1> QED BY <1>2, <1>3, <1>4, <1>5 DEF a, b

LEMMA RenderOK ==
  ASSUME DashboardInv, NEW i, Render(i)
  PROVE  DashboardInv' /\ Len(flight') < Len(flight)
<1>1. UNCHANGED <<process, visitor, cookie, basic, said, run>>
  BY DEF Render, process
<1>2. VisitorOK'
  BY <1>1, ProcessKept DEF VisitorOK, DashboardInv
<1>3. flight \in Seq(Pages(run)) /\ i \in 1 .. Len(flight)
  BY DEF DashboardInv, PageOK, Render
<1>4. flight' \in Seq(Pages(run)) /\ Len(flight') = Len(flight) - 1
  BY <1>3, Without DEF Render
<1>5. shown' \in Pages(run)
  <2>1. shown' = flight[i]
    BY DEF Render
  <2> QED BY <1>3, <2>1
<1>6. "recent" \in DOMAIN shown'
  BY <1>5 DEF Pages, Reference
<1>7. PageOK'
  BY <1>1, <1>4, <1>5, <1>6 DEF PageOK
<1>8. Len(flight') < Len(flight)
  BY <1>3, <1>4
<1> QED BY <1>1, <1>2, <1>7, <1>8, ProcessKept DEF DashboardInv

-----------------------------------------------------------------------------
\* The invariant through any step.

LEMMA NextOK ==
  ASSUME DashboardInv, [DashboardNext]_dashboardVars
  PROVE  DashboardInv'
<1>1. CASE Program
  BY <1>1, StartOK, ExitOK, OpenAdminOK, MoveOK, ProxiedOK DEF Program
<1>2. CASE Visit
  <2>1. ASSUME NEW i \in 1 .. MaxFlight, Render(i) PROVE DashboardInv'
    BY <2>1, RenderOK
  <2> QED BY <1>2, <2>1, BootOK, LoginOK, LogoutOK, PollOK DEF Visit
<1>3. CASE UNCHANGED dashboardVars
  <2>1. UNCHANGED <<process, visitor, cookie, basic, flight, shown, said, run>>
    BY <1>3 DEF dashboardVars, process, browser
  <2> QED BY <2>1, ProcessKept DEF DashboardInv, VisitorOK, PageOK
<1> QED BY <1>1, <1>2, <1>3 DEF DashboardNext

\* The invariant, of every behaviour of the program and its visitor.
THEOREM DashboardInvariant == DashboardSpec => []DashboardInv
<1>1. DashboardInit => DashboardInv
  BY InitOK
<1>2. DashboardInv /\ [DashboardNext]_dashboardVars => DashboardInv'
  BY NextOK
<1> QED BY <1>1, <1>2, PTL DEF DashboardSpec

\* What a page shows is the statistics of one process at one moment.
THEOREM PagesAreConsistent == DashboardSpec => []PageIsConsistent
<1>1. DashboardInv => PageIsConsistent
  BY DEF DashboardInv, PageOK, Pages, PageIsConsistent
<1> QED BY <1>1, DashboardInvariant, PTL

\* Whenever an answer with statistics is sent, the visitor it goes to knows the password
\* of this very process, or sits on its host while it has none.
THEOREM StatisticsAreGuarded == DashboardSpec => OnlyTheEntitledSee
<1>1. ASSUME DashboardInv, [DashboardNext]_dashboardVars, Len(flight') > Len(flight)
      PROVE  Entitled
  <2>1. flight \in Seq(Pages(run)) /\ Len(flight) \in Nat
    BY <1>1 DEF DashboardInv, PageOK
  <2>2. Len(<< >>) = 0
    OBVIOUS
  <2>3. cookie \in Knows \union {NoCookie} /\ basic \in Knows \union {NoToken}
    BY <1>1 DEF DashboardInv, VisitorOK
  <2>4. flight' # flight /\ flight' # << >>
    BY <1>1, <2>1, <2>2
  <2>5. ~Program
    BY <2>4 DEF Program, Start, Exit, Build, OpenAdmin, ServeAdmin, ListenAndServe, Proxied, browser
  <2>6. CASE Boot
    <3>1. PICK pw \in Knows \union {NoToken} : flight' = loadStats(cookie, pw, << >>)
      BY <2>6 DEF Boot
    <3>2. authorized(cookie, pw)
      BY <2>4, <3>1 DEF loadStats
    <3> QED BY <1>1, <2>3, <2>6, <3>2, AuthorizedIsEntitled DEF Boot
  <2>7. CASE Login
    <3>1. flight' = loadStats(cookie', basic, flight) /\ Reachable
      BY <2>7 DEF Login, showApp
    <3>2. cookie' \in Knows \union {NoCookie}
      BY <2>3, <2>7 DEF Login, setSession, cookieValue
    <3>3. authorized(cookie', basic)
      BY <2>4, <3>1 DEF loadStats
    <3> QED BY <1>1, <2>3, <3>1, <3>2, <3>3, AuthorizedIsEntitled
  <2>8. CASE Poll
    <3>1. flight' = loadStats(cookie, basic, flight) /\ Reachable
      BY <2>8 DEF Poll
    <3>2. authorized(cookie, basic)
      BY <2>4, <3>1 DEF loadStats
    <3> QED BY <1>1, <2>3, <3>1, <3>2, AuthorizedIsEntitled
  <2>9. ~Logout /\ flight' # flight
    BY <2>4 DEF Logout
  <2>10. ASSUME NEW i \in 1 .. MaxFlight, Render(i) PROVE FALSE
    <3>1. Len(flight') < Len(flight)
      BY <1>1, <2>10, RenderOK
    <3>2. Len(flight') \in Nat
      <4>1. DashboardInv'
        BY <1>1, NextOK
      <4>2. flight' \in Seq(Pages(run)')
        BY <4>1 DEF DashboardInv, PageOK
      <4> QED BY <4>2
    <3> QED BY <1>1, <2>1, <3>1, <3>2
  <2> QED BY <1>1, <2>4, <2>5, <2>6, <2>7, <2>8, <2>9, <2>10
          DEF DashboardNext, Visit, dashboardVars, browser
<1>2. DashboardInv /\ [DashboardNext]_dashboardVars =>
        [Len(flight') > Len(flight) => Entitled]_dashboardVars
  BY <1>1
<1> QED BY <1>2, DashboardInvariant, PTL DEF DashboardSpec, OnlyTheEntitledSee

-----------------------------------------------------------------------------
\* The log.

\* The settings at hand let through what is said at the level info.
SaysInfo ==
  \A s \in Settings : Loads(s.file) => SlogLevel(Load(s.file, s.env)) \in {"debug", "info"}

Announced ==
  /\ SlogLevel(cfg) \in {"debug", "info"}
  /\ admin # "off" /\ cfg.token \in Generated => cfg.token \in said

LEMMA AnnouncedKept ==
  ASSUME SaysInfo, DashboardInv, Announced, [DashboardNext]_dashboardVars
  PROVE  Announced'
<1>1. CASE Start
  <2>1. SlogLevel(cfg)' \in {"debug", "info"}
    BY <1>1 DEF Start, SaysInfo, SlogLevel
  <2> QED BY <1>1, <2>1 DEF Announced, Start, DashboardInv, ProcessOK
<1>2. CASE Exit
  <2>1. SlogLevel(cfg)' = SlogLevel(cfg)
    BY <1>2 DEF Exit, SlogLevel
  <2> QED BY <1>2, <2>1 DEF Announced, Exit
<1>3. CASE OpenAdmin
  <2>1. admin = "off" /\ cfg.token \notin Generated /\ {"token", "log_level"} \subseteq DOMAIN cfg
    BY <1>3 DEF OpenAdmin, DashboardInv, ProcessOK, ConfigOK
  <2>2. CASE cfg.port > 0
    <3>1. cfg' = [cfg EXCEPT !.token = EnsureToken]
      BY <1>3, <2>2 DEF OpenAdmin
    <3>2. cfg'.token = EnsureToken /\ cfg'.log_level = cfg.log_level
      BY <2>1, <3>1
    <3>3. SlogLevel(cfg)' = SlogLevel(cfg)
      BY <3>2 DEF SlogLevel
    <3>4. EnsureToken # cfg.token => EnsureToken \in said'
      BY <1>3, <2>2 DEF OpenAdmin, Logged, Announced
    <3> QED BY <2>1, <3>2, <3>3, <3>4 DEF Announced
  <2>3. CASE ~(cfg.port > 0)
    <3>1. UNCHANGED <<cfg, said, admin>>
      BY <1>3, <2>3 DEF OpenAdmin
    <3> QED BY <3>1 DEF Announced, SlogLevel
  <2> QED BY <2>2, <2>3
<1>4. CASE ~(Start \/ Exit \/ OpenAdmin)
  <2>1. UNCHANGED <<cfg, said>> /\ (admin' # "off" => admin # "off")
    BY <1>4 DEF DashboardNext, Program, Visit, Build, ServeAdmin, ListenAndServe, Proxied,
                Boot, Login, Logout, Poll, Render, dashboardVars, process
  <2> QED BY <2>1 DEF Announced, SlogLevel
<1> QED BY <1>1, <1>2, <1>3, <1>4

\* Under settings that let the level info through, a generated password stands in the log
\* by the time the dashboard answers.
THEOREM GeneratedPasswordIsLogged ==
  ASSUME SaysInfo
  PROVE  DashboardSpec => []GeneratedIsAnnounced
<1>1. DashboardInit => Announced
  BY DEF DashboardInit, Announced, defaults, SlogLevel
<1>2. DashboardInv /\ Announced /\ [DashboardNext]_dashboardVars => Announced'
  BY SaysInfo, AnnouncedKept
<1>3. Announced => GeneratedIsAnnounced
  BY DEF Announced, GeneratedIsAnnounced, Generated
<1> QED BY <1>1, <1>2, <1>3, DashboardInvariant, PTL DEF DashboardSpec

-----------------------------------------------------------------------------
\* The type invariant: what it says beyond the invariant above.

StateOK ==
  /\ stage \in {"down", "loaded", "built", "ready", "serving"}
  /\ admin \in {"off", "starting", "on"}
  /\ admin # "off" => cfg.port > 0
  /\ page \in {"closed", "gate", "app"} /\ needsAuth \in BOOLEAN /\ timer \in BOOLEAN
  /\ timer <=> page = "app"
  /\ Len(flight) <= MaxFlight

LEMMA StateKept ==
  ASSUME DashboardInv, StateOK, [DashboardNext]_dashboardVars
  PROVE  StateOK'
<1> USE DashboardAssumption
<1>1. flight \in Seq(Pages(run)) /\ Len(flight) \in Nat /\ Len(<< >>) = 0
  BY DEF DashboardInv, PageOK
<1>2. CASE OpenAdmin
  <2>1. cfg'.port = cfg.port
    <3>1. "port" \in DOMAIN cfg
      BY DEF DashboardInv, ConfigOK
    <3> QED BY <1>2, <3>1 DEF OpenAdmin
  <2>2. admin' # "off" => cfg.port > 0
    BY <1>2 DEF OpenAdmin, StateOK
  <2>3. stage' = "ready" /\ admin' \in {admin, "starting"} /\ UNCHANGED <<page, needsAuth, timer, flight>>
    BY <1>2 DEF OpenAdmin, browser
  <2> QED BY <2>1, <2>2, <2>3 DEF StateOK
<1>3. CASE Program /\ ~OpenAdmin
  <2>1. UNCHANGED <<page, needsAuth, timer>> /\ (flight' = flight \/ flight' = << >>)
    BY <1>3 DEF Program, Start, Exit, Build, ServeAdmin, ListenAndServe, Proxied, browser
  <2>2. stage' \in {"down", "loaded", "built", "ready", "serving"} /\ admin' \in {"off", "starting", "on"}
    BY <1>3 DEF Program, Start, Exit, Build, ServeAdmin, ListenAndServe, Proxied, StateOK
  <2>3. admin' # "off" => cfg' = cfg /\ admin # "off"
    BY <1>3 DEF Program, Start, Exit, Build, ServeAdmin, ListenAndServe, Proxied, DashboardInv, ProcessOK
  <2>4. Len(flight') <= MaxFlight
    BY <1>1, <2>1 DEF StateOK
  <2> QED BY <2>1, <2>2, <2>3, <2>4 DEF StateOK
<1>4. CASE Boot
  <2>1. UNCHANGED <<stage, admin, cfg>>
    BY <1>4 DEF Boot, process
  <2>2. Len(flight') <= MaxFlight
    <3>1. << >> \in Seq(Pages(run)) /\ Reachable
      BY <1>4 DEF Boot
    <3>2. Len(flight') \in {0, 1}
      <4>1. PICK pw : flight' = loadStats(cookie, pw, << >>)
        BY <1>4 DEF Boot
      <4>2. Len(loadStats(cookie, pw, << >>)) \in {Len(<< >>), Len(<< >>) + 1}
        BY <3>1, LoadedStats, Zenon
      <4> QED BY <1>1, <4>1, <4>2
    <3>3. 0 <= MaxFlight /\ 1 <= MaxFlight
      OBVIOUS
    <3> QED BY <3>2, <3>3
  <2> QED BY <1>4, <2>1, <2>2 DEF StateOK, Boot, authorized
<1>5. CASE Login \/ Poll
  <2>1. UNCHANGED <<stage, admin, cfg>> /\ Reachable /\ Len(flight) < MaxFlight
    BY <1>5 DEF Login, Poll, process
  <2>2. Len(flight') <= MaxFlight
    <3>1. Len(flight') \in {Len(flight), Len(flight) + 1}
      <4>1. \E c : flight' = loadStats(c, basic, flight)
        BY <1>5 DEF Login, Poll, showApp
      <4> QED BY <1>1, <2>1, <4>1, LoadedStats
    <3> QED BY <1>1, <2>1, <3>1
  <2> QED BY <1>5, <2>1, <2>2 DEF StateOK, Login, Poll, showApp
<1>6. CASE Logout
  BY <1>6 DEF Logout, process, StateOK
<1>7. ASSUME NEW i \in 1 .. MaxFlight, Render(i) PROVE StateOK'
  <2>1. Len(flight') < Len(flight) /\ flight' \in Seq(Pages(run)')
    BY <1>7, RenderOK DEF DashboardInv, PageOK
  <2>2. UNCHANGED <<stage, admin, cfg, page, needsAuth, timer>>
    BY <1>7 DEF Render, process
  <2>3. Len(flight') <= MaxFlight
    BY <1>1, <2>1 DEF StateOK
  <2> QED BY <2>2, <2>3 DEF StateOK
<1>8. CASE UNCHANGED dashboardVars
  BY <1>8 DEF dashboardVars, process, browser, StateOK
<1> QED BY <1>2, <1>3, <1>4, <1>5, <1>6, <1>7, <1>8 DEF DashboardNext, Visit

\* The type invariant.
THEOREM DashboardTypeCorrect == DashboardSpec => []DashboardTypeOK
<1>1. DashboardInit => StateOK
  <2>1. Len(<< >>) <= MaxFlight
    BY DashboardAssumption
  <2> QED BY <2>1 DEF DashboardInit, StateOK
<1>2. DashboardInv /\ StateOK /\ [DashboardNext]_dashboardVars => StateOK'
  BY StateKept
<1>3. DashboardInv /\ StateOK => DashboardTypeOK
  <2> SUFFICES ASSUME DashboardInv, StateOK PROVE DashboardTypeOK
    OBVIOUS
  <2>1. Knows \subseteq Token \union Generated
    BY DashboardAssumption DEF DashboardInv, VisitorOK, Knows
  <2>2. Len(store.recent) <= Cap
    <3>1. PICK n \in 0 .. Len(MaskCounts) : store = Reference(run, n)
      BY DEF DashboardInv, ProcessOK
    <3>2. n - Gone(n) \in Nat /\ n - Gone(n) <= Cap
      BY SettingsTyped, StatsAssumption DEF Gone
    <3>3. Len(store.recent) = n - Gone(n)
      BY <3>1, <3>2 DEF Reference
    <3> QED BY <3>2, <3>3
  <2>3. run \in 0 .. Len(Random) /\ (admin # "off" => stage \in {"ready", "serving"})
    BY DEF DashboardInv, ProcessOK
  <2>4. cfg.token \in Token \union {NoToken} \union Range(Random)
    BY DEF DashboardInv, ConfigOK, Generated
  <2>5. /\ visitor \in Visitors /\ said \subseteq Range(Random)
        /\ basic \in Token \union {NoToken} \union Range(Random)
    BY <2>1 DEF DashboardInv, VisitorOK, Generated
  <2> QED BY <2>2, <2>3, <2>4, <2>5 DEF StateOK, DashboardTypeOK
<1> QED BY <1>1, <1>2, <1>3, DashboardInvariant, PTL DEF DashboardSpec
=============================================================================
