----------------------------- MODULE Dashboard -----------------------------
(***************************************************************************)
(* The program from its start to its end (cmd/shinel/main.go), the         *)
(* dashboard it serves (internal/admin/admin.go, ui/index.html) and one    *)
(* who visits it, over restarts with other settings.                       *)
(*                                                                         *)
(* A visitor changes nothing in the program, so one of any kind stands for *)
(* all.  His browser keeps the cookie; his page asks for the statistics    *)
(* once a second and shows the answers in whatever order they come.        *)
(***************************************************************************)
EXTENDS Configuration, StatsStore, Functions

CONSTANTS
  Settings,   \* records: a file, and an environment
  Random,     \* Random[n]: the password the n-th process would generate
  MaskCounts, \* MaskCounts[n]: how many values the n-th request of a process masks
  Visitors,   \* records: on this host or not, the configured passwords one knows,
              \* whether one reads the log
  NoCookie,
  Cleared,    \* what stands on a page in the place of a list of requests
  MaxFlight   \* bound: answers on their way to a page

ASSUME DashboardAssumption ==
  /\ MaskCounts \in Seq(Nat) /\ MaxFlight \in Nat \ {0}
  /\ Random \in Seq(Range(Random)) /\ Range(Random) \cap (Token \union {NoToken}) = {}
  /\ NoCookie \notin Token \union {NoToken} \union Range(Random)
  /\ \A v \in Visitors : v.knows \subseteq Token
  /\ \A s \in Settings :
       /\ "token" \in DOMAIN s.file => s.file.token \in Token \union {NoToken}
       /\ "SHINEL_ADMIN_TOKEN" \in DOMAIN s.env =>
            s.env.SHINEL_ADMIN_TOKEN \in Token \union {NoToken}

VARIABLES
  stage,    \* "down", "loaded", "built", "ready" or "serving"
  run,      \* how many times the program was started
  cfg,      \* its configuration
  admin,    \* the listener of the dashboard: "off", "starting" or "on"
  said,     \* the passwords that stand in the log
  store,    \* the statistics
  visitor,
  cookie,   \* what the browser keeps
  basic,    \* the password in the address the page was opened with, or NoToken
  page,     \* "closed", "gate" (asks for the password) or "app"
  needsAuth, \* the page was refused when it was opened: it has a way to sign out
  timer,    \* the page polls
  flight,   \* answers that are on their way, in the order they were sent
  shown     \* the statistics on the page

process == <<stage, run, cfg, admin, said, store>>
browser == <<cookie, basic, page, needsAuth, timer, flight, shown>>
dashboardVars == <<process, visitor, browser>>

\* The page before it has got an answer.
Blank == [requests |-> 0, masked |-> 0, recent |-> Cleared]

DashboardInit ==
  /\ stage = "down" /\ run = 0 /\ admin = "off" /\ said = {}
  /\ cfg = defaults /\ store = Empty
  /\ visitor \in Visitors
  /\ cookie = NoCookie /\ basic = NoToken /\ page = "closed"
  /\ needsAuth = FALSE /\ timer = FALSE /\ flight = << >> /\ shown = Blank

-----------------------------------------------------------------------------
\* main, up to and with config.Load; what has been edited since the last start
\* counts now.
Start ==
  /\ stage = "down" /\ run < Len(Random)
  /\ \E s \in Settings : Loads(s.file) /\ cfg' = Load(s.file, s.env)
  /\ run' = run + 1 /\ stage' = "loaded" /\ store' = Empty
  /\ UNCHANGED <<admin, said, visitor, browser>>

\* log.Fatalf, a crash or a stop: only the log remains, and perhaps answers that
\* are on their way.
Exit ==
  /\ stage # "down"
  /\ stage' = "down" /\ admin' = "off"
  /\ flight' \in {flight, << >>}
  /\ UNCHANGED <<run, cfg, said, store, visitor, cookie, basic, page, needsAuth, timer, shown>>

Build ==
  /\ stage = "loaded" /\ Buildable(cfg)
  /\ stage' = "built"
  /\ UNCHANGED <<run, cfg, admin, said, store, visitor, browser>>

BindIsLoopback(bind) == bind \in Loopback

\* slog.SetDefault hands what log.Printf writes to the handler, at the level info.
Logged(line) == IF SlogLevel(cfg) \in {"debug", "info"} THEN {line} ELSE {}

EnsureToken ==
  IF cfg.token = NoToken /\ ~BindIsLoopback(cfg.bind) THEN Random[run] ELSE cfg.token

\* The password is settled, and said if it is a new one, before the goroutine that
\* listens for the dashboard begins.
OpenAdmin ==
  /\ stage = "built"
  /\ IF cfg.port > 0
     THEN /\ cfg' = [cfg EXCEPT !.token = EnsureToken]
          /\ said' = said \union (IF EnsureToken # cfg.token THEN Logged(EnsureToken) ELSE {})
          /\ admin' = "starting"
     ELSE UNCHANGED <<cfg, said, admin>>
  /\ stage' = "ready"
  /\ UNCHANGED <<run, store, visitor, browser>>

\* serveAdmin; the dashboard is given up when its address is taken.
ServeAdmin ==
  /\ admin = "starting"
  /\ admin' \in {"on", "off"}
  /\ UNCHANGED <<stage, run, cfg, said, store, visitor, browser>>

ListenAndServe ==
  /\ stage = "ready"
  /\ stage' = "serving"
  /\ UNCHANGED <<run, cfg, admin, said, store, visitor, browser>>

\* A request is forwarded and noted.
Proxied ==
  /\ stage = "serving" /\ store.requests < Len(MaskCounts)
  /\ store' = Record(store, [ of |-> run, path |-> store.requests + 1,
                              masked |-> MaskCounts[store.requests + 1] ])
  /\ UNCHANGED <<stage, run, cfg, admin, said, visitor, browser>>

-----------------------------------------------------------------------------
Reachable == admin = "on" /\ (BindIsLoopback(cfg.bind) => visitor.local)

Knows == visitor.knows \union (IF visitor.readsLog THEN said ELSE {})

\* Mutant of cookieValue: the cookie says only that one has signed in.
cookieConstant(token) == "shinel-admin"

\* A digest with the password as its key.
cookieValue(token) == token

setSession(token) == cookie' = cookieValue(token)

clearSession == cookie' = NoCookie

authorized(c, password) ==
  \/ cfg.token = NoToken
  \/ c = cookieValue(cfg.token)
  \/ password = cfg.token

\* The answer of /api/stats to a page, which ignores a refusal.
loadStats(c, password, before) ==
  IF authorized(c, password) THEN Append(before, Snapshot(store)) ELSE before

\* The page is opened, perhaps with a password in its address, and asks whether
\* it may show itself.  What was on its way to the page before is lost.
Boot ==
  /\ Reachable
  /\ \E pw \in Knows \union {NoToken} :
       /\ basic' = pw
       /\ needsAuth' = ~authorized(cookie, pw)
       /\ page' = IF authorized(cookie, pw) THEN "app" ELSE "gate"
       /\ timer' = authorized(cookie, pw)
       /\ flight' = loadStats(cookie, pw, << >>)
  /\ shown' = Blank
  /\ UNCHANGED <<process, visitor, cookie>>

\* Mutant of showApp: the page asks once.
showAppOnce ==
  /\ page' = "app" /\ timer' = timer
  /\ flight' = loadStats(cookie', basic, flight)

showApp ==
  /\ page' = "app" /\ timer' = TRUE
  /\ flight' = loadStats(cookie', basic, flight)

\* The right password at the gate, or any when none is needed by now.  (A wrong one
\* changes nothing.)
Login ==
  /\ Reachable /\ page = "gate" /\ Len(flight) < MaxFlight
  /\ \/ cfg.token = NoToken /\ UNCHANGED cookie
     \/ cfg.token \in Knows /\ setSession(cfg.token)
  /\ showApp
  /\ UNCHANGED <<process, visitor, basic, needsAuth, shown>>

\* The browser drops the cookie, the page its list (the totals stay behind the gate);
\* answers may still come.
Logout ==
  /\ Reachable /\ page = "app" /\ needsAuth
  /\ clearSession
  /\ page' = "gate" /\ timer' = FALSE
  /\ shown' = [shown EXCEPT !.recent = Cleared]
  /\ UNCHANGED <<process, visitor, basic, needsAuth, flight>>

Poll ==
  /\ Reachable /\ timer /\ Len(flight) < MaxFlight
  /\ flight' = loadStats(cookie, basic, flight)
  /\ UNCHANGED <<process, visitor, cookie, basic, page, needsAuth, timer, shown>>

\* renderStats, of any answer that is on its way.
Render(i) ==
  /\ i \in DOMAIN flight
  /\ shown' = flight[i]
  /\ flight' = SubSeq(flight, 1, i - 1) \o SubSeq(flight, i + 1, Len(flight))
  /\ UNCHANGED <<process, visitor, cookie, basic, page, needsAuth, timer>>

-----------------------------------------------------------------------------
Program ==
  Start \/ Exit \/ Build \/ OpenAdmin \/ ServeAdmin \/ ListenAndServe \/ Proxied

Visit == Boot \/ Login \/ Logout \/ Poll \/ \E i \in 1 .. MaxFlight : Render(i)

DashboardNext == Program \/ Visit

\* The page's timer goes on ticking, and the oldest answer arrives some time.
DashboardSpec ==
  /\ DashboardInit /\ [][DashboardNext]_dashboardVars
  /\ WF_dashboardVars(Poll) /\ WF_dashboardVars(Render(1))

-----------------------------------------------------------------------------
\* How many values the first n requests of a process mask together.
MaskedBy[n \in 0 .. Len(MaskCounts)] ==
  IF n = 0 THEN 0 ELSE MaskedBy[n - 1] + MaskCounts[n]

\* How many of the first n requests of a process have left the ring.
Gone(n) == IF n > Cap THEN n - Cap ELSE 0

\* What the statistics are after n requests of the r-th process: the totals, and
\* which requests the ring holds.
Reference(r, n) ==
  LET event(i) == [of |-> r, path |-> i, masked |-> MaskCounts[i]]
  IN [ requests |-> n,
       masked   |-> MaskedBy[n],
       recent   |-> [i \in 1 .. n - Gone(n) |-> event(Gone(n) + i)] ]

\* TYPE INVARIANT.  A password is generated only where one is needed, and the
\* dashboard listens only in a process that got as far as that.
DashboardTypeOK ==
  /\ stage \in {"down", "loaded", "built", "ready", "serving"}
  /\ run \in 0 .. Len(Random) /\ said \subseteq Range(Random)
  /\ admin \in {"off", "starting", "on"}
  /\ admin # "off" => stage \in {"ready", "serving"} /\ cfg.port > 0
  /\ cfg.token \in Token \union {NoToken} \union Range(Random)
  /\ visitor \in Visitors /\ basic \in Token \union {NoToken} \union Range(Random)
  /\ page \in {"closed", "gate", "app"} /\ {needsAuth, timer} \subseteq BOOLEAN
  /\ timer <=> page = "app"
  /\ Len(flight) <= MaxFlight /\ Len(store.recent) <= Cap

\* SAFETY.  "Snapshot is a consistent copy of counters plus the recent ring": totals
\* and requests on a page are those of one process at one moment, however many
\* requests were noted while the answer was on its way.
PageIsConsistent ==
  shown.recent # Cleared =>
    \E r \in 1 .. run, n \in 0 .. Len(MaskCounts) : shown = Reference(r, n)

\* Who may see the statistics: one who knows the password of this very process, or
\* anybody on this host when it has none.
Entitled == cfg.token \in Knows \/ (cfg.token = NoToken /\ visitor.local)

\* ACTION PROPERTY.  "Sibling containers cannot scrape": statistics are sent only to
\* one who may see them.  A cookie from before a restart is worth what its password
\* is now, and a dashboard that others can reach never goes without a password.
OnlyTheEntitledSee ==
  [][Len(flight') > Len(flight) => Entitled]_dashboardVars

\* SAFETY.  "If SHINEL_ADMIN_TOKEN is unset, the proxy logs a generated one": by the
\* time the dashboard answers, a generated password can be read in the log.  (This
\* depends on the log level: with "warn" or "error" it is not so.)
GeneratedIsAnnounced ==
  admin = "on" /\ cfg.token \in Range(Random) => cfg.token \in said

\* The page is open and the dashboard goes on accepting it.
Watching == Reachable /\ page = "app" /\ authorized(cookie, basic)

\* LIVENESS.  A page that stays open at a dashboard that goes on accepting it shows the
\* latest statistics in the end, also after the visitor has signed out and in, the
\* program was restarted under the same password, or answers have overtaken each other.
PageCatchesUp ==
  (<>[]Watching /\ <>[][~Boot /\ ~Logout]_dashboardVars) => <>[](shown = Snapshot(store))
=============================================================================
