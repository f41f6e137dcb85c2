------------------------------ MODULE LogStream ------------------------------
(***************************************************************************)
(* The dashboard's live log: LogSink (internal/admin/logs.go), a ring of   *)
(* recent lines with subscribers, and streamLogs (admin.go), which gives a *)
(* watcher the ring and then follows the log.                              *)
(*                                                                         *)
(* Lines are numbered as they are written; empty lines change nothing and  *)
(* are left out.  The sink's mutex makes Write, Snapshot, and either half  *)
(* of Subscribe one step each, but the snapshot, the subscription, the end *)
(* of the subscription and the closing of its channel are separate steps:  *)
(* the log goes on in between.  A watcher whose connection is gone stays   *)
(* subscribed until its handler notices, and may watch anew after that.    *)
(***************************************************************************)
EXTENDS Naturals, Sequences

CONSTANTS
  Watcher,   \* who may look at the log
  Cap,       \* s.cap: lines the ring keeps
  Buffer,    \* lines a subscriber's channel holds
  MaxLines   \* lines written in a behaviour (bound)

ASSUME LogAssumption ==
  Cap \in Nat \ {0} /\ Buffer \in Nat \ {0} /\ MaxLines \in Nat

VARIABLES
  written,    \* how many lines have been written
  lines,      \* s.lines
  subs,       \* the watchers whose channels are in s.subs
  channel,    \* what a watcher's channel holds
  closed,     \* the watchers whose channel has been closed
  handler,    \* a watcher's handler: "none", "greeting", "live", "leaving"
  connected,  \* the watchers whose connection stands
  shown,      \* the lines on a watcher's page
  from,       \* history: lines written before [snapshot, subscription]
  dropped,    \* history: lines written while a watcher's channel was full
  panicked    \* a line was sent on a closed channel

logVars == <<written, lines, subs, channel, closed, handler, connected, shown,
             from, dropped, panicked>>

LogInit ==
  /\ written = 0 /\ lines = << >>
  /\ subs = {} /\ closed = {} /\ connected = {}
  /\ channel = [w \in Watcher |-> << >>] /\ shown = [w \in Watcher |-> << >>]
  /\ handler = [w \in Watcher |-> "none"]
  /\ from = [w \in Watcher |-> [snapshot |-> 0, subscription |-> 0]]
  /\ dropped = [w \in Watcher |-> {}]
  /\ panicked = FALSE

\* Mutant of Offered: a full channel loses its oldest line.
OfferedAnew(ch, line) ==
  IF Len(ch) < Buffer THEN Append(ch, line) ELSE Append(Tail(ch), line)

\* A channel that holds a line more, unless it is full.
Offered(ch, line) == IF Len(ch) < Buffer THEN Append(ch, line) ELSE ch

\* The ring with a line more.
Remembered(ring, line) ==
  IF Len(ring) = Cap THEN Append(Tail(ring), line) ELSE Append(ring, line)

\* The history, computed from the channels as they are found and not from what
\* becomes of the line.
NoteFull ==
  dropped' = [w \in Watcher |->
    IF w \in subs /\ Len(channel[w]) = Buffer THEN dropped[w] \union {written'}
    ELSE dropped[w]]

\* Mutant of Write: a subscriber for whom a line was dropped is given up.
WriteToTheQuick ==
  /\ written < MaxLines /\ ~panicked
  /\ written' = written + 1
  /\ lines' = Remembered(lines, written')
  /\ channel' = [w \in Watcher |->
       IF w \in subs /\ dropped[w] = {} THEN Offered(channel[w], written') ELSE channel[w]]
  /\ panicked' = (subs \cap closed # {})
  /\ NoteFull
  /\ UNCHANGED <<subs, closed, handler, connected, shown, from>>

\* Write: into the ring, and to every subscriber that has room.  (Sending on a
\* closed channel panics, whether there is room or not.)
Write ==
  /\ written < MaxLines /\ ~panicked
  /\ written' = written + 1
  /\ lines' = Remembered(lines, written')
  /\ channel' = [w \in Watcher |->
       IF w \in subs THEN Offered(channel[w], written') ELSE channel[w]]
  /\ panicked' = (subs \cap closed # {})
  /\ NoteFull
  /\ UNCHANGED <<subs, closed, handler, connected, shown, from>>

-----------------------------------------------------------------------------
\* Mutant of Snapshot: the subscription comes first, the ring in a second step.
SubscribeBeforeSnapshot(w) ==
  /\ handler[w] = "none" /\ w \notin connected
  /\ IF w \in subs
       THEN /\ connected' = connected \union {w}
            /\ shown' = [shown EXCEPT ![w] = lines]
            /\ handler' = [handler EXCEPT ![w] = "live"]
            /\ from' = [from EXCEPT ![w].snapshot = written]
            /\ UNCHANGED <<subs, closed>>
       ELSE /\ subs' = subs \union {w} /\ closed' = closed \ {w}
            /\ from' = [from EXCEPT ![w].subscription = written]
            /\ UNCHANGED <<connected, shown, handler>>
  /\ UNCHANGED <<written, lines, channel, dropped, panicked>>

\* streamLogs begins: the page is cleared and gets the ring.
Snapshot(w) ==
  /\ handler[w] = "none" /\ w \notin connected
  /\ connected' = connected \union {w}
  /\ shown' = [shown EXCEPT ![w] = lines]
  /\ handler' = [handler EXCEPT ![w] = "greeting"]
  /\ from' = [from EXCEPT ![w].snapshot = written]
  /\ UNCHANGED <<written, lines, subs, channel, closed, dropped, panicked>>

\* When the ring has been sent, a new channel joins the subscribers.
Subscribe(w) ==
  /\ handler[w] = "greeting"
  /\ subs' = subs \union {w}
  /\ closed' = closed \ {w}
  /\ channel' = [channel EXCEPT ![w] = << >>]
  /\ handler' = [handler EXCEPT ![w] = "live"]
  /\ from' = [from EXCEPT ![w].subscription = written]
  /\ dropped' = [dropped EXCEPT ![w] = {}]
  /\ UNCHANGED <<written, lines, connected, shown, panicked>>

\* The loop's second case: a line from the channel goes to the page, if the page
\* is still there.
Follow(w) ==
  /\ handler[w] = "live" /\ channel[w] # << >>
  /\ channel' = [channel EXCEPT ![w] = Tail(@)]
  /\ shown' = IF w \in connected
                THEN [shown EXCEPT ![w] = Append(@, Head(channel[w]))]
                ELSE shown
  /\ UNCHANGED <<written, lines, subs, closed, handler, connected, from, dropped, panicked>>

\* Mutants of Unsubscribe: the channel is closed before it is taken out, and the
\* subscription is not cancelled.
UnsubscribeClosed(w) ==
  /\ handler[w] = "live" /\ w \notin connected
  /\ IF w \in closed
       THEN subs' = subs \ {w} /\ handler' = [handler EXCEPT ![w] = "leaving"] /\ UNCHANGED closed
       ELSE closed' = closed \union {w} /\ UNCHANGED <<subs, handler>>
  /\ UNCHANGED <<written, lines, channel, connected, shown, from, dropped, panicked>>

UnsubscribeNever(w) ==
  /\ handler[w] = "live" /\ w \notin connected
  /\ handler' = [handler EXCEPT ![w] = "none"]
  /\ UNCHANGED <<written, lines, subs, channel, closed, connected, shown, from, dropped, panicked>>

\* The loop's first case, ctx.Done: the deferred cancel takes the channel out of
\* the subscribers, under the lock ...
Unsubscribe(w) ==
  /\ handler[w] = "live" /\ w \notin connected
  /\ subs' = subs \ {w}
  /\ handler' = [handler EXCEPT ![w] = "leaving"]
  /\ UNCHANGED <<written, lines, channel, closed, connected, shown, from, dropped, panicked>>

\* ... and then closes it.
CloseChannel(w) ==
  /\ handler[w] = "leaving"
  /\ closed' = closed \union {w}
  /\ channel' = [channel EXCEPT ![w] = << >>]
  /\ handler' = [handler EXCEPT ![w] = "none"]
  /\ UNCHANGED <<written, lines, subs, connected, shown, from, dropped, panicked>>

\* The watcher closes the page or loses the connection.
Disconnect(w) ==
  /\ w \in connected
  /\ connected' = connected \ {w}
  /\ UNCHANGED <<written, lines, subs, channel, closed, handler, shown, from, dropped, panicked>>

StreamLogs(w) == Subscribe(w) \/ Follow(w) \/ Unsubscribe(w) \/ CloseChannel(w)

LogNext == Write \/ \E w \in Watcher : Snapshot(w) \/ StreamLogs(w) \/ Disconnect(w)

\* A handler goes on; a page that does not read is a connection that will break.
\* When the connection is gone while lines keep coming, select takes either case at
\* random, so each has its own fairness.
LogSpec ==
  /\ LogInit /\ [][LogNext]_logVars
  /\ \A w \in Watcher :
       /\ WF_logVars(Subscribe(w)) /\ WF_logVars(Follow(w))
       /\ WF_logVars(Unsubscribe(w)) /\ WF_logVars(CloseChannel(w))

-----------------------------------------------------------------------------
LineNo == 1 .. MaxLines

\* TYPE INVARIANT.  Ring and channels keep within their limits.
LogTypeOK ==
  /\ written \in 0 .. MaxLines
  /\ lines \in Seq(LineNo) /\ Len(lines) <= Cap
  /\ subs \subseteq Watcher /\ closed \subseteq Watcher /\ connected \subseteq Watcher
  /\ channel \in [Watcher -> Seq(LineNo)]
  /\ \A w \in Watcher : Len(channel[w]) <= Buffer
  /\ shown \in [Watcher -> Seq(LineNo)]
  /\ handler \in [Watcher -> {"none", "greeting", "live", "leaving"}]
  /\ from \in [Watcher -> [snapshot : 0 .. MaxLines, subscription : 0 .. MaxLines]]
  /\ dropped \in [Watcher -> SUBSET LineNo]
  /\ panicked \in BOOLEAN

\* What a watcher has got or is about to get.
Got(w) == IF w \in subs THEN shown[w] \o channel[w] ELSE shown[w]

Lines(s) == { s[i] : i \in DOMAIN s }

\* SAFETY.  A page shows the lines in the order they were written, and none twice:
\* what is in the snapshot does not come again live.
InOrderAndOnce ==
  \A w \in Watcher : w \in connected =>
     \A i, j \in DOMAIN Got(w) : i < j => Got(w)[i] < Got(w)[j]

\* SAFETY.  What a page may miss.  A line of the last Cap before its snapshot is on
\* it.  Of the lines after the subscription those written while the channel was full
\* are missed, and only those: each of the others is on the page or on its way, also
\* when lines before it were missed.  (Nothing is said of lines that fall between the
\* snapshot and the subscription: they are missed.)
MissesOnlyWhenFull ==
  \A w \in connected :
     /\ \A k \in 1 .. from[w].snapshot :
           k + Cap > from[w].snapshot => k \in Lines(shown[w])
     /\ handler[w] = "live" =>
          \A k \in from[w].subscription + 1 .. written :
             k \in Lines(Got(w)) <=> k \notin dropped[w]

\* SAFETY.  No line is ever sent on a closed channel, which would take the process,
\* and every proxied request with it, down.
NeverSendsOnClosed == ~panicked

\* LIVENESS.  A line that is in a watcher's channel reaches its page, unless the
\* connection is gone.
FollowsTheLog ==
  \A w \in Watcher, k \in LineNo :
     (w \in subs /\ k \in Lines(channel[w])) ~> (k \in Lines(shown[w]) \/ w \notin connected)

\* LIVENESS.  The sink forgets a watcher whose connection is gone; it does not keep
\* its channel for good.
LeaversAreForgotten ==
  \A w \in Watcher : w \notin connected ~> w \notin subs
=============================================================================
