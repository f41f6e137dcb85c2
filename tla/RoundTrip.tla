----------------------------- MODULE RoundTrip ------------------------------
(***************************************************************************)
(* The life of a proxied request (internal/proxy/proxy.go, with Anonymize  *)
(* of internal/analyzer): its body is masked leaf by leaf, the mapping is  *)
(* saved in the vault, the masked body goes upstream, and the reply is     *)
(* restored from the vault on its way back, all at once or while it        *)
(* streams.  Any number of requests do this at the same time, and meet in  *)
(* the vault, where they all use the same token names.                     *)
(*                                                                         *)
(* A text is a sequence of words.  A word is what one detector reports as  *)
(* one value, or stands for any amount of text nothing is found in.  A     *)
(* body is the sequence of the scalars of a JSON document in the order     *)
(* they are walked; a body that is not JSON is a single string.            *)
(***************************************************************************)
EXTENDS TokenOps, Sequences, FiniteSets, Functions

CONSTANTS
  Req,
  Word,
  Sure,        \* what the deterministic detectors find
  Guess,       \* what only the model finds
  KindOf,      \* the kind a found word is reported as
  Password,    \* kindPassword
  Bodies,      \* the bodies requests come with
  Other,       \* what upstream may say besides the tokens it was sent
  MaxReply,    \* how many words a reply has at most (bound)
  Faults,      \* what may go wrong, see below
  Missing

AnyFault == {"read", "model", "save", "forget", "lookup", "dial", "cut", "large", "leave"}

Leaf == [where : {"string", "secret", "number"}, text : Seq(Word \cup Token)]

ASSUME RoundTripAssumption ==
  /\ Sure \cup Guess \subseteq Word /\ Sure \cap Guess = {}
  /\ Word \cap Token = {}
  /\ KindOf \in [Sure \cup Guess -> Kind] /\ Password \in Kind
  /\ Bodies \subseteq Seq(Leaf)
  /\ \A body \in Bodies : \A i \in 1 .. Len(body) :
        /\ body[i].where = "secret" => Len(body[i].text) = 1
        /\ body[i].where = "number" => body[i].text \in Seq(Word)
  /\ Other \subseteq Word \cup Token
  /\ MaxReply \in Nat
  /\ Faults \subseteq AnyFault

VARIABLES
  req,      \* the requests
  saved, held, answer   \* the vault, as LossyStore describes it

roundTripVars == <<req, saved, held, answer>>

Vault == INSTANCE LossyStore WITH Tok <- Token, Val <- Word \cup Token

\* phase: idle, masking, saving, recorded, upstream, responding, closing; done or
\* aborted at the end.  "wire" is what has been masked so far, and the body that
\* goes upstream in the end.  "lost" is history: the tokens the vault failed this
\* request on, by not saving, not keeping or not returning their values.
NewRequest ==
  [ phase |-> "idle", body |-> << >>, wire |-> << >>, sess |-> newSession,
    unsaved |-> {}, records |-> << >>, logs |-> << >>,
    mode |-> "none", reply |-> << >>, source |-> "open", restored |-> << >>,
    status |-> 0, left |-> FALSE, lost |-> {} ]

RoundTripInit ==
  /\ req = [r \in Req |-> NewRequest]
  /\ Vault!StoreInit

VaultUnchanged == UNCHANGED <<saved, held, answer>>

-----------------------------------------------------------------------------
\* The way out.

\* No provider has this prefix: nothing is forwarded.
NotRouted(r) ==
  /\ req[r].phase = "idle"
  /\ req' = [req EXCEPT ![r].phase = "closing", ![r].status = 404]
  /\ VaultUnchanged

Arrive(r, body) ==
  /\ req[r].phase = "idle"
  /\ req' = [req EXCEPT ![r].phase = "masking", ![r].body = body]
  /\ VaultUnchanged

\* The body is too large or cannot be read: an empty one goes out instead.
DropBody(r) ==
  /\ req[r].phase = "masking" /\ req[r].wire = << >>
  /\ "read" \in Faults \/ req[r].left
  /\ req' = [req EXCEPT ![r].phase = "saving"]
  /\ VaultUnchanged

NextLeaf(r) == req[r].body[Len(req[r].wire) + 1]

\* The sweep over a text from left to right: every word found is replaced.
AfterWord(acc, w, found) ==
  IF w \in found
    THEN [ sess |-> AfterTokenFor(acc.sess, KindOf[w], w),
           text |-> Append(acc.text, tokenFor(acc.sess, KindOf[w], w)) ]
    ELSE [ sess |-> acc.sess, text |-> Append(acc.text, w) ]

Masked(sess, text, found) ==
  LET swept[n \in 0 .. Len(text)] ==
        IF n = 0 THEN [sess |-> sess, text |-> << >>]
        ELSE AfterWord(swept[n - 1], text[n], found)
  IN  swept[Len(text)]

\* Put leaf, with this text, on the wire.
Emit(r, text, sess) ==
  req' = [req EXCEPT
    ![r].wire = Append(@, [where |-> NextLeaf(r).where, text |-> text]),
    ![r].sess = sess]

Masking(r, where) ==
  /\ req[r].phase = "masking" /\ Len(req[r].wire) < Len(req[r].body)
  /\ NextLeaf(r).where = where

\* Analyze: the model answers, or the call fails when its time is over; or it
\* fails at once because the client has left.  No call is made for an empty text.
ModelAnswers(r) == ~req[r].left
ModelTimesOut(text) == "model" \in Faults /\ text # << >>
ModelRefuses(r) == req[r].left

\* Mutant of MaskString: without the model the text is left as it is.
MaskStringOnlyWithModel(r) ==
  /\ Masking(r, "string")
  /\ LET text == NextLeaf(r).text
         all == Masked(req[r].sess, text, Sure \cup Guess)
     IN  \/ ModelAnswers(r) /\ Emit(r, all.text, all.sess)
         \/ ModelTimesOut(text) /\ Emit(r, text, req[r].sess)
         \/ ModelRefuses(r) /\ Emit(r, text, req[r].sess)
  /\ VaultUnchanged

\* anonymizeText.  The model is asked about every string, and asked again about
\* the next one when it did not answer in time.
MaskString(r) ==
  /\ Masking(r, "string")
  /\ LET text == NextLeaf(r).text
         all == Masked(req[r].sess, text, Sure \cup Guess)
         sure == Masked(req[r].sess, text, Sure)
     IN  \/ ModelAnswers(r) /\ Emit(r, all.text, all.sess)
         \/ ModelTimesOut(text) /\ Emit(r, sure.text, sure.sess)
         \/ ModelRefuses(r) /\ Emit(r, sure.text, sure.sess)
  /\ VaultUnchanged

\* Mutant of MaskSecret: a session of its own for every leaf.
MaskSecretAlone(r) ==
  /\ Masking(r, "secret")
  /\ LET secret == NextLeaf(r).text[1]
     IN  Emit(r, <<tokenFor(newSession, Password, secret)>>,
              AfterTokenFor(newSession, Password, secret))
  /\ VaultUnchanged

\* A member whose name says that it is a secret: all of its text is one.
MaskSecret(r) ==
  /\ Masking(r, "secret")
  /\ LET secret == NextLeaf(r).text[1]
         sess == req[r].sess
     IN  Emit(r, <<tokenFor(sess, Password, secret)>>,
              AfterTokenFor(sess, Password, secret))
  /\ VaultUnchanged

\* A number, true, false or null stays.
PassScalar(r) ==
  /\ Masking(r, "number")
  /\ Emit(r, NextLeaf(r).text, req[r].sess)
  /\ VaultUnchanged

AllMasked(r) ==
  /\ req[r].phase = "masking" /\ Len(req[r].wire) = Len(req[r].body)
  /\ req' = [req EXCEPT ![r].phase = "saving",
                        ![r].unsaved = DOMAIN req[r].sess.mapping]
  /\ VaultUnchanged

\* Mutant of Save: an entry that cannot be saved is tried again.
SaveUntilDone(r, t) ==
  /\ req[r].phase = "saving" /\ t \in req[r].unsaved
  /\ ~req[r].left /\ Vault!Keep(Vault!key(r, t), req[r].sess.mapping[t])
  /\ req' = [req EXCEPT ![r].unsaved = @ \ {t}]

\* The mapping is saved entry by entry, in the order the map is ranged over,
\* which is any.  An entry that cannot be saved is given up.
Save(r, t) ==
  /\ req[r].phase = "saving" /\ t \in req[r].unsaved
  /\ \/ /\ ~req[r].left /\ Vault!Keep(Vault!key(r, t), req[r].sess.mapping[t])
        /\ req' = [req EXCEPT ![r].unsaved = @ \ {t}]
     \/ /\ "save" \in Faults \/ req[r].left
        /\ req' = [req EXCEPT ![r].unsaved = @ \ {t}, ![r].lost = @ \cup {t}]
        /\ VaultUnchanged

\* Mutant of Record: the deferred function sees an outer, empty mapping.
RecordShadowed(r) ==
  /\ req[r].phase = "saving" /\ req[r].unsaved = {}
  /\ req' = [req EXCEPT ![r].phase = "recorded", ![r].records = Append(@, 0)]
  /\ VaultUnchanged

\* Mutant of Record: the entries are saved in the background.
RecordEarly(r) ==
  /\ req[r].phase = "saving"
  /\ req' = [req EXCEPT ![r].phase = "recorded",
       ![r].records = Append(@, Cardinality(DOMAIN req[r].sess.mapping))]
  /\ VaultUnchanged

\* maskRequest returns: the deferred function counts and records the mapping.
Record(r) ==
  /\ req[r].phase = "saving" /\ req[r].unsaved = {}
  /\ req' = [req EXCEPT ![r].phase = "recorded",
       ![r].records = Append(@, Cardinality(DOMAIN req[r].sess.mapping))]
  /\ VaultUnchanged

Send(r) ==
  /\ req[r].phase = "recorded"
  /\ req' = [req EXCEPT ![r].phase = "upstream"]
  /\ VaultUnchanged

\* ErrorHandler.
BadGateway(r) ==
  /\ req' = [req EXCEPT ![r].phase = "closing", ![r].status = 502]
  /\ VaultUnchanged

\* Upstream cannot be reached, or the client has left.
SendFails(r) ==
  /\ \/ req[r].phase = "recorded" /\ "dial" \in Faults
     \/ req[r].phase \in {"recorded", "upstream"} /\ req[r].left
  /\ BadGateway(r)

\* Upstream breaks off before it answers.
UpstreamFails(r) ==
  /\ req[r].phase = "upstream" /\ "dial" \in Faults
  /\ BadGateway(r)

-----------------------------------------------------------------------------
\* The way back.

\* source: how the reply ended, "eof", "fail" or, one too large to hold, "large";
\* "open" until then.

\* The head of the reply arrives.  That of a stream is passed on at once.
Respond(r, mode) ==
  /\ req[r].phase = "upstream"
  /\ req' = [req EXCEPT ![r].phase = "responding", ![r].mode = mode,
                        ![r].status = IF mode = "stream" THEN 200 ELSE 0]
  /\ VaultUnchanged

TokensSent(r) ==
  (UNION { Range(req[r].wire[i].text) : i \in 1 .. Len(req[r].wire) }) \cap Token

UpstreamSays(r, w) ==
  /\ req[r].phase = "responding" /\ req[r].source = "open"
  /\ Len(req[r].reply) < MaxReply
  /\ w \in TokensSent(r) \cup Other
  /\ req' = [req EXCEPT ![r].reply = Append(@, w)]
  /\ VaultUnchanged

UpstreamEnds(r) ==
  /\ req[r].phase = "responding" /\ req[r].source = "open"
  /\ \/ req' = [req EXCEPT ![r].source = "eof"]
     \/ "cut" \in Faults /\ req' = [req EXCEPT ![r].source = "fail"]
     \/ /\ "large" \in Faults /\ req[r].mode = "buffered"
        /\ req' = [req EXCEPT ![r].source = "large"]
  /\ VaultUnchanged

\* The next word of the reply; of a reply that does not stream, once it is all
\* there.  A token that is not found stays as it is.
Restore(r) ==
  /\ req[r].phase = "responding" /\ Len(req[r].restored) < Len(req[r].reply)
  /\ req[r].mode = "stream" \/ req[r].source = "eof"
  /\ LET w == req[r].reply[Len(req[r].restored) + 1]
         Pass(x, lost) == req' = [req EXCEPT ![r].restored = Append(@, x),
                                             ![r].lost = @ \cup lost]
     IN  \/ w \notin Token /\ VaultUnchanged /\ Pass(w, {})
         \/ /\ w \in Token /\ ~req[r].left
            /\ Vault!Found(r, w) /\ Pass(answer'[r].value, {})
         \/ /\ w \in Token /\ Vault!key(r, w) \notin held
            /\ Vault!NotFound(r, w) /\ Pass(w, {})
         \/ /\ w \in Token /\ ("lookup" \in Faults \/ req[r].left)
            /\ Vault!NotFound(r, w) /\ Pass(w, {w})

\* ModifyResponse reports an error: a reply that does not stream cannot be read
\* to its end, or is too large.
RestoreFails(r) ==
  /\ req[r].phase = "responding" /\ req[r].mode = "buffered"
  /\ req[r].restored = << >>
  /\ req[r].source \in {"fail", "large"} \/ req[r].left
  /\ BadGateway(r)

AllRestored(r) ==
  req[r].phase = "responding" /\ Len(req[r].restored) = Len(req[r].reply)

\* The reply has been copied to its end.
Finish(r) ==
  /\ AllRestored(r) /\ req[r].source = "eof"
  /\ req' = [req EXCEPT ![r].phase = "closing", ![r].status = 200]
  /\ VaultUnchanged

\* Mutant of Abort: copying only stops when upstream does.
AbortOnCutOnly(r) ==
  /\ AllRestored(r) /\ req[r].mode = "stream" /\ req[r].source = "fail"
  /\ req' = [req EXCEPT ![r].phase = "aborted"]
  /\ VaultUnchanged

\* ReverseProxy panics with ErrAbortHandler when it cannot go on copying: the
\* stream broke off, or the client left.
Abort(r) ==
  /\ \/ AllRestored(r) /\ req[r].mode = "stream" /\ req[r].source = "fail"
     \/ req[r].phase = "responding" /\ req[r].left
  /\ req' = [req EXCEPT ![r].phase = "aborted"]
  /\ VaultUnchanged

\* withRequestLog, once the handler has returned.
Log(r) ==
  /\ req[r].phase = "closing"
  /\ req' = [req EXCEPT ![r].phase = "done",
       ![r].logs = Append(@, Cardinality(DOMAIN req[r].sess.mapping))]
  /\ VaultUnchanged

-----------------------------------------------------------------------------
\* The client goes away while its request is under way.
Leave(r) ==
  /\ "leave" \in Faults /\ ~req[r].left
  /\ req[r].phase \notin {"idle", "closing", "done", "aborted"}
  /\ req' = [req EXCEPT ![r].left = TRUE]
  /\ VaultUnchanged

\* The vault forgets a mapping.
Forget(k) ==
  /\ "forget" \in Faults
  /\ Vault!Forget({k})
  /\ req' = [req EXCEPT ![k[1]].lost = @ \cup {k[2]}]

\* What the proxy does by itself ...
Proxy(r) ==
  \/ DropBody(r) \/ MaskString(r) \/ MaskSecret(r) \/ PassScalar(r) \/ AllMasked(r)
  \/ \E t \in DOMAIN req[r].sess.mapping : Save(r, t)
  \/ Record(r) \/ Send(r) \/ SendFails(r)
  \/ Restore(r) \/ RestoreFails(r) \/ Finish(r) \/ Abort(r) \/ Log(r)

\* ... and what the client and upstream do.
World(r) ==
  \/ NotRouted(r) \/ Leave(r)
  \/ \E body \in Bodies : Arrive(r, body)
  \/ \E mode \in {"stream", "buffered"} : Respond(r, mode)
  \/ \E w \in TokensSent(r) \cup Other : UpstreamSays(r, w)
  \/ UpstreamEnds(r) \/ UpstreamFails(r)

RoundTripNext ==
  \/ \E r \in Req : Proxy(r) \/ World(r)
  \/ \E k \in held : Forget(k)

\* A handler that can go on goes on.  Upstream need not answer at all: the proxy
\* sets no time limit on it.
RoundTripSpec ==
  /\ RoundTripInit /\ [][RoundTripNext]_roundTripVars
  /\ \A r \in Req : WF_roundTripVars(Proxy(r))

-----------------------------------------------------------------------------
\* TYPE INVARIANT.  The stages of a request's texts, their lengths, and that it
\* is recorded and logged once at the most; the vault holds what was saved.
RoundTripTypeOK ==
  /\ held \subseteq DOMAIN saved /\ DOMAIN saved \subseteq Req \X Token
  /\ \A r \in Req :
       /\ req[r].phase \in {"idle", "masking", "saving", "recorded", "upstream",
                             "responding", "closing", "done", "aborted"}
       /\ req[r].mode \in {"none", "stream", "buffered"}
       /\ req[r].source \in {"open", "eof", "fail", "large"}
       /\ req[r].status \in {0, 200, 404, 502} /\ req[r].left \in BOOLEAN
       /\ Len(req[r].wire) <= Len(req[r].body)
       /\ DOMAIN req[r].sess.mapping \subseteq Token
       /\ req[r].unsaved \subseteq DOMAIN req[r].sess.mapping /\ req[r].lost \subseteq Token
       /\ Len(req[r].restored) <= Len(req[r].reply) /\ Len(req[r].reply) <= MaxReply
       /\ Len(req[r].records) <= 1 /\ Len(req[r].logs) <= 1

\* SAFETY.  What the deterministic detectors find never goes upstream, whatever
\* fails: a body is masked as a whole or dropped as a whole, no string in it
\* holds such a word, and a secret is a token ("the body that goes upstream is
\* never less masked than what we managed to produce").
NothingSureLeaves ==
  \A r \in Req :
    req[r].phase \in {"recorded", "upstream", "responding", "done", "aborted"} =>
      /\ req[r].wire = << >> \/ Len(req[r].wire) = Len(req[r].body)
      /\ \A i \in 1 .. Len(req[r].wire) :
            CASE req[r].wire[i].where = "number" -> req[r].wire[i] = req[r].body[i]
              [] req[r].wire[i].where = "secret" -> Range(req[r].wire[i].text) \subseteq Token
              [] OTHER -> Range(req[r].wire[i].text) \cap Sure = {}

Unmask(mapping, text) ==
  [i \in 1 .. Len(text) |->
     IF text[i] \in DOMAIN mapping THEN mapping[text[i]] ELSE text[i]]

\* SAFETY.  Masking can be undone: putting the values back into what goes
\* upstream gives the body that came in, across all its leaves ("substitutes
\* real values back in, which must reproduce the input").  Only where the client
\* had written a token itself may a value appear instead.
MaskingIsReversible ==
  \A r \in Req : \A i \in 1 .. Len(req[r].wire) :
    /\ Len(req[r].wire[i].text) = Len(req[r].body[i].text)
    /\ \A j \in 1 .. Len(req[r].body[i].text) :
         req[r].body[i].text[j] \in Token
         \/ Unmask(req[r].sess.mapping, req[r].wire[i].text)[j] = req[r].body[i].text[j]

\* SAFETY.  A reply never shows a client anything but what upstream said and what
\* it sent itself: no token is restored to a value of another request.
OwnValuesOnly ==
  \A r \in Req : \A i \in 1 .. Len(req[r].restored) :
    req[r].restored[i] \in {req[r].reply[i], Unmask(req[r].sess.mapping, req[r].reply)[i]}

\* SAFETY.  Every token of the request that upstream sends back is restored, from
\* the first one on, unless the vault failed on that very token: the whole mapping
\* is in the vault before upstream can know a token of it.
EchoIsRestored ==
  \A r \in Req : \A i \in 1 .. Len(req[r].restored) :
    req[r].reply[i] \in req[r].lost
    \/ req[r].restored[i] = Unmask(req[r].sess.mapping, req[r].reply)[i]

\* The tokens that stand for something the client sent: one it wrote into a string
\* itself does not.
TokensPut(r) ==
  (UNION { { req[r].wire[i].text[j] : j \in { k \in 1 .. Len(req[r].wire[i].text) :
              req[r].wire[i].where = "secret" \/ req[r].body[i].text[k] \notin Token } } :
          i \in 1 .. Len(req[r].wire) }) \cap Token

\* SAFETY.  A request that is forwarded has been recorded exactly once before, and
\* the count in the statistics and in the log is the number of different tokens
\* that were put in the place of something.
CountedAsSent ==
  \A r \in Req :
    /\ req[r].phase \in {"recorded", "upstream", "responding", "aborted"}
         => req[r].records = <<Cardinality(TokensPut(r))>>
    /\ req[r].logs # << >> => req[r].logs = <<Cardinality(TokensPut(r))>>

\* LIVENESS.  Neither the model nor the vault can hold a request up: it is sent,
\* or answered with an error.
ReachesUpstream ==
  \A r \in Req : req[r].phase = "masking" ~>
    req[r].phase \in {"upstream", "responding", "closing", "done", "aborted"}

\* LIVENESS.  Once upstream has ended its reply, or the client has left, the
\* request comes to its end.
Concludes ==
  \A r \in Req : req[r].source # "open" \/ req[r].left ~>
    req[r].phase \in {"done", "aborted"}
=============================================================================
