# Shinel, specified

Shinel is a reverse proxy that masks sensitive values in the requests to an LLM
provider and puts them back into the replies. These TLA+ modules model the parts
of it in which order, interleaving and failure matter, check them with TLC on
small instances, and prove the most important properties for every instance.

Line numbers below refer to the files of the repository (`internal/...`).

## The system

| part | state it keeps | operations |
|---|---|---|
| **Response writer** `proxy/streaming.go` | the token candidate held back, a sticky write error | `Write`, `release`, `resolve`, `Close` (and `Header`, `WriteHeader`, `Flush`) |
| **Streaming body** `proxy/demask.go` | an in-memory sink, `drain`, `readErr` | `Read`, `Close`; `demask` for a reply in one piece |
| **Anonymize session** `analyzer/analyzer.go` | token -> value, value -> token, a counter per kind; for one call | `tokenFor`, `anonymizeText`, `walkJSON` |
| **Detectors** `analyzer/*.go` | none | regular expressions, dictionary, Luhn, the model's answers; conflict resolution |
| **Vault** `vault/*.go` | (request, token) -> value, with a lifetime of 5 minutes | `SaveMapping`, `GetMapping`; in memory or in Redis |
| **Round trip** `proxy/proxy.go` | per request: id, masked count, status | route, `maskRequest`, upstream call, `restoreResponse`, request log |
| **Statistics** `stats/stats.go` | a ring of events, totals | `Record`, `Snapshot` |
| **Log stream** `admin/logs.go` | a ring of log lines, subscribers | `Write`, snapshot and subscribe |
| **Dashboard** `admin/admin.go`, `ui/index.html` | none but the password; the page: cookie, timer, what it shows | login, logout, statistics, configuration, log |
| **ML sidecar** `ml_engine/main.py` | a queue of jobs with futures, one worker | `predict`, batch, flush |
| **Configuration, entry** `config`, `cmd/shinel` | the settings, fixed at the start | load, overlay, wire up, serve |

How they interact. A request handler runs in a goroutine of its own. It masks
the body leaf by leaf, calling the sidecar over HTTP for every string (with a
timeout each); it saves the mapping of the session in the vault, entry by entry;
it calls the recorder; `httputil.ReverseProxy` sends the body. The reply is
given a `demaskReader` when it is an event stream and is restored in one go
otherwise; in either case a response writer finds the tokens and looks them up
in the vault under this request's id. Handlers share the vault, the statistics,
the log and the sidecar, and nothing else. `main` loads the settings, builds the parts,
settles the dashboard's password and starts a goroutine that serves the dashboard beside
the proxy; a page of it polls the statistics and follows the log.

What is hard about it: text is cut into chunks anywhere, an error may come with
the last bytes, a vault forgets and fails, a model does not answer, a client
leaves at any moment, ReverseProxy panics on purpose, and every request uses the
same token names at the same time. `PROJECT.json` lists these hazards with the
line where each bites and the properties that would catch it.

What makes the parts correct:

- *writer*: no byte is lost, doubled or overtaken, whatever the chunks; exactly the
  tokens of the text are looked up; bytes are held back only while they may become
  a token.
- *streaming body*: it never waits for upstream with data in hand; the end is
  reported after the last byte and as it was.
- *session*: different values never share a token, a value has one token, tokens
  never change their meaning.
- *vault*: a request gets what it saved or nothing; what is used stays; what is over is
  forgotten.
- *round trip*: what the deterministic detectors find does not leave unmasked,
  whatever fails; a reply shows only values of its own request; what is counted is
  what was sent; every request ends.
- *masking a text*: what the detectors are sure of is never displaced by a guess; masked
  stretches do not overlap; no trusted value leaves as a whole; a whole word of the
  dictionary is found whatever its case, and nothing else is.
- *log stream*: a page shows lines in order and once; only a slow watcher misses lines;
  the log never waits for, or breaks on, one who watches.
- *dashboard*: statistics are sent to one who knows the password of the running process, or
  who is on its host when it needs none; a new password is made known; what a page shows
  belongs to one moment, and is the latest in the end.
- *sidecar*: every call gets its own answer, or an error of its own group, in turn.

## The modules

| module | models | extends / uses |
|---|---|---|
| `TokenGrammar` | `classify`: the shape `[KIND_N]` | |
| `DemaskWriter` | `StreamingResponseWriter` | `TokenGrammar` |
| `RestoredStream` | abstract: what the client of a stream is promised | |
| `DemaskReader` | `demaskReader`, upstream, the copying caller | `DemaskWriter`; implements `RestoredStream` |
| `GoMaps` | a Go map as a function | |
| `TokenOps` | `session`, `tokenFor` | `GoMaps` |
| `TokenSession` | one Anonymize call | `TokenOps` |
| `Dictionary` | `collectCustom`: case folding, byte offsets, whole words | |
| `AnonymizeText` | `anonymizeText`: `collect`, `contextSpans`, `collectML`, `resolveConflicts`, `sortSpans`, the sweep | `TokenSession`, `Dictionary` |
| `LossyStore` | abstract: what the proxy may expect of a vault | `GoMaps` |
| `Vault` | both vault backends, with time | implements `LossyStore` |
| `RoundTrip` | a request from its arrival to its log line | `TokenOps`, `LossyStore` |
| `LogStream` | `LogSink` and `streamLogs` | |
| `InferenceEngine` | the sidecar's queue and worker | |
| `Configuration` | `config.Load`, log levels, what keeps the program from starting | `GoMaps` |
| `StatsStore` | `stats.Store` | |
| `Dashboard` | `main`, `serveAdmin`, the dashboard's handlers and page, a visitor | `Configuration`, `StatsStore` |
| `DemaskProofs`, `AnonymizeProofs`, `VaultProofs`, `RoundTripProofs`, `LogStreamProofs`, `InferenceEngineProofs`, `DashboardProofs` | theorems | the module they are about |
| `LeastNumber` | lemmas: a least element, induction over a set of numbers, and that recursive functions exist | |
| `MC_...` | constants and texts for TLC | |

Definitions whose comment begins with "Mutant of" are variants with a typical mistake in
them. No specification uses them: they serve to test the properties, each of
which fails when its mutant takes the place of the original.

### Response writer

A byte is its class, the six classes `classify` distinguishes. `Write(n)` hands over the
next `n` bytes and each byte is a step (`PassByte`, `OpenCandidate`, `Resolve`,
`Release`, `Grow`), because a complete token costs a vault lookup in the middle
of the loop; `Deliver` and `DeliverFails` are the write at the end of the chunk.
Output is recorded as segments: which bytes of the input, and whether they were
copied, replaced or looked up in vain. So `NothingLost` can speak of every byte
and `EveryTokenLookedUp` of every stretch of the input. What is spliced in (the JSON
escape of the value) is not modelled. `Flush` and the header methods do not touch this
state.

### Streaming body

`DemaskReader` runs the writer inside `Read`: `Pull` is `d.src.Read`, which may
return bytes, an error, or both; `PushByte` and `PushEnd` are `d.w.Write`;
`FinishPull` is the rest of the loop body; `ReturnData` and `ReturnEnd` are the
returns. `bufferSink` never fails, so the writer's error stays unset (part of
`ReaderTypeOK`). The caller is `ReverseProxy`, which reads until it is told of an
end, or stops. `RestoredStream` knows only how much has arrived, how much has been
passed on, and the two ends.

### Session

`AfterTokenFor` and `tokenFor` are the two results of `tokenFor`. `TokenSession`
applies them in any order, to any value under any kind, which is more than the
detectors do. The same operators mask the bodies in `RoundTrip`.

### Vault

`SaveMapping` and the lookups act on `items`, a map to a value and the ticks it has
left. The in-memory `GetMapping` is two steps, `MemoryGet` and `MemorySet`, with
time and other requests in between; Redis is one step that may lose its reply.
`Over` is the end of a request's context (its client left, or its handler
returned). `saved` and `idle` are history variables. A call that fails without having been
carried out changes nothing and is no step. In the refinement, a mapping
that is about to be set again counts as known even if it expires in between.

### Round trip

A request is a record with its phase, texts and counters; the actions follow
`maskRequest` and `restoreResponse`. A text is a sequence of words: a word is a value that
a detector finds (`Sure`: regular expressions and dictionary, `Guess`: the
model only) or any text nothing is found in. A body is the sequence of its JSON
scalars as `walkJSON` visits them: strings, members with the name of a secret,
and the rest, which stays. (Member names are never masked by the code, and are
not part of a body here.) `Faults` says what may go wrong:

| fault | code |
|---|---|
| `read` | the body is too large or cannot be read: an empty one goes out (proxy.go 243-261) |
| `model` | the sidecar does not answer (conflict.go 73-80) |
| `save`, `lookup`, `forget` | vault errors and expiry |
| `dial` | upstream cannot be reached or breaks off before answering: 502 |
| `cut` | upstream breaks off inside its reply: 502, or a panic when it streams |
| `large` | a reply that does not stream is too large: 502 |
| `leave` | the client goes away: saves, lookups and calls fail from then on |

Upstream may say tokens it was never sent, and a client may write one into its own text. A
value is then given the same token, since `tokenFor` does not look at the text, and the restored
reply has the value in both places: `MaskingIsReversible` leaves out the places where the
client wrote a token, and `CountedAsSent` counts the tokens that stand for something.

The chunks of a stream are not repeated here; a reply is restored word by word.
`ReverseProxy` is modelled from how it is used: it panics with
`http.ErrAbortHandler` when copying a reply fails (`Abort`), which skips the code
after `next.ServeHTTP`.

### Masking a text

`Dictionary` is the search for custom words. A text is a sequence of characters; a
character has a width in bytes and a lower case, whose width may differ (the Kelvin sign,
three bytes, becomes `k`). `foldForMatch` gives the folded text byte by byte and, for each,
the offset it comes from; `occurrences` goes on where the last match ended, bounded or not.
The Aho-Corasick automaton only says which words occur at all, and is left out.

`AnonymizeText` is the masking of one text. What the regular expressions match and what the model
answers is any of a given set; `contextSpans` and `Usable` decide which captures behind
"password" and which entities become spans, as the code does: punctuation, prose, place, label and
text. The operators carry the names of the functions.
`ByStart` is the set of orders an unstable sort may produce; `overlaps` is the index
with its binary search, and `GuessesGiveWay` compares it with the plain definition.
`CustomAreWords` and `WordsAreMasked` compare the search for words with a definition on
characters that knows neither bytes nor offsets.
`Mask` and `Skip` are the two ways through the loop body of the sweep; `Mask` contains the
step of `TokenSession` (`Replace`), so a behaviour of `AnonymizeText` is one of
`TokenSession` with stuttering, and what is proved there holds here (`MaskingATextIsASession`).

The sweep drops a span that begins in the last masked one also when it ends behind
it: with the dictionary words "north sea" and "sea route", "north sea route" keeps
its last word. What holds is `EverySureIsMet`: where something trusted begins,
something trusted is masked. And a search that goes on behind a rejected match skips
a place that overlaps it: the word "k-k" is not found in "kk-k-k". `WordsAreMasked` leaves out
exactly the places that overlap another place of the same word.

### Log stream

Lines are numbers. Everything under the sink's mutex is one step; the snapshot, the
subscription, its end and the closing of the channel are steps of their own, with the log
going on in between. A page keeps what it has got when its connection breaks and is
cleared when it connects anew. Lines between a snapshot and the subscription
behind it are missed: that is what the code does, nothing in the repository says
otherwise, and `MissesOnlyWhenFull` leaves exactly these lines out. For the lines after the
subscription two history variables say what is due: `from`, how many lines had been written then,
and `dropped`, the lines that were written while the watcher's channel was full. `dropped` is noted from
the channel as `Write` finds it and not from what `Offered` does with the line, so a sink that
gives up a watcher after its first loss, or drops a line although there is room, breaks the property.

### Sidecar

A handler of `analyze` needs a thread whatever it has to do (`MayRun`): with nothing to look for
it returns (`ReturnEmpty`), else `Predict` is `predict` up to its wait on the future; `Get`, `Join` and `Close` are `_run`;
`Answer` and `Fail` are `_flush` for one group; a group is the set of the places in the
batch that have the settings of the first place still to be asked about. The window may close at any time, for
its length is a matter of the clock. What a client does that no longer waits has no
effect here: its job is computed all the same, and its handler's thread is taken until
then. The pool of threads is the web server's.

### Dashboard

`Dashboard` follows the program from its start to its end, several times. `Start` reads the
settings (so whatever was edited meanwhile counts), `Build` stands for `vault.New` and `proxy.New`,
`OpenAdmin` settles the password before the goroutine begins that `ServeAdmin` models;
`ListenAndServe` and `ServeAdmin` come in any order. `Exit` is every end: `log.Fatalf`, a port
that is taken, a crash. Where a step is not possible (`Loads`, `Buildable`), only `Exit` is, or the
program is not started at all. `Logged` is what becomes of a line of `log.Printf`: the call of
`slog.SetDefault` makes the handler with the configured level its output, and it counts as
"info" there (log/slog).

A visitor changes nothing in the program, so a behaviour has one visitor, of any kind: on
this host or another, knowing a configured password or not, reading the log or not. His
page is `ui/index.html`: `Boot`, `Login` and `Logout` are its handlers (each request with
the code behind its answer is one step), `Poll` the timer, `Render` an answer that
arrives, in any order. A refused poll is ignored and an answer may come after the visitor has
signed out: that fills the page again, behind the gate; no property speaks of it.

## The runs

| run | instance | shows |
|---|---|---|
| `writer` | cap 5; all concatenations of three of eight fragments; any chunks | type invariant, `NothingLost`, `EveryTokenLookedUp`, `HeldBackIsCandidate` |
| `reader` | cap 5; two of seven fragments | `EndIsTrue`, `NothingWaitsBehindUpstream`, refinement of `RestoredStream` |
| `anonymize` | 4 characters of 6 bytes with repeated values, up to 2 matches, or 3 in order, and 2 entities, also invalid ones; every text of up to 6 characters with three dictionary words; every capture behind "password" in a text of 4 | guesses give way, the sweep's results; whole words are found; one-to-one, restorable, tokens are for good |
| `vault` | 2 requests, 2 tokens, 2 values, lifetime of 2 ticks, 2 mappings saved in all; both backends | `AnswersAreOwn`, `UsedStaysAlive`, `ForgottenInTheEnd`, refinement of `LossyStore` |
| `pair` | 2 requests, replies of 1 word, vault faults | `EchoIsRestored`, `OwnValuesOnly` |
| `log_stream` | 2 watchers, ring and channels of 2 lines, 4 lines written | order, exactly the due losses, no send on a closed channel, delivery, leaving |
| `sidecar` | 6 calls under 3 settings, batches of 3, 4 threads | own answers, contained failures, no overtaking, every call answered |
| `dashboard` | 2 starts, each with one of 6 settings that work and 4 that do not; 8 kinds of visitors; 3 requests, a ring of 2, 2 answers under way | `OnlyTheEntitledSee`, `GeneratedIsAnnounced`, `PageIsConsistent`, `PageCatchesUp` |
| `faults` | 1 request, bodies of up to 4 scalars, replies of 2 words, all faults | `NothingSureLeaves`, `MaskingIsReversible`, `CountedAsSent`, `ReachesUpstream`, `Concludes` |

The bounds. A cap of 5 is the length of the shortest token, so the fragments hold tokens
at the cap and one above it; three fragments are enough for a dead candidate, a
token and what follows it to be neighbours. The proofs remove these bounds. A value
that occurs three times, under three kinds and inside longer values, is what a session can
get wrong. With two ticks a mapping can be
used, left alone, and expire between the two steps of a lookup; two mappings are
two tokens of one request or one token of two requests. `RoundTrip` interacts
between requests only in the vault, so two requests that use one token for
different values are the interesting case, and the faults can be examined on
one request. `Restart` is bounded to one per
behaviour. Two spans that overlap in every way, with two guesses around them, are what the
sweep can get wrong. The furthest end in the index matters only with three trusted spans: the
first hides the second from the sweep, the third is the last to begin before the guess. A character of three bytes
whose lower case has one tells positions from offsets, and places in the folded text from places in
the text; six characters hold two places of a word that overlap, with a neighbour. Two starts
are a restart with the same, another, a new or no password; three requests move a ring of two; two answers can
overtake each other. Four lines fill a channel of two, overflow it and reach it again after it was
read. Six calls make a batch of two groups of which one has two jobs, with others
left in the queue and one waiting for a thread.
`CHECK_DEADLOCK FALSE` is set everywhere: texts, replies and requests end.

Fairness. `DemaskReader`: the caller keeps reading and the reader keeps going
(ReverseProxy's copy loop); upstream is not fair. `RestoredStream`: what is overdue is
passed on. `Vault`: time passes, and a `Set` that follows a `Get` is carried out.
`RoundTrip`: a handler that can go on does; every call it makes has a time limit of
its own or ends with its client, except that upstream may take forever
to answer, for which there is no fairness. `LogStream`: a handler goes on (a page that does
not read counts as a connection that will break), and `select` does not always
prefer the same case. `InferenceEngine`: the worker thread runs, the model returns or
raises, and a free thread takes up a waiting call. `Dashboard`: a page's timer goes on, and the oldest
answer under way arrives some time; neither the program nor the visitor has to do anything.

### Where code and documentation differ

Each of these runs checks one sentence of the documentation and finds it
violated.

- `split_events`: "Tokens are unmasked on the fly without breaking the streaming
  experience" (README.md:17). A provider puts each piece of its text in an event of its
  own. When a token is spread over two of them, the bytes between the pieces end
  the candidate and the client gets the token. (`proxy_test.go:173` cuts a token
  between writes, inside one event.)
- `vault_idle`: a lookup refreshes the mapping "so a long streaming response cannot
  outlive the values it still needs to restore" (vault.go:24). It refreshes one
  token; the others of the same request expire while the stream goes on.
- `quiet_password`: "If `SHINEL_ADMIN_TOKEN` is unset, the proxy logs a generated one" (README.md:102).
  The line is written with `log.Printf` after `slog.SetDefault`, so with `log_level: warn`
  or `error` the handler drops it: the dashboard has a password nobody knows. (The reason
  of a failed start, `log.Fatalf`, is lost the same way.) Under the other levels, and
  unknown ones, the run `dashboard` finds the sentence true.

Others were met while modelling and have no run of their own. "A wedged sidecar delays a request by at most
that long" (mlclient.go:34), one timeout: it is one timeout for every string of the body.
"Each proxied call logs ..." (README.md:24): a call whose stream breaks off does not, for
`ReverseProxy` panics past the log line (`Abort` in `RoundTrip`). "Trailing junk means this is
not a JSON body" (json.go:11): a closing bracket behind the value passes for its end and is dropped.

## The proofs

TLAPS checks all of them. Nothing is assumed about the constants but the named assumptions
of the modules, which say what the constants are (the cap is at least 2, a ring holds at least
one entry, values are no tokens, a configured password is not one of those generated).

Each module of proofs follows one pattern: an inductive invariant made of named parts,
one lemma for each action, and the properties as consequences.

`DemaskProofs`, part one: `WriterTypeCorrect`, `WriterLosesNothing`, `SplitsHideNoToken`,
`HoldsBackOnlyCandidates`, for every cap, every text and every way of cutting it.
The invariant `WriterInv` is the conjunction of the four properties with what ties
the program counter to the buffers: none of them is inductive by itself.
`EveryTokenLookedUp` needs to know that the candidate is the only well-formed
beginning of a token at the end of what was read (`HeldBackIsCandidate`), for the
stretches that become tokens with the next byte; that in turn needs to know that
what was emitted ends where the candidate begins (`NothingLost`). The lemmas
about the grammar say what a byte does to a stretch: a candidate that grows is
complete, partial or dead, a proper suffix of a candidate is never one, a token
contains no second one.

Part two: `ReaderTypeCorrect`, `EndComesLast`, `EventsComeThrough`, and
`ReaderImplementsStream`: every step of `DemaskReader` is a step of `RestoredStream` or
leaves it alone. `ReaderInv` adds to `WriterInv`, which the steps inside `Read` keep, where
the writer is while `Read` is at each of its steps (`WriterFollows`), and that an end that was
seen is remembered until it is told (`EndIsRemembered`). The refinement needs that segments
follow one another without a gap, so that what the caller has taken is a place in the text.

`AnonymizeProofs`, part one: the five properties of `TokenSession` for any kinds, any values and
any number of occurrences. `OneToOne` needs fresh tokens to be fresh, which is
the first half of `NumberedWithoutGaps`: a token's number is at most its kind's counter.

Part two: the eight properties of the run `anonymize` and `MaskedInOrder`, for any text,
dictionary, widths of characters, matches, captures and entities. `MaskingATextIsASession` hands
the session's theorems on to `AnonymizeText`. `TextInv` is the invariant of the sweep: what is
considered waits in its order, or begins inside something masked, and nothing that waits begins
before what is masked; `TrustedComesFirst` and `NothingTrustedIsLeftWhole` follow from that and from
what the sweep is given. So the longer half is about the operators:

- `SortedSpans`, `OverlapsIs`: the ranks of the sort are a permutation, and the index answers as
  the comparison with every trusted span would, whichever way its sort went;
- `FoldIs`, `MatchIsPlace`, `PlaceIsMatch`: a match among the folded bytes never begins or ends
  inside a character, so matches and places of the word are the same, whatever width its
  characters have in either case;
- `WalkCollects`, `OccurrencesAre`: the search that jumps from each match to its end passes by no
  place of the word that no earlier one reaches into;
- `DictIs`, `CustomIs`, `ContextIs`, `Collected`: everything that is collected is a stretch of the text,
  and the custom words among it are whole words.

The sweep is given whole spans, so nothing here depends on how many there are; that the
trusted matches begin and end between characters, are not empty and are no custom words is what
`TextAssumption` says of the regular expressions.

`VaultProofs`: `VaultTypeCorrect`, `NoAnswerLeaksAcross`, `UsedMappingsStay`, and
`VaultKeepsStorePromise`, for both backends and any lifetime. `AnswersAreOwn` needs the items to be
what was saved under their keys, the one that a lookup in memory is about to write back
included (`HoldsWhatWasSaved`); `UsedStaysAlive` needs a mapping to be there exactly until it has been
idle for the lifetime, with the rest of it left (`LivesItsTime`). The refinement has no fairness on the abstract side,
so it is proved as a whole.

`RoundTripProofs`: `RoundTripTypeCorrect`, `NoSureWordLeaves`, `MaskingCanBeUndone`,
`RepliesShowOwnValuesOnly`, `EchoesAreRestored`, `CountsAreTrue`, for any number of requests, any
bodies, replies and faults. `RoundTripInv` says, for each request, what is on the wire
and in the session (a masked leaf is its original with tokens whose values stood there, and every
token of the mapping stands on the wire), what the vault holds in each phase (nothing
but the mapping; and from the time it was saved, all of it except what was lost), and what has
been restored. The requests meet in the vault only, and its keys carry the request, so each action
is examined for its own request and leaves the others alone. The sweep over a text is a recursive
function; that it exists, and what it returns, is proved by induction over the length of the text.

`LogStreamProofs`: `LogTypeCorrect`, `PagesInOrder`, `MissesAreExcused`, `NoSendOnClosed`, for any
number of watchers, lines, and any sizes of ring and channel. The ring is the latest lines
(`RingIsLatest`), a handler's stage fits its subscription (`HandlersMatch`), and a page's lines
are ordered, and of the lines since its subscription it has got those that were not dropped and no
other (`PagesOK`). The last holds because a new line is greater than all that were got and all
that were dropped, and goes to one of the two.

`InferenceEngineProofs`: `NoJobIsLost`, `AnswersReachTheirCalls`, `FailuresAreContained`,
`QueueIsFirstInFirstOut`, for any calls, settings, batch size and pool. Besides the properties the
invariant needs that a group is dealt with as a whole (`GroupsAreWhole`) and that the calls whose
group failed are those that have failed (`SpoiltHaveFailed`).

`DashboardProofs`: `DashboardTypeCorrect`, `StatisticsAreGuarded`, `PagesAreConsistent`, for any
settings, passwords, visitors and numbers of starts and requests. `GeneratedPasswordIsLogged` has the
hypothesis that no setting's log level hides the level info (`SaysInfo`): without it, it is false,
as `quiet_password` shows. The invariant says what a visitor may hold (a password or a cookie he may
know), that a process without a password listens on loopback only, that a password
counted as generated only once it is, and that every answer under way is a page that was true of some
process. `LatestNext` is the ring: one more line takes the last entries to the last entries.

Induction. The library's induction theorems take a predicate and cannot be used; `LeastNumber` states
induction about sets of numbers, from the well-foundedness of the finite subsets. With it the recursive
functions of the models (the sweep over a text, the offsets of its characters, the search for a
word, the total of masked values) are proved to exist before their equations are used.
`RecursionFrom0` does that for functions defined from 0 upwards, `ChainRecursion` for those, like the
search, that are defined by their value further on.

Only model-checked: all liveness properties, and with them `KeepsStreamPromise` as a whole, whose
abstract side has fairness (its steps are proved). Liveness needs reasoning about ENABLED, which the
prover does not have.

## Not modelled

- Regular expressions and the Luhn sum: their results are the constant `Inputs` of
  `AnonymizeText`, `Sure` and `Guess` of `RoundTrip`.
- HTTP headers, path rewriting, status codes of upstream (a reply counts as 200).
- `jsonEscape`, and the nesting of JSON in JSON.
- In `RoundTrip`, values that overlap: how overlaps are settled is the business of
  `AnonymizeText`.
- The dashboard's view of the configuration, `RedactURL` and `DisplayURL`: pure formatting of
  settings that no other part reads back. Settings that are handed on as they are
  (ports, labels, the ML timeout, Redis).
- The time of an event, read before the store is locked: events may stand in the ring in
  another order than their times.
- Packaging: Helm chart, compose files, images.

## Plan

1. An abstract log (which lines a page may miss, and that order is kept) that
   `LogStream` implements, and an abstract service of independent calls that
   `InferenceEngine` implements.
2. `JsonBody`: the decoder's notion of a single value, and escaping.
3. An abstract echo service that `RoundTrip` implements.
