---------------------------- MODULE DemaskReader ----------------------------
(***************************************************************************)
(* demaskReader (internal/proxy/demask.go): the response body a streamed   *)
(* answer is given, which restores it while the reverse proxy copies it to *)
(* the client.                                                             *)
(*                                                                         *)
(* Three parties meet here.  Upstream delivers the text in reads of any    *)
(* size, may end it, or break off anywhere.  The reader pushes every read  *)
(* through a StreamingResponseWriter into bufferSink, an in-memory writer  *)
(* that never fails (its contents are "sent").  The caller, the copy loop  *)
(* of httputil.ReverseProxy, calls Read until it is told of an end, or     *)
(* stops when its own client is gone.                                      *)
(***************************************************************************)
EXTENDS DemaskWriter

VARIABLES
  srcErr,   \* the error the last read of the source came with: "nil", "eof", "fail"
  drain,    \* d.drain: the source is exhausted
  readErr,  \* d.readErr: "nil" or "fail"
  taken,    \* segments of the sink's contents the caller has taken
  rpc,      \* "out" of Read, in the "loop", "writing", or "finishing" a pull
  result    \* what the caller last learned: "none", "eof", "fail"; "gone" if it left

readerVars == <<writerVars, srcErr, drain, readErr, taken, rpc, result>>

ReaderInit ==
  /\ WriterInit
  /\ srcErr = "nil" /\ readErr = "nil" /\ drain = FALSE
  /\ taken = 0
  /\ rpc = "out" /\ result = "none"

SinkEmpty == taken = Len(sent)

-----------------------------------------------------------------------------
\* The caller asks for more.
Read ==
  /\ rpc = "out" /\ result = "none"
  /\ rpc' = "loop"
  /\ UNCHANGED <<writerVars, srcErr, drain, readErr, taken, result>>

\* Mutant of Pull: the sink need not be empty.
PullAhead(n, e) ==
  /\ rpc = "loop" /\ ~drain
  /\ e = "eof" => pos + n = Len(input)
  /\ n > 0 \/ e # "nil"
  /\ srcErr' = e
  /\ IF n > 0
       THEN Write(n) /\ rpc' = "writing"
       ELSE rpc' = "finishing" /\ UNCHANGED writerVars
  /\ UNCHANGED <<drain, readErr, taken, result>>

\* d.src.Read returns n bytes, with or without an error.  io.EOF means the text
\* is complete; any other error (the connection broke, the request's context
\* was cancelled) can come anywhere.
Pull(n, e) ==
  /\ rpc = "loop" /\ SinkEmpty /\ ~drain
  /\ e = "eof" => pos + n = Len(input)
  /\ n > 0 \/ e # "nil"
  /\ srcErr' = e
  /\ IF n > 0
       THEN Write(n) /\ rpc' = "writing"
       ELSE rpc' = "finishing" /\ UNCHANGED writerVars
  /\ UNCHANGED <<drain, readErr, taken, result>>

\* d.w.Write goes through the chunk; the sink accepts everything.
PushByte ==
  /\ rpc = "writing" /\ Step
  /\ UNCHANGED <<srcErr, drain, readErr, taken, rpc, result>>

PushEnd ==
  /\ rpc = "writing" /\ Deliver
  /\ rpc' = "finishing"
  /\ UNCHANGED <<srcErr, drain, readErr, taken, result>>

\* Mutant of FinishPull: how the source ended is not remembered.
FinishForgetting ==
  /\ rpc = "finishing"
  /\ rpc' = "loop"
  /\ IF srcErr = "nil"
       THEN UNCHANGED <<writerVars, drain>>
       ELSE drain' = TRUE /\ Close
  /\ UNCHANGED <<srcErr, readErr, taken, result>>

\* The rest of the loop body: remember that the source has ended, let the
\* writer release a dangling candidate, keep an error other than EOF for later.
FinishPull ==
  /\ rpc = "finishing"
  /\ rpc' = "loop"
  /\ IF srcErr = "nil"
       THEN UNCHANGED <<writerVars, drain, readErr>>
       ELSE /\ drain' = TRUE
            /\ Close
            /\ readErr' = IF srcErr = "fail" THEN "fail" ELSE readErr
  /\ UNCHANGED <<srcErr, taken, result>>

\* The sink has something: hand over as much as fits the caller's buffer.
ReturnData(k) ==
  /\ rpc = "loop" /\ ~SinkEmpty
  /\ taken' = taken + k
  /\ rpc' = "out"
  /\ UNCHANGED <<writerVars, srcErr, drain, readErr, result>>

\* Mutant of ReturnEnd: the end overtakes what the sink still holds.
ReturnEndEarly ==
  /\ rpc = "loop" /\ drain
  /\ result' = IF readErr = "nil" THEN "eof" ELSE "fail"
  /\ readErr' = "nil"
  /\ rpc' = "out"
  /\ UNCHANGED <<writerVars, srcErr, drain, taken>>

\* Nothing is left: report how the source ended.
ReturnEnd ==
  /\ rpc = "loop" /\ SinkEmpty /\ drain
  /\ result' = IF readErr = "nil" THEN "eof" ELSE "fail"
  /\ readErr' = "nil"
  /\ rpc' = "out"
  /\ UNCHANGED <<writerVars, srcErr, drain, taken>>

\* The caller's client is gone; it reads no further and closes the body.
Abandon ==
  /\ rpc = "out" /\ result = "none"
  /\ result' = "gone"
  /\ UNCHANGED <<writerVars, srcErr, drain, readErr, taken, rpc>>

\* What the reader does by itself once it is asked.
ReaderStep ==
  \/ PushByte \/ PushEnd \/ FinishPull \/ ReturnEnd
  \/ \E k \in 1 .. Len(sent) - taken : ReturnData(k)

ReaderNext ==
  \/ Read \/ Abandon \/ ReaderStep
  \/ \E n \in 0 .. Len(input) - pos, e \in {"nil", "eof", "fail"} : Pull(n, e)

\* The copy loop keeps reading and the reader keeps going; upstream need not
\* deliver anything, ever, so Pull is not fair.
ReaderSpec ==
  /\ ReaderInit /\ [][ReaderNext]_readerVars
  /\ WF_readerVars(Read)
  /\ WF_readerVars(ReaderStep)

-----------------------------------------------------------------------------
\* TYPE INVARIANT.  The writer's variables keep their types and so do the
\* reader's; the writer never fails under the reader.
ReaderTypeOK ==
  /\ WriterTypeOK /\ err = FALSE
  /\ srcErr \in {"nil", "eof", "fail"} /\ readErr \in {"nil", "fail"}
  /\ drain \in BOOLEAN
  /\ taken \in 0 .. Len(sent)
  /\ rpc \in {"out", "loop", "writing", "finishing"}
  /\ result \in {"none", "eof", "fail", "gone"}

\* The last input byte the caller has got, as it was or restored.
Passed == Upto(SubSeq(sent, 1, taken))

\* ACTION PROPERTY.  The reader never turns to upstream, where it may have to
\* wait, while it has something to give: when it does, everything that was read
\* has been handed over, up to a candidate shorter than the cap ("events reach
\* the client as they arrive").
NothingWaitsBehindUpstream ==
  [][ rpc = "loop" /\ rpc' \in {"writing", "finishing"} =>
        Passed = pos - Len(buf) /\ pos - Passed < MaxTokenLen
    ]_readerVars

\* SAFETY.  The caller learns of the end only after the last byte that arrived,
\* and learns the right one: a response that was cut off never looks complete.
EndIsTrue ==
  result \in {"eof", "fail"} =>
    /\ Passed = pos /\ srcErr = result
    /\ result = "eof" => Passed = Len(input)

\* REFINEMENT.  The reader keeps the promise of RestoredStream: bytes that were
\* read from the source have arrived, those in segments the caller took have
\* been passed on.
Stream == INSTANCE RestoredStream WITH
  Window <- MaxTokenLen,
  total <- Len(input),
  arrived <- end,
  source <- IF srcErr = "nil" THEN "open" ELSE srcErr,
  passed <- Passed,
  ending <- result

KeepsStreamPromise == Stream!StreamSpec
=============================================================================
