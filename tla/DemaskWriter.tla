---------------------------- MODULE DemaskWriter ----------------------------
(***************************************************************************)
(* StreamingResponseWriter (internal/proxy/streaming.go): the sliding      *)
(* window that swaps tokens for their values while a response goes by.     *)
(*                                                                         *)
(* The caller hands over the text in chunks of any size (Write), the       *)
(* writer goes through a chunk byte by byte, and passes on what it has     *)
(* settled when the chunk is used up.  A byte is a step of its own because *)
(* a complete token costs a vault lookup, a network trip, in the middle of *)
(* the loop.                                                               *)
(*                                                                         *)
(* What comes out is recorded as stretches of the input: a segment says    *)
(* which input bytes it stands for and whether they were copied ("raw"),   *)
(* replaced ("value") or looked up in vain and copied ("miss").            *)
(***************************************************************************)
EXTENDS TokenGrammar

CONSTANTS
  MaxTokenLen,   \* maxTokenLen: how long a candidate may grow
  Inputs         \* the texts a response may consist of

ASSUME WriterAssumption ==
  /\ MaxTokenLen \in Nat \ {0, 1}
  /\ Inputs \subseteq Seq(Byte)

VARIABLES
  input,   \* the text of this response
  pos,     \* how many bytes of it the writer has been given and gone through
  end,     \* where the chunk of the running Write ends
  buf,     \* s.buf: the token candidate held back
  out,     \* out: settled by the running Write, not yet passed on
  sent,    \* what the underlying writer has accepted
  err,     \* s.err # nil
  wpc      \* "idle" between calls, "writing" inside Write, "closed" at the end

writerVars == <<input, pos, end, buf, out, sent, err, wpc>>

Segment == [lo : Nat \ {0}, hi : Nat \ {0}, kind : {"raw", "value", "miss"}]
Seg(lo, hi, kind) == [lo |-> lo, hi |-> hi, kind |-> kind]

WriterInit ==
  /\ input \in Inputs
  /\ pos = 0 /\ end = 0
  /\ buf = << >> /\ out = << >> /\ sent = << >>
  /\ err = FALSE
  /\ wpc = "idle"

\* The byte under the cursor, the candidate with it, and where the candidate
\* starts in the input.
b == input[pos + 1]
Grown == Append(buf, b)
\* Mutant of Start: one byte too early.
StartTooEarly == pos - Len(buf)
Start == pos - Len(buf) + 1

Advance == wpc = "writing" /\ pos < end /\ pos' = pos + 1

-----------------------------------------------------------------------------
\* The caller hands over the next n bytes.
Write(n) ==
  /\ wpc = "idle" /\ ~err
  /\ n \in 1 .. Len(input) - pos
  /\ end' = pos + n
  /\ wpc' = "writing"
  /\ UNCHANGED <<input, pos, buf, out, sent, err>>

\* After a failed write every further chunk is refused: its bytes are gone.
Refuse(n) ==
  /\ wpc = "idle" /\ err
  /\ n \in 1 .. Len(input) - pos
  /\ pos' = pos + n /\ end' = pos + n
  /\ UNCHANGED <<input, buf, out, sent, err, wpc>>

\* No candidate is open and the byte does not open one.
PassByte ==
  /\ Advance
  /\ buf = << >> /\ b # "open"
  /\ out' = Append(out, Seg(pos + 1, pos + 1, "raw"))
  /\ UNCHANGED <<input, end, buf, sent, err, wpc>>

OpenCandidate ==
  /\ Advance
  /\ buf = << >> /\ b = "open"
  /\ buf' = <<b>>
  /\ UNCHANGED <<input, end, out, sent, err, wpc>>

\* The byte completes a token: look it up.  The vault may not have it.
Resolve(kind) ==
  /\ Advance
  /\ buf # << >> /\ classify(Grown) = "complete"
  /\ out' = Append(out, Seg(Start, pos + 1, kind))
  /\ buf' = << >>
  /\ UNCHANGED <<input, end, sent, err, wpc>>

\* Mutant of Release: the byte that kills a candidate never opens one.
ReleaseAll ==
  /\ Advance
  /\ buf # << >> /\ classify(Grown) = "dead"
  /\ out' = Append(out, Seg(Start, pos + 1, "raw")) /\ buf' = << >>
  /\ UNCHANGED <<input, end, sent, err, wpc>>

\* release: the byte kills the candidate, and may open the next one.
Release ==
  /\ Advance
  /\ buf # << >> /\ classify(Grown) = "dead"
  /\ IF b = "open"
       THEN out' = Append(out, Seg(Start, pos, "raw")) /\ buf' = <<b>>
       ELSE out' = Append(out, Seg(Start, pos + 1, "raw")) /\ buf' = << >>
  /\ UNCHANGED <<input, end, sent, err, wpc>>

\* Mutant of Grow: the cap is tested before the byte is added.
GrowPastCap ==
  /\ Advance
  /\ buf # << >> /\ classify(Grown) = "partial"
  /\ IF Len(buf) >= MaxTokenLen
       THEN out' = Append(out, Seg(Start, pos + 1, "raw")) /\ buf' = << >>
       ELSE buf' = Grown /\ UNCHANGED out
  /\ UNCHANGED <<input, end, sent, err, wpc>>

\* The candidate lives on, unless it has reached the cap.
Grow ==
  /\ Advance
  /\ buf # << >> /\ classify(Grown) = "partial"
  /\ IF Len(Grown) >= MaxTokenLen
       THEN out' = Append(out, Seg(Start, pos + 1, "raw")) /\ buf' = << >>
       ELSE buf' = Grown /\ UNCHANGED out
  /\ UNCHANGED <<input, end, sent, err, wpc>>

\* End of the chunk: pass on what is settled (nothing to do if nothing is).
Deliver ==
  /\ wpc = "writing" /\ pos = end
  /\ sent' = sent \o out /\ out' = << >>
  /\ wpc' = "idle"
  /\ UNCHANGED <<input, pos, end, buf, err>>

\* The underlying writer fails, having taken no more than a part of out.
DeliverFails(k) ==
  /\ wpc = "writing" /\ pos = end /\ out # << >>
  /\ k \in 0 .. Len(out) - 1
  /\ sent' = sent \o SubSeq(out, 1, k) /\ out' = << >>
  /\ err' = TRUE
  /\ wpc' = "idle"
  /\ UNCHANGED <<input, pos, end, buf>>

\* Mutant of Close: what is held back is dropped.
CloseDropping ==
  /\ wpc = "idle" /\ ~err
  /\ buf' = << >>
  /\ wpc' = "closed"
  /\ UNCHANGED <<input, pos, end, out, sent, err>>

\* Close: a candidate the text ended in the middle of goes out as it is.
Close ==
  /\ wpc = "idle" /\ ~err
  /\ sent' = IF buf = << >> THEN sent
             ELSE Append(sent, Seg(Start, pos, "raw"))
  /\ buf' = << >>
  /\ wpc' = "closed"
  /\ UNCHANGED <<input, pos, end, out, err>>

CloseFails ==
  /\ wpc = "idle" /\ ~err /\ buf # << >>
  /\ err' = TRUE
  /\ wpc' = "closed"
  /\ UNCHANGED <<input, pos, end, buf, out, sent>>

\* Close on a writer that has already failed only reports the old error.
CloseAfterError ==
  /\ wpc = "idle" /\ err
  /\ wpc' = "closed"
  /\ UNCHANGED <<input, pos, end, buf, out, sent, err>>

Step ==
  \/ PassByte \/ OpenCandidate \/ Release \/ Grow
  \/ \E kind \in {"value", "miss"} : Resolve(kind)

WriterNext ==
  \/ \E n \in 1 .. Len(input) - pos : Write(n) \/ Refuse(n)
  \/ Step
  \/ Deliver
  \/ \E k \in 0 .. Len(out) : DeliverFails(k)
  \/ Close \/ CloseFails \/ CloseAfterError

WriterSpec == WriterInit /\ [][WriterNext]_writerVars

-----------------------------------------------------------------------------
\* TYPE INVARIANT.  Every variable keeps its type, the cursor stays inside the
\* chunk and the candidate inside what has been read.
WriterTypeOK ==
  /\ input \in Inputs
  /\ pos \in 0 .. Len(input) /\ end \in pos .. Len(input)
  /\ buf \in Seq(Byte) /\ Len(buf) <= pos
  /\ out \in Seq(Segment) /\ sent \in Seq(Segment)
  /\ err \in BOOLEAN
  /\ wpc \in {"idle", "writing", "closed"}

Emitted == sent \o out

\* The segments follow one another from the first byte of the input on.
Contiguous(s) ==
  \A i \in 1 .. Len(s) :
     /\ s[i].lo = (IF i = 1 THEN 1 ELSE s[i - 1].hi + 1)
     /\ s[i].lo <= s[i].hi

\* The last input byte a contiguous sequence of segments stands for.
Upto(s) == IF s = << >> THEN 0 ELSE s[Len(s)].hi

\* The stretch lo..hi was taken for a token.
LookedUp(s, lo, hi) ==
  \E i \in 1 .. Len(s) : s[i].lo = lo /\ s[i].hi = hi /\ s[i].kind # "raw"

\* SAFETY.  Whatever the chunks, no byte of the response is lost, repeated or
\* overtaken by another: what was emitted covers the text read so far up to the
\* candidate held back, and what the client got is a prefix of it even when a
\* write fails in the middle (Write, release, Close).
NothingLost ==
  /\ Contiguous(sent)
  /\ ~err => Contiguous(Emitted) /\ Upto(Emitted) = pos - Len(buf)

\* SAFETY.  Where the chunks are cut makes no difference to what is replaced:
\* the segments looked up in the vault are exactly the tokens of the text read
\* so far that are no longer than the cap, also where a token directly follows
\* a dead candidate or one that was given up ("[[A_1]", "[A[A_1]").
EveryTokenLookedUp ==
  ~err =>
    \A lo, hi \in 1 .. pos :
       ( /\ hi - lo + 1 <= MaxTokenLen
         /\ IsToken(SubSeq(input, lo, hi)) )
       <=> LookedUp(Emitted, lo, hi)

\* SAFETY.  Bytes are held back exactly while they may still become a token that
\* will be replaced: a well-formed beginning of a token at the end of what was
\* read, shorter than the cap, is the candidate, and nothing else is.
HeldBackIsCandidate ==
  ~err /\ wpc # "closed" =>
    /\ buf = SubSeq(input, Start, pos)
    /\ \A lo \in 1 .. pos :
          ( /\ pos - lo + 1 < MaxTokenLen
            /\ IsCandidate(SubSeq(input, lo, pos)) )
          <=> lo = Start

\* The invariant the proofs carry: the properties above and what ties the
\* program counter to the rest of the state.
WriterInv ==
  /\ WriterTypeOK
  /\ wpc = "writing" => ~err
  /\ wpc # "writing" => out = << >>
  /\ ~err => \A i \in 1 .. Len(Emitted) : Emitted[i].hi <= pos
  /\ NothingLost
  /\ EveryTokenLookedUp
  /\ HeldBackIsCandidate
=============================================================================
