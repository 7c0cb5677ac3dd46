-------------------------- MODULE AccountingStream --------------------------
(***************************************************************************)
(* What a response stream learns about token usage while it forwards the   *)
(* upstream's bytes: crates/twl-server/src/proxy/stream.rs. The network    *)
(* cuts the bytes into chunks anywhere; the parse buffers are bounded.     *)
(*                                                                         *)
(* A byte is a symbol; which lines and bodies carry usage is given by the  *)
(* operators Parse and ParseBody. Cached tokens are merged like input      *)
(* tokens and left out.                                                    *)
(***************************************************************************)
EXTENDS Naturals, Sequences, FiniteSets, SequencesExt

CONSTANTS
  Bytes, NL,      \* the bytes, and the newline among them
  MaxLine,        \* MAX_LINE
  MaxBody,        \* MAX_ACCOUNTING_BUFFER
  MaxReceived,    \* bound: the response is no longer than this
  Parse(_),       \* parse_sse_line, parse_ndjson_line: usage of a line
  ParseBody(_),   \* finalize_buffered_usage: usage of a body
  NoUsage,        \* Option::None
  Unknown         \* the model name "unknown"

Usages == [model : Bytes \cup {Unknown}, input : Nat, output : Nat, total : Nat]

\* The parsers return usage or none, and none for an empty line.
ASSUME AccountingStreamAssumption ==
  /\ NL \in Bytes /\ NoUsage \notin Usages
  /\ MaxLine \in Nat \ {0} /\ MaxBody \in Nat /\ MaxReceived \in Nat
  /\ \A n \in 0..MaxLine : \A line \in [1..n -> Bytes] : Parse(line) \in Usages \cup {NoUsage}
  /\ \A n \in 0..MaxBody : \A b \in [1..n -> Bytes] : ParseBody(b) \in Usages \cup {NoUsage}
  /\ Parse(<<>>) = NoUsage

VARIABLES
  kind,        \* StreamKind: "line", "buffered", or "opaque" (parse = false)
  received,    \* history: all the bytes forwarded so far
  buf,         \* LineBuffer.buf or BoundedBuffer.buf
  discarding,  \* LineBuffer.discarding
  overflowed,  \* BoundedBuffer.overflowed
  usage,       \* UsageRecorder.usage
  phase,       \* "open", "finished", "cut" (dropped midway)
  recorded     \* what UsageRecorder::drop queued

vars == <<kind, received, buf, discarding, overflowed, usage, phase, recorded>>

-----------------------------------------------------------------------------
(* Lines and usage *)

Ends(s) == {i \in 1..Len(s) : s[i] = NL}
LastEnd(s, n) == Max({0} \cup {e \in Ends(s) : e < n})

\* The line that ends at e, its newline included, and what follows the last one
Line(s, e) == SubSeq(s, LastEnd(s, e) + 1, e)
Rest(s) == SubSeq(s, LastEnd(s, Len(s) + 1) + 1, Len(s))

Fits(line) == Len(line) <= MaxLine

\* accumulate_usage
Accumulate(current, next) ==
  IF current = NoUsage THEN next
  ELSE LET input == Max({current.input, next.input})
           output == Max({current.output, next.output})
       IN  [model |-> IF current.model = Unknown THEN next.model ELSE current.model,
            input |-> input,
            output |-> output,
            total |-> Max({current.total, next.total, input + output})]

\* The on_line callback.
Observe(current, line) ==
  IF Parse(line) = NoUsage THEN current ELSE Accumulate(current, Parse(line))

\* The forward scan of LineBuffer::push: the callback for each line that fits
ScanLines(current, s) ==
  LET at[i \in 0..Len(s)] ==
        IF i = 0 THEN current
        ELSE IF s[i] = NL /\ Fits(Line(s, i)) THEN Observe(at[i - 1], Line(s, i))
        ELSE at[i - 1]
  IN  at[Len(s)]

-----------------------------------------------------------------------------
Init ==
  /\ kind \in {"line", "buffered", "opaque"}
  /\ received = <<>> /\ buf = <<>>
  /\ discarding = FALSE /\ overflowed = FALSE
  /\ usage = NoUsage
  /\ phase = "open" /\ recorded = NoUsage

\* LineBuffer::push from the scan on: hand over the complete lines that fit,
\* keep the rest, or give it up if it is already too long.
Scan(b) ==
  /\ usage' = ScanLines(usage, b)
  /\ buf' = IF Fits(Rest(b)) THEN Rest(b) ELSE <<>>
  /\ discarding' = ~Fits(Rest(b))

\* Fault: the newline that ends an oversized line is not found again.
SkipLineWholeChunk(b) ==
  /\ buf' = <<>>
  /\ discarding' = (Ends(b) = {})
  /\ UNCHANGED usage

\* Fault: what is skipped is kept.
SkipLineKeeping(b) ==
  IF Ends(b) = {}
  THEN buf' = b /\ UNCHANGED <<discarding, usage>>
  ELSE Scan(SubSeq(b, Min(Ends(b)) + 1, Len(b)))

\* LineBuffer::push while discarding: skip through the next newline.
SkipLine(b) ==
  IF Ends(b) = {}
  THEN /\ buf' = IF Fits(b) THEN b ELSE <<>>
       /\ UNCHANGED <<discarding, usage>>
  ELSE Scan(SubSeq(b, Min(Ends(b)) + 1, Len(b)))

\* LineBuffer::remainder
Remainder == IF discarding THEN <<>> ELSE buf

Forward(chunk) ==
  /\ phase = "open"
  /\ received' = received \o chunk
  /\ UNCHANGED <<kind, phase, recorded>>

PushLine(chunk) ==
  /\ kind = "line"
  /\ Forward(chunk)
  /\ IF discarding THEN SkipLine(buf \o chunk) ELSE Scan(buf \o chunk)
  /\ UNCHANGED overflowed

\* BoundedBuffer::push
PushBody(chunk) ==
  /\ kind = "buffered"
  /\ Forward(chunk)
  /\ overflowed' = (overflowed \/ Len(buf) + Len(chunk) > MaxBody)
  /\ buf' = IF overflowed' THEN <<>> ELSE buf \o chunk
  /\ UNCHANGED <<discarding, usage>>

PushOpaque(chunk) ==
  /\ kind = "opaque"
  /\ Forward(chunk)
  /\ UNCHANGED <<buf, discarding, overflowed, usage>>

\* The upstream ends: flush, then the recorder drops.
Finish ==
  /\ phase = "open"
  /\ phase' = "finished"
  /\ usage' = CASE kind = "line" -> Observe(usage, Remainder)
                [] kind = "buffered" /\ ~overflowed -> ParseBody(buf)
                [] OTHER -> usage
  /\ recorded' = usage'
  /\ UNCHANGED <<kind, received, buf, discarding, overflowed>>

\* The client goes away, or the upstream fails: the stream is dropped where it
\* yields or awaits, in the second case at the error it has yielded, after which
\* hyper asks for nothing more.
Cut ==
  /\ phase = "open"
  /\ phase' = "cut"
  /\ recorded' = usage
  /\ UNCHANGED <<kind, received, buf, discarding, overflowed, usage>>

Next ==
  \/ \E n \in 1..(MaxReceived - Len(received)) : \E chunk \in [1..n -> Bytes] :
       PushLine(chunk) \/ PushBody(chunk) \/ PushOpaque(chunk)
  \/ Finish \/ Cut

Spec == Init /\ [][Next]_vars

-----------------------------------------------------------------------------
(* Correctness *)

\* Every variable has its type, and no buffer outgrows its limit.
TypeOK ==
  /\ kind \in {"line", "buffered", "opaque"}
  /\ received \in Seq(Bytes)
  /\ buf \in Seq(Bytes) /\ Len(buf) <= IF kind = "line" THEN MaxLine ELSE MaxBody
  /\ discarding \in BOOLEAN /\ overflowed \in BOOLEAN
  /\ usage \in Usages \cup {NoUsage}
  /\ phase \in {"open", "finished", "cut"}
  /\ recorded \in Usages \cup {NoUsage}

\* What is said at each of some ends: nothing in a line that does not fit
Said(s, ends) == [e \in ends |-> IF Fits(Line(s, e)) THEN Parse(Line(s, e)) ELSE NoUsage]

\* What that says, taken together: what a single line says is taken as it is; of
\* several, the largest count of each field, the first known model, and a total
\* no less than the largest input and output together.
Merged(said) ==
  LET seen == {k \in DOMAIN said : said[k] # NoUsage}
      known == {k \in seen : said[k].model # Unknown}
      input == Max({said[k].input : k \in seen})
      output == Max({said[k].output : k \in seen})
      sum == IF \E k \in seen : seen = {k} THEN 0 ELSE input + output
  IN  IF seen = {} THEN NoUsage
      ELSE [model |-> IF known = {} THEN Unknown ELSE said[Min(known)].model,
            input |-> input,
            output |-> output,
            total |-> Max({said[k].total : k \in seen} \cup {sum})]

\* The ends of all lines, of the last one too if it is not terminated
AllEnds(s) == Ends(s) \cup ({Len(s)} \ {0})

\* What is queued for the database: everything at the end of a response, the
\* complete lines of one the client left, nothing of a body cut short, over
\* the limit or not successful.
RecordsWhatWasSent ==
  /\ phase = "finished" =>
       recorded = CASE kind = "line" -> Merged(Said(received, AllEnds(received)))
                    [] kind = "buffered" /\ Len(received) <= MaxBody -> ParseBody(received)
                    [] OTHER -> NoUsage
  /\ phase = "cut" =>
       recorded = IF kind = "line" THEN Merged(Said(received, Ends(received))) ELSE NoUsage
=============================================================================
