-------------------------- MODULE StreamTranslate ---------------------------
(***************************************************************************)
(* The translator of a streamed answer: StreamTranslate of                 *)
(* src/proto/mod.rs.  The reader of the backend's protocol turns each      *)
(* frame into events; the translator counts their tokens, drops or splits  *)
(* some and writes the rest in the protocol of the client.  When both      *)
(* speak the same protocol the bytes pass verbatim and only the counting   *)
(* is done.                                                                *)
(*                                                                         *)
(* A client of anthropic gets the events as they are; one of openai no     *)
(* block boundaries, the counts in a frame of their own, and [DONE]; one   *)
(* of bedrock a binary event stream that ends with exactly one metadata    *)
(* frame; those of gemini, cohere and responses one last frame with the    *)
(* stop reason and the counts, and no frame that ends the message.         *)
(***************************************************************************)
EXTENDS Backends, Writers, OpenAiReader, GeminiReader, CohereReader,
        BedrockReader, ResponsesReader, AnthropicReader

VARIABLES
  ingress,    \* the client's protocol
  decode,     \* the reader's state
  xlate       \* the translator's own state

Verbatim == ingress = egress
Binary == ingress = "bedrock"

\* The fields of StreamTranslate and of its Bedrock framing.
Idle == [start |-> ZeroUsage, last |-> ZeroUsage, stopped |-> FALSE, failed |-> FALSE,
         aborted |-> FALSE, emitted |-> FALSE, pending |-> FALSE, writer |-> Unwritten,
         out |-> <<>>]

-----------------------------------------------------------------------------
(* Counting.  Prompt tokens told only at the start are put back into the   *)
(* terminal delta; a count once told is not undone by a zero.              *)

Or(x, y) == IF x # 0 THEN x ELSE y

\* Mutant: the delta's counts are taken as they are.
BackfilledNever(x, usage) == usage

Backfilled(x, usage) == [usage EXCEPT !.input = Or(@, x.start.input)]

Count(x, ev) ==
  CASE ev.type = "MessageStart" -> [x EXCEPT !.start = ev.usage]
    [] ev.type = "MessageDelta" ->
         LET u == Backfilled(x, ev.usage)
         IN  [x EXCEPT !.last = [input |-> Or(u.input, @.input), output |-> Or(u.output, @.output)]]
    [] ev.type = "Error" -> [x EXCEPT !.failed = TRUE]
    [] OTHER -> x

-----------------------------------------------------------------------------
\* emit_ir_event
Write(x, ev) ==
  LET written == CASE ingress = "anthropic" -> AnthropicWrite(x.writer, ev)
                   [] ingress = "openai"    -> OpenAiWrite(x.writer, ev)
                   [] ingress = "bedrock"   -> BedrockWrite(x.writer, ev)
                   [] ingress = "gemini"    -> GeminiWrite(x.writer, ev)
                   [] ingress = "cohere"    -> CohereWrite(x.writer, ev)
                   [] ingress = "responses" -> ResponsesWrite(x.writer, ev)
  IN  [x EXCEPT !.writer = written.st, !.out = @ \o written.out]

\* The stop goes out at once; the metadata with it if it has counts, and
\* later if it has not.
CombinedStop(x, usage) ==
  LET y == Write(x, MessageDelta(TRUE, ZeroUsage))
  IN  IF x.emitted THEN y
      ELSE IF usage # ZeroUsage
      THEN Write([y EXCEPT !.emitted = TRUE, !.pending = FALSE], MessageDelta(FALSE, usage))
      ELSE [y EXCEPT !.pending = TRUE]

\* Counts on their own: the metadata, unless it has gone out.
UsageOnly(x, usage) ==
  IF x.emitted THEN x
  ELSE Write([x EXCEPT !.emitted = TRUE, !.pending = FALSE], MessageDelta(FALSE, usage))

\* Mutant: what follows the end of the message is written after it.
ForwardLate(x, ev) ==
  IF Binary /\ ev.type = "MessageDelta"
  THEN IF ev.final THEN CombinedStop(x, ev.usage) ELSE UsageOnly(x, ev.usage)
  ELSE Write([x EXCEPT !.stopped = @ \/ ev.type = "MessageStop"], ev)

\* Nothing is said of a message once it has been ended.
Forward(x, ev) ==
  IF Binary /\ ev.type = "MessageDelta"
  THEN IF ev.final THEN CombinedStop(x, ev.usage) ELSE UsageOnly(x, ev.usage)
  ELSE IF x.stopped /\ ev.type = "MessageDelta" THEN x
  ELSE Write([x EXCEPT !.stopped = @ \/ ev.type = "MessageStop"], ev)

\* translate_event, and extract_usage_only
Translate(x, ev) ==
  LET counted == Count(x, ev)
      filled  == IF ev.type = "MessageDelta"
                 THEN [ev EXCEPT !.usage = Backfilled(x, @)] ELSE ev
  IN  IF Verbatim THEN counted ELSE Forward(counted, filled)

\* Mutant: metadata that is owed is not sent.
FinishOwing(x) ==
  LET Done(y) == IF ingress = "openai" THEN [y EXCEPT !.out = Append(@, Frame("Done"))] ELSE y
  IN  CASE x.aborted              -> Done(Write(x, StreamError))
        [] Verbatim /\ ~x.aborted -> x
        [] OTHER                  -> Done(x)

\* finish
Finish(x) ==
  LET failed == Write(x, StreamError)
      flush  == IF Binary /\ x.pending /\ ~x.emitted
                THEN Write([x EXCEPT !.emitted = TRUE, !.pending = FALSE],
                           MessageDelta(FALSE, ZeroUsage))
                ELSE x
      Done(y) == IF ingress = "openai" THEN [y EXCEPT !.out = Append(@, Frame("Done"))] ELSE y
  IN  CASE x.aborted             -> Done(failed)
        [] Verbatim /\ ~x.aborted -> x
        [] OTHER                 -> Done(flush)

-----------------------------------------------------------------------------

Read(chunk) ==
  CASE egress = "openai"    -> OpenAiRead(decode, chunk)
    [] egress = "gemini"    -> GeminiRead(decode, chunk)
    [] egress = "cohere"    -> CohereRead(decode, chunk)
    [] egress = "bedrock"   -> BedrockRead(decode, chunk)
    [] egress = "responses" -> ResponsesRead(decode, chunk)
    [] egress = "anthropic" -> AnthropicRead(decode, chunk)

\* feed: an abandoned stream is not read any more.
Fed(chunk) ==
  IF xlate.aborted THEN [st |-> decode, x |-> xlate]
  ELSE LET read == Read(chunk)
       IN  [st |-> read.st, x |-> FoldLeft(Translate, xlate, read.out)]
=============================================================================
