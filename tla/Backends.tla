------------------------------ MODULE Backends ------------------------------
(***************************************************************************)
(* The streams the six backends send, as their readers and the tests of    *)
(* src/proto take them to be.  None of this is busbar's code.              *)
(*                                                                         *)
(* sent is where a backend is in its stream: how far, whether its text     *)
(* block is open, the items open on the wire with their kind, the indices  *)
(* it has used, and the token counts it has told.  frame is the frame on   *)
(* its way to busbar.                                                      *)
(***************************************************************************)
EXTENDS StreamEvents

CONSTANT WireIndices        \* the indices a backend gives its items, from 0

ASSUME IndicesAreNumbers == WireIndices \subseteq Nat

VARIABLES egress, sent, frame

Protocols == {"openai", "gemini", "cohere", "bedrock", "responses", "anthropic"}

Unsent == [at |-> "idle", text |-> FALSE, open |-> <<>>, used |-> {}, told |-> ZeroUsage]

Prompt     == [input |-> 2, output |-> 0]
Completion == [input |-> 0, output |-> 1]
Counts     == [input |-> 2, output |-> 1]
Counted    == {{}, {Counts}}

Larger(x, y) == IF x < y THEN y ELSE x
Telling(s, usage) ==
  [s EXCEPT !.told = [input  |-> Larger(@.input, Reported(usage).input),
                      output |-> Larger(@.output, Reported(usage).output)]]
At(s, where) == [s EXCEPT !.at = where]
Opening(s, i, kind) ==
  [s EXCEPT !.used = @ \cup {i},
            !.open = [j \in DOMAIN @ \cup {i} |-> IF j = i THEN kind ELSE @[j]]]
Closing(s, i) == [s EXCEPT !.open = [j \in DOMAIN @ \ {i} |-> @[j]]]
NextIndex == {Cardinality(sent.used)} \cap WireIndices

Streaming == sent.at \in {"idle", "open"}
Complete  == sent.at \in {"finished", "counted"}
Quiet     == ~sent.text /\ sent.open = <<>>

Send(chunk, s) == frame' = {chunk} /\ sent' = s

\* Chat completions: any mixture of members; a tool is announced by a call
\* with its name, and numbered from 0.  The counts come with the finish, or
\* after it, or never; an error object has no choice.
OpenAiChunk == [reasoning |-> FALSE, content |-> FALSE, tool |-> {}, finish |-> FALSE,
                choice |-> TRUE, usage |-> {}]
OpenAiTools == {[index |-> i, named |-> FALSE] : i \in sent.used}
               \cup {[index |-> i, named |-> TRUE] : i \in NextIndex}
OpenAiSends ==
  /\ egress = "openai"
  /\ \/ /\ Streaming
        /\ \E r, t, f \in BOOLEAN, k \in {{}} \cup {{tool} : tool \in OpenAiTools} :
             Send([OpenAiChunk EXCEPT !.reasoning = r, !.content = t, !.tool = k, !.finish = f],
                  [sent EXCEPT !.at = IF f THEN "finished" ELSE "open",
                               !.used = @ \cup {tool.index : tool \in k}])
     \/ /\ Streaming
        /\ Send([OpenAiChunk EXCEPT !.finish = TRUE, !.usage = {Counts}],
                Telling(At(sent, "counted"), {Counts}))
     \/ /\ sent.at = "finished"
        /\ Send([OpenAiChunk EXCEPT !.choice = FALSE, !.usage = {Counts}],
                Telling(At(sent, "counted"), {Counts}))
     \/ Streaming /\ Send([OpenAiChunk EXCEPT !.choice = FALSE], At(sent, "failed"))

\* Gemini: parts in any order, citations, and the finish with the counts;
\* or the prompt is blocked.
GeminiChunk == [part |-> "none", citations |-> FALSE, finish |-> FALSE, blocked |-> FALSE,
                error |-> FALSE, usage |-> {}]
GeminiSends ==
  /\ egress = "gemini"
  /\ Streaming
  /\ \/ \E p \in {"none", "text", "call"}, c \in BOOLEAN :
          Send([GeminiChunk EXCEPT !.part = p, !.citations = c], At(sent, "open"))
     \/ \E p \in {"none", "text", "call"}, c \in BOOLEAN, u \in Counted :
          Send([GeminiChunk EXCEPT !.part = p, !.citations = c, !.finish = TRUE, !.usage = u],
               Telling(At(sent, "finished"), u))
     \/ \E u \in Counted :
          Send([GeminiChunk EXCEPT !.blocked = TRUE, !.usage = u],
               Telling(At(sent, "finished"), u))
     \/ Send([GeminiChunk EXCEPT !.error = TRUE], At(sent, "failed"))

\* Cohere: one text block, that may be taken up again, and one tool at a
\* time, in any order and with frame indices in any order.
CohereSends ==
  LET Typed(type, s) == Send([type |-> type], s)
      Tool(type, i, s) == Send([type |-> type, index |-> i], s)
  IN
  /\ egress = "cohere"
  /\ \/ sent.at = "idle" /\ Typed("message-start", At(sent, "open"))
     \/ /\ sent.at = "open"
        /\ \/ ~sent.text /\ Typed("content-start", [sent EXCEPT !.text = TRUE])
           \/ Typed("content-delta", [sent EXCEPT !.text = TRUE])
           \/ sent.text /\ Typed("content-end", [sent EXCEPT !.text = FALSE])
           \/ \E i \in WireIndices \ sent.used :
                sent.open = <<>> /\ Tool("tool-call-start", i, Opening(sent, i, "tool"))
           \/ \E i \in DOMAIN sent.open :
                \/ Tool("tool-call-delta", i, sent)
                \/ Tool("tool-call-end", i, Closing(sent, i))
           \/ /\ Quiet
              /\ \E f \in BOOLEAN, u \in Counted :
                   Send([type |-> "message-end", final |-> f, usage |-> u],
                        Telling(At(sent, "finished"), u))

\* Bedrock: one block after the other, a reasoning block with no start of
\* its own; then the stop reason, then the counts.
BedrockSends ==
  LET Block(type, i, kind, s) == Send([type |-> type, index |-> i, kind |-> kind], s)
  IN
  /\ egress = "bedrock"
  /\ \/ sent.at = "idle" /\ Send([type |-> "messageStart"], At(sent, "open"))
     \/ /\ sent.at = "open"
        /\ \/ \E i \in NextIndex, k \in Blocks :
                Quiet /\ Block("contentBlockStart", i, k, Opening(sent, i, k))
           \/ \E i \in NextIndex :
                Quiet /\ Block("contentBlockDelta", i, "thinking", Opening(sent, i, "thinking"))
           \/ \E i \in DOMAIN sent.open :
                \/ Block("contentBlockDelta", i, sent.open[i], sent)
                \/ Block("contentBlockStop", i, sent.open[i], Closing(sent, i))
           \/ Quiet /\ Send([type |-> "messageStop", final |-> TRUE], At(sent, "stopping"))
           \/ Send([type |-> "exception"], At(sent, "failed"))
     \/ /\ sent.at = "stopping"
        /\ \E u \in Counted : Send([type |-> "metadata", usage |-> u],
                                   Telling(At(sent, "finished"), u))

\* Responses: numbered items that may overlap; a text item is closed twice,
\* its text ("said") and then itself; a refusal shows in the last frame only,
\* at an index of its own, and that may come before the items are done.
ResponsesSends ==
  LET Item(type, i, kind, s) == Send([type |-> type, index |-> i, kind |-> kind], s)
      Kind(i) == IF sent.open[i] = "said" THEN "text" ELSE sent.open[i]
      Delta(i) == CASE sent.open[i] = "text"     -> "text_delta"
                    [] sent.open[i] = "tool"     -> "arguments_delta"
                    [] sent.open[i] = "thinking" -> "reasoning_delta"
  IN
  /\ egress = "responses"
  /\ \/ sent.at = "idle" /\ Send([type |-> "created"], At(sent, "open"))
     \/ /\ sent.at = "open"
        /\ \/ \E i \in NextIndex, k \in Blocks :
                Item("item_added", i, k, Opening(sent, i, k))
           \/ \E i \in DOMAIN sent.open :
                \/ sent.open[i] # "said" /\ Item(Delta(i), i, sent.open[i], sent)
                \/ /\ sent.open[i] = "text"
                   /\ Item("item_done", i, "text", [sent EXCEPT !.open[i] = "said"])
                \/ Item("item_done", i, Kind(i), Closing(sent, i))
           \/ \E failed \in BOOLEAN, f \in BOOLEAN, u \in Counted,
                 r \in {{}} \cup {{i} : i \in NextIndex} :
                Send([type |-> "ended", failed |-> failed, final |-> f, usage |-> u, refusal |-> r],
                     IF failed THEN At(sent, "failed")
                     ELSE Telling(At([sent EXCEPT !.used = @ \cup r], "finished"), u))

\* Anthropic: one block after the other; the prompt is counted at the start.
AnthropicSends ==
  LET Block(type, i, kind, s) == Send([type |-> type, index |-> i, kind |-> kind], s)
  IN
  /\ egress = "anthropic"
  /\ \/ /\ sent.at = "idle"
        /\ Send([type |-> "message_start", usage |-> {Prompt}],
                Telling(At(sent, "open"), {Prompt}))
     \/ /\ sent.at = "open"
        /\ \/ \E i \in NextIndex, k \in Blocks :
                Quiet /\ Block("content_block_start", i, k, Opening(sent, i, k))
           \/ \E i \in DOMAIN sent.open :
                \/ Block("content_block_delta", i, sent.open[i], sent)
                \/ Block("content_block_stop", i, sent.open[i], Closing(sent, i))
           \/ /\ Quiet
              /\ \E u \in {Completion, Counts} :
                   Send([type |-> "message_delta", final |-> TRUE, usage |-> {u}],
                        Telling(At(sent, "stopping"), {u}))
           \/ Send([type |-> "error"], At(sent, "failed"))
     \/ sent.at = "stopping" /\ Send([type |-> "message_stop"], At(sent, "finished"))

BackendSends ==
  /\ frame = {}
  /\ UNCHANGED egress
  /\ \/ OpenAiSends \/ GeminiSends \/ CohereSends
     \/ BedrockSends \/ ResponsesSends \/ AnthropicSends
=============================================================================
