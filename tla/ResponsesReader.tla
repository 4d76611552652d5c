-------------------------- MODULE ResponsesReader ---------------------------
(***************************************************************************)
(* The OpenAI Responses reader, src/proto/openai_responses.rs.  Items are  *)
(* numbered by output_index.  A function call or a reasoning item is open  *)
(* from its item event (or its first delta), a text item from its first    *)
(* delta, and one index is never both; two terminal frames may close a     *)
(* text item and only the first counts.  A terminal event closes the rest. *)
(***************************************************************************)
EXTENDS StreamEvents

HoldsItem(s, i) == i \in DOMAIN s.tools
HoldsText(s, i) == i \in s.texts
ItemsOpen(s) == ToolCount(s) + Cardinality(s.texts)
Room(s) == ItemsOpen(s) < MaxOpenTools

\* An item event or a first delta opens a block at an index that is free.
ItemOpened(s, i, kind) ==
  IF ~HoldsItem(s, i) /\ ~HoldsText(s, i) /\ Room(s)
  THEN Says(WithTool(s, i, i), <<BlockStart(i, kind)>>)
  ELSE Silent(s)

ReasoningDelta(s, i) ==
  LET a == ItemOpened(s, i, "thinking")
  IN  IF HoldsItem(a.st, i) \/ HoldsText(a.st, i)
      THEN Says(a.st, Append(a.out, BlockDelta(i, "thinking"))) ELSE Silent(s)

TextOpened(s, i) ==
  IF ~HoldsText(s, i) /\ Room(s)
  THEN Says([s EXCEPT !.texts = @ \cup {i}], <<BlockStart(i, "text")>>)
  ELSE Silent(s)

TextDelta(s, i) ==
  IF HoldsItem(s, i) THEN Silent(s)
  ELSE LET a == TextOpened(s, i)
       IN  IF HoldsText(a.st, i)
           THEN Says(a.st, Append(a.out, BlockDelta(i, "text"))) ELSE Silent(s)

ArgumentsDelta(s, i) ==
  IF HoldsItem(s, i) THEN Says(s, <<BlockDelta(i, "tool")>>) ELSE Silent(s)

ItemDone(s, i) ==
  IF HoldsItem(s, i) THEN Says(WithoutTool(s, i), <<BlockStop(i)>>)
  ELSE Says([s EXCEPT !.texts = @ \ {i}], Only(HoldsText(s, i), BlockStop(i)))

\* A refusal appears in the terminal frame only, at the place of its item.
Refused(s, refusal) ==
  LET i == Clamped(The(refusal))
      a == TextOpened(s, i)
  IN  IF refusal # {} /\ ~HoldsItem(s, i) /\ ~HoldsText(s, i) /\ Room(s)
      THEN Says(a.st, Append(a.out, BlockDelta(i, "text")))
      ELSE Silent(s)

\* close_open_blocks
CloseOpenBlocks(s) ==
  Says([s EXCEPT !.tools = <<>>, !.texts = {}], Stops(DOMAIN s.tools \cup s.texts))

ResponseEnded(s, c) ==
  LET refused == IF c.failed THEN Silent(s) ELSE Refused(s, c.refusal)
      closed  == CloseOpenBlocks(refused.st)
  IN  Says(closed.st,
           Only(c.failed, StreamError) \o refused.out \o closed.out
           \o Only(~c.failed, MessageDelta(c.final, Reported(c.usage))) \o <<MessageStop>>)

ResponsesRead(s, c) ==
  CASE c.type = "created" -> Begun(s)
    [] c.type = "ended"   -> ResponseEnded(s, c)
    [] OTHER -> LET i == Clamped(c.index)
                IN  CASE c.type = "item_added" -> IF c.kind = "text" THEN Silent(s)
                                                  ELSE ItemOpened(s, i, c.kind)
                      [] c.type = "reasoning_delta" -> ReasoningDelta(s, i)
                      [] c.type = "text_delta"      -> TextDelta(s, i)
                      [] c.type = "arguments_delta" -> ArgumentsDelta(s, i)
                      [] c.type = "item_done"       -> ItemDone(s, i)
=============================================================================
