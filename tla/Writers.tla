------------------------------ MODULE Writers ------------------------------
(***************************************************************************)
(* What a client is sent for an event of the common form: the              *)
(* write_response_event of the six protocols.  A writer gives an event one *)
(* frame or none (the framing of openai splits a second one off).  Frames  *)
(* keep the names of the events; "Call" is a whole function call.          *)
(*                                                                         *)
(* Three of the writers keep state, for their protocols tell a tool's      *)
(* block from a text's when it ends and the event does not: opened are the *)
(* blocks begun and not ended, with their kinds; output are the items that *)
(* the last frame of the Responses protocol repeats whole.                 *)
(***************************************************************************)
EXTENDS StreamEvents

Unwritten == [opened |-> {}, output |-> {}]

Frame(type) == [type |-> type]
Closes(kind, index) == [type |-> "BlockStop", index |-> index, kind |-> kind]

\* What a writer returns: its next state, and the frames.
Writes(w, frames) == [st |-> w, out |-> frames]

Begin(w, ev) == [w EXCEPT !.opened = @ \cup {<<ev.kind, ev.index>>}]
End(w, kind, index) == [w EXCEPT !.opened = @ \ {<<kind, index>>}]
OpenAs(w, kind) == {b \in w.opened : b[1] = kind}

\* The kind under which index is open: the first in the order a writer looks
\* the kinds up.
Held(w, index, kinds) ==
  {kinds[n] : n \in {m \in DOMAIN kinds :
                       /\ <<kinds[m], index>> \in w.opened
                       /\ \A l \in 1 .. m - 1 : <<kinds[l], index>> \notin w.opened}}

-----------------------------------------------------------------------------
AnthropicWrite(w, ev) == Writes(w, <<ev>>)

OpenAiWrite(w, ev) ==
  Writes(w,
    CASE ev.type = "BlockStart"   -> Only(ev.kind = "tool", ev)
      [] ev.type = "BlockDelta"   -> Only(ev.kind \in {"text", "tool"}, ev)
      [] ev.type = "BlockStop"    -> <<>>
      [] ev.type = "MessageStop"  -> <<>>
      [] ev.type = "MessageDelta" ->
           <<ev>> \o Only(ev.final /\ ev.usage # ZeroUsage, Frame("Trailer"))
      [] OTHER -> <<ev>>)

\* A delta with a stop reason is messageStop, one without is metadata.
BedrockWrite(w, ev) ==
  Writes(w,
    CASE ev.type = "BlockDelta"   -> Only(ev.kind # "citations", ev)
      [] ev.type = "MessageStop"  -> <<>>
      [] ev.type = "MessageDelta" -> <<IF ev.final THEN ev ELSE Frame("Metadata")>>
      [] OTHER -> <<ev>>)

\* A call's name and arguments are gathered and leave when its block ends.
GeminiWrite(w, ev) ==
  CASE ev.type = "BlockStart"  -> Writes(IF ev.kind = "tool" THEN Begin(w, ev) ELSE w, <<>>)
    [] ev.type = "BlockDelta"  -> Writes(w, Only(ev.kind # "tool", ev))
    [] ev.type = "BlockStop"   ->
         Writes(End(w, "tool", ev.index),
                Only(<<"tool", ev.index>> \in w.opened, Frame("Call")))
    [] ev.type = "MessageStop" -> Writes(w, <<>>)
    [] OTHER -> Writes(w, <<ev>>)

\* A block that was not begun, of reasoning, is not ended.
CohereWrite(w, ev) ==
  CASE ev.type = "BlockStart"  -> IF ev.kind = "thinking" THEN Writes(w, <<>>)
                                  ELSE Writes(Begin(w, ev), <<ev>>)
    [] ev.type = "BlockDelta"  -> Writes(w, Only(ev.kind \in {"text", "tool"}, ev))
    [] ev.type = "BlockStop"   ->
         LET held == Held(w, ev.index, <<"tool", "text">>)
         IN  IF held = {} THEN Writes(w, <<>>)
             ELSE Writes(End(w, The(held), ev.index), <<Closes(The(held), ev.index)>>)
    [] ev.type = "MessageStop" -> Writes(w, <<>>)
    [] OTHER -> Writes(w, <<ev>>)

ResponsesStop(w, ev) ==
  LET held == Held(w, ev.index, <<"thinking", "tool", "text">>)
  IN  IF held = {} THEN Writes(w, <<>>)
      ELSE Writes([End(w, The(held), ev.index) EXCEPT !.output = @ \cup {ev.index}],
                  <<Closes(The(held), ev.index)>>)

\* Items are capped; a function call past the cap is begun and never ended.
ResponsesStart(w, ev) ==
  LET room == Cardinality(OpenAs(w, ev.kind)) < MaxOpenTools
      open == <<ev.kind, ev.index>> \in w.opened
  IN  Writes(IF room THEN Begin(w, ev) ELSE w,
             Only(ev.kind = "tool" \/ (room /\ ~open), ev))

ResponsesWrite(w, ev) ==
  CASE ev.type = "MessageStart" -> Writes(Unwritten, <<ev>>)
    [] ev.type = "BlockStart"   -> ResponsesStart(w, ev)
    [] ev.type = "BlockDelta"   -> Writes(w, Only(ev.kind # "citations", ev))
    [] ev.type = "BlockStop"    -> ResponsesStop(w, ev)
    [] ev.type = "MessageDelta" -> Writes([w EXCEPT !.output = {}],
                                          <<[type |-> "MessageDelta", output |-> w.output]>>)
    [] ev.type = "MessageStop"  -> Writes(w, <<>>)
    [] OTHER -> Writes(w, <<ev>>)
=============================================================================
