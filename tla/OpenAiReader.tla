---------------------------- MODULE OpenAiReader ----------------------------
(***************************************************************************)
(* The OpenAI Chat reader, src/proto/openai_chat.rs.  A chunk has no       *)
(* blocks: reasoning, content and tool calls lie side by side in a delta   *)
(* and the reader gives each an index by arithmetic on what it has seen.   *)
(*                                                                         *)
(* A chunk: the members of its delta that are present, at most one tool    *)
(* call (the entries of a list read as chunks of one), whether it carries  *)
(* a choice and a finish reason, and its usage object.                     *)
(***************************************************************************)
EXTENDS StreamEvents

Offset(s) == IF s.reasoning_seen THEN 1 ELSE 0
TextSlot(s) == IF s.text_index # NoIndex THEN s.text_index ELSE Offset(s) + ToolCount(s)

\* Mutant: the index of a tool reserves no slot for the text.
ToolSlotBare(s, wire) == wire + Offset(s)

ToolSlot(s, wire) == wire + (IF s.text_index # NoIndex THEN 1 ELSE 0) + Offset(s)

\* Reasoning is honoured until the answer begins: it owns index 0.
Reasoned(s, c) ==
  IF c.reasoning /\ ~s.text /\ DOMAIN s.tools = {}
  THEN Says([s EXCEPT !.reasoning_seen = TRUE, !.thinking = TRUE],
            Only(~s.thinking, BlockStart(0, "thinking")) \o <<BlockDelta(0, "thinking")>>)
  ELSE Silent(s)

\* Any answer closes the thinking block.
Answered(s) == Says([s EXCEPT !.thinking = FALSE], Only(s.thinking, BlockStop(0)))

Texted(s, c) ==
  IF c.content
  THEN LET i == TextSlot(s)
           a == Answered(s)
       IN  Says([a.st EXCEPT !.text = TRUE, !.text_index = IF s.text THEN @ ELSE i],
                a.out \o Only(~s.text, BlockStart(i, "text")) \o <<BlockDelta(i, "text")>>)
  ELSE Silent(s)

\* A call with a name opens a block, unless it is open or the cap is reached.
Opens(s, tool) ==
  /\ tool.named
  /\ Clamped(tool.index) \notin DOMAIN s.tools
  /\ ToolCount(s) < MaxOpenTools

Called(s, c) ==
  IF c.tool # {}
  THEN LET tool == The(c.tool)
           a == Answered(s)
           wire == Clamped(tool.index)
           i == ToolSlot(s, wire)
           b == IF Opens(s, tool)
                THEN Says(WithTool(a.st, wire, i), <<BlockStart(i, "tool")>>)
                ELSE Silent(a.st)
       IN  Says(b.st, a.out \o b.out
                      \o (IF wire \in DOMAIN b.st.tools
                          THEN <<BlockDelta(b.st.tools[wire], "tool")>> ELSE <<>>))
  ELSE Silent(s)

\* A finish reason closes what is open.  The usage of include_usage comes in
\* a chunk of its own, with no choice, afterwards.
Finished(s, c) ==
  IF c.finish
  THEN Says([s EXCEPT !.thinking = FALSE, !.text = FALSE, !.tools = <<>>],
            Only(s.thinking, BlockStop(0)) \o Only(s.text, BlockStop(s.text_index))
            \o Stops(ToolIndices(s)) \o <<MessageDelta(TRUE, Reported(c.usage)), MessageStop>>)
  ELSE Says(s, Only(c.usage # {} /\ ~c.choice, MessageDelta(FALSE, Reported(c.usage))))

OpenAiRead(s, c) ==
  LET begun    == Begun(s)
      reasoned == Reasoned(begun.st, c)
      texted   == Texted(reasoned.st, c)
      called   == Called(texted.st, c)
      finished == Finished(called.st, c)
  IN  Says(finished.st, begun.out \o reasoned.out \o texted.out \o called.out \o finished.out)
=============================================================================
