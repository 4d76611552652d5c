---------------------------- MODULE CohereReader ----------------------------
(***************************************************************************)
(* The Cohere v2 reader, src/proto/cohere.rs.  Typed events open, extend   *)
(* and close one text block and the tool calls; a tool is known by the     *)
(* frame index of the wire, which need not grow, and its block by the      *)
(* index it was given when it opened.  The entries are never removed.      *)
(* Frame indices beyond the cap are one frame: a second tool there is      *)
(* taken for the first.                                                    *)
(*                                                                         *)
(* The sentinel the code keeps among them says that a text block has had   *)
(* an index, which text_index says as well.                                *)
(***************************************************************************)
EXTENDS StreamEvents

\* cohere_text_ir_index
CohereTextSlot(s) == IF s.text_index # NoIndex THEN s.text_index ELSE ToolCount(s)

\* clamp_frame_index: MAX_TOOL_FRAME_INDEX is the cap itself.
CohereFrame(wire) == AtMost(wire, MaxOpenTools)

\* cohere_assign_tool_ir_index
CohereToolSlot(s) == ToolCount(s) + (IF s.text_index # NoIndex THEN 1 ELSE 0)
CohereAssigns(s, frame) == frame \notin DOMAIN s.tools /\ ToolCount(s) < MaxOpenTools

CohereText(s) ==
  LET i == CohereTextSlot(s)
  IN  Says([s EXCEPT !.text = TRUE, !.text_index = i], Only(~s.text, BlockStart(i, "text")))

CohereRead(s, c) ==
  CASE c.type = "message-start" -> Begun(s)
    [] c.type = "content-start" -> IF s.text THEN Silent(s) ELSE CohereText(s)
    [] c.type = "content-delta" ->
         LET t == CohereText(s) IN Says(t.st, Append(t.out, BlockDelta(t.st.text_index, "text")))
    [] c.type = "content-end" ->
         Says([s EXCEPT !.text = FALSE], Only(s.text, BlockStop(s.text_index)))
    [] c.type = "tool-call-start" ->
         LET frame == CohereFrame(c.index)
             i     == CohereToolSlot(s)
         IN  IF CohereAssigns(s, frame)
             THEN Says(WithTool(s, frame, i), <<BlockStart(i, "tool")>>)
             ELSE Silent(s)
    [] c.type = "tool-call-delta" ->
         LET frame == CohereFrame(c.index)
         IN  IF frame \in DOMAIN s.tools
             THEN Says(s, <<BlockDelta(s.tools[frame], "tool")>>) ELSE Silent(s)
    [] c.type = "tool-call-end" ->
         LET frame == CohereFrame(c.index)
         IN  IF frame \in DOMAIN s.tools
             THEN Says(s, <<BlockStop(s.tools[frame])>>) ELSE Silent(s)
    [] c.type = "message-end" ->
         Says(s, <<MessageDelta(c.final, Reported(c.usage)), MessageStop>>)
=============================================================================
