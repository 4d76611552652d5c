--------------------------- MODULE BedrockReader ----------------------------
(***************************************************************************)
(* The Bedrock reader, src/proto/bedrock.rs.  Its frames carry the block   *)
(* index, held to MAX_CONTENT_BLOCK_INDEX, so the blocks beyond share that *)
(* one.  The reader opens a reasoning block at its first delta, the wire   *)
(* having no start for it, and holds the stop reason of messageStop until  *)
(* the metadata frame brings the usage, to say both at once.               *)
(***************************************************************************)
EXTENDS StreamEvents

BedrockOpens(s, c) ==
  CASE c.kind = "tool"     -> s.started
    [] c.kind = "thinking" -> s.started /\ ~s.thinking
    [] c.kind = "text"     -> s.started /\ ~s.text

\* The state remembers an open text and an open reasoning block, not a tool.
BedrockStart(s, c) ==
  IF BedrockOpens(s, c)
  THEN Says([s EXCEPT !.text = @ \/ c.kind = "text", !.thinking = @ \/ c.kind = "thinking"],
            <<BlockStart(BlockIndex(c.index), c.kind)>>)
  ELSE Silent(s)

BedrockDelta(s, c) ==
  IF c.kind = "thinking"
  THEN LET a == BedrockStart(s, c)
       IN  Says(a.st, a.out \o Only(a.st.thinking, BlockDelta(BlockIndex(c.index), "thinking")))
  ELSE Says(s, <<BlockDelta(BlockIndex(c.index), c.kind)>>)

BedrockRead(s, c) ==
  CASE c.type = "messageStart"      -> Begun(s)
    [] c.type = "contentBlockStart" -> BedrockStart(s, c)
    [] c.type = "contentBlockDelta" -> BedrockDelta(s, c)
    [] c.type = "contentBlockStop"  ->
         Says([s EXCEPT !.text = FALSE, !.thinking = FALSE], <<BlockStop(BlockIndex(c.index))>>)
    [] c.type = "messageStop"       -> Silent([s EXCEPT !.stop_pending = c.final])
    [] c.type = "metadata"          ->
         Says([s EXCEPT !.stop_pending = FALSE],
              <<MessageDelta(s.stop_pending, Reported(c.usage)), MessageStop>>)
    [] c.type = "exception"         -> Says(s, <<StreamError>>)
=============================================================================
