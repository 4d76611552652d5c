-------------------------- MODULE AnthropicReader ---------------------------
(***************************************************************************)
(* The Anthropic reader, src/proto/anthropic.rs: its events are those of   *)
(* the vocabulary, one for one, and it keeps no state; a block's index is  *)
(* held to MAX_ANTHROPIC_BLOCK_INDEX, so the blocks beyond share that one. *)
(* The prompt's tokens come with message_start only.                       *)
(***************************************************************************)
EXTENDS StreamEvents

AnthropicRead(s, c) ==
  Says(s,
    CASE c.type = "message_start"       -> <<MessageStart(Reported(c.usage))>>
      [] c.type = "content_block_start" -> <<BlockStart(BlockIndex(c.index), c.kind)>>
      [] c.type = "content_block_delta" -> <<BlockDelta(BlockIndex(c.index), c.kind)>>
      [] c.type = "content_block_stop"  -> <<BlockStop(BlockIndex(c.index))>>
      [] c.type = "message_delta"       -> <<MessageDelta(c.final, Reported(c.usage))>>
      [] c.type = "message_stop"        -> <<MessageStop>>
      [] c.type = "error"               -> <<StreamError>>)
=============================================================================
