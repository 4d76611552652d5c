---------------------------- MODULE GeminiReader ----------------------------
(***************************************************************************)
(* The Gemini reader, src/proto/gemini.rs.  A chunk's candidate carries    *)
(* parts of text or whole function calls in any order, citations, and at   *)
(* last a finish reason; or the chunk is an error, or says that the prompt *)
(* was blocked.  Each block takes the next free index as it appears.       *)
(*                                                                         *)
(* A chunk here has one part at most: a list of parts reads as chunks of   *)
(* one.                                                                    *)
(***************************************************************************)
EXTENDS StreamEvents

GeminiTextSlot(s) == IF s.text_index # NoIndex THEN s.text_index ELSE ToolCount(s)
GeminiToolSlot(s) == ToolCount(s) + (IF s.text_index # NoIndex THEN 1 ELSE 0)

\* A text part, or the citations, of the one text block.
GeminiText(s, kind) ==
  LET i == GeminiTextSlot(s)
  IN  Says([s EXCEPT !.text = TRUE, !.text_index = i],
           Only(~s.text, BlockStart(i, "text")) \o <<BlockDelta(i, kind)>>)

\* Mutant: the cap lets one call more in.
GeminiCallOver(s) ==
  LET i == GeminiToolSlot(s)
  IN  IF ToolCount(s) <= MaxOpenTools
      THEN Says(WithTool(s, i, i), <<BlockStart(i, "tool"), BlockDelta(i, "tool")>>)
      ELSE Silent(s)

\* A function call comes whole; calls beyond the cap are dropped.
GeminiCall(s) ==
  LET i == GeminiToolSlot(s)
  IN  IF ToolCount(s) < MaxOpenTools
      THEN Says(WithTool(s, i, i), <<BlockStart(i, "tool"), BlockDelta(i, "tool")>>)
      ELSE Silent(s)

\* The terminal sequence of a finish reason and of a blocked prompt.
GeminiFinish(s, c) ==
  Says([s EXCEPT !.text = FALSE, !.text_index = IF s.text THEN NoIndex ELSE @, !.tools = <<>>],
       Only(s.text, BlockStop(s.text_index)) \o Stops(ToolIndices(s))
       \o <<MessageDelta(TRUE, Reported(c.usage)), MessageStop>>)

GeminiRead(s, c) ==
  LET begun  == Begun(s)
      part   == CASE c.part = "text" -> GeminiText(begun.st, "text")
                  [] c.part = "call" -> GeminiCall(begun.st)
                  [] OTHER           -> Silent(begun.st)
      cited  == IF c.citations THEN GeminiText(part.st, "citations") ELSE Silent(part.st)
      finish == IF c.finish THEN GeminiFinish(cited.st, c) ELSE Silent(cited.st)
      block  == GeminiFinish(begun.st, c)
  IN  CASE c.error   -> Says(s, <<StreamError>>)
        [] c.blocked /\ ~c.error -> Says(block.st, begun.out \o block.out)
        [] OTHER     -> Says(finish.st, begun.out \o part.out \o cited.out \o finish.out)
=============================================================================
