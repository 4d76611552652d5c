--------------------------- MODULE FirstByteBody ----------------------------
(***************************************************************************)
(* A streamed answer on its way through busbar: FirstByteBody of           *)
(* src/forward.rs, the body of the response.  A backend sends frames; the  *)
(* body feeds them to the translator and hands what it writes to the       *)
(* client, who takes the frames one by one.  When the stream is over the   *)
(* body tells the client, the breaker and the budgets.                     *)
(*                                                                         *)
(* A backend may hang up at any frame, its bytes may stop making sense (a  *)
(* malformed prelude, a frame that outgrows the buffer), the connection to *)
(* it may break, and the client may go away.                               *)
(*                                                                         *)
(* A client of gemini that did not ask for server-sent events gets the     *)
(* same frames as the elements of one JSON array.                          *)
(***************************************************************************)
EXTENDS StreamTranslate

VARIABLES
  body,       \* "flowing", "ended", "broken", or "left" by the client
  first,      \* first_byte_sent: something has come from the backend
  framer,     \* of the JSON array: "none", "empty" or "started"
  ledger,     \* what the breaker and the budgets have been told
  out,        \* written to the client, not yet read
  phase,      \* the client's: "waiting", "reading", "final", "stopped", "failed"
  shown,      \* the blocks the client has been told of: their kind, or "done"
  array       \* the client's array: "unread", "open" or "shut"

stream == <<egress, sent, ingress, decode, framer>>
client == <<phase, shown, array>>
vars == <<stream, frame, xlate, body, first, ledger, out, client>>

\* sink: whether the tokens are still to be billed (usage_sink).
Unsettled == [sink |-> TRUE, billed |-> ZeroUsage, faults |-> 0, refunds |-> 0]

Init ==
  /\ egress \in Protocols
  /\ ingress \in Protocols
  /\ framer \in IF ingress = "gemini" THEN {"none", "empty"} ELSE {"none"}
  /\ sent = Unsent
  /\ frame = {}
  /\ decode = Fresh
  /\ xlate = Idle
  /\ body = "flowing"
  /\ first = FALSE
  /\ ledger = Unsettled
  /\ out = <<>>
  /\ phase = "waiting"
  /\ shown = <<>>
  /\ array = "unread"

-----------------------------------------------------------------------------
(* The JSON array: GeminiJsonArrayFramer.                                  *)

Opened == Only(framer = "empty", Frame("["))

\* Frames become elements.
Framed(frames) ==
  /\ framer' = IF framer = "empty" /\ frames # <<>> THEN "started" ELSE framer
  /\ out' = IF frames = <<>> THEN <<>> ELSE Opened \o frames

\* finish_for_translate and finish_with_error
ArrayEnd(failed) == Opened \o Only(failed, StreamError) \o <<Frame("]")>>

-----------------------------------------------------------------------------
Failed(x) == x.failed \/ x.aborted

\* The tokens of a stream that failed are not billed.
Billed(l, x) ==
  IF l.sink THEN [l EXCEPT !.sink = FALSE, !.billed = IF Failed(x) THEN @ ELSE x.last] ELSE l

\* A frame arrives.
Feed ==
  /\ body = "flowing"
  /\ frame # {}
  /\ out = <<>>
  /\ frame' = {}
  /\ first' = TRUE
  /\ LET fed == Fed(The(frame))
     IN  /\ decode' = fed.st
         /\ xlate' = [fed.x EXCEPT !.out = <<>>]
         /\ Framed(IF Verbatim /\ ~xlate.aborted THEN <<Frame("Raw")>> ELSE fed.x.out)
  /\ UNCHANGED <<egress, sent, ingress, body, ledger, client>>

\* The bytes that arrive cannot be a frame.
Abort ==
  /\ body = "flowing"
  /\ frame = {}
  /\ ~xlate.aborted
  /\ first' = TRUE
  /\ xlate' = [xlate EXCEPT !.aborted = TRUE]
  /\ UNCHANGED <<stream, frame, body, ledger, out, client>>

\* The backend has hung up.
Close ==
  /\ body = "flowing"
  /\ frame = {}
  /\ out = <<>>
  /\ body' = "ended"
  /\ LET x == Finish(xlate)
     IN  /\ xlate' = [x EXCEPT !.out = <<>>]
         /\ out' = IF framer = "none" THEN x.out ELSE ArrayEnd(xlate.aborted)
         /\ ledger' = Billed([ledger EXCEPT !.faults = @ + (IF Failed(xlate) THEN 1 ELSE 0)], x)
  /\ UNCHANGED <<stream, frame, first, client>>

\* The connection to the backend breaks; frames on their way are lost.  Part
\* of a frame may have come before.  If something has, the client is told
\* and the breaker hears of it; if not, the client's connection breaks too
\* and the lane's budget is given back what it spent.
Break ==
  /\ body = "flowing"
  /\ out = <<>>
  /\ body' = "broken"
  /\ frame' = {}
  /\ \E begun \in {first, TRUE} :
       IF begun
       THEN /\ ledger' = [ledger EXCEPT !.faults = @ + 1]
            /\ out' = IF framer = "none" THEN <<StreamError>> ELSE ArrayEnd(TRUE)
            /\ UNCHANGED client
       ELSE /\ ledger' = [ledger EXCEPT !.refunds = @ + 1]
            /\ phase' = "failed"
            /\ UNCHANGED <<out, shown, array>>
  /\ UNCHANGED <<stream, xlate, first>>

\* The body is dropped: the client has gone away, or the stream has broken.
\* What was counted so far is billed.
Drop ==
  /\ body \in {"flowing", "broken"}
  /\ ledger.sink
  /\ body' = IF body = "flowing" THEN "left" ELSE body
  /\ ledger' = Billed(ledger, xlate)
  /\ UNCHANGED <<stream, frame, xlate, first, out, client>>

Backend ==
  /\ body = "flowing"
  /\ out = <<>>
  /\ BackendSends
  /\ UNCHANGED <<ingress, decode, framer, xlate, body, first, ledger, out, client>>

\* The frame with the stop reason is the last one.
LastIsDelta == ingress \in {"gemini", "cohere", "responses"}

\* The client reads the next frame.
Heard(f) ==
  CASE f.type \in {"MessageStart", "Raw"} -> "reading"
    [] f.type = "Error"        -> "failed"
    [] f.type = "MessageDelta" -> IF LastIsDelta THEN "stopped" ELSE "final"
    [] f.type \in {"MessageStop", "Metadata", "Done"} ->
         IF phase = "failed" THEN "failed" ELSE "stopped"
    [] OTHER -> phase

Showing(f) ==
  CASE f.type = "BlockStart" -> [i \in DOMAIN shown \cup {f.index} |->
                                   IF i = f.index THEN f.kind ELSE shown[i]]
    [] f.type = "BlockStop"  -> [shown EXCEPT ![f.index] = "done"]
    [] OTHER -> IF ingress = "openai" /\ f.type \in {"MessageDelta", "Done"} THEN <<>> ELSE shown

ClientReads ==
  /\ body # "left"
  /\ out # <<>>
  /\ phase' = Heard(Head(out))
  /\ shown' = Showing(Head(out))
  /\ array' = CASE Head(out).type = "[" -> "open"
                [] Head(out).type = "]" -> "shut"
                [] OTHER -> array
  /\ out' = Tail(out)
  /\ UNCHANGED <<stream, frame, xlate, body, first, ledger>>

Next == Backend \/ Feed \/ Abort \/ Close \/ Break \/ Drop \/ ClientReads

Spec == Init /\ [][Next]_vars

-----------------------------------------------------------------------------
(* Properties *)

\* Every variable holds a value of its type, and no reader remembers more
\* tools than its cap.
TypeOK ==
  /\ egress \in Protocols /\ ingress \in Protocols
  /\ decode.text_index \in Nat \cup {NoIndex}
  /\ \A t \in DOMAIN decode.tools : t \in Nat /\ decode.tools[t] \in Nat
  /\ Cardinality(DOMAIN decode.tools) + Cardinality(decode.texts) <= MaxOpenTools
  /\ xlate.start \in Usage /\ xlate.last \in Usage
  /\ body \in {"flowing", "ended", "broken", "left"} /\ first \in BOOLEAN
  /\ framer \in {"none", "empty", "started"} /\ array \in {"unread", "open", "shut"}
  /\ ledger \in [sink : BOOLEAN, billed : Usage, faults : Nat, refunds : Nat]
  /\ phase \in {"waiting", "reading", "final", "stopped", "failed"}
  /\ \A i \in DOMAIN shown : i \in Nat /\ shown[i] \in Blocks \cup {"done"}

Seen(i) == i \in DOMAIN shown
Holds(i) == Seen(i) /\ shown[i] # "done"

\* What the reader of a protocol takes an index on the wire for, and whether
\* it has taken two for one.
TakenFor(protocol, i) ==
  CASE protocol = "cohere"                   -> CohereFrame(i)
    [] protocol \in {"anthropic", "bedrock"} -> BlockIndex(i)
    [] protocol = "responses"                -> Clamped(i)
    [] OTHER                                 -> i
Conflated == \E i, j \in sent.used : i # j /\ TakenFor(egress, i) = TakenFor(egress, j)

\* Whatever order a backend sends text, reasoning and tool calls in, the
\* next frame a client reads opens a block at an index it has not seen,
\* extends one of its own kind or closes one it holds, and the end of the
\* message finds none open, here or in the writer: a client keyed on indices
\* assembles every block whole.  The last frame of the Responses protocol
\* repeats exactly the items that were closed.  (A cohere backend that takes
\* its text up again gets the old index: README, section 5.)  The clients of
\* openai and gemini are told of no boundaries but a tool's start and a
\* whole call.  Nothing is claimed once the reader has taken two indices on
\* the wire for one, the larger being beyond its clamp: they are one block
\* for the client (README, section 5).
BlocksPair ==
  out # <<>> /\ ~Conflated =>
    LET f == Head(out)
    IN  CASE f.type = "BlockStart" -> ~Seen(f.index) \/ (egress = "cohere" /\ ~Holds(f.index))
          [] f.type = "BlockDelta" ->
               \/ ingress = "gemini"
               \/ ingress = "openai" /\ f.kind = "text"
               \/ /\ Holds(f.index)
                  /\ shown[f.index] = IF f.kind = "citations" THEN "text" ELSE f.kind
          [] f.type = "BlockStop"  ->
               Holds(f.index) /\ ("kind" \in DOMAIN f => shown[f.index] = f.kind)
          [] f.type \in {"MessageDelta", "MessageStop", "Metadata"} /\ phase # "failed" ->
               /\ ingress # "openai" => \A i \in DOMAIN shown : ~Holds(i)
               /\ xlate.writer.opened = {}
               /\ "output" \in DOMAIN f => f.output = DOMAIN shown
          [] OTHER -> TRUE

\* A message is opened once and before anything else of it, no block follows
\* its stop reason, nothing follows its end, and after an error come only
\* the closing frames; what a client of a JSON array reads is one array.
FramesInOrder ==
  out # <<>> =>
    LET f == Head(out)
    IN  /\ CASE f.type = "MessageStart" -> phase = "waiting"
             [] f.type \in {"BlockStart", "BlockDelta"} -> phase = "reading"
             [] f.type = "BlockStop"    -> phase \in {"reading", "failed"}
             [] f.type = "MessageDelta" -> phase \in {"reading", "final"}
             [] f.type = "Trailer"      -> phase = "final"
             [] f.type = "MessageStop"  -> phase \in {"final", "failed"}
             [] f.type = "Metadata"     -> phase \in {"reading", "final"}
             [] OTHER -> TRUE
        /\ framer # "none" => array = IF f.type = "[" THEN "unread" ELSE "open"

\* Once the stream is over, a client of another protocol than the backend's
\* has been told how it ended: the end of the message if the backend ended
\* it, an error if the backend reported one; and any client an error if the
\* bytes made no sense or the connection broke, and the end of its array.
\* (The openai reader does not know an error object: README, section 5.)
EndIsTold ==
  body \in {"ended", "broken"} /\ out = <<>> =>
    /\ xlate.aborted \/ body = "broken" => phase = "failed"
    /\ ~Verbatim /\ Complete => phase \in {"stopped", "failed"}
    /\ ~Verbatim /\ sent.at = "failed" /\ egress # "openai" => phase = "failed"
    /\ framer # "none" => array = "shut" \/ ledger.refunds = 1

\* A stream is settled once, and as its client saw it end: a failure the
\* client was told of is one failure for the breaker, or, when nothing had
\* come yet, one unit back in the lane's budget, and nothing of it is billed
\* (but for a connection that breaks: README, section 5).  The tokens billed
\* are the tokens told: no count is ever one the backend did not tell, and
\* at the end of a message, however its protocol spreads the counts over the
\* stream, all it told.
Settled ==
  /\ ledger.faults + ledger.refunds <= 1
  /\ body \in {"ended", "broken"} /\ out = <<>> /\ ~Verbatim =>
       (phase = "failed" <=> ledger.faults + ledger.refunds = 1)
  /\ ledger.billed.input \in {0, sent.told.input}
  /\ ledger.billed.output \in {0, sent.told.output}
  /\ body = "ended" =>
       ledger.billed = IF ledger.faults = 1 THEN ZeroUsage
                       ELSE IF Complete THEN sent.told ELSE ledger.billed
=============================================================================
