---------------------------- MODULE StreamEvents ----------------------------
(***************************************************************************)
(* The vocabulary of busbar's streams, src/ir.rs: what a reader makes of   *)
(* the frames of a backend, whichever of the six protocols it speaks, and  *)
(* the state a reader keeps while it synthesizes the blocks of protocols   *)
(* that have none.  Text, arguments, ids and stop reasons are left out;    *)
(* block indices, which the client assembles the answer by, are kept.      *)
(***************************************************************************)
EXTENDS Integers, FiniteSets, Sequences, SequencesExt

CONSTANTS
  MaxOpenTools,       \* the readers' caps on the tools of one stream
  MaxBlockIndex       \* MAX_ANTHROPIC_BLOCK_INDEX and MAX_CONTENT_BLOCK_INDEX

ASSUME CapIsPositive == MaxOpenTools \in Nat \ {0}
ASSUME BlockIndexIsNumber == MaxBlockIndex \in Nat

Blocks == {"text", "tool", "thinking"}
Usage == [input : Nat, output : Nat]
ZeroUsage == [input |-> 0, output |-> 0]

\* An option is a set of at most one.
The(option) == CHOOSE x \in option : TRUE
Reported(usage) == IF usage = {} THEN ZeroUsage ELSE The(usage)

\* IrStreamEvent.  A delta's kind is a block's or "citations"; final says
\* whether a MessageDelta carries a stop reason.
MessageStart(usage)        == [type |-> "MessageStart", usage |-> usage]
BlockStart(index, kind)    == [type |-> "BlockStart", index |-> index, kind |-> kind]
BlockDelta(index, kind)    == [type |-> "BlockDelta", index |-> index, kind |-> kind]
BlockStop(index)           == [type |-> "BlockStop", index |-> index]
MessageDelta(final, usage) == [type |-> "MessageDelta", final |-> final, usage |-> usage]
MessageStop                == [type |-> "MessageStop"]
StreamError                == [type |-> "Error"]

NoIndex == -1

(***************************************************************************)
(* StreamDecodeState.  tools is open_tools and tool_ir_index in one: the   *)
(* IR index each tool open on the wire was given.  texts holds the text    *)
(* items of the Responses protocol, which keeps them in the same set under *)
(* an offset no tool index reaches.                                        *)
(***************************************************************************)
Decode == [started : BOOLEAN, text : BOOLEAN, text_index : Nat \cup {NoIndex},
           thinking : BOOLEAN, reasoning_seen : BOOLEAN, stop_pending : BOOLEAN,
           tools : UNION {[S -> Nat] : S \in SUBSET Nat}, texts : SUBSET Nat]

Fresh == [started |-> FALSE, text |-> FALSE, text_index |-> NoIndex,
          thinking |-> FALSE, reasoning_seen |-> FALSE, stop_pending |-> FALSE,
          tools |-> <<>>, texts |-> {}]

\* An index on the wire is taken for the largest a reader allows when it is
\* beyond that.  MAX_TOOL_INDEX and MAX_OUTPUT_INDEX are the cap less one.
AtMost(wire, max) == IF wire < max THEN wire ELSE max
Clamped(wire) == AtMost(wire, MaxOpenTools - 1)
BlockIndex(wire) == AtMost(wire, MaxBlockIndex)

ToolCount(s) == Cardinality(DOMAIN s.tools)
WithTool(s, wire, index) ==
  [s EXCEPT !.tools = [t \in DOMAIN s.tools \cup {wire} |->
                         IF t = wire THEN index ELSE s.tools[t]]]
WithoutTool(s, wire) ==
  [s EXCEPT !.tools = [t \in DOMAIN s.tools \ {wire} |-> s.tools[t]]]

\* What a reader returns: the next state, and the events in order.
Says(s, events) == [st |-> s, out |-> events]
Silent(s) == Says(s, <<>>)
Only(cond, event) == IF cond THEN <<event>> ELSE <<>>
Nth(indices, n) == CHOOSE i \in indices : Cardinality({j \in indices : j < i}) = n - 1
Stops(indices) == [n \in 1 .. Cardinality(indices) |-> BlockStop(Nth(indices, n))]
ToolIndices(s) == {s.tools[t] : t \in DOMAIN s.tools}

\* Every reader but Anthropic's opens the message once.
Begun(s) == Says([s EXCEPT !.started = TRUE], Only(~s.started, MessageStart(ZeroUsage)))
=============================================================================
