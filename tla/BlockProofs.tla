----------------------------- MODULE BlockProofs -----------------------------
(***************************************************************************)
(* The blocks of a streamed answer reach its client whole, whatever order  *)
(* its backend sends text, reasoning and tool calls in, for any caps on    *)
(* open tools and block indices and any indices on the wire, as long as no *)
(* reader has taken two of them for one.                                   *)
(*                                                                         *)
(* The events of a reader put blocks on a board and take them off (Tally); *)
(* OnBoard says for each protocol how the board follows from what the      *)
(* backend has sent and what its reader remembers, and each reader is      *)
(* shown to keep it so (BackendDrawn); Shelved says what the writer and    *)
(* the client have of the board, and the translator is shown to keep that  *)
(* (FoldPairs).  BlockInv joins them, and holds until two indices are      *)
(* conflated because StreamInv, of module StreamProofs, does.              *)
(***************************************************************************)
EXTENDS StreamProofs

-----------------------------------------------------------------------------
(* The blocks of an answer: the kind of each, or that it is done, by index.*)

BlockStates == Blocks \cup {"done"}
Boards == UNION {[S -> BlockStates] : S \in SUBSET Nat}

\* A board with a block put on it, or its state changed.
Put(b, i, k) == [j \in DOMAIN b \cup {i} |-> IF j = i THEN k ELSE b[j]]

\* A block that is not done; a board on which every block is.
Holding(b, i) == i \in DOMAIN b /\ b[i] # "done"
Clear(b) == \A i \in DOMAIN b : b[i] = "done"

\* The blocks of some kinds, as the writers list them, and whether one more
\* of a kind would be within their cap.
Listed(b, kinds) == {<<b[i], i>> : i \in {j \in DOMAIN b : b[j] \in kinds}}
RoomFor(b, kind) == Cardinality(Listed(b, {kind})) < MaxOpenTools

\* A citation extends a text.
OfKind(kind) == IF kind = "citations" THEN "text" ELSE kind

(* What a board holds.                                                     *)
LEMMA BoardTyped ==
  ASSUME NEW b \in Boards
  PROVE  /\ DOMAIN b \in SUBSET Nat /\ \A i \in DOMAIN b : b[i] \in BlockStates
         /\ b = [i \in DOMAIN b |-> b[i]]
<1>1. PICK S \in SUBSET Nat : b \in [S -> BlockStates]
  BY DEF Boards
<1>2. QED BY <1>1

(* A board with another block is one.                                      *)
LEMMA PutTyped ==
  ASSUME NEW b \in Boards, NEW i \in Nat, NEW k \in BlockStates
  PROVE  /\ Put(b, i, k) \in Boards /\ DOMAIN Put(b, i, k) = DOMAIN b \cup {i}
         /\ Put(b, i, k)[i] = k /\ \A j \in DOMAIN b : j # i => Put(b, i, k)[j] = b[j]
<1> DEFINE S == DOMAIN b \cup {i}
           f == [j \in S |-> IF j = i THEN k ELSE b[j]]
<1>1. S \in SUBSET Nat /\ f \in [S -> BlockStates]
  BY BoardTyped
<1>2. f \in Boards
  BY <1>1 DEF Boards
<1>3. f = Put(b, i, k)
  BY DEF Put
<1>4. DOMAIN f = S /\ f[i] = k /\ \A j \in DOMAIN b : j # i => f[j] = b[j]
  OBVIOUS
<1> HIDE DEF f
<1>5. QED BY <1>2, <1>3, <1>4

(* The empty board.                                                        *)
LEMMA EmptyBoard ==
  /\ <<>> \in Boards /\ DOMAIN <<>> = {} /\ Clear(<<>>)
  /\ \A b \in Boards : DOMAIN b = {} => b = <<>>
<1>1. <<>> \in [{} -> BlockStates] /\ {} \in SUBSET Nat /\ DOMAIN <<>> = {}
  OBVIOUS
<1>2. <<>> \in Boards
  BY <1>1 DEF Boards
<1>3. ASSUME NEW b \in Boards, DOMAIN b = {} PROVE b = <<>>
  <2>1. b \in [{} -> BlockStates]
    BY <1>3, BoardTyped
  <2>2. QED BY <1>1, <2>1
<1>4. QED BY <1>1, <1>2, <1>3 DEF Clear

-----------------------------------------------------------------------------
(* What the events of a reader say of blocks.  A block is begun once, at   *)
(* an index that is free (a cohere backend may take its text up again),    *)
(* extended by its own kind and ended once, and none is open at the end.   *)

Tallies == {p \in [stage : {"open", "delta", "over"}, blocks : Boards] :
              p.stage # "open" => Clear(p.blocks)}

Adds(e, p, ev) ==
  /\ ev.type = "MessageStart" => p.stage = "open" /\ DOMAIN p.blocks = {}
  /\ ev.type = "BlockStart" =>
       /\ p.stage = "open"
       /\ \/ ev.index \notin DOMAIN p.blocks
          \/ e = "cohere" /\ ev.kind = "text" /\ p.blocks[ev.index] = "done"
       /\ e # "responses" => RoomFor(p.blocks, ev.kind)
  /\ ev.type = "BlockDelta" => ev.index \in DOMAIN p.blocks /\ p.blocks[ev.index] = OfKind(ev.kind)
  /\ ev.type = "BlockStop" => Holding(p.blocks, ev.index)
  /\ ev.type = "MessageDelta" => Clear(p.blocks) /\ p.stage # "delta"
  /\ ev.type = "MessageStop" => Clear(p.blocks)

NextTally(p, ev) ==
  [stage  |-> IF ev.type = "MessageDelta" THEN IF p.stage = "over" THEN "over" ELSE "delta"
              ELSE IF ev.type = "MessageStop" THEN "over" ELSE p.stage,
   blocks |-> IF ev.type = "BlockStart" THEN Put(p.blocks, ev.index, ev.kind)
              ELSE IF ev.type = "BlockStop" THEN Put(p.blocks, ev.index, "done")
              ELSE p.blocks]

Tally(e) == {t \in Tallies \X Events \X Tallies :
               Adds(e, t[1], t[2]) /\ t[3] = NextTally(t[1], t[2])}

\* Where an event takes the blocks.
LEMMA NextTallyTyped ==
  ASSUME NEW e, NEW p \in Tallies, NEW ev \in Events, Adds(e, p, ev)
  PROVE  NextTally(p, ev) \in Tallies
<1> DEFINE a == NextTally(p, ev).stage
           b == NextTally(p, ev).blocks
<1>1. p.stage \in {"open", "delta", "over"} /\ p.blocks \in Boards
      /\ (p.stage # "open" => Clear(p.blocks))
  BY DEF Tallies
<1>2. CASE ev.type = "BlockStart"
  <2>1. ev.index \in Nat /\ ev.kind \in BlockStates
    BY <1>2, EventCases DEF BlockStarts, BlockStates
  <2>2. Put(p.blocks, ev.index, ev.kind) \in Boards
    BY <1>1, <2>1, PutTyped
  <2>3. NextTally(p, ev) = [stage |-> p.stage, blocks |-> Put(p.blocks, ev.index, ev.kind)]
    BY <1>2 DEF NextTally
  <2>4. p.stage = "open"
    BY <1>2 DEF Adds
  <2>5. QED BY <2>2, <2>3, <2>4 DEF Tallies
<1>3. CASE ev.type = "BlockStop"
  <2>1. ev.index \in Nat /\ "done" \in BlockStates
    BY <1>3, EventCases DEF BlockStops, BlockStates
  <2>2. Put(p.blocks, ev.index, "done") \in Boards
    BY <1>1, <2>1, PutTyped
  <2>3. NextTally(p, ev) = [stage |-> p.stage, blocks |-> Put(p.blocks, ev.index, "done")]
    BY <1>3 DEF NextTally
  <2>4. p.stage = "open"
    BY <1>1, <1>3 DEF Adds, Holding, Clear
  <2>5. QED BY <2>2, <2>3, <2>4 DEF Tallies
<1>4. CASE ev.type \notin {"BlockStart", "BlockStop"}
  <2>1. b = p.blocks /\ a \in {"open", "delta", "over"} /\ (a # "open" => Clear(p.blocks))
    BY <1>1, <1>4 DEF NextTally, Adds
  <2>2. NextTally(p, ev) = [stage |-> a, blocks |-> b]
    BY DEF NextTally
  <2> HIDE DEF a, b
  <2>3. QED BY <1>1, <2>1, <2>2 DEF Tallies
<1>5. QED BY <1>2, <1>3, <1>4

\* An event that is told of the blocks takes them on.
LEMMA TallyIs ==
  ASSUME NEW e, NEW p \in Tallies, NEW ev \in Events, Adds(e, p, ev)
  PROVE  <<p, ev, NextTally(p, ev)>> \in Tally(e)
<1> DEFINE t == <<p, ev, NextTally(p, ev)>>
<1>1. t \in Tallies \X Events \X Tallies /\ t[1] = p /\ t[2] = ev /\ t[3] = NextTally(p, ev)
  BY NextTallyTyped
<1> HIDE DEF t
<1>2. t \in Tally(e)
  BY <1>1 DEF Tally
<1>3. QED BY <1>2 DEF t

\* What such a step means.
LEMMA TallyGives ==
  ASSUME NEW e, NEW p, NEW ev, NEW q, <<p, ev, q>> \in Tally(e)
  PROVE  p \in Tallies /\ ev \in Events /\ q \in Tallies /\ Adds(e, p, ev) /\ q = NextTally(p, ev)
BY DEF Tally

-----------------------------------------------------------------------------
(* What a client makes of them: BlocksPair for one frame, for a client of  *)
(* protocol i of a backend of protocol e.                                  *)

Finals == {"MessageDelta", "MessageStop", "Metadata"}

Pairs(e, i, v, f) ==
  /\ f.type = "BlockStart" => f.index \notin DOMAIN v \/ (e = "cohere" /\ v[f.index] = "done")
  /\ f.type = "BlockDelta" => \/ i = "gemini"
                              \/ i = "openai" /\ f.kind = "text"
                              \/ f.index \in DOMAIN v /\ v[f.index] = OfKind(f.kind)
  /\ f.type = "BlockStop" => Holding(v, f.index) /\ ("kind" \in DOMAIN f => v[f.index] = f.kind)
  /\ f.type \in Finals => /\ i # "openai" => Clear(v)
                          /\ "output" \in DOMAIN f => f.output = DOMAIN v

\* What it shows after a frame.
ShownAfter(i, v, f) ==
  IF f.type = "BlockStart" THEN Put(v, f.index, f.kind)
  ELSE IF f.type = "BlockStop" THEN Put(v, f.index, "done")
  ELSE IF i = "openai" /\ f.type \in {"MessageDelta", "Done"} THEN <<>>
  ELSE v

Showings(e, i) == {t \in Boards \X AnyFrame \X Boards :
                     Pairs(e, i, t[1], t[2]) /\ t[3] = ShownAfter(i, t[1], t[2])}

\* The frames that open or close a block say which and of what kind.
LEMMA FrameCases ==
  ASSUME NEW f \in AnyFrame
  PROVE  /\ f.type = "BlockStart" => f.index \in Nat /\ f.kind \in Blocks
         /\ f.type = "BlockStop" => f.index \in Nat
BY DEF AnyFrame, Brackets, Frames, Events, Starts, BlockStarts, BlockDeltas, BlockStops, MessageDeltas,
       MessageStops, Errors

\* A frame of a block in its order takes a client on.
LEMMA ShowingIs ==
  ASSUME NEW e, NEW i, NEW v \in Boards, NEW f \in AnyFrame, Pairs(e, i, v, f)
  PROVE  /\ ShownAfter(i, v, f) \in Boards
         /\ <<v, f, ShownAfter(i, v, f)>> \in Showings(e, i)
         /\ Run(Showings(e, i), v, <<f>>, ShownAfter(i, v, f))
<1>1. ShownAfter(i, v, f) \in Boards
  <2>1. f.type = "BlockStart" => Put(v, f.index, f.kind) \in Boards
    BY FrameCases, PutTyped DEF BlockStates
  <2>2. f.type = "BlockStop" => Put(v, f.index, "done") \in Boards
    BY FrameCases, PutTyped DEF BlockStates
  <2>3. QED BY <2>1, <2>2, EmptyBoard DEF ShownAfter
<1> DEFINE t == <<v, f, ShownAfter(i, v, f)>>
<1>2. t \in Boards \X AnyFrame \X Boards /\ t[1] = v /\ t[2] = f /\ t[3] = ShownAfter(i, v, f)
  BY <1>1
<1> HIDE DEF t
<1>3. t \in Showings(e, i)
  BY <1>2 DEF Showings
<1>4. <<v, f, ShownAfter(i, v, f)>> \in Showings(e, i)
  BY <1>3 DEF t
<1>5. QED BY <1>1, <1>4, RunOne

\* What such a step means.
LEMMA ShowingGives ==
  ASSUME NEW e, NEW i, NEW v, NEW f, NEW u, <<v, f, u>> \in Showings(e, i)
  PROVE  v \in Boards /\ f \in AnyFrame /\ u \in Boards /\ Pairs(e, i, v, f) /\ u = ShownAfter(i, v, f)
BY DEF Showings

\* Frames that say nothing of blocks.
Mute == {f \in AnyFrame : f.type \notin {"BlockStart", "BlockDelta", "BlockStop"} \cup Finals}

\* They leave what is shown, or an openai client begins anew.
LEMMA MuteShown ==
  ASSUME NEW e, NEW i, NEW v \in Boards, NEW f \in Mute
  PROVE  /\ Pairs(e, i, v, f) /\ ShownAfter(i, v, f) \in {v, <<>>}
         /\ i # "openai" \/ f.type # "Done" => ShownAfter(i, v, f) = v
BY DEF Mute, Pairs, ShownAfter, Finals

-----------------------------------------------------------------------------
(* What a writer keeps, and its client is shown, of the blocks told of.    *)

Shelved(i, p, w, v) ==
  /\ p.stage # "open" => w.opened = {} /\ (i # "openai" => Clear(v))
  /\ p.stage = "open" =>
       /\ i \in {"anthropic", "bedrock"} => v = p.blocks /\ w.opened = {}
       /\ i = "openai" =>
            /\ w.opened = {}
            /\ \A j \in DOMAIN v : v[j] = "tool" /\ j \in DOMAIN p.blocks
            /\ \A j \in DOMAIN p.blocks : p.blocks[j] = "tool" => j \in DOMAIN v
       /\ i = "gemini" => v = <<>> /\ w.opened = Listed(p.blocks, {"tool"})
       /\ i = "cohere" =>
            /\ \A j \in DOMAIN v : j \in DOMAIN p.blocks /\ v[j] = p.blocks[j] /\ v[j] # "thinking"
            /\ \A j \in DOMAIN p.blocks : p.blocks[j] \in {"text", "tool"} => j \in DOMAIN v
            /\ w.opened = Listed(p.blocks, {"text", "tool"})
       /\ i = "responses" =>
            /\ v = p.blocks /\ w.opened = Listed(p.blocks, Blocks)
            /\ w.output \subseteq DOMAIN p.blocks
            /\ \A j \in DOMAIN p.blocks : p.blocks[j] = "done" => j \in w.output

\* What an event makes of it.
Shows(i, p, w, v, ev) ==
  \E u \in Boards : /\ Run(Showings(egress, i), v, Written(w, ev).out, u)
                    /\ Shelved(i, NextTally(p, ev), Written(w, ev).st, u)

\* A single frame, or none.
LEMMA ShowsOne ==
  ASSUME NEW i, NEW p, NEW w, NEW v \in Boards, NEW ev, NEW f \in AnyFrame,
         Written(w, ev).out = <<f>>, Pairs(egress, i, v, f),
         Shelved(i, NextTally(p, ev), Written(w, ev).st, ShownAfter(i, v, f))
  PROVE  Shows(i, p, w, v, ev)
BY ShowingIs DEF Shows

\* No frame.
LEMMA ShowsNone ==
  ASSUME NEW i, NEW p, NEW w, NEW v \in Boards, NEW ev, Written(w, ev).out = <<>>,
         Shelved(i, NextTally(p, ev), Written(w, ev).st, v)
  PROVE  Shows(i, p, w, v, ev)
BY RunNothing DEF Shows

-----------------------------------------------------------------------------
(* The blocks a writer has listed.                                         *)

\* What is listed.
LEMMA InListed ==
  ASSUME NEW b, NEW kinds, NEW x
  PROVE  x \in Listed(b, kinds) <=> \E i \in DOMAIN b : b[i] \in kinds /\ x = <<b[i], i>>
BY Zenon DEF Listed

\* A board that is clear has none listed.
LEMMA ListedClear ==
  ASSUME NEW b, Clear(b), NEW kinds, "done" \notin kinds
  PROVE  Listed(b, kinds) = {}
<1>1. ASSUME NEW x \in Listed(b, kinds) PROVE FALSE
  BY InListed DEF Clear
<1>2. QED BY <1>1

\* A block begun is listed if it is of the kinds.
LEMMA ListedBegun ==
  ASSUME NEW b \in Boards, NEW i \in Nat, i \notin DOMAIN b \/ b[i] = "done",
         NEW k \in Blocks, NEW kinds, "done" \notin kinds
  PROVE  /\ k \in kinds => Listed(Put(b, i, k), kinds) = Listed(b, kinds) \cup {<<k, i>>}
         /\ k \notin kinds => Listed(Put(b, i, k), kinds) = Listed(b, kinds)
<1> DEFINE c == Put(b, i, k)
<1>0. k \in BlockStates
  BY DEF BlockStates
<1>1. DOMAIN c = DOMAIN b \cup {i} /\ c[i] = k /\ \A j \in DOMAIN b : j # i => c[j] = b[j]
  BY <1>0, PutTyped, Zenon
<1> HIDE DEF c
<1>2. ASSUME NEW x \in Listed(b, kinds) PROVE x \in Listed(c, kinds)
  <2>1. PICK j \in DOMAIN b : b[j] \in kinds /\ x = <<b[j], j>>
    BY InListed
  <2>2. j # i
    BY <2>1
  <2>3. j \in DOMAIN c /\ c[j] = b[j]
    BY <1>1, <2>2
  <2>4. QED BY <2>1, <2>3, InListed
<1>3. ASSUME NEW x \in Listed(c, kinds)
      PROVE  x \in Listed(b, kinds) \/ (k \in kinds /\ x = <<k, i>>)
  <2>1. PICK j \in DOMAIN c : c[j] \in kinds /\ x = <<c[j], j>>
    BY InListed
  <2>2. CASE j = i
    BY <1>1, <2>1, <2>2
  <2>3. CASE j # i
    <3>1. j \in DOMAIN b /\ c[j] = b[j]
      BY <1>1, <2>3
    <3>2. QED BY <2>1, <3>1, InListed
  <2>4. QED BY <2>2, <2>3
<1>4. k \in kinds => <<k, i>> \in Listed(c, kinds)
  BY <1>1, InListed
<1>5. QED BY <1>2, <1>3, <1>4 DEF c

\* A block ended is listed no more.
LEMMA ListedEnded ==
  ASSUME NEW b \in Boards, NEW i \in DOMAIN b, NEW kinds, "done" \notin kinds
  PROVE  /\ Listed(Put(b, i, "done"), kinds) = Listed(b, kinds) \ {<<b[i], i>>}
         /\ b[i] \notin kinds => Listed(Put(b, i, "done"), kinds) = Listed(b, kinds)
<1> DEFINE c == Put(b, i, "done")
<1>0. i \in Nat /\ "done" \in BlockStates
  BY BoardTyped DEF BlockStates
<1>1. DOMAIN c = DOMAIN b \cup {i} /\ c[i] = "done" /\ \A j \in DOMAIN b : j # i => c[j] = b[j]
  BY <1>0, PutTyped, Zenon
<1> HIDE DEF c
<1>2. ASSUME NEW x \in Listed(c, kinds) PROVE x \in Listed(b, kinds) \ {<<b[i], i>>}
  <2>1. PICK j \in DOMAIN c : c[j] \in kinds /\ x = <<c[j], j>>
    BY InListed
  <2>2. j # i
    BY <1>1, <2>1
  <2>3. j \in DOMAIN b /\ c[j] = b[j] /\ x # <<b[i], i>>
    BY <1>1, <2>1, <2>2
  <2>4. QED BY <2>1, <2>3, InListed
<1>3. ASSUME NEW x \in Listed(b, kinds), x # <<b[i], i>> PROVE x \in Listed(c, kinds)
  <2>1. PICK j \in DOMAIN b : b[j] \in kinds /\ x = <<b[j], j>>
    BY InListed
  <2>2. j # i
    BY <1>3, <2>1
  <2>3. j \in DOMAIN c /\ c[j] = b[j]
    BY <1>1, <2>2
  <2>4. QED BY <2>1, <2>3, InListed
<1>4. b[i] \notin kinds => <<b[i], i>> \notin Listed(b, kinds)
  <2>1. ASSUME <<b[i], i>> \in Listed(b, kinds) PROVE b[i] \in kinds
    <3>1. PICK j \in DOMAIN b : b[j] \in kinds /\ <<b[i], i>> = <<b[j], j>>
      BY <2>1, InListed
    <3>2. QED BY <3>1
  <2>2. QED BY <2>1
<1>5. Listed(c, kinds) = Listed(b, kinds) \ {<<b[i], i>>}
  BY <1>2, <1>3
<1>6. QED BY <1>4, <1>5 DEF c

\* A pair that is listed.
LEMMA PairListed ==
  ASSUME NEW b, NEW kinds, NEW k, NEW i
  PROVE  <<k, i>> \in Listed(b, kinds) <=> i \in DOMAIN b /\ b[i] = k /\ k \in kinds
<1>1. ASSUME <<k, i>> \in Listed(b, kinds) PROVE i \in DOMAIN b /\ b[i] = k /\ k \in kinds
  <2>1. PICK j \in DOMAIN b : b[j] \in kinds /\ <<k, i>> = <<b[j], j>>
    BY <1>1, InListed
  <2>2. j = i /\ b[j] = k
    BY <2>1
  <2>3. QED BY <2>1, <2>2
<1>2. ASSUME i \in DOMAIN b, b[i] = k, k \in kinds PROVE <<k, i>> \in Listed(b, kinds)
  BY <1>2, InListed
<1>3. QED BY <1>1, <1>2

-----------------------------------------------------------------------------
(* What an event that fits means for a tally.                              *)

\* The stage it comes in, and what it tells.
LEMMA AddsSays ==
  ASSUME NEW e, NEW p \in Tallies, NEW ev \in Events, Adds(e, p, ev)
  PROVE  /\ p.stage \in {"open", "delta", "over"} /\ p.blocks \in Boards
         /\ ev.type \in {"MessageStart", "BlockStart", "BlockDelta", "BlockStop"} => p.stage = "open"
         /\ ev.type = "BlockStart" => /\ ev.index \in Nat /\ ev.kind \in Blocks
                                      /\ ev.index \notin DOMAIN p.blocks \/ p.blocks[ev.index] = "done"
         /\ ev.type = "BlockDelta" => /\ ev.kind \in Blocks \cup {"citations"}
                                      /\ ev.kind # "citations" => p.blocks[ev.index] = ev.kind
         /\ ev.type = "BlockStop" => /\ ev.index \in Nat /\ ev.index \in DOMAIN p.blocks
                                     /\ p.blocks[ev.index] \in Blocks
         /\ ev.type = "MessageStart" => p.blocks = <<>>
<1>1. p.stage \in {"open", "delta", "over"} /\ p.blocks \in Boards
      /\ (p.stage # "open" => Clear(p.blocks))
  BY DEF Tallies
<1>2. ev.type = "BlockStart" => ev.index \in Nat /\ ev.kind \in Blocks
  BY EventCases DEF BlockStarts
<1>3. ev.type = "BlockDelta" => ev.kind \in Blocks \cup {"citations"}
  BY EventCases DEF BlockDeltas
<1>4. ev.type = "BlockStop" => ev.index \in Nat
  BY EventCases DEF BlockStops
<1>5. ev.type = "BlockDelta" => ev.index \in DOMAIN p.blocks /\ p.blocks[ev.index] # "done"
  BY <1>3 DEF Adds, OfKind, Blocks
<1>6. ev.type = "BlockStop" => ev.index \in DOMAIN p.blocks /\ p.blocks[ev.index] # "done"
  BY DEF Adds, Holding
<1>7. ev.type = "BlockStop" => p.blocks[ev.index] \in Blocks
  BY <1>1, <1>6, BoardTyped DEF BlockStates
<1>8. ev.type = "MessageStart" => p.blocks = <<>>
  BY <1>1, EmptyBoard DEF Adds
<1>9. ev.type \in {"BlockDelta", "BlockStop"} => p.stage = "open"
  BY <1>1, <1>5, <1>6 DEF Clear
<1>10. QED BY <1>1, <1>2, <1>3, <1>4, <1>6, <1>7, <1>8, <1>9 DEF Adds, OfKind

\* Where it takes the tally.
LEMMA NextSays ==
  ASSUME NEW p, NEW ev
  PROVE  /\ ev.type = "BlockStart" => /\ NextTally(p, ev).stage = p.stage
                                      /\ NextTally(p, ev).blocks = Put(p.blocks, ev.index, ev.kind)
         /\ ev.type = "BlockStop" => /\ NextTally(p, ev).stage = p.stage
                                     /\ NextTally(p, ev).blocks = Put(p.blocks, ev.index, "done")
         /\ ev.type \in {"MessageStart", "BlockDelta", "Error"} =>
              NextTally(p, ev).stage = p.stage /\ NextTally(p, ev).blocks = p.blocks
         /\ ev.type \in {"MessageDelta", "MessageStop"} =>
              NextTally(p, ev).stage # "open" /\ NextTally(p, ev).blocks = p.blocks
BY DEF NextTally

\* The members that only some frames have.
LEMMA EventFields ==
  ASSUME NEW ev \in Events
  PROVE  /\ ev.type = "BlockStop" => "kind" \notin DOMAIN ev
         /\ ev.type \in Finals => "output" \notin DOMAIN ev
         /\ ev \in AnyFrame
<1>1. ev.type = "BlockStop" => "kind" \notin DOMAIN ev
  BY EventCases DEF BlockStops
<1>2. ev.type \in Finals => "output" \notin DOMAIN ev
  BY EventCases DEF MessageDeltas, MessageStops, Finals
<1>3. QED BY <1>1, <1>2, EventCases DEF AnyFrame

\* The blocks of a tally after one is begun or ended.
LEMMA NextBlocks ==
  ASSUME NEW e, NEW p \in Tallies, NEW ev \in Events, Adds(e, p, ev)
  PROVE  LET c == NextTally(p, ev).blocks
         IN  /\ ev.type = "BlockStart" =>
                  /\ DOMAIN c = DOMAIN p.blocks \cup {ev.index} /\ c[ev.index] = ev.kind
                  /\ \A j \in DOMAIN p.blocks : j # ev.index => c[j] = p.blocks[j]
             /\ ev.type = "BlockStop" =>
                  /\ DOMAIN c = DOMAIN p.blocks /\ c[ev.index] = "done"
                  /\ \A j \in DOMAIN p.blocks : j # ev.index => c[j] = p.blocks[j]
<1> DEFINE c == NextTally(p, ev).blocks
<1>3. CASE ev.type = "BlockStart"
  <2>1. ev.index \in Nat /\ ev.kind \in BlockStates /\ c = Put(p.blocks, ev.index, ev.kind)
    BY <1>3, AddsSays, NextSays DEF BlockStates
  <2> HIDE DEF c
  <2>2. /\ DOMAIN c = DOMAIN p.blocks \cup {ev.index} /\ c[ev.index] = ev.kind
        /\ \A j \in DOMAIN p.blocks : j # ev.index => c[j] = p.blocks[j]
    BY <2>1 DEF Put
  <2>3. QED BY <1>3, <2>2 DEF c
<1>4. CASE ev.type = "BlockStop"
  <2>1. ev.index \in Nat /\ "done" \in BlockStates /\ c = Put(p.blocks, ev.index, "done")
    BY <1>4, AddsSays, NextSays DEF BlockStates
  <2>2. DOMAIN p.blocks \cup {ev.index} = DOMAIN p.blocks
    BY <1>4, AddsSays
  <2> HIDE DEF c
  <2>3. /\ DOMAIN c = DOMAIN p.blocks \cup {ev.index} /\ c[ev.index] = "done"
        /\ \A j \in DOMAIN p.blocks : j # ev.index => c[j] = p.blocks[j]
    BY <2>1 DEF Put
  <2>4. QED BY <1>4, <2>2, <2>3 DEF c
<1>5. QED BY <1>3, <1>4

-----------------------------------------------------------------------------
(* Each writer shows its client what the events tell.                      *)

\* What is shown after an event that is passed on.
LEMMA AfterEvent ==
  ASSUME NEW i, NEW v, NEW ev
  PROVE  /\ ev.type = "BlockStart" => ShownAfter(i, v, ev) = Put(v, ev.index, ev.kind)
         /\ ev.type = "BlockStop" => ShownAfter(i, v, ev) = Put(v, ev.index, "done")
         /\ ev.type \notin {"BlockStart", "BlockStop"} /\ i # "openai" => ShownAfter(i, v, ev) = v
BY DEF ShownAfter

\* A client of anthropic or bedrock sees the blocks as they are told.
LEMMA ToldAsIs ==
  ASSUME NEW i \in {"anthropic", "bedrock"}, NEW p \in Tallies, NEW w, NEW v, NEW ev \in Events,
         Adds(egress, p, ev), Shelved(i, p, w, v)
  PROVE  /\ Pairs(egress, i, v, ev)
         /\ Shelved(i, NextTally(p, ev), w, ShownAfter(i, v, ev))
         /\ ev.type \in Finals => Clear(v)
         /\ ev.type \notin {"BlockStart", "BlockStop"} => Shelved(i, NextTally(p, ev), w, v)
<1>1. /\ w.opened = {}
      /\ p.stage = "open" => v = p.blocks
      /\ p.stage # "open" => Clear(v)
  BY DEF Shelved
<1>2. ev.type \in Finals => Clear(v)
  <2>1. ev.type \in Finals => Clear(p.blocks)
    BY EventCases DEF Adds, Finals
  <2>2. QED BY <1>1, <2>1
<1>3. Pairs(egress, i, v, ev)
  <2>1. ev.type = "BlockStart" => ev.index \notin DOMAIN v \/ (egress = "cohere" /\ v[ev.index] = "done")
    BY <1>1, AddsSays DEF Adds
  <2>2. ev.type = "BlockDelta" => ev.index \in DOMAIN v /\ v[ev.index] = OfKind(ev.kind)
    BY <1>1, AddsSays DEF Adds
  <2>3. ev.type = "BlockStop" => Holding(v, ev.index) /\ "kind" \notin DOMAIN ev
    BY <1>1, AddsSays, EventFields DEF Adds
  <2>4. QED BY <1>2, <2>1, <2>2, <2>3, EventFields DEF Pairs
<1>4. Shelved(i, NextTally(p, ev), w, ShownAfter(i, v, ev))
  <2>1. NextTally(p, ev).stage = "open" => ShownAfter(i, v, ev) = NextTally(p, ev).blocks
    BY <1>1, AddsSays, NextSays, AfterEvent, EventCases
  <2>2. NextTally(p, ev).stage # "open" => Clear(ShownAfter(i, v, ev))
    BY <1>1, <1>2, AddsSays, NextSays, AfterEvent, EventCases DEF Finals
  <2>3. QED BY <1>1, <2>1, <2>2 DEF Shelved
<1>5. QED BY <1>2, <1>3, <1>4, AfterEvent

\* The anthropic writer.
LEMMA AnthropicShows ==
  ASSUME ingress = "anthropic", NEW p \in Tallies, NEW w \in Writer, NEW v \in Boards,
         NEW ev \in Events, Adds(egress, p, ev), Shelved(ingress, p, w, v)
  PROVE  Shows(ingress, p, w, v, ev)
<1>1. Written(w, ev).st = w /\ Written(w, ev).out = <<ev>>
  BY DEF Written, AnthropicWrite, Writes
<1>2. QED BY <1>1, ToldAsIs, EventFields, ShowsOne

\* The bedrock writer.
LEMMA BedrockShows ==
  ASSUME ingress = "bedrock", NEW p \in Tallies, NEW w \in Writer, NEW v \in Boards,
         NEW ev \in Events, Adds(egress, p, ev), Shelved(ingress, p, w, v)
  PROVE  Shows(ingress, p, w, v, ev)
<1>1. Written(w, ev) = BedrockWrite(w, ev)
  BY DEF Written
<1>2. CASE Written(w, ev).st = w /\ Written(w, ev).out = <<ev>>
  BY <1>2, ToldAsIs, EventFields, ShowsOne
<1>3. CASE Written(w, ev).st = w /\ Written(w, ev).out = <<>> /\ ev.type \notin {"BlockStart", "BlockStop"}
  BY <1>3, ToldAsIs, ShowsNone
<1>4. CASE ev.type = "BlockDelta"
  <2>1. Written(w, ev).st = w /\ Written(w, ev).out = Only(ev.kind # "citations", ev)
    BY <1>1, <1>4 DEF BedrockWrite, Writes
  <2>2. Written(w, ev).out \in {<<>>, <<ev>>}
    BY Zenon, <2>1 DEF Only
  <2>3. QED BY <1>2, <1>3, <1>4, <2>1, <2>2
<1>5. CASE ev.type = "MessageStop"
  <2>1. Written(w, ev).st = w /\ Written(w, ev).out = <<>>
    BY <1>1, <1>5 DEF BedrockWrite, Writes
  <2>2. QED BY <1>3, <1>5, <2>1
<1>6. CASE ev.type = "MessageDelta"
  <2> DEFINE f == Frame("Metadata")
  <2>1. Written(w, ev).st = w /\ Written(w, ev).out = <<IF ev.final THEN ev ELSE f>>
    BY <1>1, <1>6 DEF BedrockWrite, Writes
  <2>2. Clear(v) /\ Shelved(ingress, NextTally(p, ev), w, v)
    BY <1>6, ToldAsIs DEF Finals
  <2>3. f \in AnyFrame /\ f.type = "Metadata" /\ "output" \notin DOMAIN f
    BY FramesTyped DEF AnyFrame, Frame
  <2> HIDE DEF f
  <2>4. Pairs(egress, ingress, v, f) /\ ShownAfter(ingress, v, f) = v
    BY <2>2, <2>3 DEF Pairs, ShownAfter, Finals
  <2>5. QED BY <1>2, <2>1, <2>2, <2>3, <2>4, ShowsOne
<1>7. CASE ev.type \notin {"BlockDelta", "MessageStop", "MessageDelta"}
  <2>1. Written(w, ev).st = w /\ Written(w, ev).out = <<ev>>
    BY <1>1, <1>7 DEF BedrockWrite, Writes
  <2>2. QED BY <1>2, <2>1
<1>8. QED BY <1>4, <1>5, <1>6, <1>7

\* The openai writer.
LEMMA OpenAiShows ==
  ASSUME ingress = "openai", NEW p \in Tallies, NEW w \in Writer, NEW v \in Boards,
         NEW ev \in Events, Adds(egress, p, ev), Shelved(ingress, p, w, v)
  PROVE  Shows(ingress, p, w, v, ev)
<1> DEFINE b == p.blocks
           c == NextTally(p, ev).blocks
           Copies(u) == /\ \A j \in DOMAIN u : u[j] = "tool" /\ j \in DOMAIN c
                        /\ \A j \in DOMAIN c : c[j] = "tool" => j \in DOMAIN u
<1>1. Written(w, ev) = OpenAiWrite(w, ev)
  BY DEF Written
<1>2. /\ w.opened = {} /\ b \in Boards
      /\ p.stage = "open" => /\ \A j \in DOMAIN v : v[j] = "tool" /\ j \in DOMAIN b
                             /\ \A j \in DOMAIN b : b[j] = "tool" => j \in DOMAIN v
  BY AddsSays DEF Shelved
<1>3. ASSUME NEW u, NextTally(p, ev).stage = "open" => Copies(u) PROVE Shelved(ingress, NextTally(p, ev), w, u)
  BY <1>2, <1>3 DEF Shelved
<1> HIDE DEF c
<1>4. CASE ev.type = "BlockStart"
  <2>1. /\ p.stage = "open" /\ ev.index \in Nat /\ ev.kind \in Blocks /\ ev.kind \in BlockStates
        /\ ev.index \notin DOMAIN b \/ b[ev.index] = "done"
        /\ ev.kind = "tool" => ev.index \notin DOMAIN b
    BY <1>4, AddsSays DEF Adds, BlockStates
  <2>2. /\ DOMAIN c = DOMAIN b \cup {ev.index} /\ c[ev.index] = ev.kind
        /\ \A j \in DOMAIN b : j # ev.index => c[j] = b[j]
    BY <1>4, NextBlocks DEF c
  <2>3. Written(w, ev).st = w /\ Written(w, ev).out = Only(ev.kind = "tool", ev)
    BY <1>1, <1>4 DEF OpenAiWrite, Writes
  <2>4. CASE ev.kind = "tool"
    <3>1. Written(w, ev).out = <<ev>>
      BY Zenon, <2>3, <2>4 DEF Only
    <3>2. Pairs(egress, ingress, v, ev) /\ ev \in AnyFrame
      BY <1>2, <1>4, <2>1, <2>4, EventFields DEF Pairs, Finals
    <3> DEFINE u == ShownAfter(ingress, v, ev)
    <3>3. DOMAIN u = DOMAIN v \cup {ev.index} /\ u[ev.index] = "tool"
          /\ \A j \in DOMAIN v : j # ev.index => u[j] = v[j]
      <4>1. u = Put(v, ev.index, ev.kind)
        BY <1>4, AfterEvent
      <4>2. ev.index \in Nat /\ ev.kind \in BlockStates
        BY <2>1
      <4>3. DOMAIN u = DOMAIN v \cup {ev.index} /\ u[ev.index] = ev.kind
            /\ \A j \in DOMAIN v : j # ev.index => u[j] = v[j]
        BY <4>1, <4>2 DEF Put
      <4>4. QED BY <2>4, <4>3
    <3> HIDE DEF u
    <3>4. Copies(u)
      BY <1>2, <2>1, <2>2, <2>4, <3>3
    <3>5. Shelved(ingress, NextTally(p, ev), w, u)
      BY <1>3, <3>4
    <3>6. QED BY <2>3, <3>1, <3>2, <3>5, ShowsOne DEF u
  <2>5. CASE ev.kind # "tool"
    <3>1. Written(w, ev).out = <<>>
      BY Zenon, <2>3, <2>5 DEF Only
    <3>3. Copies(v)
      BY <1>2, <2>1, <2>2, <2>5
    <3>4. Shelved(ingress, NextTally(p, ev), w, v)
      BY <1>3, <3>3
    <3>5. QED BY <2>3, <3>1, <3>4, ShowsNone
  <2>6. QED BY <2>4, <2>5
<1>5. ASSUME ev.type \in {"MessageStart", "BlockDelta", "Error"}
      PROVE  Shelved(ingress, NextTally(p, ev), w, v)
  <2>1. c = b /\ NextTally(p, ev).stage = p.stage
    BY <1>5, NextSays DEF c
  <2>2. QED BY <1>2, <1>3, <2>1
<1>6. CASE ev.type = "BlockDelta"
  <2>1. Written(w, ev).st = w /\ Written(w, ev).out = Only(ev.kind \in {"text", "tool"}, ev)
    BY <1>1, <1>6 DEF OpenAiWrite, Writes
  <2>2. CASE ev.kind \in {"text", "tool"}
    <3>1. Written(w, ev).out = <<ev>>
      BY Zenon, <2>1, <2>2 DEF Only
    <3>2. p.stage = "open" /\ (ev.kind = "tool" => ev.index \in DOMAIN b /\ b[ev.index] = "tool")
      BY <1>6, AddsSays DEF Adds
    <3>3. Pairs(egress, ingress, v, ev) /\ ShownAfter(ingress, v, ev) = v /\ ev \in AnyFrame
      BY <1>2, <1>6, <2>2, <3>2, EventFields DEF Pairs, ShownAfter, Finals, OfKind
    <3>4. QED BY <1>5, <1>6, <2>1, <3>1, <3>3, ShowsOne
  <2>3. CASE ev.kind \notin {"text", "tool"}
    <3>1. Written(w, ev).out = <<>>
      BY Zenon, <2>1, <2>3 DEF Only
    <3>2. QED BY <1>5, <1>6, <2>1, <3>1, ShowsNone
  <2>4. QED BY <2>2, <2>3
<1>7. CASE ev.type = "BlockStop"
  <2>1. Written(w, ev).st = w /\ Written(w, ev).out = <<>>
    BY <1>1, <1>7 DEF OpenAiWrite, Writes
  <2>2. p.stage = "open" /\ ev.index \in Nat /\ ev.index \in DOMAIN b /\ "done" \in BlockStates
    BY <1>7, AddsSays DEF BlockStates
  <2>3. /\ DOMAIN c = DOMAIN b /\ c[ev.index] = "done"
        /\ \A j \in DOMAIN b : j # ev.index => c[j] = b[j]
    BY <1>7, NextBlocks DEF c
  <2>4. Copies(v)
    BY <1>2, <2>2, <2>3
  <2>5. Shelved(ingress, NextTally(p, ev), w, v)
    BY <1>3, <2>4
  <2>6. QED BY <2>1, <2>5, ShowsNone
<1>8. CASE ev.type = "MessageStop"
  <2>1. Written(w, ev).st = w /\ Written(w, ev).out = <<>>
    BY <1>1, <1>8 DEF OpenAiWrite, Writes
  <2>2. Shelved(ingress, NextTally(p, ev), w, v)
    BY <1>3, <1>8, NextSays
  <2>3. QED BY <2>1, <2>2, ShowsNone
<1>9. CASE ev.type = "MessageDelta"
  <2> DEFINE d == ev.final /\ ev.usage # ZeroUsage
             f == Frame("Trailer")
             o == Written(w, ev).out
             M == Showings(egress, ingress)
  <2>1. Written(w, ev).st = w /\ o = <<ev>> \o Only(d, f)
    BY <1>1, <1>9 DEF OpenAiWrite, Writes
  <2>2. Only(d, f) = <<>> \/ Only(d, f) = <<f>>
    BY Zenon DEF Only
  <2>3. f \in Mute /\ f.type = "Trailer" /\ f \in AnyFrame
    BY FramesTyped DEF Mute, Frame, Finals, AnyFrame
  <2> HIDE DEF d, f, o, M
  <2>4. Pairs(egress, ingress, v, ev) /\ ShownAfter(ingress, v, ev) = <<>> /\ ev \in AnyFrame
    BY <1>9, EventFields DEF Pairs, ShownAfter, Finals
  <2>5. Run(M, v, <<ev>>, <<>>)
    BY <2>4, ShowingIs DEF M
  <2>6. Run(M, <<>>, <<f>>, <<>>)
    <3>1. Pairs(egress, ingress, <<>>, f) /\ ShownAfter(ingress, <<>>, f) = <<>>
      BY <2>3, EmptyBoard, MuteShown
    <3>2. <<>> \in Boards
      BY EmptyBoard
    <3> DEFINE z == <<>>
    <3>3. z \in Boards /\ Pairs(egress, ingress, z, f) /\ ShownAfter(ingress, z, f) = z
      BY <3>1, <3>2
    <3> HIDE DEF z
    <3>4. Run(M, z, <<f>>, z)
      BY <2>3, <3>3, ShowingIs DEF M
    <3>5. QED BY <3>4 DEF z
  <2>7. Run(M, <<>>, Only(d, f), <<>>)
    BY <2>2, <2>6, RunNothing
  <2>8. <<ev>> \in Seq(AnyFrame) /\ Only(d, f) \in Seq(AnyFrame)
    BY <2>2, <2>3, <2>4, ShortSeqs
  <2>9. Run(M, v, o, <<>>)
    BY <2>1, <2>5, <2>7, <2>8, RunBoth
  <2>10. Shelved(ingress, NextTally(p, ev), w, <<>>)
    BY <1>3, <1>9, NextSays
  <2>11. QED BY <2>1, <2>9, <2>10, EmptyBoard DEF Shows, o, M
<1>10. CASE ev.type \in {"MessageStart", "Error"}
  <2>1. Written(w, ev).st = w /\ Written(w, ev).out = <<ev>>
    BY <1>1, <1>10 DEF OpenAiWrite, Writes
  <2>2. Pairs(egress, ingress, v, ev) /\ ShownAfter(ingress, v, ev) = v /\ ev \in AnyFrame
    BY <1>10, EventFields DEF Pairs, ShownAfter, Finals
  <2>3. QED BY <1>5, <1>10, <2>1, <2>2, ShowsOne
<1>11. QED BY <1>4, <1>6, <1>7, <1>8, <1>9, <1>10, EventCases

\* The gemini writer.
LEMMA GeminiShows ==
  ASSUME ingress = "gemini", NEW p \in Tallies, NEW w \in Writer, NEW v \in Boards,
         NEW ev \in Events, Adds(egress, p, ev), Shelved(ingress, p, w, v)
  PROVE  Shows(ingress, p, w, v, ev)
<1> DEFINE b == p.blocks
           q == NextTally(p, ev)
           K == {"tool"}
<1>1. Written(w, ev) = GeminiWrite(w, ev)
  BY DEF Written
<1>2. /\ p.stage = "open" => v = <<>> /\ w.opened = Listed(b, K)
      /\ p.stage # "open" => w.opened = {} /\ Clear(v)
      /\ b \in Boards
  BY AddsSays DEF Shelved
<1>3. ASSUME NEW x, p.stage = "open", q.stage = "open", x.opened = Listed(q.blocks, K)
      PROVE  Shelved(ingress, q, x, v)
  BY <1>2, <1>3 DEF Shelved
<1> HIDE DEF q
<1>4. CASE ev.type = "BlockStart"
  <2>1. /\ p.stage = "open" /\ ev.index \in Nat /\ ev.kind \in Blocks
        /\ ev.index \notin DOMAIN b \/ b[ev.index] = "done"
        /\ q.stage = "open" /\ q.blocks = Put(b, ev.index, ev.kind)
    BY <1>4, AddsSays, NextSays DEF q
  <2>2. Written(w, ev).out = <<>> /\ Written(w, ev).st = IF ev.kind = "tool" THEN Begin(w, ev) ELSE w
    BY <1>1, <1>4 DEF GeminiWrite, Writes
  <2>3. /\ ev.kind \in K => Listed(q.blocks, K) = Listed(b, K) \cup {<<ev.kind, ev.index>>}
        /\ ev.kind \notin K => Listed(q.blocks, K) = Listed(b, K)
    BY <1>2, <2>1, ListedBegun
  <2>4. Begin(w, ev).opened = w.opened \cup {<<ev.kind, ev.index>>}
    BY DEF Begin, Writer
  <2>5. Written(w, ev).st.opened = Listed(q.blocks, K)
    BY <1>2, <2>1, <2>2, <2>3, <2>4
  <2>6. Shelved(ingress, q, Written(w, ev).st, v)
    BY <1>3, <2>1, <2>5
  <2>7. QED BY <2>2, <2>6, ShowsNone DEF q
<1>5. CASE ev.type = "BlockDelta"
  <2>1. Written(w, ev).st = w /\ Written(w, ev).out = Only(ev.kind # "tool", ev)
    BY <1>1, <1>5 DEF GeminiWrite, Writes
  <2>2. p.stage = "open" /\ q.stage = "open" /\ q.blocks = b
    BY <1>5, AddsSays, NextSays DEF q
  <2>3. Shelved(ingress, q, w, v)
    BY <1>2, <1>3, <2>2
  <2>4. Pairs(egress, ingress, v, ev) /\ ShownAfter(ingress, v, ev) = v /\ ev \in AnyFrame
    BY <1>5, EventFields DEF Pairs, ShownAfter, Finals
  <2>5. Written(w, ev).out \in {<<>>, <<ev>>}
    BY Zenon, <2>1 DEF Only
  <2>6. QED BY <2>1, <2>3, <2>4, <2>5, ShowsOne, ShowsNone DEF q
<1>6. CASE ev.type = "BlockStop"
  <2> DEFINE f == Frame("Call")
  <2>1. /\ Written(w, ev).st = End(w, "tool", ev.index)
        /\ Written(w, ev).out = Only(<<"tool", ev.index>> \in w.opened, f)
    BY <1>1, <1>6 DEF GeminiWrite, Writes
  <2>2. f \in Mute /\ f \in AnyFrame
    BY FramesTyped DEF Mute, Frame, Finals, AnyFrame
  <2> HIDE DEF f
  <2>3. /\ p.stage = "open" /\ ev.index \in DOMAIN b /\ b[ev.index] \in Blocks
        /\ q.stage = "open" /\ q.blocks = Put(b, ev.index, "done")
    BY <1>6, AddsSays, NextSays DEF q
  <2>4. End(w, "tool", ev.index).opened = w.opened \ {<<"tool", ev.index>>}
    BY DEF End, Writer
  <2>5. Listed(q.blocks, K) = Listed(b, K) \ {<<"tool", ev.index>>}
    <3>1. /\ Listed(q.blocks, K) = Listed(b, K) \ {<<b[ev.index], ev.index>>}
          /\ b[ev.index] \notin K => Listed(q.blocks, K) = Listed(b, K)
      BY <1>2, <2>3, ListedEnded
    <3>2. b[ev.index] # "tool" => <<"tool", ev.index>> \notin Listed(b, K)
      BY PairListed
    <3>3. QED BY <3>1, <3>2
  <2>6. Shelved(ingress, q, Written(w, ev).st, v)
    BY <1>2, <1>3, <2>1, <2>3, <2>4, <2>5
  <2>a. ingress # "openai"
    OBVIOUS
  <2>7. Pairs(egress, ingress, v, f) /\ ShownAfter(ingress, v, f) = v
    BY <2>2, <2>a, MuteShown
  <2>8. Written(w, ev).out \in {<<>>, <<f>>}
    BY Zenon, <2>1 DEF Only
  <2>9. QED BY <2>2, <2>6, <2>7, <2>8, ShowsOne, ShowsNone DEF q
<1>7. CASE ev.type \in {"MessageStop", "MessageDelta"}
  <2>1. Written(w, ev).st = w /\ Written(w, ev).out \in {<<>>, <<ev>>}
    BY <1>1, <1>7 DEF GeminiWrite, Writes
  <2>2. Clear(b) /\ q.stage # "open"
    BY <1>7, NextSays DEF Adds, q
  <2>3. w.opened = {} /\ Clear(v)
    <3>1. Listed(b, K) = {}
      BY <2>2, ListedClear
    <3>2. QED BY <1>2, <3>1, EmptyBoard
  <2>4. Shelved(ingress, q, w, v)
    BY <2>2, <2>3 DEF Shelved
  <2>5. Pairs(egress, ingress, v, ev) /\ ShownAfter(ingress, v, ev) = v /\ ev \in AnyFrame
    BY <1>7, <2>3, EventFields DEF Pairs, ShownAfter, Finals
  <2>6. QED BY <2>1, <2>4, <2>5, ShowsOne, ShowsNone DEF q
<1>8. CASE ev.type \in {"MessageStart", "Error"}
  <2>1. Written(w, ev).st = w /\ Written(w, ev).out = <<ev>>
    BY <1>1, <1>8 DEF GeminiWrite, Writes
  <2>2. Shelved(ingress, q, w, v)
    <3>1. q.stage = p.stage /\ q.blocks = b
      BY <1>8, NextSays DEF q
    <3>2. QED BY <1>2, <3>1 DEF Shelved
  <2>3. Pairs(egress, ingress, v, ev) /\ ShownAfter(ingress, v, ev) = v /\ ev \in AnyFrame
    BY <1>8, EventFields DEF Pairs, ShownAfter, Finals
  <2>4. QED BY <2>1, <2>2, <2>3, ShowsOne DEF q
<1>9. QED BY <1>4, <1>5, <1>6, <1>7, <1>8, EventCases

\* What a writer finds open at an index is the block that is there.
LEMMA HeldIs ==
  ASSUME NEW b, NEW i \in DOMAIN b, NEW w, NEW K, w.opened = Listed(b, K),
         NEW kinds \in Seq(Blocks), \A k \in K : \E n \in DOMAIN kinds : kinds[n] = k,
         \A m, n \in DOMAIN kinds : kinds[m] = kinds[n] => m = n
  PROVE  /\ b[i] \in K => Held(w, i, kinds) = {b[i]}
         /\ b[i] \notin K => Held(w, i, kinds) = {}
<1> DEFINE found(n) == /\ <<kinds[n], i>> \in w.opened
                       /\ \A l \in 1 .. n - 1 : <<kinds[l], i>> \notin w.opened
<1>1. \A n \in DOMAIN kinds : <<kinds[n], i>> \in w.opened <=> b[i] = kinds[n] /\ b[i] \in K
  BY PairListed
<1>2. Held(w, i, kinds) = {kinds[n] : n \in {m \in DOMAIN kinds : found(m)}}
  BY Zenon DEF Held
<1>3. ASSUME NEW n \in DOMAIN kinds, found(n) PROVE b[i] = kinds[n] /\ b[i] \in K
  BY <1>1, <1>3
<1>4. ASSUME NEW n \in DOMAIN kinds, b[i] = kinds[n], b[i] \in K PROVE found(n)
  <2>1. <<kinds[n], i>> \in w.opened
    BY <1>1, <1>4
  <2>2. ASSUME NEW l \in 1 .. n - 1 PROVE <<kinds[l], i>> \notin w.opened
    <3>1. l \in DOMAIN kinds /\ l # n
      OBVIOUS
    <3>2. kinds[l] # b[i]
      BY <1>4, <3>1
    <3>3. QED BY <1>1, <3>1, <3>2
  <2>3. QED BY <2>1, <2>2
<1> HIDE DEF found
<1>5. ASSUME b[i] \in K PROVE Held(w, i, kinds) = {b[i]}
  <2>1. PICK n \in DOMAIN kinds : kinds[n] = b[i]
    BY <1>5
  <2>2. found(n)
    BY <1>4, <1>5, <2>1
  <2>3. b[i] \in Held(w, i, kinds)
    BY <1>2, <2>1, <2>2
  <2>4. ASSUME NEW x \in Held(w, i, kinds) PROVE x = b[i]
    BY <1>2, <1>3, <2>4
  <2>5. QED BY <2>3, <2>4
<1>6. ASSUME b[i] \notin K PROVE Held(w, i, kinds) = {}
  <2>1. ASSUME NEW x \in Held(w, i, kinds) PROVE FALSE
    BY <1>2, <1>3, <1>6, <2>1
  <2>2. QED BY <2>1
<1>7. QED BY <1>5, <1>6

\* For the kinds of the cohere writer and for those of the Responses writer.
LEMMA HeldHere ==
  ASSUME NEW b, NEW i \in DOMAIN b, NEW w
  PROVE  /\ w.opened = Listed(b, {"text", "tool"}) =>
              /\ b[i] \in {"text", "tool"} => Held(w, i, <<"tool", "text">>) = {b[i]}
              /\ b[i] \notin {"text", "tool"} => Held(w, i, <<"tool", "text">>) = {}
         /\ w.opened = Listed(b, Blocks) =>
              (b[i] \in Blocks => Held(w, i, <<"thinking", "tool", "text">>) = {b[i]})
<1> DEFINE two == <<"tool", "text">>
           three == <<"thinking", "tool", "text">>
           K == {"text", "tool"}
<1>1. /\ two \in Seq(Blocks) /\ \A k \in K : \E n \in DOMAIN two : two[n] = k
      /\ \A m, n \in DOMAIN two : two[m] = two[n] => m = n
  <2>1. two \in Seq(Blocks) /\ DOMAIN two = 1 .. 2 /\ two[1] = "tool" /\ two[2] = "text"
    BY DEF Blocks
  <2> HIDE DEF two
  <2>2. 1 \in 1 .. 2 /\ 2 \in 1 .. 2 /\ \A n \in 1 .. 2 : n = 1 \/ n = 2
    OBVIOUS
  <2>3. QED BY <2>1, <2>2
<1>2. /\ three \in Seq(Blocks) /\ \A k \in Blocks : \E n \in DOMAIN three : three[n] = k
      /\ \A m, n \in DOMAIN three : three[m] = three[n] => m = n
  <2>1. /\ three \in Seq(Blocks) /\ DOMAIN three = 1 .. 3
        /\ three[1] = "thinking" /\ three[2] = "tool" /\ three[3] = "text"
    BY DEF Blocks
  <2> HIDE DEF three
  <2>2. 1 \in 1 .. 3 /\ 2 \in 1 .. 3 /\ 3 \in 1 .. 3 /\ \A n \in 1 .. 3 : n = 1 \/ n = 2 \/ n = 3
    OBVIOUS
  <2>3. QED BY <2>1, <2>2 DEF Blocks
<1> HIDE DEF two, three, K
<1>3. w.opened = Listed(b, K) => /\ b[i] \in K => Held(w, i, two) = {b[i]}
                                 /\ b[i] \notin K => Held(w, i, two) = {}
  BY <1>1, HeldIs
<1>4. w.opened = Listed(b, Blocks) => (b[i] \in Blocks => Held(w, i, three) = {b[i]})
  BY <1>2, HeldIs
<1>5. QED BY <1>3, <1>4 DEF two, three, K

\* The member of a set of one.
LEMMA TheOne == \A x : The({x}) = x
BY DEF The

\* The cohere writer.
LEMMA CohereShows ==
  ASSUME ingress = "cohere", egress # "cohere", NEW p \in Tallies, NEW w \in Writer, NEW v \in Boards,
         NEW ev \in Events, Adds(egress, p, ev), Shelved(ingress, p, w, v)
  PROVE  Shows(ingress, p, w, v, ev)
<1> DEFINE b == p.blocks
           q == NextTally(p, ev)
           K == {"text", "tool"}
           Same(u, c) == /\ \A j \in DOMAIN u : j \in DOMAIN c /\ u[j] = c[j] /\ u[j] # "thinking"
                         /\ \A j \in DOMAIN c : c[j] \in K => j \in DOMAIN u
<1>1. Written(w, ev) = CohereWrite(w, ev)
  BY DEF Written
<1>2. /\ p.stage = "open" => Same(v, b) /\ w.opened = Listed(b, K)
      /\ p.stage # "open" => w.opened = {} /\ Clear(v)
      /\ b \in Boards /\ "done" \notin K
  BY AddsSays DEF Shelved
<1>3. ASSUME NEW x, NEW u, p.stage = "open", q.stage = "open",
             x.opened = Listed(q.blocks, K), Same(u, q.blocks)
      PROVE  Shelved(ingress, q, x, u)
  BY <1>2, <1>3 DEF Shelved
<1>a. ingress # "openai"
  OBVIOUS
<1> HIDE DEF q
<1>4. CASE ev.type = "BlockStart"
  <2>1. /\ p.stage = "open" /\ ev.index \in Nat /\ ev.kind \in Blocks
        /\ ev.index \notin DOMAIN b
        /\ q.stage = "open" /\ q.blocks = Put(b, ev.index, ev.kind)
        /\ DOMAIN q.blocks = DOMAIN b \cup {ev.index} /\ q.blocks[ev.index] = ev.kind
        /\ \A j \in DOMAIN b : j # ev.index => q.blocks[j] = b[j]
    <3>1. p.stage = "open" /\ ev.index \in Nat /\ ev.kind \in Blocks
      BY <1>4, AddsSays
    <3>2. ev.index \notin DOMAIN b
      BY <1>4 DEF Adds
    <3>3. q.stage = p.stage /\ q.blocks = Put(b, ev.index, ev.kind)
      BY <1>4, NextSays DEF q
    <3>4. /\ DOMAIN q.blocks = DOMAIN b \cup {ev.index} /\ q.blocks[ev.index] = ev.kind
          /\ \A j \in DOMAIN b : j # ev.index => q.blocks[j] = b[j]
      BY <1>4, NextBlocks DEF q
    <3>5. QED BY <3>1, <3>2, <3>3, <3>4
  <2>2. IF ev.kind = "thinking" THEN Written(w, ev).st = w /\ Written(w, ev).out = <<>>
                                ELSE Written(w, ev).st = Begin(w, ev) /\ Written(w, ev).out = <<ev>>
    BY <1>1, <1>4 DEF CohereWrite, Writes
  <2>3. /\ ev.kind \in K => Listed(q.blocks, K) = Listed(b, K) \cup {<<ev.kind, ev.index>>}
        /\ ev.kind \notin K => Listed(q.blocks, K) = Listed(b, K)
    BY <1>2, <2>1, ListedBegun
  <2>4. Begin(w, ev).opened = w.opened \cup {<<ev.kind, ev.index>>}
    BY DEF Begin, Writer
  <2>5. CASE ev.kind = "thinking"
    <3>1. Same(v, q.blocks)
      BY <1>2, <2>1, <2>5
    <3>2. w.opened = Listed(q.blocks, K)
      BY <1>2, <2>1, <2>3, <2>5
    <3>3. Shelved(ingress, q, w, v)
      BY <1>3, <2>1, <3>1, <3>2
    <3>4. QED BY <2>2, <2>5, <3>3, ShowsNone DEF q
  <2>6. CASE ev.kind # "thinking"
    <3>0. ev.kind \in K
      BY <2>1, <2>6 DEF Blocks
    <3> DEFINE u == ShownAfter(ingress, v, ev)
    <3>1. DOMAIN u = DOMAIN v \cup {ev.index} /\ u[ev.index] = ev.kind
          /\ \A j \in DOMAIN v : j # ev.index => u[j] = v[j]
      <4>1. u = Put(v, ev.index, ev.kind)
        BY <1>4, AfterEvent
      <4> HIDE DEF u
      <4>2. QED BY <4>1 DEF Put
    <3> HIDE DEF u
    <3>2. Same(u, q.blocks)
      BY <1>2, <2>1, <2>6, <3>0, <3>1
    <3>3. Begin(w, ev).opened = Listed(q.blocks, K)
      BY <1>2, <2>1, <2>3, <2>4, <3>0
    <3>4. Shelved(ingress, q, Begin(w, ev), u)
      BY <1>3, <2>1, <3>2, <3>3
    <3>5. Pairs(egress, ingress, v, ev) /\ ev \in AnyFrame
      <4>1. ev.index \notin DOMAIN v
        BY <1>2, <2>1
      <4>2. QED BY <1>4, <4>1, EventFields DEF Pairs, Finals
    <3>6. QED BY <2>2, <2>6, <3>4, <3>5, ShowsOne DEF q, u
  <2>7. QED BY <2>5, <2>6
<1>5. CASE ev.type = "BlockDelta"
  <2>1. Written(w, ev).st = w /\ Written(w, ev).out = Only(ev.kind \in {"text", "tool"}, ev)
    BY <1>1, <1>5 DEF CohereWrite, Writes
  <2>2. p.stage = "open" /\ q.stage = "open" /\ q.blocks = b
    BY <1>5, AddsSays, NextSays DEF q
  <2>3. Shelved(ingress, q, w, v)
    BY <1>2, <1>3, <2>2
  <2>4. ev \in AnyFrame /\ ShownAfter(ingress, v, ev) = v
    BY <1>5, EventFields DEF ShownAfter
  <2>5. CASE ev.kind \in K
    <3>1. Written(w, ev).out = <<ev>>
      BY Zenon, <2>1, <2>5 DEF Only
    <3>2. ev.index \in DOMAIN b /\ b[ev.index] = ev.kind
      BY <1>5, <2>5 DEF Adds, OfKind
    <3>3. ev.index \in DOMAIN v /\ v[ev.index] = ev.kind
      BY <1>2, <2>2, <2>5, <3>2
    <3>4. Pairs(egress, ingress, v, ev)
      BY <1>5, <2>5, <3>3 DEF Pairs, OfKind, Finals
    <3>5. QED BY <2>1, <2>3, <2>4, <3>1, <3>4, ShowsOne DEF q
  <2>6. CASE ev.kind \notin K
    <3>1. Written(w, ev).out = <<>>
      BY Zenon, <2>1, <2>6 DEF Only
    <3>2. QED BY <2>1, <2>3, <3>1, ShowsNone DEF q
  <2>7. QED BY <2>5, <2>6
<1>6. CASE ev.type = "BlockStop"
  <2> DEFINE i == ev.index
             held == Held(w, i, <<"tool", "text">>)
  <2>1. /\ p.stage = "open" /\ i \in Nat /\ i \in DOMAIN b /\ b[i] \in Blocks
        /\ q.stage = "open" /\ q.blocks = Put(b, i, "done")
        /\ DOMAIN q.blocks = DOMAIN b /\ q.blocks[i] = "done"
        /\ \A j \in DOMAIN b : j # i => q.blocks[j] = b[j]
    BY <1>6, AddsSays, NextSays, NextBlocks DEF q
  <2>2. /\ held = {} => Written(w, ev).st = w /\ Written(w, ev).out = <<>>
        /\ held # {} => /\ Written(w, ev).out = <<Closes(The(held), i)>>
                        /\ Written(w, ev).st = End(w, The(held), i)
    BY <1>1, <1>6 DEF CohereWrite, Writes
  <2>3. /\ b[i] \in K => held = {b[i]}
        /\ b[i] \notin K => held = {}
    BY <1>2, <2>1, HeldHere
  <2>4. /\ Listed(q.blocks, K) = Listed(b, K) \ {<<b[i], i>>}
        /\ b[i] \notin K => Listed(q.blocks, K) = Listed(b, K)
    BY <1>2, <2>1, ListedEnded
  <2> HIDE DEF held, i
  <2>5. CASE b[i] \notin K
    <3>1. b[i] = "thinking" /\ i \notin DOMAIN v
      BY <1>2, <2>1, <2>5 DEF Blocks
    <3>2. Same(v, q.blocks)
      BY <1>2, <2>1, <3>1
    <3>3. Shelved(ingress, q, w, v)
      BY <1>2, <1>3, <2>1, <2>4, <2>5, <3>2
    <3>4. QED BY <2>2, <2>3, <2>5, <3>3, ShowsNone DEF q
  <2>6. CASE b[i] \in K
    <3> DEFINE k == b[i]
               f == Closes(k, i)
               u == ShownAfter(ingress, v, f)
               x == End(w, k, i)
    <3>1. held = {k} /\ The(held) = k
      BY <2>3, <2>6, TheOne
    <3>2. Written(w, ev).out = <<f>> /\ Written(w, ev).st = x
      BY <2>2, <3>1
    <3>3. x.opened = w.opened \ {<<k, i>>}
      BY DEF End, Writer
    <3>4. f.type = "BlockStop" /\ f.index = i /\ f.kind = k /\ f \in AnyFrame
      BY <2>1, FramesTyped DEF Closes, AnyFrame
    <3>5. i \in DOMAIN v /\ v[i] = k
      BY <1>2, <2>1, <2>6
    <3> HIDE DEF f, x
    <3>6. DOMAIN u = DOMAIN v /\ u[i] = "done" /\ \A j \in DOMAIN v : j # i => u[j] = v[j]
      <4>1. u = Put(v, i, "done")
        BY <3>4 DEF ShownAfter
      <4>2. DOMAIN v \cup {i} = DOMAIN v
        BY <3>5
      <4> HIDE DEF u
      <4>3. QED BY <4>1, <4>2 DEF Put
    <3> HIDE DEF u
    <3>7. Same(u, q.blocks)
      BY <1>2, <2>1, <3>5, <3>6
    <3>8. Shelved(ingress, q, x, u)
      BY <1>2, <1>3, <2>1, <2>4, <3>3, <3>7
    <3>9. Pairs(egress, ingress, v, f)
      BY <2>6, <3>4, <3>5 DEF Pairs, Holding, Finals
    <3>10. QED BY <3>2, <3>4, <3>8, <3>9, ShowsOne DEF q, u
  <2>7. QED BY <2>5, <2>6
<1>7. CASE ev.type \in {"MessageStop", "MessageDelta"}
  <2>1. Written(w, ev).st = w /\ Written(w, ev).out \in {<<>>, <<ev>>}
    BY <1>1, <1>7 DEF CohereWrite, Writes
  <2>2. Clear(b) /\ q.stage # "open"
    BY <1>7, NextSays DEF Adds, q
  <2>3. w.opened = {} /\ Clear(v)
    <3>1. Listed(b, K) = {}
      BY <1>2, <2>2, ListedClear
    <3>2. p.stage = "open" => Clear(v)
      BY <1>2, <2>2 DEF Clear
    <3>3. QED BY <1>2, <3>1, <3>2
  <2>4. Shelved(ingress, q, w, v)
    BY <2>2, <2>3 DEF Shelved
  <2>5. Pairs(egress, ingress, v, ev) /\ ShownAfter(ingress, v, ev) = v /\ ev \in AnyFrame
    BY <1>7, <2>3, EventFields DEF Pairs, ShownAfter, Finals
  <2>6. QED BY <2>1, <2>4, <2>5, ShowsOne, ShowsNone DEF q
<1>8. CASE ev.type \in {"MessageStart", "Error"}
  <2>1. Written(w, ev).st = w /\ Written(w, ev).out = <<ev>>
    BY <1>1, <1>8 DEF CohereWrite, Writes
  <2>2. Shelved(ingress, q, w, v)
    <3>1. q.stage = p.stage /\ q.blocks = b
      BY <1>8, NextSays DEF q
    <3>2. QED BY <1>2, <3>1 DEF Shelved
  <2>3. Pairs(egress, ingress, v, ev) /\ ShownAfter(ingress, v, ev) = v /\ ev \in AnyFrame
    BY <1>8, EventFields DEF Pairs, ShownAfter, Finals
  <2>4. QED BY <2>1, <2>2, <2>3, ShowsOne DEF q
<1>9. QED BY <1>4, <1>5, <1>6, <1>7, <1>8, EventCases

\* The Responses writer, whose last frame repeats what was closed.
LEMMA ResponsesShows ==
  ASSUME ingress = "responses", egress # "responses", NEW p \in Tallies, NEW w \in Writer,
         NEW v \in Boards, NEW ev \in Events, Adds(egress, p, ev), Shelved(ingress, p, w, v),
         ev.type = "MessageDelta" => p.stage = "open"
  PROVE  Shows(ingress, p, w, v, ev)
<1> DEFINE b == p.blocks
           q == NextTally(p, ev)
           Out(x, c) == /\ x.output \subseteq DOMAIN c
                        /\ \A j \in DOMAIN c : c[j] = "done" => j \in x.output
<1>1. Written(w, ev) = ResponsesWrite(w, ev)
  BY DEF Written
<1>2. /\ p.stage = "open" => v = b /\ w.opened = Listed(b, Blocks) /\ Out(w, b)
      /\ p.stage # "open" => w.opened = {} /\ Clear(v)
      /\ b \in Boards /\ "done" \notin Blocks
  BY AddsSays DEF Shelved, Blocks
<1>3. ASSUME NEW x, p.stage = "open", q.stage = "open", x.opened = Listed(q.blocks, Blocks), Out(x, q.blocks)
      PROVE  Shelved(ingress, q, x, q.blocks)
  BY <1>3 DEF Shelved
<1> HIDE DEF q
<1>4. CASE ev.type = "BlockStart"
  <2>1. /\ p.stage = "open" /\ ev.index \in Nat /\ ev.kind \in Blocks
        /\ ev.index \notin DOMAIN b \/ b[ev.index] = "done"
        /\ q.stage = "open" /\ q.blocks = Put(b, ev.index, ev.kind)
        /\ DOMAIN q.blocks = DOMAIN b \cup {ev.index} /\ q.blocks[ev.index] = ev.kind
        /\ \A j \in DOMAIN b : j # ev.index => q.blocks[j] = b[j]
    <3>1. /\ p.stage = "open" /\ ev.index \in Nat /\ ev.kind \in Blocks
          /\ ev.index \notin DOMAIN b \/ b[ev.index] = "done"
      BY <1>4, AddsSays
    <3>3. q.stage = p.stage /\ q.blocks = Put(b, ev.index, ev.kind)
      BY <1>4, NextSays DEF q
    <3>4. /\ DOMAIN q.blocks = DOMAIN b \cup {ev.index} /\ q.blocks[ev.index] = ev.kind
          /\ \A j \in DOMAIN b : j # ev.index => q.blocks[j] = b[j]
      BY <1>4, NextBlocks DEF q
    <3>5. QED BY <3>1, <3>3, <3>4
  <2> DEFINE room == Cardinality(OpenAs(w, ev.kind)) < MaxOpenTools
             open == <<ev.kind, ev.index>> \in w.opened
             c == ev.kind = "tool" \/ (room /\ ~open)
  <2>2. /\ Written(w, ev).st = IF room THEN Begin(w, ev) ELSE w
        /\ Written(w, ev).out = Only(c, ev)
    BY <1>1, <1>4 DEF ResponsesWrite, ResponsesStart, Writes
  <2>3. room
    <3>1. OpenAs(w, ev.kind) = Listed(b, {ev.kind})
      <4>1. ASSUME NEW x \in OpenAs(w, ev.kind) PROVE x \in Listed(b, {ev.kind})
        <5>1. x \in Listed(b, Blocks) /\ x[1] = ev.kind
          BY <1>2, <2>1, <4>1 DEF OpenAs
        <5>2. PICK j \in DOMAIN b : b[j] \in Blocks /\ x = <<b[j], j>>
          BY <5>1, InListed
        <5>3. b[j] = ev.kind
          BY <5>1, <5>2
        <5>4. QED BY <5>2, <5>3, InListed
      <4>2. ASSUME NEW x \in Listed(b, {ev.kind}) PROVE x \in OpenAs(w, ev.kind)
        <5>1. PICK j \in DOMAIN b : b[j] \in {ev.kind} /\ x = <<b[j], j>>
          BY <4>2, InListed
        <5>2. x \in Listed(b, Blocks) /\ x[1] = ev.kind
          BY <2>1, <5>1, InListed
        <5>3. QED BY <1>2, <2>1, <5>2 DEF OpenAs
      <4>3. QED BY <4>1, <4>2
    <3>2. RoomFor(b, ev.kind)
      BY <1>4 DEF Adds
    <3>3. QED BY <3>1, <3>2 DEF RoomFor
  <2>4. ~open
    <3>1. open => ev.index \in DOMAIN b /\ b[ev.index] = ev.kind
      BY <1>2, <2>1, PairListed
    <3>2. QED BY <1>2, <2>1, <3>1
  <2>5. c
    BY <2>3, <2>4
  <2> HIDE DEF room, open, c
  <2>6. Written(w, ev).st = Begin(w, ev) /\ Written(w, ev).out = <<ev>>
    BY Zenon, <2>2, <2>3, <2>5 DEF Only
  <2>7. Begin(w, ev).opened = w.opened \cup {<<ev.kind, ev.index>>} /\ Begin(w, ev).output = w.output
    BY DEF Begin, Writer
  <2>8. Listed(q.blocks, Blocks) = Listed(b, Blocks) \cup {<<ev.kind, ev.index>>}
    BY <1>2, <2>1, ListedBegun
  <2>9. Out(Begin(w, ev), q.blocks)
    BY <1>2, <2>1, <2>7
  <2>10. Shelved(ingress, q, Begin(w, ev), q.blocks)
    BY <1>2, <1>3, <2>1, <2>7, <2>8, <2>9
  <2>11. ShownAfter(ingress, v, ev) = q.blocks
    BY <1>2, <1>4, <2>1, AfterEvent
  <2>12. Pairs(egress, ingress, v, ev) /\ ev \in AnyFrame
    <3>1. ev.index \notin DOMAIN b \/ (egress = "cohere" /\ b[ev.index] = "done")
      BY <1>4 DEF Adds
    <3>2. QED BY <1>2, <1>4, <2>1, <3>1, EventFields DEF Pairs, Finals
  <2>13. QED BY <2>6, <2>10, <2>11, <2>12, ShowsOne DEF q
<1>5. CASE ev.type = "BlockDelta"
  <2>1. Written(w, ev).st = w /\ Written(w, ev).out = Only(ev.kind # "citations", ev)
    BY <1>1, <1>5 DEF ResponsesWrite, Writes
  <2>2. p.stage = "open" /\ q.stage = "open" /\ q.blocks = b
    BY <1>5, AddsSays, NextSays DEF q
  <2>3. Shelved(ingress, q, w, v)
    BY <1>2, <1>3, <2>2
  <2>4. ev \in AnyFrame /\ ShownAfter(ingress, v, ev) = v
    BY <1>5, EventFields DEF ShownAfter
  <2>5. ev.index \in DOMAIN b /\ b[ev.index] = OfKind(ev.kind)
    BY <1>5 DEF Adds
  <2>6. Pairs(egress, ingress, v, ev)
    BY <1>2, <1>5, <2>2, <2>5 DEF Pairs, Finals
  <2>7. Written(w, ev).out \in {<<>>, <<ev>>}
    BY Zenon, <2>1 DEF Only
  <2>8. QED BY <2>1, <2>3, <2>4, <2>6, <2>7, ShowsOne, ShowsNone DEF q
<1>6. CASE ev.type = "BlockStop"
  <2> DEFINE i == ev.index
             held == Held(w, i, <<"thinking", "tool", "text">>)
             k == b[i]
             f == Closes(k, i)
             x == [End(w, k, i) EXCEPT !.output = @ \cup {i}]
  <2>1. /\ p.stage = "open" /\ i \in Nat /\ i \in DOMAIN b /\ b[i] \in Blocks
        /\ q.stage = "open" /\ q.blocks = Put(b, i, "done")
        /\ DOMAIN q.blocks = DOMAIN b /\ q.blocks[i] = "done"
        /\ \A j \in DOMAIN b : j # i => q.blocks[j] = b[j]
    BY <1>6, AddsSays, NextSays, NextBlocks DEF q
  <2>2. held # {} => /\ Written(w, ev).out = <<Closes(The(held), i)>>
                     /\ Written(w, ev).st = [End(w, The(held), i) EXCEPT !.output = @ \cup {i}]
    BY <1>1, <1>6 DEF ResponsesWrite, ResponsesStop, Writes
  <2>3. held = {k} /\ The(held) = k
    <3>1. held = {k}
      BY <1>2, <2>1, HeldHere
    <3>2. QED BY <3>1, TheOne
  <2> HIDE DEF held
  <2>4. Written(w, ev).out = <<f>> /\ Written(w, ev).st = x
    BY <2>2, <2>3
  <2> HIDE DEF i
  <2>5. x.opened = w.opened \ {<<k, i>>} /\ x.output = w.output \cup {i}
    <3>1. /\ End(w, k, i).opened = w.opened \ {<<k, i>>} /\ End(w, k, i).output = w.output
          /\ End(w, k, i) \in Writer
      BY <2>1, OpeningTyped DEF End, Writer
    <3>2. QED BY <3>1 DEF Writer
  <2>6. f.type = "BlockStop" /\ f.index = i /\ f.kind = k /\ f \in AnyFrame
    BY <2>1, FramesTyped DEF Closes, AnyFrame
  <2> HIDE DEF f, x
  <2>7. Listed(q.blocks, Blocks) = Listed(b, Blocks) \ {<<b[i], i>>}
    BY <1>2, <2>1, ListedEnded
  <2>8. Out(x, q.blocks)
    BY <1>2, <2>1, <2>5
  <2>9. Shelved(ingress, q, x, q.blocks)
    BY <1>2, <1>3, <2>1, <2>5, <2>7, <2>8
  <2>10. ShownAfter(ingress, v, f) = q.blocks
    BY <1>2, <2>1, <2>6 DEF ShownAfter
  <2>11. Pairs(egress, ingress, v, f)
    BY <1>2, <2>1, <2>6 DEF Pairs, Holding, Finals
  <2>12. QED BY <2>4, <2>6, <2>9, <2>10, <2>11, ShowsOne DEF q
<1>7. ASSUME ev.type \in {"MessageStop", "MessageDelta"}
      PROVE  w.opened = {} /\ Clear(v) /\ q.stage # "open" /\ \A j \in DOMAIN b : b[j] = "done"
  <2>1. Clear(b) /\ q.stage # "open"
    BY <1>7, NextSays DEF Adds, q
  <2>2. Listed(b, Blocks) = {}
    BY <1>2, <2>1, ListedClear
  <2>3. QED BY <1>2, <2>1, <2>2 DEF Clear
<1>8. CASE ev.type = "MessageStop"
  <2>1. Written(w, ev).st = w /\ Written(w, ev).out = <<>>
    BY <1>1, <1>8 DEF ResponsesWrite, Writes
  <2>2. Shelved(ingress, q, w, v)
    BY <1>7, <1>8 DEF Shelved
  <2>3. QED BY <2>1, <2>2, ShowsNone DEF q
<1>9. CASE ev.type = "MessageDelta"
  <2> DEFINE f == [type |-> "MessageDelta", output |-> w.output]
             x == [w EXCEPT !.output = {}]
  <2>1. Written(w, ev).st = x /\ Written(w, ev).out = <<f>>
    BY <1>1, <1>9 DEF ResponsesWrite, Writes
  <2>2. x.opened = w.opened
    BY DEF Writer
  <2>3. f \in AnyFrame /\ f.type = "MessageDelta" /\ f.output = w.output
    BY DEF Frames, AnyFrame, Writer
  <2> HIDE DEF f, x
  <2>4. Shelved(ingress, q, x, v)
    BY <1>7, <1>9, <2>2 DEF Shelved
  <2>5. w.output = DOMAIN v
    BY <1>2, <1>7, <1>9
  <2>6. Pairs(egress, ingress, v, f) /\ ShownAfter(ingress, v, f) = v
    BY <1>7, <1>9, <2>3, <2>5 DEF Pairs, ShownAfter, Finals
  <2>7. QED BY <2>1, <2>3, <2>4, <2>6, ShowsOne DEF q
<1>10. CASE ev.type = "MessageStart"
  <2>1. Written(w, ev).st = Unwritten /\ Written(w, ev).out = <<ev>>
    BY <1>1, <1>10 DEF ResponsesWrite, Writes
  <2>2. p.stage = "open" /\ b = <<>> /\ q.stage = "open" /\ q.blocks = b
    BY <1>10, AddsSays, NextSays DEF q
  <2>3. Unwritten.opened = {} /\ Unwritten.output = {}
    BY DEF Unwritten
  <2>4. Listed(b, Blocks) = {} /\ DOMAIN b = {}
    BY <1>2, <2>2, EmptyBoard, ListedClear
  <2>5. Out(Unwritten, b)
    BY <2>3, <2>4
  <2>6. Shelved(ingress, q, Unwritten, v)
    BY <1>2, <1>3, <2>2, <2>3, <2>4, <2>5
  <2>7. Pairs(egress, ingress, v, ev) /\ ShownAfter(ingress, v, ev) = v /\ ev \in AnyFrame
    BY <1>10, EventFields DEF Pairs, ShownAfter, Finals
  <2>8. QED BY <2>1, <2>6, <2>7, ShowsOne DEF q
<1>11. CASE ev.type = "Error"
  <2>1. Written(w, ev).st = w /\ Written(w, ev).out = <<ev>>
    BY <1>1, <1>11 DEF ResponsesWrite, Writes
  <2>2. Shelved(ingress, q, w, v)
    <3>1. q.stage = p.stage /\ q.blocks = b
      BY <1>11, NextSays DEF q
    <3>2. QED BY <1>2, <3>1 DEF Shelved
  <2>3. Pairs(egress, ingress, v, ev) /\ ShownAfter(ingress, v, ev) = v /\ ev \in AnyFrame
    BY <1>11, EventFields DEF Pairs, ShownAfter, Finals
  <2>4. QED BY <2>1, <2>2, <2>3, ShowsOne DEF q
<1>12. QED BY <1>4, <1>5, <1>6, <1>8, <1>9, <1>10, <1>11, EventCases

\* Any writer of another protocol than the backend's.
LEMMA WritersShow ==
  ASSUME ingress \in Protocols, ~Verbatim, NEW p \in Tallies, NEW w \in Writer,
         NEW v \in Boards, NEW ev \in Events, Adds(egress, p, ev), Shelved(ingress, p, w, v),
         ev.type = "MessageDelta" => p.stage = "open" \/ ingress = "bedrock"
  PROVE  Shows(ingress, p, w, v, ev)
<1>1. egress # ingress
  BY DEF Verbatim
<1>2. QED BY <1>1, AnthropicShows, BedrockShows, OpenAiShows, GeminiShows, CohereShows, ResponsesShows
          DEF Protocols

-----------------------------------------------------------------------------
(* The translator shows its client what the events of a reader tell.       *)

\* Frames that do not end a message.
Plain == {f \in AnyFrame : f.type \notin Finals}

\* The translator, once it has been told of the blocks in p: v is what the
\* client was shown before what has been written.
Paired(v, p, x) ==
  /\ p.stage = "over" => x.stopped
  /\ x.pending => p.stage # "open"
  /\ x.out \in Seq(Plain) \/ p.stage # "open"
  /\ \E u \in Boards : /\ Run(Showings(egress, ingress), v, x.out, u)
                       /\ Shelved(ingress, p, x.writer, u)

\* What is written for an event that does not end the message.
LEMMA OthersPlain ==
  ASSUME NEW w \in Writer, NEW ev \in Events, ingress \in Protocols,
         ev.type \notin {"MessageDelta", "MessageStop"}
  PROVE  Written(w, ev).out \in Seq(Plain)
<1> DEFINE o == Written(w, ev).out
<1>1. Shape(ingress, ev, o)
  BY WritersShape DEF Shaped
<1> HIDE DEF o
<1>2. Growing \subseteq Plain /\ Ending \subseteq Plain
  BY DEF Growing, Ending, Plain, Finals, AnyFrame
<1>3. ev.type \in {"MessageStart", "Error"} => ev \in Plain
  BY EventFields DEF Plain, Finals
<1>4. CASE ev.type \in {"BlockStart", "BlockDelta"}
  <2>1. o \in Seq(Growing)
    BY <1>1, <1>4 DEF Shape
  <2>2. QED BY <1>2, <2>1 DEF o
<1>5. CASE ev.type = "BlockStop"
  <2>1. o \in Seq(Ending)
    BY <1>1, <1>5 DEF Shape
  <2>2. QED BY <1>2, <2>1 DEF o
<1>6. CASE ev.type \in {"MessageStart", "Error"}
  <2>1. o = <<ev>>
    BY <1>1, <1>6 DEF Shape
  <2>2. QED BY <1>3, <1>6, <2>1, ShortSeqs DEF o
<1>7. QED BY <1>4, <1>5, <1>6, EventCases

\* When no block is open, a writer and its client have none.
LEMMA ShelvedClear ==
  ASSUME NEW i \in Protocols, NEW p, NEW w, NEW v, Shelved(i, p, w, v), Clear(p.blocks)
  PROVE  w.opened = {} /\ (i # "openai" => Clear(v))
<1>1. /\ Listed(p.blocks, {"tool"}) = {} /\ Listed(p.blocks, {"text", "tool"}) = {}
      /\ Listed(p.blocks, Blocks) = {}
  BY ListedClear DEF Blocks
<1>2. CASE p.stage # "open"
  BY <1>2 DEF Shelved
<1>3. CASE p.stage = "open"
  <2>1. CASE i \in {"anthropic", "bedrock"}
    BY <1>3, <2>1 DEF Shelved
  <2>2. CASE i = "openai"
    BY <1>3, <2>2 DEF Shelved
  <2>3. CASE i = "gemini"
    BY <1>1, <1>3, <2>3, EmptyBoard DEF Shelved
  <2>4. CASE i = "cohere"
    <3>1. w.opened = {}
      BY <1>1, <1>3, <2>4 DEF Shelved
    <3>2. \A j \in DOMAIN v : j \in DOMAIN p.blocks /\ v[j] = p.blocks[j]
      BY <1>3, <2>4 DEF Shelved
    <3>3. QED BY <3>1, <3>2 DEF Clear
  <2>5. CASE i = "responses"
    BY <1>1, <1>3, <2>5 DEF Shelved
  <2>6. QED BY <2>1, <2>2, <2>3, <2>4, <2>5 DEF Protocols
<1>4. QED BY <1>2, <1>3

\* So the stage may move on.
LEMMA ShelvedOn ==
  ASSUME NEW i \in Protocols, NEW p, NEW q, NEW w, NEW v, Shelved(i, p, w, v), Clear(p.blocks),
         q.stage # "open"
  PROVE  Shelved(i, q, w, v)
BY ShelvedClear DEF Shelved

\* Counting an event changes nothing but the counts.
LEMMA CountLeaves ==
  ASSUME NEW x \in Translator, NEW ev \in Events
  PROVE  /\ Count(x, ev) \in Translator
         /\ Count(x, ev).out = x.out /\ Count(x, ev).stopped = x.stopped
         /\ Count(x, ev).emitted = x.emitted /\ Count(x, ev).pending = x.pending
         /\ Count(x, ev).writer = x.writer /\ Count(x, ev).aborted = x.aborted
<1> DEFINE c == Count(x, ev)
<1>1. CASE ev.type = "MessageStart"
  <2>1. c = [x EXCEPT !.start = ev.usage]
    BY Zenon, <1>1 DEF Count
  <2>2. ev.usage \in Usage
    BY <1>1, EventCases DEF Starts
  <2> HIDE DEF c
  <2>3. c \in Translator
    BY <2>1, <2>2 DEF Translator
  <2>4. /\ c.out = x.out /\ c.stopped = x.stopped /\ c.emitted = x.emitted
        /\ c.pending = x.pending /\ c.writer = x.writer /\ c.aborted = x.aborted
    BY <2>1, <2>2 DEF Translator
  <2>5. QED BY <2>3, <2>4 DEF c
<1>2. CASE ev.type = "MessageDelta"
  <2> DEFINE u == [input |-> Or(Backfilled(x, ev.usage).input, x.last.input),
                   output |-> Or(Backfilled(x, ev.usage).output, x.last.output)]
  <2>1. c = [x EXCEPT !.last = u]
    BY Zenon, <1>2 DEF Count
  <2>2. ev.usage \in Usage
    BY <1>2, EventCases DEF MessageDeltas
  <2>3. u \in Usage
    BY <2>2 DEF Backfilled, Usage, Or, Translator
  <2> HIDE DEF c, u
  <2>4. c \in Translator
    BY <2>1, <2>3 DEF Translator
  <2>5. /\ c.out = x.out /\ c.stopped = x.stopped /\ c.emitted = x.emitted
        /\ c.pending = x.pending /\ c.writer = x.writer /\ c.aborted = x.aborted
    BY <2>1, <2>3 DEF Translator
  <2>6. QED BY <2>4, <2>5 DEF c
<1>3. CASE ev.type = "Error"
  <2>1. c = [x EXCEPT !.failed = TRUE]
    BY Zenon, <1>3 DEF Count
  <2> HIDE DEF c
  <2>3. c \in Translator
    BY <2>1 DEF Translator
  <2>4. /\ c.out = x.out /\ c.stopped = x.stopped /\ c.emitted = x.emitted
        /\ c.pending = x.pending /\ c.writer = x.writer /\ c.aborted = x.aborted
    BY <2>1 DEF Translator
  <2>5. QED BY <2>3, <2>4 DEF c
<1>4. CASE ev.type \notin {"MessageStart", "MessageDelta", "Error"}
  <2>1. c = x
    BY Zenon, <1>4 DEF Count
  <2>2. QED BY <2>1
<1>5. QED BY <1>1, <1>2, <1>3, <1>4

\* Writing an event.
LEMMA WriteShows ==
  ASSUME NEW x \in Translator, NEW ev \in Events, ingress \in Protocols,
         NEW v, NEW u, Run(Showings(egress, ingress), v, x.out, u),
         NEW p, Shows(ingress, p, x.writer, u, ev)
  PROVE  /\ Write(x, ev) \in Translator
         /\ \E t \in Boards : /\ Run(Showings(egress, ingress), v, Write(x, ev).out, t)
                              /\ Shelved(ingress, NextTally(p, ev), Write(x, ev).writer, t)
         /\ Write(x, ev).out = x.out \o Written(x.writer, ev).out
         /\ Write(x, ev).stopped = x.stopped /\ Write(x, ev).emitted = x.emitted
         /\ Write(x, ev).pending = x.pending /\ Write(x, ev).aborted = x.aborted
<1> DEFINE w == Written(x.writer, ev).st
           o == Written(x.writer, ev).out
           y == [x EXCEPT !.writer = w, !.out = x.out \o o]
           S == Showings(egress, ingress)
<1>1. Write(x, ev) = y /\ y \in Translator
  BY WriteIs
<1>2. o \in Seq(Frames) /\ x.out \in Seq(Frames)
  BY WriteIs DEF Shaped, Translator
<1>3. PICK t \in Boards : Run(S, u, o, t) /\ Shelved(ingress, NextTally(p, ev), w, t)
  BY DEF Shows
<1> HIDE DEF w, o
<1>4. Run(S, v, x.out \o o, t)
  BY <1>2, <1>3, RunBoth
<1>5. /\ y.out = x.out \o o /\ y.writer = w
      /\ y.stopped = x.stopped /\ y.emitted = x.emitted /\ y.pending = x.pending
      /\ y.aborted = x.aborted
  BY DEF Translator
<1> HIDE DEF y
<1>6. QED BY <1>1, <1>3, <1>4, <1>5 DEF o

\* The metadata frame of bedrock, when no block is open.
LEMMA MetadataShown ==
  ASSUME ingress = "bedrock", NEW w \in Writer, NEW u \in Usage, NEW v \in Boards, Clear(v)
  PROVE  LET n == MessageDelta(FALSE, u)
         IN  /\ n \in Events
             /\ Written(w, n).st = w
             /\ Run(Showings(egress, ingress), v, Written(w, n).out, v)
<1> DEFINE n == MessageDelta(FALSE, u)
           f == Frame("Metadata")
<1>1. n \in Events /\ n.type = "MessageDelta" /\ n.final = FALSE
  BY DEF MessageDelta, Events, MessageDeltas
<1> HIDE DEF n
<1>2. Written(w, n) = BedrockWrite(w, n)
  BY DEF Written
<1>3. Written(w, n).st = w /\ Written(w, n).out = <<f>>
  BY <1>1, <1>2 DEF BedrockWrite, Writes
<1>4. f \in AnyFrame /\ f.type = "Metadata" /\ "output" \notin DOMAIN f
  BY FramesTyped DEF AnyFrame, Frame
<1> HIDE DEF f
<1>5. Pairs(egress, ingress, v, f) /\ ShownAfter(ingress, v, f) = v
  BY <1>4 DEF Pairs, ShownAfter, Finals
<1>6. Run(Showings(egress, ingress), v, <<f>>, v)
  BY <1>4, <1>5, ShowingIs
<1>7. QED BY <1>1, <1>3, <1>6 DEF n

\* The translator follows event by event.
LEMMA EventPairs ==
  ASSUME ingress \in Protocols, ~Verbatim, NEW v, NEW p, NEW ev, NEW q,
         <<p, ev, q>> \in Tally(egress),
         NEW x \in Translator, Paired(v, p, x), ~x.aborted
  PROVE  Translate(x, ev) \in Translator /\ Paired(v, q, Translate(x, ev)) /\ ~Translate(x, ev).aborted
<1> DEFINE c == Count(x, ev)
           fev == IF ev.type = "MessageDelta" THEN [ev EXCEPT !.usage = Backfilled(x, @)] ELSE ev
           M == Showings(egress, ingress)
<1>1. p \in Tallies /\ ev \in Events /\ q \in Tallies /\ Adds(egress, p, ev) /\ q = NextTally(p, ev)
  BY TallyGives
<1>2. /\ c \in Translator /\ c.out = x.out /\ c.stopped = x.stopped
      /\ c.emitted = x.emitted /\ c.pending = x.pending /\ c.writer = x.writer /\ ~c.aborted
  BY <1>1, CountLeaves
<1>3. Translate(x, ev) = Forward(c, fev)
  BY Zenon DEF Translate
<1>4. /\ fev \in Events /\ fev.type = ev.type
      /\ ev.type = "MessageDelta" => fev.final \in BOOLEAN /\ fev.usage \in Usage
      /\ ev.type # "MessageDelta" => fev = ev
  <2>1. CASE ev.type = "MessageDelta"
    <3>1. ev \in MessageDeltas
      BY <1>1, <2>1, EventCases
    <3>2. Backfilled(x, ev.usage) \in Usage
      BY <3>1 DEF MessageDeltas, Usage, Backfilled, Translator, Or
    <3>3. fev = [ev EXCEPT !.usage = Backfilled(x, ev.usage)]
      BY <2>1
    <3> HIDE DEF fev
    <3>4. fev \in MessageDeltas
      BY <3>1, <3>2, <3>3 DEF MessageDeltas
    <3>5. QED BY <2>1, <3>4 DEF Events, MessageDeltas
  <2>2. CASE ev.type # "MessageDelta"
    BY <1>1, <2>2
  <2>3. QED BY <2>1, <2>2
<1> HIDE DEF c, fev
<1>5. PICK u \in Boards : Run(M, v, c.out, u) /\ Shelved(ingress, p, c.writer, u)
  BY <1>2 DEF Paired
<1>6. /\ p.stage = "over" => c.stopped
      /\ c.pending => p.stage # "open"
      /\ c.out \in Seq(Plain) \/ p.stage # "open"
  BY <1>2 DEF Paired
<1>7. /\ c.emitted \in BOOLEAN /\ c.stopped \in BOOLEAN /\ c.writer \in Writer
      /\ p.stage \in {"open", "delta", "over"} /\ q.stage \in {"open", "delta", "over"}
  BY <1>1, <1>2 DEF Translator, Tallies
<1>8. ASSUME NEW m \in Events, m.type = ev.type, m.type = "MessageDelta" \/ m = ev
      PROVE  Adds(egress, p, m) /\ NextTally(p, m) = q
  <2>1. CASE m.type = "MessageDelta"
    BY <1>1, <1>8, <2>1 DEF Adds, NextTally
  <2>2. CASE m = ev
    BY <1>1, <2>2
  <2>3. QED BY <1>8, <2>1, <2>2
<1>9. ev.type = "MessageDelta" => /\ Clear(p.blocks) /\ p.stage # "delta"
                                  /\ q.stage = IF p.stage = "over" THEN "over" ELSE "delta"
  BY <1>1 DEF Adds, NextTally
<1>10. CASE ~(Binary /\ fev.type = "MessageDelta") /\ ~(c.stopped /\ fev.type = "MessageDelta")
  <2> DEFINE y == [c EXCEPT !.stopped = @ \/ fev.type = "MessageStop"]
             z == Write(y, fev)
  <2>1. Forward(c, fev) = z
    BY <1>10 DEF Forward
  <2>2. /\ y \in Translator /\ y.out = c.out /\ y.writer = c.writer /\ y.pending = c.pending
        /\ y.aborted = c.aborted /\ (y.stopped <=> c.stopped \/ fev.type = "MessageStop")
    BY <1>2 DEF Translator
  <2>3. Adds(egress, p, fev) /\ NextTally(p, fev) = q
    BY <1>4, <1>8
  <2>4. fev.type = "MessageDelta" => p.stage = "open"
    BY <1>4, <1>6, <1>7, <1>9, <1>10
  <2> HIDE DEF y
  <2>5. Shows(ingress, p, c.writer, u, fev)
    BY <1>1, <1>4, <1>5, <1>7, <2>3, <2>4, WritersShow
  <2>6. /\ z \in Translator
        /\ \E t \in Boards : Run(M, v, z.out, t) /\ Shelved(ingress, q, z.writer, t)
        /\ z.out = y.out \o Written(y.writer, fev).out
        /\ z.stopped = y.stopped /\ z.pending = y.pending /\ z.aborted = y.aborted
    BY <1>4, <1>5, <2>2, <2>3, <2>5, WriteShows
  <2> HIDE DEF z
  <2>7. q.stage = "over" => z.stopped
    <3>1. q.stage = "over" => p.stage = "over" \/ fev.type = "MessageStop"
      BY <1>1, <1>4 DEF NextTally
    <3>2. QED BY <1>6, <2>2, <2>6, <3>1
  <2>8. q.stage = "open" => p.stage = "open" /\ fev.type \notin {"MessageDelta", "MessageStop"}
    BY <1>1, <1>4 DEF NextTally
  <2>9. z.out \in Seq(Plain) \/ q.stage # "open"
    <3>1. CASE q.stage = "open"
      <4>1. Written(y.writer, fev).out \in Seq(Plain)
        BY <1>4, <1>7, <2>2, <2>8, <3>1, OthersPlain
      <4>2. y.out \in Seq(Plain)
        BY <1>6, <2>2, <2>8, <3>1
      <4>3. QED BY <2>6, <4>1, <4>2
    <3>2. QED BY <3>1
  <2>10. z.pending => q.stage # "open"
    BY <1>6, <2>2, <2>6, <2>8
  <2>11. QED BY <1>2, <1>3, <2>1, <2>2, <2>6, <2>7, <2>9, <2>10 DEF Paired
<1>11. CASE ~Binary /\ c.stopped /\ fev.type = "MessageDelta"
  <2>1. Forward(c, fev) = c
    BY <1>11 DEF Forward
  <2>2. q.stage # "open" /\ Clear(p.blocks)
    BY <1>4, <1>9, <1>11
  <2>3. Shelved(ingress, q, c.writer, u)
    BY <1>5, <2>2, ShelvedOn
  <2>4. QED BY <1>2, <1>3, <1>5, <1>11, <2>1, <2>2, <2>3 DEF Paired
<1>12. CASE Binary /\ fev.type = "MessageDelta" /\ fev.final
  <2> DEFINE a == fev.usage
             m == MessageDelta(TRUE, ZeroUsage)
             n == MessageDelta(FALSE, a)
             y == Write(c, m)
  <2>1. Forward(c, fev) = IF c.emitted THEN y
                          ELSE IF a # ZeroUsage
                          THEN Write([y EXCEPT !.emitted = TRUE, !.pending = FALSE], n)
                          ELSE [y EXCEPT !.pending = TRUE]
    BY <1>12 DEF Forward, CombinedStop
  <2>2. m \in Events /\ m.type = "MessageDelta" /\ a \in Usage /\ ingress = "bedrock"
    BY <1>4, <1>12, UsageTyped DEF MessageDelta, Events, MessageDeltas, Binary
  <2> HIDE DEF m
  <2>3. Adds(egress, p, m) /\ NextTally(p, m) = q
    BY <1>4, <1>8, <1>12, <2>2
  <2>4. Shows(ingress, p, c.writer, u, m)
    BY <1>1, <1>5, <1>7, <2>2, <2>3, WritersShow
  <2>5. /\ y \in Translator
        /\ \E t \in Boards : Run(M, v, y.out, t) /\ Shelved(ingress, q, y.writer, t)
        /\ y.stopped = c.stopped /\ y.pending = c.pending /\ y.aborted = c.aborted
    BY <1>2, <1>5, <2>2, <2>3, <2>4, WriteShows
  <2>6. q.stage # "open" /\ (q.stage = "over" => y.stopped)
    BY <1>4, <1>6, <1>9, <1>12, <2>5
  <2> HIDE DEF y
  <2>7. PICK t \in Boards : Run(M, v, y.out, t) /\ Shelved(ingress, q, y.writer, t)
    BY <2>5
  <2>8. CASE c.emitted
    <3>1. Paired(v, q, y)
      BY <2>6, <2>7 DEF Paired
    <3>2. QED BY <1>2, <1>3, <2>1, <2>5, <2>8, <3>1
  <2>9. CASE ~c.emitted /\ a # ZeroUsage
    <3> DEFINE z == [y EXCEPT !.emitted = TRUE, !.pending = FALSE]
               f == Write(z, n)
    <3>1. /\ z \in Translator /\ z.out = y.out /\ z.pending = FALSE
          /\ z.stopped = y.stopped /\ z.aborted = y.aborted /\ z.writer = y.writer
          /\ y.writer \in Writer
      BY <2>5 DEF Translator
    <3>2. Forward(c, fev) = f
      BY <2>1, <2>9
    <3>3. Clear(t)
      BY <2>2, <2>6, <2>7 DEF Shelved
    <3>4. n \in Events /\ Written(y.writer, n).st = y.writer /\ Run(M, t, Written(y.writer, n).out, t)
      BY <2>2, <3>1, <3>3, MetadataShown
    <3> HIDE DEF z
    <3>5. Shelved(ingress, NextTally(q, n), y.writer, t) /\ NextTally(q, n).stage # "open"
      <4>1. NextTally(q, n).stage # "open"
        BY DEF NextTally, MessageDelta
      <4>2. y.writer.opened = {} /\ Clear(t)
        BY <2>6, <2>7, <3>3 DEF Shelved
      <4>3. QED BY <4>1, <4>2 DEF Shelved
    <3>6. Shows(ingress, q, z.writer, t, n)
      BY <3>1, <3>4, <3>5 DEF Shows
    <3> HIDE DEF n
    <3>7. /\ f \in Translator
          /\ \E s \in Boards : Run(M, v, f.out, s) /\ Shelved(ingress, NextTally(q, n), f.writer, s)
          /\ f.stopped = z.stopped /\ f.pending = z.pending /\ f.aborted = z.aborted
      BY <2>7, <3>1, <3>4, <3>6, WriteShows
    <3>8. PICK s \in Boards : Run(M, v, f.out, s) /\ Shelved(ingress, NextTally(q, n), f.writer, s)
      BY <3>7
    <3> HIDE DEF f
    <3>9. Shelved(ingress, q, f.writer, s)
      BY <2>2, <2>6, <3>5, <3>8 DEF Shelved
    <3>10. Paired(v, q, f)
      BY <2>6, <3>1, <3>7, <3>8, <3>9 DEF Paired
    <3>11. QED BY <1>2, <1>3, <2>5, <3>1, <3>2, <3>7, <3>10
  <2>10. CASE ~c.emitted /\ a = ZeroUsage
    <3> DEFINE f == [y EXCEPT !.pending = TRUE]
    <3>1. /\ f \in Translator /\ f.out = y.out /\ f.writer = y.writer
          /\ f.stopped = y.stopped /\ f.aborted = y.aborted
      BY <2>5 DEF Translator
    <3>2. Forward(c, fev) = f
      BY <2>1, <2>10
    <3> HIDE DEF f
    <3>3. Paired(v, q, f)
      BY <2>6, <2>7, <3>1 DEF Paired
    <3>4. QED BY <1>2, <1>3, <2>5, <3>1, <3>2, <3>3
  <2>11. QED BY <2>8, <2>9, <2>10
<1>13. CASE Binary /\ fev.type = "MessageDelta" /\ ~fev.final
  <2> DEFINE a == fev.usage
             n == MessageDelta(FALSE, a)
  <2>1. Forward(c, fev) = UsageOnly(c, a)
    BY <1>13 DEF Forward
  <2>2. /\ n \in Events /\ n.type = "MessageDelta" /\ a \in Usage /\ ingress = "bedrock"
        /\ Clear(p.blocks) /\ q.stage # "open" /\ (q.stage = "over" => c.stopped)
    BY <1>4, <1>6, <1>9, <1>13 DEF MessageDelta, Events, MessageDeltas, Binary
  <2>3. CASE c.emitted
    <3>1. Forward(c, fev) = c
      BY <2>1, <2>3 DEF UsageOnly
    <3>2. Shelved(ingress, q, c.writer, u)
      BY <1>5, <2>2, ShelvedOn
    <3>3. QED BY <1>2, <1>3, <1>5, <2>2, <3>1, <3>2 DEF Paired
  <2>4. CASE ~c.emitted
    <3> DEFINE z == [c EXCEPT !.emitted = TRUE, !.pending = FALSE]
               f == Write(z, n)
    <3>1. /\ z \in Translator /\ z.out = c.out /\ z.pending = FALSE
          /\ z.stopped = c.stopped /\ z.aborted = c.aborted /\ z.writer = c.writer
      BY <1>2 DEF Translator
    <3>2. Forward(c, fev) = f
      BY <2>1, <2>4 DEF UsageOnly
    <3> HIDE DEF z, n
    <3>3. Adds(egress, p, n) /\ NextTally(p, n) = q
      BY <1>4, <1>8, <1>13, <2>2
    <3>4. Shows(ingress, p, z.writer, u, n)
      BY <1>1, <1>5, <1>7, <2>2, <3>1, <3>3, WritersShow
    <3>5. /\ f \in Translator
          /\ \E s \in Boards : Run(M, v, f.out, s) /\ Shelved(ingress, q, f.writer, s)
          /\ f.stopped = z.stopped /\ f.pending = z.pending /\ f.aborted = z.aborted
      BY <1>5, <2>2, <3>1, <3>3, <3>4, WriteShows
    <3> HIDE DEF f
    <3>6. Paired(v, q, f)
      BY <2>2, <3>1, <3>5 DEF Paired
    <3>7. QED BY <1>2, <1>3, <3>1, <3>2, <3>5, <3>6
  <2>5. QED BY <2>3, <2>4
<1>14. QED
  <2>1. fev.type = "MessageDelta" => fev.final \in BOOLEAN
    BY <1>4
  <2>2. QED BY <1>10, <1>11, <1>12, <1>13, <2>1

\* A whole frame's events.
LEMMA FoldPairs ==
  ASSUME ingress \in Protocols, ~Verbatim, NEW v, NEW p, NEW q, NEW s \in Seq(Events),
         Run(Tally(egress), p, s, q), NEW x \in Translator, Paired(v, p, x), ~x.aborted
  PROVE  /\ FoldLeft(Translate, x, s) \in Translator
         /\ Paired(v, q, FoldLeft(Translate, x, s))
         /\ ~FoldLeft(Translate, x, s).aborted
<1> DEFINE Good == {t \in (Tallies \cup {p}) \X Translator : Paired(v, t[1], t[2]) /\ ~t[2].aborted}
<1>1. ASSUME NEW a \in Tallies \cup {p}, NEW y \in Translator, Paired(v, a, y), ~y.aborted
      PROVE  <<a, y>> \in Good
  <2> DEFINE t == <<a, y>>
  <2>1. t \in (Tallies \cup {p}) \X Translator /\ t[1] = a /\ t[2] = y
    OBVIOUS
  <2> HIDE DEF t
  <2>2. t \in Good
    BY <1>1, <2>1
  <2>3. QED BY <2>2 DEF t
<1>2. ASSUME NEW a, NEW y, <<a, y>> \in Good
      PROVE  y \in Translator /\ Paired(v, a, y) /\ ~y.aborted
  <2> DEFINE t == <<a, y>>
  <2>1. t[1] = a /\ t[2] = y
    OBVIOUS
  <2>2. t \in Good
    BY <1>2
  <2> HIDE DEF t
  <2>3. QED BY <2>1, <2>2
<1> HIDE DEF Good
<1>3. <<p, x>> \in Good
  BY <1>1
<1>4. ASSUME NEW e \in Events, NEW a, NEW b, NEW y, <<a, e, b>> \in Tally(egress), <<a, y>> \in Good
      PROVE  <<b, Translate(y, e)>> \in Good
  <2>1. y \in Translator /\ Paired(v, a, y) /\ ~y.aborted
    BY <1>2, <1>4
  <2>2. Translate(y, e) \in Translator /\ Paired(v, b, Translate(y, e)) /\ ~Translate(y, e).aborted
    BY <1>4, <2>1, EventPairs
  <2>3. b \in Tallies
    BY <1>4, TallyGives
  <2>4. QED BY <1>1, <2>2, <2>3
<1>5. <<q, FoldLeft(Translate, x, s)>> \in Good
  <2>1. Kept(Tally(egress), Events, Good)
    BY <1>4 DEF Kept
  <2>2. QED BY <1>3, <2>1, FoldKeeps
<1>6. QED BY <1>2, <1>5

-----------------------------------------------------------------------------
(* The end of a stream.                                                    *)

\* Frames that change nothing of what is shown.
Still == {f \in Mute : f.type # "Done"}

\* Nothing is shown for them.
LEMMA StillShown ==
  ASSUME NEW e, NEW i, NEW v \in Boards, NEW s \in Seq(Still)
  PROVE  Run(Showings(e, i), v, s, v)
<1>1. ASSUME NEW f \in Still PROVE <<v, f, v>> \in Showings(e, i)
  <2>1. f \in Mute /\ f \in AnyFrame
    BY DEF Still, Mute
  <2>2. Pairs(e, i, v, f) /\ ShownAfter(i, v, f) = v
    BY <2>1, MuteShown DEF Still
  <2>3. QED BY <2>1, <2>2, ShowingIs
<1>2. QED BY <1>1, RunInPlace

\* The end marker of openai.
LEMMA DoneShown ==
  ASSUME NEW e, NEW i, NEW v, NEW u \in Boards, NEW s \in Seq(Frames), Run(Showings(e, i), v, s, u)
  PROVE  \E t \in Boards : Run(Showings(e, i), v, Append(s, Frame("Done")), t)
<1> DEFINE f == Frame("Done")
<1>1. f \in Frames /\ f \in Mute
  BY FramesTyped DEF Frame, Mute, Finals, AnyFrame
<1> HIDE DEF f
<1>2. Pairs(e, i, u, f) /\ f \in AnyFrame
  BY <1>1, MuteShown DEF Mute
<1>3. ShownAfter(i, u, f) \in Boards /\ Run(Showings(e, i), u, <<f>>, ShownAfter(i, u, f))
  BY <1>2, ShowingIs
<1>4. <<f>> \in Seq(Frames) /\ Append(s, f) = s \o <<f>>
  BY <1>1
<1>5. Run(Showings(e, i), v, Append(s, f), ShownAfter(i, u, f))
  BY <1>3, <1>4, RunBoth
<1>6. QED BY <1>3, <1>5 DEF f

\* What finish writes, for a client who has been shown all before.
LEMMA FinishPairs ==
  ASSUME ingress \in Protocols, NEW v \in Boards, NEW x \in Translator, x.out = <<>>,
         ~x.aborted /\ ~Verbatim =>
           \E p \in Tallies : Shelved(ingress, p, x.writer, v) /\ (x.pending => p.stage # "open")
  PROVE  /\ \E u \in Boards : Run(Showings(egress, ingress), v, Finish(x).out, u)
         /\ Finish(x).out \in Seq(Plain) \/ Finish(x).writer.opened = {}
<1> DEFINE Done(y) == IF ingress = "openai" THEN [y EXCEPT !.out = Append(@, Frame("Done"))] ELSE y
           M == Showings(egress, ingress)
<1>1. ASSUME NEW y \in Translator, NEW u \in Boards, Run(M, v, y.out, u),
             y.out \in Seq(Plain) \/ y.writer.opened = {}
      PROVE  /\ \E t \in Boards : Run(M, v, Done(y).out, t)
             /\ Done(y).out \in Seq(Plain) \/ Done(y).writer.opened = {}
  <2>1. CASE ingress # "openai"
    BY <1>1, <2>1
  <2>2. CASE ingress = "openai"
    <3> DEFINE o == Append(y.out, Frame("Done"))
               z == [y EXCEPT !.out = o]
    <3>0. y.out \in Seq(Frames)
      BY <1>1 DEF Translator
    <3>1. \E t \in Boards : Run(M, v, o, t)
      BY <1>1, <3>0, DoneShown
    <3>2. Frame("Done") \in Plain
      BY FramesTyped DEF Frame, Plain, Finals, AnyFrame
    <3>3. y.out \in Seq(Plain) => o \in Seq(Plain)
      BY <3>2
    <3> HIDE DEF o
    <3>4. z.out = o /\ z.writer = y.writer
      BY <1>1 DEF Translator
    <3>5. Done(y) = z
      BY <2>2 DEF o
    <3> HIDE DEF z, Done, M
    <3>6. QED BY <1>1, <3>1, <3>3, <3>4, <3>5
  <2>3. QED BY <2>1, <2>2
<1>2. x.writer \in Writer
  BY DEF Translator
<1>3. CASE x.aborted
  <2> DEFINE y == Write(x, StreamError)
  <2>1. Finish(x) = Done(y)
    BY Zenon, <1>3 DEF Finish
  <2>2. StreamError \in Events /\ StreamError.type = "Error" /\ StreamError \in AnyFrame
    BY FramesTyped DEF StreamError, AnyFrame
  <2>3. Written(x.writer, StreamError).out = <<StreamError>>
    BY <1>2, <2>2, WritersShape DEF Shaped, Shape
  <2>4. y \in Translator /\ y.out = x.out \o Written(x.writer, StreamError).out
    <3>1. y \in Translator /\ y = [x EXCEPT !.writer = Written(x.writer, StreamError).st,
                                            !.out = x.out \o Written(x.writer, StreamError).out]
      BY <2>2, WriteIs
    <3>2. QED BY <3>1 DEF Translator
  <2>5. y.out = <<StreamError>>
    BY <2>3, <2>4, ShortConcat
  <2>6. StreamError \in Still /\ StreamError \in Plain
    BY <2>2 DEF Still, Mute, Plain, Finals
  <2>7. y.out \in Seq(Still) /\ y.out \in Seq(Plain)
    BY <2>5, <2>6, ShortSeqs
  <2>8. Run(M, v, y.out, v)
    BY <2>7, StillShown
  <2> HIDE DEF y, Done
  <2>9. QED BY <1>1, <2>1, <2>4, <2>7, <2>8
<1>4. CASE ~x.aborted /\ Verbatim
  <2>1. Finish(x) = x
    BY Zenon, <1>4 DEF Finish
  <2>2. Run(M, v, x.out, v)
    BY RunNothing
  <2>3. x.out \in Seq(Plain)
    BY ShortSeqs
  <2>4. QED BY <2>1, <2>2, <2>3
<1>5. CASE ~x.aborted /\ ~Verbatim
  <2> DEFINE n == MessageDelta(FALSE, ZeroUsage)
             e == [x EXCEPT !.emitted = TRUE, !.pending = FALSE]
             y == IF Binary /\ x.pending /\ ~x.emitted THEN Write(e, n) ELSE x
  <2>1. Finish(x) = Done(y)
    BY Zenon, <1>5 DEF Finish
  <2>2. PICK p \in Tallies : Shelved(ingress, p, x.writer, v) /\ (x.pending => p.stage # "open")
    BY <1>5
  <2>3. /\ y \in Translator /\ Run(M, v, y.out, v)
        /\ y.out \in Seq(Plain) \/ y.writer.opened = {}
    <3>1. CASE Binary /\ x.pending /\ ~x.emitted
      <4>1. ingress = "bedrock" /\ Clear(v) /\ x.writer.opened = {} /\ y = Write(e, n)
        BY <2>2, <3>1 DEF Binary, Shelved
      <4>2. e \in Translator /\ e.out = <<>> /\ e.writer = x.writer
        BY DEF Translator
      <4> HIDE DEF e
      <4>3. n \in Events /\ Written(x.writer, n).st = x.writer /\ Run(M, v, Written(x.writer, n).out, v)
        BY <1>2, <4>1, UsageTyped, MetadataShown
      <4> HIDE DEF n
      <4>4. /\ y \in Translator /\ Shaped(x.writer, n)
            /\ y = [e EXCEPT !.writer = Written(x.writer, n).st, !.out = e.out \o Written(x.writer, n).out]
        BY <4>1, <4>2, <4>3, WriteIs
      <4>5. y.writer = x.writer /\ y.out = e.out \o Written(x.writer, n).out
        BY <4>2, <4>3, <4>4 DEF Translator
      <4>6. Written(x.writer, n).out \in Seq(Frames)
        BY <4>4 DEF Shaped
      <4>7. y.out = Written(x.writer, n).out
        BY <4>2, <4>5, <4>6, EmptyConcat
      <4> HIDE DEF y, M
      <4>8. QED BY <4>1, <4>3, <4>4, <4>5, <4>7
    <3>2. CASE ~(Binary /\ x.pending /\ ~x.emitted)
      <4>1. y = x
        BY <3>2
      <4>2. Run(M, v, x.out, v) /\ x.out \in Seq(Plain)
        BY RunNothing, ShortSeqs
      <4> HIDE DEF y, M
      <4>3. QED BY <4>1, <4>2
    <3>3. QED BY <3>1, <3>2
  <2> HIDE DEF y, Done
  <2>4. QED BY <1>1, <2>1, <2>3
<1>6. QED BY <1>3, <1>4, <1>5

-----------------------------------------------------------------------------
(* What the readers draw: the blocks before and after the events that lie  *)
(* within a message.                                                       *)

Scene(stage, b) == [stage |-> stage, blocks |-> b]

Draws(e, b, s, c) ==
  /\ c \in Boards /\ s \in Seq(Events)
  /\ Run(Tally(e), Scene("open", b), s, Scene("open", c))

\* A board and a stage make a tally.
LEMMA SceneTyped ==
  ASSUME NEW b \in Boards, NEW stage \in {"open", "delta", "over"}, stage = "open" \/ Clear(b)
  PROVE  Scene(stage, b) \in Tallies /\ Scene(stage, b).stage = stage /\ Scene(stage, b).blocks = b
BY DEF Scene, Tallies

\* Every tally is of one.
LEMMA TallySplit ==
  ASSUME NEW p \in Tallies
  PROVE  /\ p = Scene(p.stage, p.blocks) /\ p.blocks \in Boards
         /\ p.stage \in {"open", "delta", "over"} /\ (p.stage # "open" => Clear(p.blocks))
BY DEF Scene, Tallies

\* An event that fits, as a run.
LEMMA TallyRuns ==
  ASSUME NEW e, NEW p \in Tallies, NEW ev \in Events, Adds(e, p, ev), NEW q, q = NextTally(p, ev)
  PROVE  Run(Tally(e), p, <<ev>>, q) /\ q \in Tallies /\ <<ev>> \in Seq(Events)
BY TallyIs, NextTallyTyped, RunOne, ShortSeqs

\* Nothing is drawn.
LEMMA DrawsNothing ==
  ASSUME NEW e, NEW b \in Boards
  PROVE  Draws(e, b, <<>>, b)
BY RunNothing, ShortSeqs DEF Draws

\* One after the other.
LEMMA DrawsBoth ==
  ASSUME NEW e, NEW a, NEW b, NEW c, NEW s, NEW t, Draws(e, a, s, b), Draws(e, b, t, c)
  PROVE  Draws(e, a, s \o t, c)
<1>1. s \in Seq(Events) /\ t \in Seq(Events) /\ c \in Boards
  BY DEF Draws
<1>2. s \o t \in Seq(Events)
  BY <1>1
<1>3. Run(Tally(e), Scene("open", a), s \o t, Scene("open", c))
  BY <1>1, RunBoth DEF Draws
<1>4. QED BY <1>1, <1>2, <1>3 DEF Draws

\* A block is begun.
LEMMA StartDraws ==
  ASSUME NEW e, NEW b \in Boards, NEW i \in Nat, NEW k \in Blocks,
         i \notin DOMAIN b \/ (e = "cohere" /\ k = "text" /\ b[i] = "done"),
         e = "responses" \/ RoomFor(b, k)
  PROVE  Draws(e, b, <<BlockStart(i, k)>>, Put(b, i, k))
<1> DEFINE ev == BlockStart(i, k)
           p == Scene("open", b)
           q == Scene("open", Put(b, i, k))
<1>1. p \in Tallies /\ p.stage = "open" /\ p.blocks = b
  BY SceneTyped
<1>2. ev \in Events /\ ev.type = "BlockStart" /\ ev.index = i /\ ev.kind = k
  BY EventsTyped DEF BlockStart
<1> HIDE DEF ev, p
<1>3. Adds(e, p, ev)
  BY <1>1, <1>2 DEF Adds
<1>4. q = NextTally(p, ev)
  BY <1>1, <1>2 DEF NextTally, Scene
<1>5. Put(b, i, k) \in Boards
  BY PutTyped DEF BlockStates
<1> HIDE DEF q
<1>6. Run(Tally(e), p, <<ev>>, q) /\ <<ev>> \in Seq(Events)
  BY <1>1, <1>2, <1>3, <1>4, TallyRuns
<1>7. QED BY <1>5, <1>6 DEF Draws, ev, p, q

\* A block is extended.
LEMMA DeltaDraws ==
  ASSUME NEW e, NEW b \in Boards, NEW i \in DOMAIN b, NEW k \in Blocks \cup {"citations"},
         b[i] = OfKind(k)
  PROVE  Draws(e, b, <<BlockDelta(i, k)>>, b)
<1> DEFINE ev == BlockDelta(i, k)
           p == Scene("open", b)
<1>0. i \in Nat
  BY BoardTyped
<1>1. p \in Tallies /\ p.stage = "open" /\ p.blocks = b
  BY SceneTyped
<1>2. ev \in Events /\ ev.type = "BlockDelta" /\ ev.index = i /\ ev.kind = k
  BY <1>0, EventsTyped DEF BlockDelta
<1>3. p = [stage |-> "open", blocks |-> b]
  BY DEF Scene
<1> HIDE DEF ev, p
<1>4. Adds(e, p, ev)
  BY <1>1, <1>2 DEF Adds
<1>5. p = NextTally(p, ev)
  BY <1>2, <1>3 DEF NextTally
<1>6. Run(Tally(e), p, <<ev>>, p) /\ <<ev>> \in Seq(Events)
  BY <1>1, <1>2, <1>4, <1>5, TallyRuns
<1>7. QED BY <1>6 DEF Draws, ev, p

\* A block is ended.
LEMMA StopDraws ==
  ASSUME NEW e, NEW b \in Boards, NEW i, Holding(b, i)
  PROVE  Draws(e, b, <<BlockStop(i)>>, Put(b, i, "done"))
<1> DEFINE ev == BlockStop(i)
           p == Scene("open", b)
           q == Scene("open", Put(b, i, "done"))
<1>0. i \in Nat
  BY BoardTyped DEF Holding
<1>1. p \in Tallies /\ p.stage = "open" /\ p.blocks = b
  BY SceneTyped
<1>2. ev \in Events /\ ev.type = "BlockStop" /\ ev.index = i
  BY <1>0, EventsTyped DEF BlockStop
<1> HIDE DEF ev, p
<1>3. Adds(e, p, ev)
  BY <1>1, <1>2 DEF Adds
<1>4. q = NextTally(p, ev)
  BY <1>1, <1>2 DEF NextTally, Scene
<1>5. Put(b, i, "done") \in Boards
  BY <1>0, PutTyped DEF BlockStates
<1> HIDE DEF q
<1>6. Run(Tally(e), p, <<ev>>, q) /\ <<ev>> \in Seq(Events)
  BY <1>1, <1>2, <1>3, <1>4, TallyRuns
<1>7. QED BY <1>5, <1>6 DEF Draws, ev, p, q

\* The message is opened, before any block.
LEMMA OpeningDraws ==
  ASSUME NEW e, NEW u \in Usage
  PROVE  Draws(e, <<>>, <<MessageStart(u)>>, <<>>)
<1> DEFINE ev == MessageStart(u)
           p == Scene("open", <<>>)
<1>1. p \in Tallies /\ p.stage = "open" /\ p.blocks = <<>> /\ <<>> \in Boards /\ DOMAIN p.blocks = {}
  BY EmptyBoard, SceneTyped
<1>2. ev \in Events /\ ev.type = "MessageStart"
  BY EventsTyped DEF MessageStart
<1>3. p = [stage |-> "open", blocks |-> <<>>]
  BY DEF Scene
<1> HIDE DEF ev, p
<1>4. Adds(e, p, ev)
  BY <1>1, <1>2 DEF Adds
<1>5. p = NextTally(p, ev)
  BY <1>2, <1>3 DEF NextTally
<1>6. Run(Tally(e), p, <<ev>>, p) /\ <<ev>> \in Seq(Events)
  BY <1>1, <1>2, <1>4, <1>5, TallyRuns
<1>7. QED BY <1>1, <1>6 DEF Draws, ev, p

\* The stop reason, when every block is done; or counts that come late.
LEMMA StopReason ==
  ASSUME NEW e, NEW b \in Boards, Clear(b), NEW f \in BOOLEAN, NEW u \in Usage,
         NEW stage \in {"open", "over"}
  PROVE  /\ Run(Tally(e), Scene(stage, b), <<MessageDelta(f, u)>>,
                Scene(IF stage = "open" THEN "delta" ELSE "over", b))
         /\ <<MessageDelta(f, u)>> \in Seq(Events)
<1> DEFINE ev == MessageDelta(f, u)
           p == Scene(stage, b)
           q == Scene(IF stage = "open" THEN "delta" ELSE "over", b)
<1>1. p \in Tallies /\ p.stage = stage /\ p.blocks = b
  BY SceneTyped
<1>2. ev \in Events /\ ev.type = "MessageDelta"
  BY EventsTyped DEF MessageDelta
<1> HIDE DEF ev, p
<1>4. Adds(e, p, ev)
  BY <1>1, <1>2 DEF Adds
<1>5. q = NextTally(p, ev)
  BY <1>1, <1>2 DEF NextTally, Scene
<1> HIDE DEF q
<1>6. Run(Tally(e), p, <<ev>>, q) /\ <<ev>> \in Seq(Events)
  BY <1>1, <1>2, <1>4, <1>5, TallyRuns
<1>7. QED BY <1>6 DEF ev, p, q

\* The end of the message.
LEMMA MessageEnds ==
  ASSUME NEW e, NEW b \in Boards, Clear(b), NEW stage \in {"open", "delta"}
  PROVE  /\ Run(Tally(e), Scene(stage, b), <<MessageStop>>, Scene("over", b))
         /\ <<MessageStop>> \in Seq(Events)
<1> DEFINE ev == MessageStop
           p == Scene(stage, b)
           q == Scene("over", b)
<1>1. p \in Tallies /\ p.stage = stage /\ p.blocks = b
  BY SceneTyped
<1>2. ev \in Events /\ ev.type = "MessageStop"
  BY EventsTyped DEF MessageStop
<1> HIDE DEF ev, p
<1>4. Adds(e, p, ev)
  BY <1>1, <1>2 DEF Adds
<1>5. q = NextTally(p, ev)
  BY <1>1, <1>2 DEF NextTally, Scene
<1> HIDE DEF q
<1>6. Run(Tally(e), p, <<ev>>, q) /\ <<ev>> \in Seq(Events)
  BY <1>1, <1>2, <1>4, <1>5, TallyRuns
<1>7. QED BY <1>6 DEF ev, p, q

\* Both at once.
LEMMA BothEnd ==
  ASSUME NEW e, NEW b \in Boards, Clear(b), NEW f \in BOOLEAN, NEW u \in Usage
  PROVE  /\ Run(Tally(e), Scene("open", b), <<MessageDelta(f, u), MessageStop>>, Scene("over", b))
         /\ <<MessageDelta(f, u), MessageStop>> \in Seq(Events)
<1> DEFINE d == MessageDelta(f, u)
<1>1. Run(Tally(e), Scene("open", b), <<d>>, Scene("delta", b)) /\ <<d>> \in Seq(Events)
  BY StopReason
<1>2. Run(Tally(e), Scene("delta", b), <<MessageStop>>, Scene("over", b)) /\ <<MessageStop>> \in Seq(Events)
  BY MessageEnds
<1>3. <<d, MessageStop>> = <<d>> \o <<MessageStop>>
  BY ShortConcat
<1>4. <<d>> \o <<MessageStop>> \in Seq(Events)
  BY <1>1, <1>2
<1>5. Run(Tally(e), Scene("open", b), <<d>> \o <<MessageStop>>, Scene("over", b))
  BY <1>1, <1>2, RunBoth
<1> HIDE DEF d
<1>6. QED BY <1>3, <1>4, <1>5 DEF d

\* An error says nothing of blocks.
LEMMA ErrorDraws ==
  ASSUME NEW e, NEW b \in Boards
  PROVE  Draws(e, b, <<StreamError>>, b)
<1> DEFINE ev == StreamError
           p == Scene("open", b)
<1>1. p \in Tallies /\ p.stage = "open" /\ p.blocks = b
  BY SceneTyped
<1>2. ev \in Events /\ ev.type = "Error"
  BY EventsTyped DEF StreamError
<1>3. p = [stage |-> "open", blocks |-> b]
  BY DEF Scene
<1> HIDE DEF ev, p
<1>4. Adds(e, p, ev)
  BY <1>1, <1>2 DEF Adds
<1>5. p = NextTally(p, ev)
  BY <1>2, <1>3 DEF NextTally
<1>6. Run(Tally(e), p, <<ev>>, p) /\ <<ev>> \in Seq(Events)
  BY <1>1, <1>2, <1>4, <1>5, TallyRuns
<1>7. QED BY <1>6 DEF Draws, ev, p

-----------------------------------------------------------------------------
(* Stopping the blocks of a set, one by one.                               *)

Stopped(b, S) == [j \in DOMAIN b |-> IF j \in S THEN "done" ELSE b[j]]

\* A board on which some blocks are stopped.
LEMMA StoppedTyped ==
  ASSUME NEW b \in Boards, NEW S
  PROVE  /\ Stopped(b, S) \in Boards /\ DOMAIN Stopped(b, S) = DOMAIN b
         /\ \A j \in DOMAIN b : Stopped(b, S)[j] = IF j \in S THEN "done" ELSE b[j]
<1> DEFINE c == [j \in DOMAIN b |-> IF j \in S THEN "done" ELSE b[j]]
<1>1. DOMAIN b \in SUBSET Nat /\ c \in [DOMAIN b -> BlockStates]
  BY BoardTyped DEF BlockStates
<1>2. c \in Boards
  BY <1>1 DEF Boards
<1>3. c = Stopped(b, S)
  BY DEF Stopped
<1>4. QED BY <1>2, <1>3

\* Another is stopped.
LEMMA StopOne ==
  ASSUME NEW e, NEW b \in Boards, NEW S, NEW i, i \notin S, Holding(b, i)
  PROVE  <<Scene("open", Stopped(b, S)), BlockStop(i), Scene("open", Stopped(b, S \cup {i}))>> \in Tally(e)
<1> DEFINE c == Stopped(b, S)
           ev == BlockStop(i)
           p == Scene("open", c)
           q == Scene("open", Stopped(b, S \cup {i}))
<1>0. i \in Nat /\ i \in DOMAIN b /\ b[i] # "done"
  BY BoardTyped DEF Holding
<1>1. c \in Boards /\ DOMAIN c = DOMAIN b /\ c[i] = b[i]
  BY <1>0, StoppedTyped
<1>2. Stopped(b, S \cup {i}) = Put(c, i, "done")
  <2>1. \A j \in DOMAIN b : c[j] = IF j \in S THEN "done" ELSE b[j]
    BY StoppedTyped
  <2>2. DOMAIN c \cup {i} = DOMAIN b
    BY <1>0, <1>1
  <2> HIDE DEF c
  <2>3. QED BY <2>1, <2>2 DEF Stopped, Put
<1> HIDE DEF c
<1>3. p \in Tallies /\ p.stage = "open" /\ p.blocks = c
  BY <1>1, SceneTyped
<1>4. ev \in Events /\ ev.type = "BlockStop" /\ ev.index = i
  BY <1>0, EventsTyped DEF BlockStop
<1> HIDE DEF ev, p
<1>5. Adds(e, p, ev)
  BY <1>0, <1>1, <1>3, <1>4 DEF Adds, Holding
<1>6. q = NextTally(p, ev)
  BY <1>2, <1>3, <1>4 DEF NextTally, Scene
<1> HIDE DEF q
<1>7. <<p, ev, q>> \in Tally(e)
  BY <1>3, <1>4, <1>5, <1>6, TallyIs
<1>8. QED BY <1>7 DEF p, q, ev, c

\* The members of a finite set of numbers by their rank.
LEMMA Ranked ==
  ASSUME NEW S \in SUBSET Nat, IsFiniteSet(S)
  PROVE  /\ \A n \in 1 .. Cardinality(S) : Nth(S, n) \in S
         /\ \A m, n \in 1 .. Cardinality(S) : Nth(S, m) = Nth(S, n) => m = n
         /\ \A i \in S : \E n \in 1 .. Cardinality(S) : Nth(S, n) = i
<1> DEFINE c == Cardinality(S)
           g == [n \in 1 .. c |-> Nth(S, n)]
<1>1. c \in Nat
  BY FS_CardinalityType
<1>2. ASSUME NEW n \in 1 .. c
      PROVE  Nth(S, n) \in S /\ Cardinality({j \in S : j < Nth(S, n)}) = n - 1
  <2>1. n - 1 \in Nat /\ n - 1 < c
    BY <1>1
  <2>2. \E i \in S : Cardinality({j \in S : j < i}) = n - 1
    BY <2>1, Below
  <2>3. QED BY <2>2 DEF Nth
<1>3. ASSUME NEW m \in 1 .. c, NEW n \in 1 .. c, Nth(S, m) = Nth(S, n) PROVE m = n
  <2>1. m - 1 = n - 1
    BY <1>2, <1>3
  <2>2. QED BY <1>1, <2>1
<1>4. g \in Injection(1 .. c, S)
  BY <1>2, <1>3 DEF Injection, IsInjective
<1>5. Cardinality(1 .. c) = c
  BY <1>1, FS_Interval
<1> HIDE DEF g
<1>6. g \in Surjection(1 .. c, S)
  BY <1>4, <1>5, FS_Injection
<1>7. \A i \in S : \E n \in 1 .. c : g[n] = i
  BY <1>6 DEF Surjection
<1>8. QED BY <1>2, <1>3, <1>7 DEF g

\* Stopping every open block of a set.
LEMMA StopsDraw ==
  ASSUME NEW e, NEW b \in Boards, NEW S \in SUBSET Nat, IsFiniteSet(S),
         \A i \in S : Holding(b, i)
  PROVE  Draws(e, b, Stops(S), Stopped(b, S))
<1> DEFINE c == Cardinality(S)
           upTo(n) == {Nth(S, m) : m \in 1 .. n}
           h == [n \in 0 .. c |-> Scene("open", Stopped(b, upTo(n)))]
           s == Stops(S)
<1>1. c \in Nat
  BY FS_CardinalityType
<1>2. Len(s) = c /\ \A n \in 1 .. c : s[n] = BlockStop(Nth(S, n))
  BY <1>1 DEF Stops
<1>3. s \in Seq(Events)
  BY StopsTyped, EventSeqs
<1> HIDE DEF s
<1>4. h[0] = Scene("open", b)
  <2>1. upTo(0) = {}
    OBVIOUS
  <2>2. Stopped(b, {}) = b
    BY BoardTyped DEF Stopped
  <2>3. 0 \in 0 .. c
    BY <1>1
  <2>4. QED BY <2>1, <2>2, <2>3
<1>5. h[c] = Scene("open", Stopped(b, S))
  <2>1. upTo(c) = S
    <3>1. \A x \in upTo(c) : x \in S
      BY Ranked
    <3>2. ASSUME NEW x \in S PROVE x \in upTo(c)
      <4>1. PICK n \in 1 .. c : Nth(S, n) = x
        BY Ranked
      <4>2. QED BY <4>1
    <3>3. QED BY <3>1, <3>2
  <2>2. c \in 0 .. c
    BY <1>1
  <2>3. QED BY <2>1, <2>2
<1>6. ASSUME NEW n \in 1 .. c PROVE <<h[n - 1], s[n], h[n]>> \in Tally(e)
  <2> DEFINE i == Nth(S, n)
  <2>1. n \in 0 .. c /\ n - 1 \in 0 .. c /\ n \in Nat
    BY <1>1
  <2>2. upTo(n) = upTo(n - 1) \cup {i}
    <3>1. \A m : m \in 1 .. n <=> m \in 1 .. (n - 1) \/ m = n
      BY <2>1
    <3>2. QED BY <3>1
  <2>3. i \notin upTo(n - 1)
    <3>1. ASSUME NEW m \in 1 .. (n - 1), Nth(S, m) = i PROVE FALSE
      <4>1. m \in 1 .. c /\ m # n
        BY <1>1
      <4>2. QED BY <3>1, <4>1, Ranked
    <3>2. QED BY <3>1
  <2>4. Holding(b, i)
    BY Ranked
  <2>5. h[n - 1] = Scene("open", Stopped(b, upTo(n - 1))) /\ h[n] = Scene("open", Stopped(b, upTo(n)))
    BY <2>1
  <2>6. s[n] = BlockStop(i)
    BY <1>2
  <2> HIDE DEF i, h, upTo
  <2>7. QED BY <2>2, <2>3, <2>4, <2>5, <2>6, StopOne
<1> HIDE DEF h
<1>7. Run(Tally(e), Scene("open", b), s, Scene("open", Stopped(b, S)))
  BY <1>2, <1>4, <1>5, <1>6 DEF Run
<1>8. Stopped(b, S) \in Boards
  BY StoppedTyped
<1>9. QED BY <1>3, <1>7, <1>8 DEF Draws, s

\* A board with all its open blocks stopped is clear.
LEMMA StoppedClear ==
  ASSUME NEW b \in Boards, NEW S, \A i \in DOMAIN b : b[i] # "done" => i \in S
  PROVE  Clear(Stopped(b, S))
BY StoppedTyped DEF Clear

-----------------------------------------------------------------------------
(* Room for one more.                                                      *)

\* For the first of its kind.
LEMMA RoomForFirst ==
  ASSUME NEW b, NEW k, \A i \in DOMAIN b : b[i] # k
  PROVE  RoomFor(b, k)
<1>1. ASSUME NEW x \in Listed(b, {k}) PROVE FALSE
  BY InListed
<1>2. Cardinality(Listed(b, {k})) = 0
  BY <1>1, FS_EmptySet
<1>3. QED BY <1>2, CapIsPositive DEF RoomFor

\* For a tool, when the reader remembers every open one.
LEMMA RoomForTool ==
  ASSUME NEW e, NEW d, Sound(e, d), NEW b, ToolCount(d) < MaxOpenTools,
         \A i \in DOMAIN b : b[i] = "tool" => \E w \in DOMAIN d.tools : d.tools[w] = i
  PROVE  RoomFor(b, "tool")
<1> DEFINE S == {w \in DOMAIN d.tools : d.tools[w] \in DOMAIN b /\ b[d.tools[w]] = "tool"}
           T == Listed(b, {"tool"})
           g == [w \in S |-> <<"tool", d.tools[w]>>]
<1>1. IsFiniteSet(DOMAIN d.tools) /\ ToolCount(d) \in Nat /\ MaxOpenTools \in Nat
  BY SoundCounts DEF Sound
<1>2. S \in SUBSET DOMAIN d.tools
  OBVIOUS
<1>3. IsFiniteSet(S) /\ Cardinality(S) \in Nat /\ Cardinality(S) <= ToolCount(d)
  BY <1>1, <1>2, FS_Subset, FS_CardinalityType DEF ToolCount
<1>4. ASSUME NEW w \in S PROVE <<"tool", d.tools[w]>> \in T
  BY PairListed
<1>5. ASSUME NEW x \in T PROVE \E w \in S : <<"tool", d.tools[w]>> = x
  <2>1. PICK i \in DOMAIN b : b[i] \in {"tool"} /\ x = <<b[i], i>>
    BY InListed
  <2>2. PICK w \in DOMAIN d.tools : d.tools[w] = i
    BY <2>1
  <2>3. QED BY <2>1, <2>2
<1> HIDE DEF S, T
<1>6. g \in Surjection(S, T)
  BY <1>4, <1>5 DEF Surjection
<1> HIDE DEF g
<1>7. IsFiniteSet(T) /\ Cardinality(T) <= Cardinality(S)
  BY <1>3, <1>6, FS_Surjection
<1>8. Cardinality(T) \in Nat
  BY <1>7, FS_CardinalityType
<1>9. Cardinality(T) < MaxOpenTools
  BY <1>1, <1>3, <1>7, <1>8
<1>10. QED BY <1>9 DEF RoomFor, T

\* Events of blocks and the end of a message.
LEMMA SeqEnds ==
  ASSUME NEW b \in Seq(BlockEvents), NEW f \in BOOLEAN, NEW u \in Counted
  PROVE  b \o <<MessageDelta(f, Reported(u)), MessageStop>> \in Seq(Events)
<1> DEFINE z == <<MessageDelta(f, Reported(u)), MessageStop>>
<1>1. b \in Seq(Events)
  BY EventSeqs
<1>2. z \in Seq(Events)
  BY ReportedIs, EventsTyped, ShortSeqs
<1> HIDE DEF z
<1>3. b \o z \in Seq(Events)
  BY <1>1, <1>2
<1>4. QED BY <1>3 DEF z

-----------------------------------------------------------------------------
(* The blocks told of, by where the backend is in its stream and what its  *)
(* reader remembers.                                                       *)

Numbered(s) == \E n \in Nat : s.used = 0 .. n - 1

\* The indices used that a reader tells apart.
Apart(e, used) == \A i, j \in used : TakenFor(e, i) = TakenFor(e, j) => i = j

\* One block after the other, told of as the backend sends them.
Serial(s, b) ==
  /\ Numbered(s) /\ ~s.text
  /\ DOMAIN b = s.used /\ DOMAIN s.open \subseteq s.used
  /\ \A i \in DOMAIN b : b[i] = IF i \in DOMAIN s.open THEN s.open[i] ELSE "done"
  /\ \A i, j \in DOMAIN s.open : i = j

\* A bedrock reader remembers text and reasoning that are open.
OnBedrock(s, d, b) ==
  /\ Serial(s, b) /\ d.started
  /\ \A i \in DOMAIN s.open : s.open[i] = "thinking" => d.thinking
  /\ DOMAIN s.open = {} => ~d.text /\ ~d.thinking

\* How many indices a reader has given out.
Slots(d) == ToolCount(d) + (IF d.text_index # NoIndex THEN 1 ELSE 0)

\* What a cohere reader takes the tools for that are open on the wire.
FramesOf(wires) == {CohereFrame(i) : i \in wires}

\* A cohere reader never forgets a tool's index, nor its text's.
OnCohere(s, d, b) ==
  /\ (d.text <=> s.text) /\ (d.text => d.text_index # NoIndex)
  /\ DOMAIN d.tools \subseteq FramesOf(s.used) /\ DOMAIN s.open \subseteq s.used
  /\ \A i, j \in DOMAIN s.open : i = j
  /\ \A i \in DOMAIN b : i < Slots(d)
  /\ d.text_index # NoIndex =>
       d.text_index \in DOMAIN b /\ b[d.text_index] = IF d.text THEN "text" ELSE "done"
  /\ \A w \in DOMAIN d.tools : /\ d.tools[w] \in DOMAIN b /\ d.tools[w] # d.text_index
                               /\ b[d.tools[w]] = IF w \in FramesOf(DOMAIN s.open)
                                                  THEN "tool" ELSE "done"
  /\ \A w, v \in DOMAIN d.tools : d.tools[w] = d.tools[v] => w = v
  /\ \A i \in DOMAIN b : i = d.text_index \/ \E w \in DOMAIN d.tools : d.tools[w] = i

\* A gemini reader has every block open until the finish.
OnGemini(d, b) ==
  /\ d.text <=> d.text_index # NoIndex
  /\ \A i \in DOMAIN b : i < Slots(d)
  /\ d.text => d.text_index \in DOMAIN b /\ b[d.text_index] = "text"
  /\ \A w \in DOMAIN d.tools : d.tools[w] = w /\ w \in DOMAIN b /\ b[w] = "tool"
  /\ \A i \in DOMAIN b : (d.text /\ i = d.text_index) \/ i \in DOMAIN d.tools

\* An openai reader has its text and its tools open until the finish.
Answering(d, b) ==
  /\ d.text <=> d.text_index # NoIndex
  /\ \A i \in DOMAIN b : i < Slots(d) + Offset(d)
  /\ d.thinking => d.reasoning_seen /\ 0 \in DOMAIN b /\ b[0] = "thinking"
  /\ d.text => d.text_index \in DOMAIN b /\ b[d.text_index] = "text"
  /\ \A w \in DOMAIN d.tools : d.tools[w] \in DOMAIN b /\ b[d.tools[w]] = "tool"
  /\ \A i \in DOMAIN b : \/ d.thinking /\ i = 0
                         \/ d.text /\ i = d.text_index
                         \/ \E w \in DOMAIN d.tools : d.tools[w] = i
                         \/ b[i] = "done"

\* It ends its reasoning when the answer begins, and not before.
OnOpenai(s, d, b) ==
  /\ Answering(d, b)
  /\ DOMAIN d.tools = {w \in s.used : w < MaxOpenTools}
  /\ d.reasoning_seen /\ ~d.thinking => d.text \/ DOMAIN d.tools # {}

\* The blocks of a responses reader are the items it holds open.
OnResponses(s, d, b) ==
  /\ DOMAIN s.open \subseteq s.used /\ s.used \subseteq 0 .. MaxOpenTools - 1
  /\ DOMAIN b \subseteq s.used
  /\ DOMAIN d.tools \cup d.texts \subseteq DOMAIN s.open
  /\ \A i \in DOMAIN d.tools : /\ i \in DOMAIN b /\ b[i] = s.open[i]
                               /\ s.open[i] \in {"tool", "thinking"}
  /\ \A i \in d.texts : i \in DOMAIN b /\ s.open[i] = "text" /\ b[i] = "text"
  /\ \A i \in DOMAIN b : b[i] = "done" \/ i \in DOMAIN d.tools \cup d.texts
  /\ \A i \in DOMAIN s.open : \/ i \in DOMAIN d.tools \cup d.texts
                              \/ s.open[i] = "said" \/ i \notin DOMAIN b

\* While the backend is inside its message.
Meets(e, s, d, b) ==
  /\ e = "anthropic" => Serial(s, b)
  /\ e = "bedrock"   => OnBedrock(s, d, b)
  /\ e = "cohere"    => OnCohere(s, d, b)
  /\ e = "gemini"    => OnGemini(d, b)
  /\ e = "openai"    => Numbered(s) /\ OnOpenai(s, d, b)
  /\ e = "responses" => Numbered(s) /\ OnResponses(s, d, b)

\* All along.
OnBoard(e, s, d, p) ==
  /\ p \in Tallies
  /\ s.at = "idle" => /\ p = Scene("open", <<>>) /\ d = Fresh
                      /\ s.used = {} /\ s.open = <<>> /\ ~s.text
  /\ s.at = "open" => p.stage = "open" /\ Meets(e, s, d, p.blocks)
  /\ s.at = "stopping" => Clear(p.blocks) /\ p.stage = IF e = "bedrock" THEN "open" ELSE "delta"
  /\ s.at \in {"finished", "counted"} => Clear(p.blocks) /\ p.stage = "over"

\* What the frame c, sent on the way from s to t, makes of the blocks.
Drawn(e, d, p, c, t) ==
  \E q : Run(Tally(e), p, ReadBy(e, d, c).out, q) /\ OnBoard(e, t, ReadBy(e, d, c).st, q)

\* Inside the message.
LEMMA DrawnInside ==
  ASSUME NEW e, NEW d, NEW p \in Tallies, NEW c, NEW t, p.stage = "open", t.at = "open", NEW b,
         Draws(e, p.blocks, ReadBy(e, d, c).out, b), Meets(e, t, ReadBy(e, d, c).st, b)
  PROVE  Drawn(e, d, p, c, t)
<1> DEFINE q == Scene("open", b)
<1>1. p = Scene("open", p.blocks)
  BY TallySplit
<1>2. q \in Tallies /\ q.stage = "open" /\ q.blocks = b
  BY SceneTyped DEF Draws
<1>3. Run(Tally(e), p, ReadBy(e, d, c).out, q)
  BY <1>1 DEF Draws
<1> HIDE DEF q
<1>4. OnBoard(e, t, ReadBy(e, d, c).st, q)
  BY <1>2 DEF OnBoard
<1>5. QED BY <1>3, <1>4 DEF Drawn

\* At its end.
LEMMA DrawnAtEnd ==
  ASSUME NEW e, NEW d, NEW p, NEW c, NEW t, t.at \in {"finished", "counted"}, NEW b \in Boards, Clear(b),
         Run(Tally(e), p, ReadBy(e, d, c).out, Scene("over", b))
  PROVE  Drawn(e, d, p, c, t)
<1> DEFINE q == Scene("over", b)
<1>1. q \in Tallies /\ q.stage = "over" /\ q.blocks = b
  BY SceneTyped
<1> HIDE DEF q
<1>2. OnBoard(e, t, ReadBy(e, d, c).st, q)
  BY <1>1 DEF OnBoard
<1>3. QED BY <1>2 DEF Drawn, q

\* When it has failed.
LEMMA DrawnFailed ==
  ASSUME NEW e, NEW d, NEW p, NEW c, NEW t, t.at = "failed", NEW q \in Tallies,
         Run(Tally(e), p, ReadBy(e, d, c).out, q)
  PROVE  Drawn(e, d, p, c, t)
<1>1. OnBoard(e, t, ReadBy(e, d, c).st, q)
  BY DEF OnBoard
<1>2. QED BY <1>1 DEF Drawn

\* What opening and closing an item makes of a backend's stream.
LEMMA SentChanges ==
  ASSUME NEW e, NEW s, SentOK(e, s), NEW i, NEW k
  PROVE  /\ Opening(s, i, k).at = s.at /\ Opening(s, i, k).text = s.text
         /\ Opening(s, i, k).used = s.used \cup {i}
         /\ DOMAIN Opening(s, i, k).open = DOMAIN s.open \cup {i}
         /\ Opening(s, i, k).open[i] = k
         /\ \A j \in DOMAIN s.open : j # i => Opening(s, i, k).open[j] = s.open[j]
         /\ Closing(s, i).at = s.at /\ Closing(s, i).text = s.text /\ Closing(s, i).used = s.used
         /\ DOMAIN Closing(s, i).open = DOMAIN s.open \ {i}
         /\ \A j \in DOMAIN s.open \ {i} : Closing(s, i).open[j] = s.open[j]
<1>1. s = [at |-> s.at, text |-> s.text, open |-> s.open, used |-> s.used, told |-> s.told]
  BY DEF SentOK
<1> DEFINE o == [j \in DOMAIN s.open \cup {i} |-> IF j = i THEN k ELSE s.open[j]]
           q == [j \in DOMAIN s.open \ {i} |-> s.open[j]]
<1>2. Opening(s, i, k) = [at |-> s.at, text |-> s.text, open |-> o, used |-> s.used \cup {i}, told |-> s.told]
  <2>1. Opening(s, i, k) = [s EXCEPT !.used = s.used \cup {i}, !.open = o]
    BY Zenon DEF Opening
  <2> HIDE DEF o
  <2>2. QED BY <1>1, <2>1
<1>3. Closing(s, i) = [at |-> s.at, text |-> s.text, open |-> q, used |-> s.used, told |-> s.told]
  BY <1>1 DEF Closing
<1>4. DOMAIN o = DOMAIN s.open \cup {i} /\ o[i] = k /\ \A j \in DOMAIN s.open : j # i => o[j] = s.open[j]
  OBVIOUS
<1>5. DOMAIN q = DOMAIN s.open \ {i} /\ \A j \in DOMAIN s.open \ {i} : q[j] = s.open[j]
  OBVIOUS
<1> HIDE DEF o, q
<1>6. QED BY <1>2, <1>3, <1>4, <1>5

\* The next number.
LEMMA NextNumber ==
  ASSUME Numbered(sent), NEW i \in NextIndex
  PROVE  i \in Nat /\ i \notin sent.used /\ \E n \in Nat : sent.used \cup {i} = 0 .. n - 1
<1>1. PICK n \in Nat : sent.used = 0 .. n - 1
  BY DEF Numbered
<1>2. Cardinality(sent.used) = n
  <2>1. 0 \in Int /\ n - 1 \in Int /\ (IF 0 > n - 1 THEN 0 ELSE (n - 1) - 0 + 1) = n
    OBVIOUS
  <2>2. Cardinality(0 .. n - 1) = IF 0 > n - 1 THEN 0 ELSE (n - 1) - 0 + 1
    BY <2>1, FS_Interval
  <2>3. QED BY <1>1, <2>1, <2>2
<1>3. i = n
  BY <1>2 DEF NextIndex
<1>4. n \notin 0 .. n - 1 /\ (0 .. n - 1) \cup {n} = 0 .. (n + 1) - 1 /\ n + 1 \in Nat
  OBVIOUS
<1>5. QED BY <1>1, <1>3, <1>4

\* Numbered blocks that are told apart are taken for what they are.
LEMMA TakenAsIs ==
  ASSUME NEW e \in {"anthropic", "bedrock"}, NEW used, Apart(e, used),
         \E n \in Nat : used = 0 .. n - 1, NEW i \in used
  PROVE  BlockIndex(i) = i
<1>1. PICK n \in Nat : used = 0 .. n - 1
  OBVIOUS
<1>2. MaxBlockIndex \in Nat
  BY BlockIndexIsNumber
<1>3. \A j : TakenFor(e, j) = BlockIndex(j)
  BY DEF TakenFor
<1>4. \A j \in Nat : BlockIndex(j) = IF j < MaxBlockIndex THEN j ELSE MaxBlockIndex
  BY DEF BlockIndex, AtMost
<1>5. i \in Nat /\ i < n
  BY <1>1
<1>6. CASE i <= MaxBlockIndex
  BY <1>2, <1>4, <1>5, <1>6
<1>7. CASE ~(i <= MaxBlockIndex)
  <2>1. MaxBlockIndex \in used
    BY <1>1, <1>2, <1>5, <1>7
  <2>2. BlockIndex(i) = BlockIndex(MaxBlockIndex)
    BY <1>2, <1>4, <1>5, <1>7
  <2>3. i = MaxBlockIndex
    BY <1>3, <2>1, <2>2 DEF Apart
  <2>4. QED BY <1>2, <1>7, <2>3
<1>8. QED BY <1>6, <1>7

\* And so are the items of a response.
LEMMA ClampedAsIs ==
  ASSUME NEW used, Apart("responses", used), \E n \in Nat : used = 0 .. n - 1, NEW i \in used
  PROVE  i \in 0 .. MaxOpenTools - 1 /\ Clamped(i) = i
<1>1. PICK n \in Nat : used = 0 .. n - 1
  OBVIOUS
<1>2. MaxOpenTools \in Nat \ {0}
  BY CapIsPositive
<1>3. \A j : TakenFor("responses", j) = Clamped(j)
  BY DEF TakenFor
<1>4. \A j \in Nat : Clamped(j) = IF j < MaxOpenTools - 1 THEN j ELSE MaxOpenTools - 1
  BY DEF Clamped, AtMost
<1>5. i \in Nat /\ i < n
  BY <1>1
<1>6. CASE i <= MaxOpenTools - 1
  BY <1>2, <1>4, <1>5, <1>6
<1>7. CASE ~(i <= MaxOpenTools - 1)
  <2> DEFINE m == MaxOpenTools - 1
  <2>1. m \in used /\ Clamped(i) = Clamped(m)
    BY <1>1, <1>2, <1>4, <1>5, <1>7
  <2>2. i = m
    BY <1>3, <2>1 DEF Apart
  <2>3. QED BY <1>2, <1>5, <1>7, <2>2
<1>8. QED BY <1>6, <1>7

\* Blocks in a row, before the first.
LEMMA SerialFirst ==
  ASSUME NEW s, s.used = {}, s.open = <<>>, ~s.text
  PROVE  Serial(s, <<>>) /\ Numbered(s)
<1>1. DOMAIN <<>> = {} /\ 0 .. 0 - 1 = {} /\ 0 \in Nat
  OBVIOUS
<1>2. QED BY <1>1 DEF Serial, Numbered

\* Another block is begun,
LEMMA SerialBegun ==
  ASSUME NEW e, SentOK(e, sent), NEW b \in Boards, Serial(sent, b), sent.open = <<>>,
         NEW i \in NextIndex, NEW k \in Blocks
  PROVE  /\ i \in Nat /\ i \notin DOMAIN b /\ Clear(b) /\ RoomFor(b, k)
         /\ Serial(Opening(sent, i, k), Put(b, i, k))
         /\ e \in {"anthropic", "bedrock"} /\ Apart(e, Opening(sent, i, k).used) => BlockIndex(i) = i
<1> DEFINE t == Opening(sent, i, k)
           c == Put(b, i, k)
<1>0. Numbered(sent) /\ ~sent.text /\ DOMAIN sent.open = {} /\ DOMAIN b = sent.used
  BY DEF Serial
<1>1. i \in Nat /\ i \notin sent.used /\ \E n \in Nat : sent.used \cup {i} = 0 .. n - 1
  BY <1>0, NextNumber
<1>2. Clear(b)
  BY <1>0 DEF Serial, Clear
<1>3. RoomFor(b, k)
  <2>1. \A j \in DOMAIN b : b[j] # k
    BY <1>2 DEF Clear, Blocks
  <2>2. QED BY <2>1, RoomForFirst
<1>4. /\ t.text = sent.text /\ t.used = sent.used \cup {i} /\ DOMAIN t.open = {i} /\ t.open[i] = k
  BY <1>0, SentChanges
<1>5. DOMAIN c = DOMAIN b \cup {i} /\ c[i] = k /\ \A j \in DOMAIN b : j # i => c[j] = b[j]
  BY DEF Put
<1> HIDE DEF t, c
<1>6. \A j \in DOMAIN c : c[j] = IF j \in DOMAIN t.open THEN t.open[j] ELSE "done"
  BY <1>2, <1>4, <1>5 DEF Clear
<1>7. Serial(t, c)
  BY <1>0, <1>1, <1>4, <1>5, <1>6 DEF Serial, Numbered
<1>8. e \in {"anthropic", "bedrock"} /\ Apart(e, t.used) => BlockIndex(i) = i
  <2>1. i \in t.used /\ \E n \in Nat : t.used = 0 .. n - 1
    BY <1>1, <1>4
  <2>2. QED BY <2>1, TakenAsIs
<1>9. QED BY <1>0, <1>1, <1>2, <1>3, <1>7, <1>8 DEF t, c

\* extended,
LEMMA SerialHeld ==
  ASSUME NEW e, e # "responses", SentOK(e, sent), NEW b, Serial(sent, b), NEW i \in DOMAIN sent.open
  PROVE  /\ i \in DOMAIN b /\ b[i] = sent.open[i] /\ sent.open[i] \in Blocks /\ Holding(b, i)
         /\ e \in {"anthropic", "bedrock"} /\ Apart(e, sent.used) => BlockIndex(i) = i
<1>1. i \in DOMAIN b /\ b[i] = sent.open[i] /\ sent.open[i] \in Blocks
  BY DEF Serial, SentOK
<1>2. e \in {"anthropic", "bedrock"} /\ Apart(e, sent.used) => BlockIndex(i) = i
  <2>1. i \in sent.used /\ \E n \in Nat : sent.used = 0 .. n - 1
    BY DEF Serial, Numbered
  <2>2. QED BY <2>1, TakenAsIs
<1>3. QED BY <1>1, <1>2 DEF Holding, Blocks

\* and ended.
LEMMA SerialEnded ==
  ASSUME NEW e, SentOK(e, sent), NEW b \in Boards, Serial(sent, b), NEW i \in DOMAIN sent.open
  PROVE  Serial(Closing(sent, i), Put(b, i, "done")) /\ DOMAIN Closing(sent, i).open = {}
<1> DEFINE t == Closing(sent, i)
           c == Put(b, i, "done")
<1>0. i \in DOMAIN b /\ i \in Nat
  BY BoardTyped DEF Serial
<1>1. t.text = sent.text /\ t.used = sent.used /\ DOMAIN t.open = DOMAIN sent.open \ {i}
  BY SentChanges
<1>2. DOMAIN c = DOMAIN b \cup {i} /\ c[i] = "done" /\ \A j \in DOMAIN b : j # i => c[j] = b[j]
  BY DEF Put
<1> HIDE DEF t, c
<1>3. DOMAIN sent.open = {i}
  BY DEF Serial
<1>4. DOMAIN t.open = {}
  BY <1>1, <1>3
<1>5. DOMAIN c = t.used /\ \A j \in DOMAIN c : c[j] = "done"
  BY <1>0, <1>1, <1>2, <1>3 DEF Serial
<1>6. Serial(t, c)
  BY <1>1, <1>4, <1>5 DEF Serial, Numbered
<1>7. QED BY <1>4, <1>6 DEF t, c

\* None is open when the backend has none open.
LEMMA SerialQuiet ==
  ASSUME NEW b, Serial(sent, b), sent.open = <<>>
  PROVE  Clear(b)
BY DEF Serial, Clear

\* Where a backend is, and what it has told, are apart from its blocks.
LEMMA AtGives ==
  ASSUME NEW e, NEW s, SentOK(e, s), NEW w, NEW u
  PROVE  /\ At(s, w).at = w /\ At(s, w).text = s.text /\ At(s, w).open = s.open /\ At(s, w).used = s.used
         /\ Telling(At(s, w), u).at = w /\ Telling(At(s, w), u).text = s.text
         /\ Telling(At(s, w), u).open = s.open /\ Telling(At(s, w), u).used = s.used
BY Tells

\* A reader's first frame, before any block.
LEMMA FirstMeets ==
  ASSUME NEW e, NEW s, s.used = {}, s.open = <<>>, ~s.text
  PROVE  /\ Begun(Fresh).out = <<MessageStart(ZeroUsage)>>
         /\ Draws(e, <<>>, Begun(Fresh).out, <<>>)
         /\ Begun(Fresh).st.started /\ Meets(e, s, Begun(Fresh).st, <<>>)
<1> DEFINE d == Begun(Fresh).st
<1>1. Begun(Fresh).out = <<MessageStart(ZeroUsage)>>
  BY DEF Begun, Says, Only, Fresh
<1>2. Draws(e, <<>>, <<MessageStart(ZeroUsage)>>, <<>>)
  BY UsagesTyped, OpeningDraws
<1>3. /\ d.started /\ ~d.text /\ d.text_index = NoIndex /\ ~d.thinking /\ ~d.reasoning_seen
      /\ d.tools = <<>> /\ d.texts = {}
  BY DEF Begun, Says, Fresh
<1>4. DOMAIN <<>> = {}
  OBVIOUS
<1>5. Serial(s, <<>>) /\ Numbered(s)
  BY SerialFirst
<1> HIDE DEF d
<1>6. OnBedrock(s, d, <<>>) /\ OnCohere(s, d, <<>>) /\ OnGemini(d, <<>>)
  <2>1. DOMAIN s.open = {} /\ DOMAIN d.tools = {}
    BY <1>3, <1>4
  <2>2. OnBedrock(s, d, <<>>)
    BY <1>3, <1>5, <2>1 DEF OnBedrock
  <2>3. OnCohere(s, d, <<>>)
    BY <1>3, <1>4, <2>1 DEF OnCohere
  <2>4. OnGemini(d, <<>>)
    BY <1>3, <1>4, <2>1 DEF OnGemini
  <2>5. QED BY <2>2, <2>3, <2>4
<1>7. OnOpenai(s, d, <<>>) /\ OnResponses(s, d, <<>>)
  BY <1>3, <1>4 DEF OnOpenai, Answering, OnResponses
<1>8. QED BY <1>1, <1>2, <1>3, <1>5, <1>6, <1>7 DEF Meets, d

\* A reader that has begun does not begin again.
LEMMA BegunAlready ==
  ASSUME NEW d \in Memory, d.started
  PROVE  Begun(d).out = <<>> /\ Begun(d).st = d
<1>1. Begun(d).out = <<>>
  BY DEF Begun, Says, Only
<1>2. Begun(d).st = [d EXCEPT !.started = TRUE]
  BY DEF Begun, Says
<1>3. [d EXCEPT !.started = TRUE] = d
  BY DEF Memory
<1>4. QED BY <1>1, <1>2, <1>3

\* The first frame of a backend that only begins.
LEMMA BegunDrawn ==
  ASSUME NEW e, NEW s, NEW d, NEW p, OnBoard(e, s, d, p), s.at = "idle", NEW c, NEW t,
         ReadBy(e, d, c) = Begun(d), t.at = "open", t.used = s.used, t.open = s.open, t.text = s.text
  PROVE  Drawn(e, d, p, c, t)
<1>1. p \in Tallies /\ p = Scene("open", <<>>) /\ d = Fresh /\ s.used = {} /\ s.open = <<>> /\ ~s.text
  BY DEF OnBoard
<1>2. p.stage = "open" /\ p.blocks = <<>>
  BY <1>1, EmptyBoard, SceneTyped
<1>3. Draws(e, <<>>, Begun(d).out, <<>>) /\ Meets(e, t, Begun(d).st, <<>>)
  BY <1>1, FirstMeets
<1>4. QED BY <1>1, <1>2, <1>3, DrawnInside

-----------------------------------------------------------------------------
(* Anthropic *)

\* Whatever an anthropic backend sends, its reader draws the blocks.
LEMMA AnthropicDrawn ==
  ASSUME egress = "anthropic", SentOK("anthropic", sent), NEW d, NEW p,
         OnBoard("anthropic", sent, d, p), AnthropicSends, Apart("anthropic", sent'.used)
  PROVE  \E c, t : Send(c, t) /\ Drawn("anthropic", d, p, c, t)
<1> DEFINE e == "anthropic"
<1>0. \A c : ReadBy(e, d, c) = AnthropicRead(d, c) /\ ReadBy(e, d, c).st = d
  BY DEF ReadBy, AnthropicRead, Says
<1>a. /\ p \in Tallies /\ p.blocks \in Boards /\ p = Scene(p.stage, p.blocks)
      /\ sent.at = "open" => p.stage = "open" /\ Serial(sent, p.blocks)
  BY TallySplit DEF OnBoard, Meets
<1>b. e # "responses" /\ e # "bedrock" /\ e # "cohere" /\ e # "gemini" /\ e # "openai"
  OBVIOUS
<1>c. \A s, b : Serial(s, b) => Meets(e, s, d, b)
  BY <1>b DEF Meets
<1>1. CASE /\ sent.at = "idle"
           /\ Send([type |-> "message_start", usage |-> {Prompt}],
                   Telling(At(sent, "open"), {Prompt}))
  <2> DEFINE c == [type |-> "message_start", usage |-> {Prompt}]
             t == Telling(At(sent, "open"), {Prompt})
  <2>1. p = Scene("open", <<>>) /\ sent.used = {} /\ sent.open = <<>> /\ ~sent.text
    BY <1>1 DEF OnBoard
  <2>2. t.at = "open" /\ t.used = {} /\ t.open = <<>> /\ ~t.text
    BY <2>1, AtGives
  <2>3. ReadBy(e, d, c).out = <<MessageStart(Prompt)>>
    <3>1. AnthropicRead(d, c).out = <<MessageStart(Reported(c.usage))>>
      BY DEF AnthropicRead, Says
    <3>2. QED BY <1>0, <3>1, UsagesTyped
  <2> HIDE DEF c, t
  <2>4. Draws(e, <<>>, ReadBy(e, d, c).out, <<>>)
    BY <2>3, UsagesTyped, OpeningDraws
  <2>5. Meets(e, t, d, <<>>)
    BY <1>c, <2>2, SerialFirst
  <2>6. p.stage = "open" /\ p.blocks = <<>>
    BY <2>1, EmptyBoard, SceneTyped
  <2>7. Drawn(e, d, p, c, t)
    BY <1>0, <1>a, <2>2, <2>4, <2>5, <2>6, DrawnInside
  <2>8. QED BY <1>1, <2>7 DEF c, t
<1>2. ASSUME sent.at = "open", NEW c, NEW t, Send(c, t), t.at = "open", NEW b,
             Draws(e, p.blocks, AnthropicRead(d, c).out, b), Serial(t, b)
      PROVE  \E cc, tt : Send(cc, tt) /\ Drawn(e, d, p, cc, tt)
  <2>1. Drawn(e, d, p, c, t)
    BY <1>0, <1>a, <1>c, <1>2, DrawnInside
  <2>2. QED BY <1>2, <2>1
<1>3. ASSUME sent.at = "open", NEW i \in NextIndex, NEW k \in Blocks, Quiet,
             Send([type |-> "content_block_start", index |-> i, kind |-> k], Opening(sent, i, k))
      PROVE  \E c, t : Send(c, t) /\ Drawn(e, d, p, c, t)
  <2> DEFINE c == [type |-> "content_block_start", index |-> i, kind |-> k]
             t == Opening(sent, i, k)
  <2>1. sent.open = <<>> /\ Serial(sent, p.blocks)
    BY <1>a, <1>3 DEF Quiet
  <2>2. /\ i \in Nat /\ i \notin DOMAIN p.blocks /\ RoomFor(p.blocks, k)
        /\ Serial(t, Put(p.blocks, i, k)) /\ BlockIndex(i) = i
    <3>1. sent' = t
      BY <1>3 DEF Send
    <3>2. QED BY <1>a, <2>1, <3>1, SerialBegun
  <2>3. AnthropicRead(d, c).out = <<BlockStart(i, k)>>
    BY <2>2 DEF AnthropicRead, Says
  <2>4. Send(c, t) /\ t.at = "open"
    BY <1>3, SentChanges
  <2> HIDE DEF c, t
  <2>5. Draws(e, p.blocks, <<BlockStart(i, k)>>, Put(p.blocks, i, k))
    BY <1>a, <2>2, StartDraws
  <2>6. QED BY <1>2, <1>3, <2>2, <2>3, <2>4, <2>5
<1>4. ASSUME sent.at = "open", NEW i \in DOMAIN sent.open,
             Send([type |-> "content_block_delta", index |-> i, kind |-> sent.open[i]], sent)
      PROVE  \E c, t : Send(c, t) /\ Drawn(e, d, p, c, t)
  <2> DEFINE c == [type |-> "content_block_delta", index |-> i, kind |-> sent.open[i]]
             k == sent.open[i]
  <2>1. Serial(sent, p.blocks)
    BY <1>a, <1>4
  <2>2. i \in DOMAIN p.blocks /\ p.blocks[i] = k /\ k \in Blocks /\ BlockIndex(i) = i
    <3>1. sent' = sent
      BY <1>4 DEF Send
    <3>2. QED BY <1>b, <2>1, <3>1, SerialHeld
  <2>3. AnthropicRead(d, c).out = <<BlockDelta(i, k)>>
    BY <2>2 DEF AnthropicRead, Says
  <2>4. Send(c, sent)
    BY <1>4
  <2> HIDE DEF c, k
  <2>5. k = OfKind(k)
    BY <2>2 DEF OfKind, Blocks
  <2>6. Draws(e, p.blocks, <<BlockDelta(i, k)>>, p.blocks)
    BY <1>a, <2>2, <2>5, DeltaDraws
  <2>7. QED BY <1>2, <1>4, <2>1, <2>3, <2>4, <2>6
<1>5. ASSUME sent.at = "open", NEW i \in DOMAIN sent.open,
             Send([type |-> "content_block_stop", index |-> i, kind |-> sent.open[i]], Closing(sent, i))
      PROVE  \E c, t : Send(c, t) /\ Drawn(e, d, p, c, t)
  <2> DEFINE c == [type |-> "content_block_stop", index |-> i, kind |-> sent.open[i]]
             t == Closing(sent, i)
  <2>1. Serial(sent, p.blocks)
    BY <1>a, <1>5
  <2>2. Holding(p.blocks, i) /\ Serial(t, Put(p.blocks, i, "done")) /\ BlockIndex(i) = i
    <3>1. sent' = t /\ t.used = sent.used
      BY <1>5, SentChanges DEF Send
    <3>2. QED BY <1>a, <1>b, <2>1, <3>1, SerialHeld, SerialEnded
  <2>3. AnthropicRead(d, c).out = <<BlockStop(i)>>
    BY <2>2 DEF AnthropicRead, Says
  <2>4. Send(c, t) /\ t.at = "open"
    BY <1>5, SentChanges
  <2> HIDE DEF c, t
  <2>5. Draws(e, p.blocks, <<BlockStop(i)>>, Put(p.blocks, i, "done"))
    BY <1>a, <2>2, StopDraws
  <2>6. QED BY <1>2, <1>5, <2>2, <2>3, <2>4, <2>5
<1>6. ASSUME sent.at = "open", Quiet, NEW u \in {Completion, Counts},
             Send([type |-> "message_delta", final |-> TRUE, usage |-> {u}],
                  Telling(At(sent, "stopping"), {u}))
      PROVE  \E c, t : Send(c, t) /\ Drawn(e, d, p, c, t)
  <2> DEFINE c == [type |-> "message_delta", final |-> TRUE, usage |-> {u}]
             t == Telling(At(sent, "stopping"), {u})
             q == Scene("delta", p.blocks)
  <2>1. Clear(p.blocks)
    BY <1>a, <1>6, SerialQuiet DEF Quiet
  <2>2. u \in Usage
    BY UsagesTyped
  <2>3. ReadBy(e, d, c).out = <<MessageDelta(TRUE, u)>>
    <3>1. AnthropicRead(d, c).out = <<MessageDelta(c.final, Reported(c.usage))>>
      BY DEF AnthropicRead, Says
    <3>2. QED BY <1>0, <3>1, UsagesTyped
  <2>4. t.at = "stopping"
    BY AtGives
  <2> HIDE DEF c, t
  <2>5. Run(Tally(e), p, ReadBy(e, d, c).out, q)
    BY <1>a, <1>6, <2>1, <2>2, <2>3, StopReason
  <2>6. q \in Tallies /\ q.stage = "delta" /\ q.blocks = p.blocks
    BY <1>a, <2>1, SceneTyped
  <2> HIDE DEF q
  <2>7. OnBoard(e, t, ReadBy(e, d, c).st, q)
    BY <1>b, <2>1, <2>4, <2>6 DEF OnBoard
  <2>8. QED BY <1>6, <2>5, <2>7 DEF c, t, Drawn
<1>7. CASE sent.at = "open" /\ Send([type |-> "error"], At(sent, "failed"))
  <2> DEFINE c == [type |-> "error"]
             t == At(sent, "failed")
  <2>1. t.at = "failed"
    BY AtGives
  <2>2. ReadBy(e, d, c).out = <<StreamError>>
    <3>1. AnthropicRead(d, c).out = <<StreamError>>
      BY DEF AnthropicRead, Says
    <3>2. QED BY <1>0, <3>1
  <2> HIDE DEF c, t
  <2>3. Run(Tally(e), p, ReadBy(e, d, c).out, p)
    BY <1>7, <1>a, <2>2, ErrorDraws DEF Draws
  <2>4. Drawn(e, d, p, c, t)
    BY <1>a, <2>1, <2>3, DrawnFailed
  <2>5. QED BY <1>7, <2>4 DEF c, t
<1>8. CASE sent.at = "stopping" /\ Send([type |-> "message_stop"], At(sent, "finished"))
  <2> DEFINE c == [type |-> "message_stop"]
             t == At(sent, "finished")
  <2>1. t.at = "finished"
    BY AtGives
  <2>2. ReadBy(e, d, c).out = <<MessageStop>>
    <3>1. AnthropicRead(d, c).out = <<MessageStop>>
      BY DEF AnthropicRead, Says
    <3>2. QED BY <1>0, <3>1
  <2>3. Clear(p.blocks) /\ p.stage = "delta"
    BY <1>8, <1>b DEF OnBoard
  <2> HIDE DEF c, t
  <2>4. Run(Tally(e), p, ReadBy(e, d, c).out, Scene("over", p.blocks))
    BY <1>a, <2>2, <2>3, MessageEnds
  <2>5. Drawn(e, d, p, c, t)
    BY <1>a, <2>1, <2>3, <2>4, DrawnAtEnd
  <2>6. QED BY <1>8, <2>5 DEF c, t
<1> HIDE DEF e
<1>9. QED BY <1>1, <1>3, <1>4, <1>5, <1>6, <1>7, <1>8 DEF AnthropicSends, e

-----------------------------------------------------------------------------
(* Bedrock *)

\* A bedrock reader with nothing open opens any block.
LEMMA BedrockBegins ==
  ASSUME NEW d \in Memory, d.started, ~d.text, ~d.thinking, NEW c, c.kind \in Blocks
  PROVE  /\ BedrockStart(d, c).out = <<BlockStart(BlockIndex(c.index), c.kind)>>
         /\ BedrockStart(d, c).st.started
         /\ c.kind = "thinking" => BedrockStart(d, c).st.thinking
<1> DEFINE o == [d EXCEPT !.text = @ \/ c.kind = "text", !.thinking = @ \/ c.kind = "thinking"]
<1>1. BedrockOpens(d, c)
  BY DEF BedrockOpens, Blocks
<1>2. BedrockStart(d, c).out = <<BlockStart(BlockIndex(c.index), c.kind)>> /\ BedrockStart(d, c).st = o
  BY <1>1 DEF BedrockStart, Says
<1>3. o.started = d.started /\ (c.kind = "thinking" => o.thinking)
  BY DEF Memory
<1> HIDE DEF o
<1>4. QED BY <1>2, <1>3

\* Whatever a bedrock backend sends, its reader draws the blocks.
LEMMA BedrockDrawn ==
  ASSUME egress = "bedrock", SentOK("bedrock", sent), NEW d, Sound("bedrock", d), NEW p,
         OnBoard("bedrock", sent, d, p), BedrockSends, Apart("bedrock", sent'.used)
  PROVE  \E c, t : Send(c, t) /\ Drawn("bedrock", d, p, c, t)
<1> DEFINE e == "bedrock"
<1>0. \A c : ReadBy(e, d, c) = BedrockRead(d, c)
  BY DEF ReadBy
<1>a. /\ p \in Tallies /\ p.blocks \in Boards /\ p = Scene(p.stage, p.blocks) /\ d \in Memory
      /\ sent.at = "open" => p.stage = "open" /\ OnBedrock(sent, d, p.blocks)
  BY TallySplit DEF OnBoard, Meets, Sound
<1>b. e # "responses" /\ e # "anthropic" /\ e # "cohere" /\ e # "gemini" /\ e # "openai"
  OBVIOUS
<1>c. \A s, b, dd : OnBedrock(s, dd, b) => Meets(e, s, dd, b)
  BY <1>b DEF Meets
<1>1. CASE sent.at = "idle" /\ Send([type |-> "messageStart"], At(sent, "open"))
  <2> DEFINE c == [type |-> "messageStart"]
             t == At(sent, "open")
  <2>1. ReadBy(e, d, c) = Begun(d)
    <3>1. BedrockRead(d, c) = Begun(d)
      BY DEF BedrockRead
    <3>2. QED BY <1>0, <3>1
  <2>2. t.at = "open" /\ t.used = sent.used /\ t.open = sent.open /\ t.text = sent.text
    BY AtGives
  <2> HIDE DEF c, t
  <2>3. Drawn(e, d, p, c, t)
    BY <1>1, <2>1, <2>2, BegunDrawn
  <2>4. QED BY <1>1, <2>3 DEF c, t
<1>2. ASSUME sent.at = "open", NEW c, NEW t, Send(c, t), t.at = "open", NEW b,
             Draws(e, p.blocks, BedrockRead(d, c).out, b), OnBedrock(t, BedrockRead(d, c).st, b)
      PROVE  \E cc, tt : Send(cc, tt) /\ Drawn(e, d, p, cc, tt)
  <2>1. Drawn(e, d, p, c, t)
    BY <1>0, <1>a, <1>c, <1>2, DrawnInside
  <2>2. QED BY <1>2, <2>1
<1>3. ASSUME sent.at = "open", Quiet, NEW i \in NextIndex, NEW k \in Blocks,
             NEW type \in {"contentBlockStart", "contentBlockDelta"},
             type = "contentBlockDelta" => k = "thinking",
             Send([type |-> type, index |-> i, kind |-> k], Opening(sent, i, k))
      PROVE  \E c, t : Send(c, t) /\ Drawn(e, d, p, c, t)
  <2> DEFINE c == [type |-> type, index |-> i, kind |-> k]
             t == Opening(sent, i, k)
             a == BedrockStart(d, c)
             b == Put(p.blocks, i, k)
             ev == BlockDelta(i, "thinking")
  <2>1. sent.open = <<>> /\ Serial(sent, p.blocks) /\ d.started /\ ~d.text /\ ~d.thinking
    <3>1. DOMAIN <<>> = {}
      OBVIOUS
    <3>2. QED BY <1>a, <1>3, <3>1 DEF Quiet, OnBedrock
  <2>2. /\ i \in Nat /\ i \notin DOMAIN p.blocks /\ RoomFor(p.blocks, k)
        /\ Serial(t, b) /\ BlockIndex(i) = i
    <3>1. sent' = t
      BY <1>3 DEF Send
    <3>2. QED BY <1>a, <2>1, <3>1, SerialBegun
  <2>3. c.type = type /\ c.index = i /\ c.kind = k
    OBVIOUS
  <2>4. Send(c, t) /\ t.at = "open" /\ DOMAIN t.open = {i} /\ t.open[i] = k
    <3>1. DOMAIN sent.open = {}
      BY <2>1
    <3>2. QED BY <1>3, <3>1, SentChanges
  <2> HIDE DEF c, t
  <2>5. a.out = <<BlockStart(i, k)>> /\ a.st.started /\ (k = "thinking" => a.st.thinking)
    BY <1>a, <2>1, <2>2, <2>3, BedrockBegins
  <2>6. Draws(e, p.blocks, <<BlockStart(i, k)>>, b)
    BY <1>a, <2>2, StartDraws
  <2>7. b \in Boards /\ i \in DOMAIN b /\ b[i] = k
    <3>1. b \in Boards
      BY <2>6 DEF Draws
    <3>2. i \in DOMAIN b /\ b[i] = k
      BY DEF Put
    <3>3. QED BY <3>1, <3>2
  <2> HIDE DEF b
  <2>8. OnBedrock(t, a.st, b)
    BY <2>2, <2>4, <2>5 DEF OnBedrock
  <2>9. CASE type = "contentBlockStart"
    <3>1. BedrockRead(d, c) = a
      BY <2>3, <2>9 DEF BedrockRead
    <3> HIDE DEF a
    <3>2. QED BY <1>2, <1>3, <2>4, <2>5, <2>6, <2>8, <3>1
  <2>10. CASE type = "contentBlockDelta"
    <3>1. k = "thinking"
      BY <1>3, <2>10
    <3>2. BedrockRead(d, c) = Says(a.st, a.out \o Only(a.st.thinking, ev))
      BY <2>2, <2>3, <2>10, <3>1 DEF BedrockRead, BedrockDelta
    <3>3. Only(a.st.thinking, ev) = <<ev>>
      BY <2>5, <3>1 DEF Only
    <3>4. Draws(e, b, <<ev>>, b)
      <4>1. b[i] = OfKind("thinking") /\ "thinking" \in Blocks \cup {"citations"}
        BY <2>7, <3>1 DEF OfKind, Blocks
      <4>2. QED BY <2>7, <4>1, DeltaDraws
    <3>5. BedrockRead(d, c).st = a.st /\ BedrockRead(d, c).out = <<BlockStart(i, k)>> \o <<ev>>
      BY <2>5, <3>2, <3>3 DEF Says
    <3> HIDE DEF a, ev
    <3>6. Draws(e, p.blocks, BedrockRead(d, c).out, b)
      BY <2>6, <3>4, <3>5, DrawsBoth
    <3>7. QED BY <1>2, <1>3, <2>4, <2>8, <3>5, <3>6
  <2>11. QED BY <2>9, <2>10
<1>4. ASSUME sent.at = "open", NEW i \in DOMAIN sent.open,
             Send([type |-> "contentBlockDelta", index |-> i, kind |-> sent.open[i]], sent)
      PROVE  \E c, t : Send(c, t) /\ Drawn(e, d, p, c, t)
  <2> DEFINE c == [type |-> "contentBlockDelta", index |-> i, kind |-> sent.open[i]]
             k == sent.open[i]
  <2>1. Serial(sent, p.blocks) /\ (k = "thinking" => d.thinking)
    BY <1>a, <1>4 DEF OnBedrock
  <2>2. i \in DOMAIN p.blocks /\ p.blocks[i] = k /\ k \in Blocks /\ BlockIndex(i) = i
    <3>1. sent' = sent
      BY <1>4 DEF Send
    <3>2. QED BY <1>b, <2>1, <3>1, SerialHeld
  <2>3. c.type = "contentBlockDelta" /\ c.index = i /\ c.kind = k /\ Send(c, sent)
    BY <1>4
  <2> HIDE DEF c, k
  <2>4. BedrockRead(d, c).st = d /\ BedrockRead(d, c).out = <<BlockDelta(i, k)>>
    <3>1. CASE k = "thinking"
      <4>1. BedrockStart(d, c) = Silent(d)
        BY <2>1, <2>3, <3>1 DEF BedrockStart, BedrockOpens
      <4>2. BedrockRead(d, c) = Says(d, <<>> \o <<BlockDelta(i, k)>>)
        BY <2>1, <2>2, <2>3, <3>1, <4>1 DEF BedrockRead, BedrockDelta, Silent, Says, Only
      <4>3. <<>> \o <<BlockDelta(i, k)>> = <<BlockDelta(i, k)>>
        BY EmptyConcat
      <4>4. QED BY <4>2, <4>3 DEF Says
    <3>2. CASE k # "thinking"
      BY <2>2, <2>3, <3>2 DEF BedrockRead, BedrockDelta, Says
    <3>3. QED BY <3>1, <3>2
  <2>5. k = OfKind(k)
    BY <2>2 DEF OfKind, Blocks
  <2>6. Draws(e, p.blocks, <<BlockDelta(i, k)>>, p.blocks)
    BY <1>a, <2>2, <2>5, DeltaDraws
  <2>7. QED BY <1>2, <1>4, <1>a, <2>3, <2>4, <2>6
<1>5. ASSUME sent.at = "open", NEW i \in DOMAIN sent.open,
             Send([type |-> "contentBlockStop", index |-> i, kind |-> sent.open[i]], Closing(sent, i))
      PROVE  \E c, t : Send(c, t) /\ Drawn(e, d, p, c, t)
  <2> DEFINE c == [type |-> "contentBlockStop", index |-> i, kind |-> sent.open[i]]
             t == Closing(sent, i)
             o == [d EXCEPT !.text = FALSE, !.thinking = FALSE]
  <2>1. Serial(sent, p.blocks) /\ d.started
    BY <1>a, <1>5 DEF OnBedrock
  <2>2. /\ Holding(p.blocks, i) /\ Serial(t, Put(p.blocks, i, "done")) /\ DOMAIN t.open = {}
        /\ BlockIndex(i) = i
    <3>1. sent' = t /\ t.used = sent.used
      BY <1>5, SentChanges DEF Send
    <3>2. QED BY <1>a, <1>b, <2>1, <3>1, SerialHeld, SerialEnded
  <2>3. BedrockRead(d, c).out = <<BlockStop(i)>> /\ BedrockRead(d, c).st = o
    BY <2>2 DEF BedrockRead, Says
  <2>4. o.started = d.started /\ ~o.text /\ ~o.thinking
    BY <1>a DEF Memory
  <2>5. Send(c, t) /\ t.at = "open"
    BY <1>5, SentChanges
  <2> HIDE DEF c, t, o
  <2>6. Draws(e, p.blocks, <<BlockStop(i)>>, Put(p.blocks, i, "done"))
    BY <1>a, <2>2, StopDraws
  <2>7. OnBedrock(t, o, Put(p.blocks, i, "done"))
    BY <2>1, <2>2, <2>4 DEF OnBedrock
  <2>8. QED BY <1>2, <1>5, <2>3, <2>5, <2>6, <2>7
<1>6. CASE /\ sent.at = "open" /\ Quiet
           /\ Send([type |-> "messageStop", final |-> TRUE], At(sent, "stopping"))
  <2> DEFINE c == [type |-> "messageStop", final |-> TRUE]
             t == At(sent, "stopping")
  <2>1. Clear(p.blocks) /\ p.stage = "open"
    BY <1>a, <1>6, SerialQuiet DEF Quiet, OnBedrock
  <2>2. ReadBy(e, d, c).out = <<>>
    <3>1. BedrockRead(d, c).out = <<>>
      BY DEF BedrockRead, Silent, Says
    <3>2. QED BY <1>0, <3>1
  <2>3. t.at = "stopping"
    BY AtGives
  <2> HIDE DEF c, t
  <2>4. Run(Tally(e), p, ReadBy(e, d, c).out, p)
    BY <2>2, RunNothing
  <2>5. OnBoard(e, t, ReadBy(e, d, c).st, p)
    BY <1>a, <2>1, <2>3 DEF OnBoard
  <2>6. QED BY <1>6, <2>4, <2>5 DEF c, t, Drawn
<1>7. CASE sent.at = "open" /\ Send([type |-> "exception"], At(sent, "failed"))
  <2> DEFINE c == [type |-> "exception"]
             t == At(sent, "failed")
  <2>1. t.at = "failed"
    BY AtGives
  <2>2. ReadBy(e, d, c).out = <<StreamError>>
    <3>1. BedrockRead(d, c).out = <<StreamError>>
      BY DEF BedrockRead, Says
    <3>2. QED BY <1>0, <3>1
  <2> HIDE DEF c, t
  <2>3. Run(Tally(e), p, ReadBy(e, d, c).out, p)
    BY <1>7, <1>a, <2>2, ErrorDraws DEF Draws
  <2>4. Drawn(e, d, p, c, t)
    BY <1>a, <2>1, <2>3, DrawnFailed
  <2>5. QED BY <1>7, <2>4 DEF c, t
<1>8. ASSUME sent.at = "stopping", NEW u \in Counted,
             Send([type |-> "metadata", usage |-> u], Telling(At(sent, "finished"), u))
      PROVE  \E c, t : Send(c, t) /\ Drawn(e, d, p, c, t)
  <2> DEFINE c == [type |-> "metadata", usage |-> u]
             t == Telling(At(sent, "finished"), u)
             f == d.stop_pending
             r == Reported(u)
  <2>1. t.at = "finished"
    BY AtGives
  <2>2. ReadBy(e, d, c).out = <<MessageDelta(f, r), MessageStop>>
    <3>1. BedrockRead(d, c).out = <<MessageDelta(f, r), MessageStop>>
      BY DEF BedrockRead, Says
    <3>2. QED BY <1>0, <3>1
  <2>3. Clear(p.blocks) /\ p.stage = "open" /\ f \in BOOLEAN /\ r \in Usage
    BY <1>8, <1>a, ReportedIs DEF OnBoard, Memory
  <2> HIDE DEF c, t, f, r
  <2>4. Run(Tally(e), p, ReadBy(e, d, c).out, Scene("over", p.blocks))
    BY <1>a, <2>2, <2>3, BothEnd
  <2>5. Drawn(e, d, p, c, t)
    BY <1>a, <2>1, <2>3, <2>4, DrawnAtEnd
  <2>6. QED BY <1>8, <2>5 DEF c, t
<1>9. \A i \in NextIndex, k \in Blocks :
        sent.at = "open" /\ Quiet
        /\ Send([type |-> "contentBlockStart", index |-> i, kind |-> k], Opening(sent, i, k))
        => \E c, t : Send(c, t) /\ Drawn(e, d, p, c, t)
  BY <1>3
<1>10. \A i \in NextIndex :
        sent.at = "open" /\ Quiet
        /\ Send([type |-> "contentBlockDelta", index |-> i, kind |-> "thinking"],
                Opening(sent, i, "thinking"))
        => \E c, t : Send(c, t) /\ Drawn(e, d, p, c, t)
  BY <1>3 DEF Blocks
<1> HIDE DEF e
<1>11. QED BY <1>1, <1>9, <1>10, <1>4, <1>5, <1>6, <1>7, <1>8 DEF BedrockSends, e

-----------------------------------------------------------------------------
(* What a reader remembers of a text and of a tool.                        *)

\* The rest of its memory stays.
Beside(d, o) ==
  /\ o.started = d.started /\ o.thinking = d.thinking /\ o.reasoning_seen = d.reasoning_seen
  /\ o.texts = d.texts

\* A text.
LEMMA TextGives ==
  ASSUME NEW e, NEW d, Sound(e, d), NEW i \in Nat
  PROVE  LET o == WithText(d, i)
         IN  /\ o.text = TRUE /\ o.text_index = i /\ o.tools = d.tools /\ Beside(d, o)
             /\ ToolCount(o) = ToolCount(d) /\ Slots(o) = ToolCount(d) + 1
             /\ o \in Memory /\ Sound(e, o)
<1> DEFINE o == [d EXCEPT !.text = TRUE, !.text_index = i]
<1>1. d \in Memory /\ ToolCount(d) \in Nat /\ i # NoIndex
  BY SoundCounts DEF Sound, NoIndex
<1>2. o \in Memory /\ o.text = TRUE /\ o.text_index = i /\ o.tools = d.tools
      /\ o.started = d.started /\ o.thinking = d.thinking /\ o.reasoning_seen = d.reasoning_seen
      /\ o.texts = d.texts
  BY <1>1 DEF Memory
<1>3. WithText(d, i) = o
  BY DEF WithText, o
<1>4. Sound(e, o)
  BY <1>3, TextKept
<1> HIDE DEF o
<1>5. ToolCount(o) = ToolCount(d) /\ Slots(o) = ToolCount(d) + 1
  BY <1>1, <1>2 DEF ToolCount, Slots
<1>6. Beside(d, o)
  BY <1>2 DEF Beside
<1>7. QED BY <1>2, <1>3, <1>4, <1>5, <1>6

\* A tool that is new.
LEMMA ToolGives ==
  ASSUME NEW e, NEW d, Sound(e, d), NEW wire \in Nat, NEW index \in Nat, wire \notin DOMAIN d.tools,
         ToolCount(d) + Cardinality(d.texts) < MaxOpenTools
  PROVE  LET o == WithTool(d, wire, index)
         IN  /\ DOMAIN o.tools = DOMAIN d.tools \cup {wire} /\ o.tools[wire] = index
             /\ \A w \in DOMAIN d.tools : o.tools[w] = d.tools[w]
             /\ o.text = d.text /\ o.text_index = d.text_index /\ Beside(d, o)
             /\ ToolCount(o) = ToolCount(d) + 1 /\ Slots(o) = Slots(d) + 1
             /\ o \in Memory /\ Sound(e, o)
<1> DEFINE S == DOMAIN d.tools \cup {wire}
           m == [t \in S |-> IF t = wire THEN index ELSE d.tools[t]]
           o == [d EXCEPT !.tools = m]
<1>1. d \in Memory /\ ToolCount(d) \in Nat /\ IsFiniteSet(DOMAIN d.tools)
  BY SoundCounts DEF Sound
<1>2. WithTool(d, wire, index) = o
  BY Zenon DEF WithTool
<1>3. DOMAIN m = S /\ m[wire] = index /\ \A w \in DOMAIN d.tools : m[w] = d.tools[w]
  OBVIOUS
<1>4. Cardinality(S) = ToolCount(d) + 1
  BY <1>1, FS_AddElement DEF ToolCount
<1>5. Sound(e, WithTool(d, wire, index))
  BY ToolKept
<1> HIDE DEF m, S
<1>6. /\ o.tools = m /\ o.text = d.text /\ o.text_index = d.text_index /\ o.started = d.started
      /\ o.thinking = d.thinking /\ o.reasoning_seen = d.reasoning_seen /\ o.texts = d.texts
  BY <1>1 DEF Memory
<1> HIDE DEF o
<1>7. ToolCount(o) = ToolCount(d) + 1
  BY <1>3, <1>4, <1>6 DEF ToolCount
<1>8. Slots(o) = Slots(d) + 1
  BY <1>1, <1>6, <1>7 DEF Slots
<1>9. Beside(d, o) /\ o \in Memory /\ Sound(e, o)
  BY <1>2, <1>5, <1>6 DEF Beside, Sound
<1>10. QED BY <1>2, <1>3, <1>6, <1>7, <1>8, <1>9 DEF S

-----------------------------------------------------------------------------
(* Cohere *)

\* A cohere reader begins its text, or takes it up again.
LEMMA CohereTexts ==
  ASSUME NEW s, NEW d, Sound("cohere", d), NEW b \in Boards, OnCohere(s, d, b), ~s.text,
         NEW t, t.text, t.open = s.open, t.used = s.used
  PROVE  LET i == CohereTextSlot(d)
         IN  /\ i \in Nat /\ Draws("cohere", b, <<BlockStart(i, "text")>>, Put(b, i, "text"))
             /\ OnCohere(t, WithText(d, i), Put(b, i, "text"))
<1> DEFINE i == CohereTextSlot(d)
           o == WithText(d, i)
           c == Put(b, i, "text")
<1>1. /\ ToolCount(d) \in Nat /\ (d.text_index # NoIndex => d.text_index \in Nat)
  BY SoundCounts
<1>2. i \in Nat /\ i = IF d.text_index # NoIndex THEN d.text_index ELSE ToolCount(d)
  BY <1>1 DEF CohereTextSlot
<1> HIDE DEF i
<1>3. ~d.text /\ (i \in DOMAIN b => b[i] = "done") /\ (d.text_index = NoIndex => i \notin DOMAIN b)
  <2>1. ~d.text
    BY DEF OnCohere
  <2>2. CASE d.text_index # NoIndex
    BY <1>2, <2>1, <2>2 DEF OnCohere
  <2>3. CASE d.text_index = NoIndex
    <3>1. Slots(d) = ToolCount(d)
      BY <1>1, <2>3 DEF Slots
    <3>2. \A j \in DOMAIN b : j < ToolCount(d)
      BY <3>1 DEF OnCohere
    <3>3. i \notin DOMAIN b
      BY <1>1, <1>2, <2>3, <3>2
    <3>4. QED BY <2>1, <3>3
  <2>4. QED BY <2>2, <2>3
<1>4. ASSUME NEW j \in DOMAIN b PROVE b[j] # "text"
  <2>1. j \in Nat /\ NoIndex \notin Nat
    BY BoardTyped DEF NoIndex
  <2>2. j = d.text_index \/ \E w \in DOMAIN d.tools : d.tools[w] = j
    BY DEF OnCohere
  <2>3. CASE j = d.text_index
    BY <1>3, <2>1, <2>3 DEF OnCohere
  <2>4. CASE \E w \in DOMAIN d.tools : d.tools[w] = j
    BY <2>4 DEF OnCohere
  <2>5. QED BY <2>2, <2>3, <2>4
<1>5. Draws("cohere", b, <<BlockStart(i, "text")>>, c)
  <2>1. RoomFor(b, "text")
    BY <1>4, RoomForFirst
  <2>2. "text" \in Blocks
    BY DEF Blocks
  <2>3. i \notin DOMAIN b \/ ("cohere" = "cohere" /\ "text" = "text" /\ b[i] = "done")
    BY <1>3
  <2> HIDE DEF c
  <2>4. Draws("cohere", b, <<BlockStart(i, "text")>>, Put(b, i, "text"))
    BY <1>2, <2>1, <2>2, <2>3, StartDraws
  <2>5. QED BY <2>4 DEF c
<1>6. DOMAIN c = DOMAIN b \cup {i} /\ c[i] = "text" /\ \A j \in DOMAIN b : j # i => c[j] = b[j]
  BY DEF Put
<1>7. o.text = TRUE /\ o.text_index = i /\ o.tools = d.tools /\ Slots(o) = ToolCount(d) + 1
  BY <1>2, TextGives
<1> HIDE DEF o, c
<1>8. \A w \in DOMAIN d.tools : d.tools[w] # i /\ d.tools[w] \in DOMAIN b
  BY <1>2, <1>3 DEF OnCohere
<1>9. \A j \in DOMAIN c : j < Slots(o)
  <2>1. \A j \in DOMAIN b : j \in Nat /\ j < Slots(d)
    BY BoardTyped DEF OnCohere
  <2>2. Slots(d) \in Nat /\ Slots(d) <= ToolCount(d) + 1
    BY <1>1 DEF Slots
  <2>3. i < ToolCount(d) + 1
    <3>1. CASE d.text_index # NoIndex
      <4>1. i \in DOMAIN b /\ Slots(d) = ToolCount(d) + 1
        BY <1>1, <1>2, <3>1 DEF OnCohere, Slots
      <4>2. QED BY <2>1, <4>1
    <3>2. CASE d.text_index = NoIndex
      BY <1>1, <1>2, <3>2
    <3>3. QED BY <3>1, <3>2
  <2>4. QED BY <1>1, <1>6, <1>7, <2>1, <2>2, <2>3
<1>10. \A j \in DOMAIN c : j = i \/ \E w \in DOMAIN d.tools : d.tools[w] = j
  <2>1. CASE d.text_index # NoIndex
    BY <1>2, <1>6, <2>1 DEF OnCohere
  <2>2. CASE d.text_index = NoIndex
    <3>1. \A j \in DOMAIN b : j # NoIndex
      BY BoardTyped DEF NoIndex
    <3>2. QED BY <1>6, <2>2, <3>1 DEF OnCohere
  <2>3. QED BY <2>1, <2>2
<1>11. OnCohere(t, o, c)
  <2>1. (o.text <=> t.text) /\ (o.text => o.text_index # NoIndex)
    BY <1>2, <1>7 DEF NoIndex
  <2>2. \A w \in DOMAIN o.tools : /\ o.tools[w] \in DOMAIN c /\ o.tools[w] # o.text_index
                                  /\ c[o.tools[w]] = IF w \in FramesOf(DOMAIN t.open) THEN "tool" ELSE "done"
    BY <1>6, <1>7, <1>8 DEF OnCohere
  <2>3. QED BY <1>6, <1>7, <1>9, <1>10, <2>1, <2>2 DEF OnCohere
<1>12. QED BY <1>2, <1>5, <1>11 DEF i, o, c

\* A cohere reader begins a tool, if it has room for one.
LEMMA CohereTool ==
  ASSUME NEW s, NEW d, Sound("cohere", d), NEW b \in Boards, OnCohere(s, d, b), DOMAIN s.open = {},
         NEW n \in Nat, n \notin s.used, NEW t, t.text = s.text, t.used = s.used \cup {n},
         DOMAIN t.open = {n}, Apart("cohere", t.used), NEW i, i = CohereFrame(n)
  PROVE  \/ CohereAssigns(d, i) /\
              LET j == CohereToolSlot(d)
              IN  /\ Draws("cohere", b, <<BlockStart(j, "tool")>>, Put(b, j, "tool"))
                  /\ OnCohere(t, WithTool(d, i, j), Put(b, j, "tool"))
         \/ ~CohereAssigns(d, i) /\ OnCohere(t, d, b)
<1> DEFINE j == CohereToolSlot(d)
           o == WithTool(d, i, j)
           c == Put(b, j, "tool")
<1>0. /\ ToolCount(d) \in Nat /\ (d.text_index # NoIndex => d.text_index \in Nat)
      /\ Cardinality(d.texts) = 0 /\ MaxOpenTools \in Nat /\ i \in Nat
  BY SoundCounts, ClampedIs
<1>1. i \notin DOMAIN d.tools
  <2>1. \A w \in s.used : CohereFrame(w) # i
    BY DEF Apart, TakenFor
  <2>2. QED BY <2>1 DEF OnCohere, FramesOf
<1>f. FramesOf(DOMAIN t.open) = {i} /\ FramesOf(t.used) = FramesOf(s.used) \cup {i}
      /\ FramesOf(DOMAIN s.open) = {}
  BY DEF FramesOf
<1>2. CASE ~CohereAssigns(d, i)
  <2>1. OnCohere(t, d, b)
    BY <1>1, <1>f DEF OnCohere
  <2>2. QED BY <1>2, <2>1
<1>3. CASE CohereAssigns(d, i)
  <2>1. j = Slots(d) /\ j \in Nat
    BY <1>0 DEF CohereToolSlot, Slots
  <2> HIDE DEF j
  <2>2. /\ DOMAIN o.tools = DOMAIN d.tools \cup {i} /\ o.tools[i] = j
        /\ \A w \in DOMAIN d.tools : o.tools[w] = d.tools[w]
        /\ o.text = d.text /\ o.text_index = d.text_index
        /\ Slots(o) = Slots(d) + 1
    <3>1. ToolCount(d) + Cardinality(d.texts) < MaxOpenTools
      BY <1>0, <1>3 DEF CohereAssigns
    <3>2. QED BY <1>0, <1>1, <2>1, <3>1, ToolGives
  <2>3. DOMAIN c = DOMAIN b \cup {j} /\ c[j] = "tool" /\ \A k \in DOMAIN b : k # j => c[k] = b[k]
    BY DEF Put
  <2>4. j \notin DOMAIN b
    <3>1. \A k \in DOMAIN b : k \in Nat /\ k < Slots(d)
      BY BoardTyped DEF OnCohere
    <3>2. QED BY <2>1, <3>1
  <2>5. Draws("cohere", b, <<BlockStart(j, "tool")>>, c)
    <3>1. ASSUME NEW k \in DOMAIN b PROVE b[k] # "tool"
      <4>1. k \in Nat /\ NoIndex \notin Nat
        BY BoardTyped DEF NoIndex
      <4>2. k = d.text_index \/ \E w \in DOMAIN d.tools : d.tools[w] = k
        BY DEF OnCohere
      <4>3. CASE k = d.text_index
        BY <4>1, <4>3 DEF OnCohere
      <4>4. CASE \E w \in DOMAIN d.tools : d.tools[w] = k
        BY <1>f, <4>4 DEF OnCohere
      <4>5. QED BY <4>2, <4>3, <4>4
    <3>2. RoomFor(b, "tool")
      BY <3>1, RoomForFirst
    <3>3. "tool" \in Blocks
      BY DEF Blocks
    <3>4. QED BY <2>1, <2>4, <3>2, <3>3, StartDraws
  <2> HIDE DEF o, c
  <2>6. \A k \in DOMAIN c : k < Slots(o)
    <3>1. \A k \in DOMAIN b : k \in Nat /\ k < Slots(d)
      BY BoardTyped DEF OnCohere
    <3>2. QED BY <2>1, <2>2, <2>3, <3>1
  <2>7. o.text_index # NoIndex =>
          o.text_index \in DOMAIN c /\ c[o.text_index] = IF o.text THEN "text" ELSE "done"
    BY <2>2, <2>3, <2>4 DEF OnCohere
  <2>8. \A w \in DOMAIN o.tools : /\ o.tools[w] \in DOMAIN c /\ o.tools[w] # o.text_index
                                  /\ c[o.tools[w]] = IF w \in FramesOf(DOMAIN t.open) THEN "tool" ELSE "done"
    <3>1. ASSUME NEW w \in DOMAIN d.tools
          PROVE  /\ o.tools[w] \in DOMAIN c /\ o.tools[w] # o.text_index
                 /\ c[o.tools[w]] = IF w \in FramesOf(DOMAIN t.open) THEN "tool" ELSE "done"
      <4>1. d.tools[w] \in DOMAIN b /\ d.tools[w] # d.text_index /\ b[d.tools[w]] = "done"
        BY <1>f DEF OnCohere
      <4>2. w # i
        BY <1>1
      <4>3. QED BY <1>f, <2>2, <2>3, <2>4, <4>1, <4>2
    <3>2. j # d.text_index
      <4>1. CASE d.text_index = NoIndex
        BY <2>1, <4>1 DEF NoIndex
      <4>2. CASE d.text_index # NoIndex
        BY <2>4, <4>2 DEF OnCohere
      <4>3. QED BY <4>1, <4>2
    <3>3. QED BY <1>f, <2>2, <2>3, <3>1, <3>2
  <2>9. \A w, v \in DOMAIN o.tools : o.tools[w] = o.tools[v] => w = v
    <3>1. \A w \in DOMAIN d.tools : d.tools[w] \in DOMAIN b
      BY DEF OnCohere
    <3>2. QED BY <2>2, <2>4, <3>1 DEF OnCohere
  <2>10. \A k \in DOMAIN c : k = o.text_index \/ \E w \in DOMAIN o.tools : o.tools[w] = k
    <3>1. ASSUME NEW k \in DOMAIN b PROVE k = o.text_index \/ \E w \in DOMAIN o.tools : o.tools[w] = k
      <4>1. k = d.text_index \/ \E w \in DOMAIN d.tools : d.tools[w] = k
        BY DEF OnCohere
      <4>2. QED BY <2>2, <4>1
    <3>2. QED BY <2>2, <2>3, <3>1
  <2>11. OnCohere(t, o, c)
    <3>1. (o.text <=> t.text) /\ (o.text => o.text_index # NoIndex)
      BY <2>2 DEF OnCohere
    <3>2. DOMAIN o.tools \subseteq FramesOf(t.used) /\ DOMAIN t.open \subseteq t.used
      BY <1>f, <2>2 DEF OnCohere
    <3>3. QED BY <2>6, <2>7, <2>8, <2>9, <2>10, <3>1, <3>2 DEF OnCohere
  <2>12. QED BY <1>3, <2>5, <2>11 DEF j, o, c
<1>4. QED BY <1>2, <1>3

\* A backend takes up or leaves its text.
LEMMA TextChanges ==
  ASSUME NEW e, NEW s, SentOK(e, s), NEW b
  PROVE  /\ [s EXCEPT !.text = b].at = s.at /\ [s EXCEPT !.text = b].text = b
         /\ [s EXCEPT !.text = b].open = s.open /\ [s EXCEPT !.text = b].used = s.used
BY DEF SentOK

\* A text that is open is extended and ended.
LEMMA CohereTextOpen ==
  ASSUME NEW s, NEW d, Sound("cohere", d), NEW b \in Boards, OnCohere(s, d, b), d.text
  PROVE  LET i == d.text_index
         IN  /\ CohereTextSlot(d) = i /\ i \in Nat
             /\ Draws("cohere", b, <<BlockDelta(i, "text")>>, b)
             /\ Draws("cohere", b, <<BlockStop(i)>>, Put(b, i, "done"))
<1> DEFINE i == d.text_index
<1>1. i # NoIndex /\ i \in DOMAIN b /\ b[i] = "text"
  BY DEF OnCohere
<1>2. CohereTextSlot(d) = i /\ i \in Nat
  BY <1>1, SoundCounts DEF CohereTextSlot
<1> HIDE DEF i
<1>3. Holding(b, i) /\ b[i] = OfKind("text") /\ "text" \in Blocks \cup {"citations"}
  BY <1>1 DEF Holding, OfKind, Blocks
<1>4. QED BY <1>1, <1>2, <1>3, DeltaDraws, StopDraws DEF i

\* When the backend has ended all its blocks, its reader has.
LEMMA CohereQuiet ==
  ASSUME NEW s, NEW d, NEW b \in Boards, OnCohere(s, d, b), ~s.text, s.open = <<>>
  PROVE  Clear(b)
<1>1. FramesOf(DOMAIN s.open) = {}
  BY DEF FramesOf
<1>2. ASSUME NEW k \in DOMAIN b PROVE b[k] = "done"
  <2>1. k \in Nat /\ NoIndex \notin Nat
    BY BoardTyped DEF NoIndex
  <2>2. k = d.text_index \/ \E w \in DOMAIN d.tools : d.tools[w] = k
    BY DEF OnCohere
  <2>3. CASE k = d.text_index
    BY <2>1, <2>3 DEF OnCohere
  <2>4. CASE \E w \in DOMAIN d.tools : d.tools[w] = k
    BY <1>1, <2>4 DEF OnCohere
  <2>5. QED BY <2>2, <2>3, <2>4
<1>3. QED BY <1>2 DEF Clear

\* A tool that the reader knows ends.
LEMMA CohereToolEnds ==
  ASSUME NEW s, NEW d, Sound("cohere", d), NEW b \in Boards, OnCohere(s, d, b),
         NEW n \in DOMAIN s.open, NEW i, i = CohereFrame(n), i \in DOMAIN d.tools,
         NEW t, t.text = s.text, t.used = s.used, DOMAIN t.open = DOMAIN s.open \ {n}
  PROVE  OnCohere(t, d, Put(b, d.tools[i], "done")) /\ b[d.tools[i]] = "tool"
         /\ d.tools[i] \in DOMAIN b
<1> DEFINE j == d.tools[i]
           c == Put(b, j, "done")
<1>f. FramesOf(DOMAIN s.open) = {i} /\ FramesOf(DOMAIN t.open) = {}
  <2>1. DOMAIN s.open = {n} /\ DOMAIN t.open = {}
    BY DEF OnCohere
  <2>2. QED BY <2>1 DEF FramesOf
<1>1. j \in DOMAIN b /\ j # d.text_index /\ b[j] = "tool"
  BY <1>f DEF OnCohere
<1>2. DOMAIN c = DOMAIN b \cup {j} /\ c[j] = "done" /\ \A k \in DOMAIN b : k # j => c[k] = b[k]
  BY DEF Put
<1> HIDE DEF c
<1>3. DOMAIN c = DOMAIN b
  BY <1>1, <1>2
<1>4. \A w \in DOMAIN d.tools : /\ d.tools[w] \in DOMAIN c /\ d.tools[w] # d.text_index
                                /\ c[d.tools[w]] = IF w \in FramesOf(DOMAIN t.open) THEN "tool" ELSE "done"
  <2>1. ASSUME NEW w \in DOMAIN d.tools
        PROVE  c[d.tools[w]] = IF w \in FramesOf(DOMAIN t.open) THEN "tool" ELSE "done"
    <3>1. CASE w = i
      BY <1>2, <1>f, <3>1
    <3>2. CASE w # i
      <4>1. d.tools[w] # j /\ d.tools[w] \in DOMAIN b
        BY <3>2 DEF OnCohere
      <4>2. c[d.tools[w]] = IF w \in FramesOf(DOMAIN s.open) THEN "tool" ELSE "done"
        BY <1>2, <4>1 DEF OnCohere
      <4>3. w \in FramesOf(DOMAIN t.open) <=> w \in FramesOf(DOMAIN s.open)
        BY <1>f, <3>2
      <4>4. QED BY <4>2, <4>3
    <3>3. QED BY <3>1, <3>2
  <2>2. QED BY <1>3, <2>1 DEF OnCohere
<1>5. d.text_index # NoIndex =>
        d.text_index \in DOMAIN c /\ c[d.text_index] = IF d.text THEN "text" ELSE "done"
  BY <1>1, <1>2, <1>3 DEF OnCohere
<1>6. OnCohere(t, d, c)
  <2>1. DOMAIN t.open \subseteq t.used /\ \A w, v \in DOMAIN t.open : w = v
    BY DEF OnCohere
  <2>2. QED BY <1>3, <1>4, <1>5, <2>1 DEF OnCohere
<1>7. QED BY <1>1, <1>6 DEF c

\* Whatever a cohere backend sends, its reader draws the blocks.
LEMMA CohereDrawn ==
  ASSUME egress = "cohere", SentOK("cohere", sent), NEW d, Sound("cohere", d), NEW p,
         OnBoard("cohere", sent, d, p), CohereSends, Apart("cohere", sent'.used)
  PROVE  \E c, t : Send(c, t) /\ Drawn("cohere", d, p, c, t)
<1> DEFINE e == "cohere"
<1>0. \A c : ReadBy(e, d, c) = CohereRead(d, c)
  BY DEF ReadBy
<1>a. /\ p \in Tallies /\ p.blocks \in Boards /\ p = Scene(p.stage, p.blocks) /\ d \in Memory
      /\ sent.at = "open" => p.stage = "open" /\ OnCohere(sent, d, p.blocks)
  BY TallySplit DEF OnBoard, Meets, Sound
<1>b. e # "responses" /\ e # "anthropic" /\ e # "bedrock" /\ e # "gemini" /\ e # "openai"
  OBVIOUS
<1>c. \A s, b, dd : OnCohere(s, dd, b) => Meets(e, s, dd, b)
  BY <1>b DEF Meets
<1>d. Draws(e, p.blocks, <<>>, p.blocks)
  BY <1>a, DrawsNothing
<1>1. CASE sent.at = "idle" /\ Send([type |-> "message-start"], At(sent, "open"))
  <2> DEFINE c == [type |-> "message-start"]
             t == At(sent, "open")
  <2>1. ReadBy(e, d, c) = Begun(d)
    <3>1. CohereRead(d, c) = Begun(d)
      BY DEF CohereRead
    <3>2. QED BY <1>0, <3>1
  <2>2. t.at = "open" /\ t.used = sent.used /\ t.open = sent.open /\ t.text = sent.text
    BY AtGives
  <2> HIDE DEF c, t
  <2>3. Drawn(e, d, p, c, t)
    BY <1>1, <2>1, <2>2, BegunDrawn
  <2>4. QED BY <1>1, <2>3 DEF c, t
<1>2. ASSUME sent.at = "open", NEW c, NEW t, Send(c, t), t.at = "open", NEW b,
             Draws(e, p.blocks, CohereRead(d, c).out, b), OnCohere(t, CohereRead(d, c).st, b)
      PROVE  \E cc, tt : Send(cc, tt) /\ Drawn(e, d, p, cc, tt)
  <2>1. Drawn(e, d, p, c, t)
    BY <1>0, <1>a, <1>c, <1>2, DrawnInside
  <2>2. QED BY <1>2, <2>1
<1> DEFINE i == CohereTextSlot(d)
           up == [sent EXCEPT !.text = TRUE]
<1>e. up.at = sent.at /\ up.text /\ up.open = sent.open /\ up.used = sent.used
  BY TextChanges
<1> HIDE DEF up
<1>3. ASSUME sent.at = "open", ~sent.text
      PROVE  /\ ~d.text /\ i \in Nat /\ CohereText(d).st = WithText(d, i)
             /\ CohereText(d).out = <<BlockStart(i, "text")>>
             /\ Draws(e, p.blocks, <<BlockStart(i, "text")>>, Put(p.blocks, i, "text"))
             /\ OnCohere(up, WithText(d, i), Put(p.blocks, i, "text"))
  <2>1. OnCohere(sent, d, p.blocks)
    BY <1>a, <1>3
  <2>2. ~d.text
    BY <1>3, <2>1 DEF OnCohere
  <2>3. CohereText(d).st = WithText(d, i) /\ CohereText(d).out = <<BlockStart(i, "text")>>
    BY <2>2 DEF CohereText, Says, WithText, Only
  <2>4. /\ i \in Nat /\ Draws(e, p.blocks, <<BlockStart(i, "text")>>, Put(p.blocks, i, "text"))
        /\ OnCohere(up, WithText(d, i), Put(p.blocks, i, "text"))
    BY <1>a, <1>e, <1>3, <2>1, CohereTexts
  <2>5. QED BY <2>2, <2>3, <2>4
<1>4. CASE sent.at = "open" /\ ~sent.text /\ Send([type |-> "content-start"], up)
  <2> DEFINE c == [type |-> "content-start"]
  <2>1. CohereRead(d, c) = CohereText(d)
    BY <1>3, <1>4 DEF CohereRead
  <2>2. Send(c, up)
    BY <1>4
  <2> HIDE DEF c, i
  <2>3. QED BY <1>2, <1>3, <1>4, <1>e, <2>1, <2>2
<1>5. CASE sent.at = "open" /\ Send([type |-> "content-delta"], up)
  <2> DEFINE c == [type |-> "content-delta"]
             a == CohereText(d)
             ev == BlockDelta(a.st.text_index, "text")
  <2>1. CohereRead(d, c).st = a.st /\ CohereRead(d, c).out = Append(a.out, ev)
    BY DEF CohereRead, Says
  <2>2. Send(c, up)
    BY <1>5
  <2> HIDE DEF c
  <2>3. CASE ~sent.text
    <3> DEFINE b == Put(p.blocks, i, "text")
    <3>1. /\ i \in Nat /\ a.st = WithText(d, i) /\ a.out = <<BlockStart(i, "text")>>
          /\ Draws(e, p.blocks, a.out, b) /\ OnCohere(up, a.st, b)
      BY <1>3, <1>5, <2>3
    <3>2. a.st.text_index = i
      <4>0. i \in Nat
        BY <3>1
      <4>1. WithText(d, i).text_index = i
        <5> HIDE DEF i
        <5>1. QED BY <4>0, TextGives
      <4>2. a.st = WithText(d, i)
        BY <3>1
      <4> HIDE DEF a, i
      <4>3. QED BY <4>1, <4>2
    <3>3. Append(a.out, ev) = a.out \o <<ev>>
      BY <3>1
    <3>4. b \in Boards /\ i \in DOMAIN b /\ b[i] = OfKind("text") /\ "text" \in Blocks \cup {"citations"}
      <4>1. b \in Boards
        BY <3>1 DEF Draws
      <4>2. i \in DOMAIN b /\ b[i] = "text"
        BY DEF Put
      <4>3. QED BY <4>1, <4>2 DEF OfKind, Blocks
    <3> HIDE DEF a, b, i
    <3>5. Draws(e, b, <<ev>>, b)
      BY <3>2, <3>4, DeltaDraws
    <3> HIDE DEF ev
    <3>6. Draws(e, p.blocks, a.out \o <<ev>>, b)
      BY <3>1, <3>5, DrawsBoth
    <3>7. QED BY <1>2, <1>5, <1>e, <2>1, <2>2, <3>1, <3>3, <3>6
  <2>4. CASE sent.text
    <3>1. OnCohere(sent, d, p.blocks) /\ d.text
      BY <1>5, <1>a, <2>4 DEF OnCohere
    <3>2. i = d.text_index /\ i \in Nat /\ Draws(e, p.blocks, <<BlockDelta(i, "text")>>, p.blocks)
      BY <1>a, <3>1, CohereTextOpen
    <3>3. a.st = WithText(d, i) /\ a.out = <<>>
      BY <3>1 DEF CohereText, Says, WithText, Only
    <3>4. a.st.text_index = i /\ a.st.text = TRUE /\ a.st.tools = d.tools /\ Slots(a.st) = Slots(d)
      <4>1. i # NoIndex
        BY <3>2 DEF NoIndex
      <4>2. Slots(d) = ToolCount(d) + 1
        BY <3>2, <4>1 DEF Slots
      <4>3. /\ WithText(d, i).text_index = i /\ WithText(d, i).text = TRUE
            /\ WithText(d, i).tools = d.tools /\ Slots(WithText(d, i)) = ToolCount(d) + 1
        <5> HIDE DEF a, i
        <5>1. QED BY <3>2, TextGives
      <4>4. QED BY <3>3, <4>2, <4>3
    <3>5. Append(<<>>, ev) = <<ev>>
      OBVIOUS
    <3> HIDE DEF a, i
    <3>6. OnCohere(up, a.st, p.blocks)
      BY <1>e, <2>4, <3>1, <3>2, <3>4 DEF OnCohere
    <3>7. QED BY <1>2, <1>5, <1>e, <2>1, <2>2, <3>2, <3>3, <3>4, <3>5, <3>6
  <2>5. QED BY <2>3, <2>4
<1>6. CASE sent.at = "open" /\ sent.text /\ Send([type |-> "content-end"], [sent EXCEPT !.text = FALSE])
  <2> DEFINE c == [type |-> "content-end"]
             t == [sent EXCEPT !.text = FALSE]
             o == [d EXCEPT !.text = FALSE]
             j == d.text_index
             b == Put(p.blocks, j, "done")
  <2>1. OnCohere(sent, d, p.blocks) /\ d.text
    BY <1>6, <1>a DEF OnCohere
  <2>2. j \in Nat /\ Draws(e, p.blocks, <<BlockStop(j)>>, b)
    BY <1>a, <2>1, CohereTextOpen
  <2>3. CohereRead(d, c).st = o /\ CohereRead(d, c).out = <<BlockStop(j)>>
    BY <2>1 DEF CohereRead, Says, Only
  <2>4. o.text = FALSE /\ o.text_index = j /\ o.tools = d.tools
    BY <1>a DEF Memory
  <2>5. t.at = "open" /\ t.text = FALSE /\ t.open = sent.open /\ t.used = sent.used
    BY <1>6, TextChanges
  <2>6. DOMAIN b = DOMAIN p.blocks \cup {j} /\ b[j] = "done"
        /\ \A k \in DOMAIN p.blocks : k # j => b[k] = p.blocks[k]
    BY DEF Put
  <2>7. Send(c, t)
    BY <1>6
  <2> HIDE DEF c, t, o, b
  <2>8. Slots(o) = Slots(d) /\ j # NoIndex /\ j \in DOMAIN p.blocks
    BY <2>1, <2>2, <2>4 DEF Slots, ToolCount, OnCohere, NoIndex
  <2>9. DOMAIN b = DOMAIN p.blocks
    BY <2>6, <2>8
  <2>10. \A w \in DOMAIN d.tools : /\ d.tools[w] \in DOMAIN b /\ d.tools[w] # j
                                   /\ b[d.tools[w]] = IF w \in FramesOf(DOMAIN t.open) THEN "tool" ELSE "done"
    BY <2>1, <2>5, <2>6, <2>9 DEF OnCohere
  <2>11. \A k \in DOMAIN b : k < Slots(o) /\ (k = j \/ \E w \in DOMAIN d.tools : d.tools[w] = k)
    BY <2>1, <2>8, <2>9 DEF OnCohere
  <2>12. OnCohere(t, o, b)
    BY <2>1, <2>4, <2>5, <2>6, <2>8, <2>9, <2>10, <2>11 DEF OnCohere
  <2>13. QED BY <1>2, <1>6, <2>2, <2>3, <2>5, <2>7, <2>12
<1>7. ASSUME sent.at = "open", NEW k \in WireIndices \ sent.used, sent.open = <<>>,
             Send([type |-> "tool-call-start", index |-> k], Opening(sent, k, "tool"))
      PROVE  \E c, t : Send(c, t) /\ Drawn(e, d, p, c, t)
  <2> DEFINE c == [type |-> "tool-call-start", index |-> k]
             t == Opening(sent, k, "tool")
             n == CohereFrame(k)
             j == CohereToolSlot(d)
  <2>1. k \in Nat /\ k \notin sent.used /\ DOMAIN sent.open = {}
    BY <1>7, IndicesAreNumbers
  <2>2. t.at = "open" /\ t.text = sent.text /\ t.used = sent.used \cup {k} /\ DOMAIN t.open = {k}
    BY <1>7, <2>1, SentChanges
  <2>3. Send(c, t)
    BY <1>7
  <2>4. CohereRead(d, c) = IF CohereAssigns(d, n) THEN Says(WithTool(d, n, j), <<BlockStart(j, "tool")>>)
                           ELSE Silent(d)
    BY DEF CohereRead
  <2>a. Apart(e, t.used)
    BY <1>7 DEF Send
  <2> HIDE DEF c, t
  <2>5. OnCohere(sent, d, p.blocks)
    BY <1>7, <1>a
  <2>6. \/ CohereAssigns(d, n) /\ Draws(e, p.blocks, <<BlockStart(j, "tool")>>, Put(p.blocks, j, "tool"))
                               /\ OnCohere(t, WithTool(d, n, j), Put(p.blocks, j, "tool"))
        \/ ~CohereAssigns(d, n) /\ OnCohere(t, d, p.blocks)
    BY <1>a, <2>1, <2>2, <2>5, <2>a, CohereTool
  <2> HIDE DEF j, e, n
  <2>7. CASE CohereAssigns(d, n)
    <3>1. CohereRead(d, c).st = WithTool(d, n, j) /\ CohereRead(d, c).out = <<BlockStart(j, "tool")>>
      BY <2>4, <2>7 DEF Says
    <3>2. QED BY <1>2, <1>7, <2>2, <2>3, <2>6, <2>7, <3>1
  <2>8. CASE ~CohereAssigns(d, n)
    <3>1. CohereRead(d, c).st = d /\ CohereRead(d, c).out = <<>>
      BY <2>4, <2>8 DEF Says, Silent
    <3>2. QED BY <1>2, <1>7, <1>d, <2>2, <2>3, <2>6, <2>8, <3>1
  <2>9. QED BY <2>7, <2>8
<1>8. ASSUME sent.at = "open", NEW k \in DOMAIN sent.open,
             Send([type |-> "tool-call-delta", index |-> k], sent)
      PROVE  \E c, t : Send(c, t) /\ Drawn(e, d, p, c, t)
  <2> DEFINE c == [type |-> "tool-call-delta", index |-> k]
             n == CohereFrame(k)
             j == d.tools[n]
  <2>1. Send(c, sent)
    BY <1>8
  <2>2. CohereRead(d, c) = IF n \in DOMAIN d.tools THEN Says(d, <<BlockDelta(j, "tool")>>) ELSE Silent(d)
    BY DEF CohereRead
  <2> HIDE DEF c
  <2>3. OnCohere(sent, d, p.blocks)
    BY <1>8, <1>a
  <2>4. CASE n \in DOMAIN d.tools
    <3>1. j \in DOMAIN p.blocks /\ p.blocks[j] = OfKind("tool") /\ "tool" \in Blocks \cup {"citations"}
      BY <2>3, <2>4 DEF OnCohere, OfKind, Blocks, FramesOf
    <3> HIDE DEF j
    <3>2. Draws(e, p.blocks, <<BlockDelta(j, "tool")>>, p.blocks)
      BY <1>a, <3>1, DeltaDraws
    <3>3. CohereRead(d, c).st = d /\ CohereRead(d, c).out = <<BlockDelta(j, "tool")>>
      BY <2>2, <2>4 DEF Says
    <3>4. QED BY <1>2, <1>8, <2>1, <2>3, <3>2, <3>3
  <2>5. CASE n \notin DOMAIN d.tools
    <3>1. CohereRead(d, c).st = d /\ CohereRead(d, c).out = <<>>
      BY <2>2, <2>5 DEF Says, Silent
    <3>2. QED BY <1>2, <1>8, <1>d, <2>1, <2>3, <3>1
  <2>6. QED BY <2>4, <2>5
<1>9. ASSUME sent.at = "open", NEW k \in DOMAIN sent.open,
             Send([type |-> "tool-call-end", index |-> k], Closing(sent, k))
      PROVE  \E c, t : Send(c, t) /\ Drawn(e, d, p, c, t)
  <2> DEFINE c == [type |-> "tool-call-end", index |-> k]
             t == Closing(sent, k)
             n == CohereFrame(k)
             j == d.tools[n]
             b == Put(p.blocks, j, "done")
  <2>1. Send(c, t)
    BY <1>9
  <2>2. CohereRead(d, c) = IF n \in DOMAIN d.tools THEN Says(d, <<BlockStop(j)>>) ELSE Silent(d)
    BY DEF CohereRead
  <2>a. t.at = "open" /\ t.text = sent.text /\ t.used = sent.used /\ DOMAIN t.open = DOMAIN sent.open \ {k}
    BY <1>9, SentChanges
  <2> HIDE DEF c, t
  <2>3. OnCohere(sent, d, p.blocks)
    BY <1>9, <1>a
  <2>4. CASE n \in DOMAIN d.tools
    <3>1. OnCohere(t, d, b) /\ p.blocks[j] = "tool" /\ j \in DOMAIN p.blocks
      BY <1>a, <2>a, <2>3, <2>4, CohereToolEnds
    <3> HIDE DEF j
    <3>2. Holding(p.blocks, j)
      BY <3>1 DEF Holding
    <3>3. Draws(e, p.blocks, <<BlockStop(j)>>, b)
      BY <1>a, <3>2, StopDraws
    <3>4. CohereRead(d, c).st = d /\ CohereRead(d, c).out = <<BlockStop(j)>>
      BY <2>2, <2>4 DEF Says
    <3> HIDE DEF b
    <3>5. QED BY <1>2, <1>9, <2>1, <2>a, <3>1, <3>3, <3>4
  <2>5. CASE n \notin DOMAIN d.tools
    <3>1. CohereRead(d, c).st = d /\ CohereRead(d, c).out = <<>>
      BY <2>2, <2>5 DEF Says, Silent
    <3>2. OnCohere(t, d, p.blocks)
      <4>1. \A w \in DOMAIN d.tools : w \in FramesOf(DOMAIN t.open) <=> w \in FramesOf(DOMAIN sent.open)
        <5>1. DOMAIN sent.open = {k} /\ DOMAIN t.open = {}
          BY <2>a, <2>3 DEF OnCohere
        <5>2. FramesOf(DOMAIN sent.open) = {n} /\ FramesOf(DOMAIN t.open) = {}
          BY <5>1 DEF FramesOf
        <5>3. QED BY <2>5, <5>2
      <4>2. \A w, v \in DOMAIN t.open : w = v
        BY <2>a, <2>3 DEF OnCohere
      <4>3. QED BY <2>a, <2>3, <4>1, <4>2 DEF OnCohere
    <3>3. QED BY <1>2, <1>9, <1>d, <2>1, <2>a, <3>1, <3>2
  <2>6. QED BY <2>4, <2>5
<1>10. ASSUME sent.at = "open", Quiet, NEW f \in BOOLEAN, NEW u \in Counted,
              Send([type |-> "message-end", final |-> f, usage |-> u],
                   Telling(At(sent, "finished"), u))
       PROVE  \E c, t : Send(c, t) /\ Drawn(e, d, p, c, t)
  <2> DEFINE c == [type |-> "message-end", final |-> f, usage |-> u]
             t == Telling(At(sent, "finished"), u)
             r == Reported(u)
  <2>1. t.at = "finished"
    BY AtGives
  <2>2. ReadBy(e, d, c).out = <<MessageDelta(f, r), MessageStop>>
    <3>1. CohereRead(d, c).out = <<MessageDelta(f, r), MessageStop>>
      BY DEF CohereRead, Says
    <3>2. QED BY <1>0, <3>1
  <2>3. Clear(p.blocks) /\ p.stage = "open" /\ r \in Usage
    BY <1>10, <1>a, ReportedIs, CohereQuiet DEF Quiet
  <2> HIDE DEF c, t, r
  <2>4. Run(Tally(e), p, ReadBy(e, d, c).out, Scene("over", p.blocks))
    BY <1>a, <2>2, <2>3, BothEnd
  <2>5. Drawn(e, d, p, c, t)
    BY <1>a, <2>1, <2>3, <2>4, DrawnAtEnd
  <2>6. QED BY <1>10, <2>5 DEF c, t
<1> HIDE DEF e, i
<1>11. QED BY <1>1, <1>4, <1>5, <1>6, <1>7, <1>8, <1>9, <1>10 DEF CohereSends, e, up

-----------------------------------------------------------------------------
(* Gemini *)

\* A reader that begins with the first frame, whatever it carries.
LEMMA BegunOnBoard ==
  ASSUME NEW e, e # "anthropic", SentOK(e, sent), NEW d, Ready(e, sent, d), NEW p,
         OnBoard(e, sent, d, p), sent.at \in {"idle", "open"}
  PROVE  /\ p \in Tallies /\ p.stage = "open" /\ p.blocks \in Boards /\ p = Scene("open", p.blocks)
         /\ Draws(e, p.blocks, Begun(d).out, p.blocks)
         /\ Sound(e, Begun(d).st) /\ Meets(e, sent, Begun(d).st, p.blocks)
<1>1. Sound(e, Begun(d).st) /\ p \in Tallies /\ p.blocks \in Boards /\ p = Scene(p.stage, p.blocks)
  BY BegunTold, TallySplit DEF OnBoard
<1>2. CASE sent.at = "idle"
  <2>1. p = Scene("open", <<>>) /\ d = Fresh /\ sent.used = {} /\ sent.open = <<>> /\ ~sent.text
    BY <1>2 DEF OnBoard
  <2>2. p.stage = "open" /\ p.blocks = <<>>
    BY <2>1, EmptyBoard, SceneTyped
  <2>3. Draws(e, <<>>, Begun(d).out, <<>>) /\ Meets(e, sent, Begun(d).st, <<>>)
    BY <2>1, FirstMeets
  <2>4. QED BY <1>1, <2>1, <2>2, <2>3
<1>3. CASE sent.at = "open"
  <2>1. d \in Memory /\ d.started
    BY <1>3 DEF Ready, Sound
  <2>2. Begun(d).out = <<>> /\ Begun(d).st = d
    BY <2>1, BegunAlready
  <2>3. p.stage = "open" /\ Meets(e, sent, d, p.blocks)
    BY <1>3 DEF OnBoard
  <2>4. Draws(e, p.blocks, <<>>, p.blocks)
    BY <1>1, DrawsNothing
  <2>5. QED BY <1>1, <2>2, <2>3, <2>4
<1>4. QED BY <1>2, <1>3

\* A part of text, or citations, begins the text or extends it.
LEMMA GeminiTextDraws ==
  ASSUME NEW d, Sound("gemini", d), NEW b \in Boards, OnGemini(d, b), NEW kind \in {"text", "citations"}
  PROVE  \E c : Draws("gemini", b, GeminiText(d, kind).out, c) /\ OnGemini(GeminiText(d, kind).st, c)
<1> DEFINE i == GeminiTextSlot(d)
           o == WithText(d, i)
           ev == BlockDelta(i, kind)
           x == BlockStart(i, "text")
           a == Only(~d.text, x)
<1>0. ToolCount(d) \in Nat /\ (d.text_index # NoIndex => d.text_index \in Nat)
  BY SoundCounts
<1>1. i \in Nat /\ i = IF d.text_index # NoIndex THEN d.text_index ELSE ToolCount(d)
  BY <1>0 DEF GeminiTextSlot
<1>2. GeminiText(d, kind).st = o /\ GeminiText(d, kind).out = a \o <<ev>>
  BY DEF GeminiText, Says, WithText
<1> HIDE DEF i
<1>3. o.text = TRUE /\ o.text_index = i /\ o.tools = d.tools /\ Slots(o) = ToolCount(d) + 1
  BY <1>1, TextGives
<1>4. i # NoIndex /\ NoIndex \notin Nat
  BY <1>1 DEF NoIndex
<1>5. ASSUME NEW c \in Boards, i \in DOMAIN c, c[i] = "text" PROVE Draws("gemini", c, <<ev>>, c)
  <2>1. c[i] = OfKind(kind) /\ kind \in Blocks \cup {"citations"}
    BY <1>5 DEF OfKind, Blocks
  <2>2. QED BY <1>5, <2>1, DeltaDraws
<1>6. CASE d.text
  <2>1. i = d.text_index /\ i \in DOMAIN b /\ b[i] = "text"
    BY <1>1, <1>6 DEF OnGemini
  <2>2. Slots(d) = ToolCount(d) + 1
    BY <1>4, <2>1 DEF Slots
  <2>3. a = <<>>
    BY <1>6 DEF Only
  <2> HIDE DEF o, ev, a, x
  <2>4. <<>> \o <<ev>> = <<ev>>
    BY ShortConcat
  <2>5. Draws("gemini", b, a \o <<ev>>, b)
    BY <1>5, <2>1, <2>3, <2>4
  <2>6. OnGemini(o, b)
    BY <1>3, <1>4, <1>6, <2>1, <2>2 DEF OnGemini
  <2>7. QED BY <1>2, <2>5, <2>6
<1>7. CASE ~d.text
  <2> DEFINE c == Put(b, i, "text")
  <2>1. i = ToolCount(d) /\ i = Slots(d)
    BY <1>0, <1>1, <1>7 DEF OnGemini, Slots
  <2>2. i \notin DOMAIN b
    <3>1. \A j \in DOMAIN b : j \in Nat /\ j < Slots(d)
      BY BoardTyped DEF OnGemini
    <3>2. QED BY <1>1, <2>1, <3>1
  <2>3. DOMAIN c = DOMAIN b \cup {i} /\ c[i] = "text" /\ \A j \in DOMAIN b : c[j] = b[j]
    BY <2>2 DEF Put
  <2>4. Draws("gemini", b, <<x>>, c)
    <3>1. \A j \in DOMAIN b : b[j] # "text"
      BY <1>7 DEF OnGemini
    <3>2. RoomFor(b, "text")
      BY <3>1, RoomForFirst
    <3>3. "text" \in Blocks
      BY DEF Blocks
    <3> HIDE DEF c
    <3>4. Draws("gemini", b, <<BlockStart(i, "text")>>, Put(b, i, "text"))
      BY <1>1, <2>2, <3>2, <3>3, StartDraws
    <3>5. QED BY <3>4 DEF c
  <2>5. c \in Boards
    BY <2>4 DEF Draws
  <2>6. a = <<x>>
    BY <1>7 DEF Only
  <2> HIDE DEF c, o, ev, a, x
  <2>7. Draws("gemini", b, a \o <<ev>>, c)
    BY <1>5, <2>3, <2>4, <2>5, <2>6, DrawsBoth
  <2>8. \A j \in DOMAIN c : j < Slots(o)
    <3>1. \A j \in DOMAIN b : j \in Nat /\ j < Slots(d)
      BY BoardTyped DEF OnGemini
    <3>2. QED BY <1>0, <1>3, <2>1, <2>3, <3>1
  <2>9. OnGemini(o, c)
    BY <1>3, <1>4, <1>7, <2>3, <2>8 DEF OnGemini
  <2>10. QED BY <1>2, <2>7, <2>9
<1>8. QED BY <1>6, <1>7

\* A function call is a block of its own, if the reader has room for it.
LEMMA GeminiCallDraws ==
  ASSUME NEW d, Sound("gemini", d), NEW b \in Boards, OnGemini(d, b)
  PROVE  \E c : Draws("gemini", b, GeminiCall(d).out, c) /\ OnGemini(GeminiCall(d).st, c)
<1> DEFINE i == GeminiToolSlot(d)
           o == WithTool(d, i, i)
           x == BlockStart(i, "tool")
           y == BlockDelta(i, "tool")
           c == Put(b, i, "tool")
<1>0. ToolCount(d) \in Nat /\ (d.text_index # NoIndex => d.text_index \in Nat)
      /\ Cardinality(d.texts) = 0 /\ MaxOpenTools \in Nat
  BY SoundCounts
<1>1. i \in Nat /\ i = Slots(d)
  BY <1>0 DEF GeminiToolSlot, Slots
<1>2. GeminiCall(d) = IF ToolCount(d) < MaxOpenTools THEN Says(o, <<x, y>>) ELSE Silent(d)
  BY DEF GeminiCall
<1> HIDE DEF i
<1>3. CASE ~(ToolCount(d) < MaxOpenTools)
  <2>1. GeminiCall(d).st = d /\ GeminiCall(d).out = <<>>
    BY <1>2, <1>3 DEF Silent, Says
  <2>2. QED BY <2>1, DrawsNothing
<1>4. CASE ToolCount(d) < MaxOpenTools
  <2>1. GeminiCall(d).st = o /\ GeminiCall(d).out = <<x, y>>
    BY <1>2, <1>4 DEF Says
  <2>2. i \notin DOMAIN b
    <3>1. \A j \in DOMAIN b : j \in Nat /\ j < Slots(d)
      BY BoardTyped DEF OnGemini
    <3>2. QED BY <1>1, <3>1
  <2>3. (i \notin DOMAIN d.tools /\ i # d.text_index) \/ (i \notin DOMAIN d.tools /\ ~d.text)
    BY <2>2 DEF OnGemini
  <2>4. /\ DOMAIN o.tools = DOMAIN d.tools \cup {i} /\ o.tools[i] = i
        /\ \A w \in DOMAIN d.tools : o.tools[w] = d.tools[w]
        /\ o.text = d.text /\ o.text_index = d.text_index /\ Slots(o) = Slots(d) + 1
    <3>1. ToolCount(d) + Cardinality(d.texts) < MaxOpenTools
      BY <1>0, <1>4
    <3>2. QED BY <1>1, <2>3, <3>1, ToolGives
  <2>5. DOMAIN c = DOMAIN b \cup {i} /\ c[i] = "tool" /\ \A j \in DOMAIN b : c[j] = b[j]
    BY <2>2 DEF Put
  <2>6. Draws("gemini", b, <<x>>, c)
    <3>1. \A j \in DOMAIN b : b[j] = "tool" => \E w \in DOMAIN d.tools : d.tools[w] = j
      <4>1. ASSUME NEW j \in DOMAIN b, b[j] = "tool" PROVE j \in DOMAIN d.tools /\ d.tools[j] = j
        BY <4>1 DEF OnGemini
      <4>2. QED BY <4>1
    <3>2. RoomFor(b, "tool")
      BY <1>4, <3>1, RoomForTool
    <3>3. "tool" \in Blocks
      BY DEF Blocks
    <3> HIDE DEF c
    <3>4. Draws("gemini", b, <<BlockStart(i, "tool")>>, Put(b, i, "tool"))
      BY <1>1, <2>2, <3>2, <3>3, StartDraws
    <3>5. QED BY <3>4 DEF c
  <2>7. c \in Boards
    BY <2>6 DEF Draws
  <2>8. c[i] = OfKind("tool") /\ i \in DOMAIN c /\ "tool" \in Blocks \cup {"citations"}
    BY <2>5 DEF OfKind, Blocks
  <2> HIDE DEF c
  <2>9. Draws("gemini", c, <<y>>, c)
    BY <2>7, <2>8, DeltaDraws
  <2> HIDE DEF o, x, y
  <2>10. Draws("gemini", b, <<x, y>>, c)
    <3>1. <<x>> \o <<y>> = <<x, y>>
      BY ShortConcat
    <3>2. QED BY <2>6, <2>9, <3>1, DrawsBoth
  <2>11. \A j \in DOMAIN c : j < Slots(o)
    <3>1. \A j \in DOMAIN b : j \in Nat /\ j < Slots(d)
      BY BoardTyped DEF OnGemini
    <3>2. QED BY <1>1, <2>4, <2>5, <3>1
  <2>12. \A w \in DOMAIN o.tools : o.tools[w] = w /\ w \in DOMAIN c /\ c[w] = "tool"
    BY <2>4, <2>5 DEF OnGemini
  <2>13. OnGemini(o, c)
    BY <2>4, <2>5, <2>11, <2>12 DEF OnGemini
  <2>14. QED BY <2>1, <2>10, <2>13
<1>5. QED BY <1>3, <1>4

\* The finish stops every block.
LEMMA GeminiFinishDraws ==
  ASSUME NEW d, Sound("gemini", d), NEW b \in Boards, OnGemini(d, b), NEW c, c.usage \in Counted
  PROVE  \E z \in Boards :
           /\ Clear(z)
           /\ Run(Tally("gemini"), Scene("open", b), GeminiFinish(d, c).out, Scene("over", z))
<1> DEFINE i == d.text_index
           S == ToolIndices(d)
           m == IF d.text THEN Put(b, i, "done") ELSE b
           z == Stopped(m, S)
           a == Only(d.text, BlockStop(i))
           s == Stops(S)
           r == Reported(c.usage)
           end == <<MessageDelta(TRUE, r), MessageStop>>
<1>1. GeminiFinish(d, c).out = a \o s \o end
  BY DEF GeminiFinish, Says
<1>2. d.text => i \in DOMAIN b /\ b[i] = "text"
  BY DEF OnGemini
<1>3. Draws("gemini", b, a, m)
  <2>1. CASE d.text
    <3>1. Holding(b, i)
      BY <1>2, <2>1 DEF Holding
    <3>2. Draws("gemini", b, <<BlockStop(i)>>, Put(b, i, "done"))
      BY <3>1, StopDraws
    <3>3. QED BY <2>1, <3>2 DEF Only
  <2>2. CASE ~d.text
    BY <2>2, DrawsNothing DEF Only
  <2>3. QED BY <2>1, <2>2
<1>4. \A w \in S : w \in DOMAIN d.tools /\ w \in DOMAIN b /\ b[w] = "tool"
  <2>1. ASSUME NEW w \in DOMAIN d.tools PROVE d.tools[w] = w /\ w \in DOMAIN b /\ b[w] = "tool"
    BY DEF OnGemini
  <2>2. QED BY <2>1 DEF ToolIndices
<1>5. \A w \in DOMAIN d.tools : w \in S
  <2>1. ASSUME NEW w \in DOMAIN d.tools PROVE d.tools[w] = w
    BY DEF OnGemini
  <2>2. QED BY <2>1 DEF ToolIndices
<1>6. /\ DOMAIN m = DOMAIN b
      /\ \A j \in DOMAIN b : m[j] = IF d.text /\ j = i THEN "done" ELSE b[j]
  <2>1. CASE d.text
    BY <1>2, <2>1 DEF Put
  <2>2. CASE ~d.text
    BY <2>2
  <2>3. QED BY <2>1, <2>2
<1>7. S \in SUBSET Nat /\ IsFiniteSet(S)
  BY IndicesTyped
<1> HIDE DEF m, a
<1>8. m \in Boards
  BY <1>3 DEF Draws
<1>9. \A w \in S : Holding(m, w)
  BY <1>2, <1>4, <1>6 DEF Holding
<1> HIDE DEF S
<1>10. Draws("gemini", m, s, z)
  BY <1>7, <1>8, <1>9, StopsDraw
<1>11. z \in Boards
  BY <1>10 DEF Draws
<1>12. Clear(z)
  <2>1. \A j \in DOMAIN m : m[j] # "done" => j \in S
    BY <1>5, <1>6 DEF OnGemini
  <2>2. QED BY <1>8, <2>1, StoppedClear
<1>13. Draws("gemini", b, a \o s, z)
  BY <1>3, <1>10, DrawsBoth
<1>14. r \in Usage
  BY ReportedIs
<1> HIDE DEF z, s, r
<1>15. Run(Tally("gemini"), Scene("open", z), end, Scene("over", z)) /\ end \in Seq(Events)
  BY <1>11, <1>12, <1>14, BothEnd
<1> DEFINE y == a \o s
<1>16. y \in Seq(Events) /\ Run(Tally("gemini"), Scene("open", b), y, Scene("open", z))
  BY <1>13 DEF Draws
<1> HIDE DEF y, end
<1>17. Run(Tally("gemini"), Scene("open", b), y \o end, Scene("over", z))
  BY <1>15, <1>16, RunBoth
<1>18. QED BY <1>1, <1>11, <1>12, <1>17 DEF y

\* A chunk that is not an error.
LEMMA GeminiChunkDrawn ==
  ASSUME egress = "gemini", SentOK("gemini", sent), NEW d, Ready("gemini", sent, d), NEW p,
         OnBoard("gemini", sent, d, p), Streaming,
         NEW c, c.usage \in Counted, NEW t, ~c.error,
         \/ (c.finish \/ c.blocked) /\ t.at = "finished"
         \/ ~c.finish /\ ~c.blocked /\ t.at = "open"
  PROVE  Drawn("gemini", d, p, c, t)
<1> DEFINE e == "gemini"
           begun == Begun(d)
           part  == CASE c.part = "text" -> GeminiText(begun.st, "text")
                      [] c.part = "call" -> GeminiCall(begun.st)
                      [] OTHER           -> Silent(begun.st)
           cited  == IF c.citations THEN GeminiText(part.st, "citations") ELSE Silent(part.st)
           finish == IF c.finish THEN GeminiFinish(cited.st, c) ELSE Silent(cited.st)
           block  == GeminiFinish(begun.st, c)
           b == p.blocks
<1>1. sent.at \in {"idle", "open"} /\ e # "anthropic"
  BY DEF Streaming
<1>a. GeminiRead(d, c) = IF c.blocked THEN Says(block.st, begun.out \o block.out)
                         ELSE Says(finish.st, begun.out \o part.out \o cited.out \o finish.out)
  BY Zenon DEF GeminiRead
<1>b. ReadBy(e, d, c) = GeminiRead(d, c)
  BY DEF ReadBy
<1>c. e # "responses" /\ e # "anthropic" /\ e # "bedrock" /\ e # "cohere" /\ e # "openai"
  OBVIOUS
<1>d. \A s, v, x : OnGemini(v, x) <=> Meets(e, s, v, x)
  BY <1>c DEF Meets
<1>2. /\ p \in Tallies /\ p.stage = "open" /\ b \in Boards /\ p = Scene("open", b)
      /\ Draws(e, b, begun.out, b) /\ Sound(e, begun.st) /\ OnGemini(begun.st, b)
  <2>1. /\ p \in Tallies /\ p.stage = "open" /\ b \in Boards /\ p = Scene("open", b)
        /\ Draws(e, b, begun.out, b) /\ Sound(e, begun.st) /\ Meets(e, sent, begun.st, b)
    BY <1>1, BegunOnBoard
  <2>2. QED BY <1>d, <2>1
<1> HIDE DEF begun
<1>3. Sound(e, part.st) /\ \E x : Draws(e, b, part.out, x) /\ OnGemini(part.st, x)
  <2>1. CASE c.part = "text"
    <3>1. part = GeminiText(begun.st, "text")
      BY <2>1
    <3>2. QED BY <1>2, <3>1, GeminiTextTame, GeminiTextDraws DEF Tame
  <2>2. CASE c.part = "call"
    <3>1. part = GeminiCall(begun.st)
      BY <2>2
    <3>2. QED BY <1>2, <3>1, GeminiCallTame, GeminiCallDraws DEF Tame
  <2>3. CASE c.part \notin {"text", "call"}
    <3>1. part.st = begun.st /\ part.out = <<>>
      BY <2>3 DEF Silent, Says
    <3>2. QED BY <1>2, <3>1, DrawsNothing
  <2>4. QED BY <2>1, <2>2, <2>3
<1> HIDE DEF part
<1>4. PICK x : Draws(e, b, part.out, x) /\ OnGemini(part.st, x)
  BY <1>3
<1>5. x \in Boards
  BY <1>4 DEF Draws
<1>6. Sound(e, cited.st) /\ \E y : Draws(e, x, cited.out, y) /\ OnGemini(cited.st, y)
  <2>1. CASE c.citations
    <3>1. cited = GeminiText(part.st, "citations")
      BY <2>1
    <3>2. QED BY <1>3, <1>4, <1>5, <3>1, GeminiTextTame, GeminiTextDraws DEF Tame
  <2>2. CASE ~c.citations
    <3>1. cited.st = part.st /\ cited.out = <<>>
      BY <2>2 DEF Silent, Says
    <3>2. QED BY <1>3, <1>4, <1>5, <3>1, DrawsNothing
  <2>3. QED BY <2>1, <2>2
<1> HIDE DEF cited
<1>7. PICK y : Draws(e, x, cited.out, y) /\ OnGemini(cited.st, y)
  BY <1>6
<1>8. y \in Boards
  BY <1>7 DEF Draws
<1>9. CASE c.blocked
  <2>1. PICK z \in Boards : Clear(z) /\ Run(Tally(e), Scene("open", b), block.out, Scene("over", z))
    BY <1>2, GeminiFinishDraws
  <2>2. \E u \in Seq(BlockEvents) : block.out = u \o <<MessageDelta(TRUE, Reported(c.usage)), MessageStop>>
    BY <1>2, GeminiFinishEnds
  <2>3. block.out \in Seq(Events)
    BY <2>2, SeqEnds
  <2> HIDE DEF block
  <2>4. Run(Tally(e), Scene("open", b), begun.out \o block.out, Scene("over", z))
    BY <1>2, <2>1, <2>3, RunBoth DEF Draws
  <2>5. ReadBy(e, d, c).out = begun.out \o block.out
    <3> DEFINE o == begun.out \o block.out
    <3>1. ReadBy(e, d, c) = Says(block.st, o)
      BY Zenon, <1>a, <1>b, <1>9
    <3> HIDE DEF o
    <3>2. ReadBy(e, d, c).out = o
      BY <3>1 DEF Says
    <3>3. QED BY <3>2 DEF o
  <2>6. t.at = "finished"
    BY <1>9
  <2>7. Run(Tally(e), p, ReadBy(e, d, c).out, Scene("over", z))
    BY <1>2, <2>4, <2>5
  <2> HIDE DEF e
  <2>8. Drawn(e, d, p, c, t)
    BY <2>1, <2>6, <2>7, DrawnAtEnd
  <2>9. QED BY <2>8 DEF e
<1>10. CASE ~c.blocked
  <2>1. /\ ReadBy(e, d, c).st = finish.st
        /\ ReadBy(e, d, c).out = begun.out \o part.out \o cited.out \o finish.out
    <3> DEFINE o == begun.out \o part.out \o cited.out \o finish.out
    <3>1. ReadBy(e, d, c) = Says(finish.st, o)
      BY Zenon, <1>a, <1>b, <1>10
    <3> HIDE DEF o
    <3>2. ReadBy(e, d, c).st = finish.st /\ ReadBy(e, d, c).out = o
      BY <3>1 DEF Says
    <3>3. QED BY <3>2 DEF o
  <2>2. Draws(e, b, begun.out \o part.out, x)
    BY <1>2, <1>4, DrawsBoth
  <2> DEFINE u == begun.out \o part.out
             v == u \o cited.out
  <2> HIDE DEF u
  <2>3. Draws(e, b, v, y)
    BY <1>7, <2>2, DrawsBoth DEF u
  <2>4. ReadBy(e, d, c).out = v \o finish.out
    BY Zenon, <2>1 DEF u, v
  <2> HIDE DEF v
  <2>5. CASE c.finish
    <3>1. finish = GeminiFinish(cited.st, c)
      BY <2>5
    <3>2. PICK z \in Boards : Clear(z) /\ Run(Tally(e), Scene("open", y), finish.out, Scene("over", z))
      BY <1>6, <1>7, <1>8, <3>1, GeminiFinishDraws
    <3>3. \E w \in Seq(BlockEvents) : finish.out = w \o <<MessageDelta(TRUE, Reported(c.usage)), MessageStop>>
      BY <1>6, <3>1, GeminiFinishEnds
    <3>4. finish.out \in Seq(Events)
      BY <3>3, SeqEnds
    <3>5. t.at = "finished"
      BY <1>10, <2>5
    <3> HIDE DEF finish
    <3>6. Run(Tally(e), Scene("open", b), v \o finish.out, Scene("over", z))
      BY <2>3, <3>2, <3>4, RunBoth DEF Draws
    <3>7. Run(Tally(e), p, ReadBy(e, d, c).out, Scene("over", z))
      BY <1>2, <2>4, <3>6
    <3> HIDE DEF e
    <3>8. Drawn(e, d, p, c, t)
      BY <3>2, <3>5, <3>7, DrawnAtEnd
    <3>9. QED BY <3>8 DEF e
  <2>6. CASE ~c.finish
    <3>1. finish.out = <<>> /\ finish.st = cited.st /\ t.at = "open"
      BY <1>10, <2>6 DEF Silent, Says
    <3> HIDE DEF finish
    <3>2. v \o <<>> = v
      <4>1. v \in Seq(Events)
        BY <2>3 DEF Draws
      <4>2. QED BY <4>1
    <3>3. Draws(e, p.blocks, ReadBy(e, d, c).out, y)
      BY <2>3, <2>4, <3>1, <3>2
    <3>4. Meets(e, t, ReadBy(e, d, c).st, y)
      BY <1>7, <1>d, <2>1, <3>1
    <3>5. QED BY <1>2, <3>1, <3>3, <3>4, DrawnInside
  <2>7. QED BY <2>5, <2>6
<1>11. QED BY <1>9, <1>10

\* Whatever a gemini backend sends, its reader draws the blocks.
LEMMA GeminiDrawn ==
  ASSUME egress = "gemini", SentOK("gemini", sent), NEW d, Ready("gemini", sent, d), NEW p,
         OnBoard("gemini", sent, d, p), GeminiSends
  PROVE  \E c, t : Send(c, t) /\ Drawn("gemini", d, p, c, t)
<1> DEFINE e == "gemini"
           Parts == {"none", "text", "call"}
<1>1. Streaming /\ {} \in Counted /\ e # "anthropic" /\ sent.at \in {"idle", "open"}
  BY DEF GeminiSends, Counted, Streaming
<1>2. ASSUME NEW k \in Parts, NEW b \in BOOLEAN,
             Send([GeminiChunk EXCEPT !.part = k, !.citations = b], At(sent, "open"))
      PROVE  \E c, t : Send(c, t) /\ Drawn(e, d, p, c, t)
  <2> DEFINE c == [GeminiChunk EXCEPT !.part = k, !.citations = b]
             t == At(sent, "open")
  <2>1. ~c.error /\ ~c.finish /\ ~c.blocked /\ c.usage = {}
    BY DEF GeminiChunk
  <2>2. t.at = "open"
    BY AtGives
  <2> HIDE DEF c, t
  <2>3. Drawn(e, d, p, c, t)
    BY <1>1, <2>1, <2>2, GeminiChunkDrawn
  <2>4. QED BY <1>2, <2>3 DEF c, t
<1>3. ASSUME NEW u \in Counted, NEW c, c.usage = u, ~c.error, c.finish \/ c.blocked,
             Send(c, Telling(At(sent, "finished"), u))
      PROVE  \E cc, t : Send(cc, t) /\ Drawn(e, d, p, cc, t)
  <2> DEFINE t == Telling(At(sent, "finished"), u)
  <2>1. t.at = "finished"
    BY AtGives
  <2> HIDE DEF t
  <2>2. Drawn(e, d, p, c, t)
    BY <1>1, <1>3, <2>1, GeminiChunkDrawn
  <2>3. QED BY <1>3, <2>2 DEF t
<1>4. ASSUME NEW k \in Parts, NEW b \in BOOLEAN, NEW u \in Counted,
             Send([GeminiChunk EXCEPT !.part = k, !.citations = b, !.finish = TRUE, !.usage = u],
                  Telling(At(sent, "finished"), u))
      PROVE  \E c, t : Send(c, t) /\ Drawn(e, d, p, c, t)
  <2> DEFINE c == [GeminiChunk EXCEPT !.part = k, !.citations = b, !.finish = TRUE, !.usage = u]
  <2>1. c.usage = u /\ ~c.error /\ c.finish
    BY DEF GeminiChunk
  <2>2. Send(c, Telling(At(sent, "finished"), u))
    BY <1>4
  <2> HIDE DEF c
  <2>3. QED BY <1>3, <2>1, <2>2
<1>5. ASSUME NEW u \in Counted,
             Send([GeminiChunk EXCEPT !.blocked = TRUE, !.usage = u], Telling(At(sent, "finished"), u))
      PROVE  \E c, t : Send(c, t) /\ Drawn(e, d, p, c, t)
  <2> DEFINE c == [GeminiChunk EXCEPT !.blocked = TRUE, !.usage = u]
  <2>1. c.usage = u /\ ~c.error /\ c.blocked
    BY DEF GeminiChunk
  <2>2. Send(c, Telling(At(sent, "finished"), u))
    BY <1>5
  <2> HIDE DEF c
  <2>3. QED BY <1>3, <2>1, <2>2
<1>6. ASSUME Send([GeminiChunk EXCEPT !.error = TRUE], At(sent, "failed"))
      PROVE  \E c, t : Send(c, t) /\ Drawn(e, d, p, c, t)
  <2> DEFINE c == [GeminiChunk EXCEPT !.error = TRUE]
             t == At(sent, "failed")
  <2>1. t.at = "failed"
    BY AtGives
  <2>2. c.error
    BY DEF GeminiChunk
  <2> HIDE DEF c, t
  <2>3. ReadBy(e, d, c).out = <<StreamError>>
    <3>1. GeminiRead(d, c) = Says(d, <<StreamError>>)
      BY Zenon, <2>2 DEF GeminiRead
    <3>2. ReadBy(e, d, c) = GeminiRead(d, c)
      BY DEF ReadBy
    <3>3. QED BY <3>1, <3>2 DEF Says
  <2>4. p \in Tallies /\ p = Scene("open", p.blocks) /\ p.blocks \in Boards
    BY <1>1, BegunOnBoard
  <2>5. Run(Tally(e), p, ReadBy(e, d, c).out, p)
    BY <2>3, <2>4, ErrorDraws DEF Draws
  <2>6. Drawn(e, d, p, c, t)
    BY <2>1, <2>4, <2>5, DrawnFailed
  <2>7. QED BY <1>6, <2>6 DEF c, t
<1>7. QED BY <1>2, <1>4, <1>5, <1>6 DEF GeminiSends, e

-----------------------------------------------------------------------------
(* OpenAI *)

\* The answer ends the reasoning.
LEMMA AnsweredDraws ==
  ASSUME NEW d, Sound("openai", d), NEW b \in Boards, Answering(d, b)
  PROVE  LET o == Answered(d).st
         IN  /\ Sound("openai", o) /\ ~o.thinking /\ o.reasoning_seen = d.reasoning_seen
             /\ o.text = d.text /\ o.text_index = d.text_index /\ o.tools = d.tools
             /\ Slots(o) = Slots(d) /\ Offset(o) = Offset(d) /\ ToolCount(o) = ToolCount(d)
             /\ \E c : Draws("openai", b, Answered(d).out, c) /\ Answering(o, c)
<1> DEFINE o == Answered(d).st
           ev == BlockStop(0)
           c == IF d.thinking THEN Put(b, 0, "done") ELSE b
<1>1. /\ Sound("openai", o) /\ o.text = d.text /\ o.text_index = d.text_index /\ o.tools = d.tools
  BY AnsweredTame DEF Tame
<1>2. o = [d EXCEPT !.thinking = FALSE] /\ Answered(d).out = Only(d.thinking, ev)
  BY DEF Answered, Says
<1>3. ~o.thinking /\ o.reasoning_seen = d.reasoning_seen
  <2>1. d \in Memory
    BY DEF Sound
  <2>2. QED BY <1>2, <2>1 DEF Memory
<1> HIDE DEF o
<1>4. Slots(o) = Slots(d) /\ Offset(o) = Offset(d) /\ ToolCount(o) = ToolCount(d)
  BY <1>1, <1>3 DEF Slots, Offset, ToolCount
<1>5. Draws("openai", b, Answered(d).out, c)
  <2>1. CASE d.thinking
    <3>1. Holding(b, 0)
      BY <2>1 DEF Answering, Holding
    <3>2. Draws("openai", b, <<ev>>, Put(b, 0, "done"))
      BY <3>1, StopDraws
    <3>3. Answered(d).out = <<ev>>
      BY <1>2, <2>1 DEF Only
    <3>4. QED BY <2>1, <3>2, <3>3
  <2>2. CASE ~d.thinking
    <3>1. Answered(d).out = <<>>
      BY <1>2, <2>2 DEF Only
    <3>2. QED BY <2>2, <3>1, DrawsNothing
  <2>3. QED BY <2>1, <2>2
<1>6. /\ DOMAIN c = DOMAIN b
      /\ \A j \in DOMAIN b : c[j] = IF d.thinking /\ j = 0 THEN "done" ELSE b[j]
  <2>1. CASE d.thinking
    <3>1. 0 \in DOMAIN b
      BY <2>1 DEF Answering
    <3>2. QED BY <2>1, <3>1 DEF Put
  <2>2. CASE ~d.thinking
    BY <2>2
  <2>3. QED BY <2>1, <2>2
<1>7. d.thinking => b[0] = "thinking"
  BY DEF Answering
<1> HIDE DEF c
<1>8. Answering(o, c)
  <2>1. d.text => d.text_index \in DOMAIN c /\ c[d.text_index] = "text"
    BY <1>6, <1>7 DEF Answering
  <2>2. \A w \in DOMAIN d.tools : d.tools[w] \in DOMAIN c /\ c[d.tools[w]] = "tool"
    BY <1>6, <1>7 DEF Answering
  <2>3. \A i \in DOMAIN c : \/ d.text /\ i = d.text_index
                            \/ \E w \in DOMAIN d.tools : d.tools[w] = i
                            \/ c[i] = "done"
    BY <1>6 DEF Answering
  <2>4. \A i \in DOMAIN c : i < Slots(o) + Offset(o)
    BY <1>4, <1>6 DEF Answering
  <2>5. d.text <=> d.text_index # NoIndex
    BY DEF Answering
  <2>6. QED BY <1>1, <1>3, <2>1, <2>2, <2>3, <2>4, <2>5 DEF Answering
<1>9. QED BY <1>1, <1>3, <1>4, <1>5, <1>8 DEF o

\* Reasoning, before any answer.
LEMMA ReasonedDraws ==
  ASSUME NEW d, Sound("openai", d), NEW b \in Boards, NEW s, OnOpenai(s, d, b), NEW c
  PROVE  \E z : Draws("openai", b, Reasoned(d, c).out, z) /\ OnOpenai(s, Reasoned(d, c).st, z)
<1> DEFINE o == [d EXCEPT !.reasoning_seen = TRUE, !.thinking = TRUE]
           x == BlockStart(0, "thinking")
           y == BlockDelta(0, "thinking")
           a == Only(~d.thinking, x)
           goes == c.reasoning /\ ~d.text /\ DOMAIN d.tools = {}
<1>1. Reasoned(d, c) = IF goes THEN Says(o, a \o <<y>>) ELSE Silent(d)
  BY DEF Reasoned
<1>2. CASE ~goes
  <2>1. Reasoned(d, c).st = d /\ Reasoned(d, c).out = <<>>
    BY <1>1, <1>2 DEF Silent, Says
  <2>2. QED BY <2>1, DrawsNothing
<1>3. CASE goes
  <2>1. Reasoned(d, c).st = o /\ Reasoned(d, c).out = a \o <<y>>
    <3> DEFINE out1 == a \o <<y>>
    <3>1. Reasoned(d, c) = Says(o, out1)
      BY <1>1, <1>3
    <3> HIDE DEF out1, o
    <3>2. Reasoned(d, c).st = o /\ Reasoned(d, c).out = out1
      BY <3>1 DEF Says
    <3>3. QED BY <3>2 DEF out1
  <2>2. /\ o.reasoning_seen = TRUE /\ o.thinking = TRUE /\ o.text = d.text /\ o.text_index = d.text_index
        /\ o.tools = d.tools
    <3>1. d \in Memory
      BY DEF Sound
    <3>2. QED BY <3>1 DEF Memory
  <2>3. ~d.text /\ DOMAIN d.tools = {}
    BY <1>3
  <2>4. Slots(d) = 0 /\ Slots(o) = 0 /\ Offset(o) = 1
    <3>1. d.text_index = NoIndex
      BY <2>3 DEF OnOpenai, Answering
    <3>2. ToolCount(d) = 0 /\ ToolCount(o) = 0
      BY <2>2, <2>3, FS_EmptySet DEF ToolCount
    <3> HIDE DEF o
    <3>3. QED BY <2>2, <3>1, <3>2 DEF Slots, Offset
  <2> HIDE DEF o, goes
  <2>5. ASSUME NEW z \in Boards, 0 \in DOMAIN z, z[0] = "thinking"
        PROVE  Draws("openai", z, <<y>>, z)
    <3>1. z[0] = OfKind("thinking") /\ "thinking" \in Blocks \cup {"citations"}
      BY <2>5 DEF OfKind, Blocks
    <3>2. QED BY <2>5, <3>1, DeltaDraws
  <2>6. CASE d.thinking
    <3>1. 0 \in DOMAIN b /\ b[0] = "thinking" /\ d.reasoning_seen
      BY <2>6 DEF OnOpenai, Answering
    <3>2. a = <<>>
      BY <2>6 DEF Only
    <3> HIDE DEF a, y
    <3>3. <<>> \o <<y>> = <<y>>
      BY ShortConcat
    <3>4. Draws("openai", b, a \o <<y>>, b)
      BY <2>5, <3>1, <3>2, <3>3
    <3>5. Offset(d) = 1
      BY <3>1 DEF Offset
    <3>6. Answering(o, b)
      BY <2>2, <2>3, <2>4, <2>6, <3>1, <3>5 DEF OnOpenai, Answering
    <3>7. OnOpenai(s, o, b)
      BY <2>2, <3>6 DEF OnOpenai
    <3>8. QED BY <2>1, <3>4, <3>7
  <2>7. CASE ~d.thinking
    <3> DEFINE z == Put(b, 0, "thinking")
    <3>1. ~d.reasoning_seen
      BY <2>3, <2>7 DEF OnOpenai
    <3>2. DOMAIN b = {}
      <4>1. Offset(d) = 0
        BY <3>1 DEF Offset
      <4>2. \A i \in DOMAIN b : i \in Nat /\ i < 0
        BY <2>4, <4>1, BoardTyped DEF OnOpenai, Answering
      <4>3. QED BY <4>2
    <3>3. DOMAIN z = {0} /\ z[0] = "thinking"
      BY <3>2 DEF Put
    <3>4. Draws("openai", b, <<x>>, z)
      <4>1. RoomFor(b, "thinking")
        BY <3>2, RoomForFirst
      <4>2. "thinking" \in Blocks /\ 0 \in Nat /\ 0 \notin DOMAIN b
        BY <3>2 DEF Blocks
      <4> HIDE DEF z
      <4>3. Draws("openai", b, <<BlockStart(0, "thinking")>>, Put(b, 0, "thinking"))
        BY <4>1, <4>2, StartDraws
      <4>4. QED BY <4>3 DEF z
    <3>5. a = <<x>>
      BY <2>7 DEF Only
    <3>6. z \in Boards
      BY <3>4 DEF Draws
    <3> HIDE DEF z, a, x, y
    <3>7. Draws("openai", b, a \o <<y>>, z)
      BY <2>5, <3>3, <3>4, <3>5, <3>6, DrawsBoth
    <3>8. d.text_index = NoIndex
      BY <2>3 DEF OnOpenai, Answering
    <3>9. Answering(o, z)
      BY <2>2, <2>3, <2>4, <3>3, <3>8 DEF Answering
    <3>10. OnOpenai(s, o, z)
      BY <2>2, <3>9 DEF OnOpenai
    <3>11. QED BY <2>1, <3>7, <3>10
  <2>8. QED BY <2>6, <2>7
<1>4. QED BY <1>2, <1>3

\* Text ends the reasoning, and begins or extends the text.
LEMMA TextedDraws ==
  ASSUME NEW d, Sound("openai", d), NEW b \in Boards, NEW s, OnOpenai(s, d, b), NEW c
  PROVE  \E z : Draws("openai", b, Texted(d, c).out, z) /\ OnOpenai(s, Texted(d, c).st, z)
<1> DEFINE i == TextSlot(d)
           a == Answered(d)
           j == IF d.text THEN a.st.text_index ELSE i
           o == WithText(a.st, j)
           x == BlockStart(i, "text")
           y == BlockDelta(i, "text")
           n == Only(~d.text, x)
           e == "openai"
<1>1. Texted(d, c) = IF c.content THEN Says(o, a.out \o n \o <<y>>) ELSE Silent(d)
  BY Zenon DEF Texted, WithText
<1>2. CASE ~c.content
  <2>1. Texted(d, c).st = d /\ Texted(d, c).out = <<>>
    BY <1>1, <1>2 DEF Silent, Says
  <2>2. QED BY <2>1, DrawsNothing
<1>3. CASE c.content
  <2>1. Texted(d, c).st = o /\ Texted(d, c).out = a.out \o n \o <<y>>
    <3> DEFINE all == a.out \o n \o <<y>>
    <3>1. Texted(d, c) = Says(o, all)
      BY <1>1, <1>3
    <3> HIDE DEF all, o
    <3>2. Texted(d, c).st = o /\ Texted(d, c).out = all
      BY <3>1 DEF Says
    <3>3. QED BY <3>2 DEF all
  <2>2. Answering(d, b) /\ DOMAIN d.tools = {w \in s.used : w < MaxOpenTools}
    BY DEF OnOpenai
  <2>3. /\ Sound(e, a.st) /\ ~a.st.thinking /\ a.st.reasoning_seen = d.reasoning_seen
        /\ a.st.text = d.text /\ a.st.text_index = d.text_index /\ a.st.tools = d.tools
        /\ Slots(a.st) = Slots(d) /\ Offset(a.st) = Offset(d) /\ ToolCount(a.st) = ToolCount(d)
    BY <2>2, AnsweredDraws
  <2>4. PICK m : Draws(e, b, a.out, m) /\ Answering(a.st, m)
    BY <2>2, AnsweredDraws
  <2>5. m \in Boards
    BY <2>4 DEF Draws
  <2>6. ToolCount(d) \in Nat /\ (d.text_index # NoIndex => d.text_index \in Nat) /\ Offset(d) \in {0, 1}
    BY SoundCounts DEF Offset
  <2>7. i \in Nat /\ i = IF d.text_index # NoIndex THEN d.text_index ELSE Offset(d) + ToolCount(d)
    BY <2>6 DEF TextSlot
  <2>8. (d.text <=> d.text_index # NoIndex) /\ NoIndex \notin Nat
    BY <2>2 DEF Answering, NoIndex
  <2>9. j = i
    BY <2>3, <2>7, <2>8
  <2> HIDE DEF i, a, j
  <2>10. /\ o.text = TRUE /\ o.text_index = i /\ o.tools = d.tools /\ ~o.thinking
         /\ o.reasoning_seen = d.reasoning_seen /\ Slots(o) = ToolCount(d) + 1 /\ Offset(o) = Offset(d)
    <3>1. /\ o.text = TRUE /\ o.text_index = i /\ o.tools = a.st.tools /\ Beside(a.st, o)
          /\ Slots(o) = ToolCount(a.st) + 1
      <4> DEFINE v == a.st
                 q == WithText(v, i)
      <4>1. o = q /\ Sound("openai", v) /\ i \in Nat
        BY <2>3, <2>7, <2>9
      <4> HIDE DEF v
      <4>2. /\ q.text = TRUE /\ q.text_index = i /\ q.tools = v.tools /\ Beside(v, q)
            /\ Slots(q) = ToolCount(v) + 1
        BY <4>1, TextGives
      <4> HIDE DEF o, q
      <4>3. QED BY <4>1, <4>2 DEF v
    <3> HIDE DEF o
    <3>2. QED BY <2>3, <3>1 DEF Beside, Offset
  <2>11. ASSUME NEW z \in Boards, i \in DOMAIN z, z[i] = "text" PROVE Draws(e, z, <<y>>, z)
    <3>1. z[i] = OfKind("text") /\ "text" \in Blocks \cup {"citations"}
      BY <2>11 DEF OfKind, Blocks
    <3>2. QED BY <2>11, <3>1, DeltaDraws
  <2> HIDE DEF o, e
  <2>12. CASE d.text
    <3>1. i = d.text_index /\ i \in DOMAIN m /\ m[i] = "text"
      BY <2>3, <2>4, <2>7, <2>8, <2>12 DEF Answering
    <3>2. n = <<>>
      BY <2>12 DEF Only
    <3> HIDE DEF n, y
    <3>3. a.out \o n = a.out
      <4>1. a.out \in Seq(Events)
        BY <2>4 DEF Draws
      <4>2. QED BY <3>2, <4>1
    <3>4. Draws(e, b, a.out \o n \o <<y>>, m)
      BY <2>4, <2>5, <2>11, <3>1, <3>3, DrawsBoth
    <3>5. Slots(d) = ToolCount(d) + 1
      BY <2>7, <2>8, <3>1 DEF Slots
    <3>6. Answering(o, m)
      BY <2>3, <2>4, <2>7, <2>8, <2>10, <3>1, <3>5, <2>12 DEF Answering
    <3>7. OnOpenai(s, o, m)
      BY <2>2, <2>10, <3>6 DEF OnOpenai
    <3>8. QED BY <2>1, <3>4, <3>7 DEF e
  <2>13. CASE ~d.text
    <3> DEFINE z == Put(m, i, "text")
    <3>1. i = Slots(d) + Offset(d) /\ Slots(d) = ToolCount(d)
      BY <2>6, <2>7, <2>8, <2>13 DEF Slots
    <3>2. i \notin DOMAIN m
      <4>1. \A k \in DOMAIN m : k \in Nat /\ k < Slots(a.st) + Offset(a.st)
        BY <2>4, <2>5, BoardTyped DEF Answering
      <4>2. QED BY <2>3, <2>7, <3>1, <4>1
    <3>3. DOMAIN z = DOMAIN m \cup {i} /\ z[i] = "text" /\ \A k \in DOMAIN m : z[k] = m[k]
      BY <3>2 DEF Put
    <3>4. Draws(e, m, <<x>>, z)
      <4>1. \A k \in DOMAIN m : m[k] # "text"
        BY <2>3, <2>4, <2>13 DEF Answering
      <4>2. RoomFor(m, "text")
        BY <4>1, RoomForFirst
      <4>3. "text" \in Blocks
        BY DEF Blocks
      <4> HIDE DEF z
      <4>4. Draws(e, m, <<BlockStart(i, "text")>>, Put(m, i, "text"))
        BY <2>5, <2>7, <3>2, <4>2, <4>3, StartDraws
      <4>5. QED BY <4>4 DEF z
    <3>5. z \in Boards
      BY <3>4 DEF Draws
    <3>6. n = <<x>>
      BY <2>13 DEF Only
    <3> HIDE DEF z, n, x, y
    <3>7. Draws(e, b, a.out \o n \o <<y>>, z)
      <4>1. Draws(e, b, a.out \o n, z)
        BY <2>4, <3>4, <3>6, DrawsBoth
      <4>2. Draws(e, z, <<y>>, z)
        BY <2>11, <3>3, <3>5
      <4> DEFINE an == a.out \o n
      <4>3. Draws(e, b, an, z)
        BY <4>1
      <4> HIDE DEF an
      <4>4. Draws(e, b, an \o <<y>>, z)
        BY <4>2, <4>3, DrawsBoth
      <4>5. QED BY <4>4 DEF an
    <3>8. \A k \in DOMAIN z : k < Slots(o) + Offset(o)
      <4>1. \A k \in DOMAIN m : k \in Nat /\ k < Slots(d) + Offset(d)
        BY <2>3, <2>4, <2>5, BoardTyped DEF Answering
      <4>2. QED BY <2>6, <2>10, <3>1, <3>3, <4>1
    <3>9. /\ \A w \in DOMAIN d.tools : d.tools[w] \in DOMAIN z /\ z[d.tools[w]] = "tool"
          /\ \A k \in DOMAIN z : \/ k = i
                                 \/ \E w \in DOMAIN d.tools : d.tools[w] = k
                                 \/ z[k] = "done"
      BY <2>3, <2>4, <2>13, <3>3 DEF Answering
    <3>10. Answering(o, z)
      BY <2>7, <2>8, <2>10, <3>3, <3>8, <3>9 DEF Answering
    <3>11. OnOpenai(s, o, z)
      BY <2>2, <2>10, <3>10 DEF OnOpenai
    <3>12. QED BY <2>1, <3>7, <3>11 DEF e
  <2>14. QED BY <2>12, <2>13
<1>4. QED BY <1>2, <1>3

\* The tool a chunk carries, by the index its reader gives it: one that it
\* knows, or the next one.
LEMMA ToolIsKnown ==
  ASSUME Numbered(sent), NEW d, Sound("openai", d),
         DOMAIN d.tools = {w \in sent.used : w < MaxOpenTools}, NEW tool \in OpenAiTools
  PROVE  LET wire == Clamped(tool.index)
         IN  /\ wire \in Nat /\ tool.index \in Nat
             /\ \/ wire \in DOMAIN d.tools /\ ~Opens(d, tool)
                \/ wire \notin DOMAIN d.tools /\ Opens(d, tool) /\ wire = ToolCount(d)
             /\ {w \in sent.used \cup {tool.index} : w < MaxOpenTools} = DOMAIN d.tools \cup {wire}
<1> DEFINE n == tool.index
           wire == Clamped(n)
<1>1. PICK k \in Nat : sent.used = 0 .. k - 1
  BY DEF Numbered
<1>2. MaxOpenTools \in Nat \ {0}
  BY CapIsPositive
<1>3. \/ n \in sent.used /\ ~tool.named
      \/ n \in NextIndex /\ tool.named
  BY DEF OpenAiTools
<1>4. n \in NextIndex => n = k
  <2>1. 0 \in Int /\ k - 1 \in Int /\ (IF 0 > k - 1 THEN 0 ELSE (k - 1) - 0 + 1) = k
    OBVIOUS
  <2>2. Cardinality(0 .. k - 1) = IF 0 > k - 1 THEN 0 ELSE (k - 1) - 0 + 1
    BY <2>1, FS_Interval
  <2>3. QED BY <1>1, <2>1, <2>2 DEF NextIndex
<1>5. n \in Nat /\ n <= k
  BY <1>1, <1>3, <1>4
<1> HIDE DEF n
<1>6. \A w : w \in DOMAIN d.tools <=> w \in Nat /\ w < k /\ w < MaxOpenTools
  BY <1>1
<1>7. wire \in Nat /\ (n < MaxOpenTools => wire = n) /\ (~(n < MaxOpenTools) => wire = MaxOpenTools - 1)
  BY <1>2, <1>5 DEF Clamped, AtMost
<1> HIDE DEF wire
<1>8. {w \in sent.used \cup {n} : w < MaxOpenTools} = DOMAIN d.tools \cup {wire}
  <2>1. ASSUME NEW w PROVE (w \in sent.used \cup {n} /\ w < MaxOpenTools) <=> w \in DOMAIN d.tools \cup {wire}
    BY <1>1, <1>2, <1>5, <1>6, <1>7
  <2>2. QED BY <2>1
<1>9. CASE wire \in DOMAIN d.tools
  <2>1. ~Opens(d, tool)
    BY <1>9 DEF Opens, wire, n
  <2>2. QED BY <1>5, <1>7, <1>8, <1>9, <2>1 DEF wire, n
<1>10. CASE wire \notin DOMAIN d.tools
  <2>1. n = k /\ k < MaxOpenTools /\ wire = k
    BY <1>2, <1>5, <1>6, <1>7, <1>10
  <2>2. tool.named
    BY <1>1, <1>3, <2>1 DEF n
  <2>3. ToolCount(d) = k
    <3>1. DOMAIN d.tools = 0 .. k - 1
      <4>1. \A v : v \in DOMAIN d.tools <=> v \in 0 .. k - 1
        BY <1>2, <1>6, <2>1
      <4>2. QED BY <4>1
    <3>2. 0 \in Int /\ k - 1 \in Int /\ (IF 0 > k - 1 THEN 0 ELSE (k - 1) - 0 + 1) = k
      OBVIOUS
    <3>3. Cardinality(0 .. k - 1) = IF 0 > k - 1 THEN 0 ELSE (k - 1) - 0 + 1
      BY <3>2, FS_Interval
    <3>4. QED BY <3>1, <3>2, <3>3 DEF ToolCount
  <2>4. Opens(d, tool)
    BY <1>10, <2>1, <2>2, <2>3 DEF Opens, wire, n
  <2>5. QED BY <1>5, <1>7, <1>8, <1>10, <2>1, <2>3, <2>4 DEF wire, n
<1>11. QED BY <1>9, <1>10

\* A tool call ends the reasoning, and begins or extends the tool.
LEMMA CalledDraws ==
  ASSUME Numbered(sent), NEW d, Sound("openai", d), NEW b \in Boards, OnOpenai(sent, d, b),
         NEW c, c.tool = {} \/ \E tool \in OpenAiTools : c.tool = {tool},
         NEW t, t.used = sent.used \cup {tool.index : tool \in c.tool}
  PROVE  \E z : Draws("openai", b, Called(d, c).out, z) /\ OnOpenai(t, Called(d, c).st, z)
<1> DEFINE tool == The(c.tool)
           a == Answered(d)
           wire == Clamped(tool.index)
           i == ToolSlot(d, wire)
           w == WithTool(a.st, wire, i)
           x == BlockStart(i, "tool")
           q == IF Opens(d, tool) THEN Says(w, <<x>>) ELSE Silent(a.st)
           y == BlockDelta(q.st.tools[wire], "tool")
           n == IF wire \in DOMAIN q.st.tools THEN <<y>> ELSE <<>>
           o == a.out \o q.out \o n
           e == "openai"
<1>1. Called(d, c) = IF c.tool # {} THEN Says(q.st, o) ELSE Silent(d)
  BY Zenon DEF Called
<1>2. CASE c.tool = {}
  <2>1. Called(d, c).st = d /\ Called(d, c).out = <<>>
    BY <1>1, <1>2 DEF Silent, Says
  <2>2. t.used = sent.used
    BY <1>2
  <2>3. OnOpenai(t, d, b)
    BY <2>2 DEF OnOpenai
  <2>4. QED BY <2>1, <2>3, DrawsNothing
<1>3. CASE c.tool # {}
  <2>1. Called(d, c).st = q.st /\ Called(d, c).out = o
    <3>1. Called(d, c) = Says(q.st, o)
      BY <1>1, <1>3
    <3> HIDE DEF q, o
    <3>2. QED BY <3>1 DEF Says
  <2>2. tool \in OpenAiTools /\ t.used = sent.used \cup {tool.index}
    <3>1. PICK only \in OpenAiTools : c.tool = {only}
      BY <1>3
    <3>2. tool = only
      BY <3>1, TheOne
    <3> HIDE DEF tool
    <3>3. QED BY <3>1, <3>2
  <2> HIDE DEF tool
  <2>3. Answering(d, b) /\ DOMAIN d.tools = {v \in sent.used : v < MaxOpenTools}
    BY DEF OnOpenai
  <2>4. /\ wire \in Nat
        /\ \/ wire \in DOMAIN d.tools /\ ~Opens(d, tool)
           \/ wire \notin DOMAIN d.tools /\ Opens(d, tool) /\ wire = ToolCount(d)
        /\ {v \in sent.used \cup {tool.index} : v < MaxOpenTools} = DOMAIN d.tools \cup {wire}
    BY <2>2, <2>3, ToolIsKnown
  <2> HIDE DEF wire
  <2>5. /\ Sound(e, a.st) /\ ~a.st.thinking /\ a.st.reasoning_seen = d.reasoning_seen
        /\ a.st.text = d.text /\ a.st.text_index = d.text_index /\ a.st.tools = d.tools
        /\ Slots(a.st) = Slots(d) /\ Offset(a.st) = Offset(d) /\ ToolCount(a.st) = ToolCount(d)
    BY <2>3, AnsweredDraws
  <2>6. PICK m : Draws(e, b, a.out, m) /\ Answering(a.st, m)
    BY <2>3, AnsweredDraws
  <2>7. m \in Boards
    BY <2>6 DEF Draws
  <2> HIDE DEF a, e
  <2>8. ASSUME NEW z \in Boards, NEW k \in DOMAIN z, z[k] = "tool"
        PROVE  Draws(e, z, <<BlockDelta(k, "tool")>>, z)
    <3>1. z[k] = OfKind("tool") /\ "tool" \in Blocks \cup {"citations"}
      BY <2>8 DEF OfKind, Blocks
    <3>2. QED BY <2>8, <3>1, DeltaDraws
  <2>9. CASE wire \in DOMAIN d.tools /\ ~Opens(d, tool)
    <3>1. q.st = a.st /\ q.out = <<>>
      BY <2>9 DEF Silent, Says
    <3> HIDE DEF q
    <3> DEFINE k == d.tools[wire]
    <3>2. n = <<BlockDelta(k, "tool")>>
      BY <2>5, <2>9, <3>1
    <3>3. k \in DOMAIN m /\ m[k] = "tool"
      BY <2>5, <2>6, <2>9 DEF Answering
    <3> HIDE DEF n, k
    <3>4. Draws(e, m, n, m)
      BY <2>7, <2>8, <3>2, <3>3
    <3>5. o = a.out \o n
      <4>1. a.out \in Seq(Events)
        BY <2>6 DEF Draws
      <4>2. a.out \o <<>> = a.out
        BY <4>1
      <4>3. QED BY <3>1, <4>2
    <3> HIDE DEF o
    <3>6. Draws(e, b, o, m)
      BY <2>6, <3>4, <3>5, DrawsBoth
    <3>7. OnOpenai(t, a.st, m)
      <4>1. DOMAIN a.st.tools = {v \in t.used : v < MaxOpenTools}
        BY <2>2, <2>4, <2>5, <2>9
      <4>2. DOMAIN a.st.tools # {}
        BY <2>5, <2>9
      <4>3. QED BY <2>6, <4>1, <4>2 DEF OnOpenai
    <3>8. QED BY <2>1, <3>1, <3>6, <3>7 DEF e
  <2>10. CASE wire \notin DOMAIN d.tools /\ Opens(d, tool) /\ wire = ToolCount(d)
    <3> DEFINE z == Put(m, i, "tool")
    <3>1. q.st = w /\ q.out = <<x>>
      BY <2>10 DEF Says
    <3>2. ToolCount(d) \in Nat /\ (d.text_index # NoIndex => d.text_index \in Nat) /\ Offset(d) \in {0, 1}
          /\ Cardinality(a.st.texts) = 0 /\ MaxOpenTools \in Nat
      BY <2>5, SoundCounts DEF Offset, e
    <3>3. i \in Nat /\ i = Slots(d) + Offset(d)
      <4>1. i = wire + (IF d.text_index # NoIndex THEN 1 ELSE 0) + Offset(d)
        BY DEF ToolSlot
      <4> HIDE DEF i
      <4>2. QED BY <2>10, <3>2, <4>1 DEF Slots
    <3> HIDE DEF i, q
    <3>4. /\ DOMAIN w.tools = DOMAIN d.tools \cup {wire} /\ w.tools[wire] = i
          /\ \A v \in DOMAIN d.tools : w.tools[v] = d.tools[v]
          /\ w.text = d.text /\ w.text_index = d.text_index /\ ~w.thinking
          /\ Slots(w) = Slots(d) + 1 /\ Offset(w) = Offset(d)
      <4>1. ToolCount(a.st) + Cardinality(a.st.texts) < MaxOpenTools /\ wire \notin DOMAIN a.st.tools
        BY <2>5, <2>10, <3>2 DEF Opens
      <4>2. /\ DOMAIN w.tools = DOMAIN a.st.tools \cup {wire} /\ w.tools[wire] = i
            /\ \A v \in DOMAIN a.st.tools : w.tools[v] = a.st.tools[v]
            /\ w.text = a.st.text /\ w.text_index = a.st.text_index /\ Beside(a.st, w)
            /\ Slots(w) = Slots(a.st) + 1
        BY <2>4, <2>5, <3>3, <4>1, ToolGives
      <4> HIDE DEF w
      <4>3. QED BY <2>5, <4>2 DEF Beside, Offset
    <3> HIDE DEF w
    <3>5. i \notin DOMAIN m
      <4>1. \A k \in DOMAIN m : k \in Nat /\ k < Slots(a.st) + Offset(a.st)
        BY <2>6, <2>7, BoardTyped DEF Answering
      <4>2. QED BY <2>5, <3>3, <4>1
    <3>6. DOMAIN z = DOMAIN m \cup {i} /\ z[i] = "tool" /\ \A k \in DOMAIN m : z[k] = m[k]
      BY <3>5 DEF Put
    <3>7. Draws(e, m, <<x>>, z)
      <4>1. \A k \in DOMAIN m : m[k] = "tool" => \E v \in DOMAIN a.st.tools : a.st.tools[v] = k
        BY <2>5, <2>6 DEF Answering
      <4>2. ToolCount(a.st) < MaxOpenTools
        BY <2>5, <2>10 DEF Opens
      <4>3. RoomFor(m, "tool")
        BY <2>5, <4>1, <4>2, RoomForTool
      <4>4. "tool" \in Blocks
        BY DEF Blocks
      <4> HIDE DEF z
      <4>5. Draws(e, m, <<BlockStart(i, "tool")>>, Put(m, i, "tool"))
        BY <2>7, <3>3, <3>5, <4>3, <4>4, StartDraws
      <4>6. QED BY <4>5 DEF z
    <3>8. z \in Boards
      BY <3>7 DEF Draws
    <3>9. n = <<BlockDelta(i, "tool")>>
      BY <3>1, <3>4
    <3> HIDE DEF z, n, x
    <3>10. Draws(e, z, n, z)
      BY <2>8, <3>6, <3>8, <3>9
    <3>11. Draws(e, b, o, z)
      <4> DEFINE ax == a.out \o <<x>>
      <4>1. Draws(e, b, ax, z)
        BY <2>6, <3>7, DrawsBoth
      <4>2. o = ax \o n
        BY <3>1
      <4> HIDE DEF ax, o
      <4>3. QED BY <3>10, <4>1, <4>2, DrawsBoth
    <3> HIDE DEF o
    <3>12. \A k \in DOMAIN z : k < Slots(w) + Offset(w)
      <4>1. \A k \in DOMAIN m : k \in Nat /\ k < Slots(d) + Offset(d)
        BY <2>5, <2>6, <2>7, BoardTyped DEF Answering
      <4>2. Slots(d) \in Nat
        BY <3>2 DEF Slots
      <4>3. QED BY <3>2, <3>3, <3>4, <3>6, <4>1, <4>2
    <3>13. \A v \in DOMAIN w.tools : w.tools[v] \in DOMAIN z /\ z[w.tools[v]] = "tool"
      BY <2>5, <2>6, <3>4, <3>6 DEF Answering
    <3>14. \A k \in DOMAIN z : \/ w.text /\ k = w.text_index
                               \/ \E v \in DOMAIN w.tools : w.tools[v] = k
                               \/ z[k] = "done"
      <4>1. \A k \in DOMAIN m : \/ d.text /\ k = d.text_index
                                \/ \E v \in DOMAIN d.tools : d.tools[v] = k
                                \/ m[k] = "done"
        BY <2>5, <2>6 DEF Answering
      <4>2. QED BY <3>4, <3>6, <4>1
    <3>15. /\ w.text <=> w.text_index # NoIndex
           /\ w.text => w.text_index \in DOMAIN z /\ z[w.text_index] = "text"
      BY <2>5, <2>6, <3>4, <3>6 DEF Answering
    <3>16. Answering(w, z)
      BY <3>4, <3>12, <3>13, <3>14, <3>15 DEF Answering
    <3>17. OnOpenai(t, w, z)
      BY <2>2, <2>4, <3>4, <3>16 DEF OnOpenai
    <3>18. QED BY <2>1, <3>1, <3>11, <3>17 DEF e
  <2>11. QED BY <2>4, <2>9, <2>10
<1>4. QED BY <1>2, <1>3

\* The finish stops every block.
LEMMA FinishedDraws ==
  ASSUME NEW d, Sound("openai", d), NEW b \in Boards, Answering(d, b), NEW c, c.finish, c.usage \in Counted
  PROVE  \E z \in Boards :
           /\ Clear(z)
           /\ Run(Tally("openai"), Scene("open", b), Finished(d, c).out, Scene("over", z))
<1> DEFINE i == d.text_index
           S == ToolIndices(d)
           e == "openai"
           k == IF d.thinking THEN Put(b, 0, "done") ELSE b
           m == IF d.text THEN Put(k, i, "done") ELSE k
           z == Stopped(m, S)
           h == Only(d.thinking, BlockStop(0))
           a == Only(d.text, BlockStop(i))
           s == Stops(S)
           r == Reported(c.usage)
           end == <<MessageDelta(TRUE, r), MessageStop>>
           all == h \o a \o s \o end
<1>1. Finished(d, c).out = all
  <2>1. Finished(d, c) = Says([d EXCEPT !.thinking = FALSE, !.text = FALSE, !.tools = <<>>], all)
    BY Zenon DEF Finished
  <2> HIDE DEF all
  <2>2. QED BY <2>1 DEF Says
<1>2. /\ d.thinking => 0 \in DOMAIN b /\ b[0] = "thinking"
      /\ d.text => i \in DOMAIN b /\ b[i] = "text"
  BY DEF Answering
<1>3. Draws(e, b, h, k)
  <2>1. CASE d.thinking
    <3>1. Holding(b, 0)
      BY <1>2, <2>1 DEF Holding
    <3>2. Draws(e, b, <<BlockStop(0)>>, Put(b, 0, "done"))
      BY <3>1, StopDraws
    <3>3. QED BY <2>1, <3>2 DEF Only
  <2>2. CASE ~d.thinking
    BY <2>2, DrawsNothing DEF Only
  <2>3. QED BY <2>1, <2>2
<1>4. /\ DOMAIN k = DOMAIN b
      /\ \A j \in DOMAIN b : k[j] = IF d.thinking /\ j = 0 THEN "done" ELSE b[j]
  <2>1. CASE d.thinking
    BY <1>2, <2>1 DEF Put
  <2>2. CASE ~d.thinking
    BY <2>2
  <2>3. QED BY <2>1, <2>2
<1> HIDE DEF k, h
<1>5. k \in Boards /\ (d.text => i \in DOMAIN k /\ k[i] = "text")
  BY <1>2, <1>3, <1>4 DEF Draws
<1>6. Draws(e, k, a, m)
  <2>1. CASE d.text
    <3>1. Holding(k, i)
      BY <1>5, <2>1 DEF Holding
    <3>2. Draws(e, k, <<BlockStop(i)>>, Put(k, i, "done"))
      BY <1>5, <3>1, StopDraws
    <3>3. QED BY <2>1, <3>2 DEF Only
  <2>2. CASE ~d.text
    BY <1>5, <2>2, DrawsNothing DEF Only
  <2>3. QED BY <2>1, <2>2
<1>7. /\ DOMAIN m = DOMAIN b
      /\ \A j \in DOMAIN b : m[j] = IF d.text /\ j = i THEN "done" ELSE k[j]
  <2>1. CASE d.text
    BY <1>4, <1>5, <2>1 DEF Put
  <2>2. CASE ~d.text
    BY <1>4, <2>2
  <2>3. QED BY <2>1, <2>2
<1> HIDE DEF m, a
<1>8. \A v \in S : v \in DOMAIN b /\ b[v] = "tool"
  BY DEF ToolIndices, Answering
<1>9. \A w \in DOMAIN d.tools : d.tools[w] \in S
  BY DEF ToolIndices
<1>10. S \in SUBSET Nat /\ IsFiniteSet(S)
  BY IndicesTyped
<1> HIDE DEF S
<1>11. m \in Boards
  BY <1>6 DEF Draws
<1>12. \A v \in S : Holding(m, v)
  <2>1. ASSUME NEW v \in S PROVE Holding(m, v)
    <3>1. v \in DOMAIN b /\ b[v] = "tool"
      BY <1>8
    <3>2. m[v] = "tool" /\ v \in DOMAIN m
      BY <1>2, <1>4, <1>7, <3>1
    <3>3. QED BY <3>2 DEF Holding
  <2>2. QED BY <2>1
<1>13. Draws(e, m, s, z)
  BY <1>10, <1>11, <1>12, StopsDraw
<1>14. z \in Boards
  BY <1>13 DEF Draws
<1>15. Clear(z)
  <2>1. \A j \in DOMAIN b : \/ d.thinking /\ j = 0
                            \/ d.text /\ j = i
                            \/ j \in S
                            \/ b[j] = "done"
    BY <1>9 DEF Answering
  <2>2. \A j \in DOMAIN m : m[j] # "done" => j \in S
    BY <1>4, <1>7, <2>1
  <2>3. QED BY <1>11, <2>2, StoppedClear
<1>16. r \in Usage
  BY ReportedIs
<1> HIDE DEF z, s, r
<1>17. Run(Tally(e), Scene("open", z), end, Scene("over", z)) /\ end \in Seq(Events)
  BY <1>14, <1>15, <1>16, BothEnd
<1> DEFINE x == h \o a
           y == x \o s
<1>18. Draws(e, b, x, m)
  BY <1>3, <1>6, DrawsBoth
<1> HIDE DEF x
<1>19. Draws(e, b, y, z)
  BY <1>13, <1>18, DrawsBoth
<1>20. y \in Seq(Events) /\ Run(Tally(e), Scene("open", b), y, Scene("open", z))
  BY <1>19 DEF Draws
<1>21. all = y \o end
  BY Zenon DEF x
<1> HIDE DEF y, end, all
<1>22. Run(Tally(e), Scene("open", b), y \o end, Scene("over", z))
  BY <1>17, <1>20, RunBoth
<1>23. QED BY <1>1, <1>14, <1>15, <1>21, <1>22 DEF e

\* A chunk while the backend streams.
LEMMA OpenAiChunkDrawn ==
  ASSUME egress = "openai", SentOK("openai", sent), NEW d, Ready("openai", sent, d), NEW p,
         OnBoard("openai", sent, d, p), Streaming,
         NEW c, c.usage \in Counted, c.tool = {} \/ \E tool \in OpenAiTools : c.tool = {tool},
         NEW t, t.used = sent.used \cup {tool.index : tool \in c.tool},
         \/ c.finish /\ t.at \in {"finished", "counted"}
         \/ ~c.finish /\ c.usage = {} /\ (t.at = "failed" \/ (t.at = "open" /\ Numbered(t)))
  PROVE  Drawn("openai", d, p, c, t)
<1> DEFINE e == "openai"
           begun    == Begun(d)
           reasoned == Reasoned(begun.st, c)
           texted   == Texted(reasoned.st, c)
           called   == Called(texted.st, c)
           finished == Finished(called.st, c)
           b == p.blocks
           o == begun.out \o reasoned.out \o texted.out \o called.out
<1>1. sent.at \in {"idle", "open"} /\ e # "anthropic"
  BY DEF Streaming
<1>2. e # "responses" /\ e # "bedrock" /\ e # "cohere" /\ e # "gemini"
  OBVIOUS
<1>3. \A s, v, x : Meets(e, s, v, x) <=> Numbered(s) /\ OnOpenai(s, v, x)
  BY <1>1, <1>2 DEF Meets
<1>4. ReadBy(e, d, c).st = finished.st /\ ReadBy(e, d, c).out = o \o finished.out
  <2> DEFINE all == begun.out \o reasoned.out \o texted.out \o called.out \o finished.out
  <2>1. OpenAiRead(d, c) = Says(finished.st, all)
    BY Zenon DEF OpenAiRead
  <2>2. ReadBy(e, d, c) = OpenAiRead(d, c)
    BY DEF ReadBy
  <2> HIDE DEF finished, all
  <2>3. ReadBy(e, d, c).st = finished.st /\ ReadBy(e, d, c).out = all
    BY <2>1, <2>2 DEF Says
  <2>4. QED BY Zenon, <2>3 DEF all
<1>5. /\ p \in Tallies /\ p.stage = "open" /\ b \in Boards /\ p = Scene("open", b)
      /\ Draws(e, b, begun.out, b) /\ Sound(e, begun.st) /\ Numbered(sent) /\ OnOpenai(sent, begun.st, b)
  <2>1. /\ p \in Tallies /\ p.stage = "open" /\ b \in Boards /\ p = Scene("open", b)
        /\ Draws(e, b, begun.out, b) /\ Sound(e, begun.st) /\ Meets(e, sent, begun.st, b)
    BY <1>1, BegunOnBoard
  <2>2. QED BY <1>3, <2>1
<1> HIDE DEF begun
<1>6. Sound(e, reasoned.st) /\ \E x : Draws(e, b, reasoned.out, x) /\ OnOpenai(sent, reasoned.st, x)
  BY <1>5, ReasonedTame, ReasonedDraws DEF Tame
<1> HIDE DEF reasoned
<1>7. PICK x : Draws(e, b, reasoned.out, x) /\ OnOpenai(sent, reasoned.st, x)
  BY <1>6
<1>8. x \in Boards
  BY <1>7 DEF Draws
<1>9. Sound(e, texted.st) /\ \E y : Draws(e, x, texted.out, y) /\ OnOpenai(sent, texted.st, y)
  BY <1>6, <1>7, <1>8, TextedTame, TextedDraws DEF Tame
<1> HIDE DEF texted
<1>10. PICK y : Draws(e, x, texted.out, y) /\ OnOpenai(sent, texted.st, y)
  BY <1>9
<1>11. y \in Boards
  BY <1>10 DEF Draws
<1>12. c.tool # {} => The(c.tool).index \in Nat
  <2>1. ASSUME NEW only \in OpenAiTools, c.tool = {only} PROVE The(c.tool).index \in Nat
    <3>1. The(c.tool) = only
      BY <2>1, TheOne
    <3>2. only.index \in Nat
      <4>1. DOMAIN texted.st.tools = {w \in sent.used : w < MaxOpenTools}
        BY <1>10 DEF OnOpenai
      <4>2. QED BY <1>5, <1>9, <4>1, ToolIsKnown
    <3>3. QED BY <3>1, <3>2
  <2>2. QED BY <2>1
<1>13. Sound(e, called.st)
  BY <1>9, <1>12, CalledTame DEF Tame
<1>14. \E z : Draws(e, y, called.out, z) /\ OnOpenai(t, called.st, z)
  BY <1>5, <1>9, <1>10, <1>11, CalledDraws
<1> HIDE DEF called
<1>15. PICK z : Draws(e, y, called.out, z) /\ OnOpenai(t, called.st, z)
  BY <1>14
<1>16. z \in Boards
  BY <1>15 DEF Draws
<1>17. Draws(e, b, o, z)
  <2> DEFINE u == begun.out \o reasoned.out
             v == u \o texted.out
  <2>1. Draws(e, b, u, x)
    BY <1>5, <1>7, DrawsBoth
  <2> HIDE DEF u
  <2>2. Draws(e, b, v, y)
    BY <1>10, <2>1, DrawsBoth
  <2> HIDE DEF v
  <2>3. Draws(e, b, v \o called.out, z)
    BY <1>15, <2>2, DrawsBoth
  <2>4. o = v \o called.out
    BY Zenon DEF u, v
  <2>5. QED BY <2>3, <2>4
<1> HIDE DEF o
<1>18. CASE c.finish
  <2>1. PICK q \in Boards : Clear(q) /\ Run(Tally(e), Scene("open", z), finished.out, Scene("over", q))
    <3>1. Answering(called.st, z)
      BY <1>15 DEF OnOpenai
    <3>2. QED BY <1>13, <1>16, <1>18, <3>1, FinishedDraws
  <2>2. \E w \in Seq(BlockEvents) : finished.out = w \o <<MessageDelta(TRUE, Reported(c.usage)), MessageStop>>
    BY <1>13, <1>18, FinishedEnds
  <2>3. finished.out \in Seq(Events)
    BY <2>2, SeqEnds
  <2>4. t.at \in {"finished", "counted"}
    BY <1>18
  <2> HIDE DEF finished
  <2>5. Run(Tally(e), Scene("open", b), o \o finished.out, Scene("over", q))
    BY <1>17, <2>1, <2>3, RunBoth DEF Draws
  <2>6. Run(Tally(e), p, ReadBy(e, d, c).out, Scene("over", q))
    BY <1>4, <1>5, <2>5
  <2> HIDE DEF e
  <2>7. Drawn(e, d, p, c, t)
    BY <2>1, <2>4, <2>6, DrawnAtEnd
  <2>8. QED BY <2>7 DEF e
<1>19. CASE ~c.finish
  <2>1. finished = Says(called.st, <<>>)
    BY Zenon, <1>19 DEF Finished, Only
  <2>2. finished.out = <<>> /\ finished.st = called.st
    BY <2>1 DEF Says
  <2> HIDE DEF finished
  <2>3. ReadBy(e, d, c).out = o
    <3>1. o \in Seq(Events)
      BY <1>17 DEF Draws
    <3>2. o \o <<>> = o
      BY <3>1
    <3>3. QED BY <1>4, <2>2, <3>2
  <2>4. Draws(e, p.blocks, ReadBy(e, d, c).out, z)
    BY <1>17, <2>3
  <2>5. CASE t.at = "open"
    <3>1. Meets(e, t, ReadBy(e, d, c).st, z)
      BY <1>3, <1>4, <1>15, <1>19, <2>2, <2>5
    <3> HIDE DEF e
    <3>2. Drawn(e, d, p, c, t)
      BY <1>5, <2>4, <2>5, <3>1, DrawnInside
    <3>3. QED BY <3>2 DEF e
  <2>6. CASE t.at = "failed"
    <3> DEFINE q == Scene("open", z)
    <3>1. q \in Tallies
      BY <1>16, SceneTyped
    <3>2. Run(Tally(e), p, ReadBy(e, d, c).out, q)
      BY <1>5, <2>4 DEF Draws
    <3> HIDE DEF q, e
    <3>3. Drawn(e, d, p, c, t)
      BY <2>6, <3>1, <3>2, DrawnFailed
    <3>4. QED BY <3>3 DEF e
  <2>7. QED BY <1>19, <2>5, <2>6
<1>20. QED BY <1>18, <1>19

\* What the reader says of counts in a chunk of their own.
LEMMA OpenAiCountsSaid ==
  ASSUME NEW d, Ready("openai", sent, d), sent.at = "finished",
         NEW c, c.usage = {Counts}, ~c.choice, ~c.finish, ~c.reasoning, ~c.content, c.tool = {}
  PROVE  ReadBy("openai", d, c).st = d /\ ReadBy("openai", d, c).out = <<MessageDelta(FALSE, Counts)>>
<1> DEFINE e == "openai"
           ev == MessageDelta(FALSE, Counts)
<1>1. d.started /\ d \in Memory
  BY DEF Ready, Sound
<1>2. Begun(d) = Says(d, <<>>)
  <2>1. [d EXCEPT !.started = TRUE] = d
    BY <1>1 DEF Memory
  <2>2. QED BY Zenon, <1>1, <2>1 DEF Begun, Only
<1>3. OpenAiRead(d, c).st = d /\ OpenAiRead(d, c).out = <<ev>>
  <2> DEFINE m == Says(d, <<>>)
  <2>1. m.st = d /\ m.out = <<>> /\ m = Silent(d)
    BY DEF Says, Silent
  <2> HIDE DEF m
  <2>2. Begun(d) = m
    BY <1>2 DEF m
  <2>3. Reasoned(d, c) = m /\ Texted(d, c) = m /\ Called(d, c) = m
    <3>1. Reasoned(d, c) = Silent(d)
      BY Zenon DEF Reasoned
    <3>2. Texted(d, c) = Silent(d)
      BY Zenon DEF Texted
    <3>3. Called(d, c) = Silent(d)
      BY Zenon DEF Called
    <3>4. QED BY <2>1, <3>1, <3>2, <3>3
  <2>4. Finished(d, c) = Says(d, <<ev>>)
    <3>1. Reported(c.usage) = Counts
      BY Zenon, UsagesTyped
    <3>2. c.usage # {}
      OBVIOUS
    <3>3. Finished(d, c) = Says(d, Only(c.usage # {} /\ ~c.choice, MessageDelta(FALSE, Reported(c.usage))))
      BY Zenon DEF Finished
    <3>4. Only(c.usage # {} /\ ~c.choice, MessageDelta(FALSE, Reported(c.usage))) = <<ev>>
      BY Zenon, <3>1, <3>2 DEF Only
    <3>5. QED BY <3>3, <3>4
  <2> HIDE DEF ev
  <2>5. Finished(d, c).st = d /\ Finished(d, c).out = <<ev>>
    BY <2>4 DEF Says
  <2>6. OpenAiRead(d, c) = Says(d, <<>> \o <<>> \o <<>> \o <<>> \o <<ev>>)
    BY Zenon, <2>1, <2>2, <2>3, <2>5 DEF OpenAiRead
  <2>7. <<>> \o <<>> = <<>> /\ <<>> \o <<ev>> = <<ev>>
    BY ShortConcat
  <2>8. OpenAiRead(d, c) = Says(d, <<ev>>)
    BY Zenon, <2>6, <2>7
  <2>9. QED BY <2>8 DEF Says
<1>4. ReadBy(e, d, c).st = d /\ ReadBy(e, d, c).out = <<ev>>
  <2>1. ReadBy(e, d, c) = OpenAiRead(d, c)
    BY DEF ReadBy
  <2>2. QED BY <1>3, <2>1
<1>5. QED BY <1>4

\* Whatever an openai backend sends, its reader draws the blocks.
LEMMA OpenAiDrawn ==
  ASSUME egress = "openai", SentOK("openai", sent), NEW d, Ready("openai", sent, d), NEW p,
         OnBoard("openai", sent, d, p), OpenAiSends
  PROVE  \E c, t : Send(c, t) /\ Drawn("openai", d, p, c, t)
<1> DEFINE e == "openai"
           Tools == {{}} \cup {{tool} : tool \in OpenAiTools}
<1>1. {} \in Counted /\ {Counts} \in Counted /\ e # "anthropic"
  BY DEF Counted
<1>2. Streaming => Numbered(sent)
  <2>1. e # "responses" /\ e # "bedrock" /\ e # "cohere" /\ e # "gemini"
    OBVIOUS
  <2>2. Streaming => Meets(e, sent, Begun(d).st, p.blocks)
    BY <1>1, BegunOnBoard DEF Streaming
  <2>3. QED BY <1>1, <2>1, <2>2 DEF Meets
<1>3. ASSUME Streaming, NEW r \in BOOLEAN, NEW x \in BOOLEAN, NEW f \in BOOLEAN, NEW k \in Tools,
             Send([OpenAiChunk EXCEPT !.reasoning = r, !.content = x, !.tool = k, !.finish = f],
                  [sent EXCEPT !.at = IF f THEN "finished" ELSE "open",
                               !.used = @ \cup {tool.index : tool \in k}])
      PROVE  \E c, t : Send(c, t) /\ Drawn(e, d, p, c, t)
  <2> DEFINE c == [OpenAiChunk EXCEPT !.reasoning = r, !.content = x, !.tool = k, !.finish = f]
             w == IF f THEN "finished" ELSE "open"
             v == sent.used \cup {tool.index : tool \in k}
             t == [sent EXCEPT !.at = w, !.used = v]
  <2>1. c.usage = {} /\ c.tool = k /\ c.finish = f
    BY DEF OpenAiChunk
  <2>2. k = {} \/ \E tool \in OpenAiTools : k = {tool}
    OBVIOUS
  <2>3. Send(c, t)
    BY <1>3
  <2>4. w \in {"finished", "open"} /\ (w = "finished" <=> f)
    BY <1>3
  <2> HIDE DEF w
  <2>5. t.at = w /\ t.used = v
    <3> HIDE DEF v
    <3>1. QED BY DEF SentOK
  <2>6. Numbered(t)
    <3>1. CASE k = {} \/ \E tool \in OpenAiTools : k = {tool} /\ tool.index \in sent.used
      <4>1. v = sent.used
        BY <3>1
      <4>2. QED BY <1>2, <1>3, <2>5, <4>1 DEF Numbered
    <3>2. ASSUME NEW tool \in OpenAiTools, k = {tool}, tool.index \in NextIndex PROVE Numbered(t)
      <4>1. v = sent.used \cup {tool.index}
        BY <3>2
      <4>2. \E n \in Nat : sent.used \cup {tool.index} = 0 .. n - 1
        BY <1>2, <1>3, <3>2, NextNumber
      <4> HIDE DEF v, t
      <4>3. QED BY <2>5, <4>1, <4>2 DEF Numbered
    <3>3. \A tool \in OpenAiTools : tool.index \in sent.used \/ tool.index \in NextIndex
      BY DEF OpenAiTools
    <3>4. QED BY <2>2, <3>1, <3>2, <3>3
  <2>7. t.used = sent.used \cup {tool.index : tool \in c.tool}
    BY Zenon, <2>1, <2>5
  <2> HIDE DEF c, v, t
  <2>8. \/ c.finish /\ t.at \in {"finished", "counted"}
        \/ ~c.finish /\ c.usage = {} /\ (t.at = "failed" \/ (t.at = "open" /\ Numbered(t)))
    BY <2>1, <2>4, <2>5, <2>6
  <2>9. c.usage \in Counted /\ (c.tool = {} \/ \E tool \in OpenAiTools : c.tool = {tool})
    BY <1>1, <2>1, <2>2
  <2>10. Drawn(e, d, p, c, t)
    BY <1>3, <2>7, <2>8, <2>9, OpenAiChunkDrawn
  <2>11. QED BY <2>3, <2>10
<1>4. CASE Streaming /\ Send([OpenAiChunk EXCEPT !.finish = TRUE, !.usage = {Counts}],
                             Telling(At(sent, "counted"), {Counts}))
  <2> DEFINE c == [OpenAiChunk EXCEPT !.finish = TRUE, !.usage = {Counts}]
             t == Telling(At(sent, "counted"), {Counts})
  <2>1. c.usage = {Counts} /\ c.finish /\ c.tool = {}
    BY DEF OpenAiChunk
  <2>2. t.at = "counted" /\ t.used = sent.used
    BY AtGives
  <2>3. Send(c, t)
    BY <1>4
  <2> HIDE DEF c, t
  <2>4. t.used = sent.used \cup {tool.index : tool \in c.tool}
    BY <2>1, <2>2
  <2>5. Drawn(e, d, p, c, t)
    BY <1>1, <1>4, <2>1, <2>2, <2>4, OpenAiChunkDrawn
  <2>6. QED BY <2>3, <2>5
<1>5. CASE sent.at = "finished" /\ Send([OpenAiChunk EXCEPT !.choice = FALSE, !.usage = {Counts}],
                                        Telling(At(sent, "counted"), {Counts}))
  <2> DEFINE c == [OpenAiChunk EXCEPT !.choice = FALSE, !.usage = {Counts}]
             t == Telling(At(sent, "counted"), {Counts})
             b == p.blocks
             m == MessageDelta(FALSE, Counts)
  <2>1. c.usage = {Counts} /\ ~c.finish /\ c.tool = {} /\ ~c.choice /\ ~c.reasoning /\ ~c.content
    BY DEF OpenAiChunk
  <2>2. t.at = "counted"
    BY AtGives
  <2>3. Send(c, t)
    BY <1>5
  <2> HIDE DEF c, t
  <2>4. ReadBy(e, d, c).out = <<m>>
    BY <1>5, <2>1, OpenAiCountsSaid
  <2>5. p \in Tallies /\ Clear(b) /\ p.stage = "over" /\ p = Scene(p.stage, b) /\ b \in Boards
    BY <1>5, TallySplit DEF OnBoard
  <2>6. Counts \in Usage
    BY UsagesTyped
  <2>7. Run(Tally(e), Scene("over", b), <<m>>, Scene("over", b))
    <3> HIDE DEF b
    <3>1. QED BY <2>5, <2>6, StopReason
  <2>8. Run(Tally(e), p, ReadBy(e, d, c).out, Scene("over", b))
    BY <2>4, <2>5, <2>7
  <2> HIDE DEF e, b
  <2>9. Drawn(e, d, p, c, t)
    BY <2>2, <2>5, <2>8, DrawnAtEnd
  <2>10. QED BY <2>3, <2>9 DEF e
<1>6. CASE Streaming /\ Send([OpenAiChunk EXCEPT !.choice = FALSE], At(sent, "failed"))
  <2> DEFINE c == [OpenAiChunk EXCEPT !.choice = FALSE]
             t == At(sent, "failed")
  <2>1. c.usage = {} /\ ~c.finish /\ c.tool = {}
    BY DEF OpenAiChunk
  <2>2. t.at = "failed" /\ t.used = sent.used
    BY AtGives
  <2>3. Send(c, t)
    BY <1>6
  <2> HIDE DEF c, t
  <2>4. t.used = sent.used \cup {tool.index : tool \in c.tool}
    BY <2>1, <2>2
  <2>5. Drawn(e, d, p, c, t)
    BY <1>1, <1>6, <2>1, <2>2, <2>4, OpenAiChunkDrawn
  <2>6. QED BY <2>3, <2>5
<1> HIDE DEF e
<1>7. QED BY <1>3, <1>4, <1>5, <1>6 DEF OpenAiSends, e

-----------------------------------------------------------------------------
(* Responses *)

\* The stream with an item more, or with the kind of one settled.
Adding(s, i, k, t) ==
  /\ t.used = s.used \cup {i} /\ DOMAIN t.open = DOMAIN s.open \cup {i} /\ t.open[i] = k
  /\ \A j \in DOMAIN s.open : j # i => t.open[j] = s.open[j]

\* The stream with an item done, or its text.
Dropping(s, i, t) ==
  /\ t.used = s.used
  /\ \A j \in DOMAIN s.open : j # i => t.open[j] = s.open[j]
  /\ \/ DOMAIN t.open = DOMAIN s.open \ {i}
     \/ DOMAIN t.open = DOMAIN s.open /\ s.open[i] = "text" /\ t.open[i] = "said"

\* A reader at its cap lets the item pass.
LEMMA PassesOver ==
  ASSUME NEW s, NEW d, NEW b, OnResponses(s, d, b), NEW i \in 0 .. MaxOpenTools - 1, i \notin DOMAIN b,
         NEW k, NEW t, Adding(s, i, k, t)
  PROVE  OnResponses(t, d, b)
<1>1. /\ DOMAIN t.open \subseteq t.used /\ t.used \subseteq 0 .. MaxOpenTools - 1
      /\ DOMAIN b \subseteq t.used /\ DOMAIN d.tools \cup d.texts \subseteq DOMAIN t.open
  BY DEF OnResponses, Adding
<1>2. i \notin DOMAIN d.tools \cup d.texts
  BY DEF OnResponses
<1>3. \A j \in DOMAIN d.tools : /\ j \in DOMAIN b /\ b[j] = t.open[j]
                                /\ t.open[j] \in {"tool", "thinking"}
  BY <1>2 DEF OnResponses, Adding
<1>4. \A j \in d.texts : j \in DOMAIN b /\ t.open[j] = "text" /\ b[j] = "text"
  BY <1>2 DEF OnResponses, Adding
<1>5. \A j \in DOMAIN t.open : \/ j \in DOMAIN d.tools \cup d.texts
                               \/ t.open[j] = "said" \/ j \notin DOMAIN b
  BY DEF OnResponses, Adding
<1>6. \A j \in DOMAIN b : b[j] = "done" \/ j \in DOMAIN d.tools \cup d.texts
  BY DEF OnResponses
<1>7. QED BY <1>1, <1>3, <1>4, <1>5, <1>6 DEF OnResponses

\* A reader with room takes it up.
LEMMA TakesUp ==
  ASSUME NEW s, NEW d, NEW b \in Boards, OnResponses(s, d, b), NEW i \in 0 .. MaxOpenTools - 1,
         i \notin DOMAIN b, NEW k \in Blocks, NEW t, Adding(s, i, k, t), NEW o,
         \/ k # "text" /\ DOMAIN o.tools = DOMAIN d.tools \cup {i} /\ o.texts = d.texts
         \/ k = "text" /\ DOMAIN o.tools = DOMAIN d.tools /\ o.texts = d.texts \cup {i}
  PROVE  /\ Draws("responses", b, <<BlockStart(i, k)>>, Put(b, i, k))
         /\ OnResponses(t, o, Put(b, i, k))
<1> DEFINE c == Put(b, i, k)
<1>0. i \in Nat /\ MaxOpenTools \in Nat
  BY CapIsPositive
<1>1. Draws("responses", b, <<BlockStart(i, k)>>, c)
  <2> HIDE DEF c
  <2>1. Draws("responses", b, <<BlockStart(i, k)>>, Put(b, i, k))
    BY <1>0, StartDraws
  <2>2. QED BY <2>1 DEF c
<1>2. DOMAIN c = DOMAIN b \cup {i} /\ c[i] = k /\ \A j \in DOMAIN b : c[j] = b[j]
  BY DEF Put
<1> HIDE DEF c
<1>3. /\ DOMAIN t.open \subseteq t.used /\ t.used \subseteq 0 .. MaxOpenTools - 1
      /\ DOMAIN c \subseteq t.used
  BY <1>2 DEF OnResponses, Adding
<1>4. DOMAIN o.tools \cup o.texts = DOMAIN d.tools \cup d.texts \cup {i}
  OBVIOUS
<1>5. DOMAIN o.tools \cup o.texts \subseteq DOMAIN t.open
  BY <1>4 DEF OnResponses, Adding
<1>6. i \notin DOMAIN d.tools \cup d.texts
  BY DEF OnResponses
<1>7. \A j \in DOMAIN d.tools : /\ j \in DOMAIN c /\ c[j] = t.open[j]
                                /\ t.open[j] \in {"tool", "thinking"}
  BY <1>2, <1>6 DEF OnResponses, Adding
<1>8. \A j \in d.texts : j \in DOMAIN c /\ t.open[j] = "text" /\ c[j] = "text"
  BY <1>2, <1>6 DEF OnResponses, Adding
<1>9. i \in DOMAIN c /\ c[i] = t.open[i] /\ t.open[i] = k
  BY <1>2 DEF Adding
<1>10. \A j \in DOMAIN t.open : \/ j \in DOMAIN o.tools \cup o.texts
                                \/ t.open[j] = "said" \/ j \notin DOMAIN c
  BY <1>2, <1>4 DEF OnResponses, Adding
<1>11. \A j \in DOMAIN c : c[j] = "done" \/ j \in DOMAIN o.tools \cup o.texts
  BY <1>2, <1>4 DEF OnResponses
<1>12. /\ \A j \in DOMAIN o.tools : /\ j \in DOMAIN c /\ c[j] = t.open[j]
                                    /\ t.open[j] \in {"tool", "thinking"}
       /\ \A j \in o.texts : j \in DOMAIN c /\ t.open[j] = "text" /\ c[j] = "text"
  BY <1>7, <1>8, <1>9 DEF Blocks
<1>13. OnResponses(t, o, c)
  BY <1>3, <1>5, <1>10, <1>11, <1>12 DEF OnResponses
<1>14. QED BY <1>1, <1>13 DEF c

\* An item is opened, if there is room for it.
LEMMA ItemOpenedDraws ==
  ASSUME NEW s, NEW d, Sound("responses", d), NEW b \in Boards, OnResponses(s, d, b),
         NEW i \in 0 .. MaxOpenTools - 1, i \notin DOMAIN b, NEW k \in {"tool", "thinking"},
         NEW t, Adding(s, i, k, t)
  PROVE  LET a == ItemOpened(d, i, k)
         IN  \E c : /\ Draws("responses", b, a.out, c) /\ OnResponses(t, a.st, c)
                    /\ HoldsItem(a.st, i) => i \in DOMAIN c /\ c[i] = k
                    /\ ~HoldsText(a.st, i)
<1> DEFINE w == WithTool(d, i, i)
           x == <<BlockStart(i, k)>>
           a == ItemOpened(d, i, k)
           c == Put(b, i, k)
<1>1. ~HoldsItem(d, i) /\ ~HoldsText(d, i)
  BY DEF OnResponses, HoldsItem, HoldsText
<1>2. a = IF Room(d) THEN Says(w, x) ELSE Silent(d)
  BY <1>1 DEF ItemOpened
<1> HIDE DEF a
<1>3. CASE ~Room(d)
  <2>1. a.st = d /\ a.out = <<>>
    BY <1>2, <1>3 DEF Silent, Says
  <2>2. Draws("responses", b, <<>>, b) /\ OnResponses(t, d, b)
    BY DrawsNothing, PassesOver
  <2>3. QED BY <1>1, <2>1, <2>2 DEF a
<1>4. CASE Room(d)
  <2>1. a.st = w /\ a.out = x
    BY <1>2, <1>4 DEF Says
  <2>2. DOMAIN w.tools = DOMAIN d.tools \cup {i} /\ w.texts = d.texts
    <3>1. i \in Nat /\ i \notin DOMAIN d.tools /\ ToolCount(d) + Cardinality(d.texts) < MaxOpenTools
      BY <1>1, <1>4, CapIsPositive DEF HoldsItem, Room, ItemsOpen
    <3>2. Sound("responses", d)
      OBVIOUS
    <3>3. DOMAIN w.tools = DOMAIN d.tools \cup {i} /\ Beside(d, w)
      BY <3>1, <3>2, ToolGives
    <3> HIDE DEF w
    <3>4. QED BY <3>3 DEF Beside
  <2> HIDE DEF w
  <2>3. k \in Blocks /\ k # "text"
    BY DEF Blocks
  <2>4. Draws("responses", b, x, c) /\ OnResponses(t, w, c)
    BY <2>2, <2>3, TakesUp
  <2>5. i \in DOMAIN c /\ c[i] = k
    BY DEF Put
  <2>6. ~HoldsText(w, i)
    BY <1>1, <2>2 DEF HoldsText
  <2> HIDE DEF c, x
  <2>7. QED BY <2>1, <2>4, <2>5, <2>6 DEF a
<1>5. QED BY <1>3, <1>4

\* A text is opened, if there is room for it.
LEMMA TextOpenedDraws ==
  ASSUME NEW s, NEW d, Sound("responses", d), NEW b \in Boards, OnResponses(s, d, b),
         NEW i \in 0 .. MaxOpenTools - 1, i \notin DOMAIN b, NEW t, Adding(s, i, "text", t)
  PROVE  LET a == TextOpened(d, i)
         IN  \E c : /\ Draws("responses", b, a.out, c) /\ OnResponses(t, a.st, c)
                    /\ HoldsText(a.st, i) => i \in DOMAIN c /\ c[i] = "text"
                    /\ Room(d) => HoldsText(a.st, i)
<1> DEFINE X == d.texts \cup {i}
           o == [d EXCEPT !.texts = X]
           x == <<BlockStart(i, "text")>>
           a == TextOpened(d, i)
           c == Put(b, i, "text")
<1>1. ~HoldsText(d, i)
  BY DEF OnResponses, HoldsText
<1>2. a = IF Room(d) THEN Says(o, x) ELSE Silent(d)
  BY <1>1 DEF TextOpened
<1> HIDE DEF a
<1>3. CASE ~Room(d)
  <2>1. a.st = d /\ a.out = <<>>
    BY <1>2, <1>3 DEF Silent, Says
  <2>2. Draws("responses", b, <<>>, b) /\ OnResponses(t, d, b)
    BY DrawsNothing, PassesOver
  <2>3. QED BY <1>1, <1>3, <2>1, <2>2 DEF a
<1>4. CASE Room(d)
  <2>1. a.st = o /\ a.out = x
    BY <1>2, <1>4 DEF Says
  <2>2. o.tools = d.tools /\ o.texts = X
    <3>1. d \in Memory
      BY DEF Sound
    <3> HIDE DEF X
    <3>2. QED BY <3>1 DEF Memory
  <2> HIDE DEF o
  <2>3. "text" \in Blocks
    BY DEF Blocks
  <2>4. Draws("responses", b, x, c) /\ OnResponses(t, o, c)
    BY <2>2, <2>3, TakesUp
  <2>5. i \in DOMAIN c /\ c[i] = "text"
    BY DEF Put
  <2>6. HoldsText(o, i)
    BY <2>2 DEF HoldsText
  <2> HIDE DEF c, x
  <2>7. QED BY <2>1, <2>4, <2>5, <2>6 DEF a
<1>5. QED BY <1>3, <1>4

\* An item that is done, or its text, stops its block, if it has one.
LEMMA ItemDoneDraws ==
  ASSUME NEW s, NEW d, Sound("responses", d), NEW b \in Boards, OnResponses(s, d, b),
         NEW i \in DOMAIN s.open, NEW t, Dropping(s, i, t)
  PROVE  \E c : Draws("responses", b, ItemDone(d, i).out, c) /\ OnResponses(t, ItemDone(d, i).st, c)
<1> DEFINE o == ItemDone(d, i).st
           ev == BlockStop(i)
           held == HoldsItem(d, i) \/ HoldsText(d, i)
           c == IF held THEN Put(b, i, "done") ELSE b
           X == d.texts \ {i}
<1>1. d \in Memory
  BY DEF Sound
<1>2. HoldsItem(d, i) => i \notin d.texts
  BY DEF OnResponses, HoldsItem
<1>3. ItemDone(d, i).out = IF held THEN <<ev>> ELSE <<>>
  <2>1. CASE HoldsItem(d, i)
    <3> DEFINE w == WithoutTool(d, i)
    <3>1. ItemDone(d, i) = Says(w, <<ev>>)
      BY Zenon, <2>1 DEF ItemDone
    <3> HIDE DEF w
    <3>2. ItemDone(d, i).out = <<ev>>
      BY <3>1 DEF Says
    <3>3. QED BY <2>1, <3>2
  <2>2. CASE ~HoldsItem(d, i)
    <3> DEFINE w == [d EXCEPT !.texts = X]
               z == Only(HoldsText(d, i), ev)
    <3>1. ItemDone(d, i) = Says(w, z)
      BY Zenon, <2>2 DEF ItemDone
    <3>2. z = IF held THEN <<ev>> ELSE <<>>
      BY <2>2 DEF Only
    <3> HIDE DEF w, z
    <3>3. ItemDone(d, i).out = z
      BY <3>1 DEF Says
    <3>4. QED BY <3>2, <3>3
  <2>3. QED BY <2>1, <2>2
<1>4. DOMAIN o.tools = DOMAIN d.tools \ {i} /\ o.texts = X
  <2>1. CASE HoldsItem(d, i)
    <3> DEFINE m == [j \in DOMAIN d.tools \ {i} |-> d.tools[j]]
               w == [d EXCEPT !.tools = m]
    <3>1. o = w
      BY Zenon, <2>1 DEF ItemDone, Says, WithoutTool
    <3>2. DOMAIN m = DOMAIN d.tools \ {i}
      OBVIOUS
    <3> HIDE DEF m, o
    <3>3. w.tools = m /\ w.texts = d.texts
      BY <1>1 DEF Memory
    <3> HIDE DEF w
    <3>4. X = d.texts
      BY <1>2, <2>1
    <3>5. QED BY <3>1, <3>2, <3>3, <3>4
  <2>2. CASE ~HoldsItem(d, i)
    <3> DEFINE w == [d EXCEPT !.texts = X]
    <3>1. o = w
      BY Zenon, <2>2 DEF ItemDone, Says
    <3> HIDE DEF X, o
    <3>2. w.tools = d.tools /\ w.texts = X
      BY <1>1 DEF Memory
    <3> HIDE DEF w
    <3>3. DOMAIN d.tools = DOMAIN d.tools \ {i}
      BY <2>2 DEF HoldsItem
    <3>4. QED BY <3>1, <3>2, <3>3
  <2>3. QED BY <2>1, <2>2
<1> HIDE DEF o
<1>5. held => i \in DOMAIN b /\ b[i] # "done"
  BY DEF OnResponses, HoldsItem, HoldsText
<1>6. Draws("responses", b, ItemDone(d, i).out, c)
  <2>1. CASE held
    <3>1. Holding(b, i)
      BY <1>5, <2>1 DEF Holding
    <3>2. Draws("responses", b, <<ev>>, Put(b, i, "done"))
      BY <3>1, StopDraws
    <3>3. QED BY <1>3, <2>1, <3>2
  <2>2. CASE ~held
    BY <1>3, <2>2, DrawsNothing
  <2>3. QED BY <2>1, <2>2
<1>7. /\ DOMAIN c = DOMAIN b /\ \A j \in DOMAIN b : j # i => c[j] = b[j]
      /\ i \in DOMAIN b => c[i] = "done"
  <2>1. CASE held
    BY <1>5, <2>1 DEF Put
  <2>2. CASE ~held
    BY <2>2 DEF OnResponses, HoldsItem, HoldsText
  <2>3. QED BY <2>1, <2>2
<1> HIDE DEF c, held
<1>8. /\ DOMAIN t.open \subseteq t.used /\ t.used \subseteq 0 .. MaxOpenTools - 1
      /\ DOMAIN c \subseteq t.used /\ DOMAIN o.tools \cup o.texts \subseteq DOMAIN t.open
  BY <1>4, <1>7 DEF OnResponses, Dropping
<1>9. \A j \in DOMAIN o.tools : /\ j \in DOMAIN c /\ c[j] = t.open[j]
                                /\ t.open[j] \in {"tool", "thinking"}
  <2>1. ASSUME NEW j \in DOMAIN d.tools, j # i
        PROVE  j \in DOMAIN c /\ c[j] = t.open[j] /\ t.open[j] \in {"tool", "thinking"}
    <3>1. j \in DOMAIN b /\ j \in DOMAIN s.open /\ b[j] = s.open[j] /\ s.open[j] \in {"tool", "thinking"}
      BY <2>1 DEF OnResponses
    <3>2. t.open[j] = s.open[j]
      BY <2>1, <3>1 DEF Dropping
    <3>3. QED BY <1>7, <2>1, <3>1, <3>2
  <2>2. QED BY <1>4, <2>1
<1>10. \A j \in o.texts : j \in DOMAIN c /\ t.open[j] = "text" /\ c[j] = "text"
  <2>1. ASSUME NEW j \in d.texts, j # i
        PROVE  j \in DOMAIN c /\ t.open[j] = "text" /\ c[j] = "text"
    <3>1. j \in DOMAIN b /\ j \in DOMAIN s.open /\ s.open[j] = "text" /\ b[j] = "text"
      BY <2>1 DEF OnResponses
    <3>2. t.open[j] = s.open[j]
      BY <2>1, <3>1 DEF Dropping
    <3>3. QED BY <1>7, <2>1, <3>1, <3>2
  <2>2. QED BY <1>4, <2>1
<1>11. \A j \in DOMAIN c : c[j] = "done" \/ j \in DOMAIN o.tools \cup o.texts
  <2>1. ASSUME NEW j \in DOMAIN b, j # i PROVE c[j] = "done" \/ j \in DOMAIN o.tools \cup o.texts
    BY <1>4, <1>7, <2>1 DEF OnResponses
  <2>2. QED BY <1>7, <2>1
<1>12. \A j \in DOMAIN t.open : \/ j \in DOMAIN o.tools \cup o.texts
                                \/ t.open[j] = "said" \/ j \notin DOMAIN c
  <2>1. ASSUME NEW j \in DOMAIN t.open, j # i
        PROVE  \/ j \in DOMAIN o.tools \cup o.texts
               \/ t.open[j] = "said" \/ j \notin DOMAIN c
    <3>1. j \in DOMAIN s.open /\ t.open[j] = s.open[j]
      BY <2>1 DEF Dropping
    <3>2. j \in DOMAIN d.tools \cup d.texts \/ s.open[j] = "said" \/ j \notin DOMAIN b
      BY <3>1 DEF OnResponses
    <3>3. QED BY <1>4, <1>7, <2>1, <3>1, <3>2
  <2>2. i \in DOMAIN t.open => t.open[i] = "said"
    BY DEF Dropping
  <2>3. QED BY <2>1, <2>2
<1>13. OnResponses(t, o, c)
  BY <1>8, <1>9, <1>10, <1>11, <1>12 DEF OnResponses
<1>14. QED BY <1>6, <1>13 DEF o

\* Events of a run of them.
LEMMA DrawsMore ==
  ASSUME NEW e, NEW a, NEW b, NEW c, NEW s, NEW ev, Draws(e, a, s, b), Draws(e, b, <<ev>>, c)
  PROVE  Draws(e, a, Append(s, ev), c)
<1>1. Append(s, ev) = s \o <<ev>>
  BY DEF Draws
<1>2. QED BY <1>1, DrawsBoth

\* A frame that finds an item open leaves the blocks as they are, and one
\* that takes up an item that found no room earlier begins its block.
LEMMA DeltaAdds ==
  ASSUME NEW s, NEW d, NEW b, OnResponses(s, d, b), NEW i \in DOMAIN s.open, NEW k \in Blocks,
         s.open[i] = k
  PROVE  /\ i \in 0 .. MaxOpenTools - 1
         /\ i \notin DOMAIN b => Adding(s, i, k, s)
         /\ i \in DOMAIN b => b[i] = k
         /\ i \in DOMAIN b <=> HoldsItem(d, i) \/ HoldsText(d, i)
         /\ HoldsText(d, i) <=> i \in DOMAIN b /\ k = "text"
<1>1. k # "said"
  BY DEF Blocks
<1>2. i \in s.used /\ i \in 0 .. MaxOpenTools - 1
  BY DEF OnResponses
<1>3. s.used = s.used \cup {i} /\ DOMAIN s.open = DOMAIN s.open \cup {i}
  BY <1>2
<1>4. i \in DOMAIN b <=> HoldsItem(d, i) \/ HoldsText(d, i)
  BY <1>1 DEF OnResponses, HoldsItem, HoldsText
<1>5. i \in DOMAIN b => b[i] = k
  BY <1>4 DEF OnResponses, HoldsItem, HoldsText
<1>6. HoldsText(d, i) <=> i \in DOMAIN b /\ k = "text"
  BY <1>4 DEF OnResponses, HoldsItem, HoldsText
<1>7. QED BY <1>2, <1>3, <1>4, <1>5, <1>6 DEF Adding

\* Reasoning is extended, and begun if it has to be.
LEMMA ReasoningDraws ==
  ASSUME NEW s, NEW d, Sound("responses", d), NEW b \in Boards, OnResponses(s, d, b),
         NEW i \in DOMAIN s.open, s.open[i] = "thinking"
  PROVE  \E c : /\ Draws("responses", b, ReasoningDelta(d, i).out, c)
                /\ OnResponses(s, ReasoningDelta(d, i).st, c)
<1> DEFINE k == "thinking"
           a == ItemOpened(d, i, k)
           o == ReasoningDelta(d, i)
           x == BlockDelta(i, k)
           y == Append(a.out, x)
<1>1. k \in Blocks /\ k \in {"tool", "thinking"} /\ k = OfKind(k) /\ k # "text"
  BY DEF Blocks, OfKind
<1>2. /\ i \in 0 .. MaxOpenTools - 1 /\ (i \notin DOMAIN b => Adding(s, i, k, s))
      /\ (i \in DOMAIN b => b[i] = k)
      /\ (i \in DOMAIN b <=> HoldsItem(d, i) \/ HoldsText(d, i)) /\ ~HoldsText(d, i)
  BY <1>1, DeltaAdds
<1>3. PICK c : /\ Draws("responses", b, a.out, c) /\ OnResponses(s, a.st, c)
               /\ (HoldsItem(a.st, i) => i \in DOMAIN c /\ c[i] = k) /\ ~HoldsText(a.st, i)
  <2>1. CASE i \in DOMAIN b
    <3>1. a = Silent(d)
      BY <1>2, <2>1 DEF ItemOpened
    <3>2. a.st = d /\ a.out = <<>>
      BY <3>1 DEF Silent, Says
    <3> HIDE DEF a
    <3>3. QED BY <1>2, <2>1, <3>2, DrawsNothing
  <2>2. CASE i \notin DOMAIN b
    <3> HIDE DEF k
    <3>1. Adding(s, i, k, s)
      BY <1>2, <2>2
    <3>2. QED BY <1>1, <1>2, <2>2, <3>1, ItemOpenedDraws
  <2>3. QED BY <2>1, <2>2
<1>4. o = IF HoldsItem(a.st, i) \/ HoldsText(a.st, i) THEN Says(a.st, y) ELSE Silent(d)
  BY Zenon DEF ReasoningDelta
<1> HIDE DEF a, o, y
<1>5. CASE HoldsItem(a.st, i)
  <2>1. o.st = a.st /\ o.out = y
    BY <1>4, <1>5 DEF Says
  <2>2. Draws("responses", c, <<x>>, c)
    <3>1. i \in DOMAIN c /\ c[i] = OfKind(k) /\ c \in Boards
      BY <1>1, <1>3, <1>5 DEF Draws
    <3> HIDE DEF k
    <3>2. QED BY <1>1, <3>1, DeltaDraws
  <2> HIDE DEF x
  <2>3. Draws("responses", b, Append(a.out, x), c)
    BY <1>3, <2>2, DrawsMore
  <2>4. QED BY <1>3, <2>1, <2>3 DEF y, o
<1>6. CASE ~HoldsItem(a.st, i)
  <2>1. o.st = d /\ o.out = <<>>
    BY <1>3, <1>4, <1>6 DEF Silent, Says
  <2>2. QED BY <2>1, DrawsNothing DEF o
<1>7. QED BY <1>5, <1>6

\* Text too.
LEMMA TextDeltaDraws ==
  ASSUME NEW s, NEW d, Sound("responses", d), NEW b \in Boards, OnResponses(s, d, b),
         NEW i \in DOMAIN s.open, s.open[i] = "text"
  PROVE  \E c : /\ Draws("responses", b, TextDelta(d, i).out, c)
                /\ OnResponses(s, TextDelta(d, i).st, c)
<1> DEFINE k == "text"
           a == TextOpened(d, i)
           o == TextDelta(d, i)
           x == BlockDelta(i, k)
           y == Append(a.out, x)
<1>1. k \in Blocks /\ k = OfKind(k)
  BY DEF Blocks, OfKind
<1>2. /\ i \in 0 .. MaxOpenTools - 1 /\ (i \notin DOMAIN b => Adding(s, i, k, s))
      /\ (i \in DOMAIN b => b[i] = k)
      /\ (i \in DOMAIN b <=> HoldsItem(d, i) \/ HoldsText(d, i))
      /\ (HoldsText(d, i) <=> i \in DOMAIN b)
  BY <1>1, DeltaAdds
<1>3. ~HoldsItem(d, i)
  BY DEF OnResponses, HoldsItem
<1>4. PICK c : /\ Draws("responses", b, a.out, c) /\ OnResponses(s, a.st, c)
               /\ (HoldsText(a.st, i) => i \in DOMAIN c /\ c[i] = k)
  <2>1. CASE i \in DOMAIN b
    <3>1. a = Silent(d)
      BY <1>2, <2>1 DEF TextOpened
    <3>2. a.st = d /\ a.out = <<>>
      BY <3>1 DEF Silent, Says
    <3> HIDE DEF a
    <3>3. QED BY <1>2, <2>1, <3>2, DrawsNothing
  <2>2. CASE i \notin DOMAIN b
    <3>1. Adding(s, i, "text", s)
      BY <1>2, <2>2
    <3>2. QED BY <1>2, <2>2, <3>1, TextOpenedDraws
  <2>3. QED BY <2>1, <2>2
<1>5. o = IF HoldsText(a.st, i) THEN Says(a.st, y) ELSE Silent(d)
  BY Zenon, <1>3 DEF TextDelta
<1> HIDE DEF a, o, y
<1>6. CASE HoldsText(a.st, i)
  <2>1. o.st = a.st /\ o.out = y
    BY <1>5, <1>6 DEF Says
  <2>2. Draws("responses", c, <<x>>, c)
    <3>1. i \in DOMAIN c /\ c[i] = OfKind(k) /\ c \in Boards
      BY <1>1, <1>4, <1>6 DEF Draws
    <3> HIDE DEF k
    <3>2. QED BY <1>1, <3>1, DeltaDraws
  <2> HIDE DEF x
  <2>3. Draws("responses", b, Append(a.out, x), c)
    BY <1>4, <2>2, DrawsMore
  <2>4. QED BY <1>4, <2>1, <2>3 DEF y, o
<1>7. CASE ~HoldsText(a.st, i)
  <2>1. o.st = d /\ o.out = <<>>
    BY <1>5, <1>7 DEF Silent, Says
  <2>2. QED BY <2>1, DrawsNothing DEF o
<1>8. QED BY <1>6, <1>7

\* And arguments, of a tool that is held.
LEMMA ArgumentsDraw ==
  ASSUME NEW s, NEW d, NEW b \in Boards, OnResponses(s, d, b),
         NEW i \in DOMAIN s.open, s.open[i] = "tool"
  PROVE  \E c : /\ Draws("responses", b, ArgumentsDelta(d, i).out, c)
                /\ OnResponses(s, ArgumentsDelta(d, i).st, c)
<1> DEFINE k == "tool"
           o == ArgumentsDelta(d, i)
           x == <<BlockDelta(i, k)>>
<1>1. k \in Blocks /\ k = OfKind(k)
  BY DEF Blocks, OfKind
<1>2. o = IF HoldsItem(d, i) THEN Says(d, x) ELSE Silent(d)
  BY DEF ArgumentsDelta
<1> HIDE DEF o
<1>3. CASE HoldsItem(d, i)
  <2>1. o.st = d /\ o.out = x
    BY <1>2, <1>3 DEF Says
  <2>2. i \in DOMAIN b /\ b[i] = OfKind(k)
    BY <1>1, <1>3 DEF OnResponses, HoldsItem
  <2>3. Draws("responses", b, x, b)
    <3> HIDE DEF k
    <3>1. QED BY <1>1, <2>2, DeltaDraws
  <2>4. QED BY <2>1, <2>3 DEF o
<1>4. CASE ~HoldsItem(d, i)
  <2>1. o.st = d /\ o.out = <<>>
    BY <1>2, <1>4 DEF Silent, Says
  <2>2. QED BY <2>1, DrawsNothing DEF o
<1>5. QED BY <1>3, <1>4

\* At the end every block that is open is stopped.
LEMMA CloseDraws ==
  ASSUME NEW s, NEW d, Sound("responses", d), NEW b \in Boards, OnResponses(s, d, b)
  PROVE  \E c : Draws("responses", b, CloseOpenBlocks(d).out, c) /\ Clear(c)
<1> DEFINE X == DOMAIN d.tools \cup d.texts
           c == Stopped(b, X)
<1>1. X \in SUBSET Nat /\ IsFiniteSet(X)
  <2>1. DOMAIN d.tools \in SUBSET Nat /\ d.texts \in SUBSET Nat
    BY SoundCounts DEF Sound, Memory
  <2>2. IsFiniteSet(DOMAIN d.tools) /\ IsFiniteSet(d.texts)
    BY DEF Sound
  <2>3. QED BY <2>1, <2>2, FS_Union
<1>2. \A i \in X : Holding(b, i)
  BY DEF OnResponses, Holding
<1>3. \A i \in DOMAIN b : b[i] # "done" => i \in X
  BY DEF OnResponses
<1>4. CloseOpenBlocks(d).out = Stops(X)
  BY DEF CloseOpenBlocks, Says
<1> HIDE DEF X
<1>5. Draws("responses", b, Stops(X), c) /\ Clear(c)
  BY <1>1, <1>2, <1>3, StopsDraw, StoppedClear
<1>6. QED BY <1>4, <1>5

\* A refusal is the text of an item that nothing has been said of.
LEMMA RefusedDraws ==
  ASSUME NEW d, Sound("responses", d), NEW b \in Boards, Numbered(sent), OnResponses(sent, d, b),
         NEW r \in {{}} \cup {{i} : i \in NextIndex \cap 0 .. MaxOpenTools - 1},
         SentOK("responses", sent)
  PROVE  \E t, c : /\ Draws("responses", b, Refused(d, r).out, c)
                   /\ OnResponses(t, Refused(d, r).st, c)
<1>1. CASE r = {}
  <2>1. Refused(d, r) = Silent(d)
    BY Zenon, <1>1 DEF Refused
  <2>2. Refused(d, r).st = d /\ Refused(d, r).out = <<>>
    BY <2>1 DEF Silent, Says
  <2>3. QED BY <2>2, DrawsNothing
<1>2. ASSUME NEW i \in NextIndex \cap 0 .. MaxOpenTools - 1, r = {i}
      PROVE  \E t, c : /\ Draws("responses", b, Refused(d, r).out, c)
                       /\ OnResponses(t, Refused(d, r).st, c)
  <2> DEFINE a == TextOpened(d, i)
             o == Refused(d, r)
             x == BlockDelta(i, "text")
             y == Append(a.out, x)
             t == Opening(sent, i, "text")
  <2>1. The(r) = i /\ Clamped(i) = i
    <3>1. The(r) = i
      BY Zenon, <1>2, TheOne
    <3>2. QED BY <3>1, CapIsPositive DEF Clamped, AtMost
  <2>2. o = IF r # {} /\ ~HoldsItem(d, i) /\ ~HoldsText(d, i) /\ Room(d)
            THEN Says(a.st, y) ELSE Silent(d)
    BY Zenon, <2>1 DEF Refused
  <2>3. i \notin sent.used
    BY NextNumber
  <2>4. i \notin DOMAIN b
    BY <2>3 DEF OnResponses
  <2>5. Adding(sent, i, "text", t)
    BY SentChanges DEF Adding
  <2> HIDE DEF t
  <2>6. PICK c : /\ Draws("responses", b, a.out, c) /\ OnResponses(t, a.st, c)
                 /\ (HoldsText(a.st, i) => i \in DOMAIN c /\ c[i] = "text")
                 /\ (Room(d) => HoldsText(a.st, i))
    BY <2>4, <2>5, TextOpenedDraws
  <2> HIDE DEF a, o, y
  <2>7. CASE Room(d) /\ o = Says(a.st, y)
    <3>1. o.st = a.st /\ o.out = y
      BY <2>7 DEF Says
    <3>2. Draws("responses", c, <<x>>, c)
      <4>1. i \in DOMAIN c /\ c[i] = OfKind("text") /\ c \in Boards /\ "text" \in Blocks
        BY <2>6, <2>7 DEF Draws, OfKind, Blocks
      <4>2. QED BY <4>1, DeltaDraws
    <3> HIDE DEF x
    <3>3. Draws("responses", b, Append(a.out, x), c)
      BY <2>6, <3>2, DrawsMore
    <3>4. QED BY <2>6, <3>1, <3>3 DEF y, o
  <2>8. CASE o = Silent(d)
    <3>1. o.st = d /\ o.out = <<>>
      BY <2>8 DEF Silent, Says
    <3>2. QED BY <3>1, DrawsNothing DEF o
  <2>9. QED BY <2>2, <2>7, <2>8
<1>3. QED BY <1>1, <1>2

\* A response that is completed.
LEMMA WellDrawn ==
  ASSUME NEW d, Sound("responses", d), NEW p, OnBoard("responses", sent, d, p), sent.at = "open",
         SentOK("responses", sent), NEW c, ~c.failed, c.final \in BOOLEAN, c.usage \in Counted,
         c.refusal \in {{}} \cup {{i} : i \in NextIndex \cap 0 .. MaxOpenTools - 1},
         NEW t, t.at = "finished", ReadBy("responses", d, c) = ResponseEnded(d, c)
  PROVE  Drawn("responses", d, p, c, t)
<1> DEFINE e == "responses"
           b == p.blocks
           r == Refused(d, c.refusal)
           z == CloseOpenBlocks(r.st)
           x == <<MessageDelta(c.final, Reported(c.usage)), MessageStop>>
           h == r.out \o z.out
<1>1. b \in Boards /\ p = Scene("open", b) /\ Numbered(sent) /\ OnResponses(sent, d, b)
  BY TallySplit DEF OnBoard, Meets
<1>2. c.refusal # {} => The(c.refusal) \in Nat
  <2>1. \A i \in NextIndex \cap 0 .. MaxOpenTools - 1 : The({i}) \in Nat
    BY TheOne, IndicesAreNumbers DEF NextIndex
  <2>2. QED BY <2>1
<1>3. h \in Seq(BlockEvents) /\ ResponseEnded(d, c).out = h \o x
  BY <1>2, EndedWell
<1>4. Sound(e, r.st)
  BY <1>2, RefusedTame DEF Tame
<1>5. \E s, q : Draws(e, b, r.out, q) /\ OnResponses(s, r.st, q)
  BY <1>1, RefusedDraws
<1> HIDE DEF r
<1>6. PICK s, q : Draws(e, b, r.out, q) /\ OnResponses(s, r.st, q)
  BY <1>5
<1>7. q \in Boards
  BY <1>6 DEF Draws
<1>8. PICK u : Draws(e, q, z.out, u) /\ Clear(u)
  BY <1>4, <1>6, <1>7, CloseDraws
<1> HIDE DEF z
<1>9. Draws(e, b, h, u) /\ u \in Boards
  BY <1>6, <1>8, DrawsBoth DEF Draws
<1> HIDE DEF h
<1>10. Run(Tally(e), Scene("open", u), x, Scene("over", u)) /\ x \in Seq(Events)
  BY <1>8, <1>9, BothEnd, ReportedIs
<1> HIDE DEF x
<1>11. Run(Tally(e), Scene("open", b), h \o x, Scene("over", u))
  <2>1. h \in Seq(Events) /\ Run(Tally(e), Scene("open", b), h, Scene("open", u))
    BY <1>9 DEF Draws
  <2>2. QED BY <1>10, <2>1, RunBoth
<1>12. Run(Tally(e), p, ReadBy(e, d, c).out, Scene("over", u))
  BY <1>1, <1>3, <1>11
<1> HIDE DEF e, b
<1>13. Drawn(e, d, p, c, t)
  BY <1>8, <1>9, <1>12, DrawnAtEnd
<1>14. QED BY <1>13 DEF e

\* A response that fails.
LEMMA BadlyDrawn ==
  ASSUME NEW d, Sound("responses", d), NEW p, OnBoard("responses", sent, d, p), sent.at = "open",
         NEW c, c.failed, NEW t, t.at = "failed", ReadBy("responses", d, c) = ResponseEnded(d, c)
  PROVE  Drawn("responses", d, p, c, t)
<1> DEFINE e == "responses"
           b == p.blocks
           z == CloseOpenBlocks(d).out
           s == z \o <<MessageStop>>
<1>1. b \in Boards /\ p = Scene("open", b) /\ OnResponses(sent, d, b)
  BY TallySplit DEF OnBoard, Meets
<1>2. ResponseEnded(d, c).out = <<StreamError>> \o s
  BY EndedBadly
<1>3. PICK u : Draws(e, b, z, u) /\ Clear(u)
  BY <1>1, CloseDraws
<1> HIDE DEF z
<1>4. u \in Boards /\ z \in Seq(Events) /\ Run(Tally(e), Scene("open", b), z, Scene("open", u))
  BY <1>3 DEF Draws
<1>5. Run(Tally(e), Scene("open", u), <<MessageStop>>, Scene("over", u)) /\ <<MessageStop>> \in Seq(Events)
  BY <1>3, <1>4, MessageEnds
<1>6. Run(Tally(e), Scene("open", b), s, Scene("over", u)) /\ s \in Seq(Events)
  <2>1. Run(Tally(e), Scene("open", b), z \o <<MessageStop>>, Scene("over", u))
    BY <1>4, <1>5, RunBoth
  <2>2. z \o <<MessageStop>> \in Seq(Events)
    BY <1>4, <1>5
  <2>3. QED BY <2>1, <2>2
<1>7. /\ Run(Tally(e), Scene("open", b), <<StreamError>>, Scene("open", b))
      /\ <<StreamError>> \in Seq(Events)
  BY <1>1, ErrorDraws DEF Draws
<1> HIDE DEF s
<1>8. Run(Tally(e), Scene("open", b), <<StreamError>> \o s, Scene("over", u))
  BY <1>6, <1>7, RunBoth
<1>9. Run(Tally(e), p, ReadBy(e, d, c).out, Scene("over", u))
  BY <1>1, <1>2, <1>8
<1>10. Scene("over", u) \in Tallies
  BY <1>3, <1>4, SceneTyped
<1> HIDE DEF e, b
<1>11. Drawn(e, d, p, c, t)
  BY <1>9, <1>10, DrawnFailed
<1>12. QED BY <1>11 DEF e

\* An item's frame.
LEMMA ItemDrawn ==
  ASSUME NEW d, NEW p, OnBoard("responses", sent, d, p), sent.at = "open", NEW c, NEW t, t.at = "open",
         Numbered(t), NEW o, ReadBy("responses", d, c) = o,
         \E b : Draws("responses", p.blocks, o.out, b) /\ OnResponses(t, o.st, b)
  PROVE  Drawn("responses", d, p, c, t)
<1> DEFINE e == "responses"
<1>1. p \in Tallies /\ p.stage = "open"
  BY DEF OnBoard
<1>2. PICK b : Draws(e, p.blocks, o.out, b) /\ OnResponses(t, o.st, b)
  OBVIOUS
<1>3. Meets(e, t, ReadBy(e, d, c).st, b)
  BY <1>2 DEF Meets
<1>4. Draws(e, p.blocks, ReadBy(e, d, c).out, b)
  BY <1>2
<1> HIDE DEF e
<1>5. Drawn(e, d, p, c, t)
  BY <1>1, <1>3, <1>4, DrawnInside
<1>6. QED BY <1>5 DEF e

\* An item is done.
LEMMA ClosingEnds ==
  ASSUME SentOK("responses", sent), sent.at = "open", NEW i
  PROVE  LET t == Closing(sent, i)
         IN  /\ t.at = "open" /\ t.used = sent.used /\ DOMAIN t.open = DOMAIN sent.open \ {i}
             /\ \A j \in DOMAIN sent.open \ {i} : t.open[j] = sent.open[j]
<1> DEFINE t == Closing(sent, i)
           q == [j \in DOMAIN sent.open \ {i} |-> sent.open[j]]
<1>1. t = [sent EXCEPT !.open = q]
  BY DEF Closing
<1>2. DOMAIN q = DOMAIN sent.open \ {i} /\ \A j \in DOMAIN sent.open \ {i} : q[j] = sent.open[j]
  OBVIOUS
<1> HIDE DEF t, q
<1>3. t.at = sent.at /\ t.used = sent.used /\ t.open = q
  BY <1>1 DEF SentOK
<1>4. QED BY <1>2, <1>3 DEF t

\* Whatever a Responses backend sends, its reader draws the blocks.
LEMMA ResponsesDrawn ==
  ASSUME egress = "responses", SentOK("responses", sent), NEW d, Ready("responses", sent, d), NEW p,
         OnBoard("responses", sent, d, p), ResponsesSends, Apart("responses", sent'.used)
  PROVE  \E c, t : Send(c, t) /\ Drawn("responses", d, p, c, t)
<1> DEFINE e == "responses"
           b == p.blocks
           Kind(i) == IF sent.open[i] = "said" THEN "text" ELSE sent.open[i]
           Delta(i) == CASE sent.open[i] = "text"     -> "text_delta"
                         [] sent.open[i] = "tool"     -> "arguments_delta"
                         [] sent.open[i] = "thinking" -> "reasoning_delta"
<1>0. \A c : ReadBy(e, d, c) = ResponsesRead(d, c)
  BY DEF ReadBy
<1>a. Sound(e, d)
  BY DEF Ready
<1>b. sent.at = "open" => b \in Boards /\ Numbered(sent) /\ OnResponses(sent, d, b)
  BY TallySplit DEF OnBoard, Meets
<1>c. sent.at = "open" => \A i \in DOMAIN sent.open : i \in 0 .. MaxOpenTools - 1 /\ Clamped(i) = i
  BY <1>b, CapIsPositive DEF OnResponses, Clamped, AtMost
<1>d. sent.at = "open" => \A i \in NextIndex \cap 0 .. MaxOpenTools - 1 :
                            Clamped(i) = i /\ i \notin sent.used /\ i \notin DOMAIN b
  <2>1. SUFFICES ASSUME sent.at = "open", NEW i \in NextIndex \cap 0 .. MaxOpenTools - 1
                 PROVE  Clamped(i) = i /\ i \notin sent.used /\ i \notin DOMAIN b
    OBVIOUS
  <2>2. i \notin sent.used /\ i < MaxOpenTools
    BY <1>b, <2>1, NextNumber, CapIsPositive
  <2>3. Clamped(i) = i
    BY <2>1, CapIsPositive DEF Clamped, AtMost
  <2>4. QED BY <1>b, <2>1, <2>2, <2>3 DEF OnResponses
<1>e. \A i \in NextIndex : sent.at = "open" /\ Apart("responses", sent.used \cup {i}) =>
                            i \in NextIndex \cap 0 .. MaxOpenTools - 1
  BY <1>b, NextNumber, ClampedAsIs
<1>f. \A c, t : Send(c, t) => Apart("responses", t.used)
  BY DEF Send
<1>1. CASE sent.at = "idle" /\ Send([type |-> "created"], At(sent, "open"))
  <2> DEFINE c == [type |-> "created"]
             t == At(sent, "open")
  <2>1. t.at = "open" /\ t.used = sent.used /\ t.open = sent.open /\ t.text = sent.text
    BY AtGives
  <2>2. ResponsesRead(d, c) = Begun(d)
    BY DEF ResponsesRead
  <2> HIDE DEF c, t
  <2>3. Drawn(e, d, p, c, t)
    <3> HIDE DEF e
    <3>1. ReadBy(e, d, c) = Begun(d)
      BY <1>0, <2>2
    <3>2. QED BY <1>1, <2>1, <3>1, BegunDrawn DEF e
  <2>4. QED BY <1>1, <2>3 DEF c, t
<1>2. \A i \in NextIndex, k \in Blocks :
        sent.at = "open" /\ Send([type |-> "item_added", index |-> i, kind |-> k], Opening(sent, i, k))
        => \E c, t : Send(c, t) /\ Drawn(e, d, p, c, t)
  <2> SUFFICES ASSUME NEW i \in NextIndex, NEW k \in Blocks, sent.at = "open",
                      Send([type |-> "item_added", index |-> i, kind |-> k], Opening(sent, i, k))
               PROVE  \E c, t : Send(c, t) /\ Drawn(e, d, p, c, t)
    OBVIOUS
  <2>a. i \in NextIndex \cap 0 .. MaxOpenTools - 1
    <3>1. Opening(sent, i, k).used = sent.used \cup {i}
      BY SentChanges
    <3>2. Apart("responses", Opening(sent, i, k).used)
      BY <1>f
    <3>3. QED BY <1>e, <3>1, <3>2
  <2> DEFINE c == [type |-> "item_added", index |-> i, kind |-> k]
             t == Opening(sent, i, k)
             a == ItemOpened(d, i, k)
  <2>1. ResponsesRead(d, c) = IF k = "text" THEN Silent(d) ELSE a
    <3>1. Clamped(i) = i
      BY <1>d, <2>a
    <3>2. QED BY Zenon, <3>1 DEF ResponsesRead
  <2>2. i \notin DOMAIN b /\ Numbered(t) /\ t.at = "open" /\ Adding(sent, i, k, t)
    <3>1. i \in NextIndex
      OBVIOUS
    <3>2. \E n \in Nat : sent.used \cup {i} = 0 .. n - 1
      BY <1>b, <3>1, NextNumber
    <3>3. t.at = "open" /\ t.used = sent.used \cup {i} /\ Adding(sent, i, k, t)
      BY SentChanges DEF Adding
    <3> HIDE DEF t
    <3>4. QED BY <1>d, <2>a, <3>2, <3>3 DEF Numbered
  <2>3. Send(c, t)
    OBVIOUS
  <2> HIDE DEF c, t
  <2>4. CASE k = "text"
    <3>1. ReadBy(e, d, c) = Silent(d) /\ Silent(d).st = d /\ Silent(d).out = <<>>
      BY <1>0, <2>1, <2>4 DEF Silent, Says
    <3>2. Draws(e, b, <<>>, b) /\ OnResponses(t, d, b)
      BY <1>b, <2>2, <2>a, DrawsNothing, PassesOver
    <3>3. Drawn(e, d, p, c, t)
      BY <2>2, <3>1, <3>2, ItemDrawn
    <3>4. QED BY <2>3, <3>3
  <2>5. CASE k # "text"
    <3>1. ReadBy(e, d, c) = a
      BY <1>0, <2>1, <2>5
    <3>2. k \in {"tool", "thinking"}
      BY <2>5 DEF Blocks
    <3>a. i \in 0 .. MaxOpenTools - 1
      BY <2>a
    <3>3. \E q : Draws(e, b, a.out, q) /\ OnResponses(t, a.st, q)
      <4>1. /\ Sound("responses", d) /\ b \in Boards /\ OnResponses(sent, d, b)
            /\ i \notin DOMAIN b /\ Adding(sent, i, k, t)
        BY <1>a, <1>b, <2>2
      <4> HIDE DEF b, a, e, Kind, Delta
      <4>2. \E q : /\ Draws("responses", b, ItemOpened(d, i, k).out, q)
                   /\ OnResponses(t, ItemOpened(d, i, k).st, q)
        BY <3>2, <3>a, <4>1, ItemOpenedDraws
      <4>3. QED BY <4>2 DEF a, e
    <3> HIDE DEF a
    <3>4. Drawn(e, d, p, c, t)
      BY <2>2, <3>1, <3>3, ItemDrawn
    <3>5. QED BY <2>3, <3>4
  <2>6. QED BY <2>4, <2>5
<1>3. \A i \in DOMAIN sent.open :
        sent.at = "open" /\ sent.open[i] # "said"
        /\ Send([type |-> Delta(i), index |-> i, kind |-> sent.open[i]], sent)
        => \E c, t : Send(c, t) /\ Drawn(e, d, p, c, t)
  <2> SUFFICES ASSUME NEW i \in DOMAIN sent.open, sent.at = "open", sent.open[i] # "said",
                      Send([type |-> Delta(i), index |-> i, kind |-> sent.open[i]], sent)
               PROVE  \E c, t : Send(c, t) /\ Drawn(e, d, p, c, t)
    OBVIOUS
  <2> DEFINE c == [type |-> Delta(i), index |-> i, kind |-> sent.open[i]]
             o == ResponsesRead(d, c)
  <2>1. sent.open[i] \in {"text", "tool", "thinking"}
    BY DEF SentOK, Blocks
  <2>2. Clamped(i) = i
    BY <1>c
  <2>3. c.type = Delta(i) /\ c.index = i /\ Send(c, sent)
    OBVIOUS
  <2> HIDE DEF c
  <2>4. \E q : Draws(e, b, o.out, q) /\ OnResponses(sent, o.st, q)
    <3>1. CASE sent.open[i] = "text"
      <4>1. c.type = "text_delta"
        BY <2>3, <3>1
      <4>2. o = TextDelta(d, i)
        BY <2>2, <2>3, <4>1 DEF ResponsesRead
      <4> HIDE DEF o
      <4>3. QED BY <1>a, <1>b, <3>1, <4>2, TextDeltaDraws
    <3>2. CASE sent.open[i] = "tool"
      <4>1. c.type = "arguments_delta"
        BY <2>3, <3>2
      <4>2. o = ArgumentsDelta(d, i)
        BY <2>2, <2>3, <4>1 DEF ResponsesRead
      <4> HIDE DEF o
      <4>3. QED BY <1>b, <3>2, <4>2, ArgumentsDraw
    <3>3. CASE sent.open[i] = "thinking"
      <4>1. c.type = "reasoning_delta"
        BY <2>3, <3>3
      <4>2. o = ReasoningDelta(d, i)
        BY <2>2, <2>3, <4>1 DEF ResponsesRead
      <4> HIDE DEF o
      <4>3. QED BY <1>a, <1>b, <3>3, <4>2, ReasoningDraws
    <3>4. QED BY <2>1, <3>1, <3>2, <3>3
  <2>5. ReadBy(e, d, c) = o
    BY <1>0
  <2> HIDE DEF o
  <2>6. Drawn(e, d, p, c, sent)
    BY <1>b, <2>4, <2>5, ItemDrawn
  <2>7. QED BY <2>3, <2>6
<1>4. ASSUME sent.at = "open", NEW i \in DOMAIN sent.open, NEW t, NEW k, t.at = "open", Dropping(sent, i, t),
             Send([type |-> "item_done", index |-> i, kind |-> k], t)
      PROVE  \E c, tt : Send(c, tt) /\ Drawn(e, d, p, c, tt)
  <2> DEFINE c == [type |-> "item_done", index |-> i, kind |-> k]
             o == ItemDone(d, i)
  <2>1. ResponsesRead(d, c) = o
    <3>1. Clamped(i) = i
      BY <1>4, <1>c
    <3>2. QED BY Zenon, <3>1 DEF ResponsesRead
  <2>2. Send(c, t)
    BY <1>4
  <2> HIDE DEF c
  <2>3. ReadBy(e, d, c) = o
    BY <1>0, <2>1
  <2>4. \E q : Draws(e, b, o.out, q) /\ OnResponses(t, o.st, q)
    BY <1>a, <1>b, <1>4, ItemDoneDraws
  <2>5. Numbered(t)
    BY <1>b, <1>4 DEF Dropping, Numbered
  <2> HIDE DEF o
  <2>6. Drawn(e, d, p, c, t)
    BY <1>4, <2>3, <2>4, <2>5, ItemDrawn
  <2>7. QED BY <2>2, <2>6
<1>5. \A i \in DOMAIN sent.open :
        sent.at = "open" /\ sent.open[i] = "text"
        /\ Send([type |-> "item_done", index |-> i, kind |-> "text"], [sent EXCEPT !.open[i] = "said"])
        => \E c, t : Send(c, t) /\ Drawn(e, d, p, c, t)
  <2> SUFFICES ASSUME NEW i \in DOMAIN sent.open, sent.at = "open", sent.open[i] = "text",
                      Send([type |-> "item_done", index |-> i, kind |-> "text"],
                           [sent EXCEPT !.open[i] = "said"])
               PROVE  \E c, t : Send(c, t) /\ Drawn(e, d, p, c, t)
    OBVIOUS
  <2> DEFINE o == [sent.open EXCEPT ![i] = "said"]
             t == [sent EXCEPT !.open[i] = "said"]
  <2>1. t.at = sent.at /\ t.used = sent.used /\ t.open = o
    <3>1. t = [sent EXCEPT !.open = o]
      OBVIOUS
    <3> HIDE DEF o
    <3>2. QED BY <3>1 DEF SentOK
  <2>2. /\ DOMAIN o = DOMAIN sent.open /\ o[i] = "said"
        /\ \A j \in DOMAIN sent.open : j # i => o[j] = sent.open[j]
    OBVIOUS
  <2>3. Send([type |-> "item_done", index |-> i, kind |-> "text"], t)
    OBVIOUS
  <2> HIDE DEF o, t
  <2>4. Dropping(sent, i, t)
    BY <2>1, <2>2 DEF Dropping
  <2>5. QED BY <1>4, <2>1, <2>3, <2>4
<1>6. \A i \in DOMAIN sent.open :
        sent.at = "open" /\ Send([type |-> "item_done", index |-> i, kind |-> Kind(i)], Closing(sent, i))
        => \E c, t : Send(c, t) /\ Drawn(e, d, p, c, t)
  <2> SUFFICES ASSUME NEW i \in DOMAIN sent.open, sent.at = "open",
                      Send([type |-> "item_done", index |-> i, kind |-> Kind(i)], Closing(sent, i))
               PROVE  \E c, t : Send(c, t) /\ Drawn(e, d, p, c, t)
    OBVIOUS
  <2> DEFINE t == Closing(sent, i)
  <2>1. /\ t.at = "open" /\ t.used = sent.used /\ DOMAIN t.open = DOMAIN sent.open \ {i}
        /\ \A j \in DOMAIN sent.open \ {i} : t.open[j] = sent.open[j]
    BY ClosingEnds
  <2> HIDE DEF t
  <2>2. Dropping(sent, i, t)
    BY <2>1 DEF Dropping
  <2>3. Send([type |-> "item_done", index |-> i, kind |-> Kind(i)], t)
    BY DEF t
  <2> HIDE DEF Kind
  <2>4. QED BY <1>4, <2>1, <2>2, <2>3
<1>7. \A failed \in BOOLEAN, f \in BOOLEAN, u \in Counted,
         r \in {{}} \cup {{i} : i \in NextIndex} :
        sent.at = "open" /\
        Send([type |-> "ended", failed |-> failed, final |-> f, usage |-> u, refusal |-> r],
             IF failed THEN At(sent, "failed")
             ELSE Telling(At([sent EXCEPT !.used = @ \cup r], "finished"), u))
        => \E c, t : Send(c, t) /\ Drawn(e, d, p, c, t)
  <2> SUFFICES ASSUME NEW failed \in BOOLEAN, NEW f \in BOOLEAN, NEW u \in Counted, sent.at = "open",
                      NEW r \in {{}} \cup {{i} : i \in NextIndex},
                      Send([type |-> "ended", failed |-> failed, final |-> f, usage |-> u, refusal |-> r],
                           IF failed THEN At(sent, "failed")
                           ELSE Telling(At([sent EXCEPT !.used = @ \cup r], "finished"), u))
               PROVE  \E c, t : Send(c, t) /\ Drawn(e, d, p, c, t)
    OBVIOUS
  <2> DEFINE c == [type |-> "ended", failed |-> failed, final |-> f, usage |-> u, refusal |-> r]
             v == [sent EXCEPT !.used = @ \cup r]
             t == IF failed THEN At(sent, "failed") ELSE Telling(At(v, "finished"), u)
  <2>1. ResponsesRead(d, c) = ResponseEnded(d, c)
    BY DEF ResponsesRead
  <2>2. c.failed = failed /\ c.final = f /\ c.usage = u /\ c.refusal = r /\ Send(c, t)
    OBVIOUS
  <2>3. SentOK(e, v) /\ v.used = sent.used \cup r
    <3>1. \A i \in NextIndex : i \in Nat
      BY IndicesAreNumbers DEF NextIndex
    <3>2. r \in SUBSET Nat
      BY <3>1
    <3>3. v = [at |-> sent.at, text |-> sent.text, open |-> sent.open, used |-> sent.used \cup r,
               told |-> sent.told]
      BY DEF SentOK
    <3> HIDE DEF v, e
    <3>4. e = "responses"
      BY DEF e
    <3>5. QED BY <3>2, <3>3, <3>4 DEF SentOK
  <2> HIDE DEF v
  <2>4. t.at = (IF failed THEN "failed" ELSE "finished") /\ (~failed => t.used = sent.used \cup r)
    BY <2>3, AtGives
  <2> HIDE DEF c, t
  <2>5. ReadBy(e, d, c) = ResponseEnded(d, c)
    BY <1>0, <2>1
  <2>6. CASE failed
    <3>1. Drawn(e, d, p, c, t)
      BY <1>a, <2>2, <2>4, <2>5, <2>6, BadlyDrawn
    <3>2. QED BY <2>2, <3>1
  <2>7. CASE ~failed
    <3>1. Apart("responses", sent.used \cup r)
      BY <1>f, <2>2, <2>4, <2>7
    <3>2. r \in {{}} \cup {{i} : i \in NextIndex \cap 0 .. MaxOpenTools - 1}
      <4>1. CASE r = {}
        BY <4>1
      <4>2. ASSUME NEW i \in NextIndex, r = {i}
            PROVE  r \in {{}} \cup {{j} : j \in NextIndex \cap 0 .. MaxOpenTools - 1}
        <5>1. i \in NextIndex \cap 0 .. MaxOpenTools - 1
          BY <1>e, <3>1, <4>2
        <5>2. QED BY <4>2, <5>1
      <4>3. QED BY <4>1, <4>2
    <3>3. Drawn(e, d, p, c, t)
      BY <1>a, <2>2, <2>4, <2>5, <2>7, <3>2, WellDrawn
    <3>4. QED BY <2>2, <3>3
  <2>8. QED BY <2>6, <2>7
<1> HIDE DEF e
<1>8. QED BY <1>1, <1>2, <1>3, <1>5, <1>6, <1>7 DEF ResponsesSends, e

\* Whatever the backend sends, its reader draws the blocks.
LEMMA BackendDrawn ==
  ASSUME SentOK(egress, sent), NEW d, Ready(egress, sent, d), NEW p, OnBoard(egress, sent, d, p),
         BackendSends, Apart(egress, sent'.used)
  PROVE  \E c, t : Send(c, t) /\ Drawn(egress, d, p, c, t)
<1>1. Sound(egress, d)
  BY DEF Ready
<1>2. CASE OpenAiSends
  BY <1>1, <1>2, OpenAiDrawn DEF OpenAiSends
<1>3. CASE GeminiSends
  BY <1>1, <1>3, GeminiDrawn DEF GeminiSends
<1>4. CASE CohereSends
  BY <1>1, <1>4, CohereDrawn DEF CohereSends
<1>5. CASE BedrockSends
  BY <1>1, <1>5, BedrockDrawn DEF BedrockSends
<1>6. CASE ResponsesSends
  BY <1>1, <1>6, ResponsesDrawn DEF ResponsesSends
<1>7. CASE AnthropicSends
  BY <1>1, <1>7, AnthropicDrawn DEF AnthropicSends
<1>8. QED BY <1>2, <1>3, <1>4, <1>5, <1>6, <1>7 DEF BackendSends

-----------------------------------------------------------------------------
(* The blocks of a stream, all along.                                      *)

\* What has been written takes the client from what it has been shown to v.
Views(v) == v \in Boards /\ Run(Showings(egress, ingress), shown, out, v)

\* The blocks told of are what the backend and the reader have of them, or
\* will have when the frame on its way has been read.
Agreed(p) ==
  /\ frame = {} => OnBoard(egress, sent, decode, p)
  /\ \A c \in frame : Drawn(egress, decode, p, c, sent)

\* The blocks of the backend, the reader, the writer and the client are the
\* same, as long as the bytes make sense.
InStep(p, v) ==
  /\ Views(v) /\ Shelved(ingress, p, xlate.writer, v)
  /\ p.stage = "over" => xlate.stopped
  /\ xlate.pending => p.stage # "open"
  /\ Agreed(p)

BlockInv ==
  /\ shown \in Boards /\ \E v : Views(v)
  /\ out \in Seq(Plain) \/ xlate.writer.opened = {}
  /\ body = "flowing" /\ ~xlate.aborted /\ ~Verbatim => \E p \in Tallies : \E v : InStep(p, v)

\* The frames busbar adds of its own say nothing of blocks.
LEMMA AddedStill ==
  /\ {StreamError, Frame("Raw"), Frame("["), Frame("]")} \subseteq Still
  /\ Still \subseteq Plain /\ Still \subseteq AnyFrame
  /\ \A s \in Seq(Still) : s \in Seq(Plain) /\ s \in Seq(AnyFrame)
<1>1. \A f \in {StreamError, Frame("Raw"), Frame("["), Frame("]")} :
        f \in AnyFrame /\ f.type \in {"Error", "Raw", "[", "]"}
  BY FramesTyped, BracketTyped DEF Frame, StreamError
<1>2. {StreamError, Frame("Raw"), Frame("["), Frame("]")} \subseteq Still
  BY <1>1 DEF Still, Mute, Finals
<1>3. Still \subseteq Plain /\ Still \subseteq AnyFrame
  BY DEF Still, Mute, Plain
<1>4. QED BY <1>2, <1>3

\* Nor does the opening of an array, nor its end.
LEMMA ArrayStill ==
  /\ Opened \in Seq(Still)
  /\ \A failed \in BOOLEAN : ArrayEnd(failed) \in Seq(Still)
<1>1. Opened \in {<<>>, <<Frame("[")>>}
  BY Zenon DEF Opened, Only
<1>2. Opened \in Seq(Still)
  BY <1>1, AddedStill, ShortSeqs
<1>3. ASSUME NEW failed \in BOOLEAN PROVE ArrayEnd(failed) \in Seq(Still)
  <2> DEFINE m == Only(failed, StreamError)
             z == <<Frame("]")>>
  <2>1. m \in {<<>>, <<StreamError>>}
    BY Zenon DEF Only
  <2>2. m \in Seq(Still) /\ z \in Seq(Still)
    BY <2>1, AddedStill, ShortSeqs
  <2>3. ArrayEnd(failed) = Opened \o m \o z
    BY DEF ArrayEnd
  <2> HIDE DEF m, z
  <2>4. QED BY <1>2, <2>2, <2>3
<1>4. QED BY <1>2, <1>3

\* Nor does what puts frames into an array.
LEMMA FramedShows ==
  ASSUME NEW v, NEW u, NEW frames \in Seq(Frames), Framed(frames), v \in Boards,
         Run(Showings(egress, ingress), v, frames, u)
  PROVE  /\ Run(Showings(egress, ingress), v, out', u)
         /\ frames \in Seq(Plain) => out' \in Seq(Plain)
<1> DEFINE M == Showings(egress, ingress)
<1>1. out' = IF frames = <<>> THEN <<>> ELSE Opened \o frames
  BY DEF Framed
<1>2. CASE frames = <<>>
  BY <1>1, <1>2
<1>3. CASE frames # <<>>
  <2>1. Run(M, v, Opened, v) /\ Opened \in Seq(AnyFrame) /\ Opened \in Seq(Plain)
    BY ArrayStill, AddedStill, StillShown
  <2>2. frames \in Seq(AnyFrame)
    BY AnySeqs
  <2>3. Run(M, v, Opened \o frames, u)
    BY <2>1, <2>2, RunBoth
  <2>4. QED BY <1>1, <1>3, <2>1, <2>3
<1>4. QED BY <1>2, <1>3

\* A client who has read everything is shown what has been written.
LEMMA AllViewed ==
  ASSUME BlockInv, out = <<>>
  PROVE  \A v : Views(v) <=> v = shown
BY RunNothing DEF BlockInv, Views

\* Before anything has come there are no blocks.
LEMMA BlocksStart == Init => BlockInv
<1> SUFFICES ASSUME Init PROVE BlockInv
  OBVIOUS
<1> DEFINE p == Scene("open", <<>>)
<1>1. /\ shown = <<>> /\ out = <<>> /\ frame = {} /\ decode = Fresh /\ ingress \in Protocols
      /\ sent.at = "idle" /\ sent.used = {} /\ sent.open = <<>> /\ ~sent.text
      /\ xlate.writer = Unwritten /\ xlate.pending = FALSE
  BY DEF Init, Unsent, Idle
<1>2. <<>> \in Boards /\ DOMAIN <<>> = {}
  BY EmptyBoard
<1>3. p \in Tallies /\ p.stage = "open" /\ p.blocks = <<>>
  BY <1>2, SceneTyped
<1>4. Views(<<>>)
  BY <1>1, <1>2, RunNothing DEF Views
<1>5. Unwritten.opened = {} /\ Unwritten.output = {}
  BY DEF Unwritten
<1>6. OnBoard(egress, sent, decode, p)
  BY <1>1, <1>3 DEF OnBoard
<1>7. \A kinds : Listed(<<>>, kinds) = {}
  BY <1>2 DEF Listed
<1> HIDE DEF p
<1>8. Shelved(ingress, p, Unwritten, <<>>)
  BY <1>2, <1>3, <1>5, <1>7 DEF Shelved
<1>9. InStep(p, <<>>)
  BY <1>1, <1>3, <1>4, <1>6, <1>8 DEF InStep, Agreed
<1>10. QED BY <1>1, <1>2, <1>3, <1>4, <1>5, <1>9 DEF BlockInv

\* A backend sends a frame: its reader will draw the blocks.
LEMMA BackendInStep ==
  ASSUME StreamInv, BlockInv, Backend, ~Conflated'
  PROVE  BlockInv'
<1>1. /\ body = "flowing" /\ out = <<>> /\ BackendSends
      /\ ingress' = ingress /\ decode' = decode /\ xlate' = xlate /\ body' = body
      /\ out' = out /\ shown' = shown
  BY DEF Backend, client
<1>2. SentOK(egress, sent) /\ frame = {} /\ egress' = egress
  BY <1>1 DEF StreamInv, StreamTyped, BackendSends, OpenAiSends, GeminiSends, CohereSends, BedrockSends,
              ResponsesSends, AnthropicSends, Send
<1>3. \A v : Views(v) => Views(v)'
  BY <1>1, <1>2 DEF Views
<1>4. (shown \in Boards /\ (\E v : Views(v)) /\ (out \in Seq(Plain) \/ xlate.writer.opened = {}))'
  BY <1>1, <1>3 DEF BlockInv
<1>5. ASSUME ~xlate.aborted, ~Verbatim PROVE (\E p \in Tallies : \E v : InStep(p, v))'
  <2>0. PICK p \in Tallies : \E v : InStep(p, v)
    BY <1>1, <1>5 DEF BlockInv
  <2>1. PICK v : InStep(p, v)
    BY <2>0
  <2>2. OnBoard(egress, sent, decode, p)
    BY <1>2, <2>1 DEF InStep, Agreed
  <2>3. PICK g, q : Reached(g) /\ Hears(q)
    BY <1>1 DEF StreamInv, WhileFlowing
  <2>4. Ready(egress, sent, decode)
    BY <1>2, <1>5, <2>3 DEF Reached
  <2>5. PICK c, t : Send(c, t) /\ Drawn(egress, decode, p, c, t)
    <3>1. Apart(egress, sent'.used)
      BY <1>2 DEF Conflated, Apart
    <3>2. QED BY <1>1, <1>2, <2>2, <2>4, <3>1, BackendDrawn
  <2>6. frame' = {c} /\ sent' = t
    BY <2>5 DEF Send
  <2>7. Agreed(p)'
    BY <1>1, <1>2, <2>5, <2>6 DEF Agreed
  <2>8. InStep(p, v)'
    BY <1>1, <1>3, <2>1, <2>7 DEF InStep
  <2>9. QED BY <2>8
<1>6. QED BY <1>1, <1>2, <1>4, <1>5 DEF BlockInv, Verbatim

\* A frame is read: what is written shows its blocks.
LEMMA FeedInStep ==
  ASSUME StreamInv, BlockInv, Feed
  PROVE  BlockInv'
<1> DEFINE fed == Fed(The(frame))
           frames == IF Verbatim /\ ~xlate.aborted THEN <<Frame("Raw")>> ELSE fed.x.out
<1>1. /\ body = "flowing" /\ frame # {} /\ out = <<>> /\ frame' = {}
      /\ decode' = fed.st /\ xlate' = [fed.x EXCEPT !.out = <<>>] /\ Framed(frames)
      /\ egress' = egress /\ sent' = sent /\ ingress' = ingress /\ body' = body /\ shown' = shown
  BY DEF Feed, client
<1>2. PICK c : frame = {c}
  BY <1>1 DEF StreamInv, StreamTyped
<1>3. The(frame) = c
  BY <1>2 DEF The
<1>4. /\ xlate \in Translator /\ xlate.out = <<>> /\ ingress \in Protocols /\ shown \in Boards
      /\ out \in Seq(Plain) \/ xlate.writer.opened = {}
  BY DEF StreamInv, StreamTyped, BlockInv
<1> HIDE DEF fed, frames
<1>5. ASSUME NEW u \in Boards, frames \in Seq(Frames), Run(Showings(egress, ingress), shown, frames, u),
             fed.x \in Translator
      PROVE  /\ Views(u)' /\ (frames \in Seq(Plain) => out' \in Seq(Plain))
             /\ xlate'.aborted = fed.x.aborted /\ xlate'.writer = fed.x.writer
             /\ xlate'.stopped = fed.x.stopped /\ xlate'.pending = fed.x.pending
  <2>1. /\ Run(Showings(egress, ingress), shown, out', u)
        /\ (frames \in Seq(Plain) => out' \in Seq(Plain))
    BY <1>1, <1>4, <1>5, FramedShows
  <2>2. /\ xlate'.aborted = fed.x.aborted /\ xlate'.writer = fed.x.writer
        /\ xlate'.stopped = fed.x.stopped /\ xlate'.pending = fed.x.pending
    BY <1>1, <1>5 DEF Translator
  <2>3. QED BY <1>1, <1>5, <2>1, <2>2 DEF Views
<1>a. PICK w \in Boards : w = shown
  BY <1>4
<1>6. CASE xlate.aborted
  <2>1. fed = [st |-> decode, x |-> xlate]
    BY <1>6 DEF fed, Fed
  <2>2. fed.x = xlate /\ frames = <<>>
    BY <1>4, <1>6, <2>1 DEF frames
  <2>3. Run(Showings(egress, ingress), shown, <<>>, shown) /\ <<>> \in Seq(Frames) /\ <<>> \in Seq(Plain)
    BY RunNothing, ShortSeqs
  <2>4. /\ frames \in Seq(Frames) /\ frames \in Seq(Plain) /\ fed.x \in Translator /\ fed.x.aborted
        /\ Run(Showings(egress, ingress), shown, frames, w)
    BY <1>4, <1>6, <1>a, <2>2, <2>3
  <2>5. Views(w)' /\ (frames \in Seq(Plain) => out' \in Seq(Plain)) /\ xlate'.aborted = fed.x.aborted
    BY <1>5, <2>4
  <2>6. QED BY <1>1, <1>4, <2>4, <2>5 DEF BlockInv
<1>7. CASE ~xlate.aborted
  <2> DEFINE read == ReadBy(egress, decode, c)
             x == FoldLeft(Translate, xlate, read.out)
  <2>1. fed = [st |-> read.st, x |-> x]
    <3>1. Read(c) = read
      BY DEF Read, ReadBy
    <3>2. Fed(c) = [st |-> Read(c).st, x |-> FoldLeft(Translate, xlate, Read(c).out)]
      BY Zenon, <1>7 DEF Fed
    <3>3. QED BY Zenon, <1>3, <3>1, <3>2 DEF fed
  <2>2. PICK g : /\ Reached(g)
                 /\ ~Verbatim /\ ~xlate.aborted => phase = PhaseAt(ingress, g.at, xlate.emitted)
    BY <1>1, AllHeard
  <2>3. read.out \in Seq(Events)
    BY <1>2, <1>7, <2>2 DEF Reached
  <2>4. Run(Tale, g, read.out, PlaceOf(egress, sent)) /\ g \in Places /\ Told(phase, g, xlate)
    BY <1>2, <1>4, <1>7, <2>2, RunNothing DEF Reached, Told
  <2>5. x \in Translator /\ ~x.aborted
    BY <1>4, <1>7, <2>3, <2>4, FoldLeads
  <2>6. CASE Verbatim
    <3>1. frames = <<Frame("Raw")>> /\ frames \in Seq(Frames) /\ frames \in Seq(Still)
      BY <1>7, <2>6, FramesTyped, AddedStill, ShortSeqs DEF frames
    <3>2. Run(Showings(egress, ingress), shown, frames, w) /\ frames \in Seq(Plain)
      BY <1>4, <1>a, <3>1, StillShown, AddedStill
    <3>3. fed.x \in Translator
      <4> HIDE DEF x
      <4>1. fed.x = x
        BY <2>1
      <4>2. QED BY <2>5, <4>1
    <3>4. Views(w)' /\ (frames \in Seq(Plain) => out' \in Seq(Plain))
      BY <1>5, <3>1, <3>2, <3>3
    <3>5. Verbatim'
      BY <1>1, <2>6 DEF Verbatim
    <3>6. QED BY <1>1, <1>4, <3>2, <3>4, <3>5 DEF BlockInv
  <2>7. CASE ~Verbatim
    <3>0. PICK p \in Tallies : \E v : InStep(p, v)
      BY <1>1, <1>7, <2>7 DEF BlockInv
    <3>1. PICK v : InStep(p, v)
      BY <3>0
    <3>2. v = shown
      BY <1>1, <3>1, AllViewed DEF InStep
    <3>3. Paired(shown, p, xlate)
      <4>1. <<>> \in Seq(Plain) /\ Run(Showings(egress, ingress), shown, <<>>, shown)
        BY RunNothing, ShortSeqs
      <4>2. QED BY <1>4, <3>1, <3>2, <4>1 DEF Paired, InStep
    <3>4. PICK q : Run(Tally(egress), p, read.out, q) /\ OnBoard(egress, sent, read.st, q)
      BY <1>2, <3>1 DEF InStep, Agreed, Drawn
    <3> HIDE DEF read
    <3>5. Paired(shown, q, x)
      BY <1>4, <1>7, <2>3, <2>7, <3>3, <3>4, FoldPairs
    <3>6. fed.x = x /\ fed.st = read.st /\ frames = x.out
      BY <2>1, <2>7 DEF frames
    <3> HIDE DEF x
    <3>7. PICK u \in Boards : /\ Run(Showings(egress, ingress), shown, x.out, u)
                              /\ Shelved(ingress, q, x.writer, u)
      BY <3>5 DEF Paired
    <3>8. x.out \in Seq(Frames)
      BY <2>5 DEF Translator
    <3>9. /\ Views(u)' /\ (x.out \in Seq(Plain) => out' \in Seq(Plain))
          /\ xlate'.writer = x.writer /\ (xlate'.stopped <=> x.stopped) /\ (xlate'.pending <=> x.pending)
      BY <1>5, <2>5, <3>6, <3>7, <3>8
    <3>10. q \in Tallies /\ q.stage \in {"open", "delta", "over"}
      BY <3>4, TallySplit DEF OnBoard
    <3>11. out' \in Seq(Plain) \/ xlate'.writer.opened = {}
      BY <3>5, <3>7, <3>9 DEF Paired, Shelved
    <3>12. Agreed(q)'
      BY <1>1, <3>4, <3>6 DEF Agreed
    <3>13. InStep(q, u)'
      BY <1>1, <3>5, <3>7, <3>9, <3>12 DEF InStep, Paired
    <3>14. QED BY <1>1, <1>4, <3>9, <3>10, <3>11, <3>13 DEF BlockInv
  <2>8. QED BY <2>6, <2>7
<1>8. QED BY <1>6, <1>7

\* The bytes make no sense.
LEMMA AbortInStep ==
  ASSUME StreamInv, BlockInv, Abort
  PROVE  BlockInv'
<1>1. /\ egress' = egress /\ ingress' = ingress /\ out' = out /\ shown' = shown
      /\ xlate' = [xlate EXCEPT !.aborted = TRUE]
  BY DEF Abort, stream, client
<1>2. xlate'.aborted /\ xlate'.writer = xlate.writer
  BY <1>1 DEF StreamInv, StreamTyped, Translator
<1>3. \A v : Views(v) => Views(v)'
  BY <1>1 DEF Views
<1>4. QED BY <1>1, <1>2, <1>3 DEF BlockInv

\* The backend hangs up.
LEMMA CloseInStep ==
  ASSUME StreamInv, BlockInv, Close
  PROVE  BlockInv'
<1> DEFINE x == Finish(xlate)
<1>1. /\ body = "flowing" /\ out = <<>> /\ body' = "ended" /\ xlate' = [x EXCEPT !.out = <<>>]
      /\ out' = IF framer = "none" THEN x.out ELSE ArrayEnd(xlate.aborted)
      /\ egress' = egress /\ ingress' = ingress /\ shown' = shown
  BY DEF Close, stream, client
<1>2. /\ xlate \in Translator /\ xlate.out = <<>> /\ ingress \in Protocols /\ shown \in Boards
      /\ phase \in Phases
  BY DEF StreamInv, StreamTyped, BlockInv
<1>3. ~xlate.aborted /\ ~Verbatim =>
        \E p \in Tallies : Shelved(ingress, p, xlate.writer, shown) /\ (xlate.pending => p.stage # "open")
  <2> SUFFICES ASSUME ~xlate.aborted, ~Verbatim
               PROVE  \E p \in Tallies : /\ Shelved(ingress, p, xlate.writer, shown)
                                         /\ (xlate.pending => p.stage # "open")
    OBVIOUS
  <2>0. PICK p \in Tallies : \E v : InStep(p, v)
    BY <1>1 DEF BlockInv
  <2>1. PICK v : InStep(p, v)
    BY <2>0
  <2>2. v = shown
    BY <1>1, <2>1, AllViewed DEF InStep
  <2>3. QED BY <2>1, <2>2 DEF InStep
<1>4. /\ \E u \in Boards : Run(Showings(egress, ingress), shown, x.out, u)
      /\ x.out \in Seq(Plain) \/ x.writer.opened = {}
  BY <1>2, <1>3, FinishPairs
<1>5. x \in Translator
  <2>1. PICK g : /\ Reached(g)
                 /\ ~Verbatim /\ ~xlate.aborted => phase = PhaseAt(ingress, g.at, xlate.emitted)
    BY <1>1, AllHeard
  <2>2. /\ g \in Places /\ CountsOf(xlate, g) /\ (~Verbatim => Flags(xlate, g.at))
    BY <2>1 DEF Reached
  <2>3. QED BY <1>2, <2>1, <2>2, FinishLeads
<1> HIDE DEF x
<1>6. xlate'.writer = x.writer
  BY <1>1, <1>5 DEF Translator
<1>7. xlate.aborted \in BOOLEAN
  BY <1>2 DEF Translator
<1>8. (\E v : Views(v))' /\ (out' \in Seq(Plain) \/ xlate'.writer.opened = {})
  <2>1. CASE framer = "none"
    BY <1>1, <1>4, <1>6, <2>1 DEF Views
  <2>2. CASE framer # "none"
    <3>1. out' \in Seq(Still) /\ out' \in Seq(Plain)
      BY <1>1, <1>7, <2>2, ArrayStill, AddedStill
    <3>2. Run(Showings(egress, ingress), shown, out', shown)
      BY <1>2, <3>1, StillShown
    <3>3. Views(shown)'
      BY <1>1, <1>2, <3>2 DEF Views
    <3>4. QED BY <3>1, <3>3
  <2>3. QED BY <2>1, <2>2
<1>9. QED BY <1>1, <1>2, <1>8 DEF BlockInv

\* The connection breaks.
LEMMA BreakInStep ==
  ASSUME StreamInv, BlockInv, Break
  PROVE  BlockInv'
<1>1. /\ out = <<>> /\ body' = "broken" /\ egress' = egress /\ ingress' = ingress /\ xlate' = xlate
  BY DEF Break, stream
<1>2. shown' = shown /\ (out' = out \/ out' = <<StreamError>> \/ out' = ArrayEnd(TRUE))
  BY DEF Break, client
<1>3. out' \in Seq(Still)
  BY <1>1, <1>2, AddedStill, ArrayStill, ShortSeqs
<1>4. shown \in Boards
  BY DEF BlockInv
<1>5. Views(shown)'
  BY <1>1, <1>2, <1>3, <1>4, StillShown DEF Views
<1>6. out' \in Seq(Plain)
  BY <1>3, AddedStill
<1>7. QED BY <1>1, <1>2, <1>4, <1>5, <1>6 DEF BlockInv

\* The client reads a frame.
LEMMA ReadsInStep ==
  ASSUME StreamInv, BlockInv, ClientReads
  PROVE  BlockInv'
<1> DEFINE f == Head(out)
           M == Showings(egress, ingress)
<1>1. /\ out # <<>> /\ shown' = Showing(f) /\ out' = Tail(out)
      /\ egress' = egress /\ sent' = sent /\ ingress' = ingress /\ decode' = decode /\ frame' = frame
      /\ xlate' = xlate /\ body' = body
  BY DEF ClientReads, stream
<1>2. out \in Seq(AnyFrame)
  BY DEF StreamInv, StreamTyped
<1>3. out' \in Seq(Plain) \/ xlate'.writer.opened = {}
  <2>1. CASE out \in Seq(Plain)
    BY <1>1, <2>1
  <2>2. CASE xlate.writer.opened = {}
    BY <1>1, <2>2
  <2>3. QED BY <2>1, <2>2 DEF BlockInv
<1> HIDE DEF f
<1>4. ASSUME NEW v, Views(v) PROVE Views(v)' /\ shown' \in Boards
  <2>1. PICK r : <<shown, f, r>> \in M /\ Run(M, r, Tail(out), v)
    BY <1>1, <1>2, <1>4, RunHead DEF Views, f
  <2>2. /\ f \in AnyFrame /\ r \in Boards /\ shown \in Boards
        /\ Pairs(egress, ingress, shown, f) /\ r = ShownAfter(ingress, shown, f)
    BY <2>1, ShowingGives
  <2>3. Showing(f) = r
    <3>1. CASE f.type = "BlockStart"
      BY <2>2, <3>1 DEF Showing, ShownAfter, Put
    <3>2. CASE f.type = "BlockStop"
      <4>1. f.index \in DOMAIN shown
        BY <2>2, <3>2 DEF Pairs, Holding
      <4>2. Showing(f) = [shown EXCEPT ![f.index] = "done"]
        BY <3>2 DEF Showing
      <4>3. r = Put(shown, f.index, "done")
        BY <2>2, <3>2 DEF ShownAfter
      <4>4. DOMAIN shown \cup {f.index} = DOMAIN shown
        BY <4>1
      <4>5. shown = [j \in DOMAIN shown |-> shown[j]]
        BY <2>2, BoardTyped
      <4>6. QED BY <4>2, <4>3, <4>4, <4>5 DEF Put
    <3>3. CASE f.type \notin {"BlockStart", "BlockStop"}
      BY <2>2, <3>3 DEF Showing, ShownAfter
    <3>4. QED BY <3>1, <3>2, <3>3
  <2>4. QED BY <1>1, <1>4, <2>1, <2>2, <2>3 DEF Views
<1>5. shown' \in Boards /\ (\E v : Views(v))'
  BY <1>4 DEF BlockInv
<1>6. ASSUME NEW p, NEW v, InStep(p, v) PROVE InStep(p, v)'
  BY <1>1, <1>4, <1>6 DEF InStep, Agreed
<1>7. QED BY <1>1, <1>3, <1>5, <1>6 DEF BlockInv, Verbatim

\* Steps that leave the frames alone.
LEMMA StillInStep ==
  ASSUME BlockInv, egress' = egress, ingress' = ingress, sent' = sent, decode' = decode, frame' = frame,
         xlate' = xlate, out' = out, shown' = shown, body' = "flowing" => body = "flowing"
  PROVE  BlockInv'
<1>1. \A v : Views(v) => Views(v)'
  BY DEF Views
<1>2. \A p, v : InStep(p, v) => InStep(p, v)'
  BY <1>1 DEF InStep, Agreed
<1>3. QED BY <1>1, <1>2 DEF BlockInv, Verbatim

\* What has been used stays so: two indices taken for one are so for ever.
LEMMA UsedStays ==
  ASSUME SentOK(egress, sent), BackendSends
  PROVE  sent.used \subseteq sent'.used
<1> DEFINE Grows(t) == sent.used \subseteq t.used
<1>1. sent = [at |-> sent.at, text |-> sent.text, open |-> sent.open, used |-> sent.used, told |-> sent.told]
  BY DEF SentOK
<1>2. Grows(sent) /\ \A w, u : Grows(At(sent, w)) /\ Grows(Telling(At(sent, w), u))
  BY AtGives
<1>3. \A i, k : Grows(Opening(sent, i, k)) /\ Grows(Closing(sent, i))
  <2> SUFFICES ASSUME NEW i, NEW k PROVE Grows(Opening(sent, i, k)) /\ Grows(Closing(sent, i))
    OBVIOUS
  <2>1. Opening(sent, i, k).used = sent.used \cup {i} /\ Closing(sent, i).used = sent.used
    BY SentChanges
  <2>2. QED BY <2>1
<1>4. \A v : Grows([sent EXCEPT !.text = v])
  BY TextChanges
<1>5. /\ \A w, q : Grows([sent EXCEPT !.at = w, !.used = @ \cup q])
      /\ \A w, q, u : Grows(Telling(At([sent EXCEPT !.used = @ \cup q], w), u))
  BY <1>1 DEF At, Telling
<1>6. \A i, k : Grows([sent EXCEPT !.open[i] = k])
  BY <1>1
<1>7. \A c, t : Send(c, t) /\ Grows(t) => sent.used \subseteq sent'.used
  BY DEF Send
<1> HIDE DEF Grows
<1>8. CASE OpenAiSends
  BY <1>2, <1>5, <1>7, <1>8 DEF OpenAiSends
<1>9. CASE GeminiSends
  BY <1>2, <1>7, <1>9 DEF GeminiSends
<1>10. CASE CohereSends
  BY <1>2, <1>3, <1>4, <1>7, <1>10 DEF CohereSends
<1>11. CASE BedrockSends
  BY <1>2, <1>3, <1>7, <1>11 DEF BedrockSends
<1>12. CASE ResponsesSends
  BY <1>2, <1>3, <1>5, <1>6, <1>7, <1>12 DEF ResponsesSends
<1>13. CASE AnthropicSends
  BY <1>2, <1>3, <1>7, <1>13 DEF AnthropicSends
<1>14. QED BY <1>8, <1>9, <1>10, <1>11, <1>12, <1>13 DEF BackendSends

LEMMA ConflatedStays ==
  ASSUME StreamInv, [Next]_vars, Conflated
  PROVE  Conflated'
<1>1. egress' = egress /\ sent.used \subseteq sent'.used
  <2>1. CASE Backend
    <3>1. BackendSends /\ SentOK(egress, sent)
      BY <2>1 DEF Backend, StreamInv, StreamTyped
    <3>2. QED BY <3>1, UsedStays DEF BackendSends
  <2>2. CASE ~Backend
    BY <2>2 DEF Next, vars, Feed, Abort, Close, Break, Drop, ClientReads, stream
  <2>3. QED BY <2>1, <2>2
<1>2. QED BY <1>1 DEF Conflated

\* Every step keeps the blocks in step.
LEMMA BlocksKeep ==
  ASSUME StreamInv, BlockInv, [Next]_vars, ~Conflated'
  PROVE  BlockInv'
<1>1. CASE Backend
  BY <1>1, BackendInStep
<1>2. CASE Feed
  BY <1>2, FeedInStep
<1>3. CASE Abort
  BY <1>3, AbortInStep
<1>4. CASE Close
  BY <1>4, CloseInStep
<1>5. CASE Break
  BY <1>5, BreakInStep
<1>6. CASE Drop
  BY <1>6, StillInStep DEF Drop, stream, client
<1>7. CASE ClientReads
  BY <1>7, ReadsInStep
<1>8. CASE UNCHANGED vars
  BY <1>8, StillInStep DEF vars, stream, client
<1>9. QED BY <1>1, <1>2, <1>3, <1>4, <1>5, <1>6, <1>7, <1>8 DEF Next

\* The frame a client reads next is one its blocks allow.
LEMMA PairsOfInv == StreamInv /\ (~Conflated => BlockInv) => BlocksPair
<1> SUFFICES ASSUME StreamInv, BlockInv, out # <<>> PROVE BlocksPair
  BY DEF BlocksPair
<1> DEFINE f == Head(out)
<1>1. out \in Seq(AnyFrame) /\ f \in AnyFrame
  BY DEF StreamInv, StreamTyped
<1>2. PICK v : Views(v)
  BY DEF BlockInv
<1>3. PICK r : <<shown, f, r>> \in Showings(egress, ingress)
  BY <1>1, <1>2, RunHead DEF Views
<1>4. f.type \in Finals => xlate.writer.opened = {}
  <2>1. out \in Seq(Plain) => f \in Plain
    OBVIOUS
  <2>2. QED BY <2>1 DEF BlockInv, Plain
<1> HIDE DEF f
<1>5. Pairs(egress, ingress, shown, f)
  BY <1>3, ShowingGives
<1>6. f.type = "BlockDelta" => f.kind \in Blocks \cup {"citations"}
  BY <1>1 DEF AnyFrame, Brackets, Frames, Events, Starts, BlockStarts, BlockDeltas, BlockStops,
              MessageDeltas, MessageStops, Errors
<1>7. f.type = "BlockStart" => ~Seen(f.index) \/ (egress = "cohere" /\ ~Holds(f.index))
  BY <1>5 DEF Pairs, Seen, Holds
<1>8. f.type = "BlockDelta" =>
        \/ ingress = "gemini"
        \/ ingress = "openai" /\ f.kind = "text"
        \/ /\ Holds(f.index)
           /\ shown[f.index] = IF f.kind = "citations" THEN "text" ELSE f.kind
  BY <1>5, <1>6 DEF Pairs, Seen, Holds, OfKind, Blocks
<1>9. f.type = "BlockStop" => Holds(f.index) /\ ("kind" \in DOMAIN f => shown[f.index] = f.kind)
  BY <1>5 DEF Pairs, Seen, Holds, Holding
<1>10. f.type \in Finals => /\ ingress # "openai" => \A i \in DOMAIN shown : ~Holds(i)
                            /\ xlate.writer.opened = {}
                            /\ "output" \in DOMAIN f => f.output = DOMAIN shown
  BY <1>4, <1>5 DEF Pairs, Holds, Clear
<1>11. QED BY <1>7, <1>8, <1>9, <1>10 DEF BlocksPair, Finals, f

\* Whatever order a backend sends text, reasoning and tool calls in, its
\* client assembles every block whole, until two indices are taken for one:
\* the blocks of the backend, of the reader's memory, of the writer and of
\* the client stay the same ones.
THEOREM BlocksStayPaired == Spec => []BlocksPair
<1>1. Init => (~Conflated => BlockInv)
  BY BlocksStart
<1>2. StreamInv /\ (~Conflated => BlockInv) /\ [Next]_vars => (~Conflated => BlockInv)'
  BY BlocksKeep, ConflatedStays
<1>3. StreamInv /\ (~Conflated => BlockInv) => BlocksPair
  BY PairsOfInv
<1>4. QED BY <1>1, <1>2, <1>3, StreamInvariant, PTL DEF Spec
=============================================================================
