------------------------------ MODULE Dispatch ------------------------------
(***************************************************************************)
(* The forwarding engine of src/forward.rs: one client request carried     *)
(* over the lanes of a pool until an upstream takes it, then over the      *)
(* pool's exhaustion mode (a fallback pool, the least bad lane or a 503),  *)
(* and its answer delivered.  Requests share the lanes: their permits,     *)
(* their lifetime budget and a breaker cell for each pool.                 *)
(*                                                                         *)
(* A cell is a phase here: `closed`; `resting`, closed and below its       *)
(* threshold, in a cooldown; `cooling`, open; `due`, open and its cooldown *)
(* over; `probing`, half-open.  Module BreakerCell has what is behind it.  *)
(* A routing policy only orders the lanes that are ready, so a choice      *)
(* among them stands for SWRR and for every policy.                        *)
(***************************************************************************)
EXTENDS Integers, FiniteSets, Disposition, PoolConfig

CONSTANTS
  Requests,       \* request slots; a slot is reused when its request is over
  NoLane, NoPool,
  Configs,        \* pool configurations an operator may write
  Affinity,       \* where the session of each request points in each pool
  MaxConcurrent,  \* permits of each lane
  MaxRequests,    \* lifetime budget of each lane, or Unlimited
  Unlimited,
  ContextMax,     \* context window of each lane; 0 when unknown
  Foreign,        \* lanes that do not speak the client's protocol
  Passthrough,    \* auth mode: the caller's own key goes upstream
  Errors,         \* what readers lift from responses that are not a 2xx
  ErrorMap        \* error_map of each lane

ASSUME DispatchAssumption ==
  /\ IsFiniteSet(Requests)
  /\ NoLane \notin Lanes /\ NoPool \notin Pools
  /\ Configs \subseteq Config
  /\ Affinity \in [Requests -> [Pools -> Lanes \cup {NoLane}]]
  /\ MaxConcurrent \in [Lanes -> Nat \ {0}]
  /\ Unlimited \notin Nat
  /\ MaxRequests \in [Lanes -> (Nat \ {0}) \cup {Unlimited}]
  /\ ContextMax \in [Lanes -> Nat]
  /\ Foreign \subseteq Lanes
  /\ Passthrough \in BOOLEAN
  /\ \A l \in Lanes :
       /\ \A raw \in Errors : {raw.code, raw.type} \ {NoSignal} \subseteq DOMAIN ErrorMap[l]
       /\ \A s \in DOMAIN ErrorMap[l] : ErrorMap[l][s] \in StatusClass \cup {Unmapped}

VARIABLES
  config,    \* the pool configuration busbar was started with
  cell,      \* the breaker cell of each pool and lane
  free,      \* permits left of each lane
  budget,    \* units of its lifetime budget left
  req,       \* the requests
  kept,      \* history: units spent for good
  orphaned   \* history: cells whose probe went away with its client

vars == <<config, cell, free, budget, req, kept, orphaned>>

Phase == {"closed", "resting", "cooling", "due", "probing"}

Stage == {"idle", "deciding", "hop", "sticky", "select", "admit", "parked",
          "upstream", "buffering", "streaming", "exhausted", "done"}
Path  == {"main", "fallback", "least_bad"}
Fate  == {"none", "theirs", "callers", "too_large", "taken", "failing", "failed", "cut", "unsent"}
Reply == {"none", "unavailable", "relayed", "error", "complete", "cut"}

\* History of a request: the lanes sent to so far, the largest context window
\* its size was rejected by, how its last attempt fared and how many failures
\* were recorded for it, how often it was billed, what the client got.
Request ==
  [pc : Stage,
   path : Path,
   pool : Pools \cup {NoPool},       \* whose cells count
   lane : Lanes \cup {NoLane},
   hops : Nat,
   late : BOOLEAN,                   \* the deadline has passed
   excluded : SUBSET Lanes, skipped : SUBSET Lanes, visited : SUBSET Pools,
   won : BOOLEAN,                    \* history: the attempt is a probe
   unit : BOOLEAN,                   \* budget_spent
   sse : BOOLEAN, first : BOOLEAN,   \* first_byte_sent
   spoilt : BOOLEAN,                 \* terminal_error, or an aborted translation
   ended : BOOLEAN, sink : BOOLEAN,  \* usage_sink is still there
   tried : SUBSET Lanes, oversize : Nat,
   fate : Fate,
   marks : Nat, bills : Nat,
   reply : Reply]

Idle == [pc |-> "idle", path |-> "main", pool |-> NoPool, lane |-> NoLane, hops |-> 0,
         late |-> FALSE, excluded |-> {}, skipped |-> {}, visited |-> {}, won |-> FALSE,
         unit |-> FALSE, sse |-> FALSE, first |-> FALSE, spoilt |-> FALSE,
         ended |-> FALSE, sink |-> TRUE, tried |-> {}, oversize |-> 0,
         fate |-> "none", marks |-> 0, bills |-> 0, reply |-> "none"]

TypeOK ==
  /\ config \in Config
  /\ cell \in [Pools -> [Lanes -> Phase]]
  /\ free \in [Lanes -> Nat]
  /\ budget \in [Lanes -> Nat]
  /\ req \in [Requests -> Request]
  /\ \A r \in Requests : req[r].pc \notin {"idle", "done"} => req[r].pool \in Pools
  /\ \A r \in Requests :
       req[r].pc \in {"sticky", "admit", "parked", "upstream", "buffering",
                      "streaming"} => req[r].lane \in Lanes
  /\ kept \in [Lanes -> Nat]
  /\ orphaned \subseteq Pools \X Lanes

Members == config.members

Limited(l) == MaxRequests[l] # Unlimited

Init ==
  /\ config \in {c \in Configs : Accepts(c)}
  /\ cell = [p \in Pools |-> [l \in Lanes |-> "closed"]]
  /\ free = MaxConcurrent
  /\ budget = [l \in Lanes |-> IF Limited(l) THEN MaxRequests[l] ELSE 0]
  /\ req = [r \in Requests |-> Idle]
  /\ kept = [l \in Lanes |-> 0]
  /\ orphaned = {}

-----------------------------------------------------------------------------
(* A cell's answer to what requests record on it (module BreakerCell).     *)

Struck(c) ==
  CASE c \in {"closed", "resting"} -> {"resting", "cooling"}
    [] c = "probing"               -> {"cooling"}
    [] c \in {"cooling", "due"}    -> {c}

Relieved(c) == IF c = "probing" THEN "closed" ELSE c
Released(c) == IF c = "probing" THEN "due" ELSE c

Strike(p, l)  == \E c \in Struck(cell[p][l]) : cell' = [cell EXCEPT ![p][l] = c]
Relieve(p, l) == cell' = [cell EXCEPT ![p][l] = Relieved(@)]
Release(p, l) == cell' = [cell EXCEPT ![p][l] = Released(@)]
Keep(p, l)    == cell' = cell

\* record_hard_down_all_cells
HardDown(l) ==
  cell' = [p \in Pools |-> IF l \in Members[p] THEN [cell[p] EXCEPT ![l] = "cooling"] ELSE cell[p]]

\* lane_admissible, ready_in, and what acquire_for_dispatch_in may win.
Admissible(l) == Limited(l) => budget[l] > 0
Ready(p, l)   == Admissible(l) /\ cell[p][l] \in {"closed", "due"}

Becomes(r, rec) == req' = [req EXCEPT ![r] = rec]
GoesTo(r, stage) == req' = [req EXCEPT ![r].pc = stage]

FreesPermit(l) == free' = [free EXCEPT ![l] = @ + 1]

\* Mutant: a permit is taken whether or not one is left.
TakesPermitAnyway(l) == free' = [free EXCEPT ![l] = @ - 1]

TakesPermit(l) == free[l] > 0 /\ free' = [free EXCEPT ![l] = @ - 1]

\* The request has its answer and holds nothing.
Answered(q, reply) ==
  [Idle EXCEPT !.pc = "done", !.reply = reply, !.fate = q.fate, !.marks = q.marks, !.bills = q.bills]

\* History: the unit of a request that ends without a refund is spent.
KeepUnit(q) == kept' = IF q.unit THEN [kept EXCEPT ![q.lane] = @ + 1] ELSE kept

-----------------------------------------------------------------------------
(* forward_with_pool_parsed, up to the loop.                               *)

Arrive(r) ==
  /\ req[r].pc = "idle"
  /\ \E p \in config.routes :
       Becomes(r, [Idle EXCEPT !.pc = "deciding", !.pool = p, !.excluded = config.exclusions[p]])
  /\ UNCHANGED <<cell, free, budget, kept>>

\* The routing policy orders the lanes, abstains, or turns the request away.
Decide(r) ==
  /\ req[r].pc = "deciding"
  /\ GoesTo(r, "hop") \/ Becomes(r, Answered(req[r], "unavailable"))
  /\ UNCHANGED <<cell, free, budget, kept>>

\* Mutant: the wait for a permit is not bounded by the deadline.
DeadlinePassesAwake(r) ==
  /\ req[r].pc \in {"hop", "select", "exhausted"}
  /\ ~req[r].late
  /\ req' = [req EXCEPT ![r].late = TRUE]
  /\ UNCHANGED <<cell, free, budget, kept>>

\* It may pass at any time; here, where the request will look at it next.
DeadlinePasses(r) ==
  /\ req[r].pc \in {"hop", "select", "parked", "exhausted"}
  /\ ~req[r].late
  /\ req' = [req EXCEPT ![r].late = TRUE]
  /\ UNCHANGED <<cell, free, budget, kept>>

-----------------------------------------------------------------------------
(* The head of both loops, and pick_among.                                 *)

HopsLeft(q) == q.path = "main" => q.hops <= config.max_hops[q.pool]

\* The request starts to look for a lane: nothing is left of its last attempt.
Looking(q) == [q EXCEPT !.lane = NoLane, !.skipped = {}, !.won = FALSE,
                        !.fate = "none", !.marks = 0]

OutOfHops(r) ==
  /\ req[r].pc = "hop" /\ ~HopsLeft(req[r])
  /\ Becomes(r, [Looking(req[r]) EXCEPT !.pc = "exhausted"])
  /\ UNCHANGED <<cell, free, budget, kept>>

OutOfTime(r) ==
  /\ req[r].pc = "hop" /\ HopsLeft(req[r]) /\ req[r].late
  /\ Becomes(r, Answered(req[r], "unavailable"))
  /\ UNCHANGED <<cell, free, budget, kept>>

\* The breaker lets the request through; an open cell that is due is probed.
Admitted(q, l) == [q EXCEPT !.lane = l, !.won = cell[q.pool][l] = "due"]
Admit(p, l) ==
  /\ Ready(p, l)
  /\ cell' = [cell EXCEPT ![p][l] = IF @ = "due" THEN "probing" ELSE @]

Sticky(r) == Affinity[r][req[r].pool]

StickyEligible(r) ==
  /\ req[r].path = "main"
  /\ Sticky(r) \in Members[req[r].pool] \ req[r].excluded
  /\ Ready(req[r].pool, Sticky(r))

TrySticky(r) ==
  LET q == req[r]
  IN  /\ q.pc = "hop" /\ HopsLeft(q) /\ ~q.late
      /\ StickyEligible(r)
      /\ Admit(q.pool, Sticky(r))
      /\ Becomes(r, [Admitted(Looking(q), Sticky(r)) EXCEPT !.pc = "sticky"])
      /\ UNCHANGED <<free, budget, kept>>

NoSticky(r) ==
  LET q == req[r]
  IN  /\ q.pc = "hop" /\ HopsLeft(q) /\ ~q.late
      /\ ~StickyEligible(r)
      /\ Becomes(r, [Looking(q) EXCEPT !.pc = "select"])
      /\ UNCHANGED <<cell, free, budget, kept>>

\* No permit there: the probe it may have won is given back.
StickyFull(r) ==
  LET q == req[r]
  IN  /\ q.pc = "sticky" /\ free[q.lane] = 0
      /\ Release(q.pool, q.lane)
      /\ Becomes(r, [Looking(q) EXCEPT !.pc = "select"])
      /\ UNCHANGED <<free, budget, kept>>

Candidates(q) == Members[q.pool] \ (q.excluded \cup q.skipped)
Choices(q) == {l \in Candidates(q) : Ready(q.pool, l)}

Select(r) ==
  LET q == req[r]
  IN  /\ q.pc = "select"
      /\ \/ /\ ~q.late
            /\ \E l \in Choices(q) : Becomes(r, [q EXCEPT !.pc = "admit", !.lane = l])
         \/ /\ q.late \/ Choices(q) = {}
            /\ GoesTo(r, "exhausted")
      /\ UNCHANGED <<cell, free, budget, kept>>

\* Mutant: a lane that failed is not excluded.
PickedAgain(q) == [q EXCEPT !.pc = "upstream", !.skipped = {}, !.tried = @ \cup {q.lane},
                            !.hops = IF q.path = "main" THEN @ + 1 ELSE @]

\* The loop excludes the lane it was given, and goes on to shape and send.
Picked(q) == [q EXCEPT !.pc = "upstream", !.skipped = {}, !.tried = @ \cup {q.lane},
                       !.excluded = @ \cup {q.lane},
                       !.hops = IF q.path = "main" THEN @ + 1 ELSE @]

\* acquire_for_dispatch, then try_acquire: without a permit the request waits.
AdmitChosen(r) ==
  LET q == req[r]
  IN  /\ q.pc = "admit"
      /\ Admit(q.pool, q.lane)
      /\ \/ TakesPermit(q.lane) /\ Becomes(r, Picked(Admitted(q, q.lane)))
         \/ /\ free[q.lane] = 0 /\ free' = free
            /\ Becomes(r, [Admitted(q, q.lane) EXCEPT !.pc = "parked"])
      /\ UNCHANGED <<budget, kept>>

\* Another request won the probe, tripped the cell or spent the budget first.
LoseRace(r) ==
  LET q == req[r]
  IN  /\ q.pc = "admit" /\ ~Ready(q.pool, q.lane)
      /\ Becomes(r, [q EXCEPT !.pc = "select", !.lane = NoLane, !.skipped = @ \cup {q.lane}])
      /\ UNCHANGED <<cell, free, budget, kept>>

\* try_acquire, or the end of the wait for a permit.
TakePermit(r) ==
  LET q == req[r]
  IN  /\ q.pc \in {"sticky", "parked"}
      /\ TakesPermit(q.lane)
      /\ Becomes(r, Picked(q))
      /\ UNCHANGED <<cell, budget, kept>>

\* The deadline ends the wait: ProbeGuard gives the probe back.
GiveUpWaiting(r) ==
  LET q == req[r]
  IN  /\ q.pc = "parked" /\ q.late
      /\ Release(q.pool, q.lane)
      /\ Becomes(r, [Looking(q) EXCEPT !.pc = "exhausted"])
      /\ UNCHANGED <<free, budget, kept>>

-----------------------------------------------------------------------------
(* The attempt.                                                            *)

\* The request cannot be put into the lane's protocol.
Untranslatable(r) ==
  LET q == req[r]
  IN  /\ q.pc = "upstream" /\ q.lane \in Foreign
      /\ Release(q.pool, q.lane)
      /\ FreesPermit(q.lane)
      /\ Becomes(r, Answered(q, "error"))
      /\ UNCHANGED <<budget, kept>>

NextHop(q) == [q EXCEPT !.pc = "hop", !.lane = NoLane, !.won = FALSE]

\* No response at all.
Lost(r) ==
  LET q == req[r]
      tally == [q EXCEPT !.fate = "theirs", !.marks = @ + 1]
  IN  /\ q.pc = "upstream"
      /\ Strike(q.pool, q.lane)
      /\ FreesPermit(q.lane)
      /\ Becomes(r, IF q.path = "least_bad" THEN Answered(tally, "unavailable")
                    ELSE NextHop(tally))
      /\ UNCHANGED <<budget, kept>>

ClassOf(q, raw) == Class(raw, ErrorMap[q.lane])
DisposedOf(q, raw) == Disposed(ClassOf(q, raw))

\* is_passthrough_40x: the caller's own key was refused.
CallersKey(raw) == Passthrough /\ raw.status \in {401, 403}

\* History: whose fault a response is, as docs/reliability.md has it.
Blame(q, raw) ==
  CASE CallersKey(raw) -> "callers"
    [] ~CallersKey(raw) /\ raw.status \in 500 .. 599 /\ ClassOf(q, raw) # "client_error" -> "theirs"
    [] OTHER -> CASE ClassOf(q, raw) = "client_error"   -> "callers"
                  [] ClassOf(q, raw) = "context_length" -> "too_large"
                  [] OTHER                              -> "theirs"

Refusable(r) == req[r].pc = "upstream" /\ req[r].path = "main"

\* Mutant: a refusal the breaker does not hear of leaves the probe as it is.
RefuseCallerKeepingProbe(r) ==
  LET q == req[r]
  IN  /\ Refusable(r)
      /\ \E raw \in Errors :
           /\ CallersKey(raw) \/ DisposedOf(q, raw) = "client_fault"
           /\ Becomes(r, Answered([q EXCEPT !.fate = Blame(q, raw)], "relayed"))
      /\ FreesPermit(q.lane)
      /\ UNCHANGED <<cell, budget, kept>>

\* The caller's fault: no breaker penalty, the answer is relayed.
RefuseCaller(r) ==
  LET q == req[r]
  IN  /\ Refusable(r)
      /\ \E raw \in Errors :
           /\ CallersKey(raw) \/ DisposedOf(q, raw) = "client_fault"
           /\ Becomes(r, Answered([q EXCEPT !.fate = Blame(q, raw)], "relayed"))
      /\ Release(q.pool, q.lane)
      /\ FreesPermit(q.lane)
      /\ UNCHANGED <<budget, kept>>

RefuseTransient(r) ==
  LET q == req[r]
  IN  /\ Refusable(r)
      /\ \E raw \in Errors :
           /\ ~CallersKey(raw) /\ DisposedOf(q, raw) = "transient"
           /\ Becomes(r, NextHop([q EXCEPT !.fate = Blame(q, raw), !.marks = @ + 1]))
      /\ Strike(q.pool, q.lane)
      /\ FreesPermit(q.lane)
      /\ UNCHANGED <<budget, kept>>

\* Busbar's own key or account: every cell of the lane is parked; a rejected
\* key ends the request, an empty account sends it on.
RefuseHardDown(r) ==
  LET q == req[r]
  IN  /\ Refusable(r)
      /\ \E raw \in Errors :
           LET tally == [q EXCEPT !.fate = Blame(q, raw), !.marks = @ + 1]
           IN  /\ ~CallersKey(raw) /\ DisposedOf(q, raw) = "hard_down"
               /\ Becomes(r, IF ClassOf(q, raw) = "auth" THEN Answered(tally, "error")
                             ELSE NextHop(tally))
      /\ HardDown(q.lane)
      /\ FreesPermit(q.lane)
      /\ UNCHANGED <<budget, kept>>

\* Mutant: only smaller windows than the one that failed are excluded.
NoLargerStrict(q) == {c \in Members[q.pool] : 0 < ContextMax[c] /\ ContextMax[c] < ContextMax[q.lane]}

\* Members that share or undercut the window that was just too small.
NoLarger(q) == {c \in Members[q.pool] : 0 < ContextMax[c] /\ ContextMax[c] <= ContextMax[q.lane]}

AtLeast(a, b) == IF a < b THEN b ELSE a

RefuseOversized(r) ==
  LET q == req[r]
  IN  /\ Refusable(r)
      /\ \E raw \in Errors :
           /\ ~CallersKey(raw) /\ DisposedOf(q, raw) = "context_length"
           /\ Becomes(r, NextHop([q EXCEPT !.excluded = @ \cup NoLarger(q),
                                           !.fate = Blame(q, raw),
                                           !.oversize = AtLeast(@, ContextMax[q.lane])]))
      /\ Release(q.pool, q.lane)
      /\ FreesPermit(q.lane)
      /\ UNCHANGED <<budget, kept>>

\* forward_once relays whatever is not a 2xx, and holds it against the lane.
RefuseDegraded(r) ==
  LET q == req[r]
  IN  /\ q.pc = "upstream" /\ q.path # "main"
      /\ \E c \in Struck(cell[q.pool][q.lane]) :
           cell' = [cell EXCEPT ![q.pool][q.lane] = Released(c)]
      /\ FreesPermit(q.lane)
      /\ Becomes(r, Answered([q EXCEPT !.marks = @ + 1], "relayed"))
      /\ UNCHANGED <<budget, kept>>

\* A 2xx: success, and a unit of the lane's budget if there is one left.
Accept(r) ==
  LET q == req[r]
      spends == Limited(q.lane) /\ budget[q.lane] > 0
  IN  /\ q.pc = "upstream"
      /\ Relieve(q.pool, q.lane)
      /\ budget' = IF spends THEN [budget EXCEPT ![q.lane] = @ - 1] ELSE budget
      /\ \E sse \in BOOLEAN :
           Becomes(r, [q EXCEPT !.pc = IF q.lane \in Foreign /\ ~sse THEN "buffering"
                                       ELSE "streaming",
                                !.fate = "taken", !.unit = spends, !.sse = sse, !.won = FALSE,
                                !.late = FALSE, !.excluded = {}, !.path = "main", !.visited = {},
                                !.hops = 0, !.tried = {}, !.oversize = 0])
      /\ UNCHANGED <<free, kept>>

-----------------------------------------------------------------------------
(* A whole answer, read before it is translated.                           *)

BodyTranslated(r) ==
  LET q == req[r]
  IN  /\ q.pc = "buffering"
      /\ FreesPermit(q.lane)
      /\ Becomes(r, Answered([q EXCEPT !.bills = @ + 1], "complete"))
      /\ KeepUnit(q)
      /\ UNCHANGED <<cell, budget>>

\* Over busbar's own cap, or in no shape the reader knows.
BodyUnusable(r) ==
  LET q == req[r]
  IN  /\ q.pc = "buffering"
      /\ FreesPermit(q.lane)
      /\ Becomes(r, Answered(q, "error"))
      /\ KeepUnit(q)
      /\ UNCHANGED <<cell, budget>>

\* Mutant: every broken body is refunded, spent unit or not.
RefundedAlways(q) == IF Limited(q.lane) THEN [budget EXCEPT ![q.lane] = @ + 1] ELSE budget

Refunded(q) == IF q.unit THEN [budget EXCEPT ![q.lane] = @ + 1] ELSE budget

BodyBroken(r) ==
  LET q == req[r]
  IN  /\ q.pc = "buffering"
      /\ Strike(q.pool, q.lane)
      /\ FreesPermit(q.lane)
      /\ budget' = Refunded(q)
      /\ Becomes(r, Answered([q EXCEPT !.fate = "cut", !.marks = @ + 1], "error"))
      /\ UNCHANGED <<kept>>

-----------------------------------------------------------------------------
(* FirstByteBody: an answer passed on as it comes.                         *)

Chunk(r) ==
  /\ req[r].pc = "streaming" /\ ~req[r].ended /\ ~req[r].first
  /\ req' = [req EXCEPT ![r].first = TRUE]
  /\ UNCHANGED <<cell, free, budget, kept>>

\* A chunk that carries an error frame, or that makes the translation abort.
SpoiltChunk(r) ==
  /\ req[r].pc = "streaming" /\ ~req[r].ended /\ req[r].sse /\ ~req[r].spoilt
  /\ req' = [req EXCEPT ![r].first = TRUE, ![r].spoilt = TRUE, ![r].fate = "failing"]
  /\ UNCHANGED <<cell, free, budget, kept>>

Open(q) == q.pc = "streaming" /\ ~q.ended

\* Mutant: the end of a stream and its drop both give the permit back.
FreesPermitAgain(q) == FreesPermit(q.lane)

\* The permit is an Option: taken once, by whoever ends the stream.
FreesHeldPermit(q) == IF q.ended THEN free' = free ELSE FreesPermit(q.lane)

\* The transport fails after the first byte of an event stream: the failure
\* counts, an error event goes out, the unit stays spent.
BreakMidStream(r) ==
  LET q == req[r]
  IN  /\ Open(q) /\ q.sse /\ q.first
      /\ Strike(q.pool, q.lane)
      /\ FreesHeldPermit(q)
      /\ Becomes(r, [q EXCEPT !.ended = TRUE, !.marks = @ + 1, !.reply = "cut",
                              !.fate = IF q.spoilt THEN "failed" ELSE "cut"])
      /\ UNCHANGED <<budget, kept>>

\* Any other transport failure: the unit comes back, and the failure counts
\* if something of the answer had gone out.
BreakBody(r) ==
  LET q == req[r]
  IN  /\ Open(q) /\ ~(q.sse /\ q.first)
      /\ IF q.first THEN Strike(q.pool, q.lane) ELSE Keep(q.pool, q.lane)
      /\ FreesHeldPermit(q)
      /\ budget' = Refunded(q)
      /\ Becomes(r, [q EXCEPT !.ended = TRUE, !.unit = FALSE, !.reply = "cut",
                              !.fate = IF q.first THEN "cut" ELSE "unsent",
                              !.marks = IF q.first THEN @ + 1 ELSE @])
      /\ UNCHANGED <<kept>>

\* Mutant: a stream that failed in band is billed like any other.
BillableAlways(q) == q.sink

\* What the stream's end and its drop agree on.
Billable(q) == q.sink /\ ~q.spoilt

\* The upstream closes the stream.
EndOfStream(r) ==
  LET q == req[r]
      failed == q.sse /\ q.first /\ q.spoilt
  IN  /\ Open(q)
      /\ IF failed THEN Strike(q.pool, q.lane) ELSE Keep(q.pool, q.lane)
      /\ FreesHeldPermit(q)
      /\ Becomes(r, [q EXCEPT !.ended = TRUE, !.sink = FALSE,
                              !.fate = IF q.spoilt THEN "failed" ELSE @,
                              !.marks = IF failed THEN @ + 1 ELSE @,
                              !.bills = IF Billable(q) THEN @ + 1 ELSE @,
                              !.reply = IF q.spoilt THEN "cut" ELSE "complete"])
      /\ UNCHANGED <<budget, kept>>

\* The body is dropped: after its end, or because the client went away; an
\* event stream is then billed for the usage it has shown so far.
DropBody(r) ==
  LET q == req[r]
      billed == Billable(q) /\ q.sse
  IN  /\ q.pc = "streaming"
      /\ FreesHeldPermit(q)
      /\ Becomes(r, Answered([q EXCEPT !.bills = IF billed THEN @ + 1 ELSE @, !.sink = FALSE],
                             IF q.ended THEN q.reply ELSE "cut"))
      /\ KeepUnit(q)
      /\ UNCHANGED <<cell, budget>>

-----------------------------------------------------------------------------
(* handle_exhaustion_for_pool.                                             *)

Mode(q) == config.on_exhausted[q.pool]

Status503(r) ==
  /\ req[r].pc = "exhausted" /\ Mode(req[r]) = "status_503"
  /\ Becomes(r, Answered(req[r], "unavailable"))
  /\ UNCHANGED <<cell, free, budget, kept>>

\* handle_fallback_pool, up to its loop: no exclusions, no cap on its hops.
Fallback(r) ==
  LET q == req[r]
      seen == q.visited \cup {q.pool}
      next == Mode(q)
  IN  /\ q.pc = "exhausted" /\ next \in Pools
      /\ Becomes(r, IF q.late \/ next \in seen
                    THEN Answered(q, "unavailable")
                    ELSE [Looking(q) EXCEPT !.pc = "hop", !.path = "fallback", !.pool = next,
                                            !.visited = seen \cup {next}])
      /\ UNCHANGED <<cell, free, budget, kept>>

\* Where find_soonest_cooldown points: a lane that is not cooling has no wait.
Soonest(p) ==
  LET waitless == {l \in Members[p] : cell[p][l] \notin {"resting", "cooling"}}
  IN  IF waitless # {} THEN waitless ELSE Members[p]

\* handle_least_bad: one attempt on that lane, whatever its breaker, budget,
\* weight or exclusion say, if it has a permit.
LeastBad(r) ==
  LET q == req[r]
  IN  /\ q.pc = "exhausted" /\ Mode(q) = "least_bad"
      /\ \/ \E l \in Soonest(q.pool) :
              /\ TakesPermit(l)
              /\ Becomes(r, [Idle EXCEPT !.pc = "upstream", !.path = "least_bad",
                                          !.pool = q.pool, !.lane = l])
         \/ /\ \E l \in Soonest(q.pool) : free[l] = 0
            /\ Becomes(r, Answered(q, "unavailable"))
            /\ free' = free
      /\ UNCHANGED <<cell, budget, kept>>

-----------------------------------------------------------------------------
(* The client, the clock and the prober.                                   *)

\* The client goes away while the request waits: for the policy, a permit (its
\* guard gives the probe back), the upstream (nobody does) or a body.
Leave(r) ==
  LET q == req[r]
  IN  /\ q.pc \in {"deciding", "parked", "upstream", "buffering"}
      /\ IF q.pc = "parked" THEN Release(q.pool, q.lane) ELSE cell' = cell
      /\ IF q.pc \in {"upstream", "buffering"} THEN FreesPermit(q.lane) ELSE free' = free
      /\ KeepUnit(q)
      /\ Becomes(r, Answered(q, "cut"))
      /\ UNCHANGED budget

Forget(r) ==
  /\ req[r].pc = "done"
  /\ Becomes(r, Idle)
  /\ UNCHANGED <<cell, free, budget, kept>>

\* A cooldown runs out.
Expire(p, l) ==
  /\ cell[p][l] \in {"resting", "cooling"}
  /\ cell' = [cell EXCEPT ![p][l] = IF @ = "cooling" THEN "due" ELSE "closed"]
  /\ UNCHANGED <<free, budget, req, kept>>

\* A health probe recovers the lane in every pool (module LaneCells).
Recover(l) ==
  /\ \E p \in Pools : cell[p][l] # "closed"
  /\ cell' = [p \in Pools |-> [cell[p] EXCEPT ![l] = "closed"]]
  /\ UNCHANGED <<free, budget, req, kept>>

Seek(r) == \/ Decide(r) \/ OutOfHops(r) \/ OutOfTime(r) \/ TrySticky(r) \/ NoSticky(r)
           \/ StickyFull(r) \/ Select(r) \/ AdmitChosen(r) \/ LoseRace(r) \/ TakePermit(r)
           \/ GiveUpWaiting(r) \/ Status503(r) \/ Fallback(r) \/ LeastBad(r)

Hear(r) == \/ Untranslatable(r) \/ Lost(r) \/ RefuseCaller(r) \/ RefuseTransient(r) \/ RefuseHardDown(r)
           \/ RefuseOversized(r) \/ RefuseDegraded(r) \/ Accept(r)
           \/ BodyTranslated(r) \/ BodyUnusable(r) \/ BodyBroken(r)
           \/ BreakMidStream(r) \/ BreakBody(r) \/ EndOfStream(r)

Flow(r) == Chunk(r) \/ SpoiltChunk(r)

Client(r) == Arrive(r) \/ Leave(r) \/ DropBody(r) \/ Forget(r)

Step == \/ \E r \in Requests : Seek(r) \/ Hear(r) \/ Flow(r) \/ Client(r) \/ DeadlinePasses(r)
        \/ \E p \in Pools : \E l \in Members[p] : Expire(p, l)
        \/ \E l \in Lanes : Recover(l)

\* History: probes whose client just went away while the upstream was working.
Abandoned == {<<req[r].pool, req[r].lane>> :
                r \in {r \in Requests : /\ req[r].pc = "upstream" /\ req[r].won
                                        /\ req'[r].pc = "done" /\ req'[r].reply = "cut"}}

Aside == /\ UNCHANGED config
         /\ orphaned' = {c \in orphaned \cup Abandoned : cell'[c[1]][c[2]] = "probing"}

Next == Step /\ Aside

Spec == Init /\ [][Next]_vars

-----------------------------------------------------------------------------
(* Properties.                                                             *)

InFlight(l) == {r \in Requests : /\ req[r].lane = l
                                 /\ req[r].pc \in {"upstream", "buffering", "streaming"}
                                 /\ ~req[r].ended}

(* Every permit of a lane is free or held by one request in flight there,  *)
(* whichever of the ends of a stream, of a read body, of a failed attempt  *)
(* or of a client that leaves gave it back.                                *)
PermitsConserved ==
  \A l \in Lanes : free[l] + Cardinality(InFlight(l)) = MaxConcurrent[l]

Spenders(l) == {r \in Requests : req[r].unit /\ req[r].lane = l}

(* Every unit of a lane's lifetime budget is left, spent for good, or      *)
(* spent by an answer still under way: no refund gives back what was not   *)
(* taken, or twice.                                                        *)
BudgetAccounted ==
  \A l \in Lanes :
    Limited(l) => budget[l] + kept[l] + Cardinality(Spenders(l)) = MaxRequests[l]

Owns(r, p, l) ==
  /\ req[r].pool = p /\ req[r].lane = l /\ req[r].won
  /\ req[r].pc \in {"sticky", "parked", "upstream"}

(* The `probe class guard` of every exit: a half-open cell has a request   *)
(* in flight that won its probe and will settle it, unless that request's  *)
(* client went away while the upstream was working.                        *)
ProbeHasOwner ==
  \A p \in Pools, l \in Lanes :
    cell[p][l] = "probing" =>
      <<p, l>> \in orphaned \/ \E r \in Requests : Owns(r, p, l)

(* An upstream's fault, an unanswered request or a broken answer is held   *)
(* against its lane exactly once, the caller's own fault never, as far as  *)
(* failover classifies responses (the degraded paths do not).              *)
FaultsCountedOnce ==
  \A r \in Requests :
    LET q == req[r]
    IN  /\ q.fate \in {"theirs", "failed", "cut"} => q.marks = 1
        /\ q.fate \in {"callers", "too_large", "taken", "failing", "unsent"} => q.marks = 0

(* A request is billed for its tokens at most once, whole answers always,  *)
(* refused ones and those that failed in band never.                       *)
BilledOnce ==
  \A r \in Requests :
    LET q == req[r]
    IN  /\ q.bills <= 1
        /\ q.fate \in {"failing", "failed"} => q.bills = 0
        /\ q.pc = "done" => /\ q.reply = "complete" => q.bills = 1
                            /\ q.reply \in {"unavailable", "relayed", "error"} => q.bills = 0

Sends(r) == req[r].pc # "upstream" /\ req'[r].pc = "upstream" /\ req'[r].path # "least_bad"

(* Failover never asks a lane that has already failed this request, nor,   *)
(* within the pool, one whose context window is no larger than a window    *)
(* that was too small, nor more lanes than max_hops allows.                *)
NoWastedAttempt ==
  [][\A r \in Requests :
       Sends(r) =>
         LET l == req[r].lane
         IN  /\ l \notin req[r].tried
             /\ req[r].path = "main" =>
                  /\ req[r].oversize > 0 => ContextMax[l] = 0 \/ ContextMax[l] > req[r].oversize
                  /\ Cardinality(req[r].tried) <= config.max_hops[req[r].pool]]_vars

\* What happens to a request that needs nothing of its client: busbar runs it,
\* its deadline passes, the upstream answers or reqwest's timeout does, hyper
\* drops a body that has ended.
Served(r) == Seek(r) \/ Hear(r) \/ DeadlinePasses(r) \/ (req[r].ended /\ DropBody(r))

(* Every request that has not its answer has a step left that nobody else  *)
(* can withhold, whatever the permits, the breakers and the budgets: no    *)
(* request waits for another.                                              *)
NobodyStuck ==
  \A r \in Requests :
    req[r].pc \notin {"idle", "done"} => ENABLED Served(r)

(* What a request may still go through: fallback pools, lanes it may be    *)
(* sent to, lanes it may select, stages, and its deadline.                 *)
Rank(q) ==
  LET n == Cardinality(Lanes) + 1
      chain == CASE q.path = "main"      -> Cardinality(Pools) + 1
                 [] q.path = "fallback"  -> Cardinality(Pools \ q.visited) + 1
                 [] q.path = "least_bad" -> 0
      lanes == Cardinality(Lanes \ q.excluded)
      looks == Cardinality(Lanes \ q.skipped)
      stage == CASE q.pc = "deciding" -> 7
                 [] q.pc = "upstream" -> 6
                 [] q.pc = "hop"      -> 5
                 [] q.pc = "sticky"   -> 4
                 [] q.pc = "select"   -> 3
                 [] q.pc = "admit"    -> 2
                 [] q.pc = "parked"   -> 1
      most == n * n * 8
  IN  (IF q.late THEN 0 ELSE 1)
      + 2 * (CASE q.pc \in {"idle", "done", "streaming"} -> 0
               [] q.pc = "buffering" -> 1
               [] q.pc = "exhausted" -> 2 + chain * most
               [] OTHER -> 2 + chain * most + (lanes * n + looks) * 8 + stage)

(* No loop of failover, of lost races or of fallback pools runs for ever:  *)
(* until it has an answer to pass on, each step of a request leaves less   *)
(* of it.  With NobodyStuck, a request that is served fairly ends.         *)
LessIsLeft ==
  [][\A r \in Requests :
       req[r].pc \notin {"idle", "done", "streaming"} /\ req'[r] # req[r] =>
         Rank(req'[r]) < Rank(req[r])]_vars

=============================================================================
