-------------------------------- MODULE Swrr --------------------------------
(***************************************************************************)
(* Smooth weighted round-robin over the members of one pool:               *)
(* `select_weighted_for` and `reset_swrr_for` of src/store.rs.             *)
(*                                                                         *)
(* A selection first filters its candidates without any lock, then adds,   *)
(* compares and subtracts under the shard lock of the pool, on the set it  *)
(* filtered.  A recovery closes the cell first and zeroes its accumulator  *)
(* under the shard lock later.  Whether a lane is ready is the breaker's   *)
(* business (module BreakerCell): here it changes freely.                  *)
(***************************************************************************)
EXTENDS Integers, Sequences, FiniteSets, FiniteSetsExt

CONSTANTS
  Weights,      \* the configured weights, in the order of the pool's members
  Selectors     \* tasks selecting a lane of the pool

Lanes == DOMAIN Weights

\* config_validate rejects a member of weight 0; the selector skips one.
ASSUME WeightAssumption == Weights \in Seq(Nat) /\ Weights # << >>

VARIABLES
  ready,      \* the lanes the side-effect-free readiness check admits
  weight,     \* current_weight of every lane's cell
  healthy,    \* what each selector's filter left; empty when it is idle
  resetting,  \* recovered lanes whose accumulator is not zeroed yet
  turn        \* history: the picks since the healthy set last changed

vars == <<ready, weight, healthy, resetting, turn>>

Zeroed   == [l \in Lanes |-> 0]
WeightOf(h) == MapThenSumSet(LAMBDA l : Weights[l], h)

\* A turn starts over, remembering whether every accumulator is at rest.
FreshTurn(w) == [over |-> {}, picks |-> Zeroed, rested |-> w = Zeroed]

TypeOK ==
  /\ ready \subseteq Lanes
  /\ weight \in [Lanes -> Int]
  /\ healthy \in [Selectors -> SUBSET Lanes]
  /\ resetting \subseteq Lanes
  /\ turn \in [over : SUBSET Lanes, picks : [Lanes -> Nat], rested : BOOLEAN]

Init ==
  /\ ready = Lanes
  /\ weight = Zeroed
  /\ healthy = [s \in Selectors |-> {}]
  /\ resetting = {}
  /\ turn = FreshTurn(Zeroed)

-----------------------------------------------------------------------------
\* The filter: candidates not excluded by the request, not drained, ready.
Filter(s) ==
  /\ healthy[s] = {}
  /\ \E candidates \in SUBSET Lanes :
       LET h == {l \in candidates \cap ready : Weights[l] # 0}
       IN  h # {} /\ healthy' = [healthy EXCEPT ![s] = h]
  /\ UNCHANGED <<ready, weight, resetting, turn>>

Credited(w, h) == [l \in Lanes |-> IF l \in h THEN w[l] + Weights[l] ELSE w[l]]

\* The first candidate of the largest accumulator.
Best(w, h) == CHOOSE b \in h : \A l \in h : w[b] > w[l] \/ (w[b] = w[l] /\ b <= l)

\* Mutant: a pick forgets what the other lanes were owed.
ChargedForgetting(w, h, b) == Zeroed

Charged(w, h, b) == [w EXCEPT ![b] = @ - WeightOf(h)]

Counted(w, h, b) ==
  LET going == IF turn.over = h /\ MapThenSumSet(LAMBDA l : turn.picks[l], h) < WeightOf(h)
               THEN turn
               ELSE [FreshTurn(weight) EXCEPT !.over = h]
  IN  [going EXCEPT !.picks[b] = @ + 1]

\* Add, find the maximum, subtract: one critical section of the shard lock.
Pick(s) ==
  LET h == healthy[s]
      credited == Credited(weight, h)
      b == Best(credited, h)
  IN  /\ h # {}
      /\ weight' = Charged(credited, h, b)
      /\ healthy' = [healthy EXCEPT ![s] = {}]
      /\ turn' = Counted(weight, h, b)
      /\ UNCHANGED <<ready, resetting>>

-----------------------------------------------------------------------------
\* The lane trips, cools or runs out of budget.
Suppress(l) ==
  /\ l \in ready
  /\ ready' = ready \ {l}
  /\ UNCHANGED <<weight, healthy, resetting, turn>>

\* The lane is admitted again without a recovery: its cooldown has passed.
Readmit(l) ==
  /\ l \notin ready
  /\ ready' = ready \cup {l}
  /\ UNCHANGED <<weight, healthy, resetting, turn>>

\* A probe closes the cell ...
Recover(l) ==
  /\ l \notin ready /\ l \notin resetting
  /\ ready' = ready \cup {l}
  /\ resetting' = resetting \cup {l}
  /\ UNCHANGED <<weight, healthy, turn>>

\* Mutant: the accumulator is reset to the lane's configured weight.
ResetToWeight(l) ==
  /\ l \in resetting
  /\ weight' = [weight EXCEPT ![l] = @ + Weights[l]]
  /\ resetting' = resetting \ {l}
  /\ turn' = FreshTurn(weight')
  /\ UNCHANGED <<ready, healthy>>

\* ... and zeroes its accumulator under the shard lock.
Reset(l) ==
  /\ l \in resetting
  /\ weight' = [weight EXCEPT ![l] = 0]
  /\ resetting' = resetting \ {l}
  /\ turn' = FreshTurn(weight')
  /\ UNCHANGED <<ready, healthy>>

Next ==
  \/ \E s \in Selectors : Filter(s) \/ Pick(s)
  \/ \E l \in Lanes : Suppress(l) \/ Readmit(l) \/ Recover(l) \/ Reset(l)

Spec == Init /\ [][Next]_vars

-----------------------------------------------------------------------------
(* Properties.                                                             *)

(* No lane hoards credit or debt: whatever trips, recovers, is excluded or *)
(* reset in between, an accumulator is never further from rest than one    *)
(* turn of the whole pool for every other lane, so that a lane rejoining   *)
(* the set is neither flooded nor forgotten for longer than that.          *)
CreditBounded ==
  LET bound == (Cardinality(Lanes) - 1) * WeightOf(Lanes)
  IN  \A l \in Lanes : -bound <= weight[l] /\ weight[l] <= bound

(* docs/reliability.md: each member receives traffic proportional to its   *)
(* weight.  A turn of as many picks as the set weighs, begun at rest,      *)
(* gives every member exactly its weight and ends at rest.                 *)
ExactShare ==
  turn.rested /\ MapThenSumSet(LAMBDA l : turn.picks[l], turn.over) = WeightOf(turn.over)
    => \A l \in turn.over : turn.picks[l] = Weights[l]

(* A lane that selections keep considering is picked again and again,      *)
(* however the other lanes come and go, once its own accumulator is no     *)
(* longer reset.                                                           *)
Considered(l) == \E s \in Selectors : l \in healthy[s] /\ Pick(s)
Chosen(l) == \E s \in Selectors : /\ l \in healthy[s]
                                   /\ l = Best(Credited(weight, healthy[s]), healthy[s])
                                   /\ Pick(s)

NoStarvation ==
  \A l \in Lanes :
    []<><<Considered(l)>>_vars /\ <>[][~Reset(l)]_vars => []<><<Chosen(l)>>_vars

=============================================================================
