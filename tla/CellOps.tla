------------------------------ MODULE CellOps ------------------------------
(***************************************************************************)
(* The circuit-breaker cell of src/store.rs as a value, and the functions  *)
(* the store applies to it.  A cell is the record of the atomics of        *)
(* `BreakerCell`; each operator below is what one critical section of the  *)
(* cell's transition lock (or one lock-free read) does to it.  The modules *)
(* BreakerCell (one cell, many requests) and LaneCells (all the cells of a *)
(* lane) decide who applies them and in which order.                       *)
(*                                                                         *)
(* Not here: the lifetime counters `ok` and `err`, which nothing in the    *)
(* breaker reads, and the SWRR accumulator, which module Swrr models.      *)
(***************************************************************************)
EXTENDS Integers, Sequences, FiniteSets

CONSTANTS
  TripMode,               \* BreakerCfg.trip.mode: "consecutive" or "error_rate"
  ConsecutiveN,           \* trip.consecutive_n
  WindowSecs,             \* trip.window_s
  MinRequests,            \* trip.min_requests
  ThresholdNum,           \* trip.threshold = ThresholdNum / ThresholdDen
  ThresholdDen,
  BaseCooldown,           \* base_cooldown_secs
  MaxCooldown,            \* max_cooldown_secs
  HonorRetryAfter,        \* honor_retry_after
  MaxHonoredRetryAfter,   \* ceiling on an honored Retry-After
  HardDownCooldown,       \* hard_down_cooldown_secs
  WindowCapacity,         \* OUTCOME_WINDOW_CAPACITY
  WordBits,               \* width of the word the backoff is shifted in (64)
  PowerOfTwo              \* the powers of two up to that width

(* What src/config_validate.rs accepts of a `breaker:` block, and the     *)
(* definition of PowerOfTwo.                                               *)
ASSUME ConfigAssumption ==
  /\ TripMode \in {"consecutive", "error_rate"}
  /\ ConsecutiveN \in Nat \ {0}
  /\ WindowSecs \in Nat
  /\ MinRequests \in Nat \ {0}
  /\ ThresholdNum \in Nat \ {0} /\ ThresholdDen \in Nat \ {0}
  /\ ThresholdNum <= ThresholdDen
  /\ BaseCooldown \in Nat \ {0}
  /\ MaxCooldown \in Nat /\ BaseCooldown <= MaxCooldown
  /\ HonorRetryAfter \in BOOLEAN
  /\ MaxHonoredRetryAfter \in Nat
  /\ HardDownCooldown \in Nat \ {0}
  /\ WindowCapacity \in Nat \ {0}

ASSUME WordAssumption ==
  /\ WordBits \in Nat \ {0}
  /\ PowerOfTwo \in [0 .. WordBits -> Nat \ {0}]
  /\ PowerOfTwo[0] = 1
  /\ \A k \in 0 .. WordBits - 1 : PowerOfTwo[k + 1] = 2 * PowerOfTwo[k]

-----------------------------------------------------------------------------
Closed   == "closed"      \* ST_CLOSED
Open     == "open"        \* ST_OPEN
HalfOpen == "half_open"   \* ST_HALF_OPEN

Outcome == [ts : Nat, err : BOOLEAN]

Cell == [state    : {Closed, Open, HalfOpen},
         cooldown : Nat,              \* cooldown_until, absolute seconds
         streak   : Nat,
         probe    : BOOLEAN,          \* probe_in_flight
         window   : Seq(Outcome)]     \* outcome_window

FreshCell == [state |-> Closed, cooldown |-> 0, streak |-> 0,
              probe |-> FALSE, window |-> << >>]

NoHint == -1                          \* no Retry-After header
Lesser(a, b)  == IF a <= b THEN a ELSE b
Greater(a, b) == IF a >= b THEN a ELSE b

-----------------------------------------------------------------------------
(* The sliding window of outcomes and the trip condition.                 *)

Pushed(c, now, err) ==
  LET w == c.window
      kept == IF Len(w) >= WindowCapacity THEN Tail(w) ELSE w
  IN  [c EXCEPT !.window = Append(kept, [ts |-> now, err |-> err])]

InWindow(w, now) ==
  {i \in DOMAIN w : w[i].ts >= Greater(now - WindowSecs, 0)}
ErrorsInWindow(w, now) == {i \in InWindow(w, now) : w[i].err}

\* Mutant: a window that ignores its floor of outcomes.
ShouldTripNoFloor(c, now) ==
  IF TripMode = "consecutive"
  THEN c.streak >= ConsecutiveN
  ELSE ThresholdDen * Cardinality(ErrorsInWindow(c.window, now))
         >= ThresholdNum * Cardinality(InWindow(c.window, now))

\* Mutant: an off-by-one in the consecutive threshold.
ShouldTripLate(c, now) ==
  IF TripMode = "consecutive"
  THEN c.streak > ConsecutiveN
  ELSE /\ Cardinality(InWindow(c.window, now)) >= MinRequests
       /\ ThresholdDen * Cardinality(ErrorsInWindow(c.window, now))
            >= ThresholdNum * Cardinality(InWindow(c.window, now))

ShouldTrip(c, now) ==
  IF TripMode = "consecutive"
  THEN c.streak >= ConsecutiveN
  ELSE /\ Cardinality(InWindow(c.window, now)) >= MinRequests
       /\ ThresholdDen * Cardinality(ErrorsInWindow(c.window, now))
            >= ThresholdNum * Cardinality(InWindow(c.window, now))

-----------------------------------------------------------------------------
(* compute_cooldown_with_retry_after.  `checked_shl` on a word fails only  *)
(* for a shift of at least WordBits; the bits it shifts out are lost.      *)

ShiftedLeft(n, k) == (n * PowerOfTwo[k]) % PowerOfTwo[WordBits]

Backoff(streak) ==
  IF streak = 0
  THEN BaseCooldown
  ELSE Lesser(ShiftedLeft(BaseCooldown, Lesser(streak, WordBits - 1)), MaxCooldown)

\* Mutant: the skewed, unclamped jitter the code once had.
JitteredSkewed(d) ==
  LET range == Greater(d \div 10, 1) IN {d + j : j \in -3 * range .. range}

\* Mutant: the jitter band of a short cooldown truncates to nothing.
JitteredTruncated(d) ==
  LET range == d \div 10
  IN  {Lesser(Greater(Greater(d + j, 0), d \div 2), MaxCooldown) : j \in -range .. range}

\* Every value the +-10% jitter can give, clamped to [d/2, MaxCooldown].
Jittered(d) ==
  LET range == Greater(d \div 10, 1)
  IN  {Lesser(Greater(Greater(d + j, 0), d \div 2), MaxCooldown) : j \in -range .. range}

HintFloor(hint) ==
  IF HonorRetryAfter /\ hint # NoHint THEN Lesser(hint, MaxHonoredRetryAfter) ELSE 0

\* Mutant: the skewed jitter is applied last, to the floored cooldown.
CooldownsSkewed(streak, hint) ==
  JitteredSkewed(Greater(Backoff(streak), HintFloor(hint)))

Cooldowns(streak, hint) ==
  {Greater(d, HintFloor(hint)) : d \in Jittered(Backoff(streak))}

-----------------------------------------------------------------------------
(* The critical sections of the transition lock.                           *)

\* Mutant: opening forgets to release the probe.
OpenedProbeKept(c, until) == [c EXCEPT !.cooldown = until, !.state = Open]

\* cell_open_locked
Opened(c, until) ==
  [c EXCEPT !.cooldown = until, !.state = Open, !.probe = FALSE]

\* cell_closed_locked
ClosedAgain(c) ==
  [c EXCEPT !.streak = 0, !.window = << >>, !.cooldown = 0,
            !.state = Closed, !.probe = FALSE]

\* Mutant: a failure on an Open cell escalates it again.
AfterFailureEscalating(c, now, hint) ==
  LET struck == [c EXCEPT !.streak = @ + 1]
  IN  {IF c.state # Closed \/ ShouldTrip(struck, now)
       THEN Opened(struck, now + d)
       ELSE [struck EXCEPT !.cooldown = now + d] :
         d \in Cooldowns(struck.streak, hint)}

\* The part of cell_record_failure under the lock: the set of cells it may
\* leave, one per value of the jitter.
AfterFailure(c, now, hint) ==
  LET struck == [c EXCEPT !.streak = @ + 1]
  IN  IF c.state = Open
      THEN {c}
      ELSE {IF c.state = HalfOpen \/ ShouldTrip(struck, now)
            THEN Opened(struck, now + d)
            ELSE [struck EXCEPT !.cooldown = now + d] :
              d \in Cooldowns(struck.streak, hint)}

\* Mutant: the streak is reset by every success, as the code once did.
AfterSuccessResetting(c, now) ==
  LET seen == Pushed([c EXCEPT !.streak = 0], now, FALSE)
  IN  IF c.state = HalfOpen THEN ClosedAgain(seen) ELSE seen

\* Mutant: a success closes whatever it finds.
AfterSuccessAlwaysCloses(c, now) ==
  ClosedAgain(Pushed([c EXCEPT !.streak = 0], now, FALSE))

\* cell_record_success
AfterSuccess(c, now) ==
  LET calm == IF c.state = Open THEN c ELSE [c EXCEPT !.streak = 0]
      seen == Pushed(calm, now, FALSE)
  IN  IF c.state = HalfOpen THEN ClosedAgain(seen) ELSE seen

\* The per-cell trip of record_hard_down_all_cells.
HardDowned(c, now) == Opened(c, now + HardDownCooldown)

\* cell_release_probe
ProbeReleased(c) ==
  [c EXCEPT !.state = IF @ = HalfOpen THEN Open ELSE @, !.probe = FALSE]

\* Suppressed as `recover_lane` and `lane_needs_probe` understand it.
Suppressed(c, now) == c.state # Closed \/ c.cooldown > now

\* cell_closed_if_recoverable
Recovered(c, now, observed) ==
  IF c.cooldown <= observed /\ Suppressed(c, now) THEN ClosedAgain(c) ELSE c

-----------------------------------------------------------------------------
(* Admission.                                                              *)

\* cell_ready_breaker, the side-effect-free peek of selection.
Ready(c, now) == c.state \in {Closed, Open} /\ now >= c.cooldown

\* Mutant: any Open cell may be probed.
ProbeWinnableEarly(c, now) == c.state = Open

\* What cell_acquire_breaker re-checks under the transition lock.
ProbeWinnable(c, now) == c.state = Open /\ now >= c.cooldown

ProbeWon(c) == [c EXCEPT !.state = HalfOpen, !.probe = TRUE]

=============================================================================
