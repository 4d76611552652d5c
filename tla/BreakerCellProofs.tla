------------------------- MODULE BreakerCellProofs -------------------------
(***************************************************************************)
(* The safety of BreakerCell for any number of requests and permits, any   *)
(* clock bound and every configuration the validator accepts, and the      *)
(* documented state machine it implements.                                 *)
(*                                                                         *)
(* Inv is inductive as it stands: the properties of the cell need to know  *)
(* of the rest of the state only that times carried across steps are past. *)
(***************************************************************************)
EXTENDS BreakerCell, FiniteSetTheorems, TLAPS

-----------------------------------------------------------------------------
(* Cooldowns.                                                              *)

\* The shift in a fixed-width word yields a word.
LEMMA ShiftTyped ==
  ASSUME NEW n \in Nat, NEW k \in 0 .. WordBits
  PROVE  ShiftedLeft(n, k) \in Nat
<1> DEFINE p == PowerOfTwo[k]
           w == PowerOfTwo[WordBits]
<1>1. p \in Nat /\ w \in Nat \ {0}
  BY WordAssumption
<1> HIDE DEF p, w
<1>2. n * p \in Nat
  BY <1>1
<1> DEFINE m == n * p
<1>3. m \in Nat
  BY <1>2
<1> HIDE DEF m
<1>4. m % w \in Nat
  BY <1>1, <1>3
<1> QED
  BY <1>4 DEF ShiftedLeft, m, p, w

\* The backoff before jitter is a time no longer than the configured maximum.
LEMMA BackoffTyped ==
  ASSUME NEW streak \in Nat
  PROVE  Backoff(streak) \in Nat /\ Backoff(streak) <= MaxCooldown
<1> DEFINE k == Lesser(streak, WordBits - 1)
<1>1. k \in 0 .. WordBits
  BY WordAssumption DEF Lesser
<1>2. ShiftedLeft(BaseCooldown, k) \in Nat
  BY <1>1, ShiftTyped, ConfigAssumption
<1> HIDE DEF k
<1> QED
  BY <1>2, ConfigAssumption DEF Backoff, Lesser, k

\* Jitter keeps a time a time, at least half of it and at most the maximum.
LEMMA JitterBounds ==
  ASSUME NEW d \in Nat, d <= MaxCooldown, NEW x \in Jittered(d)
  PROVE  x \in Nat /\ d \div 2 <= x /\ x <= MaxCooldown
<1> DEFINE range == Greater(d \div 10, 1)
<1>1. range \in Nat
  BY DEF Greater
<1>2. PICK j \in -range .. range :
        x = Lesser(Greater(Greater(d + j, 0), d \div 2), MaxCooldown)
  BY DEF Jittered
<1>3. j \in Int
  BY <1>1, <1>2
<1>4. d \div 2 \in Nat /\ d \div 2 <= d
  OBVIOUS
<1> HIDE DEF range
<1> QED
  BY <1>2, <1>3, <1>4, ConfigAssumption DEF Lesser, Greater

\* The floor of a Retry-After is a number of seconds.
LEMMA HintTyped ==
  ASSUME NEW asked \in Nat \cup {NoHint}
  PROVE  HintFloor(asked) \in Nat
BY ConfigAssumption DEF HintFloor, Lesser, NoHint

\* A cooldown is at least half the backoff and at least what an honored
\* Retry-After asks for.
LEMMA CooldownBounds ==
  ASSUME NEW streak \in Nat, NEW asked \in Nat \cup {NoHint},
         NEW d \in Cooldowns(streak, asked)
  PROVE  d \in Nat /\ HintFloor(asked) <= d /\ Backoff(streak) \div 2 <= d
<1> DEFINE b == Backoff(streak)
           f == HintFloor(asked)
<1>1. b \in Nat /\ b <= MaxCooldown /\ f \in Nat
  BY BackoffTyped, HintTyped
<1>2. PICK x \in Jittered(b) : d = Greater(x, f)
  BY DEF Cooldowns
<1> HIDE DEF b, f
<1>3. x \in Nat /\ b \div 2 <= x
  BY <1>1, <1>2, JitterBounds
<1>4. b \div 2 \in Nat
  BY <1>1
<1>5. d \in Nat /\ f <= d /\ b \div 2 <= d
  BY <1>1, <1>2, <1>3, <1>4 DEF Greater
<1> QED
  BY <1>5 DEF b, f

-----------------------------------------------------------------------------
(* The critical sections keep a cell a cell.                               *)

\* An outcome is recorded in the window and nowhere else.
LEMMA PushedTyped ==
  ASSUME NEW c \in Cell, NEW t \in Nat, NEW err \in BOOLEAN
  PROVE  /\ Pushed(c, t, err) \in Cell
         /\ Pushed(c, t, err).state = c.state
         /\ Pushed(c, t, err).cooldown = c.cooldown
         /\ Pushed(c, t, err).streak = c.streak
         /\ Pushed(c, t, err).probe = c.probe
<1> DEFINE w == c.window
           kept == IF Len(w) >= WindowCapacity THEN Tail(w) ELSE w
           o == [ts |-> t, err |-> err]
<1>1. w \in Seq(Outcome)
  BY DEF Cell
<1>2. o \in Outcome
  BY DEF Outcome
<1>3. Len(w) >= WindowCapacity => w # << >>
  BY <1>1, ConfigAssumption
<1>4. kept \in Seq(Outcome)
  BY <1>1, <1>3
<1>5. Append(kept, o) \in Seq(Outcome)
  BY <1>2, <1>4
<1> HIDE DEF w, kept, o
<1>6. Pushed(c, t, err) = [c EXCEPT !.window = Append(kept, o)]
  BY DEF Pushed, w, kept, o
<1> QED
  BY <1>5, <1>6 DEF Cell

\* A new cell is a cell that nobody probes.
LEMMA NewbornTyped ==
  ASSUME NEW c \in NewbornCells
  PROVE  c \in Cell /\ c.state \in {Closed, Open} /\ ~c.probe
<1>1. FreshCell \in Cell
  BY DEF FreshCell, Cell, Closed, Open, HalfOpen
<1>2. PICK seen \in [state : {Closed, Open}, cooldown : InheritedCooldowns,
                      streak : InheritedStreaks] :
        c = [FreshCell EXCEPT !.state = seen.state, !.cooldown = seen.cooldown,
                              !.streak = seen.streak]
  BY DEF NewbornCells
<1>3. seen.cooldown \in Nat /\ seen.streak \in Nat /\ seen.state \in {Closed, Open}
  BY SystemAssumption
<1> QED
  BY <1>1, <1>2, <1>3 DEF Cell, FreshCell

\* Opening sets the deadline and releases the probe.
LEMMA OpenedTyped ==
  ASSUME NEW c \in Cell, NEW until \in Nat
  PROVE  /\ Opened(c, until) \in Cell
         /\ Opened(c, until).state = Open
         /\ Opened(c, until).cooldown = until
         /\ Opened(c, until).streak = c.streak
         /\ Opened(c, until).probe = FALSE
BY DEF Opened, Cell

\* Closing forgets the deadline, the streak and the probe.
LEMMA ClosedAgainTyped ==
  ASSUME NEW c \in Cell
  PROVE  /\ ClosedAgain(c) \in Cell
         /\ ClosedAgain(c).state = Closed
         /\ ClosedAgain(c).cooldown = 0
         /\ ClosedAgain(c).streak = 0
         /\ ClosedAgain(c).probe = FALSE
<1>1. << >> \in Seq(Outcome)
  OBVIOUS
<1> QED
  BY <1>1 DEF ClosedAgain, Cell

\* A hard-down opens, and keeps the streak.
LEMMA HardDownedTyped ==
  ASSUME NEW c \in Cell, NEW t \in Nat
  PROVE  /\ HardDowned(c, t) \in Cell
         /\ HardDowned(c, t).state = Open
         /\ HardDowned(c, t).cooldown = t + HardDownCooldown
         /\ HardDowned(c, t).streak = c.streak
         /\ HardDowned(c, t).probe = FALSE
<1>1. t + HardDownCooldown \in Nat
  BY ConfigAssumption
<1> QED
  BY <1>1, OpenedTyped DEF HardDowned

\* A release turns HalfOpen back to Open and keeps the deadline.
LEMMA ReleasedTyped ==
  ASSUME NEW c \in Cell
  PROVE  /\ ProbeReleased(c) \in Cell
         /\ ProbeReleased(c).state = IF c.state = HalfOpen THEN Open ELSE c.state
         /\ ProbeReleased(c).cooldown = c.cooldown
         /\ ProbeReleased(c).streak = c.streak
         /\ ProbeReleased(c).probe = FALSE
BY DEF ProbeReleased, Cell

\* A won probe makes the cell HalfOpen, owned.
LEMMA WonTyped ==
  ASSUME NEW c \in Cell
  PROVE  /\ ProbeWon(c) \in Cell
         /\ ProbeWon(c).state = HalfOpen
         /\ ProbeWon(c).cooldown = c.cooldown
         /\ ProbeWon(c).streak = c.streak
         /\ ProbeWon(c).probe = TRUE
BY DEF ProbeWon, Cell

\* A recovery closes the cell or leaves it.
LEMMA RecoveredTyped ==
  ASSUME NEW c \in Cell, NEW t \in Nat, NEW observed \in Nat
  PROVE  \/ Recovered(c, t, observed) = c
         \/ Recovered(c, t, observed) = ClosedAgain(c)
BY DEF Recovered

-----------------------------------------------------------------------------
(* What a recorded outcome may do.                                         *)

\* A success closes a HalfOpen cell, forgives the streak of a Closed one and
\* changes nothing of an Open one but its window.
LEMMA AfterSuccessCases ==
  ASSUME NEW c \in Cell, NEW t \in Nat
  PROVE  LET n == AfterSuccess(c, t)
         IN  /\ n \in Cell
             /\ c.state = HalfOpen =>
                  n.state = Closed /\ n.cooldown = 0 /\ n.streak = 0 /\ ~n.probe
             /\ c.state = Closed =>
                  /\ n.state = Closed /\ n.cooldown = c.cooldown
                  /\ n.streak = 0 /\ n.probe = c.probe
             /\ c.state = Open =>
                  /\ n.state = Open /\ n.cooldown = c.cooldown
                  /\ n.streak = c.streak /\ n.probe = c.probe
<1> DEFINE calm == IF c.state = Open THEN c ELSE [c EXCEPT !.streak = 0]
           seen == Pushed(calm, t, FALSE)
<1>1. /\ calm \in Cell
      /\ calm.state = c.state /\ calm.cooldown = c.cooldown /\ calm.probe = c.probe
      /\ calm.streak = IF c.state = Open THEN c.streak ELSE 0
  BY DEF Cell
<1> HIDE DEF calm
<1>2. /\ seen \in Cell
      /\ seen.state = c.state /\ seen.cooldown = c.cooldown /\ seen.probe = c.probe
      /\ seen.streak = IF c.state = Open THEN c.streak ELSE 0
  BY <1>1, PushedTyped
<1> HIDE DEF seen
<1>3. AfterSuccess(c, t) = IF c.state = HalfOpen THEN ClosedAgain(seen) ELSE seen
  BY DEF AfterSuccess, seen, calm
<1>4. c.state \in {Closed, Open, HalfOpen}
  BY DEF Cell
<1> QED
  BY <1>2, <1>3, <1>4, ClosedAgainTyped DEF Closed, Open, HalfOpen

\* A failure leaves an Open cell alone, reopens a HalfOpen one, and trips or
\* cools a Closed one; it cools it only while the trip condition is unmet.
LEMMA AfterFailureCases ==
  ASSUME NEW c \in Cell, NEW t \in Nat, NEW asked \in Nat \cup {NoHint},
         NEW n \in AfterFailure(c, t, asked)
  PROVE  /\ n \in Cell
         /\ c.state = Open => n = c
         /\ c.state # Open => n.streak = c.streak + 1 /\ n.cooldown \in Nat
         /\ c.state = HalfOpen => n.state = Open /\ ~n.probe
         /\ c.state = Closed =>
              \/ n.state = Open /\ ~n.probe
              \/ /\ n.state = Closed /\ n.probe = c.probe
                 /\ TripMode = "consecutive" => n.streak < ConsecutiveN
<1>1. CASE c.state = Open
  BY <1>1 DEF AfterFailure, Closed, Open, HalfOpen
<1>2. CASE c.state # Open
  <2> DEFINE struck == [c EXCEPT !.streak = @ + 1]
  <2>1. /\ struck \in Cell
        /\ struck.state = c.state /\ struck.probe = c.probe
        /\ struck.streak = c.streak + 1 /\ struck.streak \in Nat
    BY DEF Cell
  <2> HIDE DEF struck
  <2>2. PICK d \in Cooldowns(struck.streak, asked) :
          n = IF c.state = HalfOpen \/ ShouldTrip(struck, t)
              THEN Opened(struck, t + d)
              ELSE [struck EXCEPT !.cooldown = t + d]
    BY <1>2 DEF AfterFailure, struck
  <2>3. t + d \in Nat
    BY <2>1, <2>2, CooldownBounds
  <2>4. CASE c.state = HalfOpen \/ ShouldTrip(struck, t)
    <3>1. n = Opened(struck, t + d)
      BY <2>2, <2>4
    <3> QED
      BY <1>2, <2>1, <2>3, <3>1, OpenedTyped DEF Closed, Open, HalfOpen
  <2>5. CASE ~(c.state = HalfOpen \/ ShouldTrip(struck, t))
    <3>1. n = [struck EXCEPT !.cooldown = t + d]
      BY <2>2, <2>5
    <3>2. c.state = Closed
      BY <1>2, <2>5 DEF Cell
    <3>3. TripMode = "consecutive" => struck.streak < ConsecutiveN
      BY <2>1, <2>5, ConfigAssumption DEF ShouldTrip
    <3>4. /\ n \in Cell /\ n.state = struck.state /\ n.probe = struck.probe
          /\ n.streak = struck.streak /\ n.cooldown = t + d
      BY <2>1, <2>3, <3>1 DEF Cell
    <3> QED
      BY <2>1, <2>3, <3>2, <3>3, <3>4 DEF Closed, Open, HalfOpen
  <2> QED
    BY <2>4, <2>5
<1> QED
  BY <1>1, <1>2

-----------------------------------------------------------------------------
(* The inductive invariant.                                                *)

Inv == /\ TypeOK
       /\ PastTimes
       /\ ProbeFlagIsHalfOpen
       /\ HalfOpenHasExpired

\* What the cell alone must satisfy at a given time.
CellGood(c, t) ==
  /\ c \in Cell
  /\ c.probe <=> c.state = HalfOpen
  /\ c.state = HalfOpen => c.cooldown <= t

Probers == [pc : {"idle", "asking", "closing", "crediting", "failing"},
            at : Nat, hint : Hints, observed : Nat]

\* What the processes must satisfy at a given time.
TasksGood ==
  /\ now \in Nat
  /\ pc \in [Requests -> Stages]
  /\ path \in [Requests -> {"main", "fallback", "least_bad"}]
  /\ at \in [Requests -> Nat]
  /\ hint \in [Requests -> Hints]
  /\ won \subseteq Requests
  /\ prober \in Probers
  /\ PastTimes

\* The invariant speaks of the cell and of the tasks, separately.
LEMMA InvSplits == Inv <=> CellGood(cell, now) /\ TasksGood
BY DEF Inv, CellGood, TasksGood, Probers, TypeOK, ProbeFlagIsHalfOpen,
       HalfOpenHasExpired

-----------------------------------------------------------------------------
(* Every operation of the store keeps a good cell good.                    *)

\* Recording an outcome touches nothing the invariant reads.
LEMMA PushedGood ==
  ASSUME NEW c, NEW t \in Nat, CellGood(c, t), NEW err \in BOOLEAN
  PROVE  CellGood(Pushed(c, t, err), t)
BY PushedTyped DEF CellGood

\* A success closes a HalfOpen cell and trips nothing.
LEMMA SuccessGood ==
  ASSUME NEW c, NEW t \in Nat, CellGood(c, t)
  PROVE  CellGood(AfterSuccess(c, t), t)
<1>1. c.state \in {Closed, Open, HalfOpen}
  BY DEF CellGood, Cell
<1> QED
  BY <1>1, AfterSuccessCases DEF CellGood, Closed, Open, HalfOpen

\* A failure counts, and trips the cell at the threshold.
LEMMA FailureGood ==
  ASSUME NEW c, NEW t \in Nat, CellGood(c, t),
         NEW u \in Nat, NEW h \in Nat \cup {NoHint}, NEW n \in AfterFailure(c, u, h)
  PROVE  CellGood(n, t)
<1>1. c.state \in {Closed, Open, HalfOpen}
  BY DEF CellGood, Cell
<1> QED
  BY <1>1, AfterFailureCases DEF CellGood, Closed, Open, HalfOpen

\* A hard-down opens whatever it finds.
LEMMA HardDownGood ==
  ASSUME NEW c, NEW t \in Nat, CellGood(c, t)
  PROVE  CellGood(HardDowned(c, t), t)
BY HardDownedTyped DEF CellGood, Closed, Open, HalfOpen

\* A released probe leaves an Open cell whose deadline has passed.
LEMMA ReleaseGood ==
  ASSUME NEW c, NEW t \in Nat, CellGood(c, t)
  PROVE  CellGood(ProbeReleased(c), t)
BY ReleasedTyped DEF CellGood, Closed, Open, HalfOpen

\* A probe is won only on an expired Open cell.
LEMMA WonGood ==
  ASSUME NEW c, NEW t \in Nat, CellGood(c, t), NEW u \in Nat, u <= t,
         ProbeWinnable(c, u)
  PROVE  CellGood(ProbeWon(c), t)
<1>1. c.cooldown \in Nat /\ c.cooldown <= t
  BY DEF CellGood, Cell, ProbeWinnable
<1> QED
  BY <1>1, WonTyped DEF CellGood, Closed, Open, HalfOpen

\* A recovery closes the cell or leaves it alone.
LEMMA RecoveredGood ==
  ASSUME NEW c, NEW t \in Nat, CellGood(c, t), NEW u \in Nat, NEW o \in Nat
  PROVE  CellGood(Recovered(c, u, o), t)
<1>1. c \in Cell
  BY DEF CellGood
<1>2. CellGood(ClosedAgain(c), t)
  BY <1>1, ClosedAgainTyped DEF CellGood, Closed, Open, HalfOpen
<1> QED
  BY <1>1, <1>2, RecoveredTyped

-----------------------------------------------------------------------------
(* The steps.                                                              *)

\* A Retry-After is a number of seconds, or absent.
LEMMA HintsTyped == Hints \subseteq Nat \cup {NoHint}
BY SystemAssumption DEF Hints

\* The invariant holds at first.
LEMMA InitInv == Init => Inv
<1> SUFFICES ASSUME Init PROVE Inv
  OBVIOUS
<1>1. CellGood(cell, now)
  BY NewbornTyped DEF Init, CellGood, Closed, Open, HalfOpen
<1>2. TasksGood
  BY DEF Init, TasksGood, PastTimes, Stages, Hints, Probers
<1> QED
  BY <1>1, <1>2, InvSplits

\* A request that is over leaves the tasks good.
LEMMA FinishedGood ==
  ASSUME TasksGood, NEW r \in Requests, Finished(r), UNCHANGED <<now, prober>>
  PROVE  TasksGood'
BY DEF TasksGood, Finished, PastTimes, Stages, Hints

\* A request that moves to another stage, taking the time or keeping it.
LEMMA GoesGood ==
  ASSUME TasksGood, NEW r \in Requests, NEW s \in Stages, Goes(r, s),
         UNCHANGED <<now, prober>>,
         at' = at \/ at' = [at EXCEPT ![r] = now],
         path' = path \/ \E p \in Paths \cup {"main"} : path' = [path EXCEPT ![r] = p],
         hint' = hint \/ \E h \in Hints : hint' = [hint EXCEPT ![r] = h],
         won' \in {won, won \cup {r}, won \ {r}}
  PROVE  TasksGood'
<1>1. path' \in [Requests -> {"main", "fallback", "least_bad"}]
  BY SystemAssumption DEF TasksGood
<1>2. at' \in [Requests -> Nat] /\ \A q \in Requests : at'[q] <= now
  BY DEF TasksGood, PastTimes
<1>3. hint' \in [Requests -> Hints]
  BY DEF TasksGood
<1>4. pc' \in [Requests -> Stages]
  BY DEF TasksGood, Goes
<1> QED
  BY <1>1, <1>2, <1>3, <1>4 DEF TasksGood, PastTimes

Phases == {"idle", "asking", "closing", "crediting", "failing"}

\* The prober moves from a phase to the next.
LEMMA ProberMoves ==
  ASSUME NEW p \in Probers, NEW s \in Phases
  PROVE  [p EXCEPT !.pc = s] \in Probers /\ [p EXCEPT !.pc = s].at = p.at
BY DEF Probers, Phases

\* Nor does a move of the prober disturb the requests.
LEMMA ProberGood ==
  ASSUME TasksGood, UNCHANGED <<now, pc, path, at, hint, won>>,
         prober' \in Probers,
         prober'.at <= now
  PROVE  TasksGood'
BY DEF TasksGood, PastTimes

\* Every step keeps the invariant.
LEMMA StepInv == Inv /\ [Next]_vars => Inv'
<1> SUFFICES ASSUME Inv, [Next]_vars PROVE Inv'
  OBVIOUS
<1>1. CellGood(cell, now) /\ TasksGood
  BY InvSplits
<1>2. now \in Nat /\ cell \in Cell /\ \A r \in Requests :
         at[r] \in Nat /\ at[r] <= now /\ hint[r] \in Nat \cup {NoHint}
  BY <1>1, HintsTyped DEF CellGood, TasksGood, PastTimes
<1>3. /\ prober \in Probers
      /\ prober.at \in Nat /\ prober.at <= now /\ prober.observed \in Nat
      /\ prober.hint \in Nat \cup {NoHint} /\ NoHint \in Hints
  BY <1>1, HintsTyped DEF TasksGood, PastTimes, Probers, Hints
<1> SUFFICES CellGood(cell', now') /\ TasksGood'
  BY DEF Inv, CellGood, TasksGood, Probers, TypeOK, ProbeFlagIsHalfOpen,
         HalfOpenHasExpired
<1>4. ASSUME NEW r \in Requests, Admission(r) PROVE CellGood(cell', now') /\ TasksGood'
  <2>1. CASE Choose(r)
    BY <1>1, <2>1, GoesGood DEF Choose, Stages
  <2>2. CASE Precheck(r)
    <3>1. CASE Goes(r, "admitted") /\ UNCHANGED <<path, at, hint, won>>
      BY <1>1, <2>2, <3>1, GoesGood DEF Precheck, Stages
    <3>2. CASE Goes(r, "locking") /\ UNCHANGED <<path, at, hint, won>>
      BY <1>1, <2>2, <3>2, GoesGood DEF Precheck, Stages
    <3>3. CASE Finished(r)
      BY <1>1, <2>2, <3>3, FinishedGood DEF Precheck
    <3> QED
      BY <2>2, <3>1, <3>2, <3>3 DEF Precheck
  <2>3. CASE LockProbe(r)
    <3>1. CASE ProbeWinnable(cell, at[r])
      <4>1. CellGood(cell', now')
        BY <1>1, <1>2, <2>3, <3>1, WonGood DEF LockProbe
      <4>2. TasksGood'
        BY <1>1, <2>3, <3>1, GoesGood DEF LockProbe, Stages
      <4> QED
        BY <4>1, <4>2
    <3>2. CASE ~ProbeWinnable(cell, at[r])
      BY <1>1, <2>3, <3>2, FinishedGood DEF LockProbe
    <3> QED
      BY <3>1, <3>2
  <2>4. CASE TakePermit(r)
    BY <1>1, <2>4, GoesGood DEF TakePermit, Stages
  <2>5. CASE Unpark(r)
    BY <1>1, <2>5, GoesGood DEF Unpark, Stages
  <2>6. CASE GiveUp(r)
    BY <1>1, <1>2, <2>6, ReleaseGood, FinishedGood DEF GiveUp
  <2>7. CASE DispatchLeastBad(r)
    BY <1>1, <2>7, GoesGood DEF DispatchLeastBad, Stages
  <2> QED
    BY <1>4, <2>1, <2>2, <2>3, <2>4, <2>5, <2>6, <2>7 DEF Admission
<1>5. ASSUME NEW r \in Requests, NEW h \in Hints, BeginFailure(r, h)
      PROVE  CellGood(cell', now') /\ TasksGood'
  <2>1. CellGood(cell', now')
    BY <1>1, <1>2, <1>5, PushedGood DEF BeginFailure
  <2>2. TasksGood'
    BY <1>1, <1>5, GoesGood DEF BeginFailure, Stages
  <2> QED
    BY <2>1, <2>2
<1>6. ASSUME NEW r \in Requests, Answer(r) PROVE CellGood(cell', now') /\ TasksGood'
  <2>1. CASE AnswerOk(r)
    <3>1. CellGood(cell', now')
      BY <1>1, <1>2, <2>1, SuccessGood DEF AnswerOk
    <3>2. TasksGood'
      BY <1>1, <2>1, GoesGood DEF AnswerOk, Stages
    <3> QED
      BY <3>1, <3>2
  <2>2. CASE AnswerTransient(r)
    BY <1>3, <1>5, <2>2 DEF AnswerTransient
  <2>3. CASE AnswerHardDown(r)
    BY <1>1, <1>2, <2>3, HardDownGood, FinishedGood DEF AnswerHardDown
  <2>4. CASE AnswerNeutral(r)
    BY <1>1, <1>2, <2>4, ReleaseGood, FinishedGood DEF AnswerNeutral
  <2> QED
    BY <1>6, <2>1, <2>2, <2>3, <2>4 DEF Answer
<1>7. ASSUME NEW r \in Requests, Completion(r) PROVE CellGood(cell', now') /\ TasksGood'
  <2>1. CASE RecordFailure(r)
    <3>1. CellGood(cell', now')
      BY <1>1, <1>2, <2>1, FailureGood DEF RecordFailure
    <3>2. CASE Finished(r)
      BY <1>1, <2>1, <3>1, <3>2, FinishedGood DEF RecordFailure
    <3>3. CASE Goes(r, "releasing") /\ UNCHANGED <<path, at, hint, won>>
      BY <1>1, <2>1, <3>1, <3>3, GoesGood DEF RecordFailure, Stages
    <3> QED
      BY <2>1, <3>2, <3>3 DEF RecordFailure
  <2>2. CASE ReleaseAfterFailure(r)
    BY <1>1, <1>2, <2>2, ReleaseGood, FinishedGood DEF ReleaseAfterFailure
  <2>3. CASE StreamFails(r)
    BY <1>3, <1>5, <2>3 DEF StreamFails
  <2>4. CASE StreamEnds(r)
    BY <1>1, <2>4, FinishedGood DEF StreamEnds
  <2> QED
    BY <1>7, <2>1, <2>2, <2>3, <2>4 DEF Completion
<1>8. ASSUME NEW r \in Requests, Disconnect(r) PROVE CellGood(cell', now') /\ TasksGood'
  BY <1>1, <1>8, FinishedGood DEF Disconnect
<1>9. CASE ProbeSend
  BY <1>1, <1>3, <1>9, ProberMoves, ProberGood DEF ProbeSend, Phases
<1>10. CASE ProberAnswer
  <2>1. CASE ProbeAnswersOk
    <3>1. cell.cooldown \in Nat
      BY <1>2 DEF Cell
    <3>2. CASE prober' = [prober EXCEPT !.pc = "closing", !.at = now, !.observed = cell.cooldown]
      <4>1. prober' \in Probers
        BY <1>2, <1>3, <3>1, <3>2 DEF Probers
      <4>2. prober'.at = now
        BY <1>3, <3>2 DEF Probers
      <4> QED
        BY <1>1, <1>2, <2>1, <4>1, <4>2, ProberGood DEF ProbeAnswersOk
    <3>3. CASE prober' = [prober EXCEPT !.pc = "crediting"]
      BY <1>1, <1>3, <2>1, <3>3, ProberMoves, ProberGood DEF ProbeAnswersOk, Phases
    <3> QED
      BY <2>1, <3>2, <3>3 DEF ProbeAnswersOk
  <2>2. CASE ProbeAnswersTransient
    <3>1. CellGood(cell', now')
      BY <1>1, <1>2, <2>2, PushedGood DEF ProbeAnswersTransient
    <3>2. PICK h \in Hints :
            prober' = [prober EXCEPT !.pc = "failing", !.at = now, !.hint = h]
      BY <2>2 DEF ProbeAnswersTransient
    <3>3. prober' \in Probers
      BY <1>2, <1>3, <3>2 DEF Probers
    <3>4. prober'.at = now
      BY <1>3, <3>2 DEF Probers
    <3> QED
      <4>1. prober'.at <= now
        BY <1>2, <3>4
      <4> QED
        BY <1>1, <2>2, <3>1, <3>3, <4>1, ProberGood DEF ProbeAnswersTransient
  <2>3. CASE ProbeAnswersHardDown
    <3>1. CellGood(cell', now')
      BY <1>1, <1>2, <2>3, HardDownGood DEF ProbeAnswersHardDown
    <3>2. prober' \in Probers /\ prober'.at <= now
      BY <1>3, <2>3, ProberMoves DEF ProbeAnswersHardDown, Phases
    <3> QED
      BY <1>1, <2>3, <3>1, <3>2, ProberGood DEF ProbeAnswersHardDown
  <2>4. CASE ProbeAnswersNeutral
    BY <1>1, <1>3, <2>4, ProberMoves, ProberGood DEF ProbeAnswersNeutral, Phases
  <2> QED
    BY <1>10, <2>1, <2>2, <2>3, <2>4 DEF ProberAnswer
<1>11. CASE ProberRecord
  <2>1. CASE ProbeCloses
    <3>1. CellGood(cell', now')
      BY <1>1, <1>2, <1>3, <2>1, RecoveredGood DEF ProbeCloses
    <3>2. prober' \in Probers /\ prober'.at <= now
      <4>1. prober' = [prober EXCEPT !.pc = "crediting", !.at = 0, !.observed = 0]
        BY <2>1 DEF ProbeCloses
      <4>2. prober' \in Probers
        BY <1>2, <1>3, <4>1 DEF Probers
      <4>3. prober'.at = 0
        BY <1>3, <4>1 DEF Probers
      <4> QED
        BY <1>2, <4>2, <4>3
    <3> QED
      BY <1>1, <2>1, <3>1, <3>2, ProberGood DEF ProbeCloses
  <2>2. CASE ProbeCredits
    <3>1. CellGood(cell', now')
      BY <1>1, <1>2, <2>2, SuccessGood DEF ProbeCredits
    <3>2. prober' \in Probers /\ prober'.at <= now
      BY <1>3, <2>2, ProberMoves DEF ProbeCredits, Phases
    <3> QED
      BY <1>1, <2>2, <3>1, <3>2, ProberGood DEF ProbeCredits
  <2>3. CASE ProbeRecordsFailure
    <3>1. CellGood(cell', now')
      BY <1>1, <1>2, <1>3, <2>3, FailureGood DEF ProbeRecordsFailure
    <3>2. prober' \in Probers /\ prober'.at <= now
      <4>1. prober' = [prober EXCEPT !.pc = "idle", !.at = 0, !.hint = NoHint]
        BY <2>3 DEF ProbeRecordsFailure
      <4>2. prober' \in Probers
        BY <1>2, <1>3, <4>1 DEF Probers
      <4>3. prober'.at = 0
        BY <1>3, <4>1 DEF Probers
      <4> QED
        BY <1>2, <4>2, <4>3
    <3> QED
      BY <1>1, <2>3, <3>1, <3>2, ProberGood DEF ProbeRecordsFailure
  <2> QED
    BY <1>11, <2>1, <2>2, <2>3 DEF ProberRecord
<1>12. CASE Tick
  <2>1. now' \in Nat /\ now' > now
    BY <1>2, <1>12 DEF Tick
  <2>2. cell.cooldown \in Nat
    BY <1>2 DEF Cell
  <2>3. CellGood(cell', now')
    BY <1>1, <1>2, <1>12, <2>1, <2>2 DEF Tick, CellGood
  <2>4. TasksGood'
    BY <1>1, <1>2, <1>3, <1>12, <2>1 DEF Tick, TasksGood, PastTimes
  <2> QED
    BY <2>3, <2>4
<1>13. CASE UNCHANGED vars
  BY <1>1, <1>13 DEF vars, CellGood, TasksGood, PastTimes
<1> QED
  BY <1>4, <1>6, <1>7, <1>8, <1>9, <1>10, <1>11, <1>12, <1>13 DEF Next

(* Every reachable state is well typed, whatever the configuration.        *)
THEOREM TypeCorrect == Spec => []TypeOK
<1>1. Inv => TypeOK
  BY DEF Inv
<1> QED
  BY <1>1, InitInv, StepInv, PTL DEF Spec

(* The inductive invariant holds throughout.                               *)
THEOREM InvHolds == Spec => []Inv
BY InitInv, StepInv, PTL DEF Spec

(* The probe flag never disagrees with the state of the cell, so no race   *)
(* of outcomes, releases and recoveries can bench a lane by the flag alone.*)
THEOREM FlagCorrect == Spec => []ProbeFlagIsHalfOpen
<1>1. Inv => ProbeFlagIsHalfOpen
  BY DEF Inv
<1> QED
  BY <1>1, InvHolds, PTL

(* A probe is never in flight on a cell whose cooldown is still to come.   *)
THEOREM ExpiryCorrect == Spec => []HalfOpenHasExpired
<1>1. Inv => HalfOpenHasExpired
  BY DEF Inv
<1> QED
  BY <1>1, InvHolds, PTL

-----------------------------------------------------------------------------
(* What a step may do to the cell: the action properties of its streak and *)
(* of its deadline, and the refinement of the documented state machine.    *)

\* A probe of the prober is only ever under way where one is configured.
ProberConfigured == prober.pc # "idle" => HealthMode # "none"

\* The prober idles at first.
LEMMA InitConfigured == Init => ProberConfigured
BY DEF Init, ProberConfigured

\* No step starts the prober where none is configured.
LEMMA StepConfigured == ProberConfigured /\ [Next]_vars => ProberConfigured'
<1> SUFFICES ASSUME ProberConfigured, [Next]_vars PROVE ProberConfigured'
  OBVIOUS
<1>1. CASE ProbeSend
  BY <1>1 DEF ProbeSend, ProberConfigured
<1>2. CASE ProberAnswer
  BY <1>2 DEF ProberAnswer, ProbeAnswersOk, ProbeAnswersTransient, ProbeAnswersHardDown,
              ProbeAnswersNeutral, ProberConfigured
<1>3. CASE ProberRecord
  BY <1>3 DEF ProberRecord, ProbeCloses, ProbeCredits, ProbeRecordsFailure, ProberConfigured
<1>4. CASE UNCHANGED prober
  BY <1>4 DEF ProberConfigured
<1>5. ASSUME NEW r \in Requests, Admission(r) PROVE UNCHANGED prober
  BY <1>5 DEF Admission, Choose, Precheck, LockProbe, TakePermit, Unpark, GiveUp,
              DispatchLeastBad
<1>6. ASSUME NEW r \in Requests, Answer(r) \/ Completion(r) \/ Disconnect(r)
      PROVE  UNCHANGED prober
  BY <1>6 DEF Answer, Completion, Disconnect, AnswerOk, AnswerTransient, AnswerHardDown,
              AnswerNeutral, RecordFailure, ReleaseAfterFailure, StreamFails, StreamEnds,
              BeginFailure
<1>7. CASE Tick
  BY <1>7, <1>4 DEF Tick
<1>8. CASE UNCHANGED vars
  BY <1>8, <1>4 DEF vars
<1> QED
  BY <1>1, <1>2, <1>3, <1>4, <1>5, <1>6, <1>7, <1>8 DEF Next

-----------------------------------------------------------------------------
(* The ways a step may change the part of a cell that admission reads.     *)

Quiet(c, n) ==
  /\ n.state = c.state /\ n.cooldown = c.cooldown
  /\ n.streak = c.streak \/ (c.state # Open /\ n.streak = 0)

Failed(c, n) ==
  /\ c.state # Open
  /\ n.streak = c.streak + 1
  /\ n.cooldown \in Nat
  /\ \/ n.state = Open
     \/ /\ c.state = Closed /\ n.state = Closed
        /\ TripMode = "consecutive" => n.streak < ConsecutiveN

ParkedAt(c, n, t) ==
  n.state = Open /\ n.cooldown = t + HardDownCooldown /\ n.streak = c.streak

Probed(c, n, t) ==
  /\ c.state = Open /\ c.cooldown <= t
  /\ n.state = HalfOpen /\ n.cooldown = c.cooldown /\ n.streak = c.streak

Unprobed(c, n) ==
  /\ c.state = HalfOpen
  /\ n.state = Open /\ n.cooldown = c.cooldown /\ n.streak = c.streak

Reset(c, n) ==
  /\ c.state = HalfOpen \/ HealthMode # "none"
  /\ n.state = Closed /\ n.cooldown = 0 /\ n.streak = 0

Moves(c, n, t) ==
  \/ Quiet(c, n) \/ Failed(c, n) \/ ParkedAt(c, n, t)
  \/ Unprobed(c, n) \/ Reset(c, n)

\* A success is quiet or resets the cell.
LEMMA SuccessMoves ==
  ASSUME NEW c \in Cell, NEW t \in Nat
  PROVE  Quiet(c, AfterSuccess(c, t)) \/ Reset(c, AfterSuccess(c, t))
<1>1. c.state \in {Closed, Open, HalfOpen}
  BY DEF Cell
<1> QED
  BY <1>1, AfterSuccessCases DEF Quiet, Reset, Closed, Open, HalfOpen

\* A failure is quiet or strikes the cell.
LEMMA FailureMoves ==
  ASSUME NEW c \in Cell, NEW t \in Nat, NEW h \in Nat \cup {NoHint},
         NEW n \in AfterFailure(c, t, h)
  PROVE  Quiet(c, n) \/ Failed(c, n)
<1>1. c.state \in {Closed, Open, HalfOpen}
  BY DEF Cell
<1> QED
  BY <1>1, AfterFailureCases DEF Quiet, Failed, Closed, Open, HalfOpen

\* A release is quiet or gives the probe back.
LEMMA ReleaseMoves ==
  ASSUME NEW c \in Cell
  PROVE  Quiet(c, ProbeReleased(c)) \/ Unprobed(c, ProbeReleased(c))
BY ReleasedTyped DEF Quiet, Unprobed

\* An outcome alone is quiet.
LEMMA PushMoves ==
  ASSUME NEW c \in Cell, NEW t \in Nat, NEW err \in BOOLEAN
  PROVE  Quiet(c, Pushed(c, t, err))
BY PushedTyped DEF Quiet

(* What each step does, and who is admitted after it.                      *)
Shape ==
  \/ Admitted' \subseteq Admitted /\ now' = now /\ Moves(cell, cell', now)
  \/ /\ Probed(cell, cell', now) /\ now' = now
     /\ \E r \in Requests : Admitted' = Admitted \cup {r}
  \/ /\ cell.state = Closed /\ cell.cooldown <= now /\ cell' = cell /\ now' = now
     /\ \E r \in Requests : Admitted' = Admitted \cup {r}
  \/ now' > now /\ now' \in Nat /\ UNCHANGED <<cell, Admitted>>

\* A request that is over is admitted no more.
LEMMA FinishedAdmits ==
  ASSUME TypeOK, NEW r \in Requests, Finished(r)
  PROVE  Admitted' \subseteq Admitted
BY DEF Finished, Admitted, TypeOK

\* Only admission admits.
LEMMA GoesAdmits ==
  ASSUME TypeOK, NEW r \in Requests, NEW s, Goes(r, s),
         s \notin {"admitted", "parked", "sending"} \/ r \in Admitted,
         path' = path \/ \E p : path' = [path EXCEPT ![r] = p],
         r \in Admitted => path' = path
  PROVE  Admitted' \subseteq Admitted
BY DEF Goes, Admitted, TypeOK

\* Every step has one of those shapes.
LEMMA StepShape == Inv /\ ProberConfigured /\ [Next]_vars => Shape
<1> SUFFICES ASSUME Inv, ProberConfigured, [Next]_vars PROVE Shape
  OBVIOUS
<1>1. TypeOK /\ PastTimes
  BY DEF Inv
<1>2. now \in Nat /\ cell \in Cell /\ \A r \in Requests :
        at[r] \in Nat /\ at[r] <= now /\ hint[r] \in Nat \cup {NoHint}
  BY <1>1, HintsTyped DEF TypeOK, PastTimes
<1>3. /\ prober.at \in Nat /\ prober.observed \in Nat
      /\ prober.hint \in Nat \cup {NoHint}
  BY <1>1, HintsTyped DEF TypeOK
<1>4. Quiet(cell, cell)
  BY DEF Quiet
<1>5. cell.cooldown \in Nat
  BY <1>2 DEF Cell
<1>a. ASSUME NEW r \in Requests, Admission(r) PROVE Shape
  <2>1. CASE Choose(r)
    <3>1. r \notin Admitted
      BY <1>1, <2>1 DEF Choose, Admitted, TypeOK
    <3>2. Admitted' \subseteq Admitted
      BY <1>1, <2>1, <3>1, GoesAdmits DEF Choose
    <3> QED
      BY <1>4, <2>1, <3>2 DEF Choose, Shape, Moves
  <2>2. CASE Precheck(r)
    <3>1. CASE /\ cell.state = Closed /\ at[r] >= cell.cooldown
               /\ Goes(r, "admitted") /\ UNCHANGED <<path, at, hint, won>>
      <4>1. cell.cooldown <= now
        BY <1>2, <1>5, <3>1
      <4>2. Admitted' = Admitted \cup {r}
        BY <1>1, <2>2, <3>1 DEF Precheck, Goes, Admitted, TypeOK
      <4> QED
        BY <1>4, <2>2, <3>1, <4>1, <4>2 DEF Precheck, Shape, Moves
    <3>2. CASE Goes(r, "locking") /\ UNCHANGED <<path, at, hint, won>>
      <4>1. Admitted' \subseteq Admitted
        BY <1>1, <2>2, <3>2, GoesAdmits DEF Precheck
      <4> QED
        BY <1>4, <2>2, <4>1 DEF Precheck, Shape, Moves
    <3>3. CASE Finished(r)
      <4>1. Admitted' \subseteq Admitted
        BY <1>1, <3>3, FinishedAdmits
      <4> QED
        BY <1>4, <2>2, <4>1 DEF Precheck, Shape, Moves
    <3> QED
      BY <2>2, <3>1, <3>2, <3>3 DEF Precheck
  <2>3. CASE LockProbe(r)
    <3>1. CASE ProbeWinnable(cell, at[r]) /\ cell' = ProbeWon(cell) /\ Goes(r, "admitted")
                 /\ UNCHANGED <<path, at, hint>>
      <4>a. cell.state = Open /\ cell.cooldown <= now
        BY <1>2, <1>5, <3>1 DEF ProbeWinnable
      <4>1. Probed(cell, cell', now)
        BY <1>2, <3>1, <4>a, WonTyped DEF Probed
      <4>2. Admitted' = Admitted \cup {r}
        BY <1>1, <2>3, <3>1 DEF LockProbe, Goes, Admitted, TypeOK
      <4> QED
        BY <2>3, <4>1, <4>2 DEF LockProbe, Shape, Moves
    <3>2. CASE Finished(r) /\ UNCHANGED cell
      <4>1. Admitted' \subseteq Admitted
        BY <1>1, <3>2, FinishedAdmits
      <4> QED
        BY <1>4, <2>3, <3>2, <4>1 DEF LockProbe, Shape, Moves
    <3> QED
      BY <2>3, <3>1, <3>2 DEF LockProbe
  <2>4. CASE TakePermit(r) \/ Unpark(r)
    <3>1. Admitted' \subseteq Admitted
      BY <1>1, <2>4 DEF TakePermit, Unpark, Goes, Admitted, TypeOK
    <3> QED
      BY <1>4, <2>4, <3>1 DEF TakePermit, Unpark, Shape, Moves
  <2>5. CASE GiveUp(r)
    <3>1. Admitted' \subseteq Admitted
      BY <1>1, <2>5, FinishedAdmits DEF GiveUp
    <3> QED
      BY <1>2, <2>5, <3>1, ReleaseMoves DEF GiveUp, Shape, Moves
  <2>6. CASE DispatchLeastBad(r)
    <3>1. Admitted' \subseteq Admitted
      BY <1>1, <2>6 DEF DispatchLeastBad, Goes, Admitted, TypeOK
    <3> QED
      BY <1>4, <2>6, <3>1 DEF DispatchLeastBad, Shape, Moves
  <2> QED
    BY <1>a, <2>1, <2>2, <2>3, <2>4, <2>5, <2>6 DEF Admission
<1>b. ASSUME NEW r \in Requests, NEW h \in Hints, BeginFailure(r, h) PROVE Shape
  <2>1. Admitted' \subseteq Admitted
    BY <1>1, <1>b, GoesAdmits DEF BeginFailure
  <2>2. Quiet(cell, cell')
    BY <1>2, <1>b, PushMoves DEF BeginFailure
  <2> QED
    BY <1>b, <2>1, <2>2 DEF BeginFailure, Shape, Moves
<1>c. ASSUME NEW r \in Requests, Answer(r) PROVE Shape
  <2>1. CASE AnswerOk(r)
    <3>1. Admitted' \subseteq Admitted
      BY <1>1, <2>1 DEF AnswerOk, Goes, Admitted, TypeOK
    <3>2. Quiet(cell, cell') \/ Reset(cell, cell')
      BY <1>2, <2>1, SuccessMoves DEF AnswerOk
    <3> QED
      BY <2>1, <3>1, <3>2 DEF AnswerOk, Shape, Moves
  <2>2. CASE AnswerTransient(r)
    BY <1>b, <2>2 DEF AnswerTransient, Hints
  <2>3. CASE AnswerHardDown(r)
    <3>1. Admitted' \subseteq Admitted
      BY <1>1, <2>3, FinishedAdmits DEF AnswerHardDown
    <3>2. ParkedAt(cell, cell', now)
      BY <1>2, <2>3, HardDownedTyped DEF AnswerHardDown, ParkedAt
    <3> QED
      BY <2>3, <3>1, <3>2 DEF AnswerHardDown, Shape, Moves
  <2>4. CASE AnswerNeutral(r)
    <3>1. Admitted' \subseteq Admitted
      BY <1>1, <2>4, FinishedAdmits DEF AnswerNeutral
    <3> QED
      BY <1>2, <2>4, <3>1, ReleaseMoves DEF AnswerNeutral, Shape, Moves
  <2> QED
    BY <1>c, <2>1, <2>2, <2>3, <2>4 DEF Answer
<1>d. ASSUME NEW r \in Requests, Completion(r) PROVE Shape
  <2>1. CASE RecordFailure(r)
    <3>1. Quiet(cell, cell') \/ Failed(cell, cell')
      BY <1>2, <2>1, FailureMoves DEF RecordFailure
    <3>2. Admitted' \subseteq Admitted
      BY <1>1, <2>1, FinishedAdmits, GoesAdmits DEF RecordFailure
    <3> QED
      BY <2>1, <3>1, <3>2 DEF RecordFailure, Shape, Moves
  <2>2. CASE ReleaseAfterFailure(r)
    <3>1. Admitted' \subseteq Admitted
      BY <1>1, <2>2, FinishedAdmits DEF ReleaseAfterFailure
    <3> QED
      BY <1>2, <1>4, <2>2, <3>1, ReleaseMoves DEF ReleaseAfterFailure, Shape, Moves
  <2>3. CASE StreamFails(r)
    BY <1>b, <2>3 DEF StreamFails, Hints
  <2>4. CASE StreamEnds(r)
    <3>1. Admitted' \subseteq Admitted
      BY <1>1, <2>4, FinishedAdmits DEF StreamEnds
    <3> QED
      BY <1>4, <2>4, <3>1 DEF StreamEnds, Shape, Moves
  <2> QED
    BY <1>d, <2>1, <2>2, <2>3, <2>4 DEF Completion
<1>e. ASSUME NEW r \in Requests, Disconnect(r) PROVE Shape
  <2>1. Admitted' \subseteq Admitted
    BY <1>1, <1>e, FinishedAdmits DEF Disconnect
  <2> QED
    BY <1>4, <1>e, <2>1 DEF Disconnect, Shape, Moves
<1>f. ASSUME UNCHANGED <<now, pc, path>>, Moves(cell, cell', now) PROVE Shape
  <2>1. Admitted' = Admitted
    BY <1>f DEF Admitted
  <2> QED
    BY <1>f, <2>1 DEF Shape
<1>g. CASE ProbeSend
  BY <1>4, <1>f, <1>g DEF ProbeSend, Moves
<1>h. CASE ProberAnswer
  <2>1. CASE ProbeAnswersOk \/ ProbeAnswersNeutral
    BY <1>4, <1>f, <2>1 DEF ProbeAnswersOk, ProbeAnswersNeutral, Moves
  <2>2. CASE ProbeAnswersTransient
    BY <1>2, <1>f, <2>2, PushMoves DEF ProbeAnswersTransient, Moves
  <2>3. CASE ProbeAnswersHardDown
    <3>1. ParkedAt(cell, cell', now)
      BY <1>2, <2>3, HardDownedTyped DEF ProbeAnswersHardDown, ParkedAt
    <3> QED
      BY <1>f, <2>3, <3>1 DEF ProbeAnswersHardDown, Moves
  <2> QED
    BY <1>h, <2>1, <2>2, <2>3 DEF ProberAnswer
<1>i. CASE ProberRecord
  <2>1. CASE ProbeCloses
    <3>1. cell' = cell \/ cell' = ClosedAgain(cell)
      BY <1>2, <1>3, <2>1, RecoveredTyped DEF ProbeCloses
    <3>2. HealthMode # "none"
      BY <2>1 DEF ProbeCloses, ProberConfigured
    <3>3. Moves(cell, cell', now)
      BY <1>2, <1>4, <3>1, <3>2, ClosedAgainTyped DEF Moves, Reset
    <3> QED
      BY <1>f, <2>1, <3>3 DEF ProbeCloses
  <2>2. CASE ProbeCredits
    <3>1. Moves(cell, cell', now)
      BY <1>2, <2>2, SuccessMoves DEF ProbeCredits, Moves
    <3> QED
      BY <1>f, <2>2, <3>1 DEF ProbeCredits
  <2>3. CASE ProbeRecordsFailure
    <3>1. Moves(cell, cell', now)
      BY <1>2, <1>3, <2>3, FailureMoves DEF ProbeRecordsFailure, Moves
    <3> QED
      BY <1>f, <2>3, <3>1 DEF ProbeRecordsFailure
  <2> QED
    BY <1>i, <2>1, <2>2, <2>3 DEF ProberRecord
<1>j. CASE Tick
  <2>1. Admitted' = Admitted
    BY <1>j DEF Tick, Admitted
  <2>2. now' > now /\ now' \in Nat /\ cell' = cell
    BY <1>2, <1>j DEF Tick
  <2> QED
    BY <2>1, <2>2 DEF Shape
<1>k. CASE UNCHANGED vars
  BY <1>4, <1>f, <1>k DEF vars, Moves
<1> QED
  BY <1>a, <1>c, <1>d, <1>e, <1>g, <1>h, <1>i, <1>j, <1>k DEF Next

-----------------------------------------------------------------------------
\* Both invariants hold throughout.
LEMMA Strengthened == Spec => [](Inv /\ ProberConfigured)
BY InitInv, StepInv, InitConfigured, StepConfigured, PTL DEF Spec

\* What the abstract machine sees of the cell is typed.
LEMMA InvTypes == Inv => now \in Nat /\ cell.cooldown \in Nat /\ cell.streak \in Nat
BY DEF Inv, TypeOK, Cell

(* In consecutive mode no step leaves a cell Closed at its threshold but   *)
(* one that finds it Closed with that streak, as it was born.              *)
THEOREM StreakCorrect == Spec => StreakBelowTrip
<1>1. Inv /\ ProberConfigured /\ [Next]_vars =>
        [TripMode = "consecutive" /\ cell'.state = Closed
           => \/ cell'.streak < ConsecutiveN
              \/ cell.state = Closed /\ cell'.streak = cell.streak]_vars
  <2>1. 0 < ConsecutiveN
    BY ConfigAssumption
  <2> QED
    BY <2>1, StepShape, InvTypes
       DEF Shape, Moves, Quiet, Failed, ParkedAt, Probed, Unprobed, Reset,
           Closed, Open, HalfOpen
<1> QED
  BY <1>1, Strengthened, PTL DEF Spec, StreakBelowTrip

(* Nobody but a hard-down moves the deadline of a cell that stays Open.    *)
THEOREM DeadlineStands == Spec => OpenDeadlineStands
<1>1. Inv /\ ProberConfigured /\ [Next]_vars =>
        [cell.state = Open /\ cell'.state = Open
           => cell'.cooldown \in {cell.cooldown, now + HardDownCooldown}]_vars
  BY StepShape DEF Shape, Moves, Quiet, Failed, ParkedAt, Probed, Unprobed, Reset,
                   Closed, Open, HalfOpen
<1> QED
  BY <1>1, Strengthened, PTL DEF Spec, OpenDeadlineStands

(* The escalation of the backoff is forgotten only by a success or a       *)
(* recovery.                                                               *)
THEOREM EscalationStands == Spec => EscalationKept
<1>1. Inv /\ ProberConfigured /\ [Next]_vars =>
        [cell'.streak < cell.streak => cell.state # Open \/ cell'.state = Closed]_vars
  BY StepShape, InvTypes DEF Shape, Moves, Quiet, Failed, ParkedAt, Probed, Unprobed, Reset,
                   Closed, Open, HalfOpen
<1> QED
  BY <1>1, Strengthened, PTL DEF Spec, EscalationKept

(* BreakerCell implements the documented state machine, for any number of  *)
(* requests and every configuration.                                       *)
THEOREM Refinement == Spec => ImplementsFsm
<1>1. Init => Fsm!Init
  <2> SUFFICES ASSUME Init PROVE Fsm!Init
    OBVIOUS
  <2>1. cell.cooldown \in Nat /\ cell.state \in {Closed, Open}
    BY NewbornTyped DEF Init, Cell
  <2>2. Admitted = {}
    BY DEF Init, Admitted
  <2> QED
    BY <2>1, <2>2 DEF Init, Fsm!Init, Closed, Open
<1>2. Inv /\ ProberConfigured /\ [Next]_vars => [Fsm!Next]_(Fsm!vars)
  <2> SUFFICES ASSUME Inv, ProberConfigured, [Next]_vars PROVE [Fsm!Next]_(Fsm!vars)
    OBVIOUS
  <2>1. now \in Nat /\ cell.cooldown \in Nat /\ now + HardDownCooldown \in Nat
    BY InvTypes, ConfigAssumption
  <2>2. Shape
    BY StepShape
  <2>3. CASE Admitted' \subseteq Admitted /\ now' = now /\ Moves(cell, cell', now)
    <3>1. cell.state \in {Closed, Open, HalfOpen}
      BY DEF Inv, TypeOK, Cell
    <3>2. CASE Quiet(cell, cell')
      BY <2>3, <3>2 DEF Quiet, Fsm!Next, Fsm!Leave
    <3>3. CASE Failed(cell, cell')
      BY <2>3, <3>1, <3>3 DEF Failed, Fsm!Next, Fsm!Trip, Fsm!Cool, Closed, Open, HalfOpen
    <3>4. CASE ParkedAt(cell, cell', now)
      BY <2>3, <3>4 DEF ParkedAt, Fsm!Next, Fsm!Park, Open
    <3>6. CASE Unprobed(cell, cell')
      BY <2>1, <2>3, <3>6 DEF Unprobed, Fsm!Next, Fsm!Trip, Open, HalfOpen
    <3>7. CASE Reset(cell, cell')
      BY <2>3, <3>7 DEF Reset, Fsm!Next, Fsm!Recover, Closed, HalfOpen
    <3> QED
      BY <2>3, <3>2, <3>3, <3>4, <3>6, <3>7 DEF Moves
  <2>4. CASE /\ Probed(cell, cell', now) /\ now' = now
             /\ \E r \in Requests : Admitted' = Admitted \cup {r}
    BY <2>1, <2>4 DEF Probed, Fsm!Next, Fsm!AdmitProbe, Open, HalfOpen
  <2>5. CASE /\ cell.state = Closed /\ cell.cooldown <= now /\ cell' = cell /\ now' = now
             /\ \E r \in Requests : Admitted' = Admitted \cup {r}
    BY <2>1, <2>5 DEF Fsm!Next, Fsm!Admit, Closed
  <2>6. CASE now' > now /\ now' \in Nat /\ UNCHANGED <<cell, Admitted>>
    BY <2>6 DEF Fsm!Next, Fsm!Elapse
  <2> QED
    BY <2>2, <2>3, <2>4, <2>5, <2>6 DEF Shape
<1> QED
  BY <1>1, <1>2, Strengthened, PTL DEF Spec, ImplementsFsm, Fsm!Spec

-----------------------------------------------------------------------------
(* What it takes to trip a cell.                                           *)

\* There are no more outcomes in the sliding window than outcomes recorded.
LEMMA WindowHolds ==
  ASSUME NEW c \in Cell, NEW t
  PROVE  Cardinality(InWindow(c.window, t)) <= Len(c.window)
<1> DEFINE n == Len(c.window)
<1>1. n \in Nat /\ DOMAIN c.window = 1 .. n
  BY DEF Cell
<1>2. InWindow(c.window, t) \in SUBSET (1 .. n)
  BY <1>1 DEF InWindow
<1>3. IsFiniteSet(1 .. n) /\ Cardinality(1 .. n) = n
  BY <1>1, FS_Interval
<1> HIDE DEF n
<1>4. Cardinality(InWindow(c.window, t)) <= Cardinality(1 .. n)
  BY <1>2, <1>3, FS_Subset
<1> QED
  BY <1>3, <1>4 DEF n

\* A failure that trips a Closed cell on its error rate found the window the
\* trip condition asks for.
LEMMA TripNeedsWindow ==
  ASSUME NEW c \in Cell, c.state = Closed, TripMode = "error_rate", NEW t \in Nat,
         NEW h \in Nat \cup {NoHint}, NEW n \in AfterFailure(c, t, h), n.state = Open
  PROVE  Len(c.window) >= MinRequests
<1> DEFINE struck == [c EXCEPT !.streak = @ + 1]
<1>1. struck \in Cell /\ struck.state = Closed /\ struck.window = c.window
  BY DEF Cell
<1>2. n = c \/ \E d : n = [struck EXCEPT !.cooldown = t + d] \/ ShouldTrip(struck, t)
  BY DEF AfterFailure, Closed, HalfOpen
<1> HIDE DEF struck
<1>3. ~ (n = c \/ \E d : n = [struck EXCEPT !.cooldown = t + d])
  BY <1>1 DEF Cell, Closed, Open
<1>4. Cardinality(InWindow(c.window, t)) >= MinRequests
  BY <1>1, <1>2, <1>3 DEF ShouldTrip
<1>5. Cardinality(InWindow(c.window, t)) <= Len(c.window) /\ Len(c.window) \in Nat
  BY WindowHolds DEF Cell
<1>6. IsFiniteSet(InWindow(c.window, t))
  <2>1. InWindow(c.window, t) \in SUBSET (1 .. Len(c.window))
    BY DEF InWindow, Cell
  <2>2. IsFiniteSet(1 .. Len(c.window))
    BY <1>5, FS_Interval
  <2> QED
    BY <2>1, <2>2, FS_Subset
<1>7. Cardinality(InWindow(c.window, t)) \in Nat
  BY <1>6, FS_CardinalityType
<1> QED
  BY <1>4, <1>5, <1>7, ConfigAssumption

\* What may open a Closed cell: a hard-down, or a failure it has the evidence
\* for.
Justified == cell.state = Closed /\ cell'.state = Open
               => cell' = HardDowned(cell, now) \/ Len(cell.window) >= MinRequests

\* In error-rate mode every step is justified.
LEMMA StepJustified ==
  Inv /\ TripMode = "error_rate" /\ [Next]_vars => Justified
<1> SUFFICES ASSUME Inv, TripMode = "error_rate", [Next]_vars PROVE Justified
  OBVIOUS
<1>1. /\ now \in Nat /\ cell \in Cell
      /\ prober.at \in Nat /\ prober.hint \in Nat \cup {NoHint}
      /\ \A r \in Requests : at[r] \in Nat /\ hint[r] \in Nat \cup {NoHint}
  BY HintsTyped DEF Inv, TypeOK
<1>2. /\ Pushed(cell, now, TRUE).state = cell.state
      /\ ProbeReleased(cell).state = Closed <=> cell.state = Closed
      /\ cell.state = Closed => AfterSuccess(cell, now).state = Closed
      /\ ProbeWon(cell).state = HalfOpen /\ ClosedAgain(cell).state = Closed
  <2>1. Pushed(cell, now, TRUE).state = cell.state
    BY <1>1, PushedTyped
  <2>2. ProbeReleased(cell).state = IF cell.state = HalfOpen THEN Open ELSE cell.state
    BY <1>1, ReleasedTyped
  <2>3. cell.state = Closed => AfterSuccess(cell, now).state = Closed
    BY <1>1, AfterSuccessCases
  <2>4. ProbeWon(cell).state = HalfOpen /\ ClosedAgain(cell).state = Closed
    BY <1>1, WonTyped, ClosedAgainTyped
  <2> QED
    BY <2>1, <2>2, <2>3, <2>4 DEF Closed, Open, HalfOpen
<1>3. ASSUME cell' = cell \/ cell'.state = cell.state \/ cell' = HardDowned(cell, now)
      PROVE  Justified
  BY <1>3 DEF Justified, Closed, Open
<1>4. ASSUME \/ cell' \in {ProbeReleased(cell), AfterSuccess(cell, now),
                           ProbeWon(cell), ClosedAgain(cell)}
      PROVE  Justified
  BY <1>2, <1>4 DEF Justified, Closed, Open, HalfOpen
<1>5. ASSUME NEW t \in Nat, NEW h \in Nat \cup {NoHint}, cell' \in AfterFailure(cell, t, h)
      PROVE  Justified
  BY <1>1, <1>5, TripNeedsWindow DEF Justified
<1>a. ASSUME NEW r \in Requests, Admission(r) PROVE Justified
  BY <1>a, <1>3, <1>4
     DEF Admission, Choose, Precheck, LockProbe, TakePermit, Unpark, GiveUp,
         DispatchLeastBad
<1>b. ASSUME NEW r \in Requests, Answer(r) PROVE Justified
  BY <1>b, <1>2, <1>3, <1>4
     DEF Answer, AnswerOk, AnswerTransient, AnswerHardDown, AnswerNeutral, BeginFailure
<1>c. ASSUME NEW r \in Requests, Completion(r) PROVE Justified
  <2>1. CASE RecordFailure(r)
    BY <1>1, <1>5, <2>1 DEF RecordFailure
  <2>2. CASE ReleaseAfterFailure(r) \/ StreamFails(r) \/ StreamEnds(r)
    BY <1>2, <1>3, <1>4, <2>2 DEF ReleaseAfterFailure, StreamFails, StreamEnds, BeginFailure
  <2> QED
    BY <1>c, <2>1, <2>2 DEF Completion
<1>d. ASSUME NEW r \in Requests, Disconnect(r) PROVE Justified
  BY <1>d, <1>3 DEF Disconnect
<1>e. CASE ProbeSend \/ ProberAnswer \/ Tick \/ UNCHANGED vars
  BY <1>e, <1>2, <1>3
     DEF ProbeSend, ProberAnswer, ProbeAnswersOk, ProbeAnswersTransient,
         ProbeAnswersHardDown, ProbeAnswersNeutral, Tick, vars
<1>f. CASE ProberRecord
  <2>1. CASE ProbeCloses
    <3>1. cell' = cell \/ cell' = ClosedAgain(cell)
      BY <2>1 DEF ProbeCloses, Recovered
    <3> QED
      BY <1>3, <1>4, <3>1
  <2>2. CASE ProbeCredits
    BY <1>4, <2>2 DEF ProbeCredits
  <2>3. CASE ProbeRecordsFailure
    BY <1>1, <1>5, <2>3 DEF ProbeRecordsFailure
  <2> QED
    BY <1>f, <2>1, <2>2, <2>3 DEF ProberRecord
<1> QED
  BY <1>a, <1>b, <1>c, <1>d, <1>e, <1>f DEF Next

(* In error-rate mode nothing but a hard-down trips a cell whose window    *)
(* holds fewer than min_requests outcomes.                                 *)
THEOREM TripsOnEvidence == Spec => TripHasEvidence
<1>1. Inv /\ [Next]_vars =>
        [TripMode = "error_rate" /\ cell.state = Closed /\ cell'.state = Open
           => \/ cell' = HardDowned(cell, now)
              \/ Len(cell.window) >= MinRequests]_vars
  BY StepJustified DEF Justified
<1> QED
  BY <1>1, Strengthened, PTL DEF Spec, TripHasEvidence

=============================================================================
