--------------------------- MODULE LaneCellsProofs ---------------------------
(***************************************************************************)
(* What the all-cells operations promise for a lane of any number of       *)
(* pools, with any number of them under way at once: a complete hard-down  *)
(* seals the lane, a recovery reaches every cell, and no cell is HalfOpen  *)
(* without a probe.                                                        *)
(*                                                                         *)
(* Neither promise is inductive.  Each speaks of the end of an operation,  *)
(* and the invariant says what holds behind it on its way: an undisturbed  *)
(* hard-down leaves every cell it has been at parked, an undisturbed       *)
(* recovery leaves every cell it has been at clear.  A cell is never born  *)
(* behind an operation, for creation and the walk exclude each other; one  *)
(* born after the walk is a copy of a default cell that the operation has  *)
(* been at.                                                                *)
(***************************************************************************)
EXTENDS LaneCells, WellFoundedInduction, TLAPS

-----------------------------------------------------------------------------
(* Cooldowns.                                                              *)

\* The shift in a fixed-width word yields a word.
LEMMA ShiftTyped ==
  ASSUME NEW n \in Nat, NEW k \in 0 .. WordBits
  PROVE  ShiftedLeft(n, k) \in Nat
<1> DEFINE p == PowerOfTwo[k]
           w == PowerOfTwo[WordBits]
<1>1. p \in Nat /\ w \in Nat \ {0}
  BY WordAssumption
<1> HIDE DEF p, w
<1>2. n * p \in Nat
  BY <1>1
<1> DEFINE m == n * p
<1>3. m \in Nat
  BY <1>2
<1> HIDE DEF m
<1>4. m % w \in Nat
  BY <1>1, <1>3
<1> QED
  BY <1>4 DEF ShiftedLeft, m, p, w

\* The backoff before jitter is a time no longer than the configured maximum.
LEMMA BackoffTyped ==
  ASSUME NEW streak \in Nat
  PROVE  Backoff(streak) \in Nat /\ Backoff(streak) <= MaxCooldown
<1> DEFINE k == Lesser(streak, WordBits - 1)
<1>1. k \in 0 .. WordBits
  BY WordAssumption DEF Lesser
<1>2. ShiftedLeft(BaseCooldown, k) \in Nat
  BY <1>1, ShiftTyped, ConfigAssumption
<1> HIDE DEF k
<1> QED
  BY <1>2, ConfigAssumption DEF Backoff, Lesser, k

\* Jitter keeps a time a time, at least half of it and at most the maximum.
LEMMA JitterBounds ==
  ASSUME NEW d \in Nat, d <= MaxCooldown, NEW x \in Jittered(d)
  PROVE  x \in Nat /\ d \div 2 <= x /\ x <= MaxCooldown
<1> DEFINE range == Greater(d \div 10, 1)
<1>1. range \in Nat
  BY DEF Greater
<1>2. PICK j \in -range .. range :
        x = Lesser(Greater(Greater(d + j, 0), d \div 2), MaxCooldown)
  BY DEF Jittered
<1>3. j \in Int
  BY <1>1, <1>2
<1>4. d \div 2 \in Nat /\ d \div 2 <= d
  OBVIOUS
<1> HIDE DEF range
<1> QED
  BY <1>2, <1>3, <1>4, ConfigAssumption DEF Lesser, Greater

\* The floor of a Retry-After is a number of seconds.
LEMMA HintTyped ==
  ASSUME NEW asked \in Nat \cup {NoHint}
  PROVE  HintFloor(asked) \in Nat
BY ConfigAssumption DEF HintFloor, Lesser, NoHint

\* A cooldown is at least half the backoff and at least what an honored
\* Retry-After asks for.
LEMMA CooldownBounds ==
  ASSUME NEW streak \in Nat, NEW asked \in Nat \cup {NoHint},
         NEW d \in Cooldowns(streak, asked)
  PROVE  d \in Nat /\ HintFloor(asked) <= d /\ Backoff(streak) \div 2 <= d
<1> DEFINE b == Backoff(streak)
           f == HintFloor(asked)
<1>1. b \in Nat /\ b <= MaxCooldown /\ f \in Nat
  BY BackoffTyped, HintTyped
<1>2. PICK x \in Jittered(b) : d = Greater(x, f)
  BY DEF Cooldowns
<1> HIDE DEF b, f
<1>3. x \in Nat /\ b \div 2 <= x
  BY <1>1, <1>2, JitterBounds
<1>4. b \div 2 \in Nat
  BY <1>1
<1>5. d \in Nat /\ f <= d /\ b \div 2 <= d
  BY <1>1, <1>2, <1>3, <1>4 DEF Greater
<1> QED
  BY <1>5 DEF b, f

-----------------------------------------------------------------------------
(* The critical sections keep a cell a cell.                               *)

\* An outcome is recorded in the window and nowhere else.
LEMMA PushedTyped ==
  ASSUME NEW c \in Cell, NEW t \in Nat, NEW err \in BOOLEAN
  PROVE  /\ Pushed(c, t, err) \in Cell
         /\ Pushed(c, t, err).state = c.state
         /\ Pushed(c, t, err).cooldown = c.cooldown
         /\ Pushed(c, t, err).streak = c.streak
         /\ Pushed(c, t, err).probe = c.probe
<1> DEFINE w == c.window
           kept == IF Len(w) >= WindowCapacity THEN Tail(w) ELSE w
           o == [ts |-> t, err |-> err]
<1>1. w \in Seq(Outcome)
  BY DEF Cell
<1>2. o \in Outcome
  BY DEF Outcome
<1>3. Len(w) >= WindowCapacity => w # << >>
  BY <1>1, ConfigAssumption
<1>4. kept \in Seq(Outcome)
  BY <1>1, <1>3
<1>5. Append(kept, o) \in Seq(Outcome)
  BY <1>2, <1>4
<1> HIDE DEF w, kept, o
<1>6. Pushed(c, t, err) = [c EXCEPT !.window = Append(kept, o)]
  BY DEF Pushed, w, kept, o
<1> QED
  BY <1>5, <1>6 DEF Cell

\* A new cell is a cell.
LEMMA FreshTyped == FreshCell \in Cell
BY DEF FreshCell, Cell, Closed, Open, HalfOpen

\* Opening sets the deadline and releases the probe.
LEMMA OpenedTyped ==
  ASSUME NEW c \in Cell, NEW until \in Nat
  PROVE  /\ Opened(c, until) \in Cell
         /\ Opened(c, until).state = Open
         /\ Opened(c, until).cooldown = until
         /\ Opened(c, until).streak = c.streak
         /\ Opened(c, until).probe = FALSE
BY DEF Opened, Cell

\* Closing forgets the deadline, the streak and the probe.
LEMMA ClosedAgainTyped ==
  ASSUME NEW c \in Cell
  PROVE  /\ ClosedAgain(c) \in Cell
         /\ ClosedAgain(c).state = Closed
         /\ ClosedAgain(c).cooldown = 0
         /\ ClosedAgain(c).streak = 0
         /\ ClosedAgain(c).probe = FALSE
<1>1. << >> \in Seq(Outcome)
  OBVIOUS
<1> QED
  BY <1>1 DEF ClosedAgain, Cell

\* A hard-down opens, and keeps the streak.
LEMMA HardDownedTyped ==
  ASSUME NEW c \in Cell, NEW t \in Nat
  PROVE  /\ HardDowned(c, t) \in Cell
         /\ HardDowned(c, t).state = Open
         /\ HardDowned(c, t).cooldown = t + HardDownCooldown
         /\ HardDowned(c, t).streak = c.streak
         /\ HardDowned(c, t).probe = FALSE
<1>1. t + HardDownCooldown \in Nat
  BY ConfigAssumption
<1> QED
  BY <1>1, OpenedTyped DEF HardDowned

\* A release turns HalfOpen back to Open and keeps the deadline.
LEMMA ReleasedTyped ==
  ASSUME NEW c \in Cell
  PROVE  /\ ProbeReleased(c) \in Cell
         /\ ProbeReleased(c).state = IF c.state = HalfOpen THEN Open ELSE c.state
         /\ ProbeReleased(c).cooldown = c.cooldown
         /\ ProbeReleased(c).streak = c.streak
         /\ ProbeReleased(c).probe = FALSE
BY DEF ProbeReleased, Cell

\* A won probe makes the cell HalfOpen, owned.
LEMMA WonTyped ==
  ASSUME NEW c \in Cell
  PROVE  /\ ProbeWon(c) \in Cell
         /\ ProbeWon(c).state = HalfOpen
         /\ ProbeWon(c).cooldown = c.cooldown
         /\ ProbeWon(c).streak = c.streak
         /\ ProbeWon(c).probe = TRUE
BY DEF ProbeWon, Cell

-----------------------------------------------------------------------------
(* What a recorded outcome may do.                                         *)

\* A success closes a HalfOpen cell, forgives the streak of a Closed one and
\* changes nothing of an Open one but its window.
LEMMA AfterSuccessCases ==
  ASSUME NEW c \in Cell, NEW t \in Nat
  PROVE  LET n == AfterSuccess(c, t)
         IN  /\ n \in Cell
             /\ c.state = HalfOpen =>
                  n.state = Closed /\ n.cooldown = 0 /\ n.streak = 0 /\ ~n.probe
             /\ c.state = Closed =>
                  /\ n.state = Closed /\ n.cooldown = c.cooldown
                  /\ n.streak = 0 /\ n.probe = c.probe
             /\ c.state = Open =>
                  /\ n.state = Open /\ n.cooldown = c.cooldown
                  /\ n.streak = c.streak /\ n.probe = c.probe
<1> DEFINE calm == IF c.state = Open THEN c ELSE [c EXCEPT !.streak = 0]
           seen == Pushed(calm, t, FALSE)
<1>1. /\ calm \in Cell
      /\ calm.state = c.state /\ calm.cooldown = c.cooldown /\ calm.probe = c.probe
      /\ calm.streak = IF c.state = Open THEN c.streak ELSE 0
  BY DEF Cell
<1> HIDE DEF calm
<1>2. /\ seen \in Cell
      /\ seen.state = c.state /\ seen.cooldown = c.cooldown /\ seen.probe = c.probe
      /\ seen.streak = IF c.state = Open THEN c.streak ELSE 0
  BY <1>1, PushedTyped
<1> HIDE DEF seen
<1>3. AfterSuccess(c, t) = IF c.state = HalfOpen THEN ClosedAgain(seen) ELSE seen
  BY DEF AfterSuccess, seen, calm
<1>4. c.state \in {Closed, Open, HalfOpen}
  BY DEF Cell
<1> QED
  BY <1>2, <1>3, <1>4, ClosedAgainTyped DEF Closed, Open, HalfOpen

\* A failure leaves an Open cell alone, reopens a HalfOpen one, and trips or
\* cools a Closed one; it cools it only while the trip condition is unmet.
LEMMA AfterFailureCases ==
  ASSUME NEW c \in Cell, NEW t \in Nat, NEW asked \in Nat \cup {NoHint},
         NEW n \in AfterFailure(c, t, asked)
  PROVE  /\ n \in Cell
         /\ c.state = Open => n = c
         /\ c.state # Open => n.streak = c.streak + 1 /\ n.cooldown \in Nat
         /\ c.state = HalfOpen => n.state = Open /\ ~n.probe
         /\ c.state = Closed =>
              \/ n.state = Open /\ ~n.probe
              \/ /\ n.state = Closed /\ n.probe = c.probe
                 /\ TripMode = "consecutive" => n.streak < ConsecutiveN
<1>1. CASE c.state = Open
  BY <1>1 DEF AfterFailure, Closed, Open, HalfOpen
<1>2. CASE c.state # Open
  <2> DEFINE struck == [c EXCEPT !.streak = @ + 1]
  <2>1. /\ struck \in Cell
        /\ struck.state = c.state /\ struck.probe = c.probe
        /\ struck.streak = c.streak + 1 /\ struck.streak \in Nat
    BY DEF Cell
  <2> HIDE DEF struck
  <2>2. PICK d \in Cooldowns(struck.streak, asked) :
          n = IF c.state = HalfOpen \/ ShouldTrip(struck, t)
              THEN Opened(struck, t + d)
              ELSE [struck EXCEPT !.cooldown = t + d]
    BY <1>2 DEF AfterFailure, struck
  <2>3. t + d \in Nat
    BY <2>1, <2>2, CooldownBounds
  <2>4. CASE c.state = HalfOpen \/ ShouldTrip(struck, t)
    <3>1. n = Opened(struck, t + d)
      BY <2>2, <2>4
    <3> QED
      BY <1>2, <2>1, <2>3, <3>1, OpenedTyped DEF Closed, Open, HalfOpen
  <2>5. CASE ~(c.state = HalfOpen \/ ShouldTrip(struck, t))
    <3>1. n = [struck EXCEPT !.cooldown = t + d]
      BY <2>2, <2>5
    <3>2. c.state = Closed
      BY <1>2, <2>5 DEF Cell
    <3>3. TripMode = "consecutive" => struck.streak < ConsecutiveN
      BY <2>1, <2>5, ConfigAssumption DEF ShouldTrip
    <3>4. /\ n \in Cell /\ n.state = struck.state /\ n.probe = struck.probe
          /\ n.streak = struck.streak /\ n.cooldown = t + d
      BY <2>1, <2>3, <3>1 DEF Cell
    <3> QED
      BY <2>1, <2>3, <3>2, <3>3, <3>4 DEF Closed, Open, HalfOpen
  <2> QED
    BY <2>4, <2>5
<1> QED
  BY <1>1, <1>2

-----------------------------------------------------------------------------
(* The inductive invariant.                                                *)

TaskRec ==
  [kind : {"none", "hard_down", "recover", "probe_failure"},
   stage : {"idle", "default", "lock", "pools", "credit", "credit_lock", "credit_pools"},
   at : Nat, todo : SUBSET Pools, on : Names \cup {Nobody},
   observed : Nat, hint : Hints, since : Nat, disturbed : BOOLEAN]

Paired(c)       == c.state = HalfOpen <=> c.probe
Parks(c, until) == c.state = Open /\ c.cooldown >= until
Clear(c, at)    == c.state = Closed /\ c.cooldown <= at

\* The cells a task has been at.
Visited(k) ==
  CASE k.stage = "lock"  -> {Default}
    [] k.stage = "pools" -> Live \ k.todo
    [] OTHER             -> {}

FlagsPaired ==
  /\ \A n \in Names : Paired(cells[n])
  /\ draft.cell.state # HalfOpen /\ ~draft.cell.probe

CreatesAlone == creating # Nobody => Reading = {}

TimesPass ==
  /\ sealed <= now + HardDownCooldown
  /\ \A t \in Tasks : task[t].since <= task[t].at /\ task[t].at <= now
  /\ \A u \in Running("hard_down") :
       /\ sealed <= task[u].at + HardDownCooldown
       /\ \A t \in Running("hard_down") : task[t].since <= task[u].at

\* A task is where its kind can be, and looks at a cell it is to visit.
Staged(k) ==
  /\ k.kind = "hard_down" => k.stage \in {"default", "lock", "pools"}
  /\ k.on # Nobody =>
       /\ k.kind = "recover"
       /\ \/ k.stage = "default" /\ k.on = Default
          \/ k.stage = "pools" /\ k.on \in k.todo

StagesMatch == \A t \in Tasks : Staged(task[t])

SealStands ==
  /\ sealed > 0 => Running("recover") = {}
  /\ now < sealed =>
       /\ \A n \in Live : Parks(cells[n], sealed)
       /\ creating # Nobody =>
            /\ draft.cell.state = Open
            /\ draft.copied = 1 => draft.cell.cooldown >= sealed

ParkedBehind ==
  \A t \in Running("hard_down") :
    ~task[t].disturbed =>
      /\ Running("recover") = {}
      /\ now < task[t].since + HardDownCooldown =>
           \A n \in Visited(task[t]) :
             Parks(cells[n], task[t].since + HardDownCooldown)

ClearedBehind ==
  \A t \in Running("recover") :
    ~task[t].disturbed =>
      /\ \A n \in Visited(task[t]) : Clear(cells[n], task[t].at)
      /\ task[t].on # Nobody => cells[task[t].on].cooldown <= task[t].observed

IInv == /\ TypeOK /\ FlagsPaired /\ CreatesAlone /\ TimesPass
        /\ StagesMatch /\ SealStands /\ ParkedBehind /\ ClearedBehind

-----------------------------------------------------------------------------
(* What the critical sections do to a cell that is paired, parked or clear.*)

\* The times until which hard-downs, complete or under way, park cells.
Marks ==
  {sealed} \cup {task[u].since + HardDownCooldown :
                  u \in {v \in Running("hard_down") : ~task[v].disturbed}}

\* The cell after a step is parked as long as any hard-down had it parked.
Holds(c, d) == \A u \in Marks : now < u /\ Parks(c, u) => Parks(d, u)

\* The cell after a step is no less clear than before it.
Soothes(c, d) == /\ \A u \in Nat : Clear(c, u) => Clear(d, u)
                 /\ d.cooldown <= c.cooldown

\* A failure keeps a parked cell parked.
LEMMA FailureOn ==
  ASSUME NEW c \in Cell, NEW t \in Nat, NEW h \in Hints,
         NEW d \in AfterFailure(Pushed(c, t, TRUE), t, h)
  PROVE  d \in Cell /\ (Paired(c) => Paired(d)) /\ Holds(c, d)
<1> DEFINE p == Pushed(c, t, TRUE)
<1>1. /\ p \in Cell
      /\ p.state = c.state /\ p.cooldown = c.cooldown /\ p.probe = c.probe
  BY PushedTyped
<1>2. h \in Nat \cup {NoHint}
  BY LaneAssumption DEF Hints
<1> HIDE DEF p
<1>3. d \in AfterFailure(p, t, h)
  BY DEF p
<1>4. /\ d \in Cell
      /\ p.state = Open => d = p
      /\ p.state = HalfOpen => d.state = Open /\ ~d.probe
      /\ p.state = Closed => \/ d.state = Open /\ ~d.probe
                             \/ d.state = Closed /\ d.probe = p.probe
  BY <1>1, <1>2, <1>3, AfterFailureCases
<1>5. c.state \in {Closed, Open, HalfOpen} /\ d.state \in {Closed, Open, HalfOpen}
      /\ c.probe \in BOOLEAN /\ d.probe \in BOOLEAN
  BY <1>4 DEF Cell
<1>6. Paired(c) => Paired(d)
  BY <1>1, <1>4, <1>5 DEF Paired, Closed, Open, HalfOpen
<1>7. Holds(c, d)
  BY <1>1, <1>4 DEF Holds, Parks
<1> QED
  BY <1>4, <1>6, <1>7

\* A success keeps a parked cell parked and a clear cell clear.
LEMMA SuccessOn ==
  ASSUME NEW c \in Cell, NEW t \in Nat
  PROVE  /\ AfterSuccess(c, t) \in Cell
         /\ Paired(c) => Paired(AfterSuccess(c, t))
         /\ Holds(c, AfterSuccess(c, t)) /\ Soothes(c, AfterSuccess(c, t))
<1> DEFINE d == AfterSuccess(c, t)
<1>1. /\ d \in Cell
      /\ c.state = HalfOpen => d.state = Closed /\ d.cooldown = 0 /\ ~d.probe
      /\ c.state = Closed =>
           d.state = Closed /\ d.cooldown = c.cooldown /\ d.probe = c.probe
      /\ c.state = Open => d.state = Open /\ d.cooldown = c.cooldown /\ d.probe = c.probe
  BY AfterSuccessCases
<1> HIDE DEF d
<1>2. /\ c.state \in {Closed, Open, HalfOpen} /\ c.cooldown \in Nat
      /\ c.probe \in BOOLEAN /\ d.probe \in BOOLEAN
  BY <1>1 DEF Cell
<1>3. Paired(c) => Paired(d)
  BY <1>1, <1>2 DEF Paired, Closed, Open, HalfOpen
<1>4. Holds(c, d)
  BY <1>1, <1>2 DEF Holds, Parks
<1>5. Soothes(c, d)
  BY <1>1, <1>2 DEF Soothes, Clear, Closed, Open, HalfOpen
<1> QED
  BY <1>1, <1>3, <1>4, <1>5 DEF d

\* A release keeps a parked cell parked and a clear cell clear.
LEMMA ReleaseOn ==
  ASSUME NEW c \in Cell
  PROVE  /\ ProbeReleased(c) \in Cell
         /\ Paired(ProbeReleased(c))
         /\ Holds(c, ProbeReleased(c)) /\ Soothes(c, ProbeReleased(c))
<1> DEFINE d == ProbeReleased(c)
<1>1. /\ d \in Cell
      /\ d.state = IF c.state = HalfOpen THEN Open ELSE c.state
      /\ d.cooldown = c.cooldown
      /\ d.probe = FALSE
  BY ReleasedTyped
<1> HIDE DEF d
<1>2. c.state \in {Closed, Open, HalfOpen} /\ c.cooldown \in Nat
  BY DEF Cell
<1>3. Paired(d)
  BY <1>1, <1>2 DEF Paired, Closed, Open, HalfOpen
<1>4. Holds(c, d)
  BY <1>1, <1>2 DEF Holds, Parks, Open, HalfOpen
<1>5. Soothes(c, d)
  BY <1>1, <1>2 DEF Soothes, Clear, Closed, Open, HalfOpen
<1> QED
  BY <1>1, <1>3, <1>4, <1>5 DEF d

\* A parked cell gives no probe.
LEMMA ProbeOn ==
  ASSUME NEW c \in Cell, now \in Nat, Marks \subseteq Nat, ProbeWinnable(c, now)
  PROVE  ProbeWon(c) \in Cell /\ Paired(ProbeWon(c)) /\ Holds(c, ProbeWon(c))
<1> DEFINE d == ProbeWon(c)
<1>1. d \in Cell /\ d.state = HalfOpen /\ d.probe = TRUE
  BY WonTyped
<1> HIDE DEF d
<1>2. Paired(d)
  BY <1>1 DEF Paired
<1>3. c.cooldown \in Nat /\ c.cooldown <= now
  BY DEF Cell, ProbeWinnable
<1>4. Holds(c, d)
  BY <1>3 DEF Holds, Parks
<1> QED
  BY <1>1, <1>2, <1>4 DEF d

\* What closes a cell leaves it clear.
LEMMA CloseOn ==
  ASSUME NEW c \in Cell
  PROVE  /\ ClosedAgain(c) \in Cell /\ Paired(ClosedAgain(c)) /\ Soothes(c, ClosedAgain(c))
         /\ \A u \in Nat : Clear(ClosedAgain(c), u)
<1> DEFINE d == ClosedAgain(c)
<1>1. d \in Cell /\ d.state = Closed /\ d.probe = FALSE /\ d.cooldown = 0
  BY ClosedAgainTyped
<1> HIDE DEF d
<1>2. c.cooldown \in Nat
  BY DEF Cell
<1>3. Paired(d)
  BY <1>1 DEF Paired, Closed, HalfOpen
<1>4. Soothes(c, d) /\ \A u \in Nat : Clear(d, u)
  BY <1>1, <1>2 DEF Soothes, Clear
<1> QED
  BY <1>1, <1>3, <1>4 DEF d

-----------------------------------------------------------------------------
(* What the steps of an operation do to the tasks.                         *)

\* The tasks of a typed state.
LEMMA TasksTyped ==
  TypeOK <=> /\ now \in Nat /\ cells \in [Names -> Cell] /\ known \subseteq Pools
             /\ creating \in Pools \cup {Nobody}
             /\ draft \in [cell : Cell, copied : 0 .. 2]
             /\ task \in [Tasks -> TaskRec]
             /\ sealed \in Nat
BY DEF TypeOK, TaskRec

\* Marking tasks as disturbed changes nothing else of them.
LEMMA MarksDisturbed ==
  ASSUME NEW f \in [Tasks -> TaskRec], NEW kind
  PROVE  /\ Disturbed(f, kind) \in [Tasks -> TaskRec]
         /\ \A u \in Tasks :
              /\ Disturbed(f, kind)[u].kind = f[u].kind
              /\ Disturbed(f, kind)[u].stage = f[u].stage
              /\ Disturbed(f, kind)[u].at = f[u].at
              /\ Disturbed(f, kind)[u].todo = f[u].todo
              /\ Disturbed(f, kind)[u].on = f[u].on
              /\ Disturbed(f, kind)[u].observed = f[u].observed
              /\ Disturbed(f, kind)[u].since = f[u].since
              /\ f[u].disturbed => Disturbed(f, kind)[u].disturbed
              /\ f[u].kind = kind => Disturbed(f, kind)[u].disturbed
<1> DEFINE g == Disturbed(f, kind)
<1>1. g = [u \in Tasks |-> [f[u] EXCEPT !.disturbed = f[u].disturbed \/ f[u].kind = kind]]
  BY DEF Disturbed
<1> HIDE DEF g
<1>2. ASSUME NEW u \in Tasks
      PROVE  /\ g[u] \in TaskRec
             /\ g[u].kind = f[u].kind /\ g[u].stage = f[u].stage /\ g[u].at = f[u].at
             /\ g[u].todo = f[u].todo /\ g[u].on = f[u].on
             /\ g[u].observed = f[u].observed /\ g[u].since = f[u].since
             /\ f[u].disturbed => g[u].disturbed
             /\ f[u].kind = kind => g[u].disturbed
  <2>1. f[u] \in TaskRec
    OBVIOUS
  <2>2. g[u] = [f[u] EXCEPT !.disturbed = f[u].disturbed \/ f[u].kind = kind]
    BY <1>1
  <2> DEFINE k == f[u]
             b == k.disturbed \/ k.kind = kind
  <2> HIDE DEF k, b
  <2>3. b \in BOOLEAN /\ (k.disturbed => b) /\ (k.kind = kind => b)
    BY DEF b
  <2>4. g[u] = [k EXCEPT !.disturbed = b] /\ k \in TaskRec
    BY <2>1, <2>2 DEF k, b
  <2>5. /\ g[u] \in TaskRec
        /\ g[u].kind = k.kind /\ g[u].stage = k.stage /\ g[u].at = k.at
        /\ g[u].todo = k.todo /\ g[u].on = k.on
        /\ g[u].observed = k.observed /\ g[u].since = k.since
        /\ g[u].disturbed = b
    BY <2>3, <2>4 DEF TaskRec
  <2> QED
    BY <2>3, <2>5 DEF k
<1>3. g \in [Tasks -> TaskRec]
  BY <1>1, <1>2
<1> QED
  BY <1>2, <1>3 DEF g

\* From k to l, a task is done with cell n.
PastCell(k, l, n) ==
  /\ l.kind = k.kind /\ l.at = k.at /\ l.since = k.since
  /\ k.disturbed => l.disturbed
  /\ l.todo = k.todo \ {n}
  /\ l.stage = IF k.stage = "default" THEN "lock"
               ELSE IF k.stage = "credit" THEN "credit_lock" ELSE k.stage
  /\ l.on \in {Nobody, k.on}
  /\ k.stage # "credit" => l.on = Nobody

\* The tasks once t has gone on from cell n.
Onward(t, n) == [Advanced(t) EXCEPT ![t].todo = @ \ {n}]

\* A task that is done with a cell goes on to the next.
LEMMA Advances ==
  ASSUME TypeOK, NEW t \in Tasks, NEW n
  PROVE  /\ Onward(t, n) \in [Tasks -> TaskRec]
         /\ \A u \in Tasks : u # t => Onward(t, n)[u] = task[u]
         /\ PastCell(task[t], Onward(t, n)[t], n)
<1> DEFINE k == task[t]
           a == CASE k.stage = "default" -> [k EXCEPT !.stage = "lock", !.on = Nobody]
                  [] k.stage = "credit"  -> [k EXCEPT !.stage = "credit_lock"]
                  [] OTHER -> [k EXCEPT !.on = Nobody]
           l == [a EXCEPT !.todo = a.todo \ {n}]
           f == Onward(t, n)
<1>1. task \in [Tasks -> TaskRec] /\ k \in TaskRec
  BY TasksTyped
<1>2. Advanced(t) = [task EXCEPT ![t] = a]
  BY <1>1 DEF Advanced
<1>3. f = [task EXCEPT ![t] = l]
  BY <1>1, <1>2 DEF Onward
<1> HIDE DEF k, f
<1>4. /\ a \in TaskRec
      /\ a.kind = k.kind /\ a.at = k.at /\ a.since = k.since /\ a.observed = k.observed
      /\ a.disturbed = k.disturbed /\ a.todo = k.todo
      /\ a.stage = IF k.stage = "default" THEN "lock"
                   ELSE IF k.stage = "credit" THEN "credit_lock" ELSE k.stage
      /\ a.on \in {Nobody, k.on}
      /\ k.stage # "credit" => a.on = Nobody
  <2>1. CASE k.stage = "default"
    <3>1. a = [k EXCEPT !.stage = "lock", !.on = Nobody]
      BY <2>1
    <3> HIDE DEF a
    <3> QED
      BY <1>1, <2>1, <3>1 DEF TaskRec
  <2>2. CASE k.stage = "credit"
    <3>1. a = [k EXCEPT !.stage = "credit_lock"]
      BY <2>2
    <3> HIDE DEF a
    <3> QED
      BY <1>1, <2>2, <3>1 DEF TaskRec
  <2>3. CASE k.stage # "default" /\ k.stage # "credit"
    <3>1. a = [k EXCEPT !.on = Nobody]
      BY <2>3
    <3> HIDE DEF a
    <3> QED
      BY <1>1, <2>3, <3>1 DEF TaskRec
  <2> QED
    BY <2>1, <2>2, <2>3
<1> HIDE DEF a
<1>5. a.todo \ {n} \in SUBSET Pools
  BY <1>4 DEF TaskRec
<1>6. /\ l \in TaskRec
      /\ l.kind = a.kind /\ l.at = a.at /\ l.since = a.since /\ l.observed = a.observed
      /\ l.disturbed = a.disturbed /\ l.todo = a.todo \ {n}
      /\ l.stage = a.stage /\ l.on = a.on
  BY <1>4, <1>5 DEF TaskRec
<1> HIDE DEF l
<1>7. /\ f \in [Tasks -> TaskRec]
      /\ \A u \in Tasks : u # t => f[u] = task[u]
      /\ f[t] = l
  BY <1>1, <1>3, <1>6
<1>8. PastCell(k, f[t], n)
  BY <1>4, <1>6, <1>7 DEF PastCell
<1> QED
  BY <1>7, <1>8 DEF f, k

-----------------------------------------------------------------------------
(* A step that touches one cell and lets tasks walk on.                    *)

\* From k to l, a task walks past no cell but n, which is now d and as the
\* task means to leave it.
Walks(k, l, n, d) ==
  /\ l.kind = k.kind /\ l.at = k.at /\ l.since = k.since
  /\ k.disturbed => l.disturbed
  /\ l.stage \in {"pools", "credit_pools"} => k.stage \in {"pools", "credit_pools"}
  /\ Staged(l)
  /\ \A m \in Visited(l) :
       \/ m \in Visited(k)
       \/ /\ m = n
          /\ k.kind = "hard_down" => Parks(d, k.since + HardDownCooldown)
          /\ k.kind = "recover" /\ ~l.disturbed => Clear(d, k.at)
  /\ l.on # Nobody /\ ~l.disturbed =>
       \/ l.on = k.on /\ l.observed = k.observed
       \/ l.on = n /\ d.cooldown <= l.observed

\* Every conjunct of the invariant survives such a step, if the cell keeps
\* what parks it, and what clears it unless the recoveries learn of it.
LEMMA CellMoves ==
  ASSUME IInv, NEW n \in Names, NEW d \in Cell,
         Paired(d), Holds(cells[n], d),
         cells' = [cells EXCEPT ![n] = d],
         task' \in [Tasks -> TaskRec],
         \A u \in Tasks : Walks(task[u], task'[u], n, d),
         Soothes(cells[n], d) \/ \A u \in Running("recover") : task'[u].disturbed,
         UNCHANGED <<now, known, creating, draft, sealed>>
  PROVE  IInv'
<1>1. /\ now \in Nat /\ cells \in [Names -> Cell] /\ known \subseteq Pools
      /\ creating \in Pools \cup {Nobody} /\ draft \in [cell : Cell, copied : 0 .. 2]
      /\ task \in [Tasks -> TaskRec] /\ sealed \in Nat
  BY TasksTyped DEF IInv
<1>2. cells' \in [Names -> Cell] /\ cells'[n] = d
      /\ \A m \in Names : m # n => cells'[m] = cells[m]
  BY <1>1
<1>3. TypeOK'
  BY <1>1, <1>2 DEF TypeOK, TaskRec
<1>4. FlagsPaired'
  BY <1>2 DEF IInv, FlagsPaired
<1>5. Reading' \subseteq Reading /\ \A k : Running(k)' = Running(k)
  BY DEF Reading, Running, Walks
<1>6. CreatesAlone'
  BY <1>5 DEF IInv, CreatesAlone
<1>7. TimesPass'
  <2>1. \A u \in Tasks : task'[u].at = task[u].at /\ task'[u].since = task[u].since
    BY DEF Walks
  <2> QED
    BY <1>5, <2>1 DEF IInv, TimesPass, Running
<1>8. StagesMatch'
  BY DEF StagesMatch, Walks, Staged
<1>9. ASSUME NEW m \in Names, NEW u \in Marks, now < u, Parks(cells[m], u)
      PROVE  Parks(cells'[m], u)
  BY <1>2, <1>9 DEF Holds
<1>10. SealStands'
  <2>1. Live' = Live /\ Live \subseteq Names
    BY <1>1 DEF Live, Names
  <2> QED
    BY <1>1, <1>5, <1>9, <2>1 DEF IInv, SealStands, Marks
<1>11. ParkedBehind'
  <2> SUFFICES ASSUME NEW t \in Running("hard_down"), ~task'[t].disturbed
               PROVE  /\ Running("recover") = {}
                      /\ now < task[t].since + HardDownCooldown =>
                           \A m \in Visited(task'[t]) :
                             Parks(cells'[m], task[t].since + HardDownCooldown)
    <3>1. \A t \in Tasks : task'[t].since = task[t].since
      BY DEF Walks
    <3>2. \A t \in Tasks : Visited(task[t])' = Visited(task'[t])
      BY DEF Visited, Live
    <3> QED
      BY <1>5, <3>1, <3>2 DEF ParkedBehind, Running
  <2>1. t \in Tasks /\ task[t].kind = "hard_down" /\ Walks(task[t], task'[t], n, d)
    BY DEF Running
  <2>2. ~task[t].disturbed
    BY <2>1 DEF Walks
  <2>3. Running("recover") = {}
    BY <2>2 DEF IInv, ParkedBehind
  <2> DEFINE u == task[t].since + HardDownCooldown
  <2>4. u \in Marks
    BY <2>2 DEF Marks
  <2>5. ASSUME now < u, NEW m \in Visited(task'[t]) PROVE Parks(cells'[m], u)
    <3>1. CASE m \in Visited(task[t])
      <4>1. Parks(cells[m], u)
        BY <2>2, <2>5, <3>1 DEF IInv, ParkedBehind
      <4>2. m \in Names
        BY <1>1, <3>1 DEF Visited, Live, Names
      <4> HIDE DEF u
      <4> QED
        BY <1>9, <2>4, <2>5, <4>1, <4>2
    <3>2. CASE m \notin Visited(task[t])
      BY <1>2, <2>1, <3>2 DEF Walks
    <3> QED
      BY <3>1, <3>2
  <2> QED
    BY <2>3, <2>5
<1>12. ClearedBehind'
  <2> SUFFICES ASSUME NEW t \in Running("recover"), ~task'[t].disturbed
               PROVE  /\ \A m \in Visited(task'[t]) : Clear(cells'[m], task[t].at)
                      /\ task'[t].on # Nobody =>
                           cells'[task'[t].on].cooldown <= task'[t].observed
    <3>1. \A t \in Tasks : task'[t].at = task[t].at
      BY DEF Walks
    <3>2. \A t \in Tasks : Visited(task[t])' = Visited(task'[t])
      BY DEF Visited, Live
    <3> QED
      BY <1>5, <3>1, <3>2 DEF ClearedBehind, Running
  <2>1. t \in Tasks /\ task[t].kind = "recover" /\ Walks(task[t], task'[t], n, d)
    BY DEF Running
  <2>2. ~task[t].disturbed
    BY <2>1 DEF Walks
  <2>3. Soothes(cells[n], d)
    OBVIOUS
  <2>4. task[t].at \in Nat
    BY <1>1, <2>1 DEF TaskRec
  <2>5. ASSUME NEW m \in Visited(task'[t]) PROVE Clear(cells'[m], task[t].at)
    <3>1. CASE m \in Visited(task[t])
      <4>1. Clear(cells[m], task[t].at)
        BY <2>2, <3>1 DEF IInv, ClearedBehind
      <4>2. m \in Names
        BY <1>1, <3>1 DEF Visited, Live, Names
      <4> QED
        BY <1>2, <2>3, <2>4, <4>1, <4>2 DEF Soothes
    <3>2. CASE m \notin Visited(task[t])
      BY <1>2, <2>1, <2>5, <3>2 DEF Walks
    <3> QED
      BY <3>1, <3>2
  <2>6. ASSUME task'[t].on # Nobody PROVE cells'[task'[t].on].cooldown <= task'[t].observed
    <3>1. CASE task'[t].on = task[t].on /\ task'[t].observed = task[t].observed
      <4>1. cells[task[t].on].cooldown <= task[t].observed
        BY <2>2, <2>6, <3>1 DEF IInv, ClearedBehind
      <4>2. task[t].on \in Names /\ task[t].observed \in Nat
        BY <1>1, <2>1, <2>6, <3>1 DEF TaskRec
      <4>3. \A m \in Names : cells[m].cooldown \in Nat /\ cells'[m].cooldown \in Nat
        BY <1>1, <1>2 DEF Cell
      <4>4. cells'[task[t].on].cooldown <= cells[task[t].on].cooldown
        BY <1>2, <2>3, <4>2, <4>3 DEF Soothes
      <4> QED
        BY <3>1, <4>1, <4>2, <4>3, <4>4
    <3>2. CASE task'[t].on = n /\ d.cooldown <= task'[t].observed
      BY <1>2, <3>2
    <3> QED
      BY <2>1, <2>6, <3>1, <3>2 DEF Walks
  <2> QED
    BY <2>5, <2>6
<1> QED
  BY <1>3, <1>4, <1>6, <1>7, <1>8, <1>10, <1>11, <1>12 DEF IInv

-----------------------------------------------------------------------------
(* The steps that work on a cell.                                          *)

\* The marks are times.
LEMMA MarksTyped == IInv => Marks \subseteq Nat
<1> SUFFICES ASSUME IInv PROVE Marks \subseteq Nat
  OBVIOUS
<1>1. task \in [Tasks -> TaskRec] /\ sealed \in Nat
  BY TasksTyped DEF IInv
<1>2. \A u \in Tasks : task[u].since + HardDownCooldown \in Nat
  BY <1>1, ConfigAssumption DEF TaskRec
<1> QED
  BY <1>1, <1>2 DEF Marks, Running

\* A task that at most learns of a disturbance walks nowhere.
LEMMA StandsStill ==
  ASSUME NEW k \in TaskRec, NEW l \in TaskRec, NEW n, NEW d, Staged(k),
         l.kind = k.kind, l.stage = k.stage, l.at = k.at, l.todo = k.todo,
         l.on = k.on, l.observed = k.observed, l.since = k.since,
         k.disturbed => l.disturbed
  PROVE  Walks(k, l, n, d)
BY DEF Walks, Staged, Visited

\* What a request does to a cell.
LEMMA OrganicKeeps ==
  ASSUME IInv, NEW n \in Names, Organic(n)
  PROVE  IInv'
<1>1. /\ now \in Nat /\ cells \in [Names -> Cell] /\ task \in [Tasks -> TaskRec]
      /\ cells[n] \in Cell
  BY TasksTyped DEF IInv
<1>2. \A u \in Tasks : Staged(task[u])
  BY DEF IInv, StagesMatch
<1>3. Paired(cells[n]) /\ Marks \subseteq Nat
  BY MarksTyped DEF IInv, FlagsPaired
<1>4. /\ Disturbing(task) \in [Tasks -> TaskRec]
      /\ \A u \in Running("recover") : Disturbing(task)[u].disturbed
      /\ \A u \in Tasks, d \in Cell : Walks(task[u], Disturbing(task)[u], n, d)
  <2> DEFINE f == Disturbing(task)
  <2>1. /\ f \in [Tasks -> TaskRec]
        /\ \A u \in Tasks :
             /\ f[u].kind = task[u].kind /\ f[u].stage = task[u].stage
             /\ f[u].at = task[u].at /\ f[u].todo = task[u].todo
             /\ f[u].on = task[u].on /\ f[u].observed = task[u].observed
             /\ f[u].since = task[u].since
             /\ task[u].disturbed => f[u].disturbed
             /\ task[u].kind = "recover" => f[u].disturbed
    BY <1>1, MarksDisturbed DEF Disturbing
  <2> HIDE DEF f
  <2>2. \A u \in Running("recover") : f[u].disturbed
    BY <2>1 DEF Running
  <2>3. \A u \in Tasks, d \in Cell : Walks(task[u], f[u], n, d)
    BY <1>1, <1>2, <2>1, StandsStill
  <2> QED
    BY <2>1, <2>2, <2>3 DEF f
<1>5. \A u \in Tasks, d \in Cell : Walks(task[u], task[u], n, d)
  BY <1>1, <1>2, StandsStill
<1>6. CASE OrganicFailure(n)
  <2>1. PICK h \in Hints : \E d \in AfterFailure(Pushed(cells[n], now, TRUE), now, h) :
          cells' = [cells EXCEPT ![n] = d]
    BY <1>6 DEF OrganicFailure
  <2>2. PICK d \in AfterFailure(Pushed(cells[n], now, TRUE), now, h) :
          cells' = [cells EXCEPT ![n] = d]
    BY <2>1
  <2>3. d \in Cell /\ Paired(d) /\ Holds(cells[n], d)
    BY <1>1, <1>3, <2>2, FailureOn
  <2>4. /\ task' = Disturbing(task)
        /\ UNCHANGED <<now, known, creating, draft, sealed>>
    BY <1>6 DEF OrganicFailure
  <2> QED
    BY <1>4, <2>2, <2>3, <2>4, CellMoves
<1>7. CASE OrganicSuccess(n)
  <2> DEFINE d == AfterSuccess(cells[n], now)
  <2>1. d \in Cell /\ Paired(d) /\ Holds(cells[n], d) /\ Soothes(cells[n], d)
    BY <1>1, <1>3, SuccessOn
  <2>2. /\ cells' = [cells EXCEPT ![n] = d] /\ task' = task
        /\ UNCHANGED <<now, known, creating, draft, sealed>>
    BY <1>7 DEF OrganicSuccess
  <2> HIDE DEF d
  <2> QED
    BY <1>1, <1>5, <2>1, <2>2, CellMoves
<1>8. CASE OrganicProbe(n)
  <2> DEFINE d == ProbeWon(cells[n])
  <2>1. d \in Cell /\ Paired(d) /\ Holds(cells[n], d)
    BY <1>1, <1>3, <1>8, ProbeOn DEF OrganicProbe
  <2>2. /\ cells' = [cells EXCEPT ![n] = d] /\ task' = Disturbing(task)
        /\ UNCHANGED <<now, known, creating, draft, sealed>>
    BY <1>8 DEF OrganicProbe
  <2> HIDE DEF d
  <2> QED
    BY <1>4, <2>1, <2>2, CellMoves
<1>9. CASE OrganicRelease(n)
  <2> DEFINE d == ProbeReleased(cells[n])
  <2>1. d \in Cell /\ Paired(d) /\ Holds(cells[n], d) /\ Soothes(cells[n], d)
    BY <1>1, ReleaseOn
  <2>2. /\ cells' = [cells EXCEPT ![n] = d] /\ task' = task
        /\ UNCHANGED <<now, known, creating, draft, sealed>>
    BY <1>9 DEF OrganicRelease
  <2> HIDE DEF d
  <2> QED
    BY <1>1, <1>5, <2>1, <2>2, CellMoves
<1> QED
  BY <1>6, <1>7, <1>8, <1>9 DEF Organic

\* A task that is done with cell n has walked past it.
LEMMA WalksOn ==
  ASSUME IInv, NEW t \in Tasks, NEW n \in Names, NEW d \in Cell,
         n \in Next_cell(t), task[t].stage \in {"default", "pools", "credit", "credit_pools"},
         task[t].kind = "hard_down" => Parks(d, task[t].since + HardDownCooldown),
         NEW l \in TaskRec, PastCell(task[t], l, n),
         task[t].kind = "recover" /\ ~l.disturbed /\ task[t].stage \in {"default", "pools"}
           => Clear(d, task[t].at)
  PROVE  Walks(task[t], l, n, d)
<1> DEFINE k == task[t]
<1>1. /\ k \in TaskRec /\ TypeOK /\ Staged(k)
  BY TasksTyped DEF IInv, StagesMatch
<1>2. /\ l.kind = k.kind /\ l.at = k.at /\ l.since = k.since
      /\ k.disturbed => l.disturbed
      /\ l.todo = k.todo \ {n}
      /\ l.stage = IF k.stage = "default" THEN "lock"
                   ELSE IF k.stage = "credit" THEN "credit_lock" ELSE k.stage
      /\ l.on \in {Nobody, k.on}
      /\ k.stage # "credit" => l.on = Nobody
  BY DEF PastCell
<1>3. n \in IF k.stage \in {"default", "credit"} THEN {Default} ELSE k.todo
  BY DEF Next_cell
<1>4. k.stage \in {"default", "pools", "credit", "credit_pools"}
  OBVIOUS
<1>5. /\ k.kind = "hard_down" => Parks(d, k.since + HardDownCooldown)
      /\ k.kind = "recover" /\ ~l.disturbed /\ k.stage \in {"default", "pools"}
           => Clear(d, k.at)
  OBVIOUS
<1> HIDE DEF k
<1>6. l.on = Nobody
  BY <1>1, <1>2 DEF Staged
<1>7. Staged(l)
  BY <1>1, <1>2, <1>4, <1>6 DEF Staged
<1>8. ASSUME NEW m \in Visited(l)
      PROVE  \/ m \in Visited(k)
             \/ m = n /\ k.stage \in {"default", "pools"}
  BY <1>2, <1>3, <1>4, <1>8 DEF Visited
<1>9. Walks(k, l, n, d)
  BY <1>2, <1>4, <1>5, <1>6, <1>7, <1>8 DEF Walks
<1> QED
  BY <1>9 DEF k

\* The tasks when t goes on from cell n, and others may learn of it.
LEMMA OnwardWalks ==
  ASSUME IInv, NEW t \in Tasks, NEW n \in Names, NEW d \in Cell,
         n \in Next_cell(t), task[t].stage \in {"default", "pools", "credit", "credit_pools"},
         task[t].kind = "hard_down" => Parks(d, task[t].since + HardDownCooldown),
         NEW f \in [Tasks -> TaskRec],
         f = Onward(t, n) \/ f = Disturbing(Onward(t, n)),
         task[t].kind = "recover" /\ ~f[t].disturbed /\ task[t].stage \in {"default", "pools"}
           => Clear(d, task[t].at)
  PROVE  \A u \in Tasks : Walks(task[u], f[u], n, d)
<1> DEFINE o == Onward(t, n)
<1>1. /\ o \in [Tasks -> TaskRec]
      /\ \A u \in Tasks : u # t => o[u] = task[u]
      /\ PastCell(task[t], o[t], n)
  BY Advances DEF IInv
<1>2. task \in [Tasks -> TaskRec] /\ \A u \in Tasks : Staged(task[u])
  BY TasksTyped DEF IInv, StagesMatch
<1>3. f = o \/ f = Disturbed(o, "recover")
  BY DEF Disturbing
<1> HIDE DEF o
<1>4. \A u \in Tasks :
        /\ f[u].kind = o[u].kind /\ f[u].stage = o[u].stage /\ f[u].at = o[u].at
        /\ f[u].todo = o[u].todo /\ f[u].on = o[u].on
        /\ f[u].observed = o[u].observed /\ f[u].since = o[u].since
        /\ o[u].disturbed => f[u].disturbed
  BY <1>1, <1>3, MarksDisturbed
<1>5. ASSUME NEW u \in Tasks, u # t PROVE Walks(task[u], f[u], n, d)
  BY <1>1, <1>2, <1>4, <1>5, StandsStill
<1>6. PastCell(task[t], f[t], n)
  BY <1>1, <1>4 DEF PastCell
<1>7. Walks(task[t], f[t], n, d)
  BY <1>6, WalksOn
<1> QED
  BY <1>5, <1>7

\* A disturbance reaches every recovery.
LEMMA RecoveriesLearn ==
  ASSUME IInv, NEW t \in Tasks, NEW n
  PROVE  /\ Disturbing(Onward(t, n)) \in [Tasks -> TaskRec]
         /\ \A u \in Running("recover") : Disturbing(Onward(t, n))[u].disturbed
<1> DEFINE o == Onward(t, n)
<1>1. /\ o \in [Tasks -> TaskRec]
      /\ \A u \in Tasks : u # t => o[u] = task[u]
      /\ PastCell(task[t], o[t], n)
  BY Advances DEF IInv
<1>2. \A u \in Tasks : o[u].kind = task[u].kind
  BY <1>1 DEF PastCell
<1> HIDE DEF o
<1>3. /\ Disturbed(o, "recover") \in [Tasks -> TaskRec]
      /\ \A u \in Tasks : o[u].kind = "recover" => Disturbed(o, "recover")[u].disturbed
  BY <1>1, MarksDisturbed
<1> QED
  BY <1>2, <1>3 DEF Disturbing, Running, o

\* A hard-down parks a cell no shorter than anyone else has.
LEMMA ParkKeeps ==
  ASSUME IInv, NEW t \in Tasks, NEW n \in Names, Park(t, n)
  PROVE  IInv'
<1> DEFINE d == HardDowned(cells[n], task[t].at)
<1>1. /\ now \in Nat /\ cells[n] \in Cell /\ task \in [Tasks -> TaskRec] /\ sealed \in Nat
  BY TasksTyped DEF IInv
<1>2. /\ \A u \in Tasks : task[u].at \in Nat /\ task[u].since \in Nat
      /\ HardDownCooldown \in Nat
  BY <1>1, ConfigAssumption DEF TaskRec
<1>3. /\ d \in Cell /\ d.state = Open /\ d.cooldown = task[t].at + HardDownCooldown
      /\ d.probe = FALSE
  BY <1>1, <1>2, HardDownedTyped
<1>4. /\ task[t].kind = "hard_down" /\ n \in Next_cell(t)
      /\ task[t].stage \in {"default", "pools"}
      /\ cells' = [cells EXCEPT ![n] = d] /\ task' = Disturbing(Onward(t, n))
      /\ UNCHANGED <<now, known, creating, draft, sealed>>
  BY DEF Park, Visiting, Onward
<1> HIDE DEF d
<1>5. \A u \in Running("hard_down") : task[u].since <= task[t].at
  BY <1>4 DEF IInv, TimesPass, Running
<1>6. sealed <= task[t].at + HardDownCooldown
  BY <1>4 DEF IInv, TimesPass, Running
<1>7. Parks(d, task[t].since + HardDownCooldown)
  BY <1>2, <1>3, <1>4, <1>5 DEF Parks, Running
<1>8. Paired(d)
  BY <1>3 DEF Paired, Open, HalfOpen
<1>9. Holds(cells[n], d)
  <2>1. ASSUME NEW u \in Marks PROVE Parks(d, u)
    <3>1. CASE u = sealed
      BY <1>3, <1>6, <3>1 DEF Parks
    <3>2. CASE u # sealed
      <4>1. PICK v \in Running("hard_down") : u = task[v].since + HardDownCooldown
        BY <3>2 DEF Marks
      <4>2. v \in Tasks /\ task[v].since <= task[t].at
        BY <1>5 DEF Running
      <4> QED
        BY <1>2, <1>3, <4>1, <4>2 DEF Parks
    <3> QED
      BY <3>1, <3>2
  <2> QED
    BY <2>1 DEF Holds
<1>10. /\ task' \in [Tasks -> TaskRec]
       /\ \A u \in Running("recover") : task'[u].disturbed
  BY <1>4, RecoveriesLearn
<1>11. \A u \in Tasks : Walks(task[u], task'[u], n, d)
  BY <1>3, <1>4, <1>7, <1>10, OnwardWalks
<1> QED
  BY <1>3, <1>4, <1>8, <1>9, <1>10, <1>11, CellMoves

\* A probe's failure is recorded on a cell.
LEMMA FailKeeps ==
  ASSUME IInv, NEW t \in Tasks, NEW n \in Names, Fail(t, n)
  PROVE  IInv'
<1>1. /\ cells[n] \in Cell /\ task[t] \in TaskRec
  BY TasksTyped DEF IInv
<1>2. task[t].at \in Nat /\ task[t].hint \in Hints
  BY <1>1 DEF TaskRec
<1>3. PICK d \in AfterFailure(Pushed(cells[n], task[t].at, TRUE), task[t].at, task[t].hint) :
        cells' = [cells EXCEPT ![n] = d]
  BY DEF Fail
<1>4. d \in Cell /\ Paired(d) /\ Holds(cells[n], d)
  BY <1>1, <1>2, <1>3, FailureOn DEF IInv, FlagsPaired
<1>5. /\ task[t].kind = "probe_failure" /\ n \in Next_cell(t)
      /\ task[t].stage \in {"default", "pools"}
      /\ task' = Disturbing(Onward(t, n))
      /\ UNCHANGED <<now, known, creating, draft, sealed>>
  BY DEF Fail, Visiting, Onward
<1>6. /\ task' \in [Tasks -> TaskRec]
      /\ \A u \in Running("recover") : task'[u].disturbed
  BY <1>5, RecoveriesLearn
<1>7. \A u \in Tasks : Walks(task[u], task'[u], n, d)
  BY <1>4, <1>5, <1>6, OnwardWalks
<1> QED
  BY <1>3, <1>4, <1>5, <1>6, <1>7, CellMoves

\* A probe's success is credited to a cell.
LEMMA CreditKeeps ==
  ASSUME IInv, NEW t \in Tasks, NEW n \in Names, Credit(t, n)
  PROVE  IInv'
<1> DEFINE d == AfterSuccess(cells[n], now)
<1>1. /\ cells[n] \in Cell /\ now \in Nat /\ TypeOK
  BY TasksTyped DEF IInv
<1>2. d \in Cell /\ Paired(d) /\ Holds(cells[n], d) /\ Soothes(cells[n], d)
  BY <1>1, SuccessOn DEF IInv, FlagsPaired
<1>3. /\ task[t].stage \in {"credit", "credit_pools"} /\ n \in Next_cell(t)
      /\ cells' = [cells EXCEPT ![n] = d] /\ task' = Onward(t, n)
      /\ UNCHANGED <<now, known, creating, draft, sealed>>
  BY DEF Credit, Onward
<1> HIDE DEF d
<1>4. task' \in [Tasks -> TaskRec]
  BY <1>1, <1>3, Advances
<1>5. task[t].kind # "hard_down"
  BY <1>3 DEF IInv, StagesMatch, Staged
<1>6. \A u \in Tasks : Walks(task[u], task'[u], n, d)
  BY <1>2, <1>3, <1>4, <1>5, OnwardWalks
<1> QED
  BY <1>2, <1>3, <1>4, <1>6, CellMoves

\* A recovery looks at a cell, and goes on if there is nothing to recover.
LEMMA ObserveKeeps ==
  ASSUME IInv, NEW t \in Tasks, NEW n \in Names, Observe(t, n)
  PROVE  IInv'
<1> DEFINE k == task[t]
           c == cells[n]
<1>1. /\ TypeOK /\ task \in [Tasks -> TaskRec] /\ cells \in [Names -> Cell]
      /\ c \in Cell /\ k \in TaskRec
  BY TasksTyped DEF IInv
<1>2. \A u \in Tasks : Staged(task[u])
  BY DEF IInv, StagesMatch
<1>3. Paired(c) /\ Holds(c, c) /\ Soothes(c, c)
  <2>1. c.cooldown \in Nat
    BY <1>1 DEF Cell
  <2> QED
    BY <2>1 DEF IInv, FlagsPaired, Holds, Soothes
<1>4. cells' = [cells EXCEPT ![n] = c]
  BY <1>1 DEF Observe
<1>5. /\ k.kind = "recover" /\ n \in Next_cell(t) /\ k.stage \in {"default", "pools"}
      /\ UNCHANGED <<now, known, creating, draft, sealed>>
  BY DEF Observe, Visiting
<1>6. CASE Suppressed(c, k.at)
  <2> DEFINE l == [k EXCEPT !.on = n, !.observed = c.cooldown]
  <2>1. task' = [task EXCEPT ![t] = l]
    BY <1>1, <1>6 DEF Observe
  <2>2. n \in IF k.stage = "default" THEN {Default} ELSE k.todo
    BY <1>5 DEF Next_cell
  <2>3. c.cooldown \in Nat
    BY <1>1 DEF Cell
  <2> HIDE DEF k, c
  <2>4. /\ l \in TaskRec
        /\ l.kind = k.kind /\ l.stage = k.stage /\ l.at = k.at /\ l.todo = k.todo
        /\ l.since = k.since /\ l.disturbed = k.disturbed
        /\ l.on = n /\ l.observed = c.cooldown
    BY <1>1, <2>3 DEF TaskRec
  <2> HIDE DEF l
  <2>5. Staged(l)
    BY <1>5, <2>2, <2>4 DEF Staged
  <2>6. Visited(l) = Visited(k)
    BY <2>4 DEF Visited
  <2>7. Walks(k, l, n, c)
    BY <1>5, <2>3, <2>4, <2>5, <2>6 DEF Walks
  <2>8. /\ task' \in [Tasks -> TaskRec] /\ task'[t] = l
        /\ \A u \in Tasks : u # t => task'[u] = task[u]
    BY <1>1, <2>1, <2>4
  <2>9. \A u \in Tasks : Walks(task[u], task'[u], n, c)
    <3>1. ASSUME NEW u \in Tasks, u # t PROVE Walks(task[u], task'[u], n, c)
      BY <1>1, <1>2, <2>8, <3>1, StandsStill
    <3> QED
      BY <2>7, <2>8, <3>1 DEF k
  <2> QED
    BY <1>1, <1>3, <1>4, <1>5, <2>8, <2>9, CellMoves DEF c
<1>7. CASE ~Suppressed(c, k.at)
  <2>1. task' = Onward(t, n)
    BY <1>7 DEF Observe, Onward
  <2>2. task' \in [Tasks -> TaskRec]
    BY <1>1, <2>1, Advances
  <2>3. Clear(c, k.at)
    <3>1. c.cooldown \in Nat /\ k.at \in Nat
      BY <1>1 DEF Cell, TaskRec
    <3> QED
      BY <1>7, <3>1 DEF Suppressed, Clear
  <2>4. \A u \in Tasks : Walks(task[u], task'[u], n, c)
    BY <1>1, <1>5, <2>1, <2>2, <2>3, OnwardWalks
  <2> QED
    BY <1>1, <1>3, <1>4, <1>5, <2>2, <2>4, CellMoves
<1> QED
  BY <1>6, <1>7

\* A recovery closes the cell it has looked at, unless it is parked for longer.
LEMMA CloseKeeps ==
  ASSUME IInv, NEW t \in Tasks, CloseObserved(t)
  PROVE  IInv'
<1> DEFINE k == task[t]
           n == k.on
           c == cells[n]
           d == Recovered(c, k.at, k.observed)
           o == Onward(t, n)
<1>1. /\ TypeOK /\ task \in [Tasks -> TaskRec] /\ cells \in [Names -> Cell]
      /\ k \in TaskRec /\ now \in Nat /\ sealed \in Nat
  BY TasksTyped DEF IInv
<1>2. \A u \in Tasks : Staged(task[u])
  BY DEF IInv, StagesMatch
<1>3. /\ k.kind = "recover" /\ n # Nobody /\ cells' = [cells EXCEPT ![n] = d]
      /\ task' = [o EXCEPT ![t].observed = 0]
      /\ UNCHANGED <<now, known, creating, draft, sealed>>
  BY DEF CloseObserved, Onward
<1>4. n \in Names /\ c \in Cell /\ k.at \in Nat /\ k.observed \in Nat
  BY <1>1, <1>3 DEF TaskRec
<1>5. k.stage \in {"default", "pools"} /\ n \in Next_cell(t)
  BY <1>2, <1>3 DEF Staged, Next_cell
<1>6. ~k.disturbed => c.cooldown <= k.observed
  BY <1>3 DEF IInv, ClearedBehind, Running
<1>7. Paired(c)
  BY <1>4 DEF IInv, FlagsPaired
<1>8. d = c \/ d = ClosedAgain(c)
  BY DEF Recovered
<1>9. ~k.disturbed => (d = ClosedAgain(c) \/ (d = c /\ ~Suppressed(c, k.at)))
  BY <1>6 DEF Recovered
<1>10. t \in Running("recover")
  BY <1>3 DEF Running
<1>11. Marks = {0}
  <2>1. sealed = 0
    BY <1>1, <1>10 DEF IInv, SealStands
  <2>2. {v \in Running("hard_down") : ~task[v].disturbed} = {}
    BY <1>10 DEF IInv, ParkedBehind
  <2> QED
    BY <2>1, <2>2 DEF Marks
<1>12. /\ o \in [Tasks -> TaskRec] /\ \A u \in Tasks : u # t => o[u] = task[u]
       /\ PastCell(k, o[t], n)
  BY <1>1, Advances
<1> HIDE DEF d, c, o
<1>13. d \in Cell /\ Paired(d) /\ Soothes(c, d)
  <2>1. c.cooldown \in Nat
    BY <1>4 DEF Cell
  <2>2. Soothes(c, c)
    BY <2>1 DEF Soothes
  <2> QED
    BY <1>4, <1>7, <1>8, <2>2, CloseOn
<1>14. Holds(c, d)
  BY <1>1, <1>11 DEF Holds
<1>15. ~k.disturbed => Clear(d, k.at)
  <2>1. c.cooldown \in Nat
    BY <1>4 DEF Cell
  <2>2. ~Suppressed(c, k.at) => Clear(c, k.at)
    BY <1>4, <2>1 DEF Suppressed, Clear
  <2> QED
    BY <1>4, <1>9, <2>2, CloseOn
<1>16. /\ task' \in [Tasks -> TaskRec]
       /\ \A u \in Tasks : u # t => task'[u] = task[u]
       /\ PastCell(k, task'[t], n)
  <2> DEFINE l == [o[t] EXCEPT !.observed = 0]
  <2>1. task' = [o EXCEPT ![t] = l]
    BY <1>3
  <2>2. o[t] \in TaskRec
    BY <1>12
  <2>3. /\ l \in TaskRec
        /\ l.kind = o[t].kind /\ l.stage = o[t].stage /\ l.at = o[t].at
        /\ l.todo = o[t].todo /\ l.on = o[t].on
        /\ l.since = o[t].since /\ l.disturbed = o[t].disturbed
    BY <2>2 DEF TaskRec
  <2> HIDE DEF l
  <2>4. PastCell(k, l, n)
    BY <1>12, <2>3 DEF PastCell
  <2> QED
    BY <1>12, <2>1, <2>3, <2>4
<1>17. Walks(task[t], task'[t], n, d)
  <2>1. ~task'[t].disturbed => ~task[t].disturbed
    BY <1>16 DEF PastCell
  <2> QED
    BY <1>3, <1>4, <1>5, <1>13, <1>15, <1>16, <2>1, WalksOn
<1>18. \A u \in Tasks : Walks(task[u], task'[u], n, d)
  <2>1. ASSUME NEW u \in Tasks, u # t PROVE Walks(task[u], task'[u], n, d)
    BY <1>1, <1>2, <1>16, <2>1, StandsStill
  <2> QED
    BY <1>17, <2>1
<1> QED
  BY <1>3, <1>4, <1>13, <1>14, <1>16, <1>18, CellMoves DEF c

-----------------------------------------------------------------------------
(* The clock, the creation of a cell, and the ends of an operation.        *)

\* Nothing is parked longer by waiting.
LEMMA TickKeeps ==
  ASSUME IInv, Tick
  PROVE  IInv'
<1>1. /\ now \in Nat /\ task \in [Tasks -> TaskRec] /\ sealed \in Nat
      /\ now' = now + 1 /\ now' \in Nat
      /\ UNCHANGED <<cells, known, creating, draft, task, sealed>>
  BY TasksTyped DEF IInv, Tick
<1>2. HardDownCooldown \in Nat
  BY ConfigAssumption
<1>3. \A t \in Tasks : task[t].at \in Nat /\ task[t].since \in Nat
  BY <1>1 DEF TaskRec
<1>4. /\ \A k : Running(k)' = Running(k)
      /\ \A t \in Tasks : Visited(task[t])' = Visited(task[t])
      /\ Live' = Live /\ Reading' = Reading
  BY <1>1 DEF Running, Visited, Live, Reading
<1>5. TypeOK' /\ FlagsPaired' /\ CreatesAlone' /\ StagesMatch'
  BY <1>1, <1>4 DEF IInv, TypeOK, FlagsPaired, CreatesAlone, StagesMatch
<1>6. TimesPass'
  BY <1>1, <1>2, <1>3, <1>4 DEF IInv, TimesPass
<1>7. SealStands'
  BY <1>1, <1>4 DEF IInv, SealStands
<1>8. ParkedBehind'
  <2>1. \A t \in Running("hard_down") : t \in Tasks
    BY DEF Running
  <2>2. \A t \in Tasks : now' < task[t].since + HardDownCooldown
                           => now < task[t].since + HardDownCooldown
    BY <1>1, <1>2, <1>3
  <2> QED
    BY <1>1, <1>4, <2>1, <2>2 DEF IInv, ParkedBehind
<1>9. ClearedBehind'
  <2>1. \A t \in Running("recover") : t \in Tasks
    BY DEF Running
  <2> QED
    BY <1>1, <1>4, <2>1 DEF IInv, ClearedBehind
<1> QED
  BY <1>5, <1>6, <1>7, <1>8, <1>9 DEF IInv

\* While only the cell in the making changes, the tasks stand where they are.
LEMMA DraftKeeps ==
  ASSUME IInv, UNCHANGED <<now, cells, known, task, sealed>>,
         creating' \in Pools \cup {Nobody}, draft' \in [cell : Cell, copied : 0 .. 2],
         draft'.cell.state # HalfOpen, ~draft'.cell.probe,
         creating' # Nobody => Reading = {},
         now < sealed /\ creating' # Nobody =>
           /\ draft'.cell.state = Open
           /\ draft'.copied = 1 => draft'.cell.cooldown >= sealed
  PROVE  IInv'
<1>1. /\ \A k : Running(k)' = Running(k)
      /\ \A t \in Tasks : Visited(task[t])' = Visited(task[t])
      /\ Live' = Live /\ Reading' = Reading
  BY DEF Running, Visited, Live, Reading
<1>2. \A k : \A t \in Running(k) : t \in Tasks
  BY DEF Running
<1>3. TypeOK' /\ FlagsPaired' /\ CreatesAlone' /\ StagesMatch'
  BY <1>1 DEF IInv, TypeOK, FlagsPaired, CreatesAlone, StagesMatch
<1>4. TimesPass' /\ SealStands'
  BY <1>1 DEF IInv, TimesPass, SealStands
<1>5. ParkedBehind' /\ ClearedBehind'
  BY <1>1, <1>2 DEF IInv, ParkedBehind, ClearedBehind
<1> QED
  BY <1>3, <1>4, <1>5 DEF IInv

\* A cell begins as a copy of the default cell's state, HalfOpen made Open.
LEMMA BeginCreateKeeps ==
  ASSUME IInv, NEW p \in Pools, BeginCreate(p)
  PROVE  IInv'
<1> DEFINE s == Normalized(cells[Default].state)
           c == [FreshCell EXCEPT !.state = s]
<1>1. cells[Default] \in Cell
  BY TasksTyped DEF IInv, Names
<1>2. /\ s \in {Closed, Open}
      /\ cells[Default].state = Open => s = Open
  BY <1>1 DEF Cell, Normalized, Closed, Open, HalfOpen
<1> HIDE DEF s
<1>3. c \in Cell /\ c.state = s /\ c.probe = FALSE
  BY <1>2, FreshTyped DEF Cell, FreshCell
<1> HIDE DEF c
<1>4. /\ Reading = {} /\ creating' = p /\ draft' = [cell |-> c, copied |-> 0]
      /\ UNCHANGED <<now, cells, known, task, sealed>>
  BY DEF BeginCreate, WriteLockFree, c, s
<1>5. /\ draft' \in [cell : Cell, copied : 0 .. 2] /\ draft'.copied = 0
      /\ draft'.cell.state = s /\ ~draft'.cell.probe
  BY <1>3, <1>4
<1>6. now < sealed => s = Open
  BY <1>2 DEF IInv, SealStands, Live, Parks
<1>7. s # HalfOpen
  BY <1>2 DEF Closed, Open, HalfOpen
<1> QED
  BY <1>4, <1>5, <1>6, <1>7, DraftKeeps

\* Then it copies the default cell's deadline.
LEMMA CopyCooldownKeeps ==
  ASSUME IInv, CopyCooldown
  PROVE  IInv'
<1> DEFINE u == cells[Default].cooldown
           c == [draft.cell EXCEPT !.cooldown = u]
<1>1. /\ cells[Default] \in Cell /\ draft.cell \in Cell
      /\ creating \in Pools \cup {Nobody}
  BY TasksTyped DEF IInv, Names
<1>2. u \in Nat
  BY <1>1 DEF Cell
<1>3. now < sealed => u >= sealed
  BY DEF IInv, SealStands, Live, Parks
<1> HIDE DEF u
<1>4. c \in Cell /\ c.state = draft.cell.state /\ c.probe = draft.cell.probe /\ c.cooldown = u
  BY <1>1, <1>2 DEF Cell
<1> HIDE DEF c
<1>5. /\ creating # Nobody /\ creating' = creating
      /\ draft' = [cell |-> c, copied |-> 1]
      /\ UNCHANGED <<now, cells, known, task, sealed>>
  BY DEF CopyCooldown, c, u
<1>6. /\ draft' \in [cell : Cell, copied : 0 .. 2]
      /\ draft'.cell.state = draft.cell.state /\ ~draft'.cell.probe
      /\ draft'.cell.cooldown = u
      /\ draft'.cell.state # HalfOpen
  BY <1>4, <1>5 DEF IInv, FlagsPaired
<1>7. Reading = {}
  BY <1>5 DEF IInv, CreatesAlone
<1>8. now < sealed => draft'.cell.state = Open /\ draft'.cell.cooldown >= sealed
  BY <1>3, <1>5, <1>6 DEF IInv, SealStands
<1> QED
  BY <1>1, <1>5, <1>6, <1>7, <1>8, DraftKeeps

\* A cell that is born is parked if the lane is, and behind no walk.
LEMMA FinishCreateKeeps ==
  ASSUME IInv, FinishCreate
  PROVE  IInv'
<1> DEFINE p == creating
           c == [draft.cell EXCEPT !.streak = cells[Default].streak]
<1>1. /\ now \in Nat /\ cells \in [Names -> Cell] /\ known \subseteq Pools
      /\ draft.cell \in Cell /\ task \in [Tasks -> TaskRec] /\ sealed \in Nat
  BY TasksTyped DEF IInv
<1>2. p # Nobody /\ p \in Pools /\ draft.copied = 1 /\ Reading = {}
  BY DEF FinishCreate, IInv, TypeOK, CreatesAlone
<1>3. cells[Default].streak \in Nat /\ p \in Names
  BY <1>1, <1>2 DEF Cell, Names
<1>4. /\ c \in Cell /\ c.state = draft.cell.state /\ c.probe = draft.cell.probe
      /\ c.cooldown = draft.cell.cooldown
  BY <1>1, <1>3 DEF Cell
<1>5. /\ cells' = [cells EXCEPT ![p] = c] /\ known' = known \cup {p}
      /\ creating' = Nobody /\ draft' = [cell |-> FreshCell, copied |-> 0]
      /\ UNCHANGED <<now, task, sealed>>
  BY DEF FinishCreate
<1> HIDE DEF c
<1>6. /\ cells' \in [Names -> Cell] /\ cells'[p] = c
      /\ \A m \in Names : m # p => cells'[m] = cells[m]
  BY <1>1, <1>3, <1>4, <1>5
<1>7. TypeOK'
  BY <1>1, <1>2, <1>5, <1>6, FreshTyped DEF TypeOK, TaskRec
<1>8. Paired(c)
  BY <1>4 DEF IInv, FlagsPaired, Paired
<1>9. FlagsPaired' /\ CreatesAlone'
  BY <1>5, <1>6, <1>8 DEF IInv, FlagsPaired, CreatesAlone, FreshCell, Closed, HalfOpen
<1>10. \A k : Running(k)' = Running(k)
  BY <1>5 DEF Running
<1>11. TimesPass' /\ StagesMatch'
  BY <1>5, <1>10 DEF IInv, TimesPass, StagesMatch
<1>12. now < sealed => Parks(c, sealed)
  BY <1>2, <1>4 DEF IInv, SealStands, Parks
<1>13. SealStands'
  <2>1. Live' = Live \cup {p} /\ Live \subseteq Names
    BY <1>1, <1>5 DEF Live, Names
  <2> QED
    BY <1>5, <1>6, <1>10, <1>12, <2>1 DEF IInv, SealStands
<1>14. ASSUME NEW t \in Tasks
       PROVE  /\ Visited(task[t])' = Visited(task[t])
              /\ \A m \in Visited(task[t]) : cells'[m] = cells[m]
  <2>1. task[t].stage # "pools"
    BY <1>2 DEF Reading
  <2>2. Default \in Names /\ Default # p
    BY <1>2, LaneAssumption DEF Names
  <2> QED
    BY <1>5, <1>6, <2>1, <2>2 DEF Visited
<1>15. ParkedBehind'
  BY <1>5, <1>10, <1>14 DEF IInv, ParkedBehind, Running
<1>16. ClearedBehind'
  <2> SUFFICES ASSUME NEW t \in Running("recover"), ~task[t].disturbed
               PROVE  /\ \A m \in Visited(task[t]) : Clear(cells'[m], task[t].at)
                      /\ task[t].on # Nobody =>
                           cells'[task[t].on].cooldown <= task[t].observed
    BY <1>5, <1>10, <1>14 DEF ClearedBehind, Running
  <2>1. t \in Tasks /\ task[t].stage # "pools" /\ Staged(task[t])
    BY <1>2 DEF Running, Reading, IInv, StagesMatch
  <2>2. task[t].on # Nobody => task[t].on = Default
    BY <2>1 DEF Staged
  <2>3. Default \in Names /\ Default # p
    BY <1>2, LaneAssumption DEF Names
  <2>4. cells'[Default] = cells[Default]
    BY <1>6, <2>3
  <2> QED
    BY <1>14, <2>1, <2>2, <2>4 DEF IInv, ClearedBehind
<1> QED
  BY <1>7, <1>9, <1>11, <1>13, <1>15, <1>16 DEF IInv

\* A set of times has an earliest one.
LEMMA EarliestExists ==
  ASSUME NEW times, times \subseteq Nat, times # {}
  PROVE  /\ EarliestOf(times) \in times
         /\ \A b \in times : EarliestOf(times) <= b
<1> DEFINE R == OpToRel(<, Nat)
<1>1. IsWellFoundedOn(R, Nat)
  BY NatLessThanWellFounded
<1>2. R = {ss \in Nat \X Nat : ss[1] < ss[2]}
  BY DEF OpToRel
<1> HIDE DEF R
<1>3. PICK a \in times : \A b \in times : ~(<<b, a>> \in R)
  BY <1>1, WFMin
<1>4. \A b \in times : a <= b
  <2> SUFFICES ASSUME NEW b \in times, b < a PROVE FALSE
    BY <1>3
  <2>1. b \in Nat /\ a \in Nat
    OBVIOUS
  <2>2. <<b, a>> \in Nat \X Nat /\ <<b, a>>[1] < <<b, a>>[2]
    BY <2>1
  <2>3. <<b, a>> \in R
    BY <1>2, <2>2
  <2> QED
    BY <1>3, <2>3
<1> QED
  BY <1>3, <1>4 DEF EarliestOf

\* A task that starts has been nowhere.
LEMMA IdleTyped ==
  /\ Idle \in TaskRec /\ Idle.kind = "none" /\ Idle.stage = "idle" /\ Idle.todo = {}
  /\ Idle.on = Nobody /\ Idle.observed = 0 /\ Idle.since = 0 /\ ~Idle.disturbed
  /\ Idle.at = 0 /\ Idle.hint = NoHint
BY DEF Idle, TaskRec, Hints

\* A task replaces itself by l, the others at most learn of a disturbance,
\* and cells and creation stand still.
LEMMA TaskKeeps ==
  ASSUME IInv, NEW t \in Tasks, NEW l \in TaskRec, Staged(l),
         l.at <= now, l.since <= l.at,
         task' \in [Tasks -> TaskRec], task'[t] = l,
         \A u \in Tasks : u # t =>
           /\ task'[u].kind = task[u].kind /\ task'[u].stage = task[u].stage
           /\ task'[u].at = task[u].at /\ task'[u].todo = task[u].todo
           /\ task'[u].on = task[u].on /\ task'[u].observed = task[u].observed
           /\ task'[u].since = task[u].since
           /\ task[u].disturbed => task'[u].disturbed,
         l.stage \in {"pools", "credit_pools"} =>
           task[t].stage \in {"pools", "credit_pools"} \/ creating = Nobody,
         UNCHANGED <<now, cells, known, creating, draft>>,
         sealed' \in Nat, sealed' <= now + HardDownCooldown,
         \A u \in Running("hard_down")' : sealed' <= task'[u].at + HardDownCooldown,
         l.kind = "hard_down" => \A u \in Running("hard_down")' :
           l.since <= task'[u].at /\ task'[u].since <= l.at,
         SealStands',
         ~l.disturbed /\ l.kind = "hard_down" =>
           /\ Running("recover")' = {}
           /\ now < l.since + HardDownCooldown =>
                \A n \in Visited(l) : Parks(cells[n], l.since + HardDownCooldown),
         ~l.disturbed /\ l.kind = "recover" =>
           /\ \A n \in Visited(l) : Clear(cells[n], l.at)
           /\ l.on = Nobody,
         l.kind = "recover" =>
           \/ task[t].kind = "recover"
           \/ \A u \in Running("hard_down")' : task'[u].disturbed
  PROVE  IInv'
<1>1. /\ now \in Nat /\ cells \in [Names -> Cell] /\ known \subseteq Pools
      /\ creating \in Pools \cup {Nobody} /\ draft \in [cell : Cell, copied : 0 .. 2]
      /\ task \in [Tasks -> TaskRec]
  BY TasksTyped DEF IInv
<1>2. TypeOK'
  BY <1>1 DEF TypeOK, TaskRec
<1>3. FlagsPaired'
  BY DEF IInv, FlagsPaired
<1>4. CreatesAlone'
  <2>1. ASSUME NEW u \in Reading', creating # Nobody PROVE FALSE
    <3>1. Reading = {}
      BY <2>1 DEF IInv, CreatesAlone
    <3>2. u \in Tasks /\ task'[u].stage \in {"pools", "credit_pools"}
      BY DEF Reading
    <3>3. task[u].stage \in {"pools", "credit_pools"}
      BY <2>1, <3>2
    <3> QED
      BY <3>1, <3>2, <3>3 DEF Reading
  <2> QED
    BY <2>1 DEF CreatesAlone
<1>5. TimesPass'
  <2>1. \A u \in Tasks : task'[u].since <= task'[u].at /\ task'[u].at <= now
    <3>1. ASSUME NEW u \in Tasks, u # t PROVE task'[u].since <= task'[u].at /\ task'[u].at <= now
      BY <3>1 DEF IInv, TimesPass
    <3> QED
      BY <3>1
  <2>2. ASSUME NEW u \in Running("hard_down")', NEW v \in Running("hard_down")'
        PROVE  task'[v].since <= task'[u].at
    <3>1. CASE u = t \/ v = t
      BY <3>1 DEF Running
    <3>2. CASE u # t /\ v # t
      BY <3>2 DEF Running, IInv, TimesPass
    <3> QED
      BY <3>1, <3>2
  <2> QED
    BY <2>1, <2>2 DEF TimesPass
<1>6. StagesMatch'
  <2>1. ASSUME NEW u \in Tasks, u # t PROVE Staged(task'[u])
    BY <2>1 DEF IInv, StagesMatch, Staged
  <2> QED
    BY <2>1 DEF StagesMatch
<1>8. \A u \in Tasks : u # t => Visited(task'[u]) = Visited(task[u])
  BY DEF Visited
<1>9. ParkedBehind'
  <2> SUFFICES ASSUME NEW u \in Running("hard_down")', ~task'[u].disturbed
               PROVE  /\ Running("recover")' = {}
                      /\ now < task'[u].since + HardDownCooldown =>
                           \A n \in Visited(task'[u]) :
                             Parks(cells[n], task'[u].since + HardDownCooldown)
    <3>1. \A u \in Tasks : Visited(task[u])' = Visited(task'[u])
      BY DEF Visited, Live
    <3> QED
      BY <3>1 DEF ParkedBehind, Running
  <2>1. u \in Tasks /\ task'[u].kind = "hard_down"
    BY DEF Running
  <2>2. CASE u = t
    BY <2>1, <2>2
  <2>3. CASE u # t
    <3>1. u \in Running("hard_down") /\ ~task[u].disturbed
      BY <2>1, <2>3 DEF Running
    <3>2. Running("recover") = {}
      BY <3>1 DEF IInv, ParkedBehind
    <3>3. Running("recover")' = {}
      BY <3>2 DEF Running
    <3> QED
      BY <1>8, <2>1, <2>3, <3>1, <3>3 DEF IInv, ParkedBehind
  <2> QED
    BY <2>2, <2>3
<1>10. ClearedBehind'
  <2> SUFFICES ASSUME NEW u \in Running("recover")', ~task'[u].disturbed
               PROVE  /\ \A n \in Visited(task'[u]) : Clear(cells[n], task'[u].at)
                      /\ task'[u].on # Nobody =>
                           cells[task'[u].on].cooldown <= task'[u].observed
    <3>1. \A u \in Tasks : Visited(task[u])' = Visited(task'[u])
      BY DEF Visited, Live
    <3> QED
      BY <3>1 DEF ClearedBehind, Running
  <2>1. u \in Tasks /\ task'[u].kind = "recover"
    BY DEF Running
  <2>2. CASE u = t
    BY <2>1, <2>2
  <2>3. CASE u # t
    <3>1. u \in Running("recover") /\ ~task[u].disturbed
      BY <2>1, <2>3 DEF Running
    <3> QED
      BY <1>8, <2>1, <2>3, <3>1 DEF IInv, ClearedBehind
  <2> QED
    BY <2>2, <2>3
<1> QED
  BY <1>2, <1>3, <1>4, <1>5, <1>6, <1>9, <1>10 DEF IInv

\* A hard-down starts, crossed by the recoveries there are.
LEMMA BeginHardDownKeeps ==
  ASSUME IInv, NEW t \in Tasks, BeginHardDown(t)
  PROVE  IInv'
<1> DEFINE times == {now} \cup {task[u].at : u \in Running("hard_down")}
           s == EarliestOf(times)
           b == Running("recover") # {}
           l == [Idle EXCEPT !.kind = "hard_down", !.stage = "default", !.at = now,
                             !.since = s, !.disturbed = b]
<1>1. /\ now \in Nat /\ task \in [Tasks -> TaskRec] /\ sealed \in Nat
  BY TasksTyped DEF IInv
<1>2. \A u \in Tasks : task[u].at \in Nat /\ task[u].since \in Nat
  BY <1>1 DEF TaskRec
<1>3. /\ \A k : \A u \in Running(k) : u \in Tasks /\ task[u].kind = k
  BY DEF Running
<1>4. s \in Nat /\ s <= now /\ \A u \in Running("hard_down") : s <= task[u].at
  <2>1. times \subseteq Nat /\ times # {}
    BY <1>1, <1>2, <1>3
  <2>2. s \in times /\ \A m \in times : s <= m
    <3> HIDE DEF times
    <3> QED
      BY <2>1, EarliestExists
  <2> QED
    BY <2>1, <2>2
<1>5. task[t].kind = "none" /\ task' = [task EXCEPT ![t] = l]
      /\ UNCHANGED <<now, cells, known, creating, draft, sealed>>
  BY DEF BeginHardDown
<1> HIDE DEF s, times, b
<1>6. b \in BOOLEAN
  BY DEF b
<1>7. /\ l \in TaskRec /\ l.kind = "hard_down" /\ l.stage = "default" /\ l.at = now
      /\ l.since = s /\ l.disturbed = b /\ l.on = Nobody
  BY <1>1, <1>4, <1>6, IdleTyped DEF TaskRec
<1> HIDE DEF l
<1>8. /\ task' \in [Tasks -> TaskRec] /\ task'[t] = l
      /\ \A u \in Tasks : u # t => task'[u] = task[u]
  BY <1>1, <1>5, <1>7
<1>9. Staged(l) /\ Visited(l) = {}
  BY <1>7 DEF Staged, Visited
<1>10. Running("recover")' = Running("recover")
  BY <1>5, <1>7, <1>8 DEF Running
<1>11. \A u \in Running("hard_down")' :
         /\ sealed <= task'[u].at + HardDownCooldown
         /\ s <= task'[u].at /\ task'[u].since <= now
  <2> SUFFICES ASSUME NEW u \in Tasks, task'[u].kind = "hard_down"
               PROVE  /\ sealed <= task'[u].at + HardDownCooldown
                      /\ s <= task'[u].at /\ task'[u].since <= now
    BY DEF Running
  <2>1. CASE u = t
    BY <1>4, <1>7, <1>8, <2>1 DEF IInv, TimesPass
  <2>2. CASE u # t
    <3>1. task'[u] = task[u] /\ u \in Running("hard_down")
      BY <1>8, <2>2 DEF Running
    <3>2. task[u].since <= task[u].at /\ task[u].at <= now
      BY DEF IInv, TimesPass
    <3> QED
      BY <1>1, <1>2, <1>4, <3>1, <3>2 DEF IInv, TimesPass
  <2> QED
    BY <2>1, <2>2
<1>12. SealStands'
  BY <1>5, <1>10 DEF IInv, SealStands, Live
<1>13. ~l.disturbed => Running("recover")' = {}
  BY <1>7, <1>10 DEF b
<1>14. /\ sealed' \in Nat /\ sealed' <= now + HardDownCooldown
  BY <1>1, <1>5 DEF IInv, TimesPass
<1>15. /\ l.at <= now /\ l.since <= l.at
       /\ l.kind # "recover" /\ l.stage \notin {"pools", "credit_pools"}
  BY <1>1, <1>4, <1>7
<1>16. /\ \A u \in Running("hard_down")' : sealed' <= task'[u].at + HardDownCooldown
       /\ \A u \in Running("hard_down")' : l.since <= task'[u].at /\ task'[u].since <= l.at
  BY <1>5, <1>7, <1>11
<1> QED
  BY <1>5, <1>7, <1>8, <1>9, <1>12, <1>13, <1>14, <1>15, <1>16, TaskKeeps

\* A recovery starts: the hard-downs under way learn of it, and the lane is
\* no longer promised to be sealed.
LEMMA BeginRecoverKeeps ==
  ASSUME IInv, NEW t \in Tasks, BeginRecover(t)
  PROVE  IInv'
<1> DEFINE l == [Idle EXCEPT !.kind = "recover", !.stage = "default", !.at = now]
           f == [task EXCEPT ![t] = l]
<1>1. /\ now \in Nat /\ task \in [Tasks -> TaskRec] /\ HardDownCooldown \in Nat
  BY TasksTyped, ConfigAssumption DEF IInv
<1>2. \A u \in Tasks : task[u].at \in Nat
  BY <1>1 DEF TaskRec
<1>3. task[t].kind = "none" /\ task' = Disturbed(f, "hard_down") /\ sealed' = 0
      /\ UNCHANGED <<now, cells, known, creating, draft>>
  BY DEF BeginRecover
<1>4. /\ l \in TaskRec /\ l.kind = "recover" /\ l.stage = "default" /\ l.at = now
      /\ l.since = 0 /\ l.on = Nobody
  BY <1>1, IdleTyped DEF TaskRec
<1> HIDE DEF l
<1>5. /\ f \in [Tasks -> TaskRec] /\ f[t] = l
      /\ \A u \in Tasks : u # t => f[u] = task[u]
  BY <1>1, <1>4
<1> HIDE DEF f
<1>6. /\ task' \in [Tasks -> TaskRec]
      /\ \A u \in Tasks :
           /\ task'[u].kind = f[u].kind /\ task'[u].stage = f[u].stage
           /\ task'[u].at = f[u].at /\ task'[u].todo = f[u].todo
           /\ task'[u].on = f[u].on /\ task'[u].observed = f[u].observed
           /\ task'[u].since = f[u].since
           /\ f[u].disturbed => task'[u].disturbed
           /\ f[u].kind = "hard_down" => task'[u].disturbed
  BY <1>3, <1>5, MarksDisturbed
<1> DEFINE m == task'[t]
<1>7. /\ m \in TaskRec /\ m.kind = "recover" /\ m.stage = "default" /\ m.at = now
      /\ m.since = 0 /\ m.on = Nobody
  BY <1>4, <1>5, <1>6
<1>8. \A u \in Tasks : u # t =>
        /\ task'[u].kind = task[u].kind /\ task'[u].stage = task[u].stage
        /\ task'[u].at = task[u].at /\ task'[u].todo = task[u].todo
        /\ task'[u].on = task[u].on /\ task'[u].observed = task[u].observed
        /\ task'[u].since = task[u].since
        /\ task[u].disturbed => task'[u].disturbed
  BY <1>5, <1>6
<1>9. \A u \in Running("hard_down")' : task'[u].disturbed /\ task'[u].at \in Nat
  BY <1>6 DEF Running, TaskRec
<1>10. task'[t] = m
  OBVIOUS
<1> HIDE DEF m
<1>11. Staged(m) /\ Visited(m) = {}
  BY <1>7 DEF Staged, Visited
<1>12. SealStands'
  BY <1>1, <1>3 DEF SealStands
<1>13. /\ m.at <= now /\ m.since <= m.at /\ m.kind # "hard_down"
       /\ m.stage \notin {"pools", "credit_pools"}
       /\ sealed' \in Nat /\ sealed' <= now + HardDownCooldown
       /\ \A u \in Running("hard_down")' : sealed' <= task'[u].at + HardDownCooldown
  BY <1>1, <1>3, <1>7, <1>9
<1> QED
  BY <1>3, <1>6, <1>7, <1>8, <1>9, <1>10, <1>11, <1>12, <1>13, TaskKeeps

\* A task that is of neither kind can do no harm by being somewhere else.
LEMMA BystanderKeeps ==
  ASSUME IInv, NEW t \in Tasks, NEW l \in TaskRec, Staged(l),
         l.kind \notin {"hard_down", "recover"}, l.at <= now, l.since <= l.at,
         l.stage \in {"pools", "credit_pools"} =>
           task[t].stage \in {"pools", "credit_pools"} \/ creating = Nobody,
         task' = [task EXCEPT ![t] = l],
         UNCHANGED <<now, cells, known, creating, draft>>,
         sealed' \in Nat, sealed' <= now + HardDownCooldown,
         \A u \in Running("hard_down") : sealed' <= task[u].at + HardDownCooldown,
         SealStands'
  PROVE  IInv'
<1>1. task \in [Tasks -> TaskRec]
  BY TasksTyped DEF IInv
<1>2. /\ task' \in [Tasks -> TaskRec] /\ task'[t] = l
      /\ \A u \in Tasks : u # t => task'[u] = task[u]
  BY <1>1
<1>3. \A u \in Running("hard_down")' : sealed' <= task'[u].at + HardDownCooldown
  BY <1>2 DEF Running
<1> QED
  BY <1>2, <1>3, TaskKeeps

\* A probe's failure starts to be recorded.
LEMMA BeginProbeFailureKeeps ==
  ASSUME IInv, NEW t \in Tasks, BeginProbeFailure(t)
  PROVE  IInv'
<1>1. /\ now \in Nat /\ task \in [Tasks -> TaskRec] /\ sealed \in Nat
  BY TasksTyped DEF IInv
<1>2. PICK h \in Hints :
        task' = [task EXCEPT ![t] = [Idle EXCEPT !.kind = "probe_failure",
                                       !.stage = "default", !.at = now, !.hint = h]]
  BY DEF BeginProbeFailure
<1> DEFINE l == [Idle EXCEPT !.kind = "probe_failure", !.stage = "default", !.at = now,
                             !.hint = h]
<1>3. /\ l \in TaskRec /\ l.kind = "probe_failure" /\ l.stage = "default" /\ l.at = now
      /\ l.since = 0 /\ l.on = Nobody
  BY <1>1, IdleTyped DEF TaskRec
<1>4. /\ task' = [task EXCEPT ![t] = l] /\ task[t].kind = "none"
      /\ UNCHANGED <<now, cells, known, creating, draft, sealed>>
  BY <1>2 DEF BeginProbeFailure
<1> HIDE DEF l
<1>5. Staged(l) /\ l.at <= now /\ l.since <= l.at
  BY <1>1, <1>3 DEF Staged
<1>6. Running("recover")' = Running("recover")
  BY <1>1, <1>3, <1>4 DEF Running
<1>7. SealStands'
  BY <1>4, <1>6 DEF IInv, SealStands, Live
<1>8. /\ sealed' \in Nat /\ sealed' <= now + HardDownCooldown
      /\ \A u \in Running("hard_down") : sealed' <= task[u].at + HardDownCooldown
  BY <1>1, <1>4 DEF IInv, TimesPass
<1> QED
  BY <1>3, <1>4, <1>5, <1>7, <1>8, BystanderKeeps

\* The read lock is taken: nobody creates a cell, and the walk starts with all
\* the pool cells there are.
LEMMA TakeReadLockKeeps ==
  ASSUME IInv, NEW t \in Tasks, TakeReadLock(t)
  PROVE  IInv'
<1> DEFINE k == task[t]
           l == [k EXCEPT !.stage = IF k.stage = "lock" THEN "pools" ELSE "credit_pools",
                          !.todo = known]
<1>1. /\ now \in Nat /\ task \in [Tasks -> TaskRec] /\ sealed \in Nat /\ k \in TaskRec
      /\ known \subseteq Pools
  BY TasksTyped DEF IInv
<1>2. /\ k.stage \in {"lock", "credit_lock"} /\ creating = Nobody
      /\ UNCHANGED <<now, cells, known, creating, draft, sealed>>
  BY DEF TakeReadLock, ReadLockFree
<1>3. task' = [task EXCEPT ![t] = l]
  BY <1>1 DEF TakeReadLock
<1>4. Staged(k) /\ k.since <= k.at /\ k.at <= now
  BY DEF IInv, StagesMatch, TimesPass
<1>5. /\ t \in Running(k.kind)
      /\ \A u \in Running("hard_down") :
           /\ sealed <= task[u].at + HardDownCooldown
           /\ k.kind = "hard_down" => k.since <= task[u].at /\ task[u].since <= k.at
  BY DEF Running, IInv, TimesPass
<1>6. k.kind = "hard_down" /\ ~k.disturbed =>
        /\ Running("recover") = {}
        /\ now < k.since + HardDownCooldown =>
             \A n \in Visited(k) : Parks(cells[n], k.since + HardDownCooldown)
  BY <1>5 DEF IInv, ParkedBehind
<1>7. k.kind = "recover" /\ ~k.disturbed => \A n \in Visited(k) : Clear(cells[n], k.at)
  BY <1>5 DEF IInv, ClearedBehind
<1>8. k = task[t]
  OBVIOUS
<1> HIDE DEF k
<1>9. /\ l \in TaskRec /\ l.kind = k.kind /\ l.at = k.at /\ l.since = k.since
      /\ l.on = k.on /\ l.disturbed = k.disturbed /\ l.todo = known
      /\ l.stage = IF k.stage = "lock" THEN "pools" ELSE "credit_pools"
  BY <1>1 DEF TaskRec
<1> HIDE DEF l
<1>10. Staged(l) /\ l.on = Nobody
  BY <1>2, <1>4, <1>9 DEF Staged
<1>11. Visited(l) \subseteq Visited(k)
  BY <1>2, <1>9 DEF Visited, Live
<1>12. /\ task' \in [Tasks -> TaskRec] /\ task'[t] = l
       /\ \A u \in Tasks : u # t => task'[u] = task[u]
  BY <1>1, <1>3, <1>9
<1>13. \A u \in Tasks : task'[u].kind = task[u].kind /\ task'[u].at = task[u].at
                        /\ task'[u].since = task[u].since
  BY <1>8, <1>9, <1>12
<1>14. \A kind : Running(kind)' = Running(kind)
  BY <1>13 DEF Running
<1>15. SealStands'
  BY <1>2, <1>14 DEF IInv, SealStands, Live
<1>16. \A u \in Running("hard_down") : u \in Tasks
  BY DEF Running
<1>17. /\ sealed' \in Nat /\ sealed' <= now + HardDownCooldown
       /\ \A u \in Running("hard_down")' : sealed' <= task'[u].at + HardDownCooldown
  BY <1>1, <1>2, <1>5, <1>13, <1>14, <1>16 DEF IInv, TimesPass
<1>18. l.kind = "hard_down" => \A u \in Running("hard_down")' :
         l.since <= task'[u].at /\ task'[u].since <= l.at
  BY <1>5, <1>9, <1>13, <1>14, <1>16
<1>19. ~l.disturbed /\ l.kind = "hard_down" =>
         /\ Running("recover")' = {}
         /\ now < l.since + HardDownCooldown =>
              \A n \in Visited(l) : Parks(cells[n], l.since + HardDownCooldown)
  BY <1>6, <1>9, <1>11, <1>14
<1>20. ~l.disturbed /\ l.kind = "recover" =>
         /\ \A n \in Visited(l) : Clear(cells[n], l.at)
         /\ l.on = Nobody
  BY <1>7, <1>9, <1>10, <1>11
<1>21. l.kind = "recover" => task[t].kind = "recover"
  BY <1>8, <1>9
<1>22. l.at <= now /\ l.since <= l.at
  BY <1>4, <1>9
<1> QED
  BY <1>2, <1>9, <1>10, <1>12, <1>15, <1>17, <1>18, <1>19, <1>20, <1>21, <1>22, TaskKeeps

\* An operation ends.  An undisturbed hard-down has parked every cell; a
\* recovery goes on to credit the success.
LEMMA FinishKeeps ==
  ASSUME IInv, NEW t \in Tasks, Finish(t)
  PROVE  IInv'
<1> DEFINE k == task[t]
<1>1. /\ now \in Nat /\ task \in [Tasks -> TaskRec] /\ sealed \in Nat /\ k \in TaskRec
      /\ HardDownCooldown \in Nat
  BY TasksTyped, ConfigAssumption DEF IInv
<1>2. /\ k.stage \in {"pools", "credit_pools"} /\ k.todo = {} /\ k.on = Nobody
      /\ UNCHANGED <<now, cells, known, creating, draft>>
  BY DEF Finish
<1>3. Staged(k) /\ k.since <= k.at /\ k.at <= now /\ k.since \in Nat /\ k.at \in Nat
  BY <1>1 DEF IInv, StagesMatch, TimesPass, TaskRec
<1>4. /\ t \in Running(k.kind)
      /\ \A u \in Running("hard_down") :
           /\ sealed <= task[u].at + HardDownCooldown
           /\ k.kind = "hard_down" => k.since <= task[u].at
           /\ task[u].at \in Nat
  BY <1>1 DEF Running, IInv, TimesPass, TaskRec
<1>5. CASE k.kind = "recover" /\ k.stage = "pools"
  <2> DEFINE l == [k EXCEPT !.stage = "credit"]
  <2>1. task' = [task EXCEPT ![t] = l] /\ sealed' = sealed
    <3>1. task' = [task EXCEPT ![t] = l]
      BY <1>1, <1>5 DEF Finish
    <3>2. task[t].kind # "hard_down"
      BY <1>5
    <3>3. sealed' = IF task[t].kind # "hard_down" THEN sealed
                    ELSE IF task[t].disturbed THEN 0
                    ELSE task[t].since + HardDownCooldown
      BY DEF Finish
    <3> QED
      BY <3>1, <3>2, <3>3
  <2>2. k = task[t]
    OBVIOUS
  <2> HIDE DEF k
  <2>3. /\ l \in TaskRec /\ l.kind = k.kind /\ l.at = k.at /\ l.since = k.since
        /\ l.on = k.on /\ l.stage = "credit"
    BY <1>1 DEF TaskRec
  <2> HIDE DEF l
  <2>4. /\ task' \in [Tasks -> TaskRec] /\ task'[t] = l
        /\ \A u \in Tasks : u # t => task'[u] = task[u]
    BY <1>1, <2>1, <2>3
  <2>5. \A u \in Tasks : task'[u].kind = task[u].kind /\ task'[u].at = task[u].at
    BY <2>2, <2>3, <2>4
  <2>6. \A kind : Running(kind)' = Running(kind)
    BY <2>5 DEF Running
  <2>7. SealStands'
    BY <1>2, <2>1, <2>6 DEF IInv, SealStands, Live
  <2>8. Staged(l) /\ Visited(l) = {} /\ l.on = Nobody
    BY <1>2, <1>5, <2>3 DEF Staged, Visited
  <2>9. /\ sealed' \in Nat /\ sealed' <= now + HardDownCooldown
        /\ \A u \in Running("hard_down")' : sealed' <= task'[u].at + HardDownCooldown
    <3>1. \A u \in Running("hard_down") : u \in Tasks
      BY DEF Running
    <3> QED
      BY <1>1, <1>4, <2>1, <2>5, <2>6, <3>1 DEF IInv, TimesPass
  <2>10. /\ l.at <= now /\ l.since <= l.at /\ l.kind = "recover"
         /\ l.stage \notin {"pools", "credit_pools"} /\ task[t].kind = "recover"
    BY <1>3, <1>5, <2>2, <2>3
  <2> QED
    BY <1>2, <2>3, <2>4, <2>7, <2>8, <2>9, <2>10, TaskKeeps
<1>6. CASE ~(k.kind = "recover" /\ k.stage = "pools")
  <2>1. task' = [task EXCEPT ![t] = Idle]
    BY <1>1, <1>6 DEF Finish
  <2>2. /\ Idle \in TaskRec /\ Staged(Idle) /\ Idle.kind \notin {"hard_down", "recover"}
        /\ Idle.at <= now /\ Idle.since <= Idle.at
        /\ Idle.stage \notin {"pools", "credit_pools"}
    BY <1>1, IdleTyped DEF Staged
  <2>3. Running("recover")' \subseteq Running("recover")
    BY <1>1, <2>1, <2>2 DEF Running
  <2>4. sealed' = IF k.kind # "hard_down" THEN sealed
                  ELSE IF k.disturbed THEN 0 ELSE k.since + HardDownCooldown
    BY DEF Finish
  <2>5. /\ sealed' \in Nat /\ sealed' <= now + HardDownCooldown
        /\ \A u \in Running("hard_down") : sealed' <= task[u].at + HardDownCooldown
    <3>1. sealed <= now + HardDownCooldown
      BY DEF IInv, TimesPass
    <3> HIDE DEF k
    <3> QED
      BY <1>1, <1>3, <1>4, <2>4, <3>1
  <2>6. SealStands'
    <3>1. CASE k.kind # "hard_down"
      BY <1>2, <2>3, <2>4, <3>1 DEF IInv, SealStands, Live
    <3>2. CASE k.kind = "hard_down" /\ k.disturbed
      BY <1>1, <1>2, <2>4, <3>2 DEF SealStands
    <3>3. CASE k.kind = "hard_down" /\ ~k.disturbed
      <4>1. k.stage = "pools"
        BY <1>2, <1>3, <3>3 DEF Staged
      <4>2. Visited(k) = Live
        BY <1>2, <4>1 DEF Visited
      <4>3. t \in Running("hard_down") /\ t \in Reading
        BY <4>1, <3>3 DEF Running, Reading
      <4>4. /\ Running("recover") = {}
            /\ now < k.since + HardDownCooldown =>
                 \A n \in Live : Parks(cells[n], k.since + HardDownCooldown)
        BY <3>3, <4>2, <4>3 DEF IInv, ParkedBehind
      <4>5. creating = Nobody
        BY <4>3 DEF IInv, CreatesAlone
      <4>6. sealed' = k.since + HardDownCooldown /\ Live' = Live
        BY <1>2, <2>4, <3>3 DEF Live
      <4> HIDE DEF k
      <4> QED
        BY <1>2, <2>3, <4>4, <4>5, <4>6 DEF SealStands
    <3> QED
      BY <3>1, <3>2, <3>3
  <2> QED
    BY <1>2, <2>1, <2>2, <2>5, <2>6, BystanderKeeps
<1> QED
  BY <1>5, <1>6

-----------------------------------------------------------------------------
(* The theorems.                                                           *)

\* The invariant holds at first.
LEMMA InitIInv == Init => IInv
<1> SUFFICES ASSUME Init PROVE IInv
  OBVIOUS
<1>1. /\ now = 0 /\ cells = [n \in Names |-> FreshCell] /\ known = {} /\ creating = Nobody
      /\ draft = [cell |-> FreshCell, copied |-> 0]
      /\ task = [t \in Tasks |-> Idle] /\ sealed = 0
  BY DEF Init
<1>2. FreshCell \in Cell /\ FreshCell.state = Closed /\ FreshCell.probe = FALSE
  BY FreshTyped DEF FreshCell
<1>3. TypeOK
  BY <1>1, <1>2, IdleTyped DEF TypeOK, TaskRec
<1>4. FlagsPaired
  BY <1>1, <1>2 DEF FlagsPaired, Paired, Closed, HalfOpen
<1>5. \A kind \in {"hard_down", "recover"} : Running(kind) = {}
  BY <1>1, IdleTyped DEF Running
<1>6. CreatesAlone /\ ParkedBehind /\ ClearedBehind
  BY <1>1, <1>5 DEF CreatesAlone, ParkedBehind, ClearedBehind
<1>7. TimesPass /\ SealStands
  BY <1>1, <1>5, IdleTyped, ConfigAssumption DEF TimesPass, SealStands
<1>8. StagesMatch
  BY <1>1, IdleTyped DEF StagesMatch, Staged
<1> QED
  BY <1>3, <1>4, <1>6, <1>7, <1>8 DEF IInv

\* Stuttering keeps it.
LEMMA StutterKeeps == IInv /\ UNCHANGED vars => IInv'
<1> SUFFICES ASSUME IInv, UNCHANGED vars PROVE IInv'
  OBVIOUS
<1>1. UNCHANGED <<now, cells, known, creating, draft, task, sealed>>
  BY DEF vars
<1>2. draft \in [cell : Cell, copied : 0 .. 2] /\ creating \in Pools \cup {Nobody}
  BY TasksTyped DEF IInv
<1>3. /\ draft.cell.state # HalfOpen /\ ~draft.cell.probe
      /\ creating # Nobody => Reading = {}
      /\ now < sealed /\ creating # Nobody =>
           draft.cell.state = Open /\ (draft.copied = 1 => draft.cell.cooldown >= sealed)
  BY DEF IInv, FlagsPaired, CreatesAlone, SealStands
<1> QED
  BY <1>1, <1>2, <1>3, DraftKeeps

\* Every step keeps it.
LEMMA StepIInv == IInv /\ [Next]_vars => IInv'
<1> SUFFICES ASSUME IInv, [Next]_vars PROVE IInv'
  OBVIOUS
<1>1. CASE Creation
  BY <1>1, BeginCreateKeeps, CopyCooldownKeeps, FinishCreateKeeps DEF Creation
<1>2. ASSUME NEW t \in Tasks, AllCells(t) PROVE IInv'
  <2>1. CASE BeginHardDown(t) \/ BeginRecover(t) \/ BeginProbeFailure(t)
    BY <2>1, BeginHardDownKeeps, BeginRecoverKeeps, BeginProbeFailureKeeps
  <2>2. CASE TakeReadLock(t) \/ CloseObserved(t) \/ Finish(t)
    BY <2>2, TakeReadLockKeeps, CloseKeeps, FinishKeeps
  <2>3. ASSUME NEW n \in Names, Park(t, n) \/ Fail(t, n) \/ Observe(t, n) \/ Credit(t, n)
        PROVE  IInv'
    BY <2>3, ParkKeeps, FailKeeps, ObserveKeeps, CreditKeeps
  <2> QED
    BY <1>2, <2>1, <2>2, <2>3 DEF AllCells
<1>3. ASSUME NEW n \in Names, Organic(n) PROVE IInv'
  BY <1>3, OrganicKeeps
<1>4. CASE Tick
  BY <1>4, TickKeeps
<1>5. CASE UNCHANGED vars
  BY <1>5, StutterKeeps
<1> QED
  BY <1>1, <1>2, <1>3, <1>4, <1>5 DEF Next

\* The inductive invariant holds in every state of a lane.
THEOREM Invariant == Spec => []IInv
<1> QED
  BY InitIInv, StepIInv, PTL DEF Spec

\* A walk over the pool cells ends when there is none left to visit.
LEMMA WalkEnds ==
  ASSUME IInv, [Next]_vars, NEW t \in Tasks,
         task[t].stage = "pools", task'[t].stage = "credit"
  PROVE  task[t].todo = {}
<1>1. task \in [Tasks -> TaskRec] /\ TypeOK
  BY TasksTyped DEF IInv
<1>2. task'[t].stage # task[t].stage
  OBVIOUS
<1>3. Disturbing(task)[t].stage = task[t].stage
  BY <1>1, MarksDisturbed DEF Disturbing
<1>4. ASSUME NEW u \in Tasks, NEW n
      PROVE  Onward(u, n)[t].stage # "credit" /\ Disturbing(Onward(u, n))[t].stage # "credit"
  <2>1. /\ Onward(u, n) \in [Tasks -> TaskRec]
        /\ Onward(u, n)[t].stage = task[t].stage
    BY <1>1, Advances DEF PastCell
  <2> QED
    BY <2>1, MarksDisturbed DEF Disturbing
<1>5. CASE Creation \/ Tick \/ UNCHANGED vars
  BY <1>2, <1>5 DEF Creation, BeginCreate, CopyCooldown, FinishCreate, Tick, vars
<1>6. ASSUME NEW n \in Names, Organic(n) PROVE FALSE
  BY <1>2, <1>3, <1>6
     DEF Organic, OrganicFailure, OrganicSuccess, OrganicProbe, OrganicRelease
<1>7. ASSUME NEW u \in Tasks, AllCells(u) PROVE task[t].todo = {}
  <2>1. CASE BeginHardDown(u)
    <3>1. task' = [task EXCEPT ![u] = task'[u]] /\ task'[u].stage = "default"
      BY <1>1, <2>1 DEF BeginHardDown, Idle
    <3> QED
      BY <1>1, <3>1
  <2>2. CASE BeginRecover(u)
    <3> DEFINE l == [Idle EXCEPT !.kind = "recover", !.stage = "default", !.at = now]
               f == [task EXCEPT ![u] = l]
    <3>1. task' = Disturbed(f, "hard_down")
      BY <2>2 DEF BeginRecover
    <3>2. l \in TaskRec /\ l.stage = "default"
      BY <1>1, IdleTyped DEF TaskRec, TypeOK
    <3> HIDE DEF l
    <3>3. f \in [Tasks -> TaskRec] /\ f[t].stage # "credit"
      BY <1>1, <3>2
    <3> HIDE DEF f
    <3> QED
      BY <3>1, <3>3, MarksDisturbed
  <2>3. CASE BeginProbeFailure(u)
    <3>1. PICK h \in Hints :
            task' = [task EXCEPT ![u] = [Idle EXCEPT !.kind = "probe_failure",
                                           !.stage = "default", !.at = now, !.hint = h]]
      BY <2>3 DEF BeginProbeFailure
    <3> QED
      BY <1>1, <3>1 DEF Idle
  <2>4. CASE TakeReadLock(u)
    BY <1>1, <2>4 DEF TakeReadLock
  <2>5. CASE CloseObserved(u)
    <3>1. task' = [Onward(u, task[u].on) EXCEPT ![u].observed = 0]
      BY <2>5 DEF CloseObserved, Onward
    <3>2. Onward(u, task[u].on) \in [Tasks -> TaskRec]
      BY <1>1, Advances
    <3>3. task'[t].stage = Onward(u, task[u].on)[t].stage
      BY <3>1, <3>2 DEF TaskRec
    <3> QED
      BY <1>4, <3>3
  <2>6. CASE Finish(u)
    BY <1>1, <1>2, <2>6 DEF Finish
  <2>7. ASSUME NEW n \in Names, Park(u, n) \/ Fail(u, n) \/ Observe(u, n) \/ Credit(u, n)
        PROVE  FALSE
    <3>1. CASE Park(u, n) \/ Fail(u, n)
      <4>1. task' = Disturbing(Onward(u, n))
        BY <3>1 DEF Park, Fail, Onward
      <4> QED
        BY <1>4, <4>1
    <3>2. CASE Credit(u, n)
      <4>1. task' = Onward(u, n)
        BY <3>2 DEF Credit, Onward
      <4> QED
        BY <1>4, <4>1
    <3>3. CASE Observe(u, n)
      <4>1. \/ task' = [task EXCEPT ![u].on = n, ![u].observed = cells[n].cooldown]
            \/ task' = Onward(u, n)
        BY <3>3 DEF Observe, Onward
      <4>2. CASE task' = Onward(u, n)
        BY <1>4, <4>2
      <4>3. CASE task' = [task EXCEPT ![u].on = n, ![u].observed = cells[n].cooldown]
        <5>1. task'[t].stage = task[t].stage
          BY <1>1, <4>3 DEF TaskRec
        <5> QED
          BY <1>2, <5>1
      <4> QED
        BY <4>1, <4>2, <4>3
    <3> QED
      BY <2>7, <3>1, <3>2, <3>3
  <2> QED
    BY <1>7, <2>1, <2>2, <2>3, <2>4, <2>5, <2>6, <2>7 DEF AllCells
<1> QED
  BY <1>5, <1>6, <1>7 DEF Next

\* The state of a lane has its type.
THEOREM TypeCorrect == Spec => []TypeOK
<1>1. IInv => TypeOK
  BY DEF IInv
<1> QED
  BY <1>1, Invariant, PTL

\* `record_hard_down_all_cells` seals the lane, whatever creates cells or
\* runs over them meanwhile, until a health probe recovers it.
THEOREM HardDownSeals == Spec => []HardDownSealsLane
<1>1. IInv => HardDownSealsLane
  BY DEF IInv, SealStands, HardDownSealsLane, Parks
<1> QED
  BY <1>1, Invariant, PTL

\* No cell of a lane is HalfOpen without a probe.
THEOREM NobodyOrphaned == Spec => []NoOrphanedHalfOpen
<1>1. IInv => NoOrphanedHalfOpen
  BY DEF IInv, FlagsPaired, Paired, NoOrphanedHalfOpen, TypeOK, Live, Names
<1> QED
  BY <1>1, Invariant, PTL

\* `recover_lane` leaves no cell suppressed, unless something bad was recorded
\* while it ran.
THEOREM RecoveryReaches == Spec => RecoveryReachesAllCells
<1> DEFINE Reached ==
      \A t \in Tasks :
        (/\ task[t].kind = "recover" /\ task[t].stage = "pools"
         /\ task'[t].stage = "credit"
         /\ ~task[t].disturbed)
           => \A n \in Live : ~Suppressed(cells[n], now)
<1>1. ASSUME IInv, [Next]_vars PROVE Reached
  <2> SUFFICES ASSUME NEW t \in Tasks, task[t].kind = "recover", task[t].stage = "pools",
                      task'[t].stage = "credit", ~task[t].disturbed, NEW n \in Live
               PROVE  ~Suppressed(cells[n], now)
    OBVIOUS
  <2>1. /\ now \in Nat /\ cells \in [Names -> Cell] /\ task \in [Tasks -> TaskRec]
        /\ known \subseteq Pools
    BY <1>1, TasksTyped DEF IInv
  <2>2. task[t].todo = {}
    BY <1>1, WalkEnds
  <2>3. Visited(task[t]) = Live
    BY <2>2 DEF Visited
  <2>4. Clear(cells[n], task[t].at) /\ task[t].at <= now
    BY <1>1, <2>3 DEF IInv, ClearedBehind, TimesPass, Running
  <2>5. cells[n].cooldown \in Nat /\ task[t].at \in Nat
    BY <2>1 DEF Cell, TaskRec, Live, Names
  <2> QED
    BY <2>1, <2>4, <2>5 DEF Clear, Suppressed
<1>2. IInv /\ [Next]_vars => [Reached]_vars
  BY <1>1
<1>3. Spec => [][Reached]_vars
  BY <1>2, Invariant, PTL DEF Spec
<1> QED
  BY <1>3 DEF RecoveryReachesAllCells
=============================================================================
