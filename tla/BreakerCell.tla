---------------------------- MODULE BreakerCell -----------------------------
(***************************************************************************)
(* One (pool, lane) breaker cell and everything that touches it: the       *)
(* requests that pick the lane, park for a concurrency permit, dispatch    *)
(* and report an outcome, and the health prober.  A step of a process is   *)
(* what it does between two points where another task may run: a lock-free *)
(* read, one critical section of the cell's transition lock, an await.     *)
(*                                                                         *)
(* A request takes one of three paths through src/forward.rs:              *)
(*   main       pick_among, then the failover loop of                      *)
(*              forward_with_pool_parsed                                   *)
(*   fallback   pick_among, then forward_once                              *)
(*   least_bad  forward_once on the soonest lane, without admission        *)
(***************************************************************************)
EXTENDS CellOps

CONSTANTS
  Requests,        \* request slots; a slot is reused when its request ends
  Paths,           \* which of the three paths the slots may take
  MaxConcurrent,   \* permits of the lane's semaphore
  RetryAfters,     \* Retry-After values an upstream may send
  HealthMode,      \* health.mode of the lane: "none", "dead" or "active"
  Disconnects,     \* whether clients may go away while the upstream answers
  InheritedCooldowns,  \* deadlines and streaks a pool's cell may be born with
  InheritedStreaks,
  MaxNow           \* bound of the clock, in seconds

ASSUME SystemAssumption ==
  /\ Paths \subseteq {"main", "fallback", "least_bad"}
  /\ MaxConcurrent \in Nat \ {0}
  /\ RetryAfters \subseteq Nat
  /\ HealthMode \in {"none", "dead", "active"}
  /\ Disconnects \in BOOLEAN
  /\ InheritedCooldowns \subseteq Nat
  /\ InheritedStreaks \subseteq Nat
  /\ MaxNow \in Nat

VARIABLES
  now,      \* the clock, in whole seconds
  cell,     \* the shared cell
  pc,       \* where each request is
  path,     \* the path each request takes
  at,       \* the time each request last read, carried across its steps
  hint,     \* the Retry-After of the failure it is about to record
  won,      \* the requests that won the probe and have not reported yet
  prober    \* the health prober of the lane

vars == <<now, cell, pc, path, at, hint, won, prober>>

Hints == RetryAfters \cup {NoHint}

Stages == {"idle", "chosen", "locking", "admitted", "parked", "sending",
           "failing", "releasing", "streaming"}

TypeOK ==
  /\ now \in Nat
  /\ cell \in Cell
  /\ pc \in [Requests -> Stages]
  /\ path \in [Requests -> {"main", "fallback", "least_bad"}]
  /\ at \in [Requests -> Nat]
  /\ hint \in [Requests -> Hints]
  /\ won \subseteq Requests
  /\ prober \in [pc : {"idle", "asking", "closing", "crediting", "failing"},
                 at : Nat, hint : Hints, observed : Nat]

\* A pool's cell is born from the state, the cooldown and the streak of the
\* lane's own cell, each read by itself and without its lock: any mix of an
\* older and a newer value.  A probe in flight there is not inherited.
NewbornCells ==
  {[FreshCell EXCEPT !.state = seen.state, !.cooldown = seen.cooldown, !.streak = seen.streak] :
     seen \in [state : {Closed, Open}, cooldown : InheritedCooldowns,
               streak : InheritedStreaks]}

Init ==
  /\ now = 0
  /\ cell \in NewbornCells
  /\ pc = [r \in Requests |-> "idle"]
  /\ path = [r \in Requests |-> "main"]
  /\ at = [r \in Requests |-> 0]
  /\ hint = [r \in Requests |-> NoHint]
  /\ won = {}
  /\ prober = [pc |-> "idle", at |-> 0, hint |-> NoHint, observed |-> 0]

-----------------------------------------------------------------------------
(* Helpers.                                                                *)

Holding == {r \in Requests : pc[r] \in {"sending", "failing", "releasing", "streaming"}}
PermitFree == Cardinality(Holding) < MaxConcurrent

\* The request is over: its slot forgets everything.
Finished(r) ==
  /\ pc' = [pc EXCEPT ![r] = "idle"]
  /\ path' = [path EXCEPT ![r] = "main"]
  /\ at' = [at EXCEPT ![r] = 0]
  /\ hint' = [hint EXCEPT ![r] = NoHint]
  /\ won' = won \ {r}

Goes(r, stage) == pc' = [pc EXCEPT ![r] = stage]

Degraded(r) == path[r] # "main"

-----------------------------------------------------------------------------
(* Admission: pick_among.                                                  *)

\* The selection filter or the policy walk found the lane ready.
Choose(r) ==
  /\ pc[r] = "idle"
  /\ Ready(cell, now)
  /\ \E p \in Paths \ {"least_bad"} : path' = [path EXCEPT ![r] = p]
  /\ Goes(r, "chosen")
  /\ at' = [at EXCEPT ![r] = now]
  /\ UNCHANGED <<now, cell, hint, won, prober>>

\* cell_acquire_breaker up to the lock: a Closed cell is decided here.
Precheck(r) ==
  /\ pc[r] = "chosen"
  /\ \/ /\ cell.state = Closed /\ at[r] >= cell.cooldown
        /\ Goes(r, "admitted")
        /\ UNCHANGED <<path, at, hint, won>>
     \/ /\ cell.state = Open /\ at[r] >= cell.cooldown
        /\ Goes(r, "locking")
        /\ UNCHANGED <<path, at, hint, won>>
     \/ /\ ~Ready(cell, at[r])
        /\ Finished(r)
  /\ UNCHANGED <<now, cell, prober>>

\* cell_acquire_breaker under the lock.
LockProbe(r) ==
  /\ pc[r] = "locking"
  /\ \/ /\ ProbeWinnable(cell, at[r])
        /\ cell' = ProbeWon(cell)
        /\ won' = won \cup {r}
        /\ Goes(r, "admitted")
        /\ UNCHANGED <<path, at, hint>>
     \/ /\ ~ProbeWinnable(cell, at[r])
        /\ Finished(r)
        /\ UNCHANGED cell
  /\ UNCHANGED <<now, prober>>

\* try_acquire: a permit at once, or park on the semaphore.
TakePermit(r) ==
  /\ pc[r] = "admitted"
  /\ Goes(r, IF PermitFree THEN "sending" ELSE "parked")
  /\ UNCHANGED <<now, cell, path, at, hint, won, prober>>

Unpark(r) ==
  /\ pc[r] = "parked"
  /\ PermitFree
  /\ Goes(r, "sending")
  /\ UNCHANGED <<now, cell, path, at, hint, won, prober>>

\* Mutant: the guard forgets the probe when the wait is given up.
GiveUpKeepingProbe(r) ==
  /\ pc[r] = "parked"
  /\ Finished(r)
  /\ UNCHANGED <<now, cell, prober>>

\* The wait for a permit times out, or the future is dropped: ProbeGuard
\* releases the probe of the cell, whoever won it.
GiveUp(r) ==
  /\ pc[r] = "parked"
  /\ cell' = ProbeReleased(cell)
  /\ Finished(r)
  /\ UNCHANGED <<now, prober>>

\* handle_least_bad: dispatched with a permit and no admission.
DispatchLeastBad(r) ==
  /\ pc[r] = "idle"
  /\ "least_bad" \in Paths
  /\ PermitFree
  /\ path' = [path EXCEPT ![r] = "least_bad"]
  /\ Goes(r, "sending")
  /\ UNCHANGED <<now, cell, at, hint, won, prober>>

-----------------------------------------------------------------------------
(* Outcomes.                                                               *)

\* 2xx: record_success_in, then the body streams holding the permit, the same
\* way on every path.
AnswerOk(r) ==
  /\ pc[r] = "sending"
  /\ cell' = AfterSuccess(cell, now)
  /\ Goes(r, "streaming")
  /\ path' = [path EXCEPT ![r] = "main"]
  /\ won' = won \ {r}
  /\ UNCHANGED <<now, at, hint, prober>>

\* A transient answer or a transport error: the outcome enters the window
\* before the transition lock is taken.
BeginFailure(r, h) ==
  /\ cell' = Pushed(cell, now, TRUE)
  /\ at' = [at EXCEPT ![r] = now]
  /\ hint' = [hint EXCEPT ![r] = h]
  /\ Goes(r, "failing")
  /\ UNCHANGED <<now, path, won, prober>>

\* The degraded path passes no Retry-After on.
AnswerTransient(r) ==
  /\ pc[r] = "sending"
  /\ \E h \in IF Degraded(r) THEN {NoHint} ELSE Hints : BeginFailure(r, h)

\* A body that breaks off is a failure too.
StreamFails(r) ==
  /\ pc[r] = "streaming"
  /\ BeginFailure(r, NoHint)

\* cell_record_failure under the lock.  The degraded path releases the probe
\* next; the others are done and drop the permit.
RecordFailure(r) ==
  /\ pc[r] = "failing"
  /\ cell' \in AfterFailure(cell, at[r], hint[r])
  /\ \/ /\ ~Degraded(r)
        /\ Finished(r)
     \/ /\ Degraded(r)
        /\ Goes(r, "releasing")
        /\ UNCHANGED <<path, at, hint, won>>
  /\ UNCHANGED <<now, prober>>

\* forward_once releases the probe after recording any non-2xx answer; after
\* a transport error it returns without.
ReleaseAfterFailure(r) ==
  /\ pc[r] = "releasing"
  /\ cell' \in {ProbeReleased(cell), cell}
  /\ Finished(r)
  /\ UNCHANGED <<now, prober>>

\* Auth or billing on the main path: record_hard_down_all_cells.
AnswerHardDown(r) ==
  /\ pc[r] = "sending"
  /\ ~Degraded(r)
  /\ cell' = HardDowned(cell, now)
  /\ Finished(r)
  /\ UNCHANGED <<now, prober>>

\* Client fault, context length, relayed 401/403 of a passthrough caller, or
\* a request that could not be translated: no outcome, the probe is released.
AnswerNeutral(r) ==
  /\ pc[r] = "sending"
  /\ cell' = ProbeReleased(cell)
  /\ Finished(r)
  /\ UNCHANGED <<now, prober>>

\* The handler's future is dropped while it awaits the upstream: the permit
\* goes with it, and nothing tells the cell.
Disconnect(r) ==
  /\ Disconnects
  /\ pc[r] = "sending"
  /\ Finished(r)
  /\ UNCHANGED <<now, cell, prober>>

StreamEnds(r) ==
  /\ pc[r] = "streaming"
  /\ Finished(r)
  /\ UNCHANGED <<now, cell, prober>>

-----------------------------------------------------------------------------
(* The health prober of the lane: probe_lane, seen from this cell.         *)

\* Mutant: the prober forgets the cells an abandoned probe left HalfOpen.
ProbeSendOpenOnly ==
  /\ prober.pc = "idle"
  /\ cell.state = Open
  /\ prober' = [prober EXCEPT !.pc = "asking"]
  /\ UNCHANGED <<now, cell, pc, path, at, hint, won>>

\* The ticker fires; in "dead" mode only a lane that needs it is probed.
ProbeSend ==
  /\ prober.pc = "idle"
  /\ \/ HealthMode = "active"
     \/ HealthMode = "dead" /\ Suppressed(cell, now)
  /\ prober' = [prober EXCEPT !.pc = "asking"]
  /\ UNCHANGED <<now, cell, pc, path, at, hint, won>>

\* 2xx: recover_lane looks at the cell and remembers the cooldown it saw.
ProbeAnswersOk ==
  /\ prober.pc = "asking"
  /\ prober' = IF Suppressed(cell, now)
               THEN [prober EXCEPT !.pc = "closing", !.at = now, !.observed = cell.cooldown]
               ELSE [prober EXCEPT !.pc = "crediting"]
  /\ UNCHANGED <<now, cell, pc, path, at, hint, won>>

ProbeCloses ==
  /\ prober.pc = "closing"
  /\ cell' = Recovered(cell, prober.at, prober.observed)
  /\ prober' = [prober EXCEPT !.pc = "crediting", !.at = 0, !.observed = 0]
  /\ UNCHANGED <<now, pc, path, at, hint, won>>

\* record_probe_success_all_cells
ProbeCredits ==
  /\ prober.pc = "crediting"
  /\ cell' = AfterSuccess(cell, now)
  /\ prober' = [prober EXCEPT !.pc = "idle"]
  /\ UNCHANGED <<now, pc, path, at, hint, won>>

ProbeAnswersTransient ==
  /\ prober.pc = "asking"
  /\ \E h \in Hints :
       prober' = [prober EXCEPT !.pc = "failing", !.at = now, !.hint = h]
  /\ cell' = Pushed(cell, now, TRUE)
  /\ UNCHANGED <<now, pc, path, at, hint, won>>

ProbeRecordsFailure ==
  /\ prober.pc = "failing"
  /\ cell' \in AfterFailure(cell, prober.at, prober.hint)
  /\ prober' = [prober EXCEPT !.pc = "idle", !.at = 0, !.hint = NoHint]
  /\ UNCHANGED <<now, pc, path, at, hint, won>>

ProbeAnswersHardDown ==
  /\ prober.pc = "asking"
  /\ cell' = HardDowned(cell, now)
  /\ prober' = [prober EXCEPT !.pc = "idle"]
  /\ UNCHANGED <<now, pc, path, at, hint, won>>

\* Client fault or context length: nothing is recorded.
ProbeAnswersNeutral ==
  /\ prober.pc = "asking"
  /\ prober' = [prober EXCEPT !.pc = "idle"]
  /\ UNCHANGED <<now, cell, pc, path, at, hint, won>>

-----------------------------------------------------------------------------
Tick == /\ now < MaxNow
        /\ now' = now + 1
        /\ UNCHANGED <<cell, pc, path, at, hint, won, prober>>

Admission(r) == \/ Choose(r) \/ Precheck(r) \/ LockProbe(r) \/ TakePermit(r)
                \/ Unpark(r) \/ GiveUp(r) \/ DispatchLeastBad(r)

Answer(r) == \/ AnswerOk(r) \/ AnswerTransient(r) \/ AnswerHardDown(r) \/ AnswerNeutral(r)

Completion(r) == \/ RecordFailure(r) \/ ReleaseAfterFailure(r)
                 \/ StreamFails(r) \/ StreamEnds(r)

ProberAnswer == \/ ProbeAnswersOk \/ ProbeAnswersTransient
                \/ ProbeAnswersHardDown \/ ProbeAnswersNeutral

ProberRecord == ProbeCloses \/ ProbeCredits \/ ProbeRecordsFailure

Next == \/ \E r \in Requests : Admission(r) \/ Answer(r) \/ Completion(r) \/ Disconnect(r)
        \/ ProbeSend \/ ProberAnswer \/ ProberRecord
        \/ Tick

Spec == Init /\ [][Next]_vars

(* A task that can run runs; an upstream answers, or its connection fails  *)
(* (request timeout); a wait for a permit ends by its deadline.            *)
RequestFairness ==
  \A r \in Requests :
    /\ WF_vars(Precheck(r))
    /\ WF_vars(LockProbe(r))
    /\ WF_vars(TakePermit(r))
    /\ WF_vars(Unpark(r) \/ GiveUp(r))
    /\ WF_vars(Answer(r))
    /\ WF_vars(Completion(r))

(* The prober's ticker fires again and again, each probe is answered, and  *)
(* one that is sent again and again is answered 2xx again and again.       *)
ProberFairness ==
  /\ WF_vars(ProbeSend)
  /\ WF_vars(ProberAnswer)
  /\ WF_vars(ProberRecord)
  /\ SF_vars(ProbeAnswersOk)

FairSpec == Spec /\ RequestFairness /\ ProberFairness

-----------------------------------------------------------------------------
(* Properties.                                                             *)

(* The flag and the state are two atomics: after every critical section of *)
(* store.rs the probe is in flight exactly when the cell is HalfOpen, so   *)
(* neither can bench the lane on its own.                                  *)
ProbeFlagIsHalfOpen == cell.probe <=> cell.state = HalfOpen

(* Times a task carries across its steps are never ahead of the clock.     *)
PastTimes == /\ \A r \in Requests : at[r] <= now
             /\ prober.at <= now

(* A HalfOpen cell holds no cooldown still to come: no failure, hard-down  *)
(* or Retry-After recorded by another request is ever overtaken by a probe *)
(* that checked an older deadline before it took the lock.                 *)
HalfOpenHasExpired == cell.state = HalfOpen => cell.cooldown <= now

(* In consecutive mode no step that closes a cell or counts on it leaves   *)
(* it Closed with consecutive_n failures in a row, whatever the order in   *)
(* which concurrent failures and successes reach the lock.  A cell may be  *)
(* born so, from a streak read after the state: the first outcome that     *)
(* counts settles it, a failure by tripping, a success by forgiving.       *)
StreakBelowTrip ==
  [][TripMode = "consecutive" /\ cell'.state = Closed
       => \/ cell'.streak < ConsecutiveN
          \/ cell.state = Closed /\ cell'.streak = cell.streak]_vars

(* While a cell stays Open nobody moves its deadline but a hard-down:      *)
(* failures of requests dispatched before the trip, releases of stale      *)
(* probes and successes of degraded requests leave it alone.               *)
OpenDeadlineStands ==
  [][cell.state = Open /\ cell'.state = Open
       => cell'.cooldown \in {cell.cooldown, now + HardDownCooldown}]_vars

(* The escalation of the backoff is forgotten only by a recovery or by a   *)
(* success the cell was not Open for (the comment in cell_record_success). *)
EscalationKept ==
  [][cell'.streak < cell.streak => cell.state # Open \/ cell'.state = Closed]_vars

(* In error-rate mode a cell trips only on a window that holds at least    *)
(* min_requests outcomes, even when a recovery empties the window between  *)
(* the push of the failing outcome and the critical section that trips.    *)
TripHasEvidence ==
  [][TripMode = "error_rate" /\ cell.state = Closed /\ cell'.state = Open
       => \/ cell' = HardDowned(cell, now)
          \/ Len(cell.window) >= MinRequests]_vars

(* A cell taken HalfOpen by a request is decided: closed, or open again.   *)
ProbeResolves == cell.state = HalfOpen ~> cell.state # HalfOpen

(* A cell that is tripped or cooling is served again as long as the health *)
(* probes keep succeeding, even if every client goes away mid-request.     *)
ProbedLaneRecovers == Suppressed(cell, now) ~> ~Suppressed(cell, now)

(* The cell implements the breaker of docs/reliability.md.                 *)
Admitted == {r \in Requests : \/ pc[r] \in {"admitted", "parked"}
                              \/ pc[r] = "sending" /\ path[r] # "least_bad"}

Fsm == INSTANCE BreakerFsm
         WITH phase <- cell.state, until <- cell.cooldown, admitted <- Admitted,
              ParkSecs <- HardDownCooldown, OutOfBand <- HealthMode # "none"

(* Every step of requests and prober is one the documented state machine   *)
(* allows: no admission while suppressed, one probe per expiry, no way out *)
(* of Open but the probe, a hard-down or the prober.                       *)
ImplementsFsm == Fsm!Spec

(* docs/reliability.md: exactly one request is admitted as the probe.      *)
SingleFlight ==
  Cardinality({r \in won : pc[r] = "sending"}) <= 1

=============================================================================
