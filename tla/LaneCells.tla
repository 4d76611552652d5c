----------------------------- MODULE LaneCells ------------------------------
(***************************************************************************)
(* All the breaker cells of one lane: the default cell (the LaneState) and *)
(* a cell for each pool that has routed to the lane, created on first use. *)
(* A health probe or a hard-down speaks of the shared upstream, so it is   *)
(* applied to every cell: the default one first, then, under the READ lock *)
(* of the pool_cells map, each pool cell under its own transition lock.    *)
(* Creation runs under the WRITE lock and copies the default cell's        *)
(* atomics one by one, without its transition lock.                        *)
(*                                                                         *)
(* What requests do to a single cell is module BreakerCell; here each such *)
(* operation is one step (Organic).                                        *)
(***************************************************************************)
EXTENDS CellOps

CONSTANTS
  Pools,        \* the pools the lane is a member of
  Default,      \* the name of the default cell (pool "")
  Tasks,        \* tasks running an all-cells operation
  Kinds,        \* the all-cells operations those tasks run
  Nobody,       \* no pool is being created
  RetryAfters,  \* Retry-After values an upstream may send
  MaxStreak,    \* bound on the failures recorded in a row
  MaxNow        \* bound of the clock

ASSUME LaneAssumption ==
  /\ Default \notin Pools /\ Nobody \notin Pools
  /\ RetryAfters \subseteq Nat
  /\ Kinds \subseteq {"hard_down", "recover", "probe_failure"}
  /\ MaxNow \in Nat /\ MaxStreak \in Nat

VARIABLES
  now,
  cells,     \* every cell; that of a pool not in `known` is not there yet
  known,     \* the pools the map holds
  creating,  \* the pool whose cell a request is creating, or Nobody
  draft,     \* the cell being created, and the atomics copied so far
  task,      \* the all-cells operations under way
  sealed     \* history: until when the last complete hard-down parks the lane

vars == <<now, cells, known, creating, draft, task, sealed>>

Names == Pools \cup {Default}
Live  == known \cup {Default}
Hints == RetryAfters \cup {NoHint}

Idle == [kind |-> "none", stage |-> "idle", at |-> 0, todo |-> {}, on |-> Nobody,
         observed |-> 0, hint |-> NoHint, since |-> 0, disturbed |-> FALSE]

TypeOK ==
  /\ now \in Nat
  /\ cells \in [Names -> Cell]
  /\ known \subseteq Pools
  /\ creating \in Pools \cup {Nobody}
  /\ draft \in [cell : Cell, copied : 0 .. 2]
  /\ task \in [Tasks ->
       [kind : {"none", "hard_down", "recover", "probe_failure"},
        stage : {"idle", "default", "lock", "pools", "credit", "credit_lock", "credit_pools"},
        at : Nat, todo : SUBSET Pools, on : Names \cup {Nobody},
        observed : Nat, hint : Hints, since : Nat, disturbed : BOOLEAN]]
  /\ sealed \in Nat

Init ==
  /\ now = 0
  /\ cells = [n \in Names |-> FreshCell]
  /\ known = {}
  /\ creating = Nobody
  /\ draft = [cell |-> FreshCell, copied |-> 0]
  /\ task = [t \in Tasks |-> Idle]
  /\ sealed = 0

-----------------------------------------------------------------------------
(* The lock of the pool_cells map.                                         *)

Reading == {t \in Tasks : task[t].stage \in {"pools", "credit_pools"}}

\* Mutant: the pool cells are read without taking the lock.
ReadLockIgnored == TRUE

ReadLockFree  == creating = Nobody
WriteLockFree == creating = Nobody /\ Reading = {}

Running(kind) == {t \in Tasks : task[t].kind = kind}

\* History: a recovery learns that something bad was recorded meanwhile, and
\* a hard-down that a recovery crossed it.
Disturbed(tasks, kind) ==
  [t \in Tasks |-> [tasks[t] EXCEPT !.disturbed = @ \/ tasks[t].kind = kind]]
Disturbing(tasks) == Disturbed(tasks, "recover")

-----------------------------------------------------------------------------
(* Creation of a pool's cell: `cell` after the miss on the fast path.      *)

\* Mutant: a HalfOpen default is inherited as it is.
NormalizedVerbatim(state) == state

Normalized(state) == IF state = HalfOpen THEN Open ELSE state

BeginCreate(p) ==
  /\ p \notin known
  /\ WriteLockFree
  /\ creating' = p
  /\ draft' = [cell |-> [FreshCell EXCEPT !.state = Normalized(cells[Default].state)],
               copied |-> 0]
  /\ UNCHANGED <<now, cells, known, task, sealed>>

CopyCooldown ==
  /\ creating # Nobody /\ draft.copied = 0
  /\ draft' = [cell |-> [draft.cell EXCEPT !.cooldown = cells[Default].cooldown],
               copied |-> 1]
  /\ UNCHANGED <<now, cells, known, creating, task, sealed>>

FinishCreate ==
  /\ creating # Nobody /\ draft.copied = 1
  /\ cells' = [cells EXCEPT ![creating] =
                 [draft.cell EXCEPT !.streak = cells[Default].streak]]
  /\ known' = known \cup {creating}
  /\ creating' = Nobody
  /\ draft' = [cell |-> FreshCell, copied |-> 0]
  /\ UNCHANGED <<now, task, sealed>>

-----------------------------------------------------------------------------
EarliestOf(times) == CHOOSE a \in times : \A b \in times : a <= b

(* All-cells operations.  Each captures the time once, works on the        *)
(* default cell, then takes the read lock and visits the pool cells there  *)
(* are, one at a time.                                                     *)

BeginHardDown(t) ==
  /\ "hard_down" \in Kinds
  /\ task[t].kind = "none"
  /\ task' = [task EXCEPT ![t] =
       [Idle EXCEPT !.kind = "hard_down", !.stage = "default", !.at = now,
                    !.since = EarliestOf({now} \cup {task[u].at : u \in Running("hard_down")}),
                    !.disturbed = Running("recover") # {}]]
  /\ UNCHANGED <<now, cells, known, creating, draft, sealed>>

BeginRecover(t) ==
  /\ "recover" \in Kinds
  /\ task[t].kind = "none"
  /\ task' = Disturbed([task EXCEPT ![t] = [Idle EXCEPT !.kind = "recover",
                                              !.stage = "default", !.at = now]],
                       "hard_down")
  /\ sealed' = 0
  /\ UNCHANGED <<now, cells, known, creating, draft>>

BeginProbeFailure(t) ==
  /\ "probe_failure" \in Kinds
  /\ task[t].kind = "none"
  /\ \E h \in Hints :
       task' = [task EXCEPT ![t] = [Idle EXCEPT !.kind = "probe_failure",
                                      !.stage = "default", !.at = now, !.hint = h]]
  /\ UNCHANGED <<now, cells, known, creating, draft, sealed>>

TakeReadLock(t) ==
  /\ task[t].stage \in {"lock", "credit_lock"}
  /\ ReadLockFree
  /\ task' = [task EXCEPT ![t].stage = IF @ = "lock" THEN "pools" ELSE "credit_pools",
                          ![t].todo = known]
  /\ UNCHANGED <<now, cells, known, creating, draft, sealed>>

\* The cell an operation may work on now, and where that leaves the task.
Next_cell(t) ==
  IF task[t].stage \in {"default", "credit"} THEN {Default} ELSE task[t].todo

Advanced(t) ==
  CASE task[t].stage = "default" -> [task EXCEPT ![t].stage = "lock", ![t].on = Nobody]
    [] task[t].stage = "credit"  -> [task EXCEPT ![t].stage = "credit_lock"]
    [] OTHER -> [task EXCEPT ![t].on = Nobody]

Visiting(t, n) ==
  /\ task[t].stage \in {"default", "pools"}
  /\ n \in Next_cell(t)

\* The per-cell trip of record_hard_down_all_cells.
Park(t, n) ==
  /\ task[t].kind = "hard_down"
  /\ Visiting(t, n)
  /\ cells' = [cells EXCEPT ![n] = HardDowned(@, task[t].at)]
  /\ task' = Disturbing([Advanced(t) EXCEPT ![t].todo = @ \ {n}])
  /\ UNCHANGED <<now, known, creating, draft, sealed>>

\* record_probe_failure_all_cells
Fail(t, n) ==
  /\ task[t].kind = "probe_failure"
  /\ Visiting(t, n)
  /\ cells[n].streak < MaxStreak
  /\ \E c \in AfterFailure(Pushed(cells[n], task[t].at, TRUE), task[t].at, task[t].hint) :
       cells' = [cells EXCEPT ![n] = c]
  /\ task' = Disturbing([Advanced(t) EXCEPT ![t].todo = @ \ {n}])
  /\ UNCHANGED <<now, known, creating, draft, sealed>>

\* recover_lane looks at a cell without its lock ...
Observe(t, n) ==
  /\ task[t].kind = "recover"
  /\ Visiting(t, n) /\ task[t].on = Nobody
  /\ IF Suppressed(cells[n], task[t].at)
     THEN task' = [task EXCEPT ![t].on = n, ![t].observed = cells[n].cooldown]
     ELSE task' = [Advanced(t) EXCEPT ![t].todo = @ \ {n}]
  /\ UNCHANGED <<now, cells, known, creating, draft, sealed>>

\* ... and closes it under the lock, if nothing stricter came in between.
CloseObserved(t) ==
  /\ task[t].kind = "recover" /\ task[t].on # Nobody
  /\ LET n == task[t].on
     IN  /\ cells' = [cells EXCEPT ![n] = Recovered(@, task[t].at, task[t].observed)]
         /\ task' = [Advanced(t) EXCEPT ![t].todo = @ \ {n}, ![t].observed = 0]
  /\ UNCHANGED <<now, known, creating, draft, sealed>>

\* record_probe_success_all_cells, after recover_lane.
Credit(t, n) ==
  /\ task[t].stage \in {"credit", "credit_pools"}
  /\ n \in Next_cell(t)
  /\ cells' = [cells EXCEPT ![n] = AfterSuccess(@, now)]
  /\ task' = [Advanced(t) EXCEPT ![t].todo = @ \ {n}]
  /\ UNCHANGED <<now, known, creating, draft, sealed>>

\* The last pool cell was visited: the read lock is released.
Finish(t) ==
  /\ task[t].stage \in {"pools", "credit_pools"}
  /\ task[t].todo = {} /\ task[t].on = Nobody
  /\ task' = [task EXCEPT ![t] =
                IF @.kind = "recover" /\ @.stage = "pools"
                THEN [@ EXCEPT !.stage = "credit"]
                ELSE Idle]
  /\ sealed' = IF task[t].kind # "hard_down" THEN sealed
               ELSE IF task[t].disturbed THEN 0
               ELSE task[t].since + HardDownCooldown
  /\ UNCHANGED <<now, cells, known, creating, draft>>

-----------------------------------------------------------------------------
(* What requests routed through one pool (or directly) do to its cell.     *)

OrganicFailure(n) ==
  /\ n \in Live
  /\ cells[n].streak < MaxStreak
  /\ \E h \in Hints :
       \E c \in AfterFailure(Pushed(cells[n], now, TRUE), now, h) :
         cells' = [cells EXCEPT ![n] = c]
  /\ task' = Disturbing(task)
  /\ UNCHANGED <<now, known, creating, draft, sealed>>

OrganicSuccess(n) ==
  /\ n \in Live
  /\ cells' = [cells EXCEPT ![n] = AfterSuccess(@, now)]
  /\ UNCHANGED <<now, known, creating, draft, task, sealed>>

OrganicProbe(n) ==
  /\ n \in Live
  /\ ProbeWinnable(cells[n], now)
  /\ cells' = [cells EXCEPT ![n] = ProbeWon(@)]
  /\ task' = Disturbing(task)
  /\ UNCHANGED <<now, known, creating, draft, sealed>>

OrganicRelease(n) ==
  /\ n \in Live
  /\ cells' = [cells EXCEPT ![n] = ProbeReleased(@)]
  /\ UNCHANGED <<now, known, creating, draft, task, sealed>>

Tick ==
  /\ now < MaxNow
  /\ now' = now + 1
  /\ UNCHANGED <<cells, known, creating, draft, task, sealed>>

Creation == (\E p \in Pools : BeginCreate(p)) \/ CopyCooldown \/ FinishCreate

AllCells(t) ==
  \/ BeginHardDown(t) \/ BeginRecover(t) \/ BeginProbeFailure(t)
  \/ TakeReadLock(t) \/ CloseObserved(t) \/ Finish(t)
  \/ \E n \in Names : Park(t, n) \/ Fail(t, n) \/ Observe(t, n) \/ Credit(t, n)

Organic(n) == OrganicFailure(n) \/ OrganicSuccess(n) \/ OrganicProbe(n) \/ OrganicRelease(n)

Next == Creation \/ (\E t \in Tasks : AllCells(t)) \/ (\E n \in Names : Organic(n)) \/ Tick

Spec == Init /\ [][Next]_vars

-----------------------------------------------------------------------------
(* Properties.                                                             *)

(* A complete hard-down parks the whole lane: until its cooldown passes or *)
(* a health probe recovers the lane, every cell there is stays Open,       *)
(* including one whose creation raced the hard-down.                       *)
HardDownSealsLane ==
  now < sealed => \A n \in Live : cells[n].state = Open /\ cells[n].cooldown >= sealed

(* No cell is born, or left by any race of the all-cells operations, in    *)
(* the HalfOpen state with nobody owning its probe: such a cell would      *)
(* admit no one for ever.                                                  *)
NoOrphanedHalfOpen ==
  \A n \in Live : cells[n].state = HalfOpen <=> cells[n].probe

(* A successful health probe recovers the lane in every pool: when the     *)
(* recovery has passed over the cells and nothing bad was recorded         *)
(* meanwhile, no cell is left suppressed, not even one created meanwhile   *)
(* from a default cell that was still tripped.                             *)
RecoveryReachesAllCells ==
  [][\A t \in Tasks :
       (/\ task[t].kind = "recover" /\ task[t].stage = "pools"
        /\ task'[t].stage = "credit"
        /\ ~task[t].disturbed)
          => \A n \in Live : ~Suppressed(cells[n], now)]_vars

=============================================================================
