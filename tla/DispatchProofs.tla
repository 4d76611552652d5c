--------------------------- MODULE DispatchProofs ---------------------------
(***************************************************************************)
(* Module Dispatch for every set of requests, lanes and pools, every       *)
(* configuration, error map and limit: its types, the conservation of      *)
(* permits and budget units, the owner of every probe, that faults and     *)
(* bills are counted once, that no attempt is wasted, and that a request   *)
(* uses up what it may still go through.                                   *)
(*                                                                         *)
(* Every action but those of the clock and the prober is a turn of one     *)
(* request: it replaces the record of that request, and moves at most one  *)
(* permit, one unit and one cell.  Sound says what a request's record      *)
(* promises at each stage; Turn says what a turn must show of the record   *)
(* it leaves to keep the invariant, and TurnKeeps that this is enough.     *)
(***************************************************************************)
EXTENDS Dispatch, FiniteSetTheorems, TLAPS

Placed  == {"sticky", "admit", "parked", "upstream", "buffering", "streaming"}
Waiting == {"idle", "deciding", "sticky", "select", "admit", "parked", "upstream", "exhausted"}

Holds(q, l)  == q.lane = l /\ q.pc \in {"upstream", "buffering", "streaming"} /\ ~q.ended
Spends(q, l) == q.unit /\ q.lane = l
Probes(q, p, l) == q.pool = p /\ q.lane = l /\ q.won /\ q.pc \in {"sticky", "parked", "upstream"}

\* What FaultsCountedOnce and BilledOnce say of one request.
Faulted(q) ==
  /\ q.fate \in {"theirs", "failed", "cut"} => q.marks = 1
  /\ q.fate \in {"callers", "too_large", "taken", "failing", "unsent"} => q.marks = 0

Billed(q) ==
  /\ q.bills <= 1
  /\ q.fate \in {"failing", "failed"} => q.bills = 0
  /\ q.pc = "done" => /\ q.reply = "complete" => q.bills = 1
                      /\ q.reply \in {"unavailable", "relayed", "error"} => q.bills = 0

\* An attempt starts with a clean sheet, and an answer is billed by its end.
Tallied(q) ==
  /\ q.pc \in Waiting => q.fate = "none" /\ q.marks = 0
  /\ q.pc = "buffering" => q.fate = "taken"
  /\ q.pc \notin {"streaming", "done"} => q.bills = 0 /\ ~q.spoilt /\ q.sink
  /\ q.pc = "streaming" =>
       /\ q.spoilt <=> q.fate \in {"failing", "failed"}
       /\ q.spoilt => q.sse /\ q.first
       /\ ~q.ended => /\ q.sink /\ q.bills = 0
                      /\ q.fate = IF q.spoilt THEN "failing" ELSE "taken"
       /\ q.ended => /\ q.sink => q.bills = 0
                     /\ q.reply = "complete" <=> ~q.sink /\ ~q.spoilt
                     /\ q.reply = "complete" => q.bills = 1
                     /\ q.reply \in {"complete", "cut"}

Sound(q) ==
  /\ q.pc \notin {"idle", "done"} => q.pool \in Pools
  /\ q.pc \in Placed => q.lane \in Members[q.pool]
  /\ q.unit => q.pc \in {"buffering", "streaming"} /\ Limited(q.lane)
  /\ q.ended => q.pc = "streaming"
  /\ Tallied(q) /\ Faulted(q) /\ Billed(q)

Inv ==
  /\ TypeOK
  /\ \A r \in Requests : Sound(req[r])
  /\ PermitsConserved
  /\ BudgetAccounted
  /\ ProbeHasOwner

\* A turn of r that leaves its record as rec.
Turn(r, rec) ==
  /\ req' = [req EXCEPT ![r] = rec]
  /\ rec \in Request /\ Sound(rec)
  /\ cell' \in [Pools -> [Lanes -> Phase]]
  /\ free' \in [Lanes -> Nat] /\ budget' \in [Lanes -> Nat] /\ kept' \in [Lanes -> Nat]
  /\ \A l \in Lanes :
       /\ free'[l] = free[l] + (IF Holds(req[r], l) THEN 1 ELSE 0)
                             - (IF Holds(rec, l) THEN 1 ELSE 0)
       /\ Limited(l) => budget'[l] + kept'[l]
                          = budget[l] + kept[l] + (IF Spends(req[r], l) THEN 1 ELSE 0)
                                                - (IF Spends(rec, l) THEN 1 ELSE 0)
  /\ \A p \in Pools, l \in Lanes : cell'[p][l] = "probing" =>
       /\ cell[p][l] = "probing" \/ Probes(rec, p, l)
       /\ Probes(req[r], p, l) =>
            Probes(rec, p, l) \/ (req[r].pc = "upstream" /\ rec.pc = "done" /\ rec.reply = "cut")

-----------------------------------------------------------------------------
(* A turn moves one request in or out of a set of requests.                *)

(* A set that loses or gains at most one element changes its cardinality   *)
(* by as much.                                                             *)
LEMMA OneMoves ==
  ASSUME NEW S \in SUBSET Requests, NEW T \in SUBSET Requests, NEW r \in Requests,
         S \ {r} = T \ {r}
  PROVE  /\ Cardinality(S) \in Nat /\ Cardinality(T) \in Nat
         /\ Cardinality(T) = Cardinality(S) - (IF r \in S THEN 1 ELSE 0)
                                            + (IF r \in T THEN 1 ELSE 0)
<1> DEFINE U == S \ {r}
<1>1. IsFiniteSet(S) /\ IsFiniteSet(T)
  BY DispatchAssumption, FS_Subset
<1>2. IsFiniteSet(U) /\ Cardinality(U) \in Nat /\ Cardinality(S) \in Nat /\ Cardinality(T) \in Nat
  BY <1>1, FS_RemoveElement, FS_CardinalityType
<1>3. Cardinality(U) = IF r \in S THEN Cardinality(S) - 1 ELSE Cardinality(S)
  BY <1>1, FS_RemoveElement
<1>4. Cardinality(U) = IF r \in T THEN Cardinality(T) - 1 ELSE Cardinality(T)
  BY <1>1, FS_RemoveElement
<1> HIDE DEF U
<1>5. QED BY <1>2, <1>3, <1>4

(* A turn keeps the invariant.                                             *)
LEMMA TurnKeeps ==
  ASSUME Inv, Aside, NEW r \in Requests, NEW rec, Turn(r, rec)
  PROVE  Inv'
<1> USE DEF Turn
<1>1. /\ req \in [Requests -> Request] /\ req' \in [Requests -> Request]
      /\ req'[r] = rec /\ \A x \in Requests \ {r} : req'[x] = req[x]
  BY DEF Inv, TypeOK
<1>2. /\ config' = config /\ config \in Config /\ Members' = Members
      /\ \A p \in Pools : Members[p] \subseteq Lanes
  BY DEF Inv, TypeOK, Aside, Members, Config
<1>3. \A x \in Requests : Sound(req[x])'
  <2> SUFFICES ASSUME NEW x \in Requests PROVE Sound(req[x])'
    OBVIOUS
  <2>1. Sound(req'[x])
    BY <1>1 DEF Inv
  <2>2. QED BY <2>1, <1>2 DEF Sound, Tallied, Faulted, Billed, Limited
<1>4. \A x \in Requests : /\ req'[x].pc \notin {"idle", "done"} => req'[x].pool \in Pools
                          /\ req'[x].pc \in Placed => req'[x].lane \in Lanes
  <2> SUFFICES ASSUME NEW x \in Requests
               PROVE  /\ req'[x].pc \notin {"idle", "done"} => req'[x].pool \in Pools
                      /\ req'[x].pc \in Placed => req'[x].lane \in Lanes
    OBVIOUS
  <2>1. Sound(req'[x])
    BY <1>1 DEF Inv
  <2>2. QED BY <2>1, <1>2 DEF Sound, Placed
<1>5. TypeOK'
  <2>1. orphaned' \subseteq Pools \X Lanes
    <3>1. Abandoned \subseteq Pools \X Lanes
      <4> SUFFICES ASSUME NEW x \in Requests, req[x].pc = "upstream"
                   PROVE  <<req[x].pool, req[x].lane>> \in Pools \X Lanes
        BY DEF Abandoned
      <4>1. QED BY DEF Inv, TypeOK
    <3>2. QED BY <3>1 DEF Inv, TypeOK, Aside
  <2>2. QED BY <1>1, <1>2, <1>4, <2>1 DEF TypeOK, Placed
<1>6. PermitsConserved'
  <2> SUFFICES ASSUME NEW l \in Lanes
               PROVE  free'[l] + Cardinality(InFlight(l)') = MaxConcurrent[l]
    BY DEF PermitsConserved
  <2>1. /\ InFlight(l) \in SUBSET Requests /\ InFlight(l)' \in SUBSET Requests
        /\ InFlight(l) \ {r} = InFlight(l)' \ {r}
        /\ r \in InFlight(l) <=> Holds(req[r], l)
        /\ r \in InFlight(l)' <=> Holds(rec, l)
    BY <1>1 DEF InFlight, Holds
  <2>2. free[l] + Cardinality(InFlight(l)) = MaxConcurrent[l]
    BY DEF Inv, PermitsConserved
  <2>3. free[l] \in Nat /\ free'[l] \in Nat
    BY DEF Inv, TypeOK
  <2> DEFINE m == Cardinality(InFlight(l))
             n == Cardinality(InFlight(l)')
             was == IF Holds(req[r], l) THEN 1 ELSE 0
             is == IF Holds(rec, l) THEN 1 ELSE 0
  <2>4. m \in Nat /\ n \in Nat /\ n = m - was + is
    BY <2>1, OneMoves
  <2>5. free'[l] = free[l] + was - is /\ was \in Int /\ is \in Int
    OBVIOUS
  <2> HIDE DEF m, n, was, is
  <2>6. free[l] + m = MaxConcurrent[l] => free'[l] + n = MaxConcurrent[l]
    BY <2>3, <2>4, <2>5
  <2>7. QED BY <2>2, <2>6 DEF m, n
<1>7. BudgetAccounted'
  <2> SUFFICES ASSUME NEW l \in Lanes, Limited(l)
               PROVE  budget'[l] + kept'[l] + Cardinality(Spenders(l)') = MaxRequests[l]
    BY DEF BudgetAccounted, Limited
  <2>1. /\ Spenders(l) \in SUBSET Requests /\ Spenders(l)' \in SUBSET Requests
        /\ Spenders(l) \ {r} = Spenders(l)' \ {r}
        /\ r \in Spenders(l) <=> Spends(req[r], l)
        /\ r \in Spenders(l)' <=> Spends(rec, l)
    BY <1>1 DEF Spenders, Spends
  <2>2. budget[l] + kept[l] + Cardinality(Spenders(l)) = MaxRequests[l]
    BY DEF Inv, BudgetAccounted
  <2>3. budget[l] \in Nat /\ budget'[l] \in Nat /\ kept[l] \in Nat /\ kept'[l] \in Nat
    BY DEF Inv, TypeOK
  <2> DEFINE m == Cardinality(Spenders(l))
             n == Cardinality(Spenders(l)')
             was == IF Spends(req[r], l) THEN 1 ELSE 0
             is == IF Spends(rec, l) THEN 1 ELSE 0
  <2>4. m \in Nat /\ n \in Nat /\ n = m - was + is
    BY <2>1, OneMoves
  <2>5. /\ budget'[l] + kept'[l] = budget[l] + kept[l] + was - is
        /\ was \in Int /\ is \in Int
    <3>1. budget'[l] + kept'[l] = budget[l] + kept[l] + was - is
      BY Zenon
    <3>2. was \in {0, 1} /\ is \in {0, 1}
      BY Zenon
    <3> HIDE DEF was, is
    <3>3. QED BY <3>1, <3>2
  <2> HIDE DEF m, n, was, is
  <2>6. budget[l] + kept[l] + m = MaxRequests[l] => budget'[l] + kept'[l] + n = MaxRequests[l]
    BY <2>3, <2>4, <2>5
  <2>7. QED BY <2>2, <2>6 DEF m, n
<1>8. ProbeHasOwner'
  <2> SUFFICES ASSUME NEW p \in Pools, NEW l \in Lanes, cell'[p][l] = "probing",
                      <<p, l>> \notin orphaned'
               PROVE  \E x \in Requests : Probes(req'[x], p, l)
    BY DEF ProbeHasOwner, Owns, Probes
  <2>1. <<p, l>> \notin orphaned \cup Abandoned
    BY DEF Aside
  <2>2. CASE Probes(rec, p, l)
    BY <1>1, <2>2
  <2>3. CASE ~Probes(rec, p, l)
    <3>1. PICK x \in Requests : Probes(req[x], p, l)
      BY <2>1, <2>3 DEF Inv, ProbeHasOwner, Owns, Probes
    <3>2. CASE x # r
      BY <1>1, <3>1, <3>2
    <3>3. CASE x = r
      <4>1. req[r].pc = "upstream" /\ req'[r].pc = "done" /\ req'[r].reply = "cut"
        BY <1>1, <2>3, <3>1, <3>3
      <4>2. <<req[r].pool, req[r].lane>> \in Abandoned /\ req[r].pool = p /\ req[r].lane = l
        BY <3>1, <3>3, <4>1 DEF Abandoned, Probes
      <4>3. QED BY <2>1, <4>2
    <3>4. QED BY <3>2, <3>3
  <2>4. QED BY <2>2, <2>3
<1>9. QED BY <1>3, <1>5, <1>6, <1>7, <1>8 DEF Inv

-----------------------------------------------------------------------------
(* What the parts of a turn show of it.                                    *)

(* What the invariant says of the request whose turn it is.                *)
LEMMA Known ==
  ASSUME Inv, NEW r \in Requests
  PROVE  /\ req[r] \in Request /\ Sound(req[r])
         /\ cell \in [Pools -> [Lanes -> Phase]]
         /\ free \in [Lanes -> Nat] /\ budget \in [Lanes -> Nat] /\ kept \in [Lanes -> Nat]
         /\ config \in Config /\ \A p \in Pools : Members[p] \subseteq Lanes
         /\ req[r].pc \notin {"idle", "done"} => req[r].pool \in Pools
         /\ req[r].pc \in Placed => /\ req[r].pool \in Pools /\ req[r].lane \in Lanes
                                    /\ req[r].lane \in Members[req[r].pool]
BY DEF Inv, TypeOK, Members, Config, Sound, Placed

(* A step that moves no permit, unit or cell is a turn when the record it  *)
(* leaves is sound and has the same permit, unit and probe.                *)
LEMMA Quiet ==
  ASSUME Inv, NEW r \in Requests, NEW rec \in Request, Sound(rec), Becomes(r, rec),
         UNCHANGED <<cell, free, budget, kept>>,
         \A l \in Lanes : /\ Holds(rec, l) <=> Holds(req[r], l)
                          /\ Spends(rec, l) <=> Spends(req[r], l),
         \A p \in Pools, l \in Lanes : Probes(req[r], p, l) => Probes(rec, p, l)
  PROVE  Turn(r, rec)
<1>1. \A l \in Lanes : free[l] \in Nat /\ budget[l] \in Nat /\ kept[l] \in Nat
  BY Known
<1>2. QED BY <1>1, Known DEF Turn, Becomes

(* The same, for a request that holds nothing before and after.            *)
LEMMA Seeking ==
  ASSUME Inv, NEW r \in Requests, NEW rec \in Request, Sound(rec), Becomes(r, rec),
         UNCHANGED <<cell, free, budget, kept>>,
         req[r].pc \in {"idle", "deciding", "hop", "select", "admit", "exhausted", "done"},
         rec.pc \in {"idle", "deciding", "hop", "select", "admit", "exhausted", "done"}
  PROVE  Turn(r, rec)
<1>1. \A l \in Lanes : ~Holds(rec, l) /\ ~Holds(req[r], l) /\ ~Spends(rec, l) /\ ~Spends(req[r], l)
  BY Known DEF Holds, Spends, Sound
<1>2. QED BY <1>1, Quiet DEF Probes

(* The permit of a request that has one comes back.                        *)
LEMMA PermitBack ==
  ASSUME Inv, NEW r \in Requests, NEW rec, req[r].lane \in Lanes, FreesPermit(req[r].lane),
         \A l \in Lanes : ~Holds(rec, l), Holds(req[r], req[r].lane)
  PROVE  /\ free' \in [Lanes -> Nat]
         /\ \A l \in Lanes : free'[l] = free[l] + (IF Holds(req[r], l) THEN 1 ELSE 0)
                                                - (IF Holds(rec, l) THEN 1 ELSE 0)
<1>1. \A l \in Lanes : Holds(req[r], l) <=> l = req[r].lane
  BY DEF Holds
<1>2. QED BY <1>1, Known DEF FreesPermit

(* A unit that is kept, or that was never taken, leaves the account whole. *)
LEMMA UnitKept ==
  ASSUME Inv, NEW r \in Requests, NEW rec, ~rec.unit, budget' = budget, KeepUnit(req[r])
  PROVE  /\ budget' \in [Lanes -> Nat] /\ kept' \in [Lanes -> Nat]
         /\ \A l \in Lanes : budget'[l] + kept'[l]
                               = budget[l] + kept[l] + (IF Spends(req[r], l) THEN 1 ELSE 0)
                                                     - (IF Spends(rec, l) THEN 1 ELSE 0)
<1>1. \A l \in Lanes : ~Spends(rec, l) /\ (Spends(req[r], l) <=> req[r].unit /\ l = req[r].lane)
  BY DEF Spends
<1>2. budget \in [Lanes -> Nat] /\ kept \in [Lanes -> Nat]
  BY Known
<1>3. CASE req[r].unit
  <2>1. req[r].lane \in Lanes
    BY <1>3, Known DEF Sound, Placed
  <2>2. QED BY <1>1, <1>2, <1>3, <2>1 DEF KeepUnit
<1>4. CASE ~req[r].unit
  BY <1>1, <1>2, <1>4 DEF KeepUnit
<1>5. QED BY <1>3, <1>4

(* So does a unit that is refunded.                                        *)
LEMMA UnitRefunded ==
  ASSUME Inv, NEW r \in Requests, NEW rec, ~rec.unit, kept' = kept, budget' = Refunded(req[r])
  PROVE  /\ budget' \in [Lanes -> Nat] /\ kept' \in [Lanes -> Nat]
         /\ \A l \in Lanes : budget'[l] + kept'[l]
                               = budget[l] + kept[l] + (IF Spends(req[r], l) THEN 1 ELSE 0)
                                                     - (IF Spends(rec, l) THEN 1 ELSE 0)
<1>1. \A l \in Lanes : ~Spends(rec, l) /\ (Spends(req[r], l) <=> req[r].unit /\ l = req[r].lane)
  BY DEF Spends
<1>2. budget \in [Lanes -> Nat] /\ kept \in [Lanes -> Nat]
  BY Known
<1>3. CASE req[r].unit
  <2>1. req[r].lane \in Lanes
    BY <1>3, Known DEF Sound, Placed
  <2>2. QED BY <1>1, <1>2, <1>3, <2>1 DEF Refunded
<1>4. CASE ~req[r].unit
  BY <1>1, <1>2, <1>4 DEF Refunded
<1>5. QED BY <1>3, <1>4

(* And a step that touches none.                                           *)
LEMMA UnitUntouched ==
  ASSUME Inv, NEW r \in Requests, NEW rec, UNCHANGED <<budget, kept>>,
         \A l \in Lanes : Spends(rec, l) <=> Spends(req[r], l)
  PROVE  /\ budget' \in [Lanes -> Nat] /\ kept' \in [Lanes -> Nat]
         /\ \A l \in Lanes : budget'[l] + kept'[l]
                               = budget[l] + kept[l] + (IF Spends(req[r], l) THEN 1 ELSE 0)
                                                     - (IF Spends(rec, l) THEN 1 ELSE 0)
BY Known

\* What a request records leaves its cell in no probe, and starts none.
Settles(p, l) ==
  /\ cell' \in [Pools -> [Lanes -> Phase]]
  /\ \A x \in Pools, y \in Lanes :
       cell'[x][y] = "probing" => cell[x][y] = "probing" /\ <<x, y>> # <<p, l>>

(* Every result a request can record settles its cell.                     *)
LEMMA Settling ==
  ASSUME Inv, NEW p \in Pools, NEW l \in Members[p]
  PROVE  /\ Strike(p, l) \/ Relieve(p, l) \/ Release(p, l) \/ HardDown(l) => Settles(p, l)
         /\ (\E c \in Struck(cell[p][l]) : cell' = [cell EXCEPT ![p][l] = Released(c)])
              => Settles(p, l)
<1>1. /\ cell \in [Pools -> [Lanes -> Phase]] /\ l \in Lanes
      /\ cell[p][l] \in Phase /\ \A x \in Pools : Members[x] \in SUBSET Lanes
  BY DEF Inv, TypeOK, Members, Config
<1>2. ASSUME NEW c \in Phase \ {"probing"}, cell' = [cell EXCEPT ![p][l] = c]
      PROVE  Settles(p, l)
  BY <1>1, <1>2 DEF Settles
<1>3. \A c \in Struck(cell[p][l]) : c \in Phase \ {"probing"} /\ Released(c) \in Phase \ {"probing"}
  BY <1>1 DEF Struck, Released, Phase
<1>4. Relieved(cell[p][l]) \in Phase \ {"probing"} /\ Released(cell[p][l]) \in Phase \ {"probing"}
  BY <1>1 DEF Relieved, Released, Phase
<1>5. HardDown(l) => Settles(p, l)
  BY <1>1 DEF HardDown, Settles, Phase
<1>6. QED BY <1>1, <1>2, <1>3, <1>4, <1>5 DEF Strike, Relieve, Release

(* The end of an attempt: its cell is settled, its permit comes back.      *)
LEMMA AttemptEnds ==
  ASSUME Inv, NEW r \in Requests, NEW rec \in Request, Sound(rec), Becomes(r, rec),
         req[r].pc = "upstream", rec.pc \in {"hop", "done"},
         Settles(req[r].pool, req[r].lane), FreesPermit(req[r].lane),
         UNCHANGED <<budget, kept>>
  PROVE  Turn(r, rec)
<1>1. req[r].lane \in Lanes /\ req[r].pool \in Pools /\ ~req[r].ended /\ ~req[r].unit /\ ~rec.unit
  BY Known DEF Sound, Placed
<1>2. /\ Holds(req[r], req[r].lane)
      /\ \A l \in Lanes : ~Holds(rec, l) /\ ~Spends(rec, l) /\ ~Spends(req[r], l)
  BY <1>1 DEF Holds, Spends
<1>3. \A p \in Pools, l \in Lanes :
        cell'[p][l] = "probing" => cell[p][l] = "probing" /\ ~Probes(req[r], p, l)
  BY DEF Settles, Probes
<1>4. QED BY <1>1, <1>2, <1>3, PermitBack, UnitUntouched DEF Turn, Becomes, Settles

-----------------------------------------------------------------------------
(* The records requests go through.                                        *)

(* A slot with no request in it is one, and sound.                         *)
LEMMA IdleType == Idle \in Request /\ Sound(Idle)
<1>1. Idle \in Request
  BY DEF Request, Idle, Stage, Path, Fate, Reply
<1>2. QED BY <1>1 DEF Idle, Sound, Tallied, Faulted, Billed, Placed, Waiting

(* An answered request has only its history left.                          *)
LEMMA AnsweredType ==
  ASSUME NEW q \in Request, NEW reply \in Reply
  PROVE  /\ Answered(q, reply) \in Request
         /\ Answered(q, reply).pc = "done" /\ Answered(q, reply).reply = reply
         /\ ~Answered(q, reply).unit /\ ~Answered(q, reply).ended /\ ~Answered(q, reply).spoilt
         /\ Answered(q, reply).sink /\ Answered(q, reply).fate = q.fate
         /\ Answered(q, reply).marks = q.marks /\ Answered(q, reply).bills = q.bills
<1>1. q.fate \in Fate /\ q.marks \in Nat /\ q.bills \in Nat
  BY DEF Request
<1>2. "done" \in Stage
  BY DEF Stage
<1>3. Answered(q, reply) \in Request
  BY <1>1, <1>2, IdleType DEF Request, Answered
<1>4. QED BY <1>3 DEF Answered, Idle, Request

(* What an answer must show to be sound.                                   *)
LEMMA AnsweredSound ==
  ASSUME NEW q \in Request, NEW reply \in Reply, Faulted(q), q.bills <= 1,
         q.fate \in {"failing", "failed"} => q.bills = 0,
         reply = "complete" => q.bills = 1,
         reply \in {"unavailable", "relayed", "error"} => q.bills = 0
  PROVE  Sound(Answered(q, reply))
BY AnsweredType DEF Sound, Tallied, Faulted, Billed, Placed, Waiting

(* A request that looks for a lane is one, at each stage of the search.    *)
LEMMA LookingType ==
  ASSUME NEW q \in Request, NEW stage \in Stage
  PROVE  /\ Looking(q) \in Request
         /\ [Looking(q) EXCEPT !.pc = stage] \in Request
BY DEF Request, Looking, Fate

(* It is sound when it holds nothing and has not been billed.              *)
LEMMA LookingSound ==
  ASSUME NEW q \in Request, NEW stage \in {"hop", "select", "exhausted"}, Sound(q),
         q.pc \in {"hop", "sticky", "select", "admit", "parked", "exhausted"}
  PROVE  Sound([Looking(q) EXCEPT !.pc = stage]) /\ [Looking(q) EXCEPT !.pc = stage].pc = stage
<1> DEFINE rec == [Looking(q) EXCEPT !.pc = stage]
<1>1. /\ rec.pc = stage /\ rec.fate = "none" /\ rec.marks = 0 /\ rec.pool = q.pool
      /\ rec.unit = q.unit /\ rec.ended = q.ended /\ rec.bills = q.bills
      /\ rec.spoilt = q.spoilt /\ rec.sink = q.sink
  BY DEF Looking, Request
<1>2. q.pool \in Pools /\ ~q.unit /\ ~q.ended /\ q.bills = 0 /\ ~q.spoilt /\ q.sink
  BY DEF Sound, Tallied
<1> HIDE DEF rec
<1>3. Sound(rec)
  BY <1>1, <1>2 DEF Sound, Tallied, Faulted, Billed, Placed, Waiting
<1>4. QED BY <1>1, <1>3 DEF rec

-----------------------------------------------------------------------------
(* The actions that look for a lane.                                       *)

(* A request that is answered before it is sent anywhere.                  *)
LEMMA TurnedAway ==
  ASSUME Inv, NEW r \in Requests, NEW reply \in {"unavailable", "cut"},
         Becomes(r, Answered(req[r], reply)), UNCHANGED <<cell, free, budget, kept>>,
         req[r].pc \in {"deciding", "hop", "exhausted"}
  PROVE  \E rec : Turn(r, rec)
<1>1. reply \in Reply
  BY DEF Reply
<1>2. Answered(req[r], reply) \in Request /\ Sound(Answered(req[r], reply))
  BY <1>1, Known, AnsweredType, AnsweredSound DEF Sound, Tallied
<1>3. Answered(req[r], reply).pc = "done"
  BY <1>1, Known, AnsweredType
<1>4. QED BY <1>2, <1>3, Seeking

(* A request arrives with a clean sheet, and holds nothing.                *)
LEMMA ArriveTurns ==
  ASSUME Inv, NEW r \in Requests, Arrive(r)
  PROVE  \E rec : Turn(r, rec)
<1>1. PICK p \in config.routes :
        Becomes(r, [Idle EXCEPT !.pc = "deciding", !.pool = p, !.excluded = config.exclusions[p]])
  BY DEF Arrive
<1> DEFINE rec == [Idle EXCEPT !.pc = "deciding", !.pool = p, !.excluded = config.exclusions[p]]
<1>2. p \in Pools /\ config.exclusions[p] \in SUBSET Lanes
  BY Known DEF Config
<1>3. rec \in Request
  BY <1>2, IdleType DEF Request, Stage
<1>4. Sound(rec) /\ rec.pc = "deciding"
  BY <1>2, <1>3 DEF Idle, Sound, Tallied, Faulted, Billed, Placed, Waiting
<1> HIDE DEF rec
<1>5. QED BY <1>1, <1>3, <1>4, Seeking DEF Arrive, rec

(* The policy's word moves nothing, whether it orders the lanes or turns   *)
(* the request away.                                                       *)
LEMMA DecideTurns ==
  ASSUME Inv, NEW r \in Requests, Decide(r)
  PROVE  \E rec : Turn(r, rec)
<1> DEFINE rec == [req[r] EXCEPT !.pc = "hop"]
<1>1. req[r] \in Request /\ Sound(req[r]) /\ req[r].pc = "deciding"
  BY Known DEF Decide
<1>2. rec \in Request
  BY <1>1 DEF Request, Stage
<1>3. Sound(rec) /\ rec.pc = "hop"
  BY <1>1, <1>2 DEF Request, Sound, Tallied, Faulted, Billed, Placed, Waiting
<1>4. GoesTo(r, "hop") => Becomes(r, rec)
  BY DEF GoesTo, Becomes
<1> HIDE DEF rec
<1>5. QED BY <1>1, <1>2, <1>3, <1>4, Seeking, TurnedAway DEF Decide

\* What the search leaves as it was in a record.
Carries(rec, q) ==
  /\ rec.pool = q.pool /\ rec.unit = q.unit /\ rec.ended = q.ended /\ rec.bills = q.bills
  /\ rec.spoilt = q.spoilt /\ rec.sink = q.sink /\ rec.fate = q.fate /\ rec.marks = q.marks

(* A record that carries a sound one to another stage of the search is     *)
(* sound.                                                                  *)
LEMMA CarriedSound ==
  ASSUME NEW q, NEW rec, Sound(q), Carries(rec, q),
         q.pc \in {"sticky", "select", "admit", "parked"},
         rec.pc \in {"sticky", "select", "admit", "parked", "upstream", "exhausted"},
         rec.pc \in Placed => rec.lane \in Members[rec.pool]
  PROVE  Sound(rec)
<1>1. /\ q.pool \in Pools /\ ~q.unit /\ ~q.ended /\ q.bills = 0 /\ ~q.spoilt /\ q.sink
      /\ q.fate = "none" /\ q.marks = 0
  BY DEF Sound, Tallied, Waiting
<1>2. QED BY <1>1 DEF Carries, Sound, Tallied, Faulted, Billed, Placed, Waiting

(* The record of a request the breaker lets through.                       *)
LEMMA AdmittedType ==
  ASSUME NEW q \in Request, NEW l \in Lanes
  PROVE  /\ Admitted(q, l) \in Request /\ Carries(Admitted(q, l), q)
         /\ Admitted(q, l).pc = q.pc /\ Admitted(q, l).lane = l
         /\ cell[q.pool][l] = "due" => Admitted(q, l).won
BY DEF Request, Admitted, Carries

(* The same, at the stage it goes to.                                      *)
LEMMA StagedType ==
  ASSUME NEW q \in Request, NEW stage \in Stage
  PROVE  LET rec == [q EXCEPT !.pc = stage]
         IN  /\ rec \in Request /\ Carries(rec, q)
             /\ rec.pc = stage /\ rec.lane = q.lane /\ rec.won = q.won
BY DEF Request, Carries

(* The record of a request that has its permit and is sent.                *)
LEMMA PickedType ==
  ASSUME NEW q \in Request, q.lane \in Lanes
  PROVE  /\ Picked(q) \in Request /\ Carries(Picked(q), q)
         /\ Picked(q).pc = "upstream" /\ Picked(q).lane = q.lane /\ Picked(q).won = q.won
<1>1. q.hops + 1 \in Nat /\ "upstream" \in Stage
  BY DEF Request, Stage
<1>2. QED BY <1>1 DEF Request, Picked, Carries

(* A cell that is due starts its probe when a request is let through.      *)
LEMMA Admitting ==
  ASSUME Inv, NEW p \in Pools, NEW l \in Members[p], Admit(p, l)
  PROVE  /\ cell' \in [Pools -> [Lanes -> Phase]]
         /\ \A x \in Pools, y \in Lanes :
              cell'[x][y] = "probing" =>
                cell[x][y] = "probing" \/ (x = p /\ y = l /\ cell[p][l] = "due")
<1>1. cell \in [Pools -> [Lanes -> Phase]] /\ l \in Lanes
  BY DEF Inv, TypeOK, Members, Config
<1> DEFINE c == IF cell[p][l] = "due" THEN "probing" ELSE cell[p][l]
<1>2. c \in Phase /\ (c = "probing" => cell[p][l] \in {"due", "probing"})
  BY <1>1 DEF Phase
<1>3. cell' = [cell EXCEPT ![p][l] = c]
  BY <1>1 DEF Admit
<1> HIDE DEF c
<1>4. QED BY <1>1, <1>2, <1>3

(* A permit is taken by a request that had none.                           *)
LEMMA PermitTaken ==
  ASSUME Inv, NEW r \in Requests, NEW rec, NEW l \in Lanes, TakesPermit(l),
         \A x \in Lanes : ~Holds(req[r], x) /\ (Holds(rec, x) <=> x = l)
  PROVE  /\ free' \in [Lanes -> Nat]
         /\ \A x \in Lanes : free'[x] = free[x] + (IF Holds(req[r], x) THEN 1 ELSE 0)
                                                - (IF Holds(rec, x) THEN 1 ELSE 0)
BY Known DEF TakesPermit

(* A request out of hops goes on to its pool's exhaustion mode, and holds  *)
(* nothing.                                                                *)
LEMMA OutOfHopsTurns ==
  ASSUME Inv, NEW r \in Requests, OutOfHops(r)
  PROVE  \E rec : Turn(r, rec)
<1>1. "exhausted" \in Stage
  BY DEF Stage
<1>2. QED BY <1>1, Known, LookingType, LookingSound, Seeking DEF OutOfHops

(* A request out of time is answered, and holds nothing.                   *)
LEMMA OutOfTimeTurns ==
  ASSUME Inv, NEW r \in Requests, OutOfTime(r)
  PROVE  \E rec : Turn(r, rec)
BY TurnedAway DEF OutOfTime

(* A request with no sticky lane to go to starts to select one.            *)
LEMMA NoStickyTurns ==
  ASSUME Inv, NEW r \in Requests, NoSticky(r)
  PROVE  \E rec : Turn(r, rec)
<1>1. "select" \in Stage
  BY DEF Stage
<1>2. QED BY <1>1, Known, LookingType, LookingSound, Seeking DEF NoSticky

(* A sticky lane that is due is probed for the request it lets through.    *)
LEMMA TryStickyTurns ==
  ASSUME Inv, NEW r \in Requests, TrySticky(r)
  PROVE  \E rec : Turn(r, rec)
<1> DEFINE q == req[r]
           l == Sticky(r)
           s == Looking(q)
           k == [s EXCEPT !.pc = "select"]
           m == Admitted(s, l)
           rec == [m EXCEPT !.pc = "sticky"]
<1>1. /\ q \in Request /\ Sound(q) /\ q.pc = "hop" /\ q.pool \in Pools
      /\ l \in Members[q.pool] /\ l \in Lanes
  BY Known DEF TrySticky, StickyEligible
<1>2. "select" \in Stage /\ "sticky" \in Stage
  BY DEF Stage
<1>3. s \in Request /\ k \in Request /\ Sound(k) /\ k.pc = "select"
  BY <1>1, <1>2, LookingType, LookingSound
<1>4. s.pool = q.pool
  BY <1>1 DEF Looking, Request
<1>5. Admit(q.pool, l) /\ Becomes(r, rec) /\ UNCHANGED <<free, budget, kept>>
  BY DEF TrySticky
<1> HIDE DEF s
<1>6. Carries(k, s)
  BY <1>3 DEF Carries, Request
<1> HIDE DEF k, l
<1>7. /\ rec \in Request /\ rec.pc = "sticky" /\ rec.lane = l /\ Carries(rec, s)
      /\ cell[s.pool][l] = "due" => rec.won
  <2>1. m \in Request /\ Carries(m, s) /\ m.lane = l /\ (cell[s.pool][l] = "due" => m.won)
    BY <1>1, <1>3, AdmittedType
  <2> HIDE DEF m
  <2>2. rec \in Request /\ Carries(rec, m) /\ rec.pc = "sticky" /\ rec.lane = m.lane /\ rec.won = m.won
    BY <1>2, <2>1, StagedType
  <2>3. QED BY <2>1, <2>2 DEF Carries
<1> HIDE DEF rec
<1>8. Carries(rec, k) /\ rec.pool = q.pool
  BY <1>4, <1>6, <1>7 DEF Carries
<1>9. Sound(rec) /\ ~rec.unit
  BY <1>1, <1>3, <1>7, <1>8, CarriedSound DEF Sound
<1>10. \A x \in Lanes : ~Holds(rec, x) /\ ~Holds(q, x) /\ ~Spends(rec, x) /\ ~Spends(q, x)
  BY <1>1, <1>7, <1>9 DEF Holds, Spends, Sound
<1>11. /\ free' \in [Lanes -> Nat]
       /\ \A x \in Lanes : free'[x] = free[x] + (IF Holds(q, x) THEN 1 ELSE 0)
                                              - (IF Holds(rec, x) THEN 1 ELSE 0)
  BY <1>5, <1>10, Known
<1>12. \A x \in Pools, y \in Lanes : ~Probes(q, x, y)
  BY <1>1 DEF Probes
<1>13. cell[q.pool][l] = "due" => Probes(rec, q.pool, l)
  BY <1>4, <1>7, <1>8 DEF Probes
<1>14. /\ cell' \in [Pools -> [Lanes -> Phase]]
       /\ \A x \in Pools, y \in Lanes :
            cell'[x][y] = "probing" => cell[x][y] = "probing" \/ Probes(rec, x, y)
  BY <1>1, <1>5, <1>13, Admitting
<1>15. QED
  BY <1>5, <1>7, <1>9, <1>10, <1>11, <1>12, <1>14, UnitUntouched DEF Turn, Becomes

(* A wait that ends without a permit gives the probe back, if there is one. *)
LEMMA WaitEnds ==
  ASSUME Inv, NEW r \in Requests, NEW rec \in Request, Sound(rec), Becomes(r, rec),
         req[r].pc \in {"sticky", "parked"}, rec.pc \in {"select", "exhausted", "done"},
         Settles(req[r].pool, req[r].lane), UNCHANGED <<free, budget, kept>>
  PROVE  Turn(r, rec)
<1>1. \A l \in Lanes : ~Holds(rec, l) /\ ~Holds(req[r], l) /\ ~Spends(rec, l) /\ ~Spends(req[r], l)
  BY Known DEF Holds, Spends, Sound
<1>2. \A x \in Pools, y \in Lanes :
        cell'[x][y] = "probing" => cell[x][y] = "probing" /\ ~Probes(req[r], x, y)
  BY DEF Settles, Probes
<1>3. /\ free' \in [Lanes -> Nat]
      /\ \A x \in Lanes : free'[x] = free[x] + (IF Holds(req[r], x) THEN 1 ELSE 0)
                                             - (IF Holds(rec, x) THEN 1 ELSE 0)
  BY <1>1, Known
<1>4. QED BY <1>1, <1>2, <1>3, UnitUntouched DEF Turn, Becomes, Settles

(* A request that gets its permit is sent, and keeps the probe it won.     *)
LEMMA Sending ==
  ASSUME Inv, NEW r \in Requests, NEW rec \in Request, Sound(rec), Becomes(r, rec),
         req[r].pc \in {"sticky", "admit", "parked", "exhausted"}, rec.pc = "upstream",
         TakesPermit(rec.lane), UNCHANGED <<budget, kept>>,
         cell' \in [Pools -> [Lanes -> Phase]],
         \A x \in Pools, y \in Lanes :
           cell'[x][y] = "probing" => /\ cell[x][y] = "probing" \/ Probes(rec, x, y)
                                      /\ Probes(req[r], x, y) => Probes(rec, x, y)
  PROVE  Turn(r, rec)
<1>1. \A l \in Lanes : /\ ~Holds(req[r], l) /\ ~Spends(rec, l) /\ ~Spends(req[r], l)
                       /\ Holds(rec, l) <=> l = rec.lane
  BY Known DEF Holds, Spends, Sound
<1>2. rec.lane \in Lanes
  BY Known DEF Sound, Placed
<1>3. /\ free' \in [Lanes -> Nat]
      /\ \A x \in Lanes : free'[x] = free[x] + (IF Holds(req[r], x) THEN 1 ELSE 0)
                                             - (IF Holds(rec, x) THEN 1 ELSE 0)
  BY <1>1, <1>2, PermitTaken
<1>4. QED BY <1>1, <1>3, UnitUntouched DEF Turn, Becomes

(* A sticky lane without a permit gets back the probe it gave.             *)
LEMMA StickyFullTurns ==
  ASSUME Inv, NEW r \in Requests, StickyFull(r)
  PROVE  \E rec : Turn(r, rec)
<1> DEFINE rec == [Looking(req[r]) EXCEPT !.pc = "select"]
<1>1. /\ req[r] \in Request /\ Sound(req[r]) /\ req[r].pc = "sticky" /\ "select" \in Stage
      /\ req[r].pool \in Pools /\ req[r].lane \in Members[req[r].pool]
  BY Known DEF StickyFull, Placed, Stage
<1>2. rec \in Request /\ Sound(rec) /\ rec.pc = "select"
  BY <1>1, LookingType, LookingSound
<1>3. Settles(req[r].pool, req[r].lane)
  BY <1>1, Settling DEF StickyFull
<1>4. Becomes(r, rec) /\ UNCHANGED <<free, budget, kept>>
  BY DEF StickyFull
<1> HIDE DEF rec
<1>5. QED BY <1>1, <1>2, <1>3, <1>4, WaitEnds

(* A wait for a permit that the deadline ends gives the probe back.        *)
LEMMA GiveUpWaitingTurns ==
  ASSUME Inv, NEW r \in Requests, GiveUpWaiting(r)
  PROVE  \E rec : Turn(r, rec)
<1> DEFINE rec == [Looking(req[r]) EXCEPT !.pc = "exhausted"]
<1>1. /\ req[r] \in Request /\ Sound(req[r]) /\ req[r].pc = "parked" /\ "exhausted" \in Stage
      /\ req[r].pool \in Pools /\ req[r].lane \in Members[req[r].pool]
  BY Known DEF GiveUpWaiting, Placed, Stage
<1>2. rec \in Request /\ Sound(rec) /\ rec.pc = "exhausted"
  BY <1>1, LookingType, LookingSound
<1>3. Settles(req[r].pool, req[r].lane)
  BY <1>1, Settling DEF GiveUpWaiting
<1>4. Becomes(r, rec) /\ UNCHANGED <<free, budget, kept>>
  BY DEF GiveUpWaiting
<1> HIDE DEF rec
<1>5. QED BY <1>1, <1>2, <1>3, <1>4, WaitEnds

(* Selection only names a lane, or finds none.                             *)
LEMMA SelectTurns ==
  ASSUME Inv, NEW r \in Requests, Select(r)
  PROVE  \E rec : Turn(r, rec)
<1>1. /\ req[r] \in Request /\ Sound(req[r]) /\ req[r].pc = "select" /\ req[r].pool \in Pools
      /\ {"admit", "exhausted"} \subseteq Stage /\ UNCHANGED <<cell, free, budget, kept>>
  BY Known DEF Select, Stage
<1>2. ASSUME NEW l \in Choices(req[r]), Becomes(r, [req[r] EXCEPT !.pc = "admit", !.lane = l])
      PROVE  \E rec : Turn(r, rec)
  <2> DEFINE rec == [req[r] EXCEPT !.pc = "admit", !.lane = l]
  <2>1. l \in Members[req[r].pool] /\ l \in Lanes
    BY <1>1, Known DEF Choices, Candidates
  <2>2. /\ rec \in Request /\ Carries(rec, req[r]) /\ rec.pc = "admit" /\ rec.lane = l
        /\ rec.pool = req[r].pool
    BY <1>1, <2>1 DEF Request, Carries
  <2>3. Becomes(r, rec)
    BY <1>2
  <2> HIDE DEF rec
  <2>4. Sound(rec)
    BY <1>1, <2>1, <2>2, CarriedSound
  <2>5. QED BY <1>1, <2>2, <2>3, <2>4, Seeking
<1>3. ASSUME GoesTo(r, "exhausted") PROVE \E rec : Turn(r, rec)
  <2> DEFINE rec == [req[r] EXCEPT !.pc = "exhausted"]
  <2>1. rec \in Request /\ Carries(rec, req[r]) /\ rec.pc = "exhausted"
    BY <1>1, StagedType
  <2>2. Becomes(r, rec)
    BY <1>3 DEF GoesTo, Becomes
  <2> HIDE DEF rec
  <2>3. Sound(rec)
    BY <1>1, <2>1, CarriedSound DEF Placed
  <2>4. QED BY <1>1, <2>1, <2>2, <2>3, Seeking
<1>4. QED BY <1>2, <1>3 DEF Select

(* A request that loses its lane to another takes nothing from it.         *)
LEMMA LoseRaceTurns ==
  ASSUME Inv, NEW r \in Requests, LoseRace(r)
  PROVE  \E rec : Turn(r, rec)
<1> DEFINE rec == [req[r] EXCEPT !.pc = "select", !.lane = NoLane, !.skipped = @ \cup {req[r].lane}]
<1>1. /\ req[r] \in Request /\ Sound(req[r]) /\ req[r].pc = "admit" /\ req[r].lane \in Lanes
      /\ "select" \in Stage /\ UNCHANGED <<cell, free, budget, kept>>
  BY Known DEF LoseRace, Stage, Placed
<1>2. rec \in Request /\ Carries(rec, req[r]) /\ rec.pc = "select"
  BY <1>1 DEF Request, Carries
<1>3. Becomes(r, rec)
  BY DEF LoseRace, Becomes
<1> HIDE DEF rec
<1>4. Sound(rec)
  BY <1>1, <1>2, CarriedSound DEF Placed
<1>5. QED BY <1>1, <1>2, <1>3, <1>4, Seeking

(* A request that gets the permit it waited for keeps the probe it won.    *)
LEMMA TakePermitTurns ==
  ASSUME Inv, NEW r \in Requests, TakePermit(r)
  PROVE  \E rec : Turn(r, rec)
<1> DEFINE rec == Picked(req[r])
<1>1. /\ req[r] \in Request /\ Sound(req[r]) /\ req[r].pc \in {"sticky", "parked"}
      /\ req[r].pool \in Pools /\ req[r].lane \in Members[req[r].pool] /\ req[r].lane \in Lanes
      /\ cell \in [Pools -> [Lanes -> Phase]]
  BY Known DEF TakePermit, Placed
<1>2. /\ rec \in Request /\ Carries(rec, req[r]) /\ rec.pc = "upstream"
      /\ rec.lane = req[r].lane /\ rec.won = req[r].won
  BY <1>1, PickedType
<1>3. TakesPermit(req[r].lane) /\ Becomes(r, rec) /\ UNCHANGED <<cell, budget, kept>>
  BY DEF TakePermit
<1> HIDE DEF rec
<1>4. Sound(rec)
  BY <1>1, <1>2, CarriedSound DEF Carries
<1>5. \A x \in Pools, y \in Lanes : Probes(req[r], x, y) => Probes(rec, x, y)
  BY <1>2 DEF Probes, Carries
<1>6. QED BY <1>1, <1>2, <1>3, <1>4, <1>5, Sending

(* A request let through takes the probe, and the permit if there is one.  *)
LEMMA AdmitChosenTurns ==
  ASSUME Inv, NEW r \in Requests, AdmitChosen(r)
  PROVE  \E rec : Turn(r, rec)
<1> DEFINE q == req[r]
           m == Admitted(q, q.lane)
           rec == Picked(m)
           wait == [m EXCEPT !.pc = "parked"]
<1>1. /\ q \in Request /\ Sound(q) /\ q.pc = "admit" /\ q.pool \in Pools
      /\ q.lane \in Members[q.pool] /\ q.lane \in Lanes
      /\ "parked" \in Stage
  BY Known DEF AdmitChosen, Placed, Stage
<1>2. Admit(q.pool, q.lane) /\ UNCHANGED <<budget, kept>>
  BY DEF AdmitChosen
<1>3. /\ m \in Request /\ Carries(m, q) /\ m.pc = "admit" /\ m.lane = q.lane
      /\ cell[q.pool][q.lane] = "due" => m.won
  BY <1>1, AdmittedType
<1>4. /\ cell' \in [Pools -> [Lanes -> Phase]]
      /\ \A x \in Pools, y \in Lanes :
           cell'[x][y] = "probing" =>
             cell[x][y] = "probing" \/ (x = q.pool /\ y = q.lane /\ cell[q.pool][q.lane] = "due")
  BY <1>1, <1>2, Admitting
<1>5. \A x \in Pools, y \in Lanes : ~Probes(q, x, y)
  BY <1>1 DEF Probes
<1>6. \/ TakesPermit(q.lane) /\ Becomes(r, rec)
      \/ free' = free /\ Becomes(r, wait)
  BY DEF AdmitChosen
<1> HIDE DEF m
<1>7. ASSUME TakesPermit(q.lane), Becomes(r, rec) PROVE Turn(r, rec)
  <2>1. /\ rec \in Request /\ Carries(rec, m)
        /\ rec.pc = "upstream" /\ rec.lane = q.lane /\ rec.won = m.won
    BY <1>1, <1>3, PickedType
  <2> HIDE DEF rec
  <2>2. Carries(rec, q) /\ rec.pool = q.pool
    BY <1>3, <2>1 DEF Carries
  <2>3. Sound(rec)
    BY <1>1, <2>1, <2>2, CarriedSound
  <2>4. cell[q.pool][q.lane] = "due" => Probes(rec, q.pool, q.lane)
    BY <1>3, <2>1, <2>2 DEF Probes
  <2>5. QED BY <1>1, <1>2, <1>4, <1>5, <1>7, <2>1, <2>3, <2>4, Sending
<1>8. ASSUME free' = free, Becomes(r, wait) PROVE Turn(r, wait)
  <2>1. /\ wait \in Request /\ Carries(wait, m)
        /\ wait.pc = "parked" /\ wait.lane = q.lane /\ wait.won = m.won
    BY <1>1, <1>3, StagedType
  <2> HIDE DEF wait
  <2>2. Carries(wait, q) /\ wait.pool = q.pool
    BY <1>3, <2>1 DEF Carries
  <2>3. Sound(wait)
    BY <1>1, <2>1, <2>2, CarriedSound
  <2>4. cell[q.pool][q.lane] = "due" => Probes(wait, q.pool, q.lane)
    BY <1>3, <2>1, <2>2 DEF Probes
  <2>5. \A x \in Lanes : ~Holds(wait, x) /\ ~Holds(q, x) /\ ~Spends(wait, x) /\ ~Spends(q, x)
    BY <1>1, <2>1, <2>3 DEF Holds, Spends, Sound
  <2>6. /\ free' \in [Lanes -> Nat]
        /\ \A x \in Lanes : free'[x] = free[x] + (IF Holds(q, x) THEN 1 ELSE 0)
                                               - (IF Holds(wait, x) THEN 1 ELSE 0)
    BY <1>8, <2>5, Known
  <2>7. QED
    BY <1>2, <1>4, <1>5, <1>8, <2>1, <2>3, <2>4, <2>5, <2>6, UnitUntouched DEF Turn, Becomes
<1>9. QED BY <1>6, <1>7, <1>8

(* A pool that ends on a 503 answers a request that holds nothing.         *)
LEMMA Status503Turns ==
  ASSUME Inv, NEW r \in Requests, Status503(r)
  PROVE  \E rec : Turn(r, rec)
BY TurnedAway DEF Status503

(* A fallback pool starts a new search, or ends the request in a ring or   *)
(* out of time.                                                            *)
LEMMA FallbackTurns ==
  ASSUME Inv, NEW r \in Requests, Fallback(r)
  PROVE  \E rec : Turn(r, rec)
<1> DEFINE q == req[r]
           s == Looking(q)
           seen == (q.visited \cup {q.pool}) \cup {Mode(q)}
           k == [s EXCEPT !.pc = "hop"]
           rec == [s EXCEPT !.pc = "hop", !.path = "fallback", !.pool = Mode(q), !.visited = seen]
<1>1. /\ q \in Request /\ Sound(q) /\ q.pc = "exhausted" /\ q.pool \in Pools /\ Mode(q) \in Pools
      /\ "hop" \in Stage /\ "fallback" \in Path /\ UNCHANGED <<cell, free, budget, kept>>
  BY Known DEF Fallback, Stage, Path
<1>2. Becomes(r, Answered(q, "unavailable")) \/ Becomes(r, rec)
  BY DEF Fallback
<1>3. s \in Request /\ k \in Request /\ Sound(k) /\ k.pc = "hop"
  BY <1>1, LookingType, LookingSound
<1>4. seen \in SUBSET Pools
  BY <1>1 DEF Request
<1> HIDE DEF s, seen
<1>5. Mode(q) \in Pools \cup {NoPool}
  BY <1>1
<1>6. rec \in Request
  BY <1>1, <1>3, <1>4, <1>5 DEF Request
<1>7. /\ rec.pc = "hop" /\ rec.pool = Mode(q) /\ rec.unit = k.unit /\ rec.ended = k.ended
      /\ rec.bills = k.bills /\ rec.spoilt = k.spoilt /\ rec.sink = k.sink /\ rec.fate = k.fate
      /\ rec.marks = k.marks
  BY <1>3 DEF Request
<1> HIDE DEF k, rec
<1>8. Sound(rec)
  BY <1>1, <1>3, <1>7 DEF Sound, Tallied, Faulted, Billed, Placed, Waiting
<1>9. QED BY <1>1, <1>2, <1>6, <1>7, <1>8, Seeking, TurnedAway

(* The least bad lane is sent a request that has its permit and no probe.  *)
LEMMA LeastBadTurns ==
  ASSUME Inv, NEW r \in Requests, LeastBad(r)
  PROVE  \E rec : Turn(r, rec)
<1>1. /\ req[r] \in Request /\ Sound(req[r]) /\ req[r].pc = "exhausted" /\ req[r].pool \in Pools
      /\ {"upstream"} \subseteq Stage /\ "least_bad" \in Path /\ UNCHANGED <<cell, budget, kept>>
      /\ cell \in [Pools -> [Lanes -> Phase]]
  BY Known DEF LeastBad, Stage, Path
<1>2. ASSUME NEW l \in Soonest(req[r].pool), TakesPermit(l),
             Becomes(r, [Idle EXCEPT !.pc = "upstream", !.path = "least_bad",
                                     !.pool = req[r].pool, !.lane = l])
      PROVE  \E rec : Turn(r, rec)
  <2> DEFINE rec == [Idle EXCEPT !.pc = "upstream", !.path = "least_bad",
                                 !.pool = req[r].pool, !.lane = l]
  <2>1. l \in Members[req[r].pool] /\ l \in Lanes
    BY <1>1, Known DEF Soonest
  <2>2. rec \in Request
    BY <1>1, <2>1, IdleType DEF Request
  <2>3. rec.pc = "upstream" /\ rec.lane = l /\ Sound(rec)
    BY <1>1, <2>1 DEF Idle, Sound, Tallied, Faulted, Billed, Placed, Waiting
  <2>4. Becomes(r, rec)
    BY <1>2
  <2>5. \A x \in Pools, y \in Lanes : ~Probes(req[r], x, y)
    BY <1>1 DEF Probes
  <2> HIDE DEF rec
  <2>6. QED BY <1>1, <1>2, <2>2, <2>3, <2>4, <2>5, Sending
<1>3. ASSUME Becomes(r, Answered(req[r], "unavailable")), free' = free
      PROVE  \E rec : Turn(r, rec)
  BY <1>1, <1>3, TurnedAway
<1>4. QED BY <1>2, <1>3 DEF LeastBad

-----------------------------------------------------------------------------
(* What a response that is not a 2xx is taken for.                         *)

(* Every response has a status class, and a 5xx is never the caller's      *)
(* oversized request, whatever its code, its type and error_map say.       *)
LEMMA Classed ==
  ASSUME NEW l \in Lanes, NEW raw \in Errors
  PROVE  /\ Class(raw, ErrorMap[l]) \in StatusClass
         /\ Class(raw, ErrorMap[l]) = "context_length" => raw.status \notin 500 .. 599
<1> DEFINE map == ErrorMap[l]
<1>1. \A s \in {raw.code, raw.type} : Honoured(raw, s, map) => map[s] \in StatusClass
  BY DispatchAssumption DEF Honoured
<1>2. ByStatus(raw.status) \in StatusClass \ {"context_length"}
  BY DEF ByStatus, StatusClass
<1>3. \A s \in {raw.code, raw.type} :
        Honoured(raw, s, map) /\ map[s] = "context_length" => raw.status \notin 500 .. 599
  BY DEF Honoured, Excusable
<1>4. "context_length" \in StatusClass
  BY DEF StatusClass
<1> HIDE DEF map
<1>5. Class(raw, map) \in StatusClass
  BY <1>1, <1>2, <1>4 DEF Class
<1>6. Class(raw, map) = "context_length" => raw.status \notin 500 .. 599
  BY <1>2, <1>3 DEF Class
<1>7. QED BY <1>5, <1>6 DEF map

(* Failover's disposition of a response agrees with whose fault it is.     *)
LEMMA Blamed ==
  ASSUME NEW q, q.lane \in Lanes, NEW raw \in Errors
  PROVE  /\ CallersKey(raw) \/ DisposedOf(q, raw) = "client_fault" => Blame(q, raw) = "callers"
         /\ ~CallersKey(raw) /\ DisposedOf(q, raw) \in {"transient", "hard_down"}
              => Blame(q, raw) = "theirs"
         /\ ~CallersKey(raw) /\ DisposedOf(q, raw) = "context_length"
              => Blame(q, raw) = "too_large"
<1> DEFINE class == ClassOf(q, raw)
<1>1. class \in StatusClass /\ (class = "context_length" => raw.status \notin 500 .. 599)
  BY Classed DEF ClassOf
<1> HIDE DEF class
<1>2. /\ Disposed(class) = "client_fault" => class = "client_error"
      /\ Disposed(class) = "context_length" => class = "context_length"
      /\ Disposed(class) \in {"transient", "hard_down"} =>
           class \notin {"client_error", "context_length"}
  BY <1>1 DEF Disposed, StatusClass
<1>3. QED BY <1>1, <1>2 DEF Blame, DisposedOf, class

-----------------------------------------------------------------------------
(* The actions that hear from the upstream.                                *)

(* An attempt that ends with an answer.                                    *)
LEMMA Answering ==
  ASSUME Inv, NEW r \in Requests, NEW t \in Request, NEW reply \in Reply \ {"complete"},
         Becomes(r, Answered(t, reply)), req[r].pc = "upstream", t.bills = 0, Faulted(t),
         Settles(req[r].pool, req[r].lane), FreesPermit(req[r].lane), UNCHANGED <<budget, kept>>
  PROVE  \E rec : Turn(r, rec)
<1>1. Answered(t, reply) \in Request /\ Answered(t, reply).pc = "done"
  BY AnsweredType
<1>2. Sound(Answered(t, reply))
  BY AnsweredSound
<1>3. QED BY <1>1, <1>2, AttemptEnds

(* An attempt that sends the request to its next hop.                      *)
LEMMA Retrying ==
  ASSUME Inv, NEW r \in Requests, NEW t \in Request, Becomes(r, NextHop(t)),
         req[r].pc = "upstream", t.pool = req[r].pool, t.unit = req[r].unit,
         t.ended = req[r].ended, t.bills = req[r].bills, t.spoilt = req[r].spoilt,
         t.sink = req[r].sink, Faulted(t),
         Settles(req[r].pool, req[r].lane), FreesPermit(req[r].lane), UNCHANGED <<budget, kept>>
  PROVE  \E rec : Turn(r, rec)
<1> DEFINE rec == NextHop(t)
<1>1. rec \in Request
  BY DEF NextHop, Request, Stage
<1>2. /\ rec.pc = "hop" /\ rec.pool = t.pool /\ rec.unit = t.unit /\ rec.ended = t.ended
      /\ rec.bills = t.bills /\ rec.spoilt = t.spoilt /\ rec.sink = t.sink /\ rec.fate = t.fate
      /\ rec.marks = t.marks
  BY DEF NextHop, Request
<1>3. /\ req[r].pool \in Pools /\ ~req[r].unit /\ ~req[r].ended /\ req[r].bills = 0
      /\ ~req[r].spoilt /\ req[r].sink
  BY Known DEF Sound, Tallied, Placed
<1> HIDE DEF rec
<1>4. Sound(rec)
  BY <1>2, <1>3 DEF Sound, Tallied, Faulted, Billed, Placed, Waiting
<1>5. QED BY <1>1, <1>2, <1>4, AttemptEnds DEF rec

(* What a request brings to its attempt.                                   *)
LEMMA Attempt ==
  ASSUME Inv, NEW r \in Requests, req[r].pc = "upstream"
  PROVE  /\ req[r] \in Request /\ req[r].pool \in Pools
         /\ req[r].lane \in Members[req[r].pool] /\ req[r].lane \in Lanes
         /\ req[r].fate = "none" /\ req[r].marks = 0 /\ req[r].bills = 0
         /\ Faulted(req[r])
BY Known DEF Sound, Tallied, Placed, Waiting

(* A request that cannot be translated gives back its permit and its       *)
(* probe.                                                                  *)
LEMMA UntranslatableTurns ==
  ASSUME Inv, NEW r \in Requests, Untranslatable(r)
  PROVE  \E rec : Turn(r, rec)
<1>1. req[r].pc = "upstream" /\ "error" \in Reply \ {"complete"}
  BY DEF Untranslatable, Reply
<1>2. Settles(req[r].pool, req[r].lane)
  BY <1>1, Attempt, Settling DEF Untranslatable
<1>3. QED BY <1>1, <1>2, Attempt, Answering DEF Untranslatable

(* An attempt without a response counts one failure, and ends.             *)
LEMMA LostTurns ==
  ASSUME Inv, NEW r \in Requests, Lost(r)
  PROVE  \E rec : Turn(r, rec)
<1> DEFINE t == [req[r] EXCEPT !.fate = "theirs", !.marks = 1]
<1>1. req[r].pc = "upstream" /\ "unavailable" \in Reply \ {"complete"} /\ "theirs" \in Fate
  BY DEF Lost, Reply, Fate
<1>2. req[r].marks + 1 = 1 /\ req[r].bills = 0 /\ req[r] \in Request
  BY <1>1, Attempt
<1>3. Settles(req[r].pool, req[r].lane)
  BY <1>1, Attempt, Settling DEF Lost
<1>4. /\ t \in Request /\ t.fate = "theirs" /\ t.marks = 1
      /\ t.pool = req[r].pool /\ t.unit = req[r].unit /\ t.ended = req[r].ended
      /\ t.bills = req[r].bills /\ t.spoilt = req[r].spoilt /\ t.sink = req[r].sink
  BY <1>1, <1>2 DEF Request
<1>5. Becomes(r, Answered(t, "unavailable")) \/ Becomes(r, NextHop(t))
  BY <1>2 DEF Lost
<1>6. FreesPermit(req[r].lane) /\ UNCHANGED <<budget, kept>>
  BY DEF Lost
<1> HIDE DEF t
<1>7. Faulted(t)
  BY <1>4 DEF Faulted
<1>8. QED BY <1>1, <1>2, <1>3, <1>4, <1>5, <1>6, <1>7, Answering, Retrying

(* A refusal that is the caller's fault counts none.                       *)
LEMMA RefuseCallerTurns ==
  ASSUME Inv, NEW r \in Requests, RefuseCaller(r)
  PROVE  \E rec : Turn(r, rec)
<1>1. PICK raw \in Errors :
        /\ CallersKey(raw) \/ DisposedOf(req[r], raw) = "client_fault"
        /\ Becomes(r, Answered([req[r] EXCEPT !.fate = Blame(req[r], raw)], "relayed"))
  BY DEF RefuseCaller
<1> DEFINE t == [req[r] EXCEPT !.fate = "callers"]
<1>2. req[r].pc = "upstream" /\ "relayed" \in Reply \ {"complete"} /\ "callers" \in Fate
  BY DEF RefuseCaller, Refusable, Reply, Fate
<1>3. Blame(req[r], raw) = "callers"
  BY <1>1, <1>2, Attempt, Blamed
<1>4. t \in Request /\ t.bills = 0 /\ t.fate = "callers" /\ t.marks = 0
  BY <1>2, Attempt DEF Request
<1>5. Settles(req[r].pool, req[r].lane)
  BY <1>2, Attempt, Settling DEF RefuseCaller
<1>6. Becomes(r, Answered(t, "relayed")) /\ FreesPermit(req[r].lane) /\ UNCHANGED <<budget, kept>>
  BY <1>1, <1>3 DEF RefuseCaller
<1> HIDE DEF t
<1>7. QED BY <1>2, <1>4, <1>5, <1>6, Answering DEF Faulted

(* A failure that is the upstream's is counted once, whether the request   *)
(* goes on or is answered.                                                 *)
LEMMA Failing ==
  ASSUME Inv, NEW r \in Requests, NEW raw \in Errors,
         ~CallersKey(raw), DisposedOf(req[r], raw) \in {"transient", "hard_down"},
         req[r].pc = "upstream",
         LET t == [req[r] EXCEPT !.fate = Blame(req[r], raw), !.marks = @ + 1]
         IN  Becomes(r, NextHop(t)) \/ Becomes(r, Answered(t, "error")),
         Settles(req[r].pool, req[r].lane), FreesPermit(req[r].lane), UNCHANGED <<budget, kept>>
  PROVE  \E rec : Turn(r, rec)
<1> DEFINE t == [req[r] EXCEPT !.fate = "theirs", !.marks = 1]
<1>1. "error" \in Reply \ {"complete"} /\ "theirs" \in Fate
  BY DEF Reply, Fate
<1>2. /\ Blame(req[r], raw) = "theirs" /\ req[r].marks + 1 = 1
      /\ req[r] \in Request /\ req[r].bills = 0
  BY Attempt, Blamed
<1>3. /\ t \in Request /\ t.fate = "theirs" /\ t.marks = 1
      /\ t.pool = req[r].pool /\ t.unit = req[r].unit /\ t.ended = req[r].ended
      /\ t.bills = req[r].bills /\ t.spoilt = req[r].spoilt /\ t.sink = req[r].sink
      /\ t.bills = 0
  BY <1>1, <1>2 DEF Request
<1>4. Becomes(r, NextHop(t)) \/ Becomes(r, Answered(t, "error"))
  BY <1>2
<1> HIDE DEF t
<1>5. Faulted(t)
  BY <1>3 DEF Faulted
<1>6. QED BY <1>1, <1>3, <1>4, <1>5, Answering, Retrying

(* A transient refusal counts one failure, and ends the attempt.           *)
LEMMA RefuseTransientTurns ==
  ASSUME Inv, NEW r \in Requests, RefuseTransient(r)
  PROVE  \E rec : Turn(r, rec)
<1>1. req[r].pc = "upstream"
  BY DEF RefuseTransient, Refusable
<1>2. Settles(req[r].pool, req[r].lane)
  BY <1>1, Attempt, Settling DEF RefuseTransient
<1>3. QED BY <1>1, <1>2, Failing DEF RefuseTransient

(* A hard-down counts one failure, and no cell of the lane stays in a      *)
(* probe.                                                                  *)
LEMMA RefuseHardDownTurns ==
  ASSUME Inv, NEW r \in Requests, RefuseHardDown(r)
  PROVE  \E rec : Turn(r, rec)
<1>1. req[r].pc = "upstream"
  BY DEF RefuseHardDown, Refusable
<1>2. Settles(req[r].pool, req[r].lane)
  BY <1>1, Attempt, Settling DEF RefuseHardDown
<1>3. QED BY <1>1, <1>2, Failing DEF RefuseHardDown

(* A context that is too long counts no failure.                           *)
LEMMA RefuseOversizedTurns ==
  ASSUME Inv, NEW r \in Requests, RefuseOversized(r)
  PROVE  \E rec : Turn(r, rec)
<1> DEFINE q == req[r]
           out == q.excluded \cup NoLarger(q)
           most == AtLeast(q.oversize, ContextMax[q.lane])
           t == [q EXCEPT !.excluded = out, !.fate = "too_large", !.oversize = most]
<1>1. /\ q.pc = "upstream" /\ q \in Request /\ q.lane \in Lanes /\ q.pool \in Pools
      /\ q.marks = 0 /\ "too_large" \in Fate
  BY Attempt DEF RefuseOversized, Refusable, Fate
<1>2. PICK raw \in Errors :
        /\ ~CallersKey(raw) /\ DisposedOf(q, raw) = "context_length"
        /\ Becomes(r, NextHop([q EXCEPT !.excluded = out, !.fate = Blame(q, raw), !.oversize = most]))
  BY DEF RefuseOversized
<1>3. Blame(q, raw) = "too_large"
  BY <1>1, <1>2, Blamed
<1>4. out \in SUBSET Lanes /\ most \in Nat
  BY <1>1, Known, DispatchAssumption DEF Request, NoLarger, AtLeast
<1>5. Becomes(r, NextHop(t))
  BY <1>2, <1>3
<1> HIDE DEF out, most
<1>6. /\ t \in Request /\ t.fate = "too_large" /\ t.marks = 0
      /\ t.pool = q.pool /\ t.unit = q.unit /\ t.ended = q.ended
      /\ t.bills = q.bills /\ t.spoilt = q.spoilt /\ t.sink = q.sink
  BY <1>1, <1>4 DEF Request
<1> HIDE DEF t
<1>7. Faulted(t)
  BY <1>6 DEF Faulted
<1>8. Settles(q.pool, q.lane)
  BY <1>1, Attempt, Settling DEF RefuseOversized
<1>9. FreesPermit(q.lane) /\ UNCHANGED <<budget, kept>>
  BY DEF RefuseOversized
<1>10. QED BY <1>1, <1>5, <1>6, <1>7, <1>8, <1>9, Retrying

(* A degraded path counts one failure and relays the response.             *)
LEMMA RefuseDegradedTurns ==
  ASSUME Inv, NEW r \in Requests, RefuseDegraded(r)
  PROVE  \E rec : Turn(r, rec)
<1> DEFINE t == [req[r] EXCEPT !.marks = 1]
<1>1. req[r].pc = "upstream" /\ "relayed" \in Reply \ {"complete"}
  BY DEF RefuseDegraded, Reply
<1>2. /\ req[r].marks + 1 = 1 /\ t \in Request /\ t.bills = 0 /\ t.fate = "none" /\ t.marks = 1
  BY <1>1, Attempt DEF Request
<1>3. Becomes(r, Answered(t, "relayed")) /\ FreesPermit(req[r].lane) /\ UNCHANGED <<budget, kept>>
  BY <1>2 DEF RefuseDegraded
<1> HIDE DEF t
<1>4. Settles(req[r].pool, req[r].lane)
  BY <1>1, Attempt, Settling DEF RefuseDegraded
<1>5. QED BY <1>1, <1>2, <1>3, <1>4, Answering DEF Faulted

(* A 2xx settles the probe, keeps the permit, and takes a unit only where  *)
(* one is left.                                                            *)
LEMMA AcceptTurns ==
  ASSUME Inv, NEW r \in Requests, Accept(r)
  PROVE  \E rec : Turn(r, rec)
<1> DEFINE q == req[r]
           spends == Limited(q.lane) /\ budget[q.lane] > 0
           took(stage, sse) ==
             [q EXCEPT !.pc = stage, !.fate = "taken", !.unit = spends, !.sse = sse,
                       !.won = FALSE, !.late = FALSE, !.excluded = {}, !.path = "main",
                       !.visited = {}, !.hops = 0, !.tried = {}, !.oversize = 0]
<1>1. PICK sse \in BOOLEAN, stage \in {"buffering", "streaming"} : Becomes(r, took(stage, sse))
  BY DEF Accept
<1> DEFINE rec == took(stage, sse)
<1>2. /\ q.pc = "upstream" /\ q \in Request /\ q.pool \in Pools /\ q.lane \in Members[q.pool]
      /\ q.lane \in Lanes /\ q.marks = 0 /\ q.bills = 0 /\ Sound(q)
      /\ stage \in Stage /\ "taken" \in Fate /\ "main" \in Path
      /\ budget \in [Lanes -> Nat] /\ kept \in [Lanes -> Nat] /\ free \in [Lanes -> Nat]
  BY Attempt, Known DEF Accept, Stage, Fate, Path
<1>3. spends \in BOOLEAN
  OBVIOUS
<1>4. /\ Becomes(r, rec) /\ UNCHANGED <<free, kept>>
      /\ budget' = IF spends THEN [budget EXCEPT ![q.lane] = @ - 1] ELSE budget
  BY <1>1 DEF Accept
<1>5. spends => Limited(q.lane) /\ budget[q.lane] > 0
  OBVIOUS
<1> HIDE DEF spends
<1>6. rec \in Request
  BY <1>2, <1>3 DEF Request
<1>7. /\ rec.pc = stage /\ rec.fate = "taken" /\ rec.unit = spends /\ rec.pool = q.pool
      /\ rec.lane = q.lane /\ rec.marks = 0 /\ rec.bills = 0 /\ rec.ended = q.ended
      /\ rec.spoilt = q.spoilt /\ rec.sink = q.sink
  BY <1>2 DEF Request
<1> HIDE DEF rec
<1>8. ~q.unit /\ ~q.ended /\ ~q.spoilt /\ q.sink
  BY <1>2 DEF Sound, Tallied
<1>9. Sound(rec)
  BY <1>2, <1>5, <1>7, <1>8 DEF Sound, Tallied, Faulted, Billed, Placed, Waiting
<1>10. \A l \in Lanes : /\ Holds(rec, l) <=> Holds(q, l) 
                        /\ ~Spends(q, l)
                        /\ Spends(rec, l) <=> spends /\ l = q.lane
  BY <1>2, <1>7, <1>8 DEF Holds, Spends
<1>11. /\ free' \in [Lanes -> Nat]
       /\ \A l \in Lanes : free'[l] = free[l] + (IF Holds(q, l) THEN 1 ELSE 0)
                                              - (IF Holds(rec, l) THEN 1 ELSE 0)
  BY <1>2, <1>4, <1>10
<1>12. /\ budget' \in [Lanes -> Nat] /\ kept' \in [Lanes -> Nat]
       /\ \A l \in Lanes : budget'[l] + kept'[l]
                             = budget[l] + kept[l] + (IF Spends(q, l) THEN 1 ELSE 0)
                                                   - (IF Spends(rec, l) THEN 1 ELSE 0)
  <2>1. CASE spends
    BY <1>2, <1>4, <1>5, <1>10, <2>1
  <2>2. CASE ~spends
    BY <1>2, <1>4, <1>10, <2>2
  <2>3. QED BY <2>1, <2>2
<1>13. Settles(q.pool, q.lane)
  BY <1>2, Settling DEF Accept
<1>14. \A x \in Pools, y \in Lanes :
         cell'[x][y] = "probing" => cell[x][y] = "probing" /\ ~Probes(q, x, y)
  BY <1>13 DEF Settles, Probes
<1>15. QED BY <1>4, <1>6, <1>9, <1>11, <1>12, <1>13, <1>14 DEF Turn, Becomes, Settles

-----------------------------------------------------------------------------
(* The bodies of answers.                                                  *)

(* What a request brings to the body of its answer.                        *)
LEMMA Body ==
  ASSUME Inv, NEW r \in Requests, req[r].pc \in {"buffering", "streaming"}
  PROVE  /\ req[r] \in Request /\ Sound(req[r]) /\ req[r].pool \in Pools
         /\ req[r].lane \in Members[req[r].pool] /\ req[r].lane \in Lanes
         /\ \A x \in Pools, y \in Lanes : ~Probes(req[r], x, y)
         /\ Holds(req[r], req[r].lane) <=> ~req[r].ended
         /\ req[r].pc = "buffering" =>
              /\ ~req[r].ended /\ ~req[r].spoilt /\ req[r].fate = "taken" /\ req[r].marks = 0
              /\ req[r].bills = 0
BY Known DEF Sound, Tallied, Faulted, Placed, Probes, Holds

\* What no step of a body does: start a probe.
NoNewProbe ==
  /\ cell' \in [Pools -> [Lanes -> Phase]]
  /\ \A x \in Pools, y \in Lanes : cell'[x][y] = "probing" => cell[x][y] = "probing"

(* A failure of the body, or none, is recorded.                            *)
LEMMA Recorded ==
  ASSUME Inv, NEW p \in Pools, NEW l \in Members[p], Strike(p, l) \/ Keep(p, l) \/ cell' = cell
  PROVE  NoNewProbe
BY Settling, Known DEF Inv, TypeOK, Settles, Keep, NoNewProbe

\* The account of a lane's units balances over the step.
Balances(q, rec) ==
  /\ budget' \in [Lanes -> Nat] /\ kept' \in [Lanes -> Nat]
  /\ \A l \in Lanes : budget'[l] + kept'[l] = budget[l] + kept[l] + (IF Spends(q, l) THEN 1 ELSE 0)
                                                                  - (IF Spends(rec, l) THEN 1 ELSE 0)

(* A body that ends, or is dropped, with the permit it still held.         *)
LEMMA BodyEnds ==
  ASSUME Inv, NEW r \in Requests, NEW rec \in Request, Sound(rec), Becomes(r, rec),
         req[r].pc \in {"buffering", "streaming"}, rec.pc = "done" \/ rec.ended,
         FreesHeldPermit(req[r]), NoNewProbe, Balances(req[r], rec)
  PROVE  Turn(r, rec)
<1>1. /\ req[r].lane \in Lanes /\ \A x \in Pools, y \in Lanes : ~Probes(req[r], x, y)
      /\ \A l \in Lanes : ~Holds(rec, l) /\ (Holds(req[r], l) <=> ~req[r].ended /\ l = req[r].lane)
  BY Body DEF Holds, Sound
<1>2. /\ free' \in [Lanes -> Nat]
      /\ \A l \in Lanes : free'[l] = free[l] + (IF Holds(req[r], l) THEN 1 ELSE 0)
                                             - (IF Holds(rec, l) THEN 1 ELSE 0)
  BY <1>1, Known DEF FreesHeldPermit, FreesPermit
<1>3. QED BY <1>1, <1>2 DEF Turn, Becomes, NoNewProbe, Balances

(* A body that ends with the request's answer.                             *)
LEMMA BodyAnswered ==
  ASSUME Inv, NEW r \in Requests, NEW t \in Request, NEW reply \in Reply,
         Becomes(r, Answered(t, reply)), req[r].pc \in {"buffering", "streaming"},
         Faulted(t), t.bills <= 1, t.fate \in {"failing", "failed"} => t.bills = 0,
         reply = "complete" => t.bills = 1,
         reply \in {"unavailable", "relayed", "error"} => t.bills = 0,
         FreesHeldPermit(req[r]), NoNewProbe,
         (budget' = budget /\ KeepUnit(req[r])) \/ (kept' = kept /\ budget' = Refunded(req[r]))
  PROVE  \E rec : Turn(r, rec)
<1> DEFINE rec == Answered(t, reply)
<1>1. rec \in Request /\ rec.pc = "done" /\ ~rec.unit
  BY AnsweredType
<1>2. Sound(rec)
  BY AnsweredSound
<1>3. Becomes(r, rec)
  OBVIOUS
<1> HIDE DEF rec
<1>4. Balances(req[r], rec)
  BY <1>1, UnitKept, UnitRefunded DEF Balances
<1>5. QED BY <1>1, <1>2, <1>3, <1>4, BodyEnds

(* A translated body is billed once.                                       *)
LEMMA BodyTranslatedTurns ==
  ASSUME Inv, NEW r \in Requests, BodyTranslated(r)
  PROVE  \E rec : Turn(r, rec)
<1> DEFINE t == [req[r] EXCEPT !.bills = 1]
<1>1. req[r].pc = "buffering" /\ "complete" \in Reply
  BY DEF BodyTranslated, Reply
<1>2. /\ req[r].bills + 1 = 1 /\ ~req[r].ended /\ req[r].pool \in Pools
      /\ req[r].lane \in Members[req[r].pool]
  BY <1>1, Body
<1>3. t \in Request /\ t.bills = 1 /\ t.fate = "taken" /\ t.marks = 0
  BY <1>1, Body DEF Request
<1>4. /\ Becomes(r, Answered(t, "complete")) /\ FreesHeldPermit(req[r])
      /\ KeepUnit(req[r]) /\ UNCHANGED <<cell, budget>>
  BY <1>2 DEF BodyTranslated, FreesHeldPermit
<1> HIDE DEF t
<1>5. NoNewProbe
  BY <1>2, <1>4, Recorded
<1>6. QED BY <1>1, <1>3, <1>4, <1>5, BodyAnswered DEF Faulted

(* A body of no use is not billed, and its unit stays spent.               *)
LEMMA BodyUnusableTurns ==
  ASSUME Inv, NEW r \in Requests, BodyUnusable(r)
  PROVE  \E rec : Turn(r, rec)
<1>1. req[r].pc = "buffering" /\ "error" \in Reply
  BY DEF BodyUnusable, Reply
<1>2. /\ req[r] \in Request /\ req[r].bills = 0 /\ ~req[r].ended /\ req[r].pool \in Pools
      /\ req[r].lane \in Members[req[r].pool] /\ Faulted(req[r])
  BY <1>1, Body DEF Faulted
<1>3. /\ Becomes(r, Answered(req[r], "error")) /\ FreesHeldPermit(req[r])
      /\ KeepUnit(req[r]) /\ UNCHANGED <<cell, budget>>
  BY <1>2 DEF BodyUnusable, FreesHeldPermit
<1>4. NoNewProbe
  BY <1>2, <1>3, Recorded
<1>5. QED BY <1>1, <1>2, <1>3, <1>4, BodyAnswered

(* The record of an answer that breaks off is a record.                    *)
LEMMA CutType ==
  ASSUME NEW q \in Request
  PROVE  /\ [q EXCEPT !.fate = "cut", !.marks = 1] \in Request
         /\ [q EXCEPT !.fate = "cut", !.marks = 1].fate = "cut"
         /\ [q EXCEPT !.fate = "cut", !.marks = 1].marks = 1
         /\ [q EXCEPT !.fate = "cut", !.marks = 1].bills = q.bills
<1> DEFINE a == [q EXCEPT !.fate = "cut"]
           b == [a EXCEPT !.marks = 1]
<1>1. a \in Request /\ a.fate = "cut" /\ a.bills = q.bills
  BY DEF Request, Fate
<1>2. [q EXCEPT !.fate = "cut", !.marks = 1] = b
  OBVIOUS
<1> HIDE DEF a
<1>3. b \in Request /\ b.fate = a.fate /\ b.marks = 1 /\ b.bills = a.bills
  BY <1>1 DEF Request
<1>4. QED BY <1>1, <1>2, <1>3

(* A broken body counts one failure and gives its unit back.               *)
LEMMA BodyBrokenTurns ==
  ASSUME Inv, NEW r \in Requests, BodyBroken(r)
  PROVE  \E rec : Turn(r, rec)
<1> DEFINE t == [req[r] EXCEPT !.fate = "cut", !.marks = 1]
<1>1. req[r].pc = "buffering" /\ "error" \in Reply /\ "cut" \in Fate
  BY DEF BodyBroken, Reply, Fate
<1>2. /\ req[r].marks + 1 = 1 /\ ~req[r].ended /\ req[r].pool \in Pools
      /\ req[r].lane \in Members[req[r].pool]
  BY <1>1, Body
<1>3. t \in Request /\ t.bills = 0 /\ t.fate = "cut" /\ t.marks = 1
  <2>1. req[r] \in Request /\ req[r].bills = 0
    BY <1>1, Body
  <2>2. QED BY <2>1, CutType
<1>4. /\ Becomes(r, Answered(t, "error")) /\ FreesHeldPermit(req[r])
      /\ Strike(req[r].pool, req[r].lane) /\ budget' = Refunded(req[r]) /\ kept' = kept
  BY <1>2 DEF BodyBroken, FreesHeldPermit
<1> HIDE DEF t
<1>5. NoNewProbe
  BY <1>2, <1>4, Recorded
<1>6. QED BY <1>1, <1>3, <1>4, <1>5, BodyAnswered DEF Faulted

(* A dropped body gives back the permit only if its end has not, and is    *)
(* billed only if its end has not.                                         *)
LEMMA DropBodyTurns ==
  ASSUME Inv, NEW r \in Requests, DropBody(r)
  PROVE  \E rec : Turn(r, rec)
<1> DEFINE q == req[r]
           bills == IF Billable(q) /\ q.sse THEN q.bills + 1 ELSE q.bills
           reply == IF q.ended THEN q.reply ELSE "cut"
           t == [q EXCEPT !.bills = bills, !.sink = FALSE]
<1>1. /\ q.pc = "streaming" /\ q \in Request /\ Sound(q) /\ q.pool \in Pools
      /\ q.lane \in Members[q.pool]
  BY Body DEF DropBody
<1>2. /\ Becomes(r, Answered(t, reply)) /\ FreesHeldPermit(q) /\ KeepUnit(q)
      /\ UNCHANGED <<cell, budget>>
  BY DEF DropBody
<1>3. /\ bills \in Nat /\ bills <= 1 /\ (q.fate \in {"failing", "failed"} => bills = 0)
      /\ reply \in Reply /\ (reply = "complete" => bills = 1)
      /\ reply \notin {"unavailable", "relayed", "error"}
  BY <1>1 DEF Sound, Tallied, Billed, Billable, Request, Reply
<1> HIDE DEF bills, reply
<1>4. t \in Request /\ t.bills = bills /\ t.fate = q.fate /\ t.marks = q.marks
  BY <1>1, <1>3 DEF Request
<1> HIDE DEF t
<1>5. Faulted(t)
  BY <1>1, <1>4 DEF Sound, Faulted
<1>6. NoNewProbe
  BY <1>1, <1>2, Recorded
<1>7. QED BY <1>1, <1>2, <1>3, <1>4, <1>5, <1>6, BodyAnswered

(* A chunk moves nothing.                                                  *)
LEMMA ChunkTurns ==
  ASSUME Inv, NEW r \in Requests, Chunk(r)
  PROVE  \E rec : Turn(r, rec)
<1> DEFINE q == req[r]
           rec == [q EXCEPT !.first = TRUE]
<1>1. /\ q \in Request /\ Sound(q) /\ q.pc = "streaming" /\ UNCHANGED <<cell, free, budget, kept>>
      /\ req' = [req EXCEPT ![r].first = TRUE]
  BY Known DEF Chunk
<1>2. Becomes(r, rec)
  BY <1>1 DEF Becomes
<1>3. /\ rec \in Request /\ rec.first /\ rec.pc = q.pc /\ rec.pool = q.pool /\ rec.lane = q.lane
      /\ rec.unit = q.unit /\ rec.ended = q.ended /\ rec.spoilt = q.spoilt /\ rec.sse = q.sse
      /\ rec.sink = q.sink /\ rec.fate = q.fate /\ rec.marks = q.marks /\ rec.bills = q.bills
      /\ rec.reply = q.reply
  BY <1>1 DEF Request
<1> HIDE DEF rec
<1>4. Sound(rec)
  BY <1>1, <1>3 DEF Sound, Tallied, Faulted, Billed, Placed, Waiting
<1>5. /\ \A l \in Lanes : (Holds(rec, l) <=> Holds(q, l)) /\ (Spends(rec, l) <=> Spends(q, l))
      /\ \A x \in Pools, y \in Lanes : ~Probes(q, x, y)
  BY <1>1, <1>3 DEF Holds, Spends, Probes
<1>6. QED BY <1>1, <1>2, <1>3, <1>4, <1>5, Quiet

(* A chunk that spoils the answer counts nothing yet.                      *)
LEMMA SpoiltChunkTurns ==
  ASSUME Inv, NEW r \in Requests, SpoiltChunk(r)
  PROVE  \E rec : Turn(r, rec)
<1> DEFINE q == req[r]
           rec == [q EXCEPT !.first = TRUE, !.spoilt = TRUE, !.fate = "failing"]
<1>1. /\ q \in Request /\ Sound(q) /\ q.pc = "streaming" /\ ~q.ended /\ q.sse /\ ~q.spoilt
      /\ UNCHANGED <<cell, free, budget, kept>>
      /\ req' = [req EXCEPT ![r].first = TRUE, ![r].spoilt = TRUE, ![r].fate = "failing"]
      /\ "failing" \in Fate
  BY Known DEF SpoiltChunk, Fate
<1>2. Becomes(r, rec)
  BY <1>1 DEF Becomes
<1>3. /\ rec \in Request /\ rec.first /\ rec.spoilt /\ rec.fate = "failing"
      /\ rec.pc = q.pc /\ rec.pool = q.pool /\ rec.lane = q.lane
      /\ rec.unit = q.unit /\ rec.ended = q.ended /\ rec.sse = q.sse
      /\ rec.sink = q.sink /\ rec.marks = q.marks /\ rec.bills = q.bills
      /\ rec.reply = q.reply
  BY <1>1 DEF Request
<1> HIDE DEF rec
<1>4. Sound(rec)
  BY <1>1, <1>3 DEF Sound, Tallied, Faulted, Billed, Placed, Waiting
<1>5. /\ \A l \in Lanes : (Holds(rec, l) <=> Holds(q, l)) /\ (Spends(rec, l) <=> Spends(q, l))
      /\ \A x \in Pools, y \in Lanes : ~Probes(q, x, y)
  BY <1>1, <1>3 DEF Holds, Spends, Probes
<1>6. QED BY <1>1, <1>2, <1>3, <1>4, <1>5, Quiet

(* A stream that breaks after its first byte counts one failure, and its   *)
(* unit stays spent.                                                       *)
LEMMA BreakMidStreamTurns ==
  ASSUME Inv, NEW r \in Requests, BreakMidStream(r)
  PROVE  \E rec : Turn(r, rec)
<1> DEFINE q == req[r]
           fate == IF q.spoilt THEN "failed" ELSE "cut"
           rec == [q EXCEPT !.ended = TRUE, !.marks = 1, !.reply = "cut", !.fate = fate]
<1>1. /\ q \in Request /\ Sound(q) /\ q.pc = "streaming" /\ ~q.ended /\ q.sse /\ q.first
      /\ q.pool \in Pools /\ q.lane \in Members[q.pool]
      /\ fate \in Fate /\ "cut" \in Reply
  BY Body DEF BreakMidStream, Open, Fate, Reply
<1>2. q.marks + 1 = 1
  BY <1>1 DEF Sound, Tallied, Faulted
<1>3. /\ Becomes(r, rec) /\ FreesHeldPermit(q) /\ Strike(q.pool, q.lane) /\ UNCHANGED <<budget, kept>>
  BY <1>2 DEF BreakMidStream
<1>4. /\ rec \in Request /\ rec.ended /\ rec.marks = 1 /\ rec.reply = "cut" /\ rec.fate = fate
      /\ rec.pc = q.pc /\ rec.pool = q.pool /\ rec.lane = q.lane
      /\ rec.unit = q.unit /\ rec.spoilt = q.spoilt /\ rec.sse = q.sse /\ rec.first = q.first
      /\ rec.sink = q.sink /\ rec.bills = q.bills
  BY <1>1 DEF Request
<1> HIDE DEF rec
<1>5. Sound(rec)
  BY <1>1, <1>4 DEF Sound, Tallied, Faulted, Billed, Placed, Waiting
<1>6. NoNewProbe
  BY <1>1, <1>3, Recorded
<1>7. Balances(q, rec)
  BY <1>3, <1>4, UnitUntouched DEF Balances, Spends
<1>8. QED BY <1>1, <1>3, <1>4, <1>5, <1>6, <1>7, BodyEnds

(* Any other body that breaks gives its unit back, and counts a failure if *)
(* something had gone out.                                                 *)
LEMMA BreakBodyTurns ==
  ASSUME Inv, NEW r \in Requests, BreakBody(r)
  PROVE  \E rec : Turn(r, rec)
<1> DEFINE q == req[r]
           fate == IF q.first THEN "cut" ELSE "unsent"
           marks == IF q.first THEN q.marks + 1 ELSE q.marks
           rec == [q EXCEPT !.ended = TRUE, !.unit = FALSE, !.reply = "cut", !.fate = fate, !.marks = marks]
<1>1. /\ q \in Request /\ Sound(q) /\ q.pc = "streaming" /\ ~q.ended /\ ~(q.sse /\ q.first)
      /\ q.pool \in Pools /\ q.lane \in Members[q.pool]
      /\ fate \in Fate /\ "cut" \in Reply
  BY Body DEF BreakBody, Open, Fate, Reply
<1>2. /\ ~q.spoilt /\ q.sink /\ q.bills = 0 /\ q.marks = 0
      /\ marks \in Nat /\ marks = IF q.first THEN 1 ELSE 0
  BY <1>1 DEF Sound, Tallied, Faulted
<1>3. /\ Becomes(r, rec) /\ FreesHeldPermit(q)
      /\ Strike(q.pool, q.lane) \/ Keep(q.pool, q.lane)
      /\ budget' = Refunded(q) /\ kept' = kept
  BY DEF BreakBody
<1> HIDE DEF marks
<1>4. /\ rec \in Request /\ rec.ended /\ rec.marks = marks /\ rec.reply = "cut" /\ rec.fate = fate
      /\ ~rec.unit /\ rec.pc = q.pc /\ rec.pool = q.pool /\ rec.lane = q.lane
      /\ rec.spoilt = q.spoilt /\ rec.sink = q.sink /\ rec.bills = q.bills
  BY <1>1, <1>2 DEF Request
<1> HIDE DEF rec
<1>5. Sound(rec)
  BY <1>1, <1>2, <1>4 DEF Sound, Tallied, Faulted, Billed, Placed, Waiting
<1>6. NoNewProbe
  BY <1>1, <1>3, Recorded
<1>7. Balances(q, rec)
  BY <1>3, <1>4, UnitRefunded DEF Balances
<1>8. QED BY <1>1, <1>3, <1>4, <1>5, <1>6, <1>7, BodyEnds

(* The end of a stream bills it, or counts the failure it carried.         *)
LEMMA EndOfStreamTurns ==
  ASSUME Inv, NEW r \in Requests, EndOfStream(r)
  PROVE  \E rec : Turn(r, rec)
<1> DEFINE q == req[r]
           failed == q.sse /\ q.first /\ q.spoilt
           fate == IF q.spoilt THEN "failed" ELSE q.fate
           marks == IF failed THEN q.marks + 1 ELSE q.marks
           bills == IF Billable(q) THEN q.bills + 1 ELSE q.bills
           reply == IF q.spoilt THEN "cut" ELSE "complete"
           rec == [q EXCEPT !.ended = TRUE, !.sink = FALSE, !.fate = fate, !.marks = marks,
                            !.bills = bills, !.reply = reply]
<1>1. /\ q \in Request /\ Sound(q) /\ q.pc = "streaming" /\ ~q.ended
      /\ q.pool \in Pools /\ q.lane \in Members[q.pool]
      /\ "failed" \in Fate /\ reply \in Reply
  BY Body DEF EndOfStream, Open, Fate, Reply
<1>2. /\ q.spoilt => q.sse /\ q.first /\ q.fate = "failing"
      /\ ~q.spoilt => q.fate = "taken"
      /\ q.marks = 0 /\ q.bills = 0 /\ q.sink
  BY <1>1 DEF Sound, Tallied, Faulted
<1>3. /\ fate = IF q.spoilt THEN "failed" ELSE "taken"
      /\ marks = IF q.spoilt THEN 1 ELSE 0
      /\ bills = IF q.spoilt THEN 0 ELSE 1
      /\ fate \in Fate
  BY <1>1, <1>2 DEF Billable, Request
<1>4. /\ Becomes(r, rec) /\ FreesHeldPermit(q)
      /\ Strike(q.pool, q.lane) \/ Keep(q.pool, q.lane)
      /\ UNCHANGED <<budget, kept>>
  BY DEF EndOfStream
<1> HIDE DEF fate, marks, bills, failed
<1>5. /\ rec \in Request /\ rec.ended /\ ~rec.sink /\ rec.fate = fate /\ rec.marks = marks
      /\ rec.bills = bills /\ rec.reply = reply
      /\ rec.pc = q.pc /\ rec.pool = q.pool /\ rec.lane = q.lane
      /\ rec.unit = q.unit /\ rec.spoilt = q.spoilt /\ rec.sse = q.sse /\ rec.first = q.first
  <2> DEFINE a == [q EXCEPT !.ended = TRUE, !.sink = FALSE]
             b == [a EXCEPT !.fate = fate, !.marks = marks]
             c == [b EXCEPT !.bills = bills, !.reply = reply]
  <2>1. /\ q \in Request /\ fate \in Fate /\ reply \in Reply
        /\ marks \in Nat /\ bills \in Nat
    BY <1>1, <1>3
  <2> HIDE DEF q, reply
  <2>2. rec = c
    OBVIOUS
  <2>3. /\ a \in Request /\ a.ended /\ ~a.sink /\ a.pc = q.pc /\ a.pool = q.pool
        /\ a.lane = q.lane /\ a.unit = q.unit /\ a.spoilt = q.spoilt
        /\ a.sse = q.sse /\ a.first = q.first
    BY <2>1 DEF Request
  <2> HIDE DEF rec, a
  <2>4. /\ b \in Request /\ b.fate = fate /\ b.marks = marks
        /\ b.ended = a.ended /\ b.sink = a.sink /\ b.pc = a.pc /\ b.pool = a.pool
        /\ b.lane = a.lane /\ b.unit = a.unit /\ b.spoilt = a.spoilt
        /\ b.sse = a.sse /\ b.first = a.first
    BY <2>1, <2>3 DEF Request
  <2> HIDE DEF b
  <2>5. /\ c \in Request /\ c.bills = bills /\ c.reply = reply
        /\ c.fate = b.fate /\ c.marks = b.marks /\ c.ended = b.ended
        /\ c.sink = b.sink /\ c.pc = b.pc /\ c.pool = b.pool /\ c.lane = b.lane
        /\ c.unit = b.unit /\ c.spoilt = b.spoilt /\ c.sse = b.sse
        /\ c.first = b.first
    BY <2>1, <2>4 DEF Request
  <2> HIDE DEF c
  <2>6. QED BY <2>2, <2>3, <2>4, <2>5
<1> HIDE DEF rec
<1>6. Sound(rec)
  BY <1>1, <1>2, <1>3, <1>5 DEF Sound, Tallied, Faulted, Billed, Placed, Waiting
<1>7. NoNewProbe
  BY <1>1, <1>4, Recorded
<1>8. UNCHANGED <<budget, kept>>
  BY DEF EndOfStream
<1>9. Balances(q, rec)
  BY <1>5, <1>8, UnitUntouched DEF Balances, Spends
<1>10. QED BY <1>1, <1>4, <1>5, <1>6, <1>7, <1>9, BodyEnds

-----------------------------------------------------------------------------
(* The client, the clock and the prober.                                   *)

(* A client that leaves takes nothing with it but the probe of a request   *)
(* the upstream works on.                                                  *)
LEMMA LeaveTurns ==
  ASSUME Inv, NEW r \in Requests, Leave(r)
  PROVE  \E rec : Turn(r, rec)
<1> DEFINE q == req[r]
           rec == Answered(q, "cut")
<1>1. /\ q \in Request /\ Sound(q) /\ q.pc \in {"deciding", "parked", "upstream", "buffering"}
      /\ Becomes(r, rec) /\ KeepUnit(q) /\ budget' = budget /\ "cut" \in Reply \ {"complete"}
  BY Known DEF Leave, Reply
<1>2. /\ Faulted(q) /\ q.bills = 0
  BY <1>1 DEF Sound, Tallied
<1>3. rec \in Request /\ rec.pc = "done" /\ rec.reply = "cut" /\ ~rec.unit /\ Sound(rec)
  BY <1>1, <1>2, AnsweredType, AnsweredSound
<1>4. q.pc # "buffering" => ~q.unit /\ kept' = kept
  BY <1>1 DEF Sound, KeepUnit
<1>5. CASE q.pc = "deciding"
  BY <1>1, <1>4, <1>5, TurnedAway DEF Leave
<1>6. CASE q.pc = "parked"
  <2>1. q.pool \in Pools /\ q.lane \in Members[q.pool]
    BY <1>6, Known DEF Placed
  <2>2. Settles(q.pool, q.lane) /\ free' = free
    BY <1>6, <2>1, Settling DEF Leave
  <2> HIDE DEF rec
  <2>3. QED BY <1>1, <1>3, <1>4, <1>6, <2>2, WaitEnds
<1>7. CASE q.pc = "upstream"
  <2>1. q.pool \in Pools /\ q.lane \in Lanes /\ Holds(q, q.lane)
    BY <1>1, <1>7, Known DEF Placed, Sound, Holds
  <2>2. FreesPermit(q.lane) /\ cell' = cell
    BY <1>7 DEF Leave
  <2> HIDE DEF rec
  <2>3. \A l \in Lanes : ~Holds(rec, l)
    BY <1>3 DEF Holds
  <2>4. /\ free' \in [Lanes -> Nat]
        /\ \A l \in Lanes : free'[l] = free[l] + (IF Holds(q, l) THEN 1 ELSE 0)
                                               - (IF Holds(rec, l) THEN 1 ELSE 0)
    BY <2>1, <2>2, <2>3, PermitBack
  <2>5. /\ budget' \in [Lanes -> Nat] /\ kept' \in [Lanes -> Nat]
        /\ \A l \in Lanes : budget'[l] + kept'[l]
                              = budget[l] + kept[l] + (IF Spends(q, l) THEN 1 ELSE 0)
                                                    - (IF Spends(rec, l) THEN 1 ELSE 0)
    BY <1>1, <1>3, UnitKept
  <2>6. cell' \in [Pools -> [Lanes -> Phase]]
    BY <2>2, Known
  <2>7. QED BY <1>1, <1>3, <1>7, <2>2, <2>4, <2>5, <2>6 DEF Turn, Becomes
<1>8. CASE q.pc = "buffering"
  <2>1. q.pool \in Pools /\ q.lane \in Members[q.pool] /\ ~q.ended /\ q.fate = "taken"
    BY <1>8, Body
  <2>2. FreesHeldPermit(q) /\ cell' = cell
    BY <1>8, <2>1 DEF Leave, FreesHeldPermit
  <2>3. NoNewProbe
    BY <2>1, <2>2, Recorded
  <2>4. QED BY <1>1, <1>2, <1>8, <2>1, <2>2, <2>3, BodyAnswered
<1>9. QED BY <1>1, <1>5, <1>6, <1>7, <1>8

(* A slot is given to the next request.                                    *)
LEMMA ForgetTurns ==
  ASSUME Inv, NEW r \in Requests, Forget(r)
  PROVE  \E rec : Turn(r, rec)
<1>1. Idle.pc = "idle"
  BY DEF Idle
<1>2. QED BY <1>1, IdleType, Seeking DEF Forget

(* The deadline moves nothing.                                             *)
LEMMA DeadlineTurns ==
  ASSUME Inv, NEW r \in Requests, DeadlinePasses(r)
  PROVE  \E rec : Turn(r, rec)
<1> DEFINE q == req[r]
           rec == [q EXCEPT !.late = TRUE]
<1>1. /\ q \in Request /\ Sound(q) /\ q.pc \in {"hop", "select", "parked", "exhausted"}
      /\ req' = [req EXCEPT ![r].late = TRUE] /\ UNCHANGED <<cell, free, budget, kept>>
  BY Known DEF DeadlinePasses
<1>2. Becomes(r, rec)
  BY <1>1 DEF Becomes
<1>3. /\ rec \in Request /\ Carries(rec, q) /\ rec.pc = q.pc /\ rec.lane = q.lane /\ rec.won = q.won
  BY <1>1 DEF Request, Carries
<1> HIDE DEF rec
<1>4. Sound(rec)
  BY <1>1, <1>3 DEF Carries, Sound, Tallied, Faulted, Billed, Placed, Waiting
<1>5. /\ \A l \in Lanes : (Holds(rec, l) <=> Holds(q, l)) /\ (Spends(rec, l) <=> Spends(q, l))
      /\ \A x \in Pools, y \in Lanes : Probes(q, x, y) => Probes(rec, x, y)
  BY <1>3 DEF Carries, Holds, Spends, Probes
<1>6. QED BY <1>1, <1>2, <1>3, <1>4, <1>5, Quiet

(* A step of the cells alone that starts no probe keeps the invariant.     *)
LEMMA CellsAlone ==
  ASSUME Inv, Aside, NoNewProbe, UNCHANGED <<free, budget, req, kept>>
  PROVE  Inv'
<1>1. config' = config /\ Members' = Members /\ Abandoned = {}
  BY DEF Aside, Members, Abandoned
<1>2. TypeOK'
  BY <1>1 DEF Inv, TypeOK, NoNewProbe, Aside
<1>3. \A r \in Requests : Sound(req[r])'
  BY <1>1 DEF Inv, Sound, Tallied, Faulted, Billed, Limited
<1>4. PermitsConserved'
  BY DEF Inv, PermitsConserved, InFlight
<1>5. BudgetAccounted'
  BY DEF Inv, BudgetAccounted, Spenders, Limited
<1>6. ProbeHasOwner'
  BY <1>1 DEF Inv, ProbeHasOwner, Owns, NoNewProbe, Aside
<1>7. QED BY <1>2, <1>3, <1>4, <1>5, <1>6 DEF Inv

(* The clock and the prober start no probe.                                *)
LEMMA ClockKeeps ==
  ASSUME Inv, Aside,
         \/ \E p \in Pools : \E l \in Members[p] : Expire(p, l)
         \/ \E l \in Lanes : Recover(l)
  PROVE  Inv'
<1>1. cell \in [Pools -> [Lanes -> Phase]] /\ \A p \in Pools : Members[p] \subseteq Lanes
  BY DEF Inv, TypeOK, Members, Config
<1>2. ASSUME NEW p \in Pools, NEW l \in Members[p], Expire(p, l)
      PROVE  Inv'
  <2>1. NoNewProbe
    BY <1>1, <1>2 DEF Expire, NoNewProbe, Phase
  <2>2. QED BY <1>2, <2>1, CellsAlone DEF Expire
<1>3. ASSUME NEW l \in Lanes, Recover(l)
      PROVE  Inv'
  <2>1. NoNewProbe
    BY <1>1, <1>3 DEF Recover, NoNewProbe, Phase
  <2>2. QED BY <1>3, <2>1, CellsAlone DEF Recover
<1>4. QED BY <1>2, <1>3

-----------------------------------------------------------------------------
(* The invariant holds at the start and in every step.                     *)

(* Nothing is held at the start.                                           *)
LEMMA InitSound ==
  ASSUME Init
  PROVE  Inv
<1>1. /\ config \in Config /\ cell \in [Pools -> [Lanes -> Phase]]
      /\ free = MaxConcurrent /\ orphaned = {} /\ \A r \in Requests : req[r] = Idle
  BY DispatchAssumption DEF Init, Phase
<1>2. /\ free \in [Lanes -> Nat] /\ budget \in [Lanes -> Nat] /\ kept \in [Lanes -> Nat]
      /\ \A l \in Lanes : kept[l] = 0 /\ (Limited(l) => budget[l] = MaxRequests[l])
  BY DispatchAssumption DEF Init, Limited
<1>3. req \in [Requests -> Request] /\ \A r \in Requests : Sound(req[r])
  BY IdleType DEF Init
<1>4. Idle.pc = "idle" /\ ~Idle.unit
  BY DEF Idle
<1>5. TypeOK
  BY <1>1, <1>2, <1>3, <1>4 DEF TypeOK
<1>6. \A l \in Lanes : Cardinality(InFlight(l)) = 0 /\ Cardinality(Spenders(l)) = 0
  <2>1. \A l \in Lanes : InFlight(l) = {} /\ Spenders(l) = {}
    BY <1>1, <1>4 DEF InFlight, Spenders
  <2>2. QED BY <2>1, FS_EmptySet
<1>7. PermitsConserved
  BY <1>1, <1>2, <1>6 DEF PermitsConserved
<1>8. BudgetAccounted
  BY <1>2, <1>6, DispatchAssumption DEF BudgetAccounted, Limited
<1>9. ProbeHasOwner
  BY DEF Init, ProbeHasOwner
<1>10. QED BY <1>3, <1>5, <1>7, <1>8, <1>9 DEF Inv

(* Every step of a request is a turn.                                      *)
LEMMA StepTurns ==
  ASSUME Inv, NEW r \in Requests,
         Seek(r) \/ Hear(r) \/ Flow(r) \/ Client(r) \/ DeadlinePasses(r)
  PROVE  \E rec : Turn(r, rec)
<1>1. CASE Seek(r)
  BY <1>1, DecideTurns, OutOfHopsTurns, OutOfTimeTurns, TryStickyTurns, NoStickyTurns,
     StickyFullTurns, SelectTurns, AdmitChosenTurns, LoseRaceTurns, TakePermitTurns,
     GiveUpWaitingTurns, Status503Turns, FallbackTurns, LeastBadTurns DEF Seek
<1>2. CASE Hear(r)
  BY <1>2, UntranslatableTurns, LostTurns, RefuseCallerTurns, RefuseTransientTurns,
     RefuseHardDownTurns, RefuseOversizedTurns, RefuseDegradedTurns, AcceptTurns,
     BodyTranslatedTurns, BodyUnusableTurns, BodyBrokenTurns, BreakMidStreamTurns,
     BreakBodyTurns, EndOfStreamTurns DEF Hear
<1>3. CASE Flow(r)
  BY <1>3, ChunkTurns, SpoiltChunkTurns DEF Flow
<1>4. CASE Client(r)
  BY <1>4, ArriveTurns, LeaveTurns, DropBodyTurns, ForgetTurns DEF Client
<1>5. QED BY <1>1, <1>2, <1>3, <1>4, DeadlineTurns

(* Every step keeps the invariant.                                         *)
LEMMA NextKeeps ==
  ASSUME Inv, [Next]_vars
  PROVE  Inv'
<1>1. CASE Next
  <2>1. Aside
    BY <1>1 DEF Next
  <2>2. ASSUME NEW r \in Requests, Seek(r) \/ Hear(r) \/ Flow(r) \/ Client(r) \/ DeadlinePasses(r)
        PROVE  Inv'
    <3>1. PICK rec : Turn(r, rec)
      BY <2>2, StepTurns
    <3>2. QED BY <2>1, <3>1, TurnKeeps
  <2>3. QED BY <1>1, <2>1, <2>2, ClockKeeps DEF Next, Step
<1>2. CASE UNCHANGED vars
  BY <1>2 DEF vars, Inv, TypeOK, Sound, Tallied, Faulted, Billed, Limited, Members,
     PermitsConserved, InFlight, BudgetAccounted, Spenders, ProbeHasOwner, Owns
<1>3. QED BY <1>1, <1>2

(* The invariant, of every behaviour of busbar.                            *)
THEOREM Invariant == Spec => []Inv
<1>1. Init => Inv
  BY InitSound
<1>2. Inv /\ [Next]_vars => Inv'
  BY NextKeeps
<1>3. QED BY <1>1, <1>2, PTL DEF Spec

(* TypeOK: every variable keeps to what the engine's structures hold.      *)
THEOREM TypeCorrect == Spec => []TypeOK
<1>1. Inv => TypeOK
  BY DEF Inv
<1>2. QED BY <1>1, Invariant, PTL

(* PermitsConserved: whichever way an attempt, a body or a stream ends, its *)
(* permit comes back once, for any number of requests, lanes and permits.  *)
THEOREM PermitsReturn == Spec => []PermitsConserved
<1>1. Inv => PermitsConserved
  BY DEF Inv
<1>2. QED BY <1>1, Invariant, PTL

(* BudgetAccounted: no refund of a lifetime unit is wrong, whatever the    *)
(* limits.                                                                 *)
THEOREM UnitsBalance == Spec => []BudgetAccounted
<1>1. Inv => BudgetAccounted
  BY DEF Inv
<1>2. QED BY <1>1, Invariant, PTL

(* ProbeHasOwner: no half-open cell is forgotten but by a client that goes *)
(* away while the upstream works.                                          *)
THEOREM ProbesOwned == Spec => []ProbeHasOwner
<1>1. Inv => ProbeHasOwner
  BY DEF Inv
<1>2. QED BY <1>1, Invariant, PTL

(* FaultsCountedOnce: a fault is held against its lane once and only if it *)
(* is the lane's, whatever the errors, their codes and the error_map.      *)
THEOREM FaultsOnce == Spec => []FaultsCountedOnce
<1>1. Inv => FaultsCountedOnce
  BY DEF Inv, Sound, Faulted, FaultsCountedOnce
<1>2. QED BY <1>1, Invariant, PTL

(* BilledOnce: no request is billed twice, none that failed in band at all. *)
THEOREM BillsOnce == Spec => []BilledOnce
<1>1. Inv => BilledOnce
  BY DEF Inv, Sound, Billed, BilledOnce
<1>2. QED BY <1>1, Invariant, PTL

-----------------------------------------------------------------------------
(* NoWastedAttempt.  The loop keeps it by its exclusions alone: every lane *)
(* sent to, and every member whose window is no larger than one that was   *)
(* too small, is excluded when the next lane is chosen, and the hops count *)
(* the lanes.  Fresh says so of a request's record.  A record is either    *)
(* blank (an answered request has no search left) or carries on its        *)
(* search, and only what is picked and what is too large add to it.        *)

Chosen == {"sticky", "admit", "parked"}

Fresh(q) ==
  /\ q.tried \subseteq q.excluded
  /\ q.path = "main" => /\ Cardinality(q.tried) <= q.hops
                        /\ q.oversize > 0 =>
                             \A c \in Members[q.pool] :
                               0 < ContextMax[c] /\ ContextMax[c] <= q.oversize => c \in q.excluded
  /\ q.pc \in Chosen => q.lane \notin q.excluded
  /\ q.pc \in Chosen \cup {"select"} => HopsLeft(q)

SearchInv == Inv /\ \A r \in Requests : Fresh(req[r])

\* A step of r that leaves a record fresh, and only sends a lane it chose.
Moves(r, rec) ==
  /\ Becomes(r, rec)
  /\ Fresh(rec)
  /\ rec.pc = "upstream" => rec.path = "least_bad" \/ req[r].pc \in Chosen \cup {"upstream"}

\* Nothing is left of a search.
Blank(rec) ==
  /\ rec.tried = {} /\ rec.oversize = 0 /\ rec.hops \in Nat
  /\ rec.pc \notin Chosen \cup {"select"}
  /\ rec.pc = "upstream" => rec.path = "least_bad"

\* The search goes on as it was.
Searches(rec, q) ==
  /\ rec.tried = q.tried /\ rec.excluded = q.excluded /\ rec.hops = q.hops
  /\ rec.oversize = q.oversize /\ rec.path = q.path /\ rec.pool = q.pool

(* A blank record is fresh.                                                *)
LEMMA BlankMoves ==
  ASSUME NEW r \in Requests, NEW rec, Becomes(r, rec), Blank(rec)
  PROVE  Moves(r, rec)
<1>1. Cardinality({}) = 0
  BY FS_EmptySet
<1>2. QED BY <1>1 DEF Moves, Fresh, Blank

(* A record that carries on a search is fresh, if the lane it chose is.    *)
LEMMA SearchMoves ==
  ASSUME NEW r \in Requests, NEW rec, Becomes(r, rec), Fresh(req[r]), Searches(rec, req[r]),
         rec.pc \in Chosen => rec.lane \notin req[r].excluded,
         rec.pc \in Chosen \cup {"select"} => HopsLeft(req[r]),
         rec.pc = "upstream" => req[r].pc = "upstream"
  PROVE  Moves(r, rec)
BY DEF Moves, Fresh, Searches, HopsLeft

(* An answered request has no search left.                                 *)
LEMMA AnsweredMoves ==
  ASSUME NEW r \in Requests, NEW q, NEW reply, Becomes(r, Answered(q, reply))
  PROVE  \E rec : Moves(r, rec)
<1>1. Blank(Answered(q, reply))
  BY DEF Answered, Idle, Blank, Chosen
<1>2. QED BY <1>1, BlankMoves

(* Nor has one at rest.                                                    *)
LEMMA IdleFresh == Fresh(Idle)
<1>1. Cardinality({}) = 0
  BY FS_EmptySet
<1>2. QED BY <1>1 DEF Fresh, Idle, Chosen

(* A request that looks for a lane carries on its search.                  *)
LEMMA LookingMoves ==
  ASSUME SearchInv, NEW r \in Requests, NEW stage \in {"hop", "select", "exhausted"},
         Becomes(r, [Looking(req[r]) EXCEPT !.pc = stage]),
         stage = "select" => HopsLeft(req[r])
  PROVE  \E rec : Moves(r, rec)
<1> DEFINE rec == [Looking(req[r]) EXCEPT !.pc = stage]
<1>1. req[r] \in Request /\ Fresh(req[r])
  BY Known DEF SearchInv
<1>2. Searches(rec, req[r]) /\ rec.pc = stage
  BY <1>1 DEF Looking, Request, Searches
<1>3. Becomes(r, rec)
  OBVIOUS
<1> HIDE DEF rec
<1>4. QED BY <1>1, <1>2, <1>3, SearchMoves DEF Chosen

(* The search for a lane keeps records fresh.                              *)
LEMMA SeekMoves ==
  ASSUME SearchInv, NEW r \in Requests, Seek(r)
  PROVE  \E rec : Moves(r, rec)
<1>1. /\ req[r] \in Request /\ Fresh(req[r]) /\ Inv
      /\ req[r].pc \in Placed => req[r].lane \in Lanes
  BY Known DEF SearchInv
<1>2. CASE Decide(r)
  <2>1. CASE GoesTo(r, "hop")
    <3> DEFINE rec == [req[r] EXCEPT !.pc = "hop"]
    <3>1. Becomes(r, rec)
      BY <2>1 DEF GoesTo, Becomes
    <3>2. Searches(rec, req[r]) /\ rec.pc = "hop"
      BY <1>1 DEF Request, Searches
    <3> HIDE DEF rec
    <3>3. QED BY <1>1, <3>1, <3>2, SearchMoves DEF Chosen
  <2>2. QED BY <1>2, <2>1, AnsweredMoves DEF Decide
<1>3. CASE OutOfHops(r)
  BY <1>3, LookingMoves DEF OutOfHops
<1>4. CASE OutOfTime(r)
  BY <1>4, AnsweredMoves DEF OutOfTime
<1>5. CASE TrySticky(r)
  <2> DEFINE l == Sticky(r)
             rec == [Admitted(Looking(req[r]), l) EXCEPT !.pc = "sticky"]
  <2>1. Becomes(r, rec) /\ l \notin req[r].excluded /\ HopsLeft(req[r])
    BY <1>5 DEF TrySticky, StickyEligible
  <2> HIDE DEF l
  <2>2. Searches(rec, req[r]) /\ rec.pc = "sticky" /\ rec.lane = l
    BY <1>1 DEF Looking, Admitted, Request, Searches
  <2> HIDE DEF rec
  <2>3. QED BY <1>1, <2>1, <2>2, SearchMoves
<1>6. CASE NoSticky(r)
  BY <1>6, LookingMoves DEF NoSticky
<1>7. CASE StickyFull(r)
  BY <1>1, <1>7, LookingMoves DEF StickyFull, Fresh, Chosen
<1>8. CASE Select(r)
  <2>1. ASSUME NEW l \in Choices(req[r]), Becomes(r, [req[r] EXCEPT !.pc = "admit", !.lane = l])
        PROVE  \E rec : Moves(r, rec)
    <3> DEFINE rec == [req[r] EXCEPT !.pc = "admit", !.lane = l]
    <3>1. Becomes(r, rec) /\ l \notin req[r].excluded /\ HopsLeft(req[r])
      BY <1>1, <1>8, <2>1 DEF Choices, Candidates, Fresh, Select
    <3>2. Searches(rec, req[r]) /\ rec.pc = "admit" /\ rec.lane = l
      BY <1>1 DEF Request, Searches
    <3> HIDE DEF rec
    <3>3. QED BY <1>1, <3>1, <3>2, SearchMoves
  <2>2. ASSUME GoesTo(r, "exhausted")
        PROVE  \E rec : Moves(r, rec)
    <3> DEFINE rec == [req[r] EXCEPT !.pc = "exhausted"]
    <3>1. Becomes(r, rec)
      BY <2>2 DEF GoesTo, Becomes
    <3>2. Searches(rec, req[r]) /\ rec.pc = "exhausted"
      BY <1>1 DEF Request, Searches
    <3> HIDE DEF rec
    <3>3. QED BY <1>1, <3>1, <3>2, SearchMoves DEF Chosen
  <2>3. QED BY <1>8, <2>1, <2>2 DEF Select
<1>9. CASE LoseRace(r)
  <2> DEFINE rec == [req[r] EXCEPT !.pc = "select", !.lane = NoLane, !.skipped = @ \cup {req[r].lane}]
  <2>1. Becomes(r, rec) /\ HopsLeft(req[r])
    BY <1>1, <1>9 DEF LoseRace, Fresh, Chosen
  <2>2. Searches(rec, req[r]) /\ rec.pc = "select"
    BY <1>1 DEF Request, Searches
  <2> HIDE DEF rec
  <2>3. QED BY <1>1, <2>1, <2>2, SearchMoves DEF Chosen
<1>10. CASE GiveUpWaiting(r)
  BY <1>10, LookingMoves DEF GiveUpWaiting
<1>11. CASE Status503(r)
  BY <1>11, AnsweredMoves DEF Status503
<1>12. CASE LeastBad(r)
  <2>1. ASSUME NEW l \in Soonest(req[r].pool),
               Becomes(r, [Idle EXCEPT !.pc = "upstream", !.path = "least_bad",
                                       !.pool = req[r].pool, !.lane = l])
        PROVE  \E rec : Moves(r, rec)
    <3> DEFINE rec == [Idle EXCEPT !.pc = "upstream", !.path = "least_bad",
                                   !.pool = req[r].pool, !.lane = l]
    <3>1. Blank(rec) /\ Becomes(r, rec)
      BY <2>1 DEF Idle, Blank, Chosen
    <3> HIDE DEF rec
    <3>2. QED BY <3>1, BlankMoves
  <2>2. QED BY <1>12, <2>1, AnsweredMoves DEF LeastBad
<1>13. CASE Fallback(r)
  <2> DEFINE q == req[r]
             seen == (q.visited \cup {q.pool}) \cup {Mode(q)}
             rec == [Looking(q) EXCEPT !.pc = "hop", !.path = "fallback", !.pool = Mode(q), !.visited = seen]
  <2>1. Becomes(r, Answered(q, "unavailable")) \/ Becomes(r, rec)
    BY <1>13 DEF Fallback
  <2> HIDE DEF seen
  <2>2. /\ rec.pc = "hop" /\ rec.path = "fallback" /\ rec.tried = q.tried
        /\ rec.excluded = q.excluded
    BY <1>1 DEF Looking, Request
  <2> HIDE DEF rec
  <2>3. Becomes(r, rec) => Moves(r, rec)
    BY <1>1, <2>2 DEF Moves, Fresh, Chosen
  <2>4. QED BY <2>1, <2>3, AnsweredMoves
<1>14. CASE AdmitChosen(r) \/ TakePermit(r)
  <2> DEFINE q == req[r]
             m == Admitted(q, q.lane)
             wait == [m EXCEPT !.pc = "parked"]
  <2>1. /\ q.pc \in Chosen /\ q.lane \in Lanes
        /\ \/ Becomes(r, Picked(q)) \/ Becomes(r, Picked(m)) \/ Becomes(r, wait)
    BY <1>1, <1>14 DEF AdmitChosen, TakePermit, Chosen, Placed
  <2>2. /\ m \in Request /\ Searches(m, q) /\ m.lane = q.lane
    BY <1>1, <2>1 DEF Admitted, Request, Searches
  <2> HIDE DEF m
  <2>3. /\ Searches(wait, q) /\ wait.lane = q.lane /\ wait.pc = "parked"
    BY <2>2 DEF Request, Searches
  <2> HIDE DEF wait
  <2>4. Becomes(r, wait) => Moves(r, wait)
    BY <1>1, <2>1, <2>3, SearchMoves DEF Fresh
  <2>5. ASSUME NEW k \in {q, m}, Becomes(r, Picked(k))
        PROVE  Moves(r, Picked(k))
    <3>1. k \in Request /\ Searches(k, q) /\ k.lane = q.lane
      BY <1>1, <2>2 DEF Searches
    <3> DEFINE rec == Picked(k)
    <3>2. /\ rec.pc = "upstream" /\ rec.tried = k.tried \cup {k.lane}
          /\ rec.excluded = k.excluded \cup {k.lane} /\ rec.path = k.path /\ rec.pool = k.pool
          /\ rec.oversize = k.oversize /\ (k.path = "main" => rec.hops = k.hops + 1)
      BY <3>1 DEF Request, Picked
    <3> HIDE DEF rec
    <3>3. IsFiniteSet(q.tried) /\ q.hops \in Nat
      BY <1>1, PoolAssumption, FS_Subset DEF Request
    <3>4. /\ Cardinality(q.tried) \in Nat /\ Cardinality(rec.tried) \in Nat
          /\ Cardinality(rec.tried) <= Cardinality(q.tried) + 1
      <4>1. rec.tried = q.tried \cup {q.lane}
        BY <3>1, <3>2 DEF Searches
      <4>2. /\ Cardinality(q.tried) \in Nat
            /\ \/ Cardinality(rec.tried) = Cardinality(q.tried)
               \/ Cardinality(rec.tried) = Cardinality(q.tried) + 1
        BY <3>3, <4>1, FS_AddElement, FS_CardinalityType
      <4>3. QED BY <4>2
    <3>5. rec.path = "main" => Cardinality(rec.tried) <= rec.hops
      BY <1>1, <3>1, <3>2, <3>3, <3>4 DEF Fresh, Searches
    <3>6. Fresh(rec)
      BY <1>1, <3>1, <3>2, <3>5 DEF Fresh, Searches, Chosen
    <3>7. QED BY <2>1, <2>5, <3>2, <3>6 DEF Moves, rec
  <2>6. QED BY <2>1, <2>4, <2>5
<1>15. QED
  BY <1>2, <1>3, <1>4, <1>5, <1>6, <1>7, <1>8, <1>9, <1>10, <1>11, <1>12, <1>13, <1>14 DEF Seek, SearchInv

(* An attempt that fails carries on its search, or ends it.                *)
LEMMA HearMoves ==
  ASSUME SearchInv, NEW r \in Requests, Hear(r)
  PROVE  \E rec : Moves(r, rec)
<1> DEFINE q == req[r]
<1>1. q \in Request /\ Fresh(q) /\ Inv
  BY Known DEF SearchInv
<1>2. ASSUME NEW t \in Request, Becomes(r, NextHop(t)), Searches(t, q)
      PROVE  \E rec : Moves(r, rec)
  <2> DEFINE rec == NextHop(t)
  <2>1. Searches(rec, q) /\ rec.pc = "hop" /\ Becomes(r, rec)
    BY <1>2 DEF NextHop, Request, Searches
  <2> HIDE DEF rec
  <2>2. QED BY <1>1, <2>1, SearchMoves DEF Chosen
<1>3. CASE Lost(r) \/ RefuseTransient(r) \/ RefuseHardDown(r)
  <2>1. \/ \E t, reply : Becomes(r, Answered(t, reply))
        \/ \E fate : Becomes(r, NextHop([q EXCEPT !.fate = fate, !.marks = @ + 1]))
    BY <1>3 DEF Lost, RefuseTransient, RefuseHardDown
  <2>2. ASSUME NEW fate, Becomes(r, NextHop([q EXCEPT !.fate = fate, !.marks = @ + 1]))
        PROVE  \E rec : Moves(r, rec)
    <3> DEFINE rec == NextHop([q EXCEPT !.fate = fate, !.marks = @ + 1])
    <3>1. Searches(rec, q) /\ rec.pc = "hop" /\ Becomes(r, rec)
      BY <1>1, <2>2 DEF NextHop, Request, Searches
    <3> HIDE DEF rec
    <3>2. QED BY <1>1, <3>1, SearchMoves DEF Chosen
  <2>3. QED BY <2>1, <2>2, AnsweredMoves
<1>4. CASE RefuseOversized(r)
  <2> DEFINE out == q.excluded \cup NoLarger(q)
             most == AtLeast(q.oversize, ContextMax[q.lane])
  <2>1. PICK fate :
          Becomes(r, NextHop([q EXCEPT !.excluded = out, !.fate = fate, !.oversize = most]))
    BY <1>4 DEF RefuseOversized
  <2> DEFINE rec == NextHop([q EXCEPT !.excluded = out, !.fate = fate, !.oversize = most])
  <2>2. Becomes(r, rec)
    BY <2>1
  <2> HIDE DEF out, most
  <2>3. /\ rec.tried = q.tried /\ rec.excluded = out /\ rec.hops = q.hops /\ rec.oversize = most
        /\ rec.path = q.path /\ rec.pool = q.pool /\ rec.pc = "hop"
    BY <1>1 DEF NextHop, Request
  <2> HIDE DEF rec
  <2>4. /\ q.oversize \in Nat /\ ContextMax[q.lane] \in Nat
        /\ \A c \in Members[q.pool] : ContextMax[c] \in Nat
    <3>1. q.pc = "upstream"
      BY <1>4 DEF RefuseOversized, Refusable
    <3>2. QED BY <1>1, <3>1, Attempt, Known, DispatchAssumption DEF Request
  <2>5. \A c \in Members[q.pool] :
          0 < ContextMax[c] /\ ContextMax[c] <= most /\ q.path = "main" => c \in out
    BY <1>1, <2>4 DEF Fresh, NoLarger, AtLeast, out, most
  <2>6. Fresh(rec)
    BY <1>1, <2>3, <2>5 DEF Fresh, Chosen, out
  <2>7. QED BY <2>2, <2>3, <2>6 DEF Moves
<1>5. CASE Accept(r)
  <2>1. PICK stage \in {"buffering", "streaming"}, unit \in BOOLEAN, sse \in BOOLEAN :
          Becomes(r, [q EXCEPT !.pc = stage, !.fate = "taken", !.unit = unit, !.sse = sse,
                               !.won = FALSE, !.late = FALSE, !.excluded = {}, !.path = "main",
                               !.visited = {}, !.hops = 0, !.tried = {}, !.oversize = 0])
    BY <1>5 DEF Accept
  <2> DEFINE rec == [q EXCEPT !.pc = stage, !.fate = "taken", !.unit = unit, !.sse = sse,
                              !.won = FALSE, !.late = FALSE, !.excluded = {}, !.path = "main",
                              !.visited = {}, !.hops = 0, !.tried = {}, !.oversize = 0]
  <2>2. Becomes(r, rec) /\ Blank(rec)
    BY <1>1, <2>1 DEF Blank, Request, Chosen
  <2> HIDE DEF rec
  <2>3. QED BY <2>2, BlankMoves
<1>6. CASE BreakMidStream(r)
  <2>1. PICK marks, fate :
          Becomes(r, [q EXCEPT !.ended = TRUE, !.marks = marks, !.reply = "cut", !.fate = fate])
    BY <1>6 DEF BreakMidStream
  <2> DEFINE rec == [q EXCEPT !.ended = TRUE, !.marks = marks, !.reply = "cut", !.fate = fate]
  <2>2. Searches(rec, q) /\ rec.pc = q.pc /\ Becomes(r, rec)
    BY <1>1, <2>1 DEF Request, Searches
  <2>3. q.pc = "streaming"
    BY <1>6 DEF BreakMidStream, Open
  <2> HIDE DEF rec
  <2>4. QED BY <1>1, <2>2, <2>3, SearchMoves DEF Chosen
<1>7. CASE BreakBody(r)
  <2>1. PICK fate, marks :
          Becomes(r, [q EXCEPT !.ended = TRUE, !.unit = FALSE, !.reply = "cut",
                               !.fate = fate, !.marks = marks])
    BY <1>7 DEF BreakBody
  <2> DEFINE rec == [q EXCEPT !.ended = TRUE, !.unit = FALSE, !.reply = "cut",
                               !.fate = fate, !.marks = marks]
  <2>2. Searches(rec, q) /\ rec.pc = q.pc /\ Becomes(r, rec)
    BY <1>1, <2>1 DEF Request, Searches
  <2>3. q.pc = "streaming"
    BY <1>7 DEF BreakBody, Open
  <2> HIDE DEF rec
  <2>4. QED BY <1>1, <2>2, <2>3, SearchMoves DEF Chosen
<1>8. CASE EndOfStream(r)
  <2>1. PICK fate, marks, bills, reply :
          Becomes(r, [q EXCEPT !.ended = TRUE, !.sink = FALSE, !.fate = fate, !.marks = marks,
                               !.bills = bills, !.reply = reply])
    BY <1>8 DEF EndOfStream
  <2> DEFINE rec == [q EXCEPT !.ended = TRUE, !.sink = FALSE, !.fate = fate, !.marks = marks,
                               !.bills = bills, !.reply = reply]
  <2>2. Searches(rec, q) /\ rec.pc = q.pc /\ Becomes(r, rec)
    BY <1>1, <2>1 DEF Request, Searches
  <2>3. q.pc = "streaming"
    BY <1>8 DEF EndOfStream, Open
  <2> HIDE DEF rec
  <2>4. QED BY <1>1, <2>2, <2>3, SearchMoves DEF Chosen
<1>9. CASE \/ Untranslatable(r) \/ RefuseCaller(r) \/ RefuseDegraded(r)
           \/ BodyTranslated(r) \/ BodyUnusable(r) \/ BodyBroken(r)
  BY <1>9, AnsweredMoves
     DEF Untranslatable, RefuseCaller, RefuseDegraded, BodyTranslated, BodyUnusable, BodyBroken
<1>10. QED BY <1>3, <1>4, <1>5, <1>6, <1>7, <1>8, <1>9 DEF Hear

(* What flows by, the client and the deadline leave a search as it is, end *)
(* it or start one.                                                        *)
LEMMA OtherMoves ==
  ASSUME SearchInv, NEW r \in Requests, Flow(r) \/ Client(r) \/ DeadlinePasses(r)
  PROVE  \E rec : Moves(r, rec)
<1> DEFINE q == req[r]
<1>1. q \in Request /\ Fresh(q) /\ Inv
  BY Known DEF SearchInv
<1>2. CASE Flow(r)
  <2>1. q.pc = "streaming" /\ \E rec : Becomes(r, rec) /\ Searches(rec, q) /\ rec.pc = q.pc
    <3>1. CASE Chunk(r)
      <4>1. Becomes(r, [q EXCEPT !.first = TRUE])
        BY <3>1 DEF Chunk, Becomes
      <4>2. QED BY <1>1, <3>1, <4>1 DEF Chunk, Request, Searches
    <3>2. CASE SpoiltChunk(r)
      <4>1. Becomes(r, [q EXCEPT !.first = TRUE, !.spoilt = TRUE, !.fate = "failing"])
        BY <3>2, Known DEF SpoiltChunk, Becomes, Inv, TypeOK
      <4>2. LET rec == [q EXCEPT !.first = TRUE, !.spoilt = TRUE, !.fate = "failing"]
            IN  Searches(rec, q) /\ rec.pc = q.pc
        BY <1>1 DEF Request, Searches
      <4>3. QED BY <3>2, <4>1, <4>2 DEF SpoiltChunk
    <3>3. QED BY <1>2, <3>1, <3>2 DEF Flow
  <2>2. QED BY <1>1, <2>1, SearchMoves DEF Chosen
<1>3. CASE DeadlinePasses(r)
  <2> DEFINE rec == [q EXCEPT !.late = TRUE]
  <2>1. Becomes(r, rec) /\ q.pc # "upstream"
    BY <1>3 DEF DeadlinePasses, Becomes
  <2>2. Searches(rec, q) /\ rec.pc = q.pc /\ rec.lane = q.lane
    BY <1>1 DEF Request, Searches
  <2> HIDE DEF rec
  <2>3. QED BY <1>1, <2>1, <2>2, SearchMoves DEF Fresh
<1>4. CASE Arrive(r)
  <2>1. PICK p, out : Becomes(r, [Idle EXCEPT !.pc = "deciding", !.pool = p, !.excluded = out])
    BY <1>4 DEF Arrive
  <2>2. Blank([Idle EXCEPT !.pc = "deciding", !.pool = p, !.excluded = out])
    BY DEF Idle, Blank, Chosen
  <2>3. QED BY <2>1, <2>2, BlankMoves
<1>5. CASE Forget(r)
  <2>1. Blank(Idle) /\ Becomes(r, Idle)
    BY <1>5 DEF Forget, Idle, Blank, Chosen
  <2>2. QED BY <2>1, BlankMoves
<1>6. CASE Leave(r) \/ DropBody(r)
  BY <1>6, AnsweredMoves DEF Leave, DropBody
<1>7. QED BY <1>2, <1>3, <1>4, <1>5, <1>6 DEF Client

(* Every step keeps all records fresh, and sends no request to a lane that *)
(* can only fail it again.                                                 *)
LEMMA StepSearches ==
  ASSUME SearchInv, [Next]_vars
  PROVE  /\ SearchInv'
         /\ \A r \in Requests :
              Sends(r) =>
                LET l == req[r].lane
                IN  /\ l \notin req[r].tried
                    /\ req[r].path = "main" =>
                         /\ req[r].oversize > 0 => ContextMax[l] = 0 \/ ContextMax[l] > req[r].oversize
                         /\ Cardinality(req[r].tried) <= config.max_hops[req[r].pool]
<1>1. Inv /\ Inv' /\ (\A r \in Requests : Fresh(req[r])) /\ req \in [Requests -> Request]
  BY NextKeeps DEF SearchInv, Inv, TypeOK
<1>2. \/ \E r \in Requests : \E rec : Moves(r, rec)
      \/ req' = req
  BY SeekMoves, HearMoves, OtherMoves DEF Next, Step, Expire, Recover, vars
<1>3. config' = config
  BY DEF Next, Aside, vars
<1>4. \A x \in Requests : Fresh(req'[x])
  BY <1>1, <1>2 DEF Moves, Becomes
<1>5. \A x \in Requests : Fresh(req[x])'
  <2> SUFFICES ASSUME NEW x \in Requests PROVE Fresh(req[x])'
    OBVIOUS
  <2>1. Fresh(req'[x])
    BY <1>4
  <2>2. QED BY <1>3, <2>1 DEF Fresh, HopsLeft, Members
<1>6. ASSUME NEW x \in Requests, Sends(x)
      PROVE  LET l == req[x].lane
             IN  /\ l \notin req[x].tried
                 /\ req[x].path = "main" =>
                      /\ req[x].oversize > 0 => ContextMax[l] = 0 \/ ContextMax[l] > req[x].oversize
                      /\ Cardinality(req[x].tried) <= config.max_hops[req[x].pool]
  <2>1. req[x].pc \in Chosen
    BY <1>1, <1>2, <1>6 DEF Sends, Moves, Becomes
  <2>2. req[x].lane \notin req[x].tried
    BY <1>1, <2>1 DEF Fresh
  <2>3. /\ req[x].lane \in Members[req[x].pool] /\ req[x].lane \in Lanes
        /\ req[x] \in Request /\ req[x].pool \in Pools /\ config \in Config
    BY <1>1, <2>1, Known DEF Placed, Chosen
  <2>4. /\ ContextMax[req[x].lane] \in Nat /\ req[x].oversize \in Nat /\ req[x].hops \in Nat
        /\ config.max_hops[req[x].pool] \in Nat
    BY <2>3, DispatchAssumption DEF Request, Config
  <2>5. Cardinality(req[x].tried) \in Nat
    BY <2>3, PoolAssumption, FS_Subset, FS_CardinalityType DEF Request
  <2>6. req[x].path = "main" =>
          /\ req[x].oversize > 0 => ContextMax[req[x].lane] = 0 \/ ContextMax[req[x].lane] > req[x].oversize
          /\ Cardinality(req[x].tried) <= config.max_hops[req[x].pool]
    BY <1>1, <2>1, <2>3, <2>4, <2>5 DEF Fresh, HopsLeft
  <2>7. QED BY <2>2, <2>6
<1>7. QED BY <1>1, <1>5, <1>6 DEF SearchInv

(* NoWastedAttempt: failover asks no lane twice, no member whose window is *)
(* known to be too small, and no more lanes than max_hops allows, for any  *)
(* number of requests and lanes and any configuration.                     *)
THEOREM AttemptsNotWasted == Spec => NoWastedAttempt
<1>1. Init => SearchInv
  BY InitSound, IdleFresh DEF SearchInv, Init
<1>2. SearchInv /\ [Next]_vars => SearchInv'
  BY StepSearches
<1>3. SearchInv /\ [Next]_vars =>
        [\A r \in Requests :
           Sends(r) =>
             LET l == req[r].lane
             IN  /\ l \notin req[r].tried
                 /\ req[r].path = "main" =>
                      /\ req[r].oversize > 0 => ContextMax[l] = 0 \/ ContextMax[l] > req[r].oversize
                      /\ Cardinality(req[r].tried) <= config.max_hops[req[r].pool]]_vars
  BY StepSearches
<1>4. QED BY <1>1, <1>2, <1>3, PTL DEF Spec, NoWastedAttempt

-----------------------------------------------------------------------------
(* LessIsLeft.  Rank is a number written in mixed digits: the fallback     *)
(* pools still to be tried, the lanes not excluded, the lanes not skipped  *)
(* in this round, the stage, and whether the deadline is still to come.    *)
(* Lessens names the digit that each kind of step takes down; what the     *)
(* step does to the digits below it does not count.  Tidy says what the    *)
(* loop keeps of its sets between rounds: nothing is skipped when a round  *)
(* begins, the lane it weighs is not skipped yet, and nobody is on the     *)
(* least bad path but the one attempt sent there.                          *)

AtRest  == {"idle", "done", "streaming"}
Hunting == {"deciding", "upstream", "hop", "sticky", "select", "admit", "parked"}

Tidy(q) ==
  /\ q.pc \in {"deciding", "hop", "sticky", "upstream"} => q.skipped = {}
  /\ q.pc = "admit" => q.lane \notin q.skipped
  /\ q.path = "least_bad" => q.pc = "upstream"

TidyInv == SearchInv /\ \A r \in Requests : Tidy(req[r])

\* The digits of Rank.
Width == Cardinality(Lanes) + 1
Chain(q) == CASE q.path = "main"      -> Cardinality(Pools) + 1
              [] q.path = "fallback"  -> Cardinality(Pools \ q.visited) + 1
              [] q.path = "least_bad" -> 0
LanesLeft(q) == Cardinality(Lanes \ q.excluded)
LooksLeft(q) == Cardinality(Lanes \ q.skipped)
StageLeft(q) == CASE q.pc = "deciding" -> 7
                  [] q.pc = "upstream" -> 6
                  [] q.pc = "hop"      -> 5
                  [] q.pc = "sticky"   -> 4
                  [] q.pc = "select"   -> 3
                  [] q.pc = "admit"    -> 2
                  [] q.pc = "parked"   -> 1

Most == Width * Width * 8
Round(q) == (LanesLeft(q) * Width + LooksLeft(q)) * 8 + StageLeft(q)
Level(q) == CASE q.pc \in AtRest -> 0
              [] q.pc = "buffering" -> 1
              [] q.pc = "exhausted" -> 2 + Chain(q) * Most
              [] OTHER -> 2 + Chain(q) * Most + (LanesLeft(q) * Width + LooksLeft(q)) * 8
                            + StageLeft(q)

\* Rank is those digits.
LEMMA RankIs ==
  ASSUME NEW q
  PROVE  Rank(q) = (IF q.late THEN 0 ELSE 1) + 2 * Level(q)
BY SMT DEF Rank, Level, Most, Width, Chain, LanesLeft, LooksLeft, StageLeft, AtRest

\* A digit that falls outweighs the digits below it.
LEMMA Outweighs ==
  ASSUME NEW a \in Nat, NEW b \in Nat, NEW m \in Nat, a < b
  PROVE  a * m + m <= b * m /\ a * m \in Nat /\ b * m \in Nat
<1> DEFINE k == b - a - 1
<1>1. k \in Nat /\ b = a + 1 + k
  OBVIOUS
<1> HIDE DEF k
<1>2. k * m \in Nat /\ a * m \in Nat
  BY <1>1
<1>3. b * m = a * m + m + k * m
  BY <1>1
<1>4. QED BY <1>2, <1>3

\* The part of a finite set outside another is as small as it can be told.
LEMMA Outside ==
  ASSUME NEW S, IsFiniteSet(S), NEW A, NEW B, A \subseteq B
  PROVE  /\ Cardinality(S \ A) \in Nat /\ Cardinality(S \ B) \in Nat
         /\ Cardinality(S \ B) <= Cardinality(S \ A)
         /\ Cardinality(S \ A) <= Cardinality(S) /\ Cardinality(S) \in Nat
         /\ (\E x \in S : x \in B /\ x \notin A) => Cardinality(S \ B) < Cardinality(S \ A)
<1>1. /\ S \ A \in SUBSET S /\ S \ B \in SUBSET (S \ A)
      /\ IsFiniteSet(S \ A) /\ IsFiniteSet(S \ B)
  BY FS_Subset
<1>2. /\ Cardinality(S \ A) \in Nat /\ Cardinality(S \ B) \in Nat /\ Cardinality(S) \in Nat
      /\ Cardinality(S \ B) <= Cardinality(S \ A) /\ Cardinality(S \ A) <= Cardinality(S)
      /\ Cardinality(S \ B) = Cardinality(S \ A) => S \ B = S \ A
  BY <1>1, FS_Subset, FS_CardinalityType
<1>3. (\E x \in S : x \in B /\ x \notin A) => S \ B # S \ A
  OBVIOUS
<1>4. QED BY <1>2, <1>3

\* The digits are digits.
LEMMA Digits ==
  ASSUME NEW q \in Request
  PROVE  /\ Width \in Nat \ {0} /\ Chain(q) \in Nat
         /\ LanesLeft(q) \in Nat /\ LanesLeft(q) <= Width - 1
         /\ LooksLeft(q) \in Nat /\ LooksLeft(q) <= Width - 1
         /\ q.pc \in Hunting => StageLeft(q) \in 1 .. 7
         /\ q.path # "least_bad" => Chain(q) > 0
<1>1. Cardinality(Lanes) \in Nat /\ Cardinality(Pools) \in Nat
  BY PoolAssumption, FS_CardinalityType
<1>2. Width \in Nat \ {0}
  BY <1>1 DEF Width
<1>3. /\ LanesLeft(q) \in Nat /\ LanesLeft(q) <= Cardinality(Lanes)
      /\ LooksLeft(q) \in Nat /\ LooksLeft(q) <= Cardinality(Lanes)
  BY Outside, PoolAssumption DEF LanesLeft, LooksLeft
<1>4. Cardinality(Pools \ q.visited) \in Nat
  BY Outside, PoolAssumption
<1>5. q.path \in Path
  BY DEF Request
<1>6. Chain(q) \in Nat /\ (q.path # "least_bad" => Chain(q) > 0)
  BY <1>1, <1>4, <1>5 DEF Chain, Path
<1>7. q.pc \in Hunting => StageLeft(q) \in 1 .. 7
  BY DEF Hunting, StageLeft
<1>8. QED BY <1>1, <1>2, <1>3, <1>6, <1>7 DEF Width

\* A round takes less than a whole turn of its digits.
LEMMA RoundBounds ==
  ASSUME NEW q \in Request, q.pc \in Hunting
  PROVE  Round(q) \in Nat /\ 0 < Round(q) /\ Round(q) < Most /\ Most \in Nat
<1> DEFINE w == Width
           a == LanesLeft(q)
           b == LooksLeft(q)
           s == StageLeft(q)
<1>1. w \in Nat /\ a \in Nat /\ a < w /\ b \in Nat /\ b <= w - 1 /\ s \in 1 .. 7
  BY Digits
<1>2. Round(q) = (a * w + b) * 8 + s /\ Most = w * w * 8
  BY DEF Round, Most
<1> HIDE DEF w, a, b, s
<1>3. a * w + w <= w * w /\ a * w \in Nat /\ w * w \in Nat
  BY <1>1, Outweighs
<1> DEFINE aw == a * w
           ww == w * w
<1>4. aw \in Nat /\ ww \in Nat /\ aw + w <= ww /\ Round(q) = (aw + b) * 8 + s /\ Most = ww * 8
  BY <1>2, <1>3
<1> HIDE DEF aw, ww
<1>5. QED BY <1>1, <1>4

\* The digit that a step from q to n takes down.
Ends(q, n)    == n.pc \in AtRest \/ (n.pc = "buffering" /\ q.pc # "buffering")
Alike(q, n)   == n.path = q.path /\ n.visited = q.visited
Exhausts(q, n) == q.pc \in Hunting /\ n.pc = "exhausted" /\ Alike(q, n)
Proceeds(q, n) ==
  /\ q.pc \in Hunting /\ n.pc \in Hunting /\ Alike(q, n)
  /\ q.excluded \subseteq n.excluded /\ n.skipped = q.skipped
  /\ StageLeft(n) < StageLeft(q)
Skips(q, n) ==
  /\ q.pc \in Hunting /\ n.pc \in Hunting /\ Alike(q, n)
  /\ n.excluded = q.excluded /\ q.skipped \subseteq n.skipped
  /\ \E l \in Lanes : l \in n.skipped /\ l \notin q.skipped
Excludes(q, n) ==
  /\ q.pc \in Hunting /\ n.pc \in Hunting /\ Alike(q, n)
  /\ q.excluded \subseteq n.excluded
  /\ \E l \in Lanes : l \in n.excluded /\ l \notin q.excluded
FallsBackOn(q, n) ==
  /\ q.pc = "exhausted" /\ n.pc \in Hunting /\ q.path # "least_bad" /\ n.path = "fallback"
  /\ q.visited \subseteq n.visited
  /\ \E p \in Pools : p \in n.visited /\ p \notin q.visited
LastResort(q, n) ==
  q.pc = "exhausted" /\ n.pc \in Hunting /\ q.path # "least_bad" /\ n.path = "least_bad"
RunsLate(q, n) == ~q.late /\ n = [q EXCEPT !.late = TRUE]

Lessens(q, n) ==
  \/ Ends(q, n) \/ Exhausts(q, n) \/ Proceeds(q, n) \/ Skips(q, n) \/ Excludes(q, n)
  \/ FallsBackOn(q, n) \/ LastResort(q, n) \/ RunsLate(q, n)

\* What is left in each kind of stage.
LEMMA Levels ==
  ASSUME NEW q \in Request
  PROVE  /\ Level(q) \in Nat /\ Chain(q) * Most \in Nat
         /\ q.pc \in AtRest => Level(q) = 0
         /\ q.pc = "buffering" => Level(q) = 1
         /\ q.pc = "exhausted" => Level(q) = 2 + Chain(q) * Most
         /\ q.pc \in Hunting => Level(q) = 2 + Chain(q) * Most + Round(q)
         /\ q.pc \notin AtRest \cup {"buffering"} => Level(q) > 1
<1>1. Most \in Nat
  BY Digits DEF Most
<1>2. Chain(q) \in Nat
  BY Digits
<1> DEFINE c == Chain(q) * Most
<1>3. c \in Nat
  BY <1>1, <1>2
<1>4. q.pc \in Hunting => Round(q) \in Nat
  BY RoundBounds
<1>5. /\ q.pc \in AtRest \cup Hunting \cup {"buffering", "exhausted"}
      /\ AtRest = {"idle", "done", "streaming"}
      /\ Hunting = {"deciding", "upstream", "hop", "sticky", "select", "admit", "parked"}
  BY DEF Request, Stage, AtRest, Hunting
<1> DEFINE m == (LanesLeft(q) * Width + LooksLeft(q)) * 8
           s == StageLeft(q)
<1>a. q.pc \in Hunting => m \in Nat /\ s \in Nat
  <2>1. LanesLeft(q) * Width \in Nat
    BY Digits
  <2>2. QED BY <2>1, Digits
<1>b. Round(q) = m + s
  BY DEF Round
<1>6. Level(q) = CASE q.pc \in AtRest -> 0
                   [] q.pc = "buffering" -> 1
                   [] q.pc = "exhausted" -> 2 + c
                   [] OTHER -> 2 + c + m + s
  BY DEF Level
<1> HIDE DEF c, m, s
<1>7. /\ q.pc \in AtRest => Level(q) = 0
      /\ q.pc = "buffering" => Level(q) = 1
      /\ q.pc = "exhausted" => Level(q) = 2 + c
      /\ q.pc \in Hunting => Level(q) = 2 + c + Round(q)
  BY <1>3, <1>a, <1>b, <1>5, <1>6
<1>8. /\ Level(q) \in Nat
      /\ q.pc \notin AtRest \cup {"buffering"} => Level(q) > 1
  BY <1>3, <1>4, <1>5, <1>7
<1>9. QED BY <1>3, <1>7, <1>8 DEF c

\* A step down leaves less of the round.
LEMMA RoundLessens ==
  ASSUME NEW q \in Request, NEW n \in Request,
         Proceeds(q, n) \/ Skips(q, n) \/ Excludes(q, n)
  PROVE  Round(n) < Round(q)
<1> DEFINE w == Width
           a == LanesLeft(q)
           b == LooksLeft(q)
           s == StageLeft(q)
           x == LanesLeft(n)
           y == LooksLeft(n)
           t == StageLeft(n)
<1>1. /\ w \in Nat /\ a \in Nat /\ b \in Nat /\ s \in 1 .. 7
      /\ x \in Nat /\ y \in Nat /\ y <= w - 1 /\ t \in 1 .. 7
  BY Digits DEF Proceeds, Skips, Excludes
<1>2. Round(q) = (a * w + b) * 8 + s /\ Round(n) = (x * w + y) * 8 + t
  BY DEF Round
<1>3. Proceeds(q, n) => x <= a /\ y = b /\ t < s
  BY PoolAssumption, Outside DEF Proceeds, LanesLeft, LooksLeft
<1>4. Skips(q, n) => x = a /\ y < b
  BY PoolAssumption, Outside DEF Skips, LanesLeft, LooksLeft
<1>5. Excludes(q, n) => x < a
  BY PoolAssumption, Outside DEF Excludes, LanesLeft
<1> HIDE DEF w, a, b, s, x, y, t
<1> DEFINE aw == a * w
           xw == x * w
<1>6. aw \in Nat /\ xw \in Nat /\ (x < a => xw + w <= aw) /\ (x = a => xw = aw)
  BY <1>1, Outweighs
<1>7. Round(q) = (aw + b) * 8 + s /\ Round(n) = (xw + y) * 8 + t
  BY <1>2
<1> HIDE DEF aw, xw
<1>8. CASE x < a
  BY <1>1, <1>6, <1>7, <1>8
<1>9. CASE x = a /\ y < b
  BY <1>1, <1>6, <1>7, <1>9
<1>10. CASE x = a /\ y = b /\ t < s
  BY <1>1, <1>6, <1>7, <1>10
<1>11. x < a \/ (x = a /\ y < b) \/ (x = a /\ y = b /\ t < s)
  BY <1>1, <1>3, <1>4, <1>5
<1>12. QED BY <1>8, <1>9, <1>10, <1>11

\* A step to another pool, or to the last resort, leaves a shorter chain.
LEMMA ChainLessens ==
  ASSUME NEW q \in Request, NEW n \in Request, FallsBackOn(q, n) \/ LastResort(q, n)
  PROVE  Chain(n) < Chain(q)
<1>1. CASE LastResort(q, n)
  BY <1>1, Digits DEF LastResort, Chain
<1>2. CASE FallsBackOn(q, n)
  <2>1. /\ Cardinality(Pools \ n.visited) < Cardinality(Pools \ q.visited)
        /\ Cardinality(Pools \ q.visited) <= Cardinality(Pools)
        /\ Cardinality(Pools \ n.visited) \in Nat /\ Cardinality(Pools \ q.visited) \in Nat
        /\ Cardinality(Pools) \in Nat
    BY <1>2, PoolAssumption, Outside DEF FallsBackOn
  <2>2. Chain(n) = Cardinality(Pools \ n.visited) + 1
    BY <1>2 DEF FallsBackOn, Chain
  <2>3. q.path \in {"main", "fallback"}
    BY <1>2 DEF FallsBackOn, Request, Path
  <2>4. Chain(q) \in {Cardinality(Pools) + 1, Cardinality(Pools \ q.visited) + 1}
    BY <2>3 DEF Chain
  <2>5. QED BY <2>1, <2>2, <2>4
<1>3. QED BY <1>1, <1>2

\* Whatever digit a step takes down, the rank falls.
LEMMA LessensRank ==
  ASSUME NEW q \in Request, NEW n \in Request, q.pc \notin AtRest, Lessens(q, n)
  PROVE  Rank(n) < Rank(q)
<1>1. Level(q) \in Nat /\ Level(n) \in Nat /\ Chain(q) * Most \in Nat /\ Chain(n) * Most \in Nat
  BY Levels
<1>2. ASSUME Level(n) < Level(q) PROVE Rank(n) < Rank(q)
  BY <1>1, <1>2, RankIs
<1>3. CASE Ends(q, n)
  <2>1. Level(n) < Level(q)
    <3>1. CASE n.pc \in AtRest
      BY <1>1, <3>1, Levels
    <3>2. CASE n.pc = "buffering" /\ q.pc # "buffering"
      BY <1>1, <3>2, Levels
    <3>3. QED BY <1>3, <3>1, <3>2 DEF Ends
  <2>2. QED BY <1>2, <2>1
<1>4. CASE Exhausts(q, n)
  <2>1. Chain(n) = Chain(q)
    BY <1>4 DEF Exhausts, Alike, Chain
  <2>2. Level(q) = 2 + Chain(q) * Most + Round(q) /\ Level(n) = 2 + Chain(n) * Most
    BY <1>4, Levels DEF Exhausts
  <2>3. Round(q) \in Nat /\ 0 < Round(q)
    BY <1>4, RoundBounds DEF Exhausts
  <2>4. Level(n) < Level(q)
    BY <1>1, <2>1, <2>2, <2>3
  <2>5. QED BY <1>2, <2>4
<1>5. CASE Proceeds(q, n) \/ Skips(q, n) \/ Excludes(q, n)
  <2>1. q.pc \in Hunting /\ n.pc \in Hunting /\ Alike(q, n)
    BY <1>5 DEF Proceeds, Skips, Excludes
  <2>2. Chain(n) = Chain(q)
    BY <2>1 DEF Alike, Chain
  <2>3. /\ Level(q) = 2 + Chain(q) * Most + Round(q)
        /\ Level(n) = 2 + Chain(n) * Most + Round(n)
    BY <2>1, Levels
  <2>4. Round(q) \in Nat /\ Round(n) \in Nat
    BY <2>1, RoundBounds
  <2>5. Round(n) < Round(q)
    BY <1>5, RoundLessens
  <2>6. Level(n) < Level(q)
    BY <1>1, <2>2, <2>3, <2>4, <2>5
  <2>7. QED BY <1>2, <2>6
<1>6. CASE FallsBackOn(q, n) \/ LastResort(q, n)
  <2>1. q.pc = "exhausted" /\ n.pc \in Hunting
    BY <1>6 DEF FallsBackOn, LastResort
  <2>2. /\ Level(q) = 2 + Chain(q) * Most
        /\ Level(n) = 2 + Chain(n) * Most + Round(n)
    BY <2>1, Levels
  <2>3. Round(n) \in Nat /\ Round(n) < Most /\ Most \in Nat
    BY <2>1, RoundBounds
  <2>4. Chain(n) * Most + Most <= Chain(q) * Most
    BY <1>6, <2>3, ChainLessens, Digits, Outweighs
  <2>5. Level(n) < Level(q)
    BY <1>1, <2>2, <2>3, <2>4
  <2>6. QED BY <1>2, <2>5
<1>7. CASE RunsLate(q, n)
  <2>1. n.late /\ ~q.late
    BY <1>7 DEF RunsLate, Request
  <2>2. /\ n.pc = q.pc /\ n.path = q.path /\ n.visited = q.visited
        /\ n.excluded = q.excluded /\ n.skipped = q.skipped
    BY <1>7 DEF RunsLate, Request
  <2>3. /\ Chain(n) = Chain(q) /\ LanesLeft(n) = LanesLeft(q)
        /\ LooksLeft(n) = LooksLeft(q) /\ StageLeft(n) = StageLeft(q)
    BY <2>2 DEF Chain, LanesLeft, LooksLeft, StageLeft
  <2>4. Level(n) = Level(q)
    BY <2>2, <2>3 DEF Level
  <2>5. QED BY <1>1, <2>1, <2>4, RankIs
<1>8. QED BY <1>3, <1>4, <1>5, <1>6, <1>7 DEF Lessens

\* A step of r from a record to one with less left, which is tidy.
Onward(q, n) == Tidy(n) /\ (q.pc \in AtRest \/ Lessens(q, n))

\* An answer ends the search.
LEMMA AnsweredOnward ==
  ASSUME NEW q, NEW t, NEW reply
  PROVE  Onward(q, Answered(t, reply))
<1>1. LET n == Answered(t, reply) IN n.pc = "done" /\ n.path = "main"
  BY DEF Answered, Idle
<1>2. QED BY <1>1 DEF Onward, Tidy, Lessens, Ends, AtRest

\* The next stage of a round, with the same sets.
LEMMA NextStage ==
  ASSUME NEW q, NEW n, Tidy(q), q.pc \in Hunting, n.pc \in Hunting, Alike(q, n),
         q.excluded \subseteq n.excluded, n.skipped = q.skipped,
         StageLeft(n) < StageLeft(q), q.path # "least_bad",
         n.pc \in {"deciding", "hop", "sticky", "upstream"} => q.skipped = {},
         n.pc = "admit" => n.lane \notin q.skipped
  PROVE  Onward(q, n)
BY DEF Onward, Tidy, Lessens, Proceeds, Alike

\* A lane was chosen, has its permit, and is excluded from now on.
LEMMA PickedOnward ==
  ASSUME NEW q \in Request, NEW k \in Request, Tidy(q), q.pc \in Hunting, q.lane \in Lanes,
         q.lane \notin q.excluded, k.lane = q.lane, k.excluded = q.excluded, Alike(q, k)
  PROVE  Onward(q, Picked(k))
<1> DEFINE n == Picked(k)
<1>1. /\ n.pc = "upstream" /\ n.skipped = {} /\ n.excluded = k.excluded \cup {k.lane}
      /\ n.path = k.path /\ n.visited = k.visited
  BY DEF Picked, Request
<1> HIDE DEF n
<1>2. Excludes(q, n)
  BY <1>1 DEF Excludes, Alike, Hunting
<1>3. Tidy(n)
  BY <1>1 DEF Tidy
<1>4. QED BY <1>2, <1>3 DEF Onward, Lessens, n

\* The search for a lane.
LEMMA SeekOnward ==
  ASSUME TidyInv, NEW r \in Requests, Seek(r)
  PROVE  \E n : Becomes(r, n) /\ Onward(req[r], n)
<1> DEFINE q == req[r]
<1>1. /\ q \in Request /\ Tidy(q) /\ Fresh(q) /\ Inv
      /\ q.pc \in Placed => q.lane \in Lanes
      /\ q.pc \notin {"idle", "done"} => q.pool \in Pools
  BY Known DEF TidyInv, SearchInv
<1>2. q.pc # "upstream" => q.path # "least_bad"
  BY <1>1 DEF Tidy
<1>3. CASE Decide(r)
  <2>1. CASE GoesTo(r, "hop")
    <3> DEFINE n == [q EXCEPT !.pc = "hop"]
    <3>1. q.pc = "deciding" /\ Becomes(r, n)
      BY <1>3, <2>1 DEF Decide, GoesTo, Becomes
    <3>2. n.pc = "hop" /\ Alike(q, n) /\ n.excluded = q.excluded /\ n.skipped = q.skipped
      BY <1>1 DEF Request, Alike
    <3> HIDE DEF n
    <3>3. Onward(q, n)
      BY <1>1, <1>2, <3>1, <3>2, NextStage DEF Hunting, StageLeft, Tidy
    <3>4. QED BY <3>1, <3>3
  <2>2. QED BY <1>3, <2>1, AnsweredOnward DEF Decide
<1>4. CASE OutOfHops(r) \/ GiveUpWaiting(r)
  <2> DEFINE n == [Looking(q) EXCEPT !.pc = "exhausted"]
  <2>1. Becomes(r, n) /\ q.pc \in {"hop", "parked"}
    BY <1>4 DEF OutOfHops, GiveUpWaiting
  <2>2. n.pc = "exhausted" /\ Alike(q, n)
    BY <1>1 DEF Looking, Request, Alike
  <2> HIDE DEF n
  <2>3. Onward(q, n)
    BY <1>2, <2>1, <2>2 DEF Onward, Tidy, Lessens, Exhausts, Alike, Hunting
  <2>4. QED BY <2>1, <2>3
<1>5. CASE OutOfTime(r) \/ Status503(r)
  BY <1>5, AnsweredOnward DEF OutOfTime, Status503
<1>6. CASE TrySticky(r)
  <2> DEFINE l == Sticky(r)
             n == [Admitted(Looking(q), l) EXCEPT !.pc = "sticky"]
  <2>1. Becomes(r, n) /\ q.pc = "hop"
    BY <1>6 DEF TrySticky
  <2> HIDE DEF l
  <2>2. n.pc = "sticky" /\ Alike(q, n) /\ n.excluded = q.excluded /\ n.skipped = {}
    BY <1>1 DEF Looking, Admitted, Request, Alike
  <2> HIDE DEF n
  <2>3. Onward(q, n)
    BY <1>1, <1>2, <2>1, <2>2, NextStage DEF Hunting, StageLeft, Tidy
  <2>4. QED BY <2>1, <2>3
<1>7. CASE NoSticky(r) \/ StickyFull(r)
  <2> DEFINE n == [Looking(q) EXCEPT !.pc = "select"]
  <2>1. Becomes(r, n) /\ q.pc \in {"hop", "sticky"}
    BY <1>7 DEF NoSticky, StickyFull
  <2>2. n.pc = "select" /\ Alike(q, n) /\ n.excluded = q.excluded /\ n.skipped = {}
    BY <1>1 DEF Looking, Request, Alike
  <2> HIDE DEF n
  <2>3. q.skipped = {} /\ q.path # "least_bad"
    BY <1>1, <1>2, <2>1 DEF Tidy
  <2>4. StageLeft(n) < StageLeft(q)
    BY <2>1, <2>2 DEF StageLeft
  <2>5. Onward(q, n)
    BY <1>1, <2>1, <2>2, <2>3, <2>4, NextStage DEF Hunting
  <2>6. QED BY <2>1, <2>5
<1>8. CASE Select(r)
  <2>1. q.pc = "select"
    BY <1>8 DEF Select
  <2>2. ASSUME NEW l \in Choices(q), Becomes(r, [q EXCEPT !.pc = "admit", !.lane = l])
        PROVE  \E n : Becomes(r, n) /\ Onward(q, n)
    <3> DEFINE n == [q EXCEPT !.pc = "admit", !.lane = l]
    <3>1. /\ n.pc = "admit" /\ n.lane = l /\ Alike(q, n)
          /\ n.excluded = q.excluded /\ n.skipped = q.skipped
      BY <1>1 DEF Request, Alike
    <3>2. Becomes(r, n) /\ l \notin q.skipped
      BY <2>2 DEF Choices, Candidates
    <3> HIDE DEF n
    <3>3. StageLeft(n) < StageLeft(q)
      BY <2>1, <3>1 DEF StageLeft
    <3>4. Onward(q, n)
      BY <1>1, <1>2, <2>1, <3>1, <3>2, <3>3, NextStage DEF Hunting
    <3>5. QED BY <3>2, <3>4
  <2>3. ASSUME GoesTo(r, "exhausted")
        PROVE  \E n : Becomes(r, n) /\ Onward(q, n)
    <3> DEFINE n == [q EXCEPT !.pc = "exhausted"]
    <3>1. Becomes(r, n)
      BY <2>3 DEF GoesTo, Becomes
    <3>2. n.pc = "exhausted" /\ Alike(q, n)
      BY <1>1 DEF Request, Alike
    <3> HIDE DEF n
    <3>3. Onward(q, n)
      BY <1>2, <2>1, <3>2 DEF Onward, Tidy, Lessens, Exhausts, Alike, Hunting
    <3>4. QED BY <3>1, <3>3
  <2>4. QED BY <1>8, <2>2, <2>3 DEF Select
<1>9. CASE LoseRace(r)
  <2> DEFINE n == [q EXCEPT !.pc = "select", !.lane = NoLane, !.skipped = @ \cup {q.lane}]
  <2>1. Becomes(r, n) /\ q.pc = "admit"
    BY <1>9 DEF LoseRace
  <2>2. /\ n.pc = "select" /\ Alike(q, n)
        /\ n.excluded = q.excluded /\ n.skipped = q.skipped \cup {q.lane}
    BY <1>1 DEF Request, Alike
  <2>3. q.lane \in Lanes /\ q.lane \notin q.skipped
    BY <1>1, <2>1 DEF Placed, Tidy
  <2> HIDE DEF n
  <2>4. Skips(q, n)
    BY <2>1, <2>2, <2>3 DEF Skips, Hunting
  <2>5. Tidy(n)
    BY <1>2, <2>1, <2>2 DEF Tidy, Alike
  <2>6. QED BY <2>1, <2>4, <2>5 DEF Onward, Lessens
<1>10. CASE AdmitChosen(r) \/ TakePermit(r)
  <2> DEFINE m == Admitted(q, q.lane)
             wait == [m EXCEPT !.pc = "parked"]
  <2>1. /\ q.pc \in Chosen /\ q.pc \in Hunting /\ q.lane \in Lanes
        /\ \/ Becomes(r, Picked(q)) \/ Becomes(r, Picked(m))
           \/ q.pc = "admit" /\ Becomes(r, wait)
    BY <1>1, <1>10 DEF AdmitChosen, TakePermit, Chosen, Placed, Hunting
  <2>2. /\ m \in Request /\ Alike(q, m) /\ m.lane = q.lane
        /\ m.excluded = q.excluded /\ m.skipped = q.skipped
    BY <1>1, <2>1 DEF Admitted, Request, Alike
  <2> HIDE DEF m
  <2>3. /\ wait.pc = "parked" /\ Alike(q, wait)
        /\ wait.excluded = q.excluded /\ wait.skipped = q.skipped
    BY <2>2 DEF Request, Alike
  <2> HIDE DEF wait
  <2>4. q.lane \notin q.excluded
    BY <1>1, <2>1 DEF Fresh
  <2>5. Onward(q, Picked(q)) /\ Onward(q, Picked(m))
    BY <1>1, <2>1, <2>2, <2>4, PickedOnward DEF Alike
  <2>6. ASSUME q.pc = "admit" PROVE Onward(q, wait)
    <3>1. StageLeft(wait) < StageLeft(q)
      BY <2>3, <2>6 DEF StageLeft
    <3>2. QED BY <1>1, <1>2, <2>3, <2>6, <3>1, NextStage DEF Hunting
  <2>7. QED BY <2>1, <2>5, <2>6
<1>11. CASE Fallback(r)
  <2> DEFINE seen == q.visited \cup {q.pool}
             into == Mode(q)
             n == [Looking(q) EXCEPT !.pc = "hop", !.path = "fallback", !.pool = into,
                                     !.visited = seen \cup {into}]
  <2>1. /\ q.pc = "exhausted" /\ into \in Pools
        /\ Becomes(r, Answered(q, "unavailable")) \/ (into \notin seen /\ Becomes(r, n))
    BY <1>11 DEF Fallback
  <2> HIDE DEF into, seen
  <2>2. n.pc = "hop" /\ n.path = "fallback" /\ n.visited = seen \cup {into} /\ n.skipped = {}
    BY <1>1 DEF Looking, Request
  <2> HIDE DEF n
  <2>3. q.visited \subseteq seen
    BY DEF seen
  <2>4. into \notin seen => FallsBackOn(q, n)
    BY <1>2, <2>1, <2>2, <2>3 DEF FallsBackOn, Hunting
  <2>5. Tidy(n)
    BY <2>2 DEF Tidy
  <2>6. QED BY <2>1, <2>4, <2>5, AnsweredOnward DEF Onward, Lessens
<1>12. CASE LeastBad(r)
  <2>1. ASSUME NEW l \in Soonest(q.pool),
               Becomes(r, [Idle EXCEPT !.pc = "upstream", !.path = "least_bad",
                                       !.pool = q.pool, !.lane = l])
        PROVE  \E n : Becomes(r, n) /\ Onward(q, n)
    <3> DEFINE n == [Idle EXCEPT !.pc = "upstream", !.path = "least_bad",
                                 !.pool = q.pool, !.lane = l]
    <3>1. n.pc = "upstream" /\ n.path = "least_bad" /\ n.skipped = {} /\ Becomes(r, n)
      BY <2>1 DEF Idle
    <3> HIDE DEF n
    <3>2. q.pc = "exhausted"
      BY <1>12 DEF LeastBad
    <3>3. LastResort(q, n) /\ Tidy(n)
      BY <1>2, <3>1, <3>2 DEF LastResort, Tidy, Hunting
    <3>4. QED BY <3>1, <3>3 DEF Onward, Lessens
  <2>2. QED BY <1>12, <2>1, AnsweredOnward DEF LeastBad
<1>13. QED
  BY <1>3, <1>4, <1>5, <1>6, <1>7, <1>8, <1>9, <1>10, <1>11, <1>12 DEF Seek

\* What the upstream answers.
LEMMA HearOnward ==
  ASSUME TidyInv, NEW r \in Requests, Hear(r)
  PROVE  \E n : Becomes(r, n) /\ Onward(req[r], n)
<1> DEFINE q == req[r]
<1>1. q \in Request /\ Tidy(q) /\ Inv
  BY Known DEF TidyInv, SearchInv
<1>2. ASSUME NEW t \in Request, Becomes(r, NextHop(t)), Alike(q, t), q.excluded \subseteq t.excluded,
             t.skipped = q.skipped, q.pc = "upstream", q.path # "least_bad"
      PROVE  \E n : Becomes(r, n) /\ Onward(q, n)
  <2> DEFINE n == NextHop(t)
  <2>1. /\ n.pc = "hop" /\ Becomes(r, n) /\ Alike(q, n)
        /\ n.excluded = t.excluded /\ n.skipped = q.skipped
    BY <1>2 DEF NextHop, Request, Alike
  <2> HIDE DEF n
  <2>2. Onward(q, n)
    BY <1>1, <1>2, <2>1, NextStage DEF Hunting, StageLeft, Tidy
  <2>3. QED BY <2>1, <2>2
<1>3. CASE Lost(r) \/ RefuseTransient(r) \/ RefuseHardDown(r)
  <2>1. \/ \E t, reply : Becomes(r, Answered(t, reply))
        \/ /\ q.pc = "upstream" /\ q.path # "least_bad"
           /\ \E fate : Becomes(r, NextHop([q EXCEPT !.fate = fate, !.marks = @ + 1]))
    BY <1>3 DEF Lost, RefuseTransient, RefuseHardDown, Refusable
  <2>2. ASSUME NEW fate, Becomes(r, NextHop([q EXCEPT !.fate = fate, !.marks = @ + 1])),
               q.pc = "upstream", q.path # "least_bad"
        PROVE  \E n : Becomes(r, n) /\ Onward(q, n)
    <3> DEFINE n == NextHop([q EXCEPT !.fate = fate, !.marks = @ + 1])
    <3>1. /\ n.pc = "hop" /\ Becomes(r, n) /\ Alike(q, n)
          /\ n.excluded = q.excluded /\ n.skipped = q.skipped
      BY <1>1, <2>2 DEF NextHop, Request, Alike
    <3> HIDE DEF n
    <3>2. Onward(q, n)
      BY <1>1, <2>2, <3>1, NextStage DEF Hunting, StageLeft, Tidy
    <3>3. QED BY <3>1, <3>2
  <2>3. QED BY <2>1, <2>2, AnsweredOnward
<1>4. CASE RefuseOversized(r)
  <2> DEFINE out == q.excluded \cup NoLarger(q)
             most == AtLeast(q.oversize, ContextMax[q.lane])
  <2>1. PICK fate :
          Becomes(r, NextHop([q EXCEPT !.excluded = out, !.fate = fate, !.oversize = most]))
    BY <1>4 DEF RefuseOversized
  <2> DEFINE n == NextHop([q EXCEPT !.excluded = out, !.fate = fate, !.oversize = most])
  <2>2. q.pc = "upstream" /\ q.path = "main" /\ Becomes(r, n)
    BY <1>4, <2>1 DEF RefuseOversized, Refusable
  <2>3. q.excluded \subseteq out
    OBVIOUS
  <2> HIDE DEF out, most
  <2>4. n.pc = "hop" /\ Alike(q, n) /\ n.excluded = out /\ n.skipped = q.skipped
    BY <1>1 DEF NextHop, Request, Alike
  <2> HIDE DEF n
  <2>5. Onward(q, n)
    BY <1>1, <2>2, <2>3, <2>4, NextStage DEF Hunting, StageLeft, Tidy
  <2>6. QED BY <2>2, <2>5
<1>5. CASE Accept(r)
  <2>1. PICK stage \in {"buffering", "streaming"}, unit \in BOOLEAN, sse \in BOOLEAN :
          Becomes(r, [q EXCEPT !.pc = stage, !.fate = "taken", !.unit = unit, !.sse = sse,
                               !.won = FALSE, !.late = FALSE, !.excluded = {}, !.path = "main",
                               !.visited = {}, !.hops = 0, !.tried = {}, !.oversize = 0])
    BY <1>5 DEF Accept
  <2> DEFINE n == [q EXCEPT !.pc = stage, !.fate = "taken", !.unit = unit, !.sse = sse,
                            !.won = FALSE, !.late = FALSE, !.excluded = {}, !.path = "main",
                            !.visited = {}, !.hops = 0, !.tried = {}, !.oversize = 0]
  <2>2. Becomes(r, n) /\ n.pc = stage /\ n.path = "main"
    BY <1>1, <2>1 DEF Request
  <2> HIDE DEF n
  <2>3. q.pc = "upstream"
    BY <1>5 DEF Accept
  <2>4. Onward(q, n)
    BY <2>2, <2>3 DEF Onward, Tidy, Lessens, Ends, AtRest
  <2>5. QED BY <2>2, <2>4
<1>6. CASE \/ Untranslatable(r) \/ RefuseCaller(r) \/ RefuseDegraded(r)
           \/ BodyTranslated(r) \/ BodyUnusable(r) \/ BodyBroken(r)
  BY <1>6, AnsweredOnward
     DEF Untranslatable, RefuseCaller, RefuseDegraded, BodyTranslated, BodyUnusable, BodyBroken
<1>7. CASE BreakMidStream(r) \/ BreakBody(r) \/ EndOfStream(r)
  <2>1. q.pc = "streaming"
    BY <1>7 DEF BreakMidStream, BreakBody, EndOfStream, Open
  <2>2. \E n : Becomes(r, n) /\ n.pc = q.pc /\ n.path = q.path
    <3>1. CASE BreakMidStream(r)
      <4>1. PICK fate, marks : Becomes(r, [q EXCEPT !.ended = TRUE, !.marks = marks, !.reply = "cut", !.fate = fate])
        BY <3>1 DEF BreakMidStream
      <4> DEFINE n == [q EXCEPT !.ended = TRUE, !.marks = marks, !.reply = "cut", !.fate = fate]
      <4>2. Becomes(r, n) /\ n.pc = q.pc /\ n.path = q.path
        BY <1>1, <4>1 DEF Request
      <4> HIDE DEF n
      <4>3. QED BY <4>2
    <3>2. CASE BreakBody(r)
      <4>1. PICK fate, marks : Becomes(r, [q EXCEPT !.ended = TRUE, !.unit = FALSE, !.reply = "cut",
                                 !.fate = fate, !.marks = marks])
        BY <3>2 DEF BreakBody
      <4> DEFINE n == [q EXCEPT !.ended = TRUE, !.unit = FALSE, !.reply = "cut",
                                 !.fate = fate, !.marks = marks]
      <4>2. Becomes(r, n) /\ n.pc = q.pc /\ n.path = q.path
        BY <1>1, <4>1 DEF Request
      <4> HIDE DEF n
      <4>3. QED BY <4>2
    <3>3. CASE EndOfStream(r)
      <4>1. PICK fate, marks, bills, reply : Becomes(r, [q EXCEPT !.ended = TRUE, !.sink = FALSE, !.fate = fate,
                                 !.marks = marks, !.bills = bills, !.reply = reply])
        BY <3>3 DEF EndOfStream
      <4> DEFINE n == [q EXCEPT !.ended = TRUE, !.sink = FALSE, !.fate = fate,
                                 !.marks = marks, !.bills = bills, !.reply = reply]
      <4>2. Becomes(r, n) /\ n.pc = q.pc /\ n.path = q.path
        BY <1>1, <4>1 DEF Request
      <4> HIDE DEF n
      <4>3. QED BY <4>2
    <3>4. QED BY <1>7, <3>1, <3>2, <3>3
  <2>3. QED BY <1>1, <2>1, <2>2 DEF Onward, Tidy, AtRest
<1>8. QED BY <1>3, <1>4, <1>5, <1>6, <1>7 DEF Hear

\* What flows by, the client and the deadline.
LEMMA OtherOnward ==
  ASSUME TidyInv, NEW r \in Requests, Flow(r) \/ Client(r) \/ DeadlinePasses(r)
  PROVE  \E n : Becomes(r, n) /\ Onward(req[r], n)
<1> DEFINE q == req[r]
<1>1. q \in Request /\ Tidy(q) /\ Inv
  BY Known DEF TidyInv, SearchInv
<1>2. CASE Flow(r)
  <2>1. q.pc = "streaming"
    BY <1>2 DEF Flow, Chunk, SpoiltChunk
  <2>2. \E n : Becomes(r, n) /\ n.pc = q.pc /\ n.path = q.path
    <3>1. CASE Chunk(r)
      <4>1. Becomes(r, [q EXCEPT !.first = TRUE])
        BY <3>1 DEF Chunk, Becomes
      <4>2. LET n == [q EXCEPT !.first = TRUE] IN n.pc = q.pc /\ n.path = q.path
        BY <1>1 DEF Request
      <4>3. QED BY <4>1, <4>2, Zenon
    <3>2. CASE SpoiltChunk(r)
      <4>1. Becomes(r, [q EXCEPT !.first = TRUE, !.spoilt = TRUE, !.fate = "failing"])
        BY <1>1, <3>2 DEF SpoiltChunk, Becomes, Inv, TypeOK
      <4>2. LET n == [q EXCEPT !.first = TRUE, !.spoilt = TRUE, !.fate = "failing"]
            IN  n.pc = q.pc /\ n.path = q.path
        BY <1>1 DEF Request
      <4>3. QED BY <4>1, <4>2, Zenon
    <3>3. QED BY <1>2, <3>1, <3>2 DEF Flow
  <2>3. QED BY <1>1, <2>1, <2>2 DEF Onward, Tidy, AtRest
<1>3. CASE DeadlinePasses(r)
  <2> DEFINE n == [q EXCEPT !.late = TRUE]
  <2>1. Becomes(r, n) /\ ~q.late
    BY <1>3 DEF DeadlinePasses, Becomes
  <2>2. /\ n.pc = q.pc /\ n.path = q.path /\ n.skipped = q.skipped /\ n.lane = q.lane
        /\ RunsLate(q, n)
    BY <1>1, <2>1 DEF Request, RunsLate
  <2> HIDE DEF n
  <2>3. Onward(q, n)
    BY <1>1, <2>2 DEF Onward, Tidy, Lessens
  <2>4. QED BY <2>1, <2>3
<1>4. CASE Arrive(r)
  <2>1. q.pc = "idle"
    BY <1>4 DEF Arrive
  <2>2. PICK p, out : Becomes(r, [Idle EXCEPT !.pc = "deciding", !.pool = p, !.excluded = out])
    BY <1>4 DEF Arrive
  <2>3. Tidy([Idle EXCEPT !.pc = "deciding", !.pool = p, !.excluded = out])
    BY DEF Idle, Tidy
  <2>4. QED BY <2>1, <2>2, <2>3 DEF Onward, AtRest
<1>5. CASE Forget(r)
  <2>1. Becomes(r, Idle) /\ Tidy(Idle) /\ q.pc = "done"
    BY <1>5 DEF Forget, Idle, Tidy
  <2>2. QED BY <2>1 DEF Onward, AtRest
<1>6. CASE Leave(r) \/ DropBody(r)
  BY <1>6, AnsweredOnward DEF Leave, DropBody
<1>7. QED BY <1>2, <1>3, <1>4, <1>5, <1>6 DEF Client

\* Every step keeps all records tidy, and leaves less of the one it changes.
LEMMA StepLessens ==
  ASSUME TidyInv, [Next]_vars
  PROVE  /\ TidyInv'
         /\ \A r \in Requests :
              req[r].pc \notin {"idle", "done", "streaming"} /\ req'[r] # req[r] =>
                Rank(req'[r]) < Rank(req[r])
<1>1. SearchInv /\ SearchInv' /\ \A x \in Requests : Tidy(req[x])
  BY StepSearches DEF TidyInv
<1>2. req \in [Requests -> Request] /\ req' \in [Requests -> Request]
  BY <1>1 DEF SearchInv, Inv, TypeOK
<1>3. \/ \E r \in Requests : \E n : Becomes(r, n) /\ Onward(req[r], n)
      \/ req' = req
  BY SeekOnward, HearOnward, OtherOnward DEF Next, Step, Expire, Recover, vars
<1>4. \A x \in Requests : req'[x] = req[x] \/ Onward(req[x], req'[x])
  BY <1>2, <1>3 DEF Becomes
<1>5. \A x \in Requests : Tidy(req'[x])
  BY <1>1, <1>4 DEF Onward
<1>6. (\A x \in Requests : Tidy(req[x]))'
  BY <1>5 DEF Tidy
<1>7. ASSUME NEW x \in Requests, req[x].pc \notin AtRest, req'[x] # req[x]
      PROVE  Rank(req'[x]) < Rank(req[x])
  <2>1. Lessens(req[x], req'[x])
    BY <1>4, <1>7 DEF Onward
  <2>2. req[x] \in Request /\ req'[x] \in Request
    BY <1>2
  <2>3. QED BY <1>7, <2>1, <2>2, LessensRank
<1>8. QED BY <1>1, <1>6, <1>7 DEF TidyInv, AtRest

(* LessIsLeft: until a request has an answer to pass on, every step of it  *)
(* leaves less of it, for any number of requests, lanes and pools and any  *)
(* configuration; so failover, lost races and fallback pools end.          *)
THEOREM SearchesEnd == Spec => LessIsLeft
<1>1. Init => TidyInv
  BY InitSound, IdleFresh DEF TidyInv, SearchInv, Init, Idle, Tidy
<1>2. TidyInv /\ [Next]_vars => TidyInv'
  BY StepLessens
<1>3. TidyInv /\ [Next]_vars =>
        [\A r \in Requests :
           req[r].pc \notin {"idle", "done", "streaming"} /\ req'[r] # req[r] =>
             Rank(req'[r]) < Rank(req[r])]_vars
  BY StepLessens
<1>4. QED BY <1>1, <1>2, <1>3, PTL DEF Spec, LessIsLeft

=============================================================================
