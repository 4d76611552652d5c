--------------------------- MODULE MeteringProofs ---------------------------
(***************************************************************************)
(* Module Metering for every set of requests, limit, window, fee and cap:  *)
(* its types, the precision of the RPM limit, the balance of the books,    *)
(* the flat-fee cap and the token spend.                                   *)
(*                                                                         *)
(* Three invariants carry the argument.  LimiterInv relates the limiter's    *)
(* entry to the newest window that clock-ordered admissions have brought:  *)
(* the entry is never of a later window, it counts at least what was       *)
(* admitted there, and only an entry that is gone or old stands for        *)
(* nothing admitted.  ChargeInv says which requests are billed: none       *)
(* before its charge, and, when the store's failures turn requests away,   *)
(* every one after it.  SpendInv accounts for every millicent a window     *)
(* used: written, owed by a write under way, carried, or lost.             *)
(***************************************************************************)
EXTENDS Metering, FiniteSetTheorems, TLAPS

Dispatched == {"forwarding", "streaming", "refunding", "recording"}

\* A request past the limiter whose window may still credit its entry.
Crediting == {"charging", "forwarding", "streaming"}

LimiterInv ==
  hist.ordered =>
    /\ rate.start <= hist.latest
    /\ rate.start = hist.latest => hist.admitted <= rate.requests
    /\ rate.start < hist.latest => hist.admitted = 0
    /\ \A r \in Requests : pc[r] \in Crediting => RateOf(r) <= hist.latest

ChargeInv ==
  \A r \in Requests :
    /\ billed[r] => pc[r] \in Dispatched
    /\ failMode = "deny" /\ pc[r] \in Dispatched => billed[r]

\* What BooksBalance and FlatFeesWithinCap say of one budget window.
WindowInv(w) ==
  /\ ledger[w].spend <= Fee * Accountable(w) + hist.spent[w]
  /\ ledger[w].requests <= Accountable(w)
  /\ failMode = "deny" =>
       /\ ledger[w].spend = Fee * Accountable(w) + hist.spent[w]
       /\ ledger[w].requests = Accountable(w)
       /\ Fee * Accountable(w) <= Cap

LedgerInv == TypeOK /\ ChargeInv /\ \A w \in BudgetWindows : WindowInv(w)

-----------------------------------------------------------------------------
(* Windows, and the helpers that build entries and histories.              *)

(* A time of the run has its rate window and its budget window, and rate   *)
(* windows are times, the first of them 0.                                 *)
LEMMA Windows ==
  /\ 0 \in RateWindows
  /\ RateWindows \subseteq Nat
  /\ \A t \in 0 .. MaxNow : /\ WindowOf(t, RateWindow) \in RateWindows
                            /\ WindowOf(t, BudgetPeriod) \in BudgetWindows
<1> USE KeyAssumption
<1>1. \A t \in Nat : WindowOf(t, RateWindow) \in Nat
  <2> SUFFICES ASSUME NEW t \in Nat PROVE (t \div RateWindow) * RateWindow \in Nat
    BY DEF WindowOf
  <2>1. t \div RateWindow \in Nat
    OBVIOUS
  <2> QED BY <2>1
<1>2. WindowOf(0, RateWindow) = 0
  <2>1. 0 \div RateWindow = 0
    OBVIOUS
  <2> QED BY <2>1 DEF WindowOf
<1>3. 0 \in 0 .. MaxNow
  OBVIOUS
<1> QED BY <1>1, <1>2, <1>3 DEF RateWindows, BudgetWindows

(* The windows of a request are windows of the run.                        *)
LEMMA WindowsOfRequest ==
  ASSUME TypeOK, NEW r \in Requests
  PROVE  RateOf(r) \in RateWindows /\ BudgetOf(r) \in BudgetWindows
BY Windows DEF TypeOK, RateOf, BudgetOf

(* What an admission tells the history keeps its type.                     *)
LEMMA BroughtType ==
  ASSUME NEW h \in History, NEW w \in RateWindows, NEW count \in Nat
  PROVE  Brought(h, w, count) \in History
<1>1. RateWindows \subseteq Nat /\ 0 \in RateWindows
  BY Windows
<1>2. CASE h.ordered /\ w >= h.latest
  <2> DEFINE n == count + IF w = h.latest THEN h.admitted ELSE 0
  <2>1. n \in Nat
    BY DEF History
  <2>2. Brought(h, w, count) = [h EXCEPT !.latest = w, !.admitted = n]
    BY <1>2 DEF Brought
  <2> HIDE DEF n
  <2> QED BY <2>1, <2>2 DEF History
<1>3. CASE ~(h.ordered /\ w >= h.latest)
  <2>1. Brought(h, w, count) = [h EXCEPT !.ordered = FALSE, !.latest = 0, !.admitted = 0]
    BY <1>3 DEF Brought
  <2> QED BY <2>1, <1>1 DEF History
<1> QED BY <1>2, <1>3

(* Keeping fees keeps the type of the history, and all it says of the      *)
(* limiter.                                                                *)
LEMMA KeepingType ==
  ASSUME TypeOK, NEW rs \in SUBSET Requests
  PROVE  /\ Keeping(hist, rs) \in History
         /\ Keeping(hist, rs).spent = hist.spent
         /\ Keeping(hist, rs).ordered = hist.ordered
         /\ Keeping(hist, rs).latest = hist.latest
         /\ Keeping(hist, rs).admitted = hist.admitted
         /\ \A w \in BudgetWindows :
              /\ Cardinality({r \in rs : billed[r] /\ BudgetOf(r) = w}) \in Nat
              /\ Keeping(hist, rs).kept[w] =
                   hist.kept[w] + Cardinality({r \in rs : billed[r] /\ BudgetOf(r) = w})
<1>1. ASSUME NEW w \in BudgetWindows
      PROVE  Cardinality({r \in rs : billed[r] /\ BudgetOf(r) = w}) \in Nat
  <2>1. IsFiniteSet(rs)
    BY FS_Subset, KeyAssumption
  <2>2. IsFiniteSet({r \in rs : billed[r] /\ BudgetOf(r) = w})
    BY <2>1, FS_Subset
  <2> QED BY <2>2, FS_CardinalityType
<1> DEFINE kept == [w \in BudgetWindows |->
              hist.kept[w] + Cardinality({r \in rs : billed[r] /\ BudgetOf(r) = w})]
<1>2. hist \in History
  BY DEF TypeOK
<1>3. kept \in [BudgetWindows -> Nat]
  BY <1>1, <1>2 DEF History
<1>4. Keeping(hist, rs) = [hist EXCEPT !.kept = kept]
  BY <1>2 DEF Keeping, History
<1>5. \A w \in BudgetWindows :
        kept[w] = hist.kept[w] + Cardinality({r \in rs : billed[r] /\ BudgetOf(r) = w})
  OBVIOUS
<1> HIDE DEF kept
<1> QED BY <1>1, <1>2, <1>3, <1>4, <1>5 DEF History

(* The entry of a window is an entry, of that window.                      *)
LEMMA EntryForType ==
  ASSUME TypeOK, NEW w \in RateWindows
  PROVE  /\ EntryFor(w) \in [start : RateWindows, requests : 0 .. RpmLimit, tokens : Nat]
         /\ EntryFor(w).start = w
         /\ rate.start = w => EntryFor(w) = rate
         /\ rate.start # w => EntryFor(w).requests = 0
BY KeyAssumption DEF TypeOK, EntryFor, FreshEntry

(* A token credit leaves an entry of the type, of a window no newer than   *)
(* the newer of the two, that forgets requests only by moving on.          *)
LEMMA CreditedType ==
  ASSUME TypeOK, NEW w \in RateWindows, NEW tokens \in Nat
  PROVE  /\ Credited(w, tokens) \in
              [start : RateWindows \cup {-1}, requests : 0 .. RpmLimit, tokens : Nat]
         /\ \/ /\ Credited(w, tokens).start = rate.start
               /\ Credited(w, tokens).requests = rate.requests
            \/ /\ Credited(w, tokens).start = w
               /\ rate.start < w
<1>1. rate.start \in Int /\ w \in Nat
  <2>1. RateWindows \subseteq Nat
    BY Windows
  <2>2. rate.start \in RateWindows \cup {-1}
    BY DEF TypeOK
  <2>3. w \in Nat
    BY <2>1
  <2>4. rate.start \in Nat \/ rate.start = -1
    BY <2>1, <2>2
  <2> QED BY <2>3, <2>4
<1>2. CASE rate = NoEntry
  BY <1>2 DEF Credited, TypeOK
<1>3. CASE rate # NoEntry /\ w <= rate.start
  BY <1>3 DEF Credited, TypeOK
<1>4. CASE rate # NoEntry /\ ~(w <= rate.start)
  <2>1. Credited(w, tokens) = [start |-> w, requests |-> 0, tokens |-> tokens]
    BY <1>4 DEF Credited, FreshEntry
  <2>2. 0 \in 0 .. RpmLimit
    BY KeyAssumption
  <2>3. rate.start < w
    BY <1>1, <1>4
  <2> QED BY <2>1, <2>2, <2>3
<1> QED BY <1>2, <1>3, <1>4

-----------------------------------------------------------------------------
(* Types.                                                                  *)

(* A slot that is done with, or moves to a stage, keeps the types.         *)
LEMMA FinishedType ==
  ASSUME TypeOK, NEW r \in Requests, Finished(r)
  PROVE  /\ pc' \in [Requests -> Stages] /\ at' \in [Requests -> 0 .. MaxNow]
         /\ billed' \in [Requests -> BOOLEAN] /\ cents' \in [Requests -> Nat]
BY KeyAssumption DEF Finished, TypeOK, Stages

(* The initial state is of the type.                                       *)
LEMMA InitType == Init => TypeOK
<1> SUFFICES ASSUME Init PROVE TypeOK
  OBVIOUS
<1>1. NoEntry \in [start : RateWindows \cup {-1}, requests : 0 .. RpmLimit, tokens : Nat]
  BY KeyAssumption DEF NoEntry, FreshEntry
<1>2. NoCarry \in [window : BudgetWindows \cup {-1}, rest : 0 .. Cent - 1]
  BY KeyAssumption DEF NoCarry
<1>3. None \in [BudgetWindows -> Nat]
  BY DEF None
<1>4. hist \in History
  BY <1>3, Windows DEF Init, History
<1>5. pc \in [Requests -> Stages]
  BY DEF Init, Stages
<1> QED BY <1>1, <1>2, <1>4, <1>5, KeyAssumption DEF Init, TypeOK

(* Admission keeps the types.                                              *)
LEMMA AdmissionType ==
  ASSUME TypeOK, NEW r \in Requests, Admission(r)
  PROVE  TypeOK'
<1> USE DEF Goes, Stages
<1>1. CASE Arrive(r)
  BY <1>1 DEF Arrive, TypeOK
<1>2. CASE CheckRate(r)
  <2> DEFINE w == RateOf(r)
             entry == EntryFor(w)
  <2>1. w \in RateWindows
    BY WindowsOfRequest
  <2>2. entry \in [start : RateWindows, requests : 0 .. RpmLimit, tokens : Nat]
    BY <2>1, EntryForType
  <2>3. hist \in History
    BY DEF TypeOK
  <2>4. Brought(hist, w, 0) \in History /\ Brought(hist, w, 1) \in History
    BY <2>1, <2>3, BroughtType
  <2>5. CASE rate' = entry /\ hist' = Brought(hist, w, 0) /\ Finished(r)
    BY <1>2, <2>2, <2>4, <2>5, FinishedType DEF CheckRate, TypeOK
  <2>6. CASE /\ ~(entry.requests >= RpmLimit)
             /\ rate' = [entry EXCEPT !.requests = @ + 1]
             /\ hist' = Brought(hist, w, 1)
             /\ Goes(r, "charging")
             /\ UNCHANGED <<at, billed, cents>>
    <3>1. rate' \in [start : RateWindows, requests : 0 .. RpmLimit, tokens : Nat]
      BY <2>2, <2>6, KeyAssumption
    <3> QED BY <1>2, <2>4, <2>6, <3>1 DEF CheckRate, TypeOK
  <2> QED BY <1>2, <2>5, <2>6 DEF CheckRate
<1>3. CASE Charge(r)
  <2>1. BudgetOf(r) \in BudgetWindows
    BY WindowsOfRequest
  <2>2. ledger' \in [BudgetWindows -> [spend : Nat, requests : Nat]]
    BY <1>3, <2>1, KeyAssumption DEF Charge, TypeOK
  <2> QED BY <1>3, <2>2 DEF Charge, TypeOK
<1>4. CASE OverBudget(r)
  BY <1>4, FinishedType DEF OverBudget, TypeOK
<1>5. CASE ChargeFails(r)
  <2>1. errors' \in 0 .. MaxErrors
    BY <1>5, KeyAssumption DEF ChargeFails, StoreErrs, TypeOK
  <2> QED BY <1>5, <2>1, FinishedType DEF ChargeFails, TypeOK
<1> QED BY <1>1, <1>2, <1>3, <1>4, <1>5 DEF Admission

\* So do its outcomes ...
LEMMA OutcomeType ==
  ASSUME TypeOK, NEW r \in Requests, Outcome(r)
  PROVE  TypeOK'
<1> USE DEF Goes, Stages
<1>1. CASE AnswerOk(r)
  BY <1>1 DEF AnswerOk, TypeOK
<1>2. CASE AnswerError(r)
  BY <1>2 DEF AnswerError, TypeOK
<1>3. CASE Disconnect(r)
  BY <1>3, FinishedType, KeepingType DEF Disconnect, TypeOK
<1>4. CASE StreamUnbilled(r)
  BY <1>4, FinishedType, KeepingType DEF StreamUnbilled, TypeOK
<1>5. CASE StreamEnds(r)
  <2> DEFINE w == BudgetOf(r)
  <2>1. w \in BudgetWindows /\ RateOf(r) \in RateWindows
    BY WindowsOfRequest
  <2>2. PICK tokens \in TokenCounts :
          LET total == Carried(w) + tokens * TokenPrice
          IN  /\ carry' = [window |-> w, rest |-> total % Cent]
              /\ cents' = [cents EXCEPT ![r] = total \div Cent]
              /\ rate' = Credited(RateOf(r), tokens)
              /\ hist' = [hist EXCEPT !.used[w] = @ + tokens * TokenPrice]
    BY <1>5 DEF StreamEnds
  <2>3. tokens \in Nat /\ TokenPrice \in Nat
    BY KeyAssumption
  <2>4. tokens * TokenPrice \in Nat
    BY <2>3
  <2>5. Carried(w) \in Nat
    BY KeyAssumption DEF Carried, TypeOK
  <2> DEFINE used == tokens * TokenPrice
             total == Carried(w) + used
  <2>6. total \in Nat
    BY <2>4, <2>5
  <2>7. total % Cent \in 0 .. Cent - 1 /\ total \div Cent \in Nat
    <3> HIDE DEF total
    <3> QED BY <2>6, KeyAssumption
  <2>8. /\ carry' = [window |-> w, rest |-> total % Cent]
        /\ cents' = [cents EXCEPT ![r] = total \div Cent]
        /\ hist' = [hist EXCEPT !.used[w] = @ + used]
    BY <2>2
  <2> HIDE DEF total, used
  <2>9. hist' \in History
    <3>1. [hist.used EXCEPT ![w] = @ + used] \in [BudgetWindows -> Nat]
      BY <2>1, <2>4 DEF TypeOK, History, used
    <3>2. hist' = [hist EXCEPT !.used = [hist.used EXCEPT ![w] = @ + used]]
      BY <2>8
    <3> QED BY <3>1, <3>2 DEF TypeOK, History
  <2>10. rate' \in [start : RateWindows \cup {-1}, requests : 0 .. RpmLimit, tokens : Nat]
    BY <2>1, <2>2, <2>3, CreditedType
  <2>11. /\ carry' \in [window : BudgetWindows \cup {-1}, rest : 0 .. Cent - 1]
         /\ cents' \in [Requests -> Nat]
    BY <2>1, <2>7, <2>8 DEF TypeOK
  <2> QED BY <1>5, <2>9, <2>10, <2>11 DEF StreamEnds, TypeOK
<1> QED BY <1>1, <1>2, <1>3, <1>4, <1>5 DEF Outcome

\* ... and the writes it leaves behind.
LEMMA WriteType ==
  ASSUME TypeOK, NEW r \in Requests, Write(r)
  PROVE  TypeOK'
<1>0. BudgetOf(r) \in BudgetWindows
  BY WindowsOfRequest
<1>1. CASE Refund(r)
  <2>1. ledger' \in [BudgetWindows -> [spend : Nat, requests : Nat]]
    BY <1>0, <1>1, KeyAssumption DEF Refund, AtLeast0, TypeOK
  <2> QED BY <1>1, <2>1, FinishedType DEF Refund, TypeOK
<1>2. CASE Record(r)
  <2>1. ledger' \in [BudgetWindows -> [spend : Nat, requests : Nat]]
    BY <1>0, <1>2 DEF Record, TypeOK
  <2>2. Keeping(hist, {r}) \in History
    BY KeepingType
  <2>3. hist' \in History
    <3>1. [hist.spent EXCEPT ![BudgetOf(r)] = @ + cents[r]] \in [BudgetWindows -> Nat]
      BY <1>0 DEF TypeOK, History
    <3>2. hist' = [Keeping(hist, {r}) EXCEPT
                    !.spent = [hist.spent EXCEPT ![BudgetOf(r)] = @ + cents[r]]]
      BY <1>2, KeepingType DEF Record
    <3> QED BY <2>2, <3>1, <3>2 DEF History
  <2> QED BY <1>2, <2>1, <2>3, FinishedType DEF Record, TypeOK
<1>3. CASE WriteFails(r)
  <2>1. errors' \in 0 .. MaxErrors
    BY <1>3, KeyAssumption DEF WriteFails, StoreErrs, TypeOK
  <2> QED BY <1>3, <2>1, FinishedType, KeepingType DEF WriteFails, TypeOK
<1> QED BY <1>1, <1>2, <1>3 DEF Write

\* Every step of the metering keeps the types.
LEMMA NextType == TypeOK /\ [Next]_vars => TypeOK'
<1> SUFFICES ASSUME TypeOK, [Next]_vars PROVE TypeOK'
  OBVIOUS
<1>1. ASSUME NEW r \in Requests, Admission(r) \/ Outcome(r) \/ Write(r)
      PROVE  TypeOK'
  BY <1>1, AdmissionType, OutcomeType, WriteType
<1>2. NoEntry \in [start : RateWindows \cup {-1}, requests : 0 .. RpmLimit, tokens : Nat]
  BY KeyAssumption DEF NoEntry, FreshEntry
<1>3. CASE Sweep
  <2>1. PICK t \in 0 .. now : hist' = Brought(hist, WindowOf(t, RateWindow), 0)
    BY <1>3 DEF Sweep
  <2>2. t \in 0 .. MaxNow
    BY KeyAssumption DEF TypeOK
  <2>3. hist' \in History
    BY <2>1, <2>2, Windows, BroughtType DEF TypeOK
  <2> QED BY <1>2, <1>3, <2>3 DEF Sweep, TypeOK
<1>4. CASE Crash
  <2>1. NoCarry \in [window : BudgetWindows \cup {-1}, rest : 0 .. Cent - 1]
    BY KeyAssumption DEF NoCarry
  <2>2. Keeping(hist, Requests) \in History
    BY KeepingType
  <2>3. hist' \in History
    BY <1>4, <2>2, Windows DEF Crash, History
  <2> QED BY <1>2, <1>4, <2>1, <2>3, KeyAssumption DEF Crash, TypeOK, Stages
<1>5. CASE Tick
  BY <1>5, KeyAssumption DEF Tick, TypeOK
<1>6. CASE UNCHANGED vars
  BY <1>6 DEF vars, TypeOK
<1> QED BY <1>1, <1>3, <1>4, <1>5, <1>6 DEF Next

(* Every state of the metering has its type: no entry counts more requests *)
(* than the limit, no carry reaches a cent, no row is negative.            *)
THEOREM TypeCorrect == Spec => []TypeOK
BY InitType, NextType, PTL DEF Spec

-----------------------------------------------------------------------------
(* The limiter.                                                            *)

(* What the limiter compares are integers.                                 *)
LEMMA LimiterNumbers ==
  ASSUME TypeOK
  PROVE  /\ rate.start \in Int /\ rate.requests \in Nat /\ rate.requests <= RpmLimit
         /\ hist.latest \in Nat /\ hist.admitted \in Nat
         /\ \A r \in Requests : RateOf(r) \in Nat
<1>1. RateWindows \subseteq Nat
  BY Windows
<1>2. hist.latest \in Nat /\ hist.admitted \in Nat
  BY <1>1 DEF TypeOK, History
<1>3. rate.requests \in 0 .. RpmLimit
  BY DEF TypeOK
<1>4. rate.requests \in Nat /\ rate.requests <= RpmLimit
  BY <1>3, KeyAssumption
<1>5. \A r \in Requests : RateOf(r) \in Nat
  BY <1>1, WindowsOfRequest
<1>6. rate.start \in RateWindows \cup {-1}
  BY DEF TypeOK
<1>7. rate.start \in Nat \/ rate.start = -1
  BY <1>1, <1>6
<1>8. rate.start \in Int
  BY <1>7
<1> QED BY <1>2, <1>4, <1>5, <1>8

(* Nothing has been admitted at first.                                     *)
LEMMA LimiterInit == Init => LimiterInv
BY DEF Init, LimiterInv, NoEntry, FreshEntry, Crediting

(* The limiter reads no ledger: an action that leaves it, its history and  *)
(* the arrival times alone, and brings no request to it, keeps its         *)
(* invariant.                                                              *)
LEMMA LimiterUntouched ==
  ASSUME TypeOK, LimiterInv, rate' = rate,
         hist'.ordered = hist.ordered, hist'.latest = hist.latest,
         hist'.admitted = hist.admitted,
         \A q \in Requests : pc'[q] \in Crediting => pc[q] \in Crediting /\ at'[q] = at[q]
  PROVE  LimiterInv'
BY DEF LimiterInv, RateOf

(* What an admission of window w makes of the history.                     *)
LEMMA BroughtOrder ==
  ASSUME NEW h \in History, NEW w \in RateWindows, NEW count \in Nat
  PROVE  /\ Brought(h, w, count).kept = h.kept
         /\ Brought(h, w, count).spent = h.spent
         /\ Brought(h, w, count).ordered =>
              /\ h.ordered /\ h.latest <= w
              /\ Brought(h, w, count).latest = w
              /\ w = h.latest => Brought(h, w, count).admitted = count + h.admitted
              /\ w # h.latest => Brought(h, w, count).admitted = count
<1>1. RateWindows \subseteq Nat
  BY Windows
<1>2. CASE h.ordered /\ w >= h.latest
  BY <1>1, <1>2 DEF Brought, History
<1>3. CASE ~(h.ordered /\ w >= h.latest)
  BY <1>3 DEF Brought, History
<1> QED BY <1>2, <1>3

(* An admission, refused or not, moves the entry to its window and counts  *)
(* there what the history counts.                                          *)
LEMMA LimiterAdmission ==
  ASSUME TypeOK, LimiterInv, NEW r \in Requests, CheckRate(r)
  PROVE  LimiterInv'
<1> DEFINE w == RateOf(r)
           entry == EntryFor(w)
<1>1. w \in RateWindows /\ w \in Nat
  BY WindowsOfRequest, LimiterNumbers
<1>2. /\ entry \in [start : RateWindows, requests : 0 .. RpmLimit, tokens : Nat]
      /\ entry.start = w /\ (rate.start = w => entry = rate)
  BY <1>1, EntryForType
<1>3. entry.requests \in 0 .. RpmLimit
  BY <1>2
<1>4. entry.requests \in Nat
  BY <1>3, KeyAssumption
<1>5. PICK count \in {0, 1} :
        /\ hist' = Brought(hist, w, count)
        /\ rate'.start = w /\ rate'.requests = entry.requests + count
  <2>1. CASE rate' = entry /\ hist' = Brought(hist, w, 0)
    BY <1>2, <1>4, <2>1
  <2>2. CASE rate' = [entry EXCEPT !.requests = @ + 1] /\ hist' = Brought(hist, w, 1)
    BY <1>2, <2>2
  <2> QED BY <2>1, <2>2 DEF CheckRate
<1>6. \A q \in Requests : pc'[q] \in Crediting =>
        at'[q] = at[q] /\ (q = r \/ pc[q] \in Crediting)
  BY DEF CheckRate, Finished, Goes, Crediting, TypeOK
<1>7. \A q \in Requests : pc'[q] \in Crediting =>
        RateOf(q)' = RateOf(q) /\ (RateOf(q) = w \/ pc[q] \in Crediting)
  BY <1>6 DEF RateOf
<1>8. hist'.ordered =>
        /\ hist.ordered /\ hist.latest <= w /\ hist'.latest = w
        /\ w = hist.latest => hist'.admitted = count + hist.admitted
        /\ w # hist.latest => hist'.admitted = count
  <2>1. hist \in History
    BY DEF TypeOK
  <2>2. count \in Nat
    OBVIOUS
  <2> HIDE DEF w
  <2> QED BY <1>1, <1>5, <2>1, <2>2, BroughtOrder
<1> HIDE DEF w, entry
<1>9. hist'.ordered => hist'.admitted <= rate'.requests
  <2> SUFFICES ASSUME hist'.ordered PROVE hist'.admitted <= rate'.requests
    OBVIOUS
  <2>1. CASE w = hist.latest /\ rate.start = w
    BY <1>2, <1>4, <1>5, <1>8, <2>1, LimiterNumbers DEF LimiterInv
  <2>2. CASE w = hist.latest /\ rate.start # w
    <3>1. rate.start < hist.latest
      BY <1>8, <2>2, LimiterNumbers DEF LimiterInv
    <3>2. hist.admitted = 0
      BY <1>8, <3>1 DEF LimiterInv
    <3> QED BY <1>4, <1>5, <1>8, <2>2, <3>2
  <2>3. CASE w # hist.latest
    BY <1>4, <1>5, <1>8, <2>3
  <2> QED BY <2>1, <2>2, <2>3
<1>10. ASSUME hist'.ordered, NEW q \in Requests, pc'[q] \in Crediting
       PROVE  RateOf(q)' <= w
  <2>1. RateOf(q)' = RateOf(q) /\ RateOf(q) \in Nat
    BY <1>7, <1>10, LimiterNumbers
  <2>2. CASE RateOf(q) = w
    BY <1>1, <2>1, <2>2
  <2>3. CASE pc[q] \in Crediting
    <3>1. RateOf(q) <= hist.latest /\ hist.latest <= w
      BY <1>8, <1>10, <2>3 DEF LimiterInv
    <3> QED BY <1>1, <2>1, <3>1, LimiterNumbers
  <2> QED BY <1>7, <1>10, <2>2, <2>3
<1> QED BY <1>1, <1>5, <1>8, <1>9, <1>10 DEF LimiterInv

(* A token credit forgets the entry's count only when it moves the entry   *)
(* to a window that is newer, hence to one with nothing admitted before.   *)
LEMMA LimiterCredit ==
  ASSUME TypeOK, LimiterInv, NEW r \in Requests, StreamEnds(r)
  PROVE  LimiterInv'
<1>1. RateOf(r) \in RateWindows /\ RateOf(r) \in Nat
  BY WindowsOfRequest, LimiterNumbers
<1>2. /\ hist'.ordered = hist.ordered /\ hist'.latest = hist.latest
      /\ hist'.admitted = hist.admitted
  BY DEF StreamEnds, TypeOK, History
<1>3. \A q \in Requests : pc'[q] \in Crediting => pc[q] \in Crediting /\ RateOf(q)' = RateOf(q)
  BY DEF StreamEnds, Goes, Crediting, TypeOK, RateOf
<1>4. \/ rate'.start = rate.start /\ rate'.requests = rate.requests
      \/ rate'.start = RateOf(r) /\ rate.start < RateOf(r)
  <2>1. PICK tokens \in TokenCounts : rate' = Credited(RateOf(r), tokens)
    BY DEF StreamEnds
  <2>2. tokens \in Nat
    BY KeyAssumption
  <2> QED BY <1>1, <2>1, <2>2, CreditedType
<1>5. CASE rate'.start = rate.start /\ rate'.requests = rate.requests
  BY <1>2, <1>3, <1>5 DEF LimiterInv
<1>6. CASE rate'.start = RateOf(r) /\ rate.start < RateOf(r)
  <2>1. TypeOK'
    BY OutcomeType DEF Outcome
  <2>2. rate'.requests \in 0 .. RpmLimit
    BY <2>1 DEF TypeOK
  <2>3. rate'.requests \in Nat
    BY <2>2, KeyAssumption
  <2>4. hist.ordered => RateOf(r) <= hist.latest
    BY DEF LimiterInv, StreamEnds, Crediting
  <2>5. hist.ordered => rate.start < hist.latest
    BY <1>1, <1>6, <2>4, LimiterNumbers
  <2>6. hist.ordered => hist.admitted = 0
    BY <2>5 DEF LimiterInv
  <2> QED BY <1>2, <1>3, <1>6, <2>3, <2>4, <2>6 DEF LimiterInv
<1> QED BY <1>4, <1>5, <1>6

(* Another key's sweep evicts the entry only of another window: of an      *)
(* older one when admissions are in order.                                 *)
LEMMA LimiterSweep ==
  ASSUME TypeOK, LimiterInv, Sweep
  PROVE  LimiterInv'
<1>1. PICK t \in 0 .. now :
        /\ rate.start \notin {WindowOf(t, RateWindow), -1}
        /\ hist' = Brought(hist, WindowOf(t, RateWindow), 0)
  BY DEF Sweep
<1> DEFINE w == WindowOf(t, RateWindow)
<1>2. t \in 0 .. MaxNow
  BY KeyAssumption DEF TypeOK
<1>3. w \in RateWindows /\ w \in Nat
  BY <1>2, Windows
<1>4. rate.start # w /\ hist' = Brought(hist, w, 0) /\ hist \in History
  BY <1>1 DEF TypeOK
<1> HIDE DEF w
<1>5. rate'.start = -1
  BY DEF Sweep, NoEntry, FreshEntry
<1>6. hist'.ordered =>
        /\ hist.ordered /\ hist.latest <= w /\ hist'.latest = w
        /\ w = hist.latest => hist'.admitted = 0 + hist.admitted
        /\ w # hist.latest => hist'.admitted = 0
  BY <1>3, <1>4, BroughtOrder
<1>7. hist'.ordered => hist'.admitted = 0
  <2> SUFFICES ASSUME hist'.ordered, w = hist.latest PROVE hist.admitted = 0
    BY <1>6, LimiterNumbers
  <2>1. rate.start < hist.latest
    BY <1>4, <1>6, LimiterNumbers DEF LimiterInv
  <2> QED BY <1>6, <2>1 DEF LimiterInv
<1>8. ASSUME hist'.ordered, NEW q \in Requests, pc'[q] \in Crediting
      PROVE  RateOf(q)' <= hist'.latest
  <2>1. RateOf(q)' = RateOf(q) /\ pc[q] \in Crediting
    BY <1>8 DEF Sweep, RateOf
  <2>2. RateOf(q) <= hist.latest
    BY <1>6, <1>8, <2>1 DEF LimiterInv
  <2>3. RateOf(q) \in Nat /\ hist.latest \in Nat
    BY LimiterNumbers
  <2>4. hist.latest <= w /\ hist'.latest = w
    BY <1>6, <1>8
  <2>5. RateOf(q) <= w
    BY <1>3, <2>2, <2>3, <2>4
  <2> QED BY <2>1, <2>4, <2>5
<1>9. hist'.ordered => hist'.latest \in Nat
  BY <1>3, <1>6
<1> QED BY <1>5, <1>7, <1>8, <1>9 DEF LimiterInv

(* Every step of the metering keeps the limiter's invariant.               *)
LEMMA LimiterNext == TypeOK /\ LimiterInv /\ [Next]_vars => LimiterInv'
<1> SUFFICES ASSUME TypeOK, LimiterInv, [Next]_vars PROVE LimiterInv'
  OBVIOUS
<1>1. ASSUME NEW r \in Requests, Admission(r) PROVE LimiterInv'
  <2> USE DEF Finished, Goes, Crediting
  <2>1. CASE Arrive(r)
    BY <2>1, LimiterUntouched DEF Arrive, TypeOK
  <2>2. CASE CheckRate(r)
    BY <2>2, LimiterAdmission
  <2>3. CASE Charge(r)
    BY <2>3, LimiterUntouched DEF Charge, TypeOK
  <2>4. CASE OverBudget(r)
    BY <2>4, LimiterUntouched DEF OverBudget, TypeOK
  <2>5. CASE ChargeFails(r)
    BY <2>5, LimiterUntouched DEF ChargeFails, TypeOK
  <2> QED BY <1>1, <2>1, <2>2, <2>3, <2>4, <2>5 DEF Admission
<1>2. ASSUME NEW r \in Requests, Outcome(r) \/ Write(r) PROVE LimiterInv'
  <2> USE DEF Finished, Goes, Crediting
  <2>1. CASE AnswerOk(r)
    BY <2>1, LimiterUntouched DEF AnswerOk, TypeOK
  <2>2. CASE AnswerError(r)
    BY <2>2, LimiterUntouched DEF AnswerError, TypeOK
  <2>3. CASE Disconnect(r)
    BY <2>3, LimiterUntouched, KeepingType DEF Disconnect, TypeOK
  <2>4. CASE StreamUnbilled(r)
    BY <2>4, LimiterUntouched, KeepingType DEF StreamUnbilled, TypeOK
  <2>5. CASE StreamEnds(r)
    BY <2>5, LimiterCredit
  <2>6. CASE Refund(r)
    BY <2>6, LimiterUntouched DEF Refund, TypeOK
  <2>7. CASE Record(r)
    <3>1. /\ hist'.ordered = hist.ordered /\ hist'.latest = hist.latest
          /\ hist'.admitted = hist.admitted
      BY <2>7, KeepingType DEF Record, History
    <3> QED BY <2>7, <3>1, LimiterUntouched DEF Record, TypeOK
  <2>8. CASE WriteFails(r)
    BY <2>8, LimiterUntouched, KeepingType DEF WriteFails, TypeOK
  <2> QED BY <1>2, <2>1, <2>2, <2>3, <2>4, <2>5, <2>6, <2>7, <2>8 DEF Outcome, Write
<1>3. CASE Sweep
  BY <1>3, LimiterSweep
<1>4. CASE Crash
  <2>1. Keeping(hist, Requests) \in History
    BY KeepingType
  <2>2. hist'.latest = 0 /\ hist'.admitted = 0
    BY <1>4, <2>1 DEF Crash, History
  <2> QED BY <1>4, <2>2 DEF Crash, LimiterInv, NoEntry, FreshEntry, Crediting
<1>5. CASE Tick
  BY <1>5, LimiterUntouched DEF Tick
<1>6. CASE UNCHANGED vars
  BY <1>6, LimiterUntouched DEF vars
<1> QED BY <1>1, <1>2, <1>3, <1>4, <1>5, <1>6 DEF Next

(* The RPM limit is precise: while admissions reach the limiter in clock   *)
(* order no window admits more requests than the limit.                    *)
THEOREM RpmPrecise == Spec => []RpmHolds
<1>1. TypeOK /\ LimiterInv => RpmHolds
  <2> SUFFICES ASSUME TypeOK, LimiterInv, hist.ordered PROVE hist.admitted <= RpmLimit
    BY DEF RpmHolds
  <2>1. rate.start = hist.latest \/ rate.start < hist.latest
    BY LimiterNumbers DEF LimiterInv
  <2> QED BY <2>1, LimiterNumbers, KeyAssumption DEF LimiterInv
<1> QED BY <1>1, InitType, NextType, LimiterInit, LimiterNext, PTL DEF Spec

-----------------------------------------------------------------------------
(* The ledger.                                                             *)

(* One more flat fee, or one less.                                         *)
LEMMA OneFee ==
  ASSUME NEW n \in Nat
  PROVE  /\ Fee * n \in Nat
         /\ Fee * (n + 1) = Fee * n + Fee
         /\ n > 0 => Fee * (n - 1) = Fee * n - Fee
BY KeyAssumption

(* The fees of a window are finitely many.                                 *)
LEMMA PendingFinite ==
  ASSUME NEW w
  PROVE  IsFiniteSet(Pending(w)) /\ Cardinality(Pending(w)) \in Nat
<1>1. IsFiniteSet(Pending(w))
  BY KeyAssumption, FS_Subset DEF Pending
<1> QED BY <1>1, FS_CardinalityType

\* What a window accounts for is counted and summed in naturals.
LEMMA AccountableType ==
  ASSUME TypeOK, NEW w \in BudgetWindows
  PROVE  Accountable(w) \in Nat /\ hist.kept[w] \in Nat /\ hist.spent[w] \in Nat
BY PendingFinite DEF Accountable, TypeOK, History

(* A slot that is done with takes its fee, if it has one, out of the       *)
(* pending fees of its window.                                             *)
LEMMA PendingFinished ==
  ASSUME TypeOK, NEW r \in Requests, Finished(r), NEW w \in BudgetWindows
  PROVE  /\ Cardinality(Pending(w)') = Cardinality(Pending(w))
               - Cardinality({q \in {r} : billed[q] /\ BudgetOf(q) = w})
         /\ r \in Pending(w) => Cardinality({q \in {r} : billed[q] /\ BudgetOf(q) = w}) = 1
         /\ r \notin Pending(w) => Cardinality({q \in {r} : billed[q] /\ BudgetOf(q) = w}) = 0
<1>1. Pending(w)' = Pending(w) \ {r}
  BY DEF Finished, Pending, BudgetOf, TypeOK
<1>2. CASE r \in Pending(w)
  <2>1. {q \in {r} : billed[q] /\ BudgetOf(q) = w} = {r}
    BY <1>2 DEF Pending
  <2>2. Cardinality({r}) = 1
    BY FS_Singleton
  <2>3. Cardinality(Pending(w) \ {r}) = Cardinality(Pending(w)) - 1
    BY <1>2, PendingFinite, FS_RemoveElement
  <2> QED BY <1>1, <1>2, <2>1, <2>2, <2>3
<1>3. CASE r \notin Pending(w)
  <2>1. {q \in {r} : billed[q] /\ BudgetOf(q) = w} = {}
    BY <1>3 DEF Pending
  <2>2. Cardinality({}) = 0
    BY FS_EmptySet
  <2>3. Pending(w)' = Pending(w)
    BY <1>1, <1>3
  <2>4. Cardinality({q \in {r} : billed[q] /\ BudgetOf(q) = w}) = 0
    BY <2>1, <2>2
  <2>5. Cardinality(Pending(w)') = Cardinality(Pending(w)) /\ Cardinality(Pending(w)) \in Nat
    BY <2>3, PendingFinite
  <2>6. Cardinality(Pending(w)') = Cardinality(Pending(w)) - 0
    BY <2>5
  <2> QED BY <1>3, <2>4, <2>6
<1> QED BY <1>2, <1>3

(* A request that ends with its fee kept, or with none, leaves what every  *)
(* window accounts for as it was; one that ends with its fee dropped takes *)
(* it out of its own window.                                               *)
LEMMA AccountableFinished ==
  ASSUME TypeOK, NEW r \in Requests, Finished(r), NEW w \in BudgetWindows
  PROVE  /\ hist'.kept[w] = Keeping(hist, {r}).kept[w] => Accountable(w)' = Accountable(w)
         /\ hist'.kept[w] = hist.kept[w] /\ ~(billed[r] /\ BudgetOf(r) = w)
              => Accountable(w)' = Accountable(w)
         /\ hist'.kept[w] = hist.kept[w] /\ billed[r] /\ BudgetOf(r) = w
              => Accountable(w)' = Accountable(w) - 1
<1> DEFINE mine == Cardinality({q \in {r} : billed[q] /\ BudgetOf(q) = w})
           before == Cardinality(Pending(w))
           after == Cardinality(Pending(w)')
<1>1. /\ after = before - mine
      /\ r \in Pending(w) => mine = 1
      /\ r \notin Pending(w) => mine = 0
  BY PendingFinished
<1>2. Keeping(hist, {r}).kept[w] = hist.kept[w] + mine
  BY KeepingType
<1>3. before \in Nat /\ hist.kept[w] \in Nat
  BY PendingFinite, AccountableType
<1>4. Accountable(w) = hist.kept[w] + before /\ Accountable(w)' = hist'.kept[w] + after
  BY DEF Accountable
<1>5. r \in Pending(w) <=> billed[r] /\ BudgetOf(r) = w
  BY DEF Pending
<1> HIDE DEF mine, before, after
<1> QED BY <1>1, <1>2, <1>3, <1>4, <1>5

(* A window whose row, fees and token spend stay the same keeps its        *)
(* invariant.                                                              *)
LEMMA WindowKept ==
  ASSUME NEW w \in BudgetWindows, WindowInv(w), failMode' = failMode,
         ledger'[w] = ledger[w], Accountable(w)' = Accountable(w),
         hist'.spent[w] = hist.spent[w]
  PROVE  WindowInv(w)'
BY DEF WindowInv

(* A step that bills nobody and moves no billed request.                   *)
LEMMA AccountableSame ==
  ASSUME NEW w \in BudgetWindows, hist'.kept = hist.kept, billed' = billed,
         \A q \in Requests : billed[q] => at'[q] = at[q]
  PROVE  Accountable(w)' = Accountable(w)
<1>1. Pending(w)' = Pending(w)
  BY DEF Pending, BudgetOf
<1> QED BY <1>1 DEF Accountable

-----------------------------------------------------------------------------
(* The steps of the ledger's invariant.                                    *)

(* At first nothing is billed and nothing is owed.                         *)
LEMMA LedgerInit == Init => LedgerInv
<1> SUFFICES ASSUME Init PROVE LedgerInv
  OBVIOUS
<1>1. TypeOK
  BY InitType
<1>2. ChargeInv
  BY DEF Init, ChargeInv, Dispatched
<1>3. ASSUME NEW w \in BudgetWindows PROVE WindowInv(w)
  <2>1. Pending(w) = {}
    BY DEF Init, Pending
  <2>2. Accountable(w) = 0 /\ hist.spent[w] = 0
    BY <2>1, FS_EmptySet DEF Accountable, Init, None
  <2>3. Fee * Accountable(w) = 0
    BY <2>2, KeyAssumption
  <2>4. ledger[w].spend = 0 /\ ledger[w].requests = 0
    BY DEF Init
  <2> QED BY <2>2, <2>3, <2>4, KeyAssumption DEF WindowInv
<1> QED BY <1>1, <1>2, <1>3 DEF LedgerInv

(* Who is billed, and where it may then be.                                *)
LEMMA ChargeNext ==
  ASSUME TypeOK, ChargeInv, [Next]_vars
  PROVE  ChargeInv'
<1> USE DEF ChargeInv, Dispatched, Goes, Finished
<1>1. ASSUME NEW r \in Requests, Admission(r) PROVE ChargeInv'
  <2>1. CASE Arrive(r)
    BY <2>1 DEF Arrive, TypeOK
  <2>2. CASE CheckRate(r)
    BY <2>2 DEF CheckRate, TypeOK
  <2>3. CASE Charge(r)
    BY <2>3 DEF Charge, TypeOK
  <2>4. CASE OverBudget(r)
    BY <2>4 DEF OverBudget, TypeOK
  <2>5. CASE ChargeFails(r)
    BY <2>5 DEF ChargeFails, TypeOK
  <2> QED BY <1>1, <2>1, <2>2, <2>3, <2>4, <2>5 DEF Admission
<1>2. ASSUME NEW r \in Requests, Outcome(r) PROVE ChargeInv'
  <2>1. CASE AnswerOk(r)
    BY <2>1 DEF AnswerOk, TypeOK
  <2>2. CASE AnswerError(r)
    BY <2>2 DEF AnswerError, TypeOK
  <2>3. CASE Disconnect(r) \/ StreamUnbilled(r)
    BY <2>3 DEF Disconnect, StreamUnbilled, TypeOK
  <2>4. CASE StreamEnds(r)
    BY <2>4 DEF StreamEnds, TypeOK
  <2> QED BY <1>2, <2>1, <2>2, <2>3, <2>4 DEF Outcome
<1>3. ASSUME NEW r \in Requests, Write(r) PROVE ChargeInv'
  BY <1>3 DEF Write, Refund, Record, WriteFails, TypeOK
<1>4. CASE Sweep \/ Tick \/ UNCHANGED vars
  BY <1>4 DEF Sweep, Tick, vars
<1>5. CASE Crash
  BY <1>5 DEF Crash
<1> QED BY <1>1, <1>2, <1>3, <1>4, <1>5 DEF Next

(* A charge adds its fee to the row and to what the window accounts for,   *)
(* and does so only below the cap.                                         *)
LEMMA ChargeWindow ==
  ASSUME LedgerInv, NEW r \in Requests, Charge(r), NEW w \in BudgetWindows
  PROVE  WindowInv(w)'
<1>1. WindowInv(w) /\ TypeOK /\ ~billed[r]
  BY DEF LedgerInv, ChargeInv, Dispatched, Charge
<1>2. CASE w # BudgetOf(r)
  <2>1. Pending(w)' = Pending(w)
    BY <1>1, <1>2 DEF Charge, Pending, BudgetOf, TypeOK
  <2>2. ledger'[w] = ledger[w]
    BY <1>1, <1>2 DEF Charge, TypeOK
  <2> QED BY <1>1, <2>1, <2>2, WindowKept DEF Charge, Accountable
<1>3. CASE w = BudgetOf(r)
  <2>1. Pending(w)' = Pending(w) \cup {r} /\ r \notin Pending(w)
    BY <1>1, <1>3 DEF Charge, Pending, BudgetOf, TypeOK
  <2>2. Cardinality(Pending(w)') = Cardinality(Pending(w)) + 1
    BY <2>1, PendingFinite, FS_AddElement
  <2>3. Accountable(w)' = Accountable(w) + 1
    BY <1>1, <2>2, PendingFinite, AccountableType DEF Accountable, Charge
  <2>4. ledger'[w] = [spend |-> ledger[w].spend + Fee, requests |-> ledger[w].requests + 1]
    BY <1>1, <1>3 DEF Charge, TypeOK
  <2>5. /\ ledger[w].spend \in Nat /\ ledger[w].requests \in Nat /\ Fee \in Nat /\ Cap \in Nat
        /\ Accountable(w) \in Nat /\ hist.spent[w] \in Nat
    BY <1>1, AccountableType, KeyAssumption DEF TypeOK
  <2>6. Fee * Accountable(w) \in Nat /\ Fee * (Accountable(w) + 1) = Fee * Accountable(w) + Fee
    BY <2>5, OneFee
  <2>7. ledger[w].spend + Fee <= Cap /\ failMode' = failMode /\ hist' = hist
    BY <1>3 DEF Charge, Fits
  <2> DEFINE owed == Fee * Accountable(w)
             newly == Fee * (Accountable(w) + 1)
  <2>8. owed \in Nat /\ newly = owed + Fee
    BY <2>6
  <2>9. /\ ledger[w].spend <= owed + hist.spent[w]
        /\ ledger[w].requests <= Accountable(w)
        /\ failMode = "deny" => /\ ledger[w].spend = owed + hist.spent[w]
                                /\ ledger[w].requests = Accountable(w)
    BY <1>1 DEF WindowInv
  <2> SUFFICES /\ ledger[w].spend + Fee <= newly + hist.spent[w]
               /\ ledger[w].requests + 1 <= Accountable(w) + 1
               /\ failMode = "deny" =>
                    /\ ledger[w].spend + Fee = newly + hist.spent[w]
                    /\ ledger[w].requests + 1 = Accountable(w) + 1
                    /\ newly <= Cap
    BY <2>3, <2>4, <2>7 DEF WindowInv
  <2> HIDE DEF owed, newly
  <2> QED BY <2>5, <2>7, <2>8, <2>9
<1> QED BY <1>2, <1>3

(* A refund takes the fee of a billed request out of the row and out of    *)
(* what the window accounts for; that of a request the store let through   *)
(* unbilled can only leave the row short, and there is none when failures  *)
(* turn requests away.                                                     *)
LEMMA RefundWindow ==
  ASSUME LedgerInv, NEW r \in Requests, Refund(r), NEW w \in BudgetWindows
  PROVE  WindowInv(w)'
<1>1. WindowInv(w) /\ TypeOK /\ Finished(r) /\ hist' = hist /\ failMode' = failMode
  BY DEF LedgerInv, Refund
<1>2. failMode = "deny" => billed[r]
  BY DEF LedgerInv, ChargeInv, Dispatched, Refund
<1>3. CASE w # BudgetOf(r)
  <2>1. Accountable(w)' = Accountable(w)
    BY <1>1, <1>3, AccountableFinished
  <2>2. ledger'[w] = ledger[w]
    BY <1>1, <1>3 DEF Refund, TypeOK
  <2> QED BY <1>1, <2>1, <2>2, WindowKept
<1>4. CASE w = BudgetOf(r)
  <2> DEFINE spend == ledger[w].spend
             count == ledger[w].requests
             n == Accountable(w)
             spent == hist.spent[w]
  <2>1. /\ spend \in Nat /\ count \in Nat /\ Fee \in Nat /\ Cap \in Nat
        /\ n \in Nat /\ spent \in Nat
    BY <1>1, AccountableType, KeyAssumption DEF TypeOK
  <2>2. ledger'[w].spend = AtLeast0(spend - Fee) /\ ledger'[w].requests = AtLeast0(count - 1)
    BY <1>1, <1>4 DEF Refund, TypeOK
  <2>3. /\ spend <= Fee * n + spent /\ count <= n
        /\ failMode = "deny" => spend = Fee * n + spent /\ count = n /\ Fee * n <= Cap
    BY <1>1 DEF WindowInv
  <2>4. Fee * n \in Nat
    BY <2>1, OneFee
  <2>5. CASE billed[r]
    <3>1. Accountable(w)' = n - 1
      BY <1>1, <1>4, <2>5, AccountableFinished
    <3>2. n > 0
      <4>1. r \in Pending(w)
        BY <1>4, <2>5 DEF Pending
      <4>2. Cardinality(Pending(w)) # 0
        BY <4>1, PendingFinite, FS_EmptySet
      <4> QED BY <1>1, <4>2, PendingFinite, AccountableType DEF Accountable
    <3>3. Fee * (n - 1) = Fee * n - Fee
      BY <2>1, <3>2, OneFee
    <3> DEFINE owed == Fee * n
               left == Fee * (n - 1)
    <3>4. /\ left = owed - Fee /\ left \in Nat
          /\ spend <= owed + spent /\ count <= n
          /\ failMode = "deny" => spend = owed + spent /\ count = n /\ owed <= Cap
      <4>1. n - 1 \in Nat
        BY <2>1, <3>2
      <4>2. left \in Nat
        BY <4>1, OneFee
      <4> QED BY <2>3, <3>3, <4>2
    <3> SUFFICES /\ AtLeast0(spend - Fee) <= left + spent
                 /\ AtLeast0(count - 1) <= n - 1
                 /\ failMode = "deny" => /\ AtLeast0(spend - Fee) = left + spent
                                         /\ AtLeast0(count - 1) = n - 1
                                         /\ left <= Cap
      BY <1>1, <2>2, <3>1 DEF WindowInv
    <3> HIDE DEF owed, left, spend, count, n, spent
    <3> QED BY <2>1, <2>4, <3>2, <3>4 DEF AtLeast0, owed
  <2>6. CASE ~billed[r]
    <3>1. Accountable(w)' = n /\ failMode # "deny"
      BY <1>1, <1>2, <2>6, AccountableFinished
    <3>2. ledger'[w].spend <= spend /\ ledger'[w].requests <= count
      BY <2>1, <2>2 DEF AtLeast0
    <3> QED BY <1>1, <2>1, <2>2, <2>3, <2>4, <3>1, <3>2 DEF WindowInv, AtLeast0
  <2> QED BY <2>5, <2>6
<1> QED BY <1>3, <1>4

(* The row and the history gain the same token cents; a lost write leaves  *)
(* both alone.  Either way the request's fee stays.                        *)
LEMMA RecordWindow ==
  ASSUME LedgerInv, NEW r \in Requests, Record(r), NEW w \in BudgetWindows
  PROVE  WindowInv(w)'
<1> DEFINE h == Keeping(hist, {r})
<1>1. WindowInv(w) /\ TypeOK /\ Finished(r) /\ failMode' = failMode
  BY DEF LedgerInv, Record
<1>2. h \in History /\ h.spent = hist.spent /\ hist \in History
  BY <1>1, KeepingType DEF TypeOK
<1> HIDE DEF h
<1>3. hist' = [h EXCEPT !.spent[BudgetOf(r)] = @ + cents[r]]
  BY DEF Record, h
<1>4. hist'.kept = h.kept
  BY <1>2, <1>3 DEF History
<1>5. Accountable(w)' = Accountable(w)
  BY <1>1, <1>4, AccountableFinished DEF h
<1>6. CASE w # BudgetOf(r)
  <2>1. hist'.spent[w] = hist.spent[w]
    BY <1>2, <1>3, <1>6 DEF History
  <2>2. ledger'[w] = ledger[w]
    BY <1>1, <1>6 DEF Record, TypeOK
  <2> QED BY <1>1, <1>5, <2>1, <2>2, WindowKept
<1>7. CASE w = BudgetOf(r)
  <2>1. hist'.spent[w] = hist.spent[w] + cents[r]
    BY <1>2, <1>3, <1>7 DEF History
  <2>2. /\ ledger'[w].spend = ledger[w].spend + cents[r]
        /\ ledger'[w].requests = ledger[w].requests
    BY <1>1, <1>7 DEF Record, TypeOK
  <2>3. /\ ledger[w].spend \in Nat /\ cents[r] \in Nat
        /\ hist.spent[w] \in Nat /\ Accountable(w) \in Nat
    BY <1>1, AccountableType DEF TypeOK
  <2> DEFINE owed == Fee * Accountable(w)
  <2>4. owed \in Nat
    BY <2>3, OneFee
  <2>5. owed' = owed
    BY <1>5
  <2>6. /\ ledger[w].spend <= owed + hist.spent[w]
        /\ ledger[w].requests <= Accountable(w)
        /\ failMode = "deny" => /\ ledger[w].spend = owed + hist.spent[w]
                                /\ ledger[w].requests = Accountable(w)
                                /\ owed <= Cap
    BY <1>1 DEF WindowInv
  <2> SUFFICES /\ ledger[w].spend + cents[r] <= owed + (hist.spent[w] + cents[r])
               /\ ledger[w].requests <= Accountable(w)
               /\ failMode = "deny" =>
                    /\ ledger[w].spend + cents[r] = owed + (hist.spent[w] + cents[r])
                    /\ ledger[w].requests = Accountable(w)
                    /\ owed <= Cap
    BY <1>1, <1>5, <2>1, <2>2 DEF WindowInv
  <2> HIDE DEF owed
  <2> QED BY <2>3, <2>4, <2>6
<1> QED BY <1>6, <1>7

(* A step that ends an unbilled request and writes no row.                 *)
LEMMA WindowFinished ==
  ASSUME LedgerInv, NEW r \in Requests, Finished(r), NEW w \in BudgetWindows,
         failMode' = failMode, ledger' = ledger, ~billed[r],
         hist'.spent = hist.spent, hist'.kept = hist.kept
  PROVE  WindowInv(w)'
<1>1. WindowInv(w) /\ TypeOK
  BY DEF LedgerInv
<1>2. Accountable(w)' = Accountable(w)
  BY <1>1, AccountableFinished
<1> QED BY <1>1, <1>2, WindowKept

(* A step that bills nobody, moves no billed request and writes no row.    *)
LEMMA WindowSame ==
  ASSUME LedgerInv, NEW w \in BudgetWindows,
         failMode' = failMode, ledger' = ledger, billed' = billed,
         hist'.spent = hist.spent, hist'.kept = hist.kept,
         \A q \in Requests : billed[q] => at'[q] = at[q]
  PROVE  WindowInv(w)'
BY WindowKept, AccountableSame DEF LedgerInv

(* Every step of the metering keeps the ledger's invariant.                *)
LEMMA LedgerNext == LedgerInv /\ [Next]_vars => LedgerInv'
<1> SUFFICES ASSUME LedgerInv, [Next]_vars PROVE LedgerInv'
  OBVIOUS
<1>1. TypeOK /\ ChargeInv /\ TypeOK' /\ ChargeInv'
  BY NextType, ChargeNext DEF LedgerInv
<1>2. hist \in History
  BY <1>1 DEF TypeOK
<1> SUFFICES ASSUME NEW w \in BudgetWindows PROVE WindowInv(w)'
  BY <1>1 DEF LedgerInv
<1>3. ASSUME NEW r \in Requests, Admission(r) PROVE WindowInv(w)'
  <2>1. CASE Arrive(r)
    <3>1. ~billed[r]
      BY <1>1, <2>1 DEF Arrive, ChargeInv, Dispatched
    <3> QED BY <1>1, <2>1, <3>1, WindowSame DEF Arrive, TypeOK
  <2>2. CASE CheckRate(r)
    <3>1. RateOf(r) \in RateWindows
      BY <1>1, WindowsOfRequest
    <3>2. hist'.kept = hist.kept /\ hist'.spent = hist.spent
      BY <1>2, <2>2, <3>1, BroughtOrder DEF CheckRate
    <3>3. ~billed[r] /\ failMode' = failMode /\ ledger' = ledger
      BY <1>1, <2>2 DEF CheckRate, ChargeInv, Dispatched
    <3>4. CASE Finished(r)
      BY <3>2, <3>3, <3>4, WindowFinished
    <3>5. CASE UNCHANGED <<at, billed>>
      BY <3>2, <3>3, <3>5, WindowSame
    <3> QED BY <2>2, <3>4, <3>5 DEF CheckRate
  <2>3. CASE Charge(r)
    BY <2>3, ChargeWindow
  <2>4. CASE OverBudget(r)
    <3>1. ~billed[r]
      BY <1>1, <2>4 DEF OverBudget, ChargeInv, Dispatched
    <3> QED BY <2>4, <3>1, WindowFinished DEF OverBudget
  <2>5. CASE ChargeFails(r)
    <3>1. ~billed[r]
      BY <1>1, <2>5 DEF ChargeFails, ChargeInv, Dispatched
    <3>2. CASE Finished(r)
      BY <2>5, <3>1, <3>2, WindowFinished DEF ChargeFails
    <3>3. CASE UNCHANGED <<at, billed>>
      BY <2>5, <3>3, WindowSame DEF ChargeFails
    <3> QED BY <2>5, <3>2, <3>3 DEF ChargeFails
  <2> QED BY <1>3, <2>1, <2>2, <2>3, <2>4, <2>5 DEF Admission
<1>4. ASSUME NEW r \in Requests, Outcome(r) PROVE WindowInv(w)'
  <2>1. CASE AnswerOk(r) \/ AnswerError(r)
    BY <2>1, WindowSame DEF AnswerOk, AnswerError
  <2>2. CASE Disconnect(r) \/ StreamUnbilled(r)
    <3>1. /\ Finished(r) /\ hist' = Keeping(hist, {r})
          /\ failMode' = failMode /\ ledger' = ledger
      BY <2>2 DEF Disconnect, StreamUnbilled
    <3>2. Accountable(w)' = Accountable(w)
      BY <1>1, <3>1, AccountableFinished
    <3>3. hist'.spent = hist.spent
      BY <1>1, <3>1, KeepingType
    <3> QED BY <3>1, <3>2, <3>3, WindowKept DEF LedgerInv
  <2>3. CASE StreamEnds(r)
    <3>1. hist'.kept = hist.kept /\ hist'.spent = hist.spent
      BY <1>2, <2>3 DEF StreamEnds, History
    <3> QED BY <2>3, <3>1, WindowSame DEF StreamEnds
  <2> QED BY <1>4, <2>1, <2>2, <2>3 DEF Outcome
<1>5. ASSUME NEW r \in Requests, Write(r) PROVE WindowInv(w)'
  <2>1. CASE Refund(r)
    BY <2>1, RefundWindow
  <2>2. CASE Record(r)
    BY <2>2, RecordWindow
  <2>3. CASE WriteFails(r)
    <3>1. /\ Finished(r) /\ hist' = Keeping(hist, {r})
          /\ failMode' = failMode /\ ledger' = ledger
      BY <2>3 DEF WriteFails
    <3>2. Accountable(w)' = Accountable(w)
      BY <1>1, <3>1, AccountableFinished
    <3>3. hist'.spent = hist.spent
      BY <1>1, <3>1, KeepingType
    <3> QED BY <3>1, <3>2, <3>3, WindowKept DEF LedgerInv
  <2> QED BY <1>5, <2>1, <2>2, <2>3 DEF Write
<1>6. CASE Sweep
  <2>1. PICK t \in 0 .. now : hist' = Brought(hist, WindowOf(t, RateWindow), 0)
    BY <1>6 DEF Sweep
  <2>2. WindowOf(t, RateWindow) \in RateWindows
    BY <1>1, KeyAssumption, Windows DEF TypeOK
  <2>3. hist'.kept = hist.kept /\ hist'.spent = hist.spent
    BY <1>2, <2>1, <2>2, BroughtOrder
  <2> QED BY <1>6, <2>3, WindowSame DEF Sweep
<1>7. CASE Crash
  <2> DEFINE h == Keeping(hist, Requests)
  <2>1. /\ h \in History /\ h.spent = hist.spent
        /\ h.kept[w] = hist.kept[w] + Cardinality(Pending(w))
    BY <1>1, KeepingType DEF Pending
  <2> HIDE DEF h
  <2>2. hist'.kept = h.kept /\ hist'.spent = h.spent
    BY <1>7, <2>1 DEF Crash, History, h
  <2>3. Pending(w)' = {}
    BY <1>7 DEF Crash, Pending
  <2>4. Cardinality(Pending(w)') = 0
    BY <2>3, FS_EmptySet
  <2>5. Accountable(w)' = Accountable(w)
    BY <1>1, <2>1, <2>2, <2>4, PendingFinite, AccountableType DEF Accountable
  <2> QED BY <1>7, <2>1, <2>2, <2>5, WindowKept DEF Crash, LedgerInv
<1>8. CASE Tick
  BY <1>8, WindowSame DEF Tick
<1>9. CASE UNCHANGED vars
  BY <1>9, WindowSame DEF vars
<1> QED BY <1>3, <1>4, <1>5, <1>6, <1>7, <1>8, <1>9 DEF Next

(* The books balance: the ledger never holds more than the fees and token  *)
(* spend accounted for and, when failures turn requests away, never less.  *)
THEOREM BooksCorrect == Spec => []BooksBalance
<1>1. LedgerInv => BooksBalance
  BY DEF LedgerInv, WindowInv, BooksBalance
<1> QED BY <1>1, LedgerInit, LedgerNext, PTL DEF Spec

(* The flat fee is a hard cap, however many requests are in flight.        *)
THEOREM HardCap == Spec => []FlatFeesWithinCap
<1>1. LedgerInv => FlatFeesWithinCap
  BY DEF LedgerInv, WindowInv, FlatFeesWithinCap
<1> QED BY <1>1, LedgerInit, LedgerNext, PTL DEF Spec

-----------------------------------------------------------------------------
(* The token spend.                                                        *)

\* The cents a window is still to be written: the k-th cent of each write
\* under way.
CentsOf(r) == {r} \X (1 .. cents[r])
Recording(w) == {r \in Requests : pc[r] = "recording" /\ BudgetOf(r) = w}
Owed(w) == UNION {CentsOf(r) : r \in Recording(w)}

\* What a window used covers the cents written, those being written, and the
\* remainder that is carried.
TokenInv(w) ==
  /\ IsFiniteSet(Owed(w))
  /\ Cent * (hist.spent[w] + Cardinality(Owed(w))) + Carried(w) <= hist.used[w]

SpendInv == \A w \in BudgetWindows : TokenInv(w)

(* The cents of one request are as many as it carries.                     *)
LEMMA CentsCounted ==
  ASSUME NEW r, NEW n \in Nat
  PROVE  IsFiniteSet({r} \X (1 .. n)) /\ Cardinality({r} \X (1 .. n)) = n
<1>1. IsFiniteSet({r}) /\ Cardinality({r}) = 1
  BY FS_Singleton
<1>2. IsFiniteSet(1 .. n) /\ Cardinality(1 .. n) = n
  <2>1. IsFiniteSet(1 .. n) /\ Cardinality(1 .. n) = IF 1 > n THEN 0 ELSE n - 1 + 1
    BY FS_Interval
  <2> QED BY <2>1
<1>3. /\ IsFiniteSet({r} \X (1 .. n))
      /\ Cardinality({r} \X (1 .. n)) = Cardinality({r}) * Cardinality(1 .. n)
  BY <1>1, <1>2, FS_Product
<1> QED BY <1>1, <1>2, <1>3

\* What the invariant adds up is integers.
LEMMA TokenNumbers ==
  ASSUME TypeOK, NEW w \in BudgetWindows
  PROVE  /\ hist.spent[w] \in Nat /\ hist.used[w] \in Nat /\ Carried(w) \in Nat
         /\ \A r \in Requests : cents[r] \in Nat
         /\ IsFiniteSet(Owed(w)) => Cardinality(Owed(w)) \in Nat
BY FS_CardinalityType, KeyAssumption DEF TypeOK, History, Carried

(* A step that writes no cent and carries no more may forget cents, but    *)
(* owes none in addition.                                                  *)
LEMMA TokenFewer ==
  ASSUME TypeOK, NEW w \in BudgetWindows, TokenInv(w),
         hist'.spent[w] = hist.spent[w], hist'.used[w] = hist.used[w],
         Carried(w)' = Carried(w) \/ Carried(w)' = 0,
         Owed(w)' \subseteq Owed(w)
  PROVE  TokenInv(w)'
<1> DEFINE before == Cardinality(Owed(w))
           after == Cardinality(Owed(w)')
<1>1. /\ IsFiniteSet(Owed(w)) /\ IsFiniteSet(Owed(w)')
      /\ before \in Nat /\ after \in Nat /\ after <= before
  BY FS_Subset, FS_CardinalityType DEF TokenInv
<1>2. /\ hist.spent[w] \in Nat /\ hist.used[w] \in Nat /\ Carried(w) \in Nat
      /\ Carried(w)' \in Nat /\ Carried(w)' <= Carried(w)
  BY TokenNumbers
<1>3. Cent * (hist.spent[w] + before) + Carried(w) <= hist.used[w]
  BY DEF TokenInv
<1> HIDE DEF before, after
<1>4. Cent * (hist.spent[w] + after) <= Cent * (hist.spent[w] + before)
  <2>1. before - after \in Nat
    BY <1>1
  <2>2. Cent * (before - after) \in Nat
    BY <2>1, KeyAssumption
  <2>3. Cent * (hist.spent[w] + before) = Cent * (hist.spent[w] + after) + Cent * (before - after)
    BY <1>1, <1>2, KeyAssumption
  <2>4. Cent * (hist.spent[w] + after) \in Int
    BY <1>1, <1>2, KeyAssumption
  <2> QED BY <2>2, <2>3, <2>4
<1>5. Cent * (hist.spent[w] + after) \in Int /\ Cent * (hist.spent[w] + before) \in Int
  BY <1>1, <1>2, KeyAssumption
<1>6. Cent * (hist.spent[w] + after) + Carried(w)' <= hist.used[w]
  BY <1>2, <1>3, <1>4, <1>5
<1> QED BY <1>1, <1>6 DEF TokenInv, after

(* A request that leaves, or never was at, its write takes its cents.      *)
LEMMA OwedFewer ==
  ASSUME NEW w, \A q \in Requests : pc'[q] = "recording" =>
           pc[q] = "recording" /\ at'[q] = at[q] /\ cents'[q] = cents[q]
  PROVE  Owed(w)' \subseteq Owed(w)
<1>1. Recording(w)' \subseteq Recording(w)
  BY DEF Recording, BudgetOf
<1>2. \A q \in Recording(w)' : CentsOf(q)' = CentsOf(q)
  BY DEF CentsOf, Recording
<1> QED BY <1>1, <1>2 DEF Owed

(* A response that ends divides what it used, and what was carried, into   *)
(* cents to write and a remainder to carry.                                *)
LEMMA TokenBilled ==
  ASSUME TypeOK, SpendInv, NEW r \in Requests, StreamEnds(r), NEW w \in BudgetWindows
  PROVE  TokenInv(w)'
<1> DEFINE v == BudgetOf(r)
<1>1. PICK tokens \in TokenCounts :
        /\ carry' = [window |-> v, rest |-> (Carried(v) + tokens * TokenPrice) % Cent]
        /\ cents' = [cents EXCEPT ![r] = (Carried(v) + tokens * TokenPrice) \div Cent]
        /\ hist' = [hist EXCEPT !.used[v] = @ + tokens * TokenPrice]
  BY DEF StreamEnds
<1> DEFINE used == tokens * TokenPrice
           total == Carried(v) + used
           n == total \div Cent
           rest == total % Cent
<1>2. v \in BudgetWindows /\ pc[r] = "streaming"
  BY WindowsOfRequest DEF StreamEnds
<1>3. used \in Nat /\ Carried(v) \in Nat /\ total \in Nat
  <2>1. tokens \in Nat /\ TokenPrice \in Nat
    BY KeyAssumption
  <2> QED BY <1>2, <2>1, TokenNumbers
<1>4. n \in Nat /\ rest \in Nat /\ total = Cent * n + rest
  <2> HIDE DEF total
  <2> QED BY <1>3, KeyAssumption
<1>5. /\ carry' = [window |-> v, rest |-> rest]
      /\ cents' = [cents EXCEPT ![r] = n]
      /\ hist' = [hist EXCEPT !.used[v] = @ + used]
  BY <1>1
<1>6. /\ pc' = [pc EXCEPT ![r] = "recording"] /\ at' = at
  BY DEF StreamEnds, Goes
<1> HIDE DEF v, used, n, rest
<1>7. \A q \in Requests : q # r => pc'[q] = pc[q] /\ cents'[q] = cents[q]
  BY <1>5, <1>6 DEF TypeOK
<1>8. pc'[r] = "recording" /\ cents'[r] = n
  BY <1>5, <1>6 DEF TypeOK
<1>9. hist'.spent = hist.spent
  BY <1>5 DEF TypeOK, History
<1>10. CASE w # v
  <2>1. hist'.used[w] = hist.used[w]
    BY <1>2, <1>5, <1>10 DEF TypeOK, History
  <2>2. Carried(w)' = 0
    BY <1>5, <1>10 DEF Carried
  <2>3. Recording(w)' = Recording(w)
    BY <1>2, <1>6, <1>7, <1>10 DEF Recording, BudgetOf, v
  <2>4. \A q \in Recording(w) : CentsOf(q)' = CentsOf(q)
    BY <1>2, <1>7 DEF CentsOf, Recording
  <2>5. Owed(w)' \subseteq Owed(w)
    BY <2>3, <2>4 DEF Owed
  <2> QED BY <1>9, <2>1, <2>2, <2>5, TokenFewer DEF SpendInv
<1>11. CASE w = v
  <2> DEFINE mine == {r} \X (1 .. n)
             before == Cardinality(Owed(w))
  <2>1. hist'.used[w] = hist.used[w] + used
    BY <1>2, <1>5, <1>11 DEF TypeOK, History
  <2>2. Carried(w)' = rest
    BY <1>5, <1>11 DEF Carried
  <2>3. Recording(w)' = Recording(w) \cup {r} /\ r \notin Recording(w)
    BY <1>2, <1>6, <1>7, <1>8, <1>11 DEF Recording, BudgetOf, v
  <2>4. (\A q \in Recording(w) : CentsOf(q)' = CentsOf(q)) /\ CentsOf(r)' = mine
    BY <1>2, <1>7, <1>8 DEF CentsOf, Recording
  <2>5. Owed(w)' = Owed(w) \cup mine /\ Owed(w) \cap mine = {}
    BY <2>3, <2>4 DEF Owed, CentsOf
  <2>6. IsFiniteSet(mine) /\ Cardinality(mine) = n
    BY <1>4, CentsCounted
  <2>7. /\ IsFiniteSet(Owed(w)) /\ before \in Nat
        /\ Cent * (hist.spent[w] + before) + Carried(w) <= hist.used[w]
    BY FS_CardinalityType DEF SpendInv, TokenInv
  <2> HIDE DEF mine
  <2>8. IsFiniteSet(Owed(w)') /\ Cardinality(Owed(w)') = before + n
    <3>1. /\ IsFiniteSet(Owed(w) \cup mine)
          /\ Cardinality(Owed(w) \cup mine)
               = Cardinality(Owed(w)) + Cardinality(mine) - Cardinality(Owed(w) \cap mine)
      BY <2>6, <2>7, FS_Union
    <3>2. Cardinality(Owed(w) \cap mine) = 0
      BY <2>5, FS_EmptySet
    <3> QED BY <1>4, <2>5, <2>6, <2>7, <3>1, <3>2
  <2>9. hist.spent[w] \in Nat /\ hist.used[w] \in Nat /\ Carried(w) \in Nat
    BY TokenNumbers
  <2> HIDE DEF before
  <2>10. Cent * (hist.spent[w] + (before + n)) = Cent * (hist.spent[w] + before) + Cent * n
    BY <1>4, <2>7, <2>9, KeyAssumption
  <2>11. Cent * (hist.spent[w] + before) \in Int /\ Cent * n \in Int
    BY <1>4, <2>7, <2>9, KeyAssumption
  <2>12. Carried(w) + used = Cent * n + rest
    BY <1>4, <1>11
  <2>13. Cent * (hist.spent[w] + (before + n)) + rest <= hist.used[w] + used
    BY <1>3, <1>4, <2>7, <2>9, <2>10, <2>11, <2>12
  <2> QED BY <1>9, <2>1, <2>2, <2>8, <2>13 DEF TokenInv
<1> QED BY <1>10, <1>11

(* A write that lands turns cents owed into cents spent.                   *)
LEMMA TokenWritten ==
  ASSUME TypeOK, SpendInv, NEW r \in Requests, Record(r), NEW w \in BudgetWindows
  PROVE  TokenInv(w)'
<1> DEFINE h == Keeping(hist, {r})
<1>1. h \in History /\ h.spent = hist.spent /\ h.used = hist.used /\ hist \in History
  <2>1. hist \in History
    BY DEF TypeOK
  <2>2. h.used = hist.used
    BY <2>1 DEF Keeping, History
  <2> QED BY <2>1, <2>2, KeepingType
<1>2. /\ hist' = [h EXCEPT !.spent[BudgetOf(r)] = @ + cents[r]]
      /\ carry' = carry /\ Finished(r) /\ pc[r] = "recording"
  BY DEF Record
<1> HIDE DEF h
<1>3. /\ pc'[r] = "idle"
      /\ \A q \in Requests : q # r => pc'[q] = pc[q] /\ at'[q] = at[q] /\ cents'[q] = cents[q]
  BY <1>2 DEF Finished, TypeOK
<1>4. hist'.used = hist.used /\ Carried(w)' = Carried(w)
  BY <1>1, <1>2 DEF History, Carried
<1>5. CASE w # BudgetOf(r)
  <2>1. hist'.spent[w] = hist.spent[w]
    BY <1>1, <1>2, <1>5 DEF History
  <2>2. Owed(w)' \subseteq Owed(w)
    BY <1>3, OwedFewer
  <2> QED BY <1>4, <2>1, <2>2, TokenFewer DEF SpendInv
<1>6. CASE w = BudgetOf(r)
  <2> DEFINE n == cents[r]
             mine == {r} \X (1 .. n)
             before == Cardinality(Owed(w))
  <2>1. hist'.spent[w] = hist.spent[w] + n
    BY <1>1, <1>2, <1>6 DEF History
  <2>2. Recording(w)' = Recording(w) \ {r} /\ r \in Recording(w)
    BY <1>2, <1>3, <1>6 DEF Recording, BudgetOf
  <2>3. \A q \in Recording(w) \ {r} : CentsOf(q)' = CentsOf(q)
    BY <1>3 DEF CentsOf, Recording
  <2>4. Owed(w)' = Owed(w) \ mine /\ Owed(w) \cap mine = mine
    BY <2>2, <2>3 DEF Owed, CentsOf
  <2>5. n \in Nat /\ IsFiniteSet(mine) /\ Cardinality(mine) = n
    BY TokenNumbers, CentsCounted
  <2>6. /\ IsFiniteSet(Owed(w)) /\ before \in Nat
        /\ Cent * (hist.spent[w] + before) + Carried(w) <= hist.used[w]
    BY FS_CardinalityType DEF SpendInv, TokenInv
  <2> HIDE DEF mine
  <2>7. IsFiniteSet(Owed(w)') /\ Cardinality(Owed(w)') = before - n
    <3>1. /\ IsFiniteSet(Owed(w) \ mine)
          /\ Cardinality(Owed(w) \ mine)
               = Cardinality(Owed(w)) - Cardinality(Owed(w) \cap mine)
      BY <2>5, <2>6, FS_Difference
    <3> QED BY <2>4, <2>5, <3>1
  <2>8. hist.spent[w] \in Nat
    BY TokenNumbers
  <2> HIDE DEF before, n
  <2>9. (hist.spent[w] + n) + (before - n) = hist.spent[w] + before
    BY <2>5, <2>6, <2>8
  <2> QED BY <1>4, <2>1, <2>6, <2>7, <2>9 DEF TokenInv
<1> QED BY <1>5, <1>6

(* At first nothing is spent, owed or carried.                             *)
LEMMA SpendInit == Init => SpendInv
<1> SUFFICES ASSUME Init, NEW w \in BudgetWindows PROVE TokenInv(w)
  BY DEF SpendInv
<1>1. Recording(w) = {}
  BY DEF Init, Recording
<1>2. Owed(w) = {}
  BY <1>1 DEF Owed
<1>3. IsFiniteSet(Owed(w)) /\ Cardinality(Owed(w)) = 0
  BY <1>2, FS_EmptySet
<1>4. hist.spent[w] = 0 /\ hist.used[w] = 0
  BY DEF Init, None
<1>5. Carried(w) = 0
  BY DEF Init, Carried, NoCarry
<1> QED BY <1>3, <1>4, <1>5, KeyAssumption DEF TokenInv

(* Every step of the metering keeps the invariant of the token spend.      *)
LEMMA SpendNext == TypeOK /\ SpendInv /\ [Next]_vars => SpendInv'
<1> SUFFICES ASSUME TypeOK, SpendInv, [Next]_vars, NEW w \in BudgetWindows
             PROVE  TokenInv(w)'
  BY DEF SpendInv
<1>0. hist \in History
  BY DEF TypeOK
<1>1. ASSUME hist'.spent = hist.spent, hist'.used = hist.used,
             carry' = carry \/ carry' = NoCarry,
             \A q \in Requests : pc'[q] = "recording" =>
               pc[q] = "recording" /\ at'[q] = at[q] /\ cents'[q] = cents[q]
      PROVE  TokenInv(w)'
  <2>1. Carried(w)' = Carried(w) \/ Carried(w)' = 0
    BY <1>1 DEF Carried, NoCarry
  <2>2. Owed(w)' \subseteq Owed(w)
    BY <1>1, OwedFewer
  <2> QED BY <1>1, <2>1, <2>2, TokenFewer DEF SpendInv
<1>2. \A rs \in SUBSET Requests :
        Keeping(hist, rs).spent = hist.spent /\ Keeping(hist, rs).used = hist.used
  BY <1>0 DEF Keeping, History
<1>3. ASSUME NEW v \in RateWindows, NEW count \in Nat
      PROVE  Brought(hist, v, count).spent = hist.spent /\ Brought(hist, v, count).used = hist.used
  BY <1>0 DEF Brought, History
<1>4. ASSUME NEW r \in Requests, Admission(r) PROVE TokenInv(w)'
  <2> USE DEF Goes, Finished
  <2>1. CASE Arrive(r)
    BY <1>1, <2>1 DEF Arrive, TypeOK
  <2>2. CASE CheckRate(r)
    <3>1. hist'.spent = hist.spent /\ hist'.used = hist.used
      BY <1>3, <2>2, WindowsOfRequest DEF CheckRate
    <3> QED BY <1>1, <2>2, <3>1 DEF CheckRate, TypeOK
  <2>3. CASE Charge(r)
    BY <1>1, <2>3 DEF Charge, TypeOK
  <2>4. CASE OverBudget(r)
    BY <1>1, <2>4 DEF OverBudget, TypeOK
  <2>5. CASE ChargeFails(r)
    BY <1>1, <2>5 DEF ChargeFails, TypeOK
  <2> QED BY <1>4, <2>1, <2>2, <2>3, <2>4, <2>5 DEF Admission
<1>5. ASSUME NEW r \in Requests, Outcome(r) PROVE TokenInv(w)'
  <2> USE DEF Goes, Finished
  <2>1. CASE AnswerOk(r) \/ AnswerError(r)
    BY <1>1, <2>1 DEF AnswerOk, AnswerError, TypeOK
  <2>2. CASE Disconnect(r) \/ StreamUnbilled(r)
    BY <1>1, <1>2, <2>2 DEF Disconnect, StreamUnbilled, TypeOK
  <2>3. CASE StreamEnds(r)
    BY <2>3, TokenBilled
  <2> QED BY <1>5, <2>1, <2>2, <2>3 DEF Outcome
<1>6. ASSUME NEW r \in Requests, Write(r) PROVE TokenInv(w)'
  <2> USE DEF Finished
  <2>1. CASE Refund(r)
    BY <1>1, <2>1 DEF Refund, TypeOK
  <2>2. CASE Record(r)
    BY <2>2, TokenWritten
  <2>3. CASE WriteFails(r)
    BY <1>1, <1>2, <2>3 DEF WriteFails, TypeOK
  <2> QED BY <1>6, <2>1, <2>2, <2>3 DEF Write
<1>7. CASE Sweep
  <2>1. PICK t \in 0 .. now : hist' = Brought(hist, WindowOf(t, RateWindow), 0)
    BY <1>7 DEF Sweep
  <2>2. WindowOf(t, RateWindow) \in RateWindows
    BY KeyAssumption, Windows DEF TypeOK
  <2>3. hist'.spent = hist.spent /\ hist'.used = hist.used
    BY <1>3, <2>1, <2>2
  <2> QED BY <1>1, <1>7, <2>3 DEF Sweep
<1>8. CASE Crash
  <2> DEFINE h == Keeping(hist, Requests)
  <2>1. h \in History /\ h.spent = hist.spent /\ h.used = hist.used
    BY <1>2, KeepingType
  <2>2. hist' = [h EXCEPT !.ordered = TRUE, !.latest = 0, !.admitted = 0]
    BY <1>8 DEF Crash
  <2> HIDE DEF h
  <2>3. hist'.spent = hist.spent /\ hist'.used = hist.used
    BY <2>1, <2>2 DEF History
  <2> QED BY <1>1, <1>8, <2>3 DEF Crash
<1>9. CASE Tick \/ UNCHANGED vars
  BY <1>1, <1>9 DEF Tick, vars
<1> QED BY <1>4, <1>5, <1>6, <1>7, <1>8, <1>9 DEF Next

(* A window is never billed more token spend than its own requests used,   *)
(* however late responses of several windows interleave, whatever writes   *)
(* are lost and whenever the process dies.                                 *)
THEOREM TokensNotOverbilled == Spec => []TokensNeverOverbilled
<1>1. ASSUME TypeOK, SpendInv, NEW w \in BudgetWindows
      PROVE  Cent * hist.spent[w] <= hist.used[w]
  <2> DEFINE n == Cardinality(Owed(w))
  <2>1. n \in Nat /\ Cent * (hist.spent[w] + n) + Carried(w) <= hist.used[w]
    BY <1>1, TokenNumbers DEF SpendInv, TokenInv
  <2>2. hist.spent[w] \in Nat /\ hist.used[w] \in Nat /\ Carried(w) \in Nat
    BY <1>1, TokenNumbers
  <2> HIDE DEF n
  <2>3. Cent * (hist.spent[w] + n) = Cent * hist.spent[w] + Cent * n
    BY <2>1, <2>2, KeyAssumption
  <2>4. Cent * hist.spent[w] \in Nat /\ Cent * n \in Nat
    BY <2>1, <2>2, KeyAssumption
  <2> QED BY <2>1, <2>2, <2>3, <2>4
<1>2. TypeOK /\ SpendInv => TokensNeverOverbilled
  BY <1>1 DEF TokensNeverOverbilled
<1> QED BY <1>2, InitType, NextType, SpendInit, SpendNext, PTL DEF Spec

=============================================================================
