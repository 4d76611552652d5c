------------------------------ MODULE Metering ------------------------------
(***************************************************************************)
(* Governance of one virtual key that has a budget cap, an RPM limit and a *)
(* TPM limit: the guards of src/route.rs, the limiter and the accounting   *)
(* of src/governance.rs, and the SQLite row behind them.                   *)
(*                                                                         *)
(* Every request pins its clock once, on arrival (`charged_at`), and all   *)
(* it does to the key afterwards is attributed to that moment's windows,   *)
(* whatever the time then is.  The limiter and the sub-cent carry are in   *)
(* memory; the ledger is the durable row of each budget window.  Refunds   *)
(* and token spend are written by tasks nobody waits for.                  *)
(*                                                                         *)
(* Not here: the row's token total, which is only reported, and keys       *)
(* without limits, which skip the steps below.                             *)
(***************************************************************************)
EXTENDS Integers, FiniteSets

CONSTANTS
  Requests,        \* request slots; a slot is reused when its request is over
  RpmLimit,        \* rpm_limit
  TpmLimit,        \* tpm_limit
  RateWindow,      \* RATE_WINDOW_SECS
  BudgetPeriod,    \* seconds of a budget window
  Cap,             \* max_budget_cents
  Fee,             \* price_per_request_cents
  TokenPrice,      \* price_per_1k_tokens_cents: millicents per token
  Cent,            \* MILLICENTS_PER_CENT
  TokenCounts,     \* billable tokens a response may report
  MaxNow,          \* bound of the clock
  MaxErrors        \* bound on failing store calls

ASSUME KeyAssumption ==
  /\ IsFiniteSet(Requests)
  /\ RpmLimit \in Nat /\ TpmLimit \in Nat
  /\ RateWindow \in Nat \ {0} /\ BudgetPeriod \in Nat \ {0}
  /\ Cap \in Nat /\ Fee \in Nat /\ TokenPrice \in Nat
  /\ Cent \in Nat \ {0}
  /\ TokenCounts \subseteq Nat
  /\ MaxNow \in Nat /\ MaxErrors \in Nat

VARIABLES
  now,
  failMode,   \* budget_on_store_error; fixed when the process is configured
  rate,       \* the key's entry of the rate map, or NoEntry
  carry,      \* the key's entry of token_spend_carry
  ledger,     \* usage_counters, one row per budget window
  pc,         \* where each request, or the write it has left behind, is
  at,         \* charged_at
  billed,     \* whether the ledger holds the request's flat fee
  cents,      \* the token spend the request's last write carries
  errors,     \* store calls that have failed
  hist        \* history, see below

vars == <<now, failMode, rate, carry, ledger, pc, at, billed, cents, errors, hist>>

WindowOf(t, secs) == (t \div secs) * secs
RateWindows   == {WindowOf(t, RateWindow) : t \in 0 .. MaxNow}
BudgetWindows == {WindowOf(t, BudgetPeriod) : t \in 0 .. MaxNow}
RateOf(r)     == WindowOf(at[r], RateWindow)
BudgetOf(r)   == WindowOf(at[r], BudgetPeriod)

FreshEntry(w) == [start |-> w, requests |-> 0, tokens |-> 0]
NoEntry == FreshEntry(-1)
NoCarry == [window |-> -1, rest |-> 0]

Stages == {"idle", "arrived", "charging", "forwarding", "streaming", "refunding", "recording"}

\* Of each budget window: flat fees that will never be refunded, token cents
\* written, millicents of tokens served.  Of the limiter: whether admissions
\* have reached it in clock order, the newest window they brought, and the
\* requests it admitted there.
History == [kept : [BudgetWindows -> Nat], spent : [BudgetWindows -> Nat],
            used : [BudgetWindows -> Nat],
            ordered : BOOLEAN, latest : RateWindows, admitted : Nat]

TypeOK ==
  /\ now \in 0 .. MaxNow
  /\ failMode \in {"allow", "deny"}
  /\ rate \in [start : RateWindows \cup {-1}, requests : 0 .. RpmLimit, tokens : Nat]
  /\ carry \in [window : BudgetWindows \cup {-1}, rest : 0 .. Cent - 1]
  /\ ledger \in [BudgetWindows -> [spend : Nat, requests : Nat]]
  /\ pc \in [Requests -> Stages]
  /\ at \in [Requests -> 0 .. MaxNow]
  /\ billed \in [Requests -> BOOLEAN]
  /\ cents \in [Requests -> Nat]
  /\ errors \in 0 .. MaxErrors
  /\ hist \in History

None == [w \in BudgetWindows |-> 0]

Init ==
  /\ now = 0
  /\ failMode \in {"allow", "deny"}
  /\ rate = NoEntry
  /\ carry = NoCarry
  /\ ledger = [w \in BudgetWindows |-> [spend |-> 0, requests |-> 0]]
  /\ pc = [r \in Requests |-> "idle"]
  /\ at = [r \in Requests |-> 0]
  /\ billed = [r \in Requests |-> FALSE]
  /\ cents = [r \in Requests |-> 0]
  /\ errors = 0
  /\ hist = [kept |-> None, spent |-> None, used |-> None,
             ordered |-> TRUE, latest |-> 0, admitted |-> 0]

-----------------------------------------------------------------------------
(* Helpers.                                                                *)

Goes(r, stage) == pc' = [pc EXCEPT ![r] = stage]

\* The request is over and has no write left: its slot forgets everything.
Finished(r) ==
  /\ pc' = [pc EXCEPT ![r] = "idle"]
  /\ at' = [at EXCEPT ![r] = 0]
  /\ billed' = [billed EXCEPT ![r] = FALSE]
  /\ cents' = [cents EXCEPT ![r] = 0]

\* History: the fees of these requests stay where they are.
Keeping(h, rs) ==
  [h EXCEPT !.kept = [w \in BudgetWindows |->
                        @[w] + Cardinality({r \in rs : billed[r] /\ BudgetOf(r) = w})]]

\* History: an admission brings a window to the limiter.
Brought(h, w, count) ==
  IF h.ordered /\ w >= h.latest
  THEN [h EXCEPT !.latest = w, !.admitted = count + IF w = h.latest THEN @ ELSE 0]
  ELSE [h EXCEPT !.ordered = FALSE, !.latest = 0, !.admitted = 0]

StoreErrs == errors < MaxErrors /\ errors' = errors + 1

\* Mutant: the refund has no floor.
Unfloored(n) == n

\* MAX(0, n)
AtLeast0(n) == IF n < 0 THEN 0 ELSE n

-----------------------------------------------------------------------------
(* Admission: governance_guard.                                            *)

Arrive(r) ==
  /\ pc[r] = "idle"
  /\ Goes(r, "arrived")
  /\ at' = [at EXCEPT ![r] = now]
  /\ UNCHANGED <<now, failMode, rate, carry, ledger, billed, cents, errors, hist>>

\* The key's entry for a window: reset in place, or made, when it is not of it.
EntryFor(w) == IF rate.start = w THEN rate ELSE FreshEntry(w)

\* check_rate: one critical section of the rate map.
CheckRate(r) ==
  LET w == RateOf(r)
      entry == EntryFor(w)
      full == entry.tokens >= TpmLimit \/ entry.requests >= RpmLimit
  IN  /\ pc[r] = "arrived"
      /\ \/ /\ full
            /\ rate' = entry
            /\ hist' = Brought(hist, w, 0)
            /\ Finished(r)
         \/ /\ ~full
            /\ rate' = [entry EXCEPT !.requests = @ + 1]
            /\ hist' = Brought(hist, w, 1)
            /\ Goes(r, "charging")
            /\ UNCHANGED <<at, billed, cents>>
      /\ UNCHANGED <<now, failMode, carry, ledger, errors>>

\* Another key's admission pays the sweep: it evicts what is not of its own
\* window, and it pinned its clock when it arrived, too.
Sweep ==
  /\ \E t \in 0 .. now :
       LET w == WindowOf(t, RateWindow)
       IN  /\ rate.start \notin {w, -1}
           /\ hist' = Brought(hist, w, 0)
  /\ rate' = NoEntry
  /\ UNCHANGED <<now, failMode, carry, ledger, pc, at, billed, cents, errors>>

\* Mutant: the key is let in while it is below its cap, whatever the fee.
FitsBelowCap(spend) == Fee <= Cap /\ spend < Cap

\* The guard of the insert, then of the update, of charge_within_budget_inner.
Fits(spend) == Fee <= Cap /\ spend + Fee <= Cap

Charge(r) ==
  LET w == BudgetOf(r)
  IN  /\ pc[r] = "charging"
      /\ Fits(ledger[w].spend)
      /\ ledger' = [ledger EXCEPT ![w] = [spend |-> @.spend + Fee,
                                          requests |-> @.requests + 1]]
      /\ billed' = [billed EXCEPT ![r] = TRUE]
      /\ Goes(r, "forwarding")
      /\ UNCHANGED <<now, failMode, rate, carry, at, cents, errors, hist>>

\* Mutant: a request that was never charged is finished as one that was.
OverBudgetRefunded(r) ==
  /\ pc[r] = "charging"
  /\ ~Fits(ledger[BudgetOf(r)].spend)
  /\ Goes(r, "refunding")
  /\ UNCHANGED <<now, failMode, rate, carry, ledger, at, billed, cents, errors, hist>>

\* finish_rejected: nothing was charged, nothing is refunded.
OverBudget(r) ==
  /\ pc[r] = "charging"
  /\ ~Fits(ledger[BudgetOf(r)].spend)
  /\ Finished(r)
  /\ UNCHANGED <<now, failMode, rate, carry, ledger, errors, hist>>

\* The store fails: let through without a charge, or turned away.
ChargeFails(r) ==
  /\ pc[r] = "charging"
  /\ StoreErrs
  /\ \/ /\ failMode = "allow"
        /\ Goes(r, "forwarding")
        /\ UNCHANGED <<at, billed, cents>>
     \/ /\ failMode = "deny"
        /\ Finished(r)
  /\ UNCHANGED <<now, failMode, rate, carry, ledger, hist>>

-----------------------------------------------------------------------------
(* Outcomes.                                                               *)

\* finish on 2xx: the fee stays.
AnswerOk(r) ==
  /\ pc[r] = "forwarding"
  /\ Goes(r, "streaming")
  /\ UNCHANGED <<now, failMode, rate, carry, ledger, at, billed, cents, errors, hist>>

\* finish on anything else: refund_request, charged or not.
AnswerError(r) ==
  /\ pc[r] = "forwarding"
  /\ Goes(r, "refunding")
  /\ UNCHANGED <<now, failMode, rate, carry, ledger, at, billed, cents, errors, hist>>

\* The client goes away before the answer: the handler is dropped, its charge
\* stands (one still under way lands all the same).
Disconnect(r) ==
  /\ pc[r] = "forwarding"
  /\ hist' = Keeping(hist, {r})
  /\ Finished(r)
  /\ UNCHANGED <<now, failMode, rate, carry, ledger, errors>>

\* The body ends, breaks off or is dropped without usage to bill.
StreamUnbilled(r) ==
  /\ pc[r] = "streaming"
  /\ hist' = Keeping(hist, {r})
  /\ Finished(r)
  /\ UNCHANGED <<now, failMode, rate, carry, ledger, errors>>

\* Mutant: the remainder of one window is spent in the next.
CarriedOver(w) == carry.rest

\* The remainder record_tokens adds to: that of the same budget window.
Carried(w) == IF carry.window = w THEN carry.rest ELSE 0

\* Mutant: a credit of another window starts the entry over.
CreditedRewinding(w, tokens) ==
  CASE rate = NoEntry -> rate
    [] rate # NoEntry /\ w = rate.start -> [rate EXCEPT !.tokens = @ + tokens]
    [] OTHER -> [FreshEntry(w) EXCEPT !.tokens = tokens]

\* add_rate_tokens: the live entry, even of a later window; never a new one.
Credited(w, tokens) ==
  CASE rate = NoEntry -> rate
    [] rate # NoEntry /\ w <= rate.start -> [rate EXCEPT !.tokens = @ + tokens]
    [] OTHER -> [FreshEntry(w) EXCEPT !.tokens = tokens]

\* record_tokens: carry, the write handed to a task, the rate credit.
StreamEnds(r) ==
  LET w == BudgetOf(r)
  IN  /\ pc[r] = "streaming"
      /\ \E tokens \in TokenCounts :
           LET total == Carried(w) + tokens * TokenPrice
           IN  /\ tokens > 0
               /\ carry' = [window |-> w, rest |-> total % Cent]
               /\ cents' = [cents EXCEPT ![r] = total \div Cent]
               /\ rate' = Credited(RateOf(r), tokens)
               /\ hist' = [hist EXCEPT !.used[w] = @ + tokens * TokenPrice]
      /\ Goes(r, "recording")
      /\ UNCHANGED <<now, failMode, ledger, at, billed, errors>>

-----------------------------------------------------------------------------
(* The offloaded writes, in any order, each applied once or lost.          *)

\* refund_request_inner
Refund(r) ==
  LET w == BudgetOf(r)
  IN  /\ pc[r] = "refunding"
      /\ ledger' = [ledger EXCEPT ![w] = [spend |-> AtLeast0(@.spend - Fee),
                                          requests |-> AtLeast0(@.requests - 1)]]
      /\ Finished(r)
      /\ UNCHANGED <<now, failMode, rate, carry, errors, hist>>

\* add_usage_inner
Record(r) ==
  LET w == BudgetOf(r)
  IN  /\ pc[r] = "recording"
      /\ ledger' = [ledger EXCEPT ![w].spend = @ + cents[r]]
      /\ hist' = [Keeping(hist, {r}) EXCEPT !.spent[w] = @ + cents[r]]
      /\ Finished(r)
      /\ UNCHANGED <<now, failMode, rate, carry, errors>>

\* The error of an offloaded write is logged and forgotten.
WriteFails(r) ==
  /\ pc[r] \in {"refunding", "recording"}
  /\ StoreErrs
  /\ hist' = Keeping(hist, {r})
  /\ Finished(r)
  /\ UNCHANGED <<now, failMode, rate, carry, ledger>>

\* The process dies and comes back: the rows are what is left.
Crash ==
  /\ \E r \in Requests : pc[r] # "idle"
  /\ rate' = NoEntry
  /\ carry' = NoCarry
  /\ pc' = [r \in Requests |-> "idle"]
  /\ at' = [r \in Requests |-> 0]
  /\ billed' = [r \in Requests |-> FALSE]
  /\ cents' = [r \in Requests |-> 0]
  /\ hist' = [Keeping(hist, Requests) EXCEPT !.ordered = TRUE, !.latest = 0, !.admitted = 0]
  /\ UNCHANGED <<now, failMode, ledger, errors>>

Tick ==
  /\ now < MaxNow
  /\ now' = now + 1
  /\ UNCHANGED <<failMode, rate, carry, ledger, pc, at, billed, cents, errors, hist>>

Admission(r) == Arrive(r) \/ CheckRate(r) \/ Charge(r) \/ OverBudget(r) \/ ChargeFails(r)

Outcome(r) == \/ AnswerOk(r) \/ AnswerError(r) \/ Disconnect(r)
              \/ StreamUnbilled(r) \/ StreamEnds(r)

Write(r) == Refund(r) \/ Record(r) \/ WriteFails(r)

Next == \/ \E r \in Requests : Admission(r) \/ Outcome(r) \/ Write(r)
        \/ Sweep \/ Crash \/ Tick

Spec == Init /\ [][Next]_vars

-----------------------------------------------------------------------------
(* Properties.                                                             *)

\* The flat fees a window may hold: of requests in flight or waiting for their
\* refund, and of those served or lost.
Pending(w) == {r \in Requests : billed[r] /\ BudgetOf(r) = w}
Accountable(w) == hist.kept[w] + Cardinality(Pending(w))

(* Every cent and every request of the ledger is accounted for, whatever   *)
(* the order of charges, refunds and token writes, a straddled window, a   *)
(* crash or a lost write: there is never more than the fees of the window  *)
(* and its token spend, and, when the store's failures turn requests away, *)
(* never less.                                                             *)
BooksBalance ==
  \A w \in BudgetWindows :
    LET fees == Fee * Accountable(w)
    IN  /\ ledger[w].spend <= fees + hist.spent[w]
        /\ ledger[w].requests <= Accountable(w)
        /\ failMode = "deny" => /\ ledger[w].spend = fees + hist.spent[w]
                                /\ ledger[w].requests = Accountable(w)

(* The comment of try_charge_request_within_budget: the flat fee is a hard *)
(* cap, however many requests of the key are in flight.                    *)
FlatFeesWithinCap ==
  failMode = "deny" => \A w \in BudgetWindows : Fee * Accountable(w) <= Cap

(* The token spend of a window never exceeds what its own requests used:   *)
(* the sub-cent remainder is not spent twice, nor in another window, when  *)
(* late responses of two windows interleave.                               *)
TokensNeverOverbilled ==
  \A w \in BudgetWindows : Cent * hist.spent[w] <= hist.used[w]

(* docs/reliability.md: RPM is precise.  As long as admissions reach the   *)
(* limiter in clock order, no window admits more than rpm_limit requests,  *)
(* whatever late token credits and sweeps of other keys do to the entry.   *)
RpmHolds == hist.ordered => hist.admitted <= RpmLimit

=============================================================================
