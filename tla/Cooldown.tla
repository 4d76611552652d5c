------------------------------ MODULE Cooldown ------------------------------
(***************************************************************************)
(* The cooldowns of one lane whose recovery probes keep failing: the       *)
(* escalation that compute_cooldown_with_retry_after gives as the streak   *)
(* grows without limit.                                                    *)
(***************************************************************************)
EXTENDS CellOps

CONSTANTS RetryAfters,   \* Retry-After values an upstream may send
          MaxStreak      \* bound on the failures in a row

ASSUME EscalationAssumption == RetryAfters \subseteq Nat /\ MaxStreak \in Nat

VARIABLES streak,   \* failures in a row
          hint,     \* the Retry-After of the last one
          wait      \* the cooldown it armed

escalation == <<streak, hint, wait>>

Hints == RetryAfters \cup {NoHint}

EscalationInit == /\ streak = 0
                  /\ hint = NoHint
                  /\ wait = 0

\* The lane fails, or the probe of its HalfOpen cell does: the streak grows.
Fails ==
  /\ streak < MaxStreak
  /\ streak' = streak + 1
  /\ hint' \in Hints
  /\ wait' \in Cooldowns(streak', hint')

\* The probe succeeds: the cell closes.
Succeeds ==
  /\ streak > 0
  /\ streak' = 0
  /\ hint' = NoHint
  /\ wait' = 0

EscalationNext == Fails \/ Succeeds

EscalationSpec == EscalationInit /\ [][EscalationNext]_escalation

-----------------------------------------------------------------------------
(* docs/reliability.md: min(base_cooldown_secs * 2^streak, max), as the    *)
(* repeated doubling it describes, saturated at the maximum.               *)
Documented[n \in Nat] ==
  IF n = 0 THEN BaseCooldown ELSE Lesser(2 * Documented[n - 1], MaxCooldown)

(* docs/reliability.md: the cooldown is the documented backoff give or     *)
(* take 10% (at least a second), never above the maximum; a Retry-After    *)
(* only lengthens it, up to the ceiling.                                   *)
WaitFollowsBackoff ==
  streak > 0 =>
    LET d == Documented[streak]
        band == Greater(d \div 10, 1)
        low == Greater(d - band, d \div 2)
        high == Lesser(d + band, MaxCooldown)
        server == Lesser(hint, MaxHonoredRetryAfter)
    IN  IF HonorRetryAfter /\ server > high
        THEN wait = server
        ELSE Greater(low, IF HonorRetryAfter THEN server ELSE 0) <= wait /\ wait <= high

(* docs/reliability.md: with no Retry-After two lanes that fail together   *)
(* can always be told apart by their jitter, unless the maximum leaves no  *)
(* room: every streak has at least two possible cooldowns.                 *)
ProbesDesynchronize ==
  MaxCooldown > 1 => Cardinality(Cooldowns(streak, NoHint)) >= 2

(* The comment of compute_cooldown_with_retry_after: the backoff of a long *)
(* streak saturates at the maximum.                                        *)
BackoffSaturates ==
  streak > 0 /\ Documented[streak] = MaxCooldown => wait >= MaxCooldown \div 2

=============================================================================
