---------------------------- MODULE Disposition -----------------------------
(***************************************************************************)
(* What busbar makes of a response that is not a 2xx: src/breaker.rs.  The *)
(* error a protocol reader lifted from it becomes a status class, by the   *)
(* operator's error_map first and by its HTTP status last, and the class a *)
(* disposition.                                                            *)
(***************************************************************************)
EXTENDS Naturals

NoSignal == "none"          \* the reader found no code, or no type
Unmapped == "unmapped"      \* error_map says nothing, or no valid class
ContextCode == "context_length_exceeded"

StatusClass == {"rate_limit", "overloaded", "server_error", "timeout", "network",
                "auth", "billing", "client_error", "context_length"}

\* classify
Disposed(class) ==
  CASE class \in {"rate_limit", "overloaded", "server_error", "timeout", "network"} -> "transient"
    [] class \in {"auth", "billing"} -> "hard_down"
    [] class = "client_error"        -> "client_fault"
    [] class = "context_length"      -> "context_length"

\* Statuses whose meaning does not depend on the provider.
ByStatus(status) ==
  CASE status \in {401, 403} -> "auth"
    [] status = 429          -> "rate_limit"
    [] status = 408          -> "timeout"
    [] status = 529          -> "overloaded"
    [] status \in (500 .. 599) \ {529} -> "server_error"
    [] OTHER                 -> "client_error"

\* A provider's 5xx is never the caller's oversized request.
Excusable(raw) == raw.status \notin 500 .. 599

\* The operator's word on a signal, where it counts.
Honoured(raw, signal, map) ==
  /\ signal # NoSignal
  /\ map[signal] # Unmapped
  /\ map[signal] = "context_length" => Excusable(raw)

\* Mutant: the built-in context code is believed whatever the status.
ClassTrusting(raw, map) ==
  IF Honoured(raw, raw.code, map) THEN map[raw.code]
  ELSE IF raw.code = ContextCode THEN "context_length"
  ELSE IF Honoured(raw, raw.type, map) THEN map[raw.type]
  ELSE ByStatus(raw.status)

\* normalize_raw_error
Class(raw, map) ==
  IF Honoured(raw, raw.code, map) THEN map[raw.code]
  ELSE IF raw.code = ContextCode /\ raw.status \in {400, 413} THEN "context_length"
  ELSE IF Honoured(raw, raw.type, map) THEN map[raw.type]
  ELSE ByStatus(raw.status)

=============================================================================
