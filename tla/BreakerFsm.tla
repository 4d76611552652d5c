----------------------------- MODULE BreakerFsm -----------------------------
(***************************************************************************)
(* What docs/reliability.md draws of the circuit breaker: three phases, a  *)
(* deadline, and the requests it has let through and not heard from yet.   *)
(* It says when a phase may follow another and when a request may be let   *)
(* through, nothing about streaks, windows, locks or backoff.  Module      *)
(* BreakerCell implements it.                                              *)
(***************************************************************************)
EXTENDS Naturals

CONSTANTS Requests,
          ParkSecs,      \* how long a hard-down parks the breaker
          OutOfBand      \* whether a health prober may recover it

VARIABLES now, phase, until, admitted

vars == <<now, phase, until, admitted>>

TypeOK == /\ now \in Nat
          /\ phase \in {"closed", "open", "half_open"}
          /\ until \in Nat
          /\ admitted \subseteq Requests

\* A pool's breaker starts from what is known of the lane, never half-open.
Init == /\ now \in Nat
        /\ phase \in {"closed", "open"}
        /\ until \in Nat
        /\ admitted = {}

-----------------------------------------------------------------------------
Elapse == /\ now' > now
          /\ now' \in Nat
          /\ UNCHANGED <<phase, until, admitted>>

\* A healthy breaker out of cooldown lets anyone through.
Admit == /\ phase = "closed"
         /\ now >= until
         /\ \E r \in Requests : admitted' = admitted \cup {r}
         /\ UNCHANGED <<now, phase, until>>

\* An open one lets one request through, once its deadline has passed.
AdmitProbe == /\ phase = "open"
              /\ now >= until
              /\ phase' = "half_open"
              /\ \E r \in Requests : admitted' = admitted \cup {r}
              /\ UNCHANGED <<now, until>>

\* A request comes back (or is given up), possibly moving the phase.
Leave == /\ admitted' \subseteq admitted
         /\ UNCHANGED <<now, phase, until>>

Cool == /\ phase = "closed"
        /\ until' \in Nat
        /\ admitted' \subseteq admitted
        /\ UNCHANGED <<now, phase>>

Trip == /\ phase \in {"closed", "half_open"}
        /\ phase' = "open"
        /\ until' \in Nat
        /\ admitted' \subseteq admitted
        /\ UNCHANGED now

Park == /\ phase' = "open"
        /\ until' = now + ParkSecs
        /\ admitted' \subseteq admitted
        /\ UNCHANGED now

\* A probe succeeded; an open breaker is closed by the prober only.
Recover == /\ phase = "half_open" \/ OutOfBand
           /\ phase' = "closed"
           /\ until' = 0
           /\ admitted' \subseteq admitted
           /\ UNCHANGED now

Next == Elapse \/ Admit \/ AdmitProbe \/ Leave \/ Cool \/ Trip \/ Park \/ Recover

Spec == Init /\ [][Next]_vars
=============================================================================
