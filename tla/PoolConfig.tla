----------------------------- MODULE PoolConfig -----------------------------
(***************************************************************************)
(* What a pool configuration says of failover, and which ones the          *)
(* validation of src/config_validate.rs lets busbar start with.            *)
(***************************************************************************)
EXTENDS Naturals, FiniteSets

CONSTANTS Lanes, Pools

ASSUME PoolAssumption ==
  /\ IsFiniteSet(Lanes) /\ IsFiniteSet(Pools)
  /\ Pools \cap {"status_503", "least_bad"} = {}

\* exclusions and max_hops are those of the pool's failover block or, failing
\* that, the global one's.  routes: the pools that clients name.
Config == [members      : [Pools -> SUBSET Lanes],
           exclusions   : [Pools -> SUBSET Lanes],
           max_hops     : [Pools -> Nat],
           on_exhausted : [Pools -> Pools \cup {"status_503", "least_bad"}],
           routes       : SUBSET Pools]

\* resolve_fallback_target, as the ways down a chain of fallback pools.
FallsBack(c, p, q) == c.on_exhausted[p] = q /\ q \in Pools

\* No chain of fallbacks comes back to where it was: the pools have ranks.
Acyclic(c) ==
  \E rank \in [Pools -> 0 .. Cardinality(Pools)] :
    \A p, q \in Pools : FallsBack(c, p, q) => rank[q] < rank[p]

\* validate_config, what it asks of pools.  (A member of weight 0 is refused,
\* so none is ever drained.)
Accepts(c) ==
  /\ \A p \in Pools : c.members[p] # {}
  /\ \A p \in Pools : c.exclusions[p] \subseteq c.members[p]
  /\ \A p \in Pools : ~FallsBack(c, p, p)
  /\ Acyclic(c)

=============================================================================
