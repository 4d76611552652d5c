----------------------------- MODULE MCDispatch -----------------------------
(* Instances of Dispatch for TLC.                                          *)
EXTENDS Dispatch, TLC

CONSTANTS l1, l2, l3, a, b, r1, r2

\* Two lanes in one pool that ends on its least bad one; the same two with no
\* hop but the first; a pool of l1 that falls back to one of l2; a ring of
\* fallbacks, which is not accepted.
MCConfigs ==
  {[members      |-> (a :> {l1, l2}) @@ (b :> {l3}),
    exclusions   |-> (a :> {}) @@ (b :> {l3}),
    max_hops     |-> (a :> 1) @@ (b :> 1),
    on_exhausted |-> (a :> "least_bad") @@ (b :> "status_503"),
    routes       |-> {a}],
   [members      |-> (a :> {l1, l2}) @@ (b :> {l3}),
    exclusions   |-> (a :> {}) @@ (b :> {l3}),
    max_hops     |-> (a :> 0) @@ (b :> 1),
    on_exhausted |-> (a :> "status_503") @@ (b :> "status_503"),
    routes       |-> {a}],
   [members      |-> (a :> {l1}) @@ (b :> {l2}),
    exclusions   |-> (a :> {}) @@ (b :> {}),
    max_hops     |-> (a :> 0) @@ (b :> 1),
    on_exhausted |-> (a :> b) @@ (b :> "status_503"),
    routes       |-> {a}],
   [members      |-> (a :> {l1}) @@ (b :> {l2}),
    exclusions   |-> (a :> {}) @@ (b :> {}),
    max_hops     |-> (a :> 0) @@ (b :> 1),
    on_exhausted |-> (a :> b) @@ (b :> a),
    routes       |-> {a}]}

MCAffinity      == [r \in Requests |-> [p \in {a, b} |-> IF r = r1 THEN l1 ELSE NoLane]]
MCMaxConcurrent == [l \in Lanes |-> 1]
MCMaxRequests   == [l \in Lanes |-> IF l = l2 THEN 1 ELSE Unlimited]
MCContextMax    == [l \in Lanes |-> 8]

\* A server error that claims to be about the context, an oversized request,
\* a bad one, a rejected key and an empty account.
MCErrors ==
  {[status |-> 500, code |-> ContextCode, type |-> NoSignal],
   [status |-> 400, code |-> ContextCode, type |-> NoSignal],
   [status |-> 400, code |-> NoSignal,    type |-> NoSignal],
   [status |-> 401, code |-> NoSignal,    type |-> NoSignal],
   [status |-> 403, code |-> NoSignal,    type |-> "insufficient_quota"]}

MCErrorMap ==
  [l \in Lanes |-> [s \in {ContextCode, "insufficient_quota"} |->
     IF s = ContextCode THEN Unmapped ELSE "billing"]]
=============================================================================
