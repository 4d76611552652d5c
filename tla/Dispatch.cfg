SPECIFICATION Spec
CONSTANTS
  r1 = r1
  r2 = r2
  l1 = l1
  l2 = l2
  l3 = l3
  a = a
  b = b
  Requests = {r1, r2}
  Lanes = {l1, l2, l3}
  Pools = {a, b}
  NoLane = none
  NoPool = nowhere
  Configs <- MCConfigs
  Affinity <- MCAffinity
  MaxConcurrent <- MCMaxConcurrent
  MaxRequests <- MCMaxRequests
  Unlimited = unlimited
  ContextMax <- MCContextMax
  Foreign = {l2}
  Passthrough = FALSE
  Errors <- MCErrors
  ErrorMap <- MCErrorMap
INVARIANTS
  TypeOK
  PermitsConserved
  BudgetAccounted
  ProbeHasOwner
  FaultsCountedOnce
  BilledOnce
  NobodyStuck
PROPERTIES
  NoWastedAttempt
  LessIsLeft
