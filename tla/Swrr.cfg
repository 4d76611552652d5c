SPECIFICATION Spec
CONSTANTS
  Weights <- MCWeights
  Selectors = {s1,s2}
INVARIANTS
  CreditBounded
  ExactShare
PROPERTIES
  NoStarvation
