SPECIFICATION Spec
CONSTANTS
  Keys = {k1, k2}
  Workers = {w1, w2}
  NoRow = NoRow
  Free = Free
  Unborn = Unborn
  Revoked = Revoked
SYMMETRY Symmetry
PROPERTIES
  LifeOfAKey
  AnswerIsVisible
  RevokedStaysOut
