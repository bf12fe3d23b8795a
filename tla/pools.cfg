CONSTANTS
  c1 = c1
  c2 = c2
  h1 = h1
  h2 = h2
  q1 = q1
  q2 = q2
  r1 = r1
  r2 = r2
  b1 = b1
  b2 = b2
  m1 = m1
  m2 = m2
  d1 = d1
  d2 = d2
  none = none
  Calls = {c1, c2}
  Objects = {h1, h2, q1, q2, r1, r2, b1, b2, m1, m2, d1, d2}
  PoolOf <- Pools
  None = none
SPECIFICATION Spec
INVARIANTS OneUserEach AnswerIsOwn IInv
PROPERTY AsIfAlone
SYMMETRY Swaps
