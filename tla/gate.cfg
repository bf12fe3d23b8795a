CONSTANTS
  t1 = t1
  t2 = t2
  Tabs = {t1, t2}
  Thresholds <- ThreeLevels
  Types <- PowTwice
  Countdowns <- AtOnceAndSlow
  MaxRate = 6
  MaxChanges = 2
SPECIFICATION FairSpec
INVARIANTS IInv AppIsEarned
PROPERTY EventuallyServed
