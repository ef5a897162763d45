CONSTANTS
  k1 = k1
  k2 = k2
  k3 = k3
  v1 = v1
  v2 = v2
  Keys <- ThreeKeys
  Values <- TwoValues
  None = None
  Weights <- Weighings
  MaxEntries = 2
  MaxWeight = 3
  Duration = 2
  Period = 1
  MaxTime = 4
SPECIFICATION Spec
INVARIANTS TypeOK CountedOnce WithinCaps FreshEnough
PROPERTY IsLossyMap
