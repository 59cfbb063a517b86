CONSTANTS
  t1 = t1
  t2 = t2
  k1 = k1
  k2 = k2
  k3 = k3
  k4 = k4
  v1 = v1
  v2 = v2
  Tables = {t1, t2}
  Keys = {k1, k2, k3, k4}
  Values = {v1, v2}
  Programs <- SomePrograms
  NumMultipliers = 2
  InfoMax = 7
  InitialInfoNumBits = 2
  InitialNumElements = 2
  MaxLoadFactor100 = 80
  MaxAttempts = 4
  MaxDoublings = 4
  NoNode = NoNode
SPECIFICATION Spec
INVARIANTS TableOK FindsEntries IterationExact EqualExact
PROPERTIES ImplementsUnorderedMap CallsReturn
