SPECIFICATION FairSpec
CONSTANTS
  r1 = r1 r2 = r2 r3 = r3 m1 = m1 m2 = m2
  ab = ab aB = aB a = a cd = cd
  NoText = NoText
  N = 2
  Runs = {r1, r2, r3}
  Workers = 2
  Edits = 1
  Faults = 1
  Texts = {ab, aB, a}
  Passages <- MCPassages
  ChunksOf <- MCChunksOf
  ModelOf <- TwoModels
INVARIANTS
  SteadyDocumentsAreWhole
PROPERTIES
  AloneRunIsCurrent
  IdsAreStable
  NothingEmbeddedTwice
  EveryRunEnds
