SPECIFICATION Spec
CONSTANTS
  germany = germany poland = poland berlin = berlin warsaw = warsaw
  bank = bank shop = shop fintech = fintech kafka = kafka k8s = k8s payments = payments
  ft = ft store = store
  MLOps = MLOps MachineLearning = MachineLearning Python = Python MTS = MTS
  Corpus <- MCCorpus
  Limits <- MCLimits
  People <- MCPeople
  Profile <- MCProfile
  Canonical <- MCCanonical
  Spellings <- MCSpellings
  Unit = 4
  Weight <- MCWeight
  TopN = 2
  Queries <- MCQueries
  Answers <- MCAnswers
  Rankings <- MCRankings
  Similarities = {1, 2, 4}
  Resume <- MCResume
  Paths <- MCPaths
  DomainsOf <- MCDomainsOf
  NamesWith <- MCNamesWith
  MinScore = 12
  PoolSize = 2
  VectorLimit = 2
  GraphLimit = 2
  EvidenceLimit = 1
  Requests <- MCRequests
  Diversity = 12
INVARIANTS
  StatedLimitsHold
  InventionsExcludeNobody
  RerankerChangesNothing
  OnlyFullListsLose
  NobodyTwice
  SlotsAreAnswered
