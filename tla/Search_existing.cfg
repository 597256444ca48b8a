SPECIFICATION SearchSpec
CONSTANTS
  s1 = s1
  bank = bank sales = sales fintech = fintech ft = ft
  N = 2
  PersonKinds <- MCPersonKinds
  EntityKinds <- MCEntityKinds
  Resumes <- MCResumes
  Syncs = {s1}
  Workers = 1
  MaxChunks = 2
  Commits = 4
  Faults = 0
  Intents <- GraphIntents
  PoolSize = 2
  VectorLimit = 2
  GraphLimit = 2
  EvidenceLimit = 1
  MaxHops = 3
  Limit = 2
  Canonical <- MCCanonical
  NamesWith <- MCNamesWith
INVARIANTS
  ClaimsCiteExistingChunks
