SPECIFICATION Spec
CONSTANTS
  s1 = s1 s2 = s2 s3 = s3
  bank = bank sales = sales fintech = fintech
  N = 2
  PersonKinds <- MCPersonKinds
  EntityKinds <- MCEntityKinds
  Resumes <- MCResumes
  Syncs = {s1, s2, s3}
  Workers = 2
  MaxChunks = 2
  Commits = 4
  Faults = 1
INVARIANTS
  GraphIsBacked
PROPERTIES
  LoneSyncIsExact
SYMMETRY SyncSymmetry
