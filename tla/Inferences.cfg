SPECIFICATION Spec
CONSTANTS
  r1 = r1 r2 = r2 r3 = r3
  People = {1, 2, 3}
  NameOf <- MCNameOf
  Domains = {"law"}
  Profiles <- MCProfiles
  ChunkIds = {1, 2, 3, 4}
  OwnerOf <- MCOwnerOf
  Starts <- MCStarts
  PeerLimit = 2
  EvidenceLimit = 3
  Subjects = {2, 3}
  Verdicts = {"reviewed"}
  Requests = {r1, r2, r3}
  Workers = 2
  Edits = 2
  Reviews = 1
  Faults = 1
INVARIANTS
  EvidenceBelongs
PROPERTIES
  ReviewsStand
  LoneRebuildIsExact
  RefusalsHaveCause
SYMMETRY RequestSymmetry
