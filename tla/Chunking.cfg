SPECIFICATION IndexingSpec
CONSTANTS
  MaxCharacters = 10
  SummaryHeader = 3
  SkillsHeader = 4
  Resumes <- MCResumes
  Providers = {"openai", "ollama"}
  Dimension = 2
  BatchSize = 3
INVARIANTS
  WithinLimit
  NothingEmpty
  CutsAreForced
  TextIsKept
  VectorsMatchTexts
