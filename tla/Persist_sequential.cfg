SPECIFICATION Spec
CONSTANTS
  t1 = t1 t2 = t2 k1 = k1 k2 = k2 k3 = k3
  a1 = a1 a2 = a2 b1 = b1 c1 = c1 alice = alice bob = bob noid = noid
  py = py python = python pandas = pandas work = work
  None = None NoIdentity = noid
  Txs <- TwoTxs
  Workers = 1
  Faults = 1
  MaxRecords = 2
  Files <- AnyFile
  Unstructured = {}
  Keys = {k1, k2}
  Texts <- AllTexts
  IdentityOf <- MCIdentityOf
  MentionsOf <- MCMentionsOf
  NameOf <- MCNameOf
  Skills <- MCSkills
  Projects <- MCProjects
INVARIANTS
  NoSpuriousFailure
  IdentityIsUnique
PROPERTIES
  ReingestionWritesNothing
SYMMETRY TxSymmetry
