SPECIFICATION SkillsSpec
CONSTANTS
  project = project
  user = user
  builtin = builtin
  pkg = pkg
  review = review
  c1 = c1
  c2 = c2
  i1 = i1
  Dirs <- ThreeDirs
  NameOf <- TheirNames
  LevelOf <- TheirLevels
  Callers <- TwoCallers
  Installs <- OneInstall
  FirstFiles <- AtFirst
  Edits <- SomeEdits
  Payloads <- SomePayloads
SYMMETRY SameCallers
INVARIANTS
  ScriptsConsented
  TrustIsLasting
