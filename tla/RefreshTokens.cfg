SPECIFICATION Spec
CONSTANTS
  Users = {u1, u2}
  Jtis = {j1, j2}
  Tasks = {t1, t2}
  MaxEra = 1
  Operations <- AllOperations
  RedisFails = TRUE
  Crashes = TRUE
  None = None
SYMMETRY Alike
INVARIANTS TypeOK KeysAreOwnTokens
PROPERTY SurvivesOnlyByRace
