SPECIFICATION FairSpec
CONSTANTS
  Users = {u1}
  Jtis = {j1, j2}
  Tasks = {t1, t2}
  MaxEra = 2
  Operations <- AllOperations
  RedisFails = TRUE
  Crashes = FALSE
  None = None
PROPERTY DeletedSessionsEnd
