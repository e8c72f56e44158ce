SPECIFICATION ReuseSpec
CONSTANTS
  Users = {u1}
  Jtis = {j1, j2, j3}
  Tasks = {t1, t2}
  MaxEra = 1
  Operations <- PasswordOperations
  RedisFails = FALSE
  Crashes = FALSE
  None = None
SYMMETRY Alike
PROPERTY TokenWorksOnce
