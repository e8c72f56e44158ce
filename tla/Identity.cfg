SPECIFICATION Spec
CONSTANTS
  u1 = u1
  u2 = u2
  r1 = r1
  r2 = r2
  p1 = p1
  p2 = p2
  t1 = t1
  t2 = t2
  t3 = t3
  None = None
  Unborn = Unborn
  Gone = Gone
  Users = {u1}
  Roles = {r1}
  Permissions = {p1}
  RoleNames = {"admin"}
  PermissionNames = {"user list", "user edit"}
  Profiles = {"ann"}
  Tasks = {t1, t2}
  Operations <- AllOperations
  RedisFails = TRUE
  Crashes = TRUE
  Seed <- SeedCatalogue
SYMMETRY Alike
INVARIANTS TypeOK NoDanglingIds
PROPERTY StaleOnlyByRace
