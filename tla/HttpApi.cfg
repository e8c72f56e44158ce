CONSTANTS
  c1 = c1
  c2 = c2
  u1 = u1
  None = None
  Clients = {c1, c2}
  Users = {u1}
  Sends <- MCSends
  Speaks <- MCSpeaks
  Identities <- MCIdentities
  Limit = 1
  Faults = {"database", "redis"}
SPECIFICATION Spec
INVARIANTS
  TypeOK
  SpeaksTheAskedLanguage
PROPERTIES
  StatusesAreDeclared
  LoginRefusedOnlyByRace
  EveryRequestAnswered
  HealthTells
