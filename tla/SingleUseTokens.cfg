SPECIFICATION FairSpec
CONSTANTS
  Users = {u1}
  Tokens = {k1, k2}
  Tasks = {t1, t2}
  Operations <- AllOperations
  QueueFails = TRUE
  Crashes = TRUE
  None = None
INVARIANTS TypeOK WrittenIsSpent SeenIsSpent MailedTokensExist RepeatsAreRaces
PROPERTIES SpentForAReason EveryRequestEnds
