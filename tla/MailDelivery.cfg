SPECIFICATION DeliverySpec
CONSTANTS
  Users = {u1}
  Tokens = {k1, k2}
  Tasks = {t1}
  Operations <- VerificationOperations
  QueueFails = TRUE
  Crashes = TRUE
  None = None
  Senders = 1
  Attempts = 2
  Deaths = TRUE
INVARIANTS
  DeliveryTypeOK
  NoMailDroppedSilently
  RepeatsAreFaults
PROPERTIES
  EveryLinkArrivesOrFails
