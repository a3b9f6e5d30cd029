SPECIFICATION FairSpec
CONSTANTS
  Ops = {o1}
  Clients = {c1, c2}
  None = none
  Timeout = 1
  Cooldown = 2
PROPERTY RetriesAfterCooldown
