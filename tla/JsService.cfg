SPECIFICATION FairSvcSpec
CONSTANTS
  Ops = {r1, r2}
  Clients = {c1, c2}
  None = none
  Timeout = 1
  Cooldown = 2
  Calls = {r1, r2}
  Pools = {p1, p2, p3}
  NoPool = nopool
  Max = 1
INVARIANTS SvcTypeOK FailsItsOwnClient OneConnection SharedPoolIsOpen OneFailureCleans
PROPERTY EveryRequestAnswered
