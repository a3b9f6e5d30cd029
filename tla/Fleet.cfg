SPECIFICATION FleetSpec
CONSTANTS
  Runners = {r1, r2}
  Last = 2
  MaxTimes = 2
  older = older
  newer = newer
  Commits = {older, newer}
  Services = {js}
  Files <- MCFiles
  NoCommit = none
  NoRunner = norunner
SYMMETRY Symmetry
INVARIANTS FleetTypeOK ExactlyOnce InOrder DoneMeansCurrent MigratedBeforeRolled
PROPERTY ReleaseSpec
