SPECIFICATION Spec
CONSTANTS
  Threads = {loop, t2}
  EventLoop = loop
  Users = {u1, u2}
  NoUser = nobody
  Clients <- MCClients
  Nothing = nothing
  Backups = 3
  MaxLines = 2
  MaxWritten = 11
  MaxFaults = 1
SYMMETRY Symmetry
INVARIANTS TypeOK OwnLine InOrder NewestKept DiskBounded IdenticalContract GatesHold
           RoundTrip CookieFound RolesRead
