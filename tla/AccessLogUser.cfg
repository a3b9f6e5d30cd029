SPECIFICATION Spec
CONSTANTS
  Threads = {loop, t2}
  EventLoop = loop
  Users = {u1, u2}
  NoUser = nobody
  Clients <- MCClients
  Nothing = nothing
  Backups = 2
  MaxLines = 2
  MaxWritten = 3
  MaxFaults = 1
INVARIANT OwnUser
