CONSTANTS
  c1 = c1
  c2 = c2
  p1 = p1
  p2 = p2
  b1 = b1
  b2 = b2
  b3 = b3
  r1 = r1
  r2 = r2
  w1 = w1
  w2 = w2
  None = None
  Other = Other
  Ids = {w1}
  Clients = {c1, c2}
  Pids = {p1}
  Ops = {"setup", "teardown", "exec"}
  Births = {b1, b2}
  Paths = {r1, r2}
  MaxInode = 2
  PidFd = TRUE
SPECIFICATION Spec
SYMMETRY Symmetry
INVARIANTS HoldersAreRecorded TempIsPrivate
PROPERTIES KillsOnlyTheRecorded
