CONSTANTS
  s1 = s1
  s2 = s2
  w1 = w1
  w2 = w2
  c1 = c1
  c2 = c2
  None = None
  Blank = Blank
  States = {s1, s2}
  Ids = {w1}
  MaxIp = 2
  Clients = {c1, c2}
SPECIFICATION FairSpec
INVARIANTS NoSharedRoot
PROPERTIES RootsStay SearchEnds
