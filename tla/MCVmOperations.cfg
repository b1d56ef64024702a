CONSTANTS
  n1 = n1
  n2 = n2
  o1 = o1
  o2 = o2
  o3 = o3
  c1 = c1
  c2 = c2
  None = None
  Names = {n1}
  Owners = {o1}
  Clients = {c1, c2}
  Ops = {"create", "setup", "teardown", "delete", "exec", "import", "show"}
  MaxGeneration = 2
  MaxLate = 1
SPECIFICATION FairSpec
INVARIANTS HandlesStayValid LossIsVisible
PROPERTIES NoSilentReplacement JournalMovesForward OperationsEnd
