CONSTANTS
  l1 = l1
  l2 = l2
  main = main
  x1 = x1
  x2 = x2
  Launches = {l1, l2}
  Main = main
  Strays = {x1, x2}
  Codes = {0, 7}
  SupervisorsDie = TRUE
SPECIFICATION FairGuestSpec
CHECK_DEADLOCK FALSE
INVARIANTS AnswerMeansGone ReportsAreTrue
PROPERTIES ExecSpec DeadlineEndsCommand HostEnds
