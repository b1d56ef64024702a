SPECIFICATION FairSpec
CHECK_DEADLOCK FALSE
INVARIANTS ProcessesAreRecorded
PROPERTIES CallerReturns NothingIsLeft
