SPECIFICATION FairSpec
CONSTANTS
    Execs = {1, 2}
    Ports = {80}
    MaxSocks = 2
    MaxSetups = 2
CHECK_DEADLOCK FALSE
INVARIANTS ForwardsAreOwn
PROPERTIES ForwardingSettles
