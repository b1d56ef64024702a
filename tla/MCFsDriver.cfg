SPECIFICATION FsSpec
CONSTANTS
    Component <- ComponentDef
    Root <- RootDef
    LongNames <- LongNamesDef
    WideNames <- WideNamesDef
    Paths <- PathsDef
    Targets <- TargetsDef
    Probes <- ProbesDef
    MaxLinks = 4
    MaxMade = 2
    MaxFds = 1
    MaxLen = 1
CHECK_DEADLOCK FALSE
INVARIANTS TreeSound NamesLead HostKept CallsAgree MapsAgree
PROPERTIES EditsOfATree
