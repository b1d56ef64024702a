SPECIFICATION FairSpec
CONSTANTS
    Clients = {c1, c2}
    MaxReg = 2
    MaxIdent = 3
    None = None
INVARIANTS SharedOnlyIfTorn MovedTogether
PROPERTIES CommandsEnd
