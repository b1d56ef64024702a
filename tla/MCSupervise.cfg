SPECIFICATION FairSpec
CONSTANTS
    Names = {"name"}
    Addrs = {"public", "private"}
    Public = {"public"}
    Allow = {"name"}
    Listeners = {"v4"}
    Conns = {"c"}
    Backends = {"network", "silo", "seatbelt", "inject"}
    MaxChunks = 1
INVARIANTS ResultIsTrue QuietAfterClose RelaysAuthorized
PROPERTIES SupervisionEnds
