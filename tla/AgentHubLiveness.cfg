\* The registry, and liveness: two connections of one server, one command, no symmetry.
CONSTANTS
    s1 = s1
    c1 = c1
    c2 = c2
    k1 = k1
    k2 = k2
    Servers = {s1}
    Conns = {c1, c2}
    Cmds = {k1}
    NoConn = NoConn
    NoMessage = NoMessage
    ConnServer <- OneServer
    CmdServer <- CmdsToOne
SPECIFICATION FairSpec
INVARIANTS
    NoGhostOnline
    DeletedServerHasNoLiveAgent
PROPERTIES
    OnlyOwnerUnregisters
    SettlesBrokenCommands
    DeletedGoesOffline
