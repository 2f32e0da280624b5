\* Two commands on two connections of one server.
CONSTANTS
    s1 = s1
    c1 = c1
    c2 = c2
    k1 = k1
    k2 = k2
    Servers = {s1}
    Conns = {c1, c2}
    Cmds = {k1, k2}
    NoConn = NoConn
    NoMessage = NoMessage
    ConnServer <- OneServer
    CmdServer <- CmdsToOne
SYMMETRY Symmetry
SPECIFICATION Spec
INVARIANTS
    TypeOK
    AtMostOneOutcome
    CommandNeverLost
    FailedSendStaysSilent
    NoStrandedCommand
PROPERTY
    KeepsContract
