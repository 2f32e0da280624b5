\* Safety: two sessions, and two commands that compete for the executor or a
\* deletion of the server. The restart of the agent is in AgentSystemLiveness.cfg.
CONSTANTS
    Conns = {c1, c2}
    Cmds = {k1, k2}
    Server = s1
    NoConn = NoConn
    NoCmd = NoCmd
    NoMessage = NoMessage
    MaxRestarts = 0
    Mixed = FALSE
SYMMETRY Symmetry
VIEW View
SPECIFICATION Spec
INVARIANTS
    TypeOK
    OutcomeIsGenuine
    AckBeforeResult
    NoSilence
    RepliesStayOnTheirLink
