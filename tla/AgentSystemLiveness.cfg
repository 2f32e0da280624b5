\* Liveness, and safety across a restart of the agent: two sessions, and one command
\* or a deletion of the server.
CONSTANTS
    Conns = {c1, c2}
    Cmds = {k1}
    Server = s1
    NoConn = NoConn
    NoCmd = NoCmd
    NoMessage = NoMessage
    MaxRestarts = 1
    Mixed = FALSE
SPECIFICATION FairSpec
CONSTRAINT FirstBeforeOthers
INVARIANT
    OutcomeIsGenuine
PROPERTIES
    EveryCommandSettles
    EveryJobEnds
    DeletedAgentIsCutOff
