----------------------------- MODULE AgentSystem -----------------------------
(***************************************************************************)
(* One server of the panel and its agent, end to end: the hub of AgentHub  *)
(* and the process of AgentClient, joined where they touch.  A dial of the *)
(* client is the ServeWS call of the same index; a command that is written *)
(* travels in in, a reply in out, each in order; either side may find the  *)
(* connection gone before the other does, and what is then still under way *)
(* is lost.                                                                *)
(*                                                                         *)
(* Every server has an agent process of its own, and the hub keeps them    *)
(* apart by Hub.conns' key, so one server is enough here.                  *)
(***************************************************************************)
EXTENDS AgentClient

CONSTANTS
    Server,       \* the one server
    NoMessage,
    Mixed         \* bound: whether commands and a deletion can both occur

ASSUME SystemAssumption == Mixed \in BOOLEAN /\ Server \notin Conns

VARIABLES rows, conns, pending, closed, sock, hpc, hand, found, victim, ids,
          dpc, spc, chosen, acked, outcome

Hub == INSTANCE AgentHub
       WITH Servers <- {Server},
            ConnServer <- [c \in Conns |-> Server],
            CmdServer <- [k \in Cmds |-> Server]

hubVars == <<rows, conns, pending, closed, sock, hpc, hand, found, victim, ids,
             dpc, spc, chosen, acked, outcome>>
vars == <<hubVars, clientVars>>

Init == Hub!Init /\ ClientInit

TypeOK == Hub!TypeOK /\ ClientTypeOK

-----------------------------------------------------------------------------
(* Steps that involve one side only *)

HubAlone(A) == A /\ UNCHANGED clientVars
AgentAlone(A) == A /\ UNCHANGED hubVars

HandlerStep(c) ==
    HubAlone(\/ Hub!Register(c) \/ Hub!RecheckOk(c) \/ Hub!RecheckFail(c)
             \/ Hub!HandleAccept(c) \/ Hub!FinishLookup(c)
             \/ Hub!FinishOffline(c) \/ Hub!FinishLocked(c) \/ Hub!Report(c)
             \/ Hub!ReadFail(c) \/ Hub!Unregister(c) \/ Hub!HandlerReturn(c))

CloserStep(g) == HubAlone(Hub!CloserStep(g))

BeginSend(k) ==
    /\ Mixed \/ dpc[Server] = "none"
    /\ HubAlone(Hub!SendLookup(k))

DeleteServer ==
    /\ Mixed \/ \A k \in Cmds : spc[k] = "new"
    /\ HubAlone(Hub!DeleteRow(Server))

DeleteStep == HubAlone(Hub!Disconnect(Server) \/ Hub!DeleteReturn(Server))

RunJob(k) == AgentAlone(JobStep(k))

ReadCommand(c) == AgentAlone(ReceiveCommand(c) \/ RejectCommand(c))
CommandArrives(c) == link[c] # "closed" /\ ReadCommand(c)

-----------------------------------------------------------------------------
(* Steps in which the two sides meet *)

\* A ServeWS call begins when its request arrives.
Admit(c) ==
    /\ link[c] # "none"
    /\ HubAlone(Hub!Authenticate(c))

TurnAway(c) ==
    /\ link[c] # "none"
    /\ HubAlone(Hub!Refuse(c))

\* The handshake is complete for the client once the panel has answered it.
Connected(c) ==
    /\ sock[c] # "none"
    /\ AgentAlone(DialOk(c))

\* The panel reads the oldest reply that is under way.
ReadReply(c) ==
    /\ out[c] # <<>>
    /\ Hub!ReadMessage(c, Head(out[c]))
    /\ out' = [out EXCEPT ![c] = Tail(@)]
    /\ UNCHANGED <<sessionVars, in, jobVars, restarts>>

\* What reaches a socket that is closed already is never read.
InTransit(k) ==
    [in EXCEPT ![chosen[k]] = IF link[chosen[k]] = "closed" THEN @ ELSE Append(@, k)]

WriteCommand(k) ==
    /\ Hub!SendWritten(k)
    /\ in' = InTransit(k)
    /\ UNCHANGED <<sessionVars, out, jobVars, restarts>>

\* Send's own error says that the outcome of a failed write is unknown: the
\* agent may have the command all the same.
FailToWrite(k) ==
    /\ Hub!SendFailed(k)
    /\ in' \in {in, InTransit(k)}
    /\ UNCHANGED <<sessionVars, out, jobVars, restarts>>

SendStep(k) == HubAlone(Hub!SendRefused(k)) \/ WriteCommand(k) \/ FailToWrite(k)

\* The connection is over for one side once the other side has closed it, and
\* for the agent also once a write has failed.
PanelHears(c) == link[c] = "closed" /\ HubAlone(Hub!LinkLost(c))
AgentHears(c) ==
    /\ sock[c] = "closed" \/ link[c] # "up"
    /\ AgentAlone(EndSession(c))

Rest ==
    /\ \A c \in Conns : hpc[c] = "done"
    /\ dpc[Server] \in {"none", "done", "failed"}
    /\ \A k \in Cmds : spc[k] \in {"new", "sent", "failed"}
    /\ cur = NoConn
    /\ \A k \in Cmds : job[k] \notin Active
    /\ UNCHANGED vars

Next ==
    \/ \E c \in Conns :
        \/ Admit(c) \/ TurnAway(c) \/ HandlerStep(c) \/ ReadReply(c)
        \/ AgentAlone(Dial(c)) \/ Connected(c) \/ AgentAlone(DialFail(c))
        \/ HubAlone(Hub!LinkLost(c)) \/ AgentAlone(EndSession(c)) \/ ReadCommand(c)
    \/ \E g \in Hub!Closers : CloserStep(g)
    \/ DeleteServer \/ DeleteStep
    \/ \E k \in Cmds :
        \/ BeginSend(k) \/ SendStep(k)
        \/ RunJob(k) \/ AgentAlone(LogFail(k))
    \/ AgentAlone(Restart)
    \/ Rest

Spec == Init /\ [][Next]_vars

\* Goroutines on either side run; ConnectTimeout bounds a dial and ExecTimeout a
\* script; a connection one side has closed ends for the other (the close
\* arrives, or the 90 s of readTimeout or a heartbeat tells); what is under way
\* on a connection that stays up arrives.
Fairness ==
    /\ \A c \in Conns :
        /\ WF_vars(HandlerStep(c))
        /\ WF_vars(ReadReply(c))
        /\ WF_vars(Connected(c) \/ AgentAlone(DialFail(c)))
        /\ WF_vars(PanelHears(c))
        /\ WF_vars(AgentHears(c))
        /\ WF_vars(CommandArrives(c))
    /\ \A g \in Hub!Closers : WF_vars(CloserStep(g))
    /\ WF_vars(DeleteStep)
    /\ \A k \in Cmds : WF_vars(SendStep(k)) /\ WF_vars(RunJob(k))

FairSpec == Spec /\ Fairness

-----------------------------------------------------------------------------
(* Properties *)

\* What OnResult and OnAck tell about a command is what happened to it on the
\* agent: success only after its own script came to a good end, and a refusal
\* only of a command that was never started.
OutcomeIsGenuine ==
    \A k \in Cmds :
        /\ outcome[k] = <<"ok">> => k \in ended
        /\ outcome[k] = <<"fail">> => k \notin ended /\ via[k] # NoConn
        /\ outcome[k] = <<"nack">> => job[k] = "rejected"

\* The panel hears that a command was accepted before it hears its result:
\* an agent whose acknowledgement failed cannot deliver the result either.
AckBeforeResult ==
    \A k \in Cmds : outcome[k] \in {<<"ok">>, <<"fail">>} => k \in acked

\* No silence: once the agent is done with a command the panel still waits for,
\* an answer is on its way, or the end of the link is, on either side.
NoSilence ==
    \A k \in Cmds : job[k] \in {"done", "rejected"} /\ Hub!Outstanding(k) =>
        LET c == via[k]
        IN  \/ \E i \in DOMAIN out[c] :
                  out[c][i].cmd = k /\ out[c][i].type \in Answers
            \/ hpc[c] \in Hub!HoldsMessage /\ hand[c].cmd = k
            \/ link[c] # "up" \/ sock[c] # "up"
            \/ \E g \in Hub!Closers : victim[g] = c

\* A reply comes in on the connection its command went out on, whatever
\* connections were made since.
RepliesStayOnTheirLink ==
    \A c \in Conns :
        /\ hpc[c] \in Hub!HoldsMessage => chosen[hand[c].cmd] = c
        /\ \A i \in DOMAIN out[c] : chosen[out[c][i].cmd] = c

\* Every command that was sent has its outcome in the end.
EveryCommandSettles == \A k \in Cmds : Hub!Outstanding(k) ~> outcome[k] # <<>>

\* Every command the agent has read comes to an end, and the mutex is free again.
EveryJobEnds ==
    \A k \in Cmds : job[k] \in Active ~> job[k] \in {"done", "dead"} /\ lock # k

\* The agent of a deleted server is left without a session for good, whatever
\* dial, handshake or reconnection the deletion overtook.
DeletedAgentIsCutOff ==
    dpc[Server] = "done" ~> [](\A c \in Conns : link[c] # "up")
=============================================================================
