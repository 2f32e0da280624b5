-------------------------- MODULE AgentSystemProofs --------------------------
(***************************************************************************)
(* Proofs about AgentSystem for any number of sessions and commands.  What *)
(* AgentHubProofs proves of the hub holds here, because every step of the  *)
(* two sides together is a step of the hub or leaves it alone; the rest is *)
(* about what is under way between them.                                   *)
(***************************************************************************)
EXTENDS AgentSystem, TLAPS

HubProofs == INSTANCE AgentHubProofs
             WITH Servers <- {Server},
                  ConnServer <- [c \in Conns |-> Server],
                  CmdServer <- [k \in Cmds |-> Server]

USE ClientAssumption, SystemAssumption

-----------------------------------------------------------------------------
(* The hub of the system is the hub *)

\* What AgentHub assumes of its constants holds for the one server.
LEMMA Assumed == HubProofs!HubAssumption
BY DEF HubProofs!HubAssumption

\* The hub of AgentSystem and the one of AgentHubProofs are two instances with
\* the same state.
LEMMA SameState ==
    /\ Hub!TypeOK <=> HubProofs!TypeOK
    /\ Hub!Init => HubProofs!Init
    /\ UNCHANGED hubVars <=> UNCHANGED HubProofs!vars
<1>1. Hub!TypeOK <=> HubProofs!TypeOK
  BY DEF Hub!TypeOK, HubProofs!TypeOK, Hub!Closers, HubProofs!Closers,
         Hub!Messages, HubProofs!Messages, Hub!ReplyTypes, HubProofs!ReplyTypes,
         Hub!Outcomes, HubProofs!Outcomes, Hub!Serving, HubProofs!Serving,
         Hub!HoldsMessage, HubProofs!HoldsMessage
<1>2. Hub!Init => HubProofs!Init
  BY DEF Hub!Init, HubProofs!Init, Hub!Closers, HubProofs!Closers
<1>3. UNCHANGED hubVars <=> UNCHANGED HubProofs!vars
  BY DEF hubVars, HubProofs!vars, HubProofs!connVars, HubProofs!handlerVars,
         HubProofs!closeVars, HubProofs!sendVars, HubProofs!reportVars
<1> QED
  BY <1>1, <1>2, <1>3

\* ServeWS is the same in both instances.
LEMMA SameHandler ==
    ASSUME NEW c \in Conns
    PROVE  /\ Hub!Authenticate(c) => HubProofs!Authenticate(c)
           /\ Hub!Refuse(c) => HubProofs!Refuse(c)
           /\ Hub!LinkLost(c) => HubProofs!LinkLost(c)
           /\ Hub!Register(c) => HubProofs!Register(c)
           /\ Hub!RecheckOk(c) => HubProofs!RecheckOk(c)
           /\ Hub!RecheckFail(c) => HubProofs!RecheckFail(c)
           /\ Hub!HandleAccept(c) => HubProofs!HandleAccept(c)
           /\ Hub!FinishLookup(c) => HubProofs!FinishLookup(c)
           /\ Hub!FinishOffline(c) => HubProofs!FinishOffline(c)
           /\ Hub!FinishLocked(c) => HubProofs!FinishLocked(c)
           /\ Hub!Report(c) => HubProofs!Report(c)
           /\ Hub!ReadFail(c) => HubProofs!ReadFail(c)
           /\ Hub!Unregister(c) => HubProofs!Unregister(c)
           /\ Hub!HandlerReturn(c) => HubProofs!HandlerReturn(c)
<1>1. Hub!Authenticate(c) => HubProofs!Authenticate(c)
  BY DEF Hub!Authenticate, HubProofs!Authenticate, Hub!CheckServer,
         HubProofs!CheckServer, Hub!connVars, HubProofs!connVars,
         Hub!closeVars, HubProofs!closeVars, Hub!sendVars, HubProofs!sendVars,
         Hub!reportVars, HubProofs!reportVars
<1>2. Hub!Refuse(c) => HubProofs!Refuse(c)
  BY DEF Hub!Refuse, HubProofs!Refuse, Hub!connVars, HubProofs!connVars,
         Hub!closeVars, HubProofs!closeVars, Hub!sendVars, HubProofs!sendVars,
         Hub!reportVars, HubProofs!reportVars
<1>3. Hub!LinkLost(c) => HubProofs!LinkLost(c)
  BY DEF Hub!LinkLost, HubProofs!LinkLost, Hub!handlerVars,
         HubProofs!handlerVars, Hub!closeVars, HubProofs!closeVars,
         Hub!sendVars, HubProofs!sendVars, Hub!reportVars, HubProofs!reportVars
<1>4. Hub!Register(c) => HubProofs!Register(c)
  BY DEF Hub!Register, HubProofs!Register, Hub!Replaced, HubProofs!Replaced,
         Hub!sendVars, HubProofs!sendVars, Hub!reportVars, HubProofs!reportVars
<1>5. Hub!RecheckOk(c) => HubProofs!RecheckOk(c)
  BY DEF Hub!RecheckOk, HubProofs!RecheckOk, Hub!CloserIdle,
         HubProofs!CloserIdle, Hub!CheckServer, HubProofs!CheckServer,
         Hub!connVars, HubProofs!connVars, Hub!closeVars, HubProofs!closeVars,
         Hub!sendVars, HubProofs!sendVars, Hub!reportVars, HubProofs!reportVars
<1>6. Hub!RecheckFail(c) => HubProofs!RecheckFail(c)
  BY DEF Hub!RecheckFail, HubProofs!RecheckFail, Hub!CloserIdle,
         HubProofs!CloserIdle, Hub!Deferred, HubProofs!Deferred, Hub!connVars,
         HubProofs!connVars, Hub!closeVars, HubProofs!closeVars, Hub!sendVars,
         HubProofs!sendVars, Hub!reportVars, HubProofs!reportVars
<1>7. Hub!HandleAccept(c) => HubProofs!HandleAccept(c)
  BY DEF Hub!HandleAccept, HubProofs!HandleAccept, Hub!connVars,
         HubProofs!connVars, Hub!closeVars, HubProofs!closeVars, Hub!sendVars,
         HubProofs!sendVars
<1>8. Hub!FinishLookup(c) => HubProofs!FinishLookup(c)
  BY DEF Hub!FinishLookup, HubProofs!FinishLookup, Hub!IsNil, HubProofs!IsNil,
         Hub!connVars, HubProofs!connVars, Hub!closeVars, HubProofs!closeVars,
         Hub!sendVars, HubProofs!sendVars, Hub!reportVars, HubProofs!reportVars
<1>9. Hub!FinishOffline(c) => HubProofs!FinishOffline(c)
  BY DEF Hub!FinishOffline, HubProofs!FinishOffline, Hub!IsNil,
         HubProofs!IsNil, Hub!connVars, HubProofs!connVars, Hub!closeVars,
         HubProofs!closeVars, Hub!sendVars, HubProofs!sendVars, Hub!reportVars,
         HubProofs!reportVars
<1>10. Hub!FinishLocked(c) => HubProofs!FinishLocked(c)
  BY DEF Hub!FinishLocked, HubProofs!FinishLocked, Hub!FoundPending,
         HubProofs!FoundPending, Hub!closeVars, HubProofs!closeVars,
         Hub!sendVars, HubProofs!sendVars, Hub!reportVars, HubProofs!reportVars
<1>11. Hub!Report(c) => HubProofs!Report(c)
  BY DEF Hub!Report, HubProofs!Report, Hub!connVars, HubProofs!connVars,
         Hub!closeVars, HubProofs!closeVars, Hub!sendVars, HubProofs!sendVars
<1>12. Hub!ReadFail(c) => HubProofs!ReadFail(c)
  BY DEF Hub!ReadFail, HubProofs!ReadFail, Hub!Deferred, HubProofs!Deferred,
         Hub!connVars, HubProofs!connVars, Hub!closeVars, HubProofs!closeVars,
         Hub!sendVars, HubProofs!sendVars, Hub!reportVars, HubProofs!reportVars
<1>13. Hub!Unregister(c) => HubProofs!Unregister(c)
  BY DEF Hub!Unregister, HubProofs!Unregister, Hub!IsRegistered,
         HubProofs!IsRegistered, Hub!ToClose, HubProofs!ToClose, Hub!sendVars,
         HubProofs!sendVars, Hub!reportVars, HubProofs!reportVars
<1>14. Hub!HandlerReturn(c) => HubProofs!HandlerReturn(c)
  BY DEF Hub!HandlerReturn, HubProofs!HandlerReturn, Hub!CloserIdle,
         HubProofs!CloserIdle, Hub!closeVars, HubProofs!closeVars,
         Hub!sendVars, HubProofs!sendVars, Hub!reportVars, HubProofs!reportVars
<1> QED
  BY <1>1, <1>2, <1>3, <1>4, <1>5, <1>6, <1>7, <1>8, <1>9, <1>10, <1>11, <1>12,
     <1>13, <1>14

\* closeAgent, Delete and Send are, too.
LEMMA SameClosers ==
    ASSUME NEW g
    PROVE  /\ Hub!CloseAgent(g) => HubProofs!CloseAgent(g)
           /\ Hub!Interrupt(g) => HubProofs!Interrupt(g)
           /\ Hub!DeleteRow(g) => HubProofs!DeleteRow(g)
           /\ Hub!Disconnect(g) => HubProofs!Disconnect(g)
           /\ Hub!DeleteReturn(g) => HubProofs!DeleteReturn(g)
           /\ Hub!SendLookup(g) => HubProofs!SendLookup(g)
           /\ Hub!SendRefused(g) => HubProofs!SendRefused(g)
           /\ Hub!SendWritten(g) => HubProofs!SendWritten(g)
           /\ Hub!SendFailed(g) => HubProofs!SendFailed(g)
<1>1. Hub!CloseAgent(g) => HubProofs!CloseAgent(g)
  BY DEF Hub!CloseAgent, HubProofs!CloseAgent, Hub!SocketClosed,
         HubProofs!SocketClosed, Hub!IdsOf, HubProofs!IdsOf, Hub!handlerVars,
         HubProofs!handlerVars, Hub!sendVars, HubProofs!sendVars,
         Hub!reportVars, HubProofs!reportVars
<1>2. Hub!Interrupt(g) => HubProofs!Interrupt(g)
  BY DEF Hub!Interrupt, HubProofs!Interrupt, Hub!connVars, HubProofs!connVars,
         Hub!handlerVars, HubProofs!handlerVars, Hub!sendVars,
         HubProofs!sendVars
<1>3. Hub!DeleteRow(g) => HubProofs!DeleteRow(g)
  BY DEF Hub!DeleteRow, HubProofs!DeleteRow, Hub!connVars, HubProofs!connVars,
         Hub!handlerVars, HubProofs!handlerVars, Hub!closeVars,
         HubProofs!closeVars, Hub!sendVars, HubProofs!sendVars, Hub!reportVars,
         HubProofs!reportVars
<1>4. Hub!Disconnect(g) => HubProofs!Disconnect(g)
  BY DEF Hub!Disconnect, HubProofs!Disconnect, Hub!handlerVars,
         HubProofs!handlerVars, Hub!sendVars, HubProofs!sendVars,
         Hub!reportVars, HubProofs!reportVars
<1>5. Hub!DeleteReturn(g) => HubProofs!DeleteReturn(g)
  BY DEF Hub!DeleteReturn, HubProofs!DeleteReturn, Hub!CloserIdle,
         HubProofs!CloserIdle, Hub!connVars, HubProofs!connVars,
         Hub!handlerVars, HubProofs!handlerVars, Hub!closeVars,
         HubProofs!closeVars, Hub!sendVars, HubProofs!sendVars, Hub!reportVars,
         HubProofs!reportVars
<1>6. Hub!SendLookup(g) => HubProofs!SendLookup(g)
  BY DEF Hub!SendLookup, HubProofs!SendLookup, Hub!connVars,
         HubProofs!connVars, Hub!handlerVars, HubProofs!handlerVars,
         Hub!closeVars, HubProofs!closeVars, Hub!reportVars,
         HubProofs!reportVars
<1>7. Hub!SendRefused(g) => HubProofs!SendRefused(g)
  BY DEF Hub!SendRefused, HubProofs!SendRefused, Hub!connVars,
         HubProofs!connVars, Hub!handlerVars, HubProofs!handlerVars,
         Hub!closeVars, HubProofs!closeVars, Hub!reportVars,
         HubProofs!reportVars
<1>8. Hub!SendWritten(g) => HubProofs!SendWritten(g)
  BY DEF Hub!SendWritten, HubProofs!SendWritten, Hub!handlerVars,
         HubProofs!handlerVars, Hub!closeVars, HubProofs!closeVars,
         Hub!reportVars, HubProofs!reportVars
<1>9. Hub!SendFailed(g) => HubProofs!SendFailed(g)
  BY DEF Hub!SendFailed, HubProofs!SendFailed, Hub!TakenBack,
         HubProofs!TakenBack, Hub!SocketClosed, HubProofs!SocketClosed,
         Hub!handlerVars, HubProofs!handlerVars, Hub!closeVars,
         HubProofs!closeVars, Hub!reportVars, HubProofs!reportVars
<1> QED
  BY <1>1, <1>2, <1>3, <1>4, <1>5, <1>6, <1>7, <1>8, <1>9

\* Reading a message is, too.
LEMMA SameReading ==
    ASSUME NEW c, NEW m, Hub!ReadMessage(c, m)
    PROVE  HubProofs!ReadMessage(c, m)
BY DEF Hub!ReadMessage, HubProofs!ReadMessage, Hub!connVars,
       HubProofs!connVars, Hub!closeVars, HubProofs!closeVars, Hub!sendVars,
       HubProofs!sendVars, Hub!reportVars, HubProofs!reportVars

-----------------------------------------------------------------------------
(* The steps of the system *)

\* What the panel does without the agent.
HandlerAlone(c) ==
    \/ Hub!Authenticate(c) \/ Hub!Refuse(c) \/ Hub!LinkLost(c)
    \/ Hub!Register(c) \/ Hub!RecheckOk(c) \/ Hub!RecheckFail(c)
    \/ Hub!HandleAccept(c) \/ Hub!FinishLookup(c) \/ Hub!FinishOffline(c)
    \/ Hub!FinishLocked(c) \/ Hub!Report(c)
    \/ Hub!ReadFail(c) \/ Hub!Unregister(c) \/ Hub!HandlerReturn(c)

OthersAlone ==
    \/ \E g \in Hub!Closers : Hub!CloseAgent(g) \/ Hub!Interrupt(g)
    \/ Hub!DeleteRow(Server) \/ Hub!Disconnect(Server) \/ Hub!DeleteReturn(Server)
    \/ \E k \in Cmds : Hub!SendLookup(k) \/ Hub!SendRefused(k)

\* What the agent does without the panel.
SessionAlone(c) ==
    \/ Dial(c) \/ DialOk(c) \/ DialFail(c) \/ EndSession(c)
    \/ ReceiveCommand(c) \/ RejectCommand(c)

JobAlone(k) ==
    \/ SendAck(k) \/ TryLock(k) \/ Busy(k) \/ ScriptExit(k) \/ SendResult(k)
    \/ LogFail(k)

PanelAlone ==
    /\ (\E c \in Conns : HandlerAlone(c)) \/ OthersAlone
    /\ UNCHANGED clientVars

AgentSideAlone ==
    /\ \/ \E c \in Conns : SessionAlone(c)
       \/ \E k \in Cmds : JobAlone(k)
       \/ Restart
    /\ UNCHANGED hubVars

\* A step is one side's, or the two sides meet.
LEMMA StepKinds ==
    ASSUME [Next]_vars
    PROVE  \/ PanelAlone
           \/ AgentSideAlone
           \/ \E c \in Conns : ReadReply(c)
           \/ \E k \in Cmds : WriteCommand(k) \/ FailToWrite(k)
           \/ UNCHANGED vars
<1> USE DEF PanelAlone, AgentSideAlone, HubAlone, AgentAlone
<1>1. CASE \E c \in Conns :
             \/ Admit(c) \/ TurnAway(c)
             \/ HandlerStep(c) \/ HubAlone(Hub!LinkLost(c))
  BY <1>1 DEF Admit, TurnAway, HandlerStep, HandlerAlone
<1>2. CASE \E c \in Conns :
             \/ AgentAlone(Dial(c)) \/ Connected(c) \/ AgentAlone(DialFail(c))
             \/ AgentAlone(EndSession(c)) \/ ReadCommand(c)
  BY <1>2 DEF Connected, ReadCommand, SessionAlone
<1>3. CASE \/ \E g \in Hub!Closers : CloserStep(g)
           \/ DeleteServer \/ DeleteStep
           \/ \E k \in Cmds : BeginSend(k) \/ HubAlone(Hub!SendRefused(k))
  BY <1>3
  DEF CloserStep, DeleteServer, DeleteStep, BeginSend, OthersAlone,
      Hub!CloserStep
<1>4. CASE \/ \E k \in Cmds : RunJob(k) \/ AgentAlone(LogFail(k))
           \/ AgentAlone(Restart)
  BY <1>4 DEF RunJob, JobStep, JobAlone
<1> QED
  BY <1>1, <1>2, <1>3, <1>4 DEF Next, SendStep, Rest

-----------------------------------------------------------------------------
(* Lists of what is under way *)

\* Append adds one item at the end.
LEMMA AppendItems ==
    ASSUME NEW S, NEW s \in Seq(S), NEW x \in S
    PROVE  /\ Append(s, x) \in Seq(S)
           /\ Len(Append(s, x)) = Len(s) + 1
           /\ DOMAIN s = 1..Len(s)
           /\ DOMAIN Append(s, x) = 1..(Len(s) + 1)
           /\ \A i \in 1..Len(s) : Append(s, x)[i] = s[i]
           /\ Append(s, x)[Len(s) + 1] = x
OBVIOUS

\* Tail takes the first one away.
LEMMA TailItems ==
    ASSUME NEW S, NEW s \in Seq(S), s # <<>>
    PROVE  /\ Tail(s) \in Seq(S)
           /\ Len(Tail(s)) = Len(s) - 1
           /\ DOMAIN s = 1..Len(s)
           /\ DOMAIN Tail(s) = 1..(Len(s) - 1)
           /\ 1 \in DOMAIN s /\ Head(s) = s[1] /\ Head(s) \in S
           /\ \A i \in DOMAIN Tail(s) : Tail(s)[i] = s[i + 1]
OBVIOUS

-----------------------------------------------------------------------------
(* The invariants *)

\* A command has a session once it is received, and what its script came to
\* is what its goroutine goes by.
Jobs ==
    \A k \in Cmds :
        /\ job[k] = "none" <=> via[k] = NoConn
        /\ via[k] # NoConn => link[via[k]] \in {"up", "mute", "closed"}
        /\ verdict[k] = "ok" <=> k \in ended
        /\ verdict[k] # "none" => job[k] \in {"reporting", "done", "dead"}
        /\ job[k] \in {"reporting", "done"} => verdict[k] # "none"

\* A command is written once, to the agent Send looked up, and whatever is
\* said of it stays on the connection it came on.
OnItsWay(c) ==
    \A i \in DOMAIN in[c] :
        /\ chosen[in[c][i]] = c
        /\ spc[in[c][i]] \in {"sent", "failed"}
        /\ job[in[c][i]] = "none"
        /\ \A j \in DOMAIN in[c] : in[c][j] = in[c][i] => j = i

Flow ==
    /\ \A c \in Conns :
          /\ OnItsWay(c)
          /\ \A i \in DOMAIN out[c] : via[out[c][i].cmd] = c
          /\ hpc[c] \in Hub!HoldsMessage => via[hand[c].cmd] = c
    /\ \A k \in Cmds : via[k] # NoConn =>
          chosen[k] = via[k] /\ spc[k] \in {"sent", "failed"}

\* What a reply says of a command is what happened to it.
Genuine(m) ==
    /\ m.type \in {"ok", "fail"} => job[m.cmd] = "done" /\ verdict[m.cmd] = m.type
    /\ m.type = "nack" => job[m.cmd] = "rejected"

Truth ==
    /\ \A c \in Conns :
          /\ \A i \in DOMAIN out[c] : Genuine(out[c][i])
          /\ hpc[c] \in Hub!HoldsMessage => Genuine(hand[c])
    /\ \A k \in Cmds, t \in Answers :
          outcome[k] = <<t>> => Genuine([type |-> t, cmd |-> k])

\* The acknowledgement of a command has been told, is in the handler's hands,
\* or is among the first n replies under way.
AckAhead(k, c, n) ==
    \/ k \in acked
    \/ hpc[c] = "handling" /\ hand[c] = [type |-> "ack", cmd |-> k]
    \/ \E j \in 1..n : out[c][j] = [type |-> "ack", cmd |-> k]

\* No result overtakes the acknowledgement, and who could not send the one
\* cannot send the other.
AckFirst ==
    /\ \A c \in Conns :
          /\ \A i \in DOMAIN out[c] : out[c][i].type \in {"ok", "fail"} =>
                AckAhead(out[c][i].cmd, c, i - 1)
          /\ hpc[c] \in Hub!HoldsMessage /\ hand[c].type \in {"ok", "fail"} =>
                hand[c].cmd \in acked
    /\ \A k \in Cmds :
          job[k] \in {"starting", "running", "reporting"} /\ link[via[k]] = "up" =>
              AckAhead(k, via[k], Len(out[via[k]]))

\* The connection is over, for one side or both, or about to be.
Broken(c) ==
    link[c] # "up" \/ sock[c] # "up" \/ \E g \in Hub!Closers : victim[g] = c

\* The answer to a command is under way or in the handler's hands.
Answering(k, c) ==
    \/ \E i \in DOMAIN out[c] : out[c][i].cmd = k /\ out[c][i].type \in Answers
    \/ hpc[c] \in Hub!HoldsMessage /\ hand[c].cmd = k /\ hand[c].type \in Answers

\* Finish looks the answer's command up at the connection it came on, unless
\* that one is over.
Heard ==
    /\ \A k \in Cmds : job[k] \in {"done", "rejected"} /\ Hub!Outstanding(k) =>
          Answering(k, via[k]) \/ Broken(via[k])
    /\ \A c \in Conns : hpc[c] = "finishing" /\ found[c] # c => Broken(c)

-----------------------------------------------------------------------------
(* What either side may do to what the other goes by *)

\* The session of a command was up once.
LEMMA Received ==
    ASSUME ClientTypeOK, Jobs, NEW k \in Cmds, via[k] # NoConn
    PROVE  /\ via[k] \in Conns
           /\ link[via[k]] \in {"up", "mute", "closed"}
           /\ link[via[k]] # "none"
<1>1. via[k] \in Conns
  BY DEF ClientTypeOK
<1>2. link[via[k]] \in {"up", "mute", "closed"}
  BY DEF Jobs
<1> QED
  BY <1>1, <1>2

\* A refusal is under way or the session is silenced.
LEMMA Refusing ==
    ASSUME NEW c, RejectCommand(c)
    PROVE  \/ /\ link[c] = "up" /\ link' = link
              /\ out' = [out EXCEPT ![c] =
                            Append(out[c], [type |-> "nack", cmd |-> Head(in[c])])]
           \/ /\ out' = out
              /\ link' = [link EXCEPT ![c] =
                            IF link[c] = "up" THEN "mute" ELSE link[c]]
<1>1. CASE link[c] = "up" /\ link' = link
  BY <1>1 DEF RejectCommand
<1>2. CASE out' = out
  BY <1>2 DEF RejectCommand
<1> QED
  BY <1>1, <1>2 DEF RejectCommand

\* What the agent does keeps its types and the state of its jobs.
LEMMA AgentBasics ==
    ASSUME ClientTypeOK, Jobs, \A c \in Conns : OnItsWay(c), AgentSideAlone
    PROVE  ClientTypeOK' /\ Jobs'
<1> USE DEF ClientTypeOK, Jobs, Active, sessionVars, jobVars
<1>1. ASSUME NEW c \in Conns, Dial(c) PROVE ClientTypeOK' /\ Jobs'
  BY <1>1 DEF Dial
<1>2. ASSUME NEW c \in Conns, DialOk(c) PROVE ClientTypeOK' /\ Jobs'
  BY <1>2 DEF DialOk
<1>3. ASSUME NEW c \in Conns, DialFail(c) PROVE ClientTypeOK' /\ Jobs'
  BY <1>3 DEF DialFail
<1>4. ASSUME NEW c \in Conns, EndSession(c) PROVE ClientTypeOK' /\ Jobs'
  BY <1>4 DEF EndSession, Readable
<1>5. ASSUME NEW c \in Conns, in[c] # <<>>
      PROVE  Tail(in[c]) \in Seq(Cmds) /\ Head(in[c]) \in Cmds
             /\ job[Head(in[c])] = "none"
  <2>1. in[c] \in Seq(Cmds)
    OBVIOUS
  <2>2. 1 \in DOMAIN in[c] /\ Head(in[c]) = in[c][1]
    BY <1>5, <2>1, TailItems
  <2> QED
    BY <1>5, <2>1, <2>2, TailItems DEF OnItsWay
<1>6. ASSUME NEW c \in Conns, ReceiveCommand(c) PROVE ClientTypeOK' /\ Jobs'
  BY <1>5, <1>6 DEF ReceiveCommand, Readable
<1>7. ASSUME NEW c \in Conns, RejectCommand(c) PROVE ClientTypeOK' /\ Jobs'
  <2> DEFINE k == Head(in[c])
             m == [type |-> "nack", cmd |-> k]
  <2>1. /\ k \in Cmds /\ job[k] = "none" /\ Tail(in[c]) \in Seq(Cmds)
        /\ link[c] \in {"up", "mute", "closed"}
    BY <1>5, <1>7 DEF RejectCommand, Readable
  <2>2. out[c] \in Seq(Replies) /\ m \in Replies
    BY <2>1 DEF Replies, Answers
  <2>3. out' \in [Conns -> Seq(Replies)]
    <3>1. Append(out[c], m) \in Seq(Replies)
      BY <2>2, AppendItems
    <3>2. CASE out' = out
      BY <3>2
    <3>3. CASE out' = [out EXCEPT ![c] = Append(out[c], m)]
      BY <3>1, <3>3
    <3> QED
      BY <1>7, <3>2, <3>3, Refusing
  <2>4. /\ job' = [job EXCEPT ![k] = "rejected"] /\ via' = [via EXCEPT ![k] = c]
        /\ in' = [in EXCEPT ![c] = Tail(in[c])]
        /\ UNCHANGED <<cur, lock, verdict, ended, restarts>>
    BY <1>7 DEF RejectCommand
  <2>5. \/ link' = link
        \/ link' = [link EXCEPT ![c] = IF link[c] = "up" THEN "mute" ELSE link[c]]
    BY <1>7, Refusing
  <2>6. link' \in [Conns -> {"none", "dialing", "up", "mute", "closed"}]
    <3>1. CASE link' = link
      BY <3>1
    <3>2. CASE link' = [link EXCEPT ![c] = "mute"]
      BY <3>2
    <3>3. CASE link' = [link EXCEPT ![c] = link[c]]
      BY <3>3
    <3> QED
      BY <2>5, <3>1, <3>2, <3>3
  <2>7. /\ job' \in [Cmds -> Active \cup {"none", "rejected", "done", "dead"}]
        /\ via' \in [Cmds -> Conns \cup {NoConn}]
        /\ in' \in [Conns -> Seq(Cmds)]
    BY <2>1, <2>4
  <2>8. Jobs'
    BY <2>1, <2>4, <2>5
  <2> QED
    BY <2>3, <2>4, <2>6, <2>7, <2>8
<1>8. ASSUME NEW k \in Cmds, NEW type \in Answers \cup {"ack"}, NEW c \in Conns,
             Written(k, type), via[k] = c
      PROVE  /\ out' \in [Conns -> Seq(Replies)]
             /\ link' = link
  <2> DEFINE m == [type |-> type, cmd |-> k]
  <2>1. out[c] \in Seq(Replies) /\ m \in Replies
    BY DEF Replies
  <2>2. Append(out[c], m) \in Seq(Replies)
    BY <2>1, AppendItems
  <2>3. out' = [out EXCEPT ![c] = Append(out[c], m)] /\ link' = link
    BY <1>8 DEF Written, OwnSession
  <2> QED
    BY <2>2, <2>3
<1>9. ASSUME NEW c, link' = HangUp(c)
      PROVE  /\ link' \in [Conns -> {"none", "dialing", "up", "mute", "closed"}]
             /\ \A d \in Conns : link'[d] \in {link[d], "closed"}
  BY <1>9 DEF HangUp
<1>10. ASSUME NEW k \in Cmds, SendAck(k) PROVE ClientTypeOK' /\ Jobs'
  <2>1. via[k] \in Conns
    BY <1>10 DEF SendAck
  <2>2. /\ out' \in [Conns -> Seq(Replies)]
        /\ link' \in [Conns -> {"none", "dialing", "up", "mute", "closed"}]
        /\ \A d \in Conns : link'[d] \in {link[d], "closed"}
    <3>1. CASE Written(k, "ack")
      BY <1>8, <2>1, <3>1
    <3>2. CASE NotWritten(k)
      BY <1>9, <3>2 DEF NotWritten, OwnSession
    <3> QED
      BY <1>10, <3>1, <3>2 DEF SendAck
  <2> QED
    BY <1>10, <2>1, <2>2 DEF SendAck
<1>11. ASSUME NEW k \in Cmds, TryLock(k) PROVE ClientTypeOK' /\ Jobs'
  BY <1>11 DEF TryLock
<1>12. ASSUME NEW k \in Cmds, Busy(k) PROVE ClientTypeOK' /\ Jobs'
  BY <1>12 DEF Busy
<1>13. ASSUME NEW k \in Cmds, ScriptExit(k) PROVE ClientTypeOK' /\ Jobs'
  BY <1>13 DEF ScriptExit, VerdictOf, Unlocked
<1>14. ASSUME NEW k \in Cmds, SendResult(k) PROVE ClientTypeOK' /\ Jobs'
  <2>1. via[k] \in Conns /\ verdict[k] \in Answers
    BY <1>14 DEF SendResult, Answers
  <2>2. /\ out' \in [Conns -> Seq(Replies)]
        /\ link' \in [Conns -> {"none", "dialing", "up", "mute", "closed"}]
        /\ \A d \in Conns : link'[d] \in {link[d], "closed"}
    <3>1. CASE Written(k, verdict[k])
      BY <1>8, <2>1, <3>1
    <3>2. CASE NotWritten(k)
      BY <1>9, <3>2 DEF NotWritten, OwnSession
    <3> QED
      BY <1>14, <3>1, <3>2 DEF SendResult
  <2> QED
    BY <1>14, <2>1, <2>2 DEF SendResult
<1>15. ASSUME NEW k \in Cmds, LogFail(k) PROVE ClientTypeOK' /\ Jobs'
  <2>1. /\ link' \in [Conns -> {"none", "dialing", "up", "mute", "closed"}]
        /\ \A d \in Conns : link'[d] \in {link[d], "closed"}
    BY <1>9, <1>15 DEF LogFail
  <2> QED
    BY <1>15, <2>1 DEF LogFail
<1>16. CASE Restart
  <2>1. restarts' \in 0..MaxRestarts
    BY <1>16 DEF Restart
  <2>2. /\ cur' = NoConn /\ lock' = NoCmd /\ UNCHANGED <<out, via, verdict, ended>>
        /\ link' = [c \in Conns |-> IF link[c] = "none" THEN "none" ELSE "closed"]
        /\ in' = [c \in Conns |-> <<>>]
        /\ job' = [k \in Cmds |-> IF job[k] \in Active THEN "dead" ELSE job[k]]
    BY <1>16 DEF Restart
  <2>3. in' \in [Conns -> Seq(Cmds)]
    BY <2>2
  <2>4. /\ link' \in [Conns -> {"none", "dialing", "up", "mute", "closed"}]
        /\ job' \in [Cmds -> Active \cup {"none", "rejected", "done", "dead"}]
    BY <2>2
  <2>5. Jobs'
    <3> SUFFICES ASSUME NEW k \in Cmds
                 PROVE  /\ job'[k] = "none" <=> via'[k] = NoConn
                        /\ via'[k] # NoConn => link'[via'[k]] \in {"up", "mute", "closed"}
                        /\ verdict'[k] = "ok" <=> k \in ended'
                        /\ verdict'[k] # "none" =>
                              job'[k] \in {"reporting", "done", "dead"}
                        /\ job'[k] \in {"reporting", "done"} => verdict'[k] # "none"
      BY DEF Jobs
    <3>1. job'[k] = IF job[k] \in Active THEN "dead" ELSE job[k]
      BY <2>2
    <3>2. via[k] # NoConn => link'[via[k]] = "closed"
      <4>1. via[k] # NoConn => via[k] \in Conns /\ link[via[k]] # "none"
        BY Received
      <4>2. \A c \in Conns : link[c] # "none" => link'[c] = "closed"
        BY <2>2
      <4> QED
        BY <4>1, <4>2
    <3> QED
      BY <2>2, <3>1, <3>2
  <2> QED
    BY <2>1, <2>2, <2>3, <2>4, <2>5
<1> QED
  BY <1>1, <1>2, <1>3, <1>4, <1>6, <1>7, <1>10, <1>11, <1>12, <1>13, <1>14,
     <1>15, 
     <1>16
  DEF AgentSideAlone, SessionAlone, JobAlone
-----------------------------------------------------------------------------
(* The system runs the hub *)

\* What the panel reads is a message AgentHub knows.
LEMMA ReadsMessages ==
    ASSUME ClientTypeOK, NEW c \in Conns, out[c] # <<>>
    PROVE  /\ Head(out[c]) \in Replies
           /\ Head(out[c]) \in HubProofs!Messages
           /\ Tail(out[c]) \in Seq(Replies)
<1>1. out[c] \in Seq(Replies)
  BY DEF ClientTypeOK
<1>2. Head(out[c]) \in Replies /\ Tail(out[c]) \in Seq(Replies)
  BY <1>1, TailItems
<1> QED
  BY <1>2 DEF Replies, Answers, HubProofs!Messages, HubProofs!ReplyTypes

\* Every step of the system is a step of the hub or leaves the hub alone.
LEMMA HubSteps ==
    ASSUME ClientTypeOK, [Next]_vars
    PROVE  [HubProofs!Next]_(HubProofs!vars)
<1>1. ASSUME NEW c \in Conns, HandlerAlone(c) PROVE HubProofs!Next
  <2>1. \/ HubProofs!Authenticate(c) \/ HubProofs!Refuse(c)
        \/ HubProofs!LinkLost(c) \/ HubProofs!HandlerStep(c)
    BY <1>1, SameHandler DEF HandlerAlone, HubProofs!HandlerStep
  <2> QED
    BY <2>1 DEF HubProofs!Next
<1>2. ASSUME OthersAlone PROVE HubProofs!Next
  <2>1. CASE \E g \in Hub!Closers : Hub!CloseAgent(g) \/ Hub!Interrupt(g)
    <3>1. PICK g \in Hub!Closers : Hub!CloseAgent(g) \/ Hub!Interrupt(g)
      BY <2>1
    <3>2. HubProofs!CloserStep(g)
      BY <3>1, SameClosers DEF HubProofs!CloserStep
    <3>3. g \in HubProofs!Closers
      BY DEF Hub!Closers, HubProofs!Closers
    <3> QED
      BY <3>2, <3>3 DEF HubProofs!Next
  <2>2. CASE \/ Hub!DeleteRow(Server) \/ Hub!Disconnect(Server)
             \/ Hub!DeleteReturn(Server)
    BY <2>2, SameClosers DEF HubProofs!Next
  <2>3. CASE \E k \in Cmds : Hub!SendLookup(k) \/ Hub!SendRefused(k)
    BY <2>3, SameClosers DEF HubProofs!Next, HubProofs!SendStep
  <2> QED
    BY <1>2, <2>1, <2>2, <2>3 DEF OthersAlone
<1>3. ASSUME NEW c \in Conns, ReadReply(c) PROVE HubProofs!Next
  <2>1. Hub!ReadMessage(c, Head(out[c])) /\ out[c] # <<>>
    BY <1>3 DEF ReadReply
  <2>2. HubProofs!ReadMessage(c, Head(out[c]))
    BY <2>1, SameReading
  <2> QED
    BY <2>1, <2>2, ReadsMessages DEF HubProofs!Next
<1>4. ASSUME NEW k \in Cmds, WriteCommand(k) \/ FailToWrite(k)
      PROVE  HubProofs!Next
  BY <1>4, SameClosers
  DEF WriteCommand, FailToWrite, HubProofs!Next, HubProofs!SendStep
<1>5. CASE UNCHANGED hubVars
  BY <1>5, SameState
<1> QED
  BY <1>1, <1>2, <1>3, <1>4, <1>5, StepKinds
  DEF PanelAlone, AgentSideAlone, vars
-----------------------------------------------------------------------------
(* What a step of the hub other than a reading does *)

\* A step of the panel, whether or not the agent is involved.
PanelSide ==
    \/ \E c \in Conns : HandlerAlone(c)
    \/ OthersAlone
    \/ \E k \in Cmds : Hub!SendWritten(k) \/ Hub!SendFailed(k)

\* A send that is over stays over, and its agent is the one that was looked up.
LEMMA SendsStay ==
    ASSUME Hub!TypeOK, PanelSide, NEW k \in Cmds, spc[k] \in {"sent", "failed"}
    PROVE  spc'[k] = spc[k] /\ chosen'[k] = chosen[k]
<1> USE DEF Hub!TypeOK
<1>1. CASE UNCHANGED <<spc, chosen>>
  BY <1>1
<1>2. ASSUME NEW j \in Cmds, Hub!SendLookup(j)
         PROVE spc'[k] = spc[k] /\ chosen'[k] = chosen[k]
  BY <1>2 DEF Hub!SendLookup
<1>3. ASSUME NEW j \in Cmds,
             Hub!SendRefused(j) \/ Hub!SendWritten(j) \/ Hub!SendFailed(j)
      PROVE  spc'[k] = spc[k] /\ chosen'[k] = chosen[k]
  BY <1>3 DEF Hub!SendRefused, Hub!SendWritten, Hub!SendFailed
<1>4. ASSUME NEW c \in Conns, HandlerAlone(c) PROVE UNCHANGED <<spc, chosen>>
  BY <1>4
  DEF HandlerAlone, Hub!sendVars, Hub!Authenticate, Hub!Refuse, Hub!LinkLost,
      Hub!Register, Hub!RecheckOk, Hub!RecheckFail, Hub!HandleAccept,
      Hub!FinishLookup, Hub!FinishOffline, Hub!FinishLocked, Hub!Report,
      Hub!ReadFail, Hub!Unregister, Hub!HandlerReturn
<1>5. CASE \/ \E g \in Hub!Closers : Hub!CloseAgent(g) \/ Hub!Interrupt(g)
           \/ Hub!DeleteRow(Server) \/ Hub!Disconnect(Server)
           \/ Hub!DeleteReturn(Server)
  BY <1>1, <1>5
  DEF Hub!sendVars, Hub!CloseAgent, Hub!Interrupt, Hub!DeleteRow,
      Hub!Disconnect, Hub!DeleteReturn
<1> QED
  BY <1>1, <1>2, <1>3, <1>4, <1>5 DEF PanelSide, OthersAlone

\* A handler comes by a message by reading only.
LEMMA HandsStay ==
    ASSUME Hub!TypeOK, PanelSide, NEW c \in Conns, hpc'[c] \in Hub!HoldsMessage
    PROVE  hpc[c] \in Hub!HoldsMessage /\ hand'[c] = hand[c]
<1> USE DEF Hub!TypeOK, Hub!HoldsMessage
<1>1. CASE UNCHANGED <<hpc, hand>>
  BY <1>1
<1>2. ASSUME NEW d \in Conns,
             Hub!Authenticate(d) \/ Hub!Refuse(d) \/ Hub!Register(d)
             \/ Hub!RecheckOk(d) \/ Hub!RecheckFail(d) \/ Hub!ReadFail(d)
             \/ Hub!Unregister(d) \/ Hub!HandlerReturn(d) \/ Hub!FinishLookup(d)
      PROVE  hpc[c] \in Hub!HoldsMessage /\ hand'[c] = hand[c]
  BY <1>2
  DEF Hub!Authenticate, Hub!Refuse, Hub!Register, Hub!RecheckOk,
      Hub!RecheckFail, Hub!ReadFail, Hub!Unregister, Hub!HandlerReturn,
      Hub!FinishLookup, Hub!Deferred
<1>3. ASSUME NEW d \in Conns,
             Hub!HandleAccept(d) \/ Hub!FinishOffline(d) \/ Hub!Report(d)
      PROVE  hpc[c] \in Hub!HoldsMessage /\ hand'[c] = hand[c]
  BY <1>3 DEF Hub!HandleAccept, Hub!FinishOffline, Hub!Report
<1>4. ASSUME NEW d \in Conns, Hub!FinishLocked(d)
      PROVE  hpc[c] \in Hub!HoldsMessage /\ hand'[c] = hand[c]
  BY <1>4 DEF Hub!FinishLocked
<1>5. ASSUME NEW d \in Conns, Hub!LinkLost(d) PROVE UNCHANGED <<hpc, hand>>
  BY <1>5 DEF Hub!LinkLost, Hub!handlerVars
<1>6. ASSUME OthersAlone PROVE UNCHANGED <<hpc, hand>>
  BY <1>6
  DEF OthersAlone, Hub!handlerVars, Hub!CloseAgent, Hub!Interrupt,
      Hub!DeleteRow, Hub!Disconnect, Hub!DeleteReturn, Hub!SendLookup,
      Hub!SendRefused
<1>7. ASSUME NEW k \in Cmds, Hub!SendWritten(k) \/ Hub!SendFailed(k)
      PROVE  UNCHANGED <<hpc, hand>>
  BY <1>7 DEF Hub!handlerVars, Hub!SendWritten, Hub!SendFailed
<1> QED
  BY <1>1, <1>2, <1>3, <1>4, <1>5, <1>6, <1>7 DEF PanelSide, HandlerAlone

\* What was told stays told, and an acknowledgement that is in a handler's
\* hands is told next.
LEMMA AcksStay ==
    ASSUME Hub!TypeOK, PanelSide
    PROVE  /\ acked \subseteq acked'
           /\ \A c \in Conns : hpc[c] = "handling" /\ hand[c].type = "ack" =>
                  \/ hpc'[c] = "handling" /\ hand'[c] = hand[c]
                  \/ hand[c].cmd \in acked'
<1> USE DEF Hub!TypeOK, Hub!HoldsMessage
<1>1. CASE UNCHANGED <<hpc, hand, acked>>
  BY <1>1
<1>2. ASSUME NEW d \in Conns, Hub!HandleAccept(d)
      PROVE  /\ acked \subseteq acked'
             /\ \A c \in Conns : hpc[c] = "handling" /\ hand[c].type = "ack" =>
                    \/ hpc'[c] = "handling" /\ hand'[c] = hand[c]
                    \/ hand[c].cmd \in acked'
  BY <1>2 DEF Hub!HandleAccept
<1>3. ASSUME NEW d \in Conns,
             Hub!Authenticate(d) \/ Hub!Refuse(d) \/ Hub!Register(d)
             \/ Hub!RecheckOk(d) \/ Hub!RecheckFail(d) \/ Hub!ReadFail(d)
             \/ Hub!Unregister(d) \/ Hub!HandlerReturn(d)
             \/ Hub!FinishLookup(d) \/ Hub!FinishOffline(d)
             \/ Hub!FinishLocked(d) \/ Hub!Report(d)
      PROVE  /\ acked' = acked
             /\ \A c \in Conns : hpc[c] = "handling" /\ hand[c].type = "ack" =>
                    hpc'[c] = "handling" /\ hand'[c] = hand[c]
  BY <1>3
  DEF Hub!Authenticate, Hub!Refuse, Hub!Register, Hub!RecheckOk,
      Hub!RecheckFail, Hub!ReadFail, Hub!Unregister, Hub!HandlerReturn,
      Hub!FinishLookup, Hub!FinishOffline, Hub!FinishLocked, Hub!Report,
      Hub!reportVars
<1>4. ASSUME NEW d \in Conns, Hub!LinkLost(d) PROVE UNCHANGED <<hpc, hand, acked>>
  BY <1>4 DEF Hub!LinkLost, Hub!handlerVars, Hub!reportVars
<1>5. ASSUME OthersAlone PROVE UNCHANGED <<hpc, hand, acked>>
  BY <1>5
  DEF OthersAlone, Hub!handlerVars, Hub!reportVars, Hub!CloseAgent,
      Hub!Interrupt, Hub!DeleteRow, Hub!Disconnect, Hub!DeleteReturn,
      Hub!SendLookup, Hub!SendRefused
<1>6. ASSUME NEW k \in Cmds, Hub!SendWritten(k) \/ Hub!SendFailed(k)
      PROVE  UNCHANGED <<hpc, hand, acked>>
  BY <1>6 DEF Hub!handlerVars, Hub!reportVars, Hub!SendWritten, Hub!SendFailed
<1> QED
  BY <1>1, <1>2, <1>3, <1>4, <1>5, <1>6 DEF PanelSide, HandlerAlone

\* The history of a command grows by a report or an interruption.
LEMMA Histories ==
    ASSUME Hub!TypeOK, PanelSide, NEW k \in Cmds
    PROVE  \/ outcome'[k] = outcome[k]
           \/ \E c \in Conns :
                 /\ hpc[c] = "reporting" /\ hand[c].cmd = k
                 /\ outcome'[k] = Append(outcome[k], hand[c].type)
           \/ outcome'[k] = Append(outcome[k], "interrupted")
<1> USE DEF Hub!TypeOK
<1>1. ASSUME NEW c \in Conns, Hub!Report(c)
      PROVE  \/ outcome'[k] = outcome[k]
             \/ /\ hpc[c] = "reporting" /\ hand[c].cmd = k
                /\ outcome'[k] = Append(outcome[k], hand[c].type)
  BY <1>1 DEF Hub!Report
<1>2. ASSUME NEW g \in Hub!Closers, Hub!Interrupt(g)
      PROVE  \/ outcome'[k] = outcome[k]
             \/ outcome'[k] = Append(outcome[k], "interrupted")
  <2>1. PICK j \in ids[g] : outcome' =
                             [outcome EXCEPT ![j] = Append(@, "interrupted")]
    BY <1>2 DEF Hub!Interrupt
  <2> QED
    BY <2>1
<1>3. ASSUME NEW c \in Conns, HandlerAlone(c), ~ Hub!Report(c)
      PROVE  outcome' = outcome
  BY <1>3
  DEF HandlerAlone, Hub!reportVars, Hub!Authenticate, Hub!Refuse, Hub!LinkLost,
      Hub!Register, Hub!RecheckOk, Hub!RecheckFail, Hub!HandleAccept,
      Hub!FinishLookup, Hub!FinishOffline, Hub!FinishLocked,
      Hub!ReadFail, Hub!Unregister, Hub!HandlerReturn
<1>4. ASSUME NEW g, Hub!CloseAgent(g) \/ Hub!DeleteRow(g) \/ Hub!Disconnect(g)
                    \/ Hub!DeleteReturn(g) \/ Hub!SendLookup(g)
                    \/ Hub!SendRefused(g) \/ Hub!SendWritten(g)
                    \/ Hub!SendFailed(g)
      PROVE  outcome' = outcome
  BY <1>4
  DEF Hub!reportVars, Hub!CloseAgent, Hub!DeleteRow, Hub!Disconnect,
      Hub!DeleteReturn, Hub!SendLookup, Hub!SendRefused, Hub!SendWritten,
      Hub!SendFailed
<1> QED
  BY <1>1, <1>2, <1>3, <1>4 DEF PanelSide, OthersAlone

\* A socket that is gone stays gone.
LEMMA SocketsStay ==
    ASSUME Hub!TypeOK, PanelSide, NEW c \in Conns, sock[c] \in {"lost", "closed"},
           hpc[c] # "authed"
    PROVE  sock'[c] \in {"lost", "closed"}
<1> USE DEF Hub!TypeOK
<1>1. CASE sock' = sock
  BY <1>1
<1>2. ASSUME NEW d \in Conns, Hub!Register(d) \/ Hub!LinkLost(d)
                              \/ Hub!HandlerReturn(d)
      PROVE  sock'[c] \in {"lost", "closed"}
  BY <1>2 DEF Hub!Register, Hub!LinkLost, Hub!HandlerReturn
<1>3. ASSUME NEW g, Hub!CloseAgent(g) PROVE sock'[c] \in {"lost", "closed"}
  BY <1>3 DEF Hub!CloseAgent, Hub!SocketClosed
<1>4. ASSUME NEW k, Hub!SendFailed(k) PROVE sock'[c] \in {"lost", "closed"}
  BY <1>4 DEF Hub!SendFailed, Hub!SocketClosed
<1>5. ASSUME NEW d \in Conns, HandlerAlone(d),
             ~ (Hub!Register(d) \/ Hub!LinkLost(d) \/ Hub!HandlerReturn(d))
      PROVE  sock' = sock
  BY <1>5
  DEF HandlerAlone, Hub!connVars, Hub!Authenticate, Hub!Refuse,
      Hub!RecheckOk, Hub!RecheckFail, Hub!HandleAccept,
      Hub!FinishLookup, Hub!FinishOffline, Hub!FinishLocked, Hub!Report,
      Hub!ReadFail, Hub!Unregister
<1>6. ASSUME NEW g, Hub!Interrupt(g) \/ Hub!DeleteRow(g) \/ Hub!Disconnect(g)
                    \/ Hub!DeleteReturn(g) \/ Hub!SendLookup(g)
                    \/ Hub!SendRefused(g) \/ Hub!SendWritten(g)
      PROVE  sock' = sock
  BY <1>6
  DEF Hub!connVars, Hub!Interrupt, Hub!DeleteRow, Hub!Disconnect,
      Hub!DeleteReturn, Hub!SendLookup, Hub!SendRefused, Hub!SendWritten
<1> QED
  BY <1>1, <1>2, <1>3, <1>4, <1>5, <1>6 DEF PanelSide, OthersAlone
-----------------------------------------------------------------------------
(* What a step of the agent does *)

\* The inductive invariant of the types.
Basics == TypeOK /\ Jobs /\ Flow

\* A session takes the oldest command it was sent, or none starts.
LEMMA CommandsTaken ==
    ASSUME Basics, AgentSideAlone
    PROVE  \/ /\ via' = via
              /\ \A c \in Conns : in'[c] \in {in[c], <<>>}
              /\ \A k \in Cmds : job[k] = "none" => job'[k] = "none"
           \/ \E c \in Conns :
                 /\ in[c] # <<>> /\ in' = [in EXCEPT ![c] = Tail(in[c])]
                 /\ via' = [via EXCEPT ![Head(in[c])] = c]
                 /\ link[c] \in {"up", "mute", "closed"}
                 /\ \A k \in Cmds : k # Head(in[c]) => job'[k] = job[k]
<1> USE DEF Basics, TypeOK, ClientTypeOK
<1>1. ASSUME NEW c \in Conns, ReceiveCommand(c) \/ RejectCommand(c)
      PROVE  /\ in[c] # <<>> /\ in' = [in EXCEPT ![c] = Tail(in[c])]
             /\ via' = [via EXCEPT ![Head(in[c])] = c]
             /\ link[c] \in {"up", "mute", "closed"}
             /\ \A k \in Cmds : k # Head(in[c]) => job'[k] = job[k]
  BY <1>1 DEF ReceiveCommand, RejectCommand, Readable
<1>2. ASSUME NEW c \in Conns,
             Dial(c) \/ DialOk(c) \/ DialFail(c) \/ EndSession(c)
      PROVE  /\ via' = via /\ job' = job
             /\ \A d \in Conns : in'[d] \in {in[d], <<>>}
  BY <1>2 DEF Dial, DialOk, DialFail, EndSession, jobVars
<1>3. ASSUME NEW k \in Cmds, JobAlone(k)
      PROVE  /\ via' = via /\ in' = in
             /\ \A j \in Cmds : job[j] = "none" => job'[j] = "none"
  BY <1>3
  DEF JobAlone, SendAck, TryLock, Busy, ScriptExit, SendResult, LogFail, jobVars
<1>4. ASSUME Restart
      PROVE  /\ via' = via
             /\ \A c \in Conns : in'[c] = <<>>
             /\ \A j \in Cmds : job[j] = "none" => job'[j] = "none"
  BY <1>4 DEF Restart, Active
<1> QED
  BY <1>1, <1>2, <1>3, <1>4 DEF AgentSideAlone, SessionAlone

\* The command a session reads was not heard of before.
LEMMA FreshHead ==
    ASSUME Basics, NEW c \in Conns, in[c] # <<>>
    PROVE  /\ Head(in[c]) \in Cmds /\ Tail(in[c]) \in Seq(Cmds)
           /\ job[Head(in[c])] = "none" /\ via[Head(in[c])] = NoConn
           /\ chosen[Head(in[c])] = c
           /\ spc[Head(in[c])] \in {"sent", "failed"}
<1>1. in[c] \in Seq(Cmds)
  BY DEF Basics, TypeOK, ClientTypeOK
<1>2. /\ 1 \in DOMAIN in[c] /\ Head(in[c]) = in[c][1]
      /\ Head(in[c]) \in Cmds /\ Tail(in[c]) \in Seq(Cmds)
  BY <1>1, TailItems
<1>3. /\ job[in[c][1]] = "none" /\ chosen[in[c][1]] = c
      /\ spc[in[c][1]] \in {"sent", "failed"}
  BY <1>2 DEF Basics, Flow, OnItsWay
<1> QED
  BY <1>2, <1>3 DEF Basics, Jobs

\* What a command came to stays, and so does the session it came on.
LEMMA JobsStay ==
    ASSUME Basics, AgentSideAlone, NEW k \in Cmds
    PROVE  /\ via[k] # NoConn => via'[k] = via[k]
           /\ job[k] \in {"rejected", "done", "dead"} =>
                 job'[k] = job[k] /\ verdict'[k] = verdict[k]
<1> USE DEF Basics, TypeOK, ClientTypeOK
<1>1. via[k] # NoConn => via'[k] = via[k]
  <2>1. ASSUME NEW c \in Conns, in[c] # <<>>,
           via' = [via EXCEPT ![Head(in[c])] = c]
        PROVE  via[k] # NoConn => via'[k] = via[k]
    BY <2>1, FreshHead
  <2> QED
    BY <2>1, CommandsTaken
<1>2. ASSUME NEW c \in Conns, ReceiveCommand(c) \/ RejectCommand(c)
      PROVE  job[k] \in {"rejected", "done", "dead"} =>
                 job'[k] = job[k] /\ verdict'[k] = verdict[k]
  <2>1. in[c] # <<>>
    BY <1>2 DEF ReceiveCommand, RejectCommand
  <2>2. job[Head(in[c])] = "none"
    BY <2>1, FreshHead
  <2> QED
    BY <1>2, <2>2 DEF ReceiveCommand, RejectCommand
<1>3. ASSUME NEW c \in Conns,
             Dial(c) \/ DialOk(c) \/ DialFail(c) \/ EndSession(c)
      PROVE  job' = job /\ verdict' = verdict
  BY <1>3 DEF Dial, DialOk, DialFail, EndSession, jobVars
<1>4. ASSUME NEW j \in Cmds, JobAlone(j)
      PROVE  job[k] \in {"rejected", "done", "dead"} =>
                 job'[k] = job[k] /\ verdict'[k] = verdict[k]
  BY <1>4
  DEF JobAlone, SendAck, TryLock, Busy, ScriptExit, SendResult, LogFail, jobVars
<1>5. ASSUME Restart
      PROVE  job[k] \in {"rejected", "done", "dead"} =>
                 job'[k] = job[k] /\ verdict'[k] = verdict[k]
  BY <1>5 DEF Restart, Active
<1> QED
  BY <1>1, <1>2, <1>3, <1>4, <1>5 DEF AgentSideAlone, SessionAlone

\* A session that was up is up, or is never again.
LEMMA LinksStay ==
    ASSUME Basics, AgentSideAlone, NEW c \in Conns,
           link[c] \in {"up", "mute", "closed"}
    PROVE  link'[c] = link[c] \/ link'[c] \in {"mute", "closed"}
<1> USE DEF Basics, TypeOK, ClientTypeOK
<1>1. ASSUME NEW d \in Conns, SessionAlone(d), ~ RejectCommand(d)
      PROVE  link'[c] = link[c] \/ link'[c] \in {"mute", "closed"}
  BY <1>1
  DEF SessionAlone, Dial, DialOk, DialFail, EndSession, ReceiveCommand,
      sessionVars
<1>2. ASSUME NEW d \in Conns, RejectCommand(d)
      PROVE  link'[c] = link[c] \/ link'[c] \in {"mute", "closed"}
  BY <1>2, Refusing
<1>3. ASSUME NEW d, link' = HangUp(d)
      PROVE  link'[c] = link[c] \/ link'[c] = "closed"
  BY <1>3 DEF HangUp
<1>4. ASSUME NEW k \in Cmds, JobAlone(k)
      PROVE  link' = link \/ \E d : link' = HangUp(d)
  BY <1>4
  DEF JobAlone, SendAck, TryLock, Busy, ScriptExit, SendResult, LogFail,
      Written, NotWritten, sessionVars
<1>5. ASSUME Restart PROVE link'[c] = "closed"
  BY <1>5 DEF Restart
<1> QED
  BY <1>1, <1>2, <1>3, <1>4, <1>5 DEF AgentSideAlone

\* A reply is written on the session of its command, and is true when it is.
LEMMA RepliesWritten ==
    ASSUME Basics, AgentSideAlone, NEW c \in Conns
    PROVE  \/ out'[c] = out[c]
           \/ \E m \in Replies :
                 /\ out'[c] = Append(out[c], m)
                 /\ via'[m.cmd] = c
                 /\ Genuine(m)'
                 /\ m.type \in {"ok", "fail"} =>
                       job[m.cmd] = "reporting" /\ link[c] = "up"
<1> USE DEF Basics, TypeOK, ClientTypeOK
<1> DEFINE Goal == \/ out'[c] = out[c]
                   \/ \E m \in Replies :
                        /\ out'[c] = Append(out[c], m)
                        /\ via'[m.cmd] = c
                        /\ Genuine(m)'
                        /\ m.type \in {"ok", "fail"} =>
                              job[m.cmd] = "reporting" /\ link[c] = "up"
<1>1. ASSUME NEW d \in Conns, RejectCommand(d) PROVE Goal
  <2>1. in[d] # <<>> /\ job' = [job EXCEPT ![Head(in[d])] = "rejected"]
        /\ via' = [via EXCEPT ![Head(in[d])] = d]
    BY <1>1 DEF RejectCommand
  <2>2. Head(in[d]) \in Cmds
    BY <2>1, FreshHead
  <2>3. [type |-> "nack", cmd |-> Head(in[d])] \in Replies
    BY <2>2 DEF Replies, Answers
  <2>4. PICK m \in Replies : m = [type |-> "nack", cmd |-> Head(in[d])]
    BY <2>3
  <2>5. /\ m.type = "nack" /\ m.cmd = Head(in[d])
        /\ via'[m.cmd] = d /\ job'[m.cmd] = "rejected"
    BY <2>1, <2>2, <2>4
  <2>6. Genuine(m)'
    BY <2>5 DEF Genuine
  <2>7. out'[c] = out[c] \/ (c = d /\ out'[c] = Append(out[c], m))
    <3>1. CASE out' = out
      BY <3>1
    <3>2. CASE out' = [out EXCEPT ![d] = Append(out[d], m)]
      BY <3>2
    <3> QED
      BY <1>1, <2>4, <3>1, <3>2, Refusing
  <2> QED
    BY <2>5, <2>6, <2>7
<1>2. ASSUME NEW k \in Cmds, NEW type \in Answers \cup {"ack"}, Written(k, type),
             via[k] \in Conns, via' = via,
             type = "ack" \/ (type = verdict'[k] /\ job'[k] = "done"
                              /\ job[k] = "reporting" /\ type # "nack")
      PROVE  Goal
  <2> DEFINE m == [type |-> type, cmd |-> k]
  <2>1. m \in Replies /\ m.type = type /\ m.cmd = k
    BY DEF Replies
  <2>2. /\ out' = [out EXCEPT ![via[k]] = Append(out[via[k]], m)]
        /\ link[via[k]] = "up"
    BY <1>2 DEF Written, OwnSession
  <2>3. Genuine(m)'
    BY <1>2, <2>1 DEF Genuine
  <2>4. CASE c = via[k]
    <3>1. out'[c] = Append(out[c], m) /\ via'[m.cmd] = c
      BY <1>2, <2>1, <2>2, <2>4
    <3>2. m.type \in {"ok", "fail"} => job[m.cmd] = "reporting" /\ link[c] = "up"
      BY <1>2, <2>1, <2>2, <2>4
    <3> QED
      BY <2>1, <2>3, <3>1, <3>2
  <2>5. CASE c # via[k]
    BY <2>2, <2>5
  <2> QED
    BY <2>4, <2>5
<1>3. ASSUME NEW k \in Cmds, SendAck(k) PROVE Goal
  <2>1. via[k] \in Conns /\ via' = via
    BY <1>3 DEF SendAck, Jobs
  <2>2. CASE NotWritten(k)
    BY <2>2 DEF NotWritten
  <2> QED
    BY <1>2, <1>3, <2>1, <2>2 DEF SendAck
<1>4. ASSUME NEW k \in Cmds, SendResult(k) PROVE Goal
  <2>1. via[k] \in Conns /\ via' = via
    BY <1>4 DEF SendResult, Jobs
  <2>2. /\ verdict' = verdict /\ job[k] = "reporting" /\ job'[k] = "done"
        /\ verdict[k] \in {"ok", "fail"}
    BY <1>4 DEF SendResult, Jobs
  <2>3. CASE NotWritten(k)
    BY <2>3 DEF NotWritten
  <2>4. CASE Written(k, verdict[k])
    <3>1. verdict[k] \in Answers \cup {"ack"} /\ verdict[k] # "nack"
      BY <2>2 DEF Answers
    <3> QED
      BY <1>2, <2>1, <2>2, <2>4, <3>1
  <2> QED
    BY <1>4, <2>3, <2>4 DEF SendResult
<1>5. ASSUME NEW d \in Conns, SessionAlone(d), ~ RejectCommand(d)
      PROVE  out' = out
  BY <1>5
  DEF SessionAlone, Dial, DialOk, DialFail, EndSession, ReceiveCommand
<1>6. ASSUME NEW k \in Cmds, TryLock(k) \/ Busy(k) \/ ScriptExit(k) \/ LogFail(k)
      PROVE  out' = out
  BY <1>6 DEF TryLock, Busy, ScriptExit, LogFail
<1>7. ASSUME Restart PROVE out' = out
  BY <1>7 DEF Restart
<1>8. out' = out => Goal
  OBVIOUS
<1> HIDE DEF Goal
<1>9. Goal
  BY <1>1, <1>3, <1>4, <1>5, <1>6, <1>7, <1>8 DEF AgentSideAlone, JobAlone
<1> QED
  BY <1>9 DEF Goal
-----------------------------------------------------------------------------
(* The types, and what is under way, in every state *)

\* What is under way to the agent stays in order when the panel adds to it.
LEMMA FlowOfPanel ==
    ASSUME Basics, PanelSide, UNCHANGED <<sessionVars, out, jobVars, restarts>>,
           in' = in \/ \E k \in Cmds : /\ spc[k] = "chosen"
                                       /\ spc'[k] \in {"sent", "failed"}
                                       /\ chosen'[k] = chosen[k]
                                       /\ in' = InTransit(k)
    PROVE  in' \in [Conns -> Seq(Cmds)] /\ Flow'
<1> USE DEF Basics, TypeOK, ClientTypeOK
<1>1. UNCHANGED <<out, job, via>>
  BY DEF jobVars
<1>2. \A k \in Cmds : spc[k] \in {"sent", "failed"} =>
          spc'[k] = spc[k] /\ chosen'[k] = chosen[k]
  BY SendsStay
<1>3. ASSUME NEW c \in Conns
      PROVE  /\ \A i \in DOMAIN out'[c] : via'[out'[c][i].cmd] = c
             /\ hpc'[c] \in Hub!HoldsMessage => via'[hand'[c].cmd] = c
  <2>1. hpc'[c] \in Hub!HoldsMessage =>
            hpc[c] \in Hub!HoldsMessage /\ hand'[c] = hand[c]
    BY HandsStay
  <2> QED
    BY <1>1, <2>1 DEF Flow
<1>4. ASSUME NEW k \in Cmds, via'[k] # NoConn
      PROVE  chosen'[k] = via'[k] /\ spc'[k] \in {"sent", "failed"}
  BY <1>1, <1>2, <1>4 DEF Flow
<1>5. ASSUME NEW c \in Conns, NEW i \in DOMAIN in[c]
      PROVE  /\ in[c][i] \in Cmds
             /\ chosen'[in[c][i]] = c
             /\ spc'[in[c][i]] \in {"sent", "failed"}
             /\ spc[in[c][i]] \in {"sent", "failed"}
             /\ job'[in[c][i]] = "none"
             /\ \A j \in DOMAIN in[c] : in[c][j] = in[c][i] => j = i
  <2>1. in[c][i] \in Cmds
    BY <1>5
  <2> QED
    BY <1>1, <1>2, <1>5, <2>1 DEF Flow, OnItsWay
<1>6. CASE in' = in
  <2>1. \A c \in Conns : OnItsWay(c)'
    BY <1>5, <1>6 DEF OnItsWay
  <2> QED
    BY <1>3, <1>4, <1>6, <2>1 DEF Flow
<1>7. ASSUME NEW k \in Cmds, spc[k] = "chosen", spc'[k] \in {"sent", "failed"},
             chosen'[k] = chosen[k], in' = InTransit(k), in' # in
      PROVE  in' \in [Conns -> Seq(Cmds)] /\ Flow'
  <2>1. PICK d \in Conns : d = chosen[k]
    BY <1>7 DEF Hub!TypeOK
  <2>2. in' = [in EXCEPT ![d] = Append(in[d], k)]
    <3>1. CASE link[d] = "closed"
      BY <1>7, <2>1, <3>1 DEF InTransit
    <3>2. CASE link[d] # "closed"
      BY <1>7, <2>1, <3>2 DEF InTransit
    <3> QED
      BY <3>1, <3>2
  <2>3. in[d] \in Seq(Cmds)
    BY <2>1
  <2>4. /\ Append(in[d], k) \in Seq(Cmds)
        /\ DOMAIN in[d] = 1..Len(in[d])
        /\ DOMAIN Append(in[d], k) = 1..(Len(in[d]) + 1)
        /\ \A i \in 1..Len(in[d]) : Append(in[d], k)[i] = in[d][i]
        /\ Append(in[d], k)[Len(in[d]) + 1] = k
        /\ Len(in[d]) \in Nat
    BY <2>3, AppendItems
  <2>5. in' \in [Conns -> Seq(Cmds)]
    BY <2>2, <2>4
  <2>6. job'[k] = "none"
    BY <1>1, <1>7 DEF Flow, Jobs
  <2>7. ASSUME NEW c \in Conns, c # d PROVE OnItsWay(c)'
    <3>1. in'[c] = in[c]
      BY <2>2, <2>7
    <3> QED
      BY <1>5, <3>1 DEF OnItsWay
  <2>8. OnItsWay(d)'
    <3>1. PICK q \in Seq(Cmds) : q = in'[d]
      BY <2>5
    <3>2. /\ DOMAIN q = 1..(Len(in[d]) + 1)
          /\ \A i \in 1..Len(in[d]) : q[i] = in[d][i]
          /\ q[Len(in[d]) + 1] = k
      BY <2>2, <2>4, <3>1
    <3>3. \A i \in 1..Len(in[d]) : q[i] # k
      <4>1. \A i \in DOMAIN in[d] : spc[in[d][i]] \in {"sent", "failed"}
        BY <1>5
      <4>2. \A i \in 1..Len(in[d]) : spc[q[i]] \in {"sent", "failed"}
        BY <2>4, <3>2, <4>1
      <4> QED
        BY <1>7, <4>2
    <3> SUFFICES ASSUME NEW i \in DOMAIN q
                 PROVE  /\ chosen'[q[i]] = d
                        /\ spc'[q[i]] \in {"sent", "failed"}
                        /\ job'[q[i]] = "none"
                        /\ \A j \in DOMAIN q : q[j] = q[i] => j = i
      BY <3>1 DEF OnItsWay
    <3>4. CASE i = Len(in[d]) + 1
      BY <1>7, <2>1, <2>4, <2>6, <3>2, <3>3, <3>4
    <3>5. CASE i \in 1..Len(in[d])
      <4>1. q[i] = in[d][i] /\ q[i] # k /\ i \in DOMAIN in[d]
        BY <2>4, <3>2, <3>3, <3>5
      <4>2. /\ chosen'[q[i]] = d /\ spc'[q[i]] \in {"sent", "failed"}
            /\ job'[q[i]] = "none"
            /\ \A j \in DOMAIN in[d] : in[d][j] = in[d][i] => j = i
        BY <1>5, <2>1, <4>1
      <4>3. ASSUME NEW j \in DOMAIN q, q[j] = q[i] PROVE j = i
        <5>1. j # Len(in[d]) + 1
          BY <3>2, <4>1, <4>3
        <5>2. j \in 1..Len(in[d])
          BY <2>4, <3>2, <4>3, <5>1
        <5>3. in[d][j] = in[d][i] /\ j \in DOMAIN in[d]
          BY <2>4, <3>2, <4>1, <4>3, <5>2
        <5> QED
          BY <4>2, <5>3
      <4> QED
        BY <4>2, <4>3
    <3> QED
      BY <2>4, <3>2, <3>4, <3>5
  <2>9. \A c \in Conns : OnItsWay(c)'
    BY <2>7, <2>8
  <2> QED
    BY <1>3, <1>4, <2>5, <2>9 DEF Flow
<1> QED
  BY <1>6, <1>7
\* What is under way to the panel are replies to commands.
LEMMA ReplyItems ==
    ASSUME NEW s \in Seq(Replies), NEW i \in DOMAIN s
    PROVE  /\ s[i] \in Replies /\ s[i].cmd \in Cmds
           /\ s[i].type \in Answers \cup {"ack"} /\ i \in 1..Len(s)
<1>1. s[i] \in Replies /\ i \in 1..Len(s)
  OBVIOUS
<1> QED
  BY <1>1 DEF Replies

\* What a reading changes: one reply goes from the connection to the handler.
LEMMA Reading ==
    ASSUME Basics, NEW c \in Conns, ReadReply(c)
    PROVE  /\ out[c] # <<>> /\ hpc[c] = "reading"
           /\ out' = [out EXCEPT ![c] = Tail(out[c])]
           /\ hand' = [hand EXCEPT ![c] = Head(out[c])]
           /\ hpc' = [hpc EXCEPT ![c] = "handling"]
           /\ UNCHANGED <<cur, link, in, job, via, lock, verdict, ended, restarts>>
           /\ UNCHANGED <<rows, conns, pending, closed, sock, found, victim, ids,
                          dpc, spc, chosen, acked, outcome>>
           /\ out[c] \in Seq(Replies) /\ Tail(out[c]) \in Seq(Replies)
           /\ Head(out[c]) \in Replies /\ Head(out[c]) = out[c][1]
           /\ 1 \in DOMAIN out[c] /\ DOMAIN out[c] = 1..Len(out[c])
           /\ DOMAIN Tail(out[c]) = 1..(Len(out[c]) - 1)
           /\ \A i \in DOMAIN Tail(out[c]) :
                 i + 1 \in DOMAIN out[c] /\ Tail(out[c])[i] = out[c][i + 1]
           /\ \A i \in DOMAIN out[c] :
                 i # 1 => i - 1 \in DOMAIN Tail(out[c])
                          /\ Tail(out[c])[i - 1] = out[c][i]
<1>1. out[c] # <<>> /\ out[c] \in Seq(Replies)
  BY DEF ReadReply, Basics, TypeOK, ClientTypeOK
<1>2. /\ out' = [out EXCEPT ![c] = Tail(out[c])]
      /\ UNCHANGED <<cur, link, in, job, via, lock, verdict, ended, restarts>>
  BY DEF ReadReply, sessionVars, jobVars
<1>3. /\ hpc[c] = "reading"
      /\ hand' = [hand EXCEPT ![c] = Head(out[c])]
      /\ hpc' = [hpc EXCEPT ![c] = "handling"]
      /\ UNCHANGED <<rows, conns, pending, closed, sock, found, victim, ids,
                     dpc, spc, chosen, acked, outcome>>
  BY DEF ReadReply, Hub!ReadMessage, Hub!connVars, Hub!closeVars, Hub!sendVars,
         Hub!reportVars
<1>4. /\ Tail(out[c]) \in Seq(Replies)
      /\ Head(out[c]) \in Replies /\ Head(out[c]) = out[c][1]
      /\ 1 \in DOMAIN out[c] /\ DOMAIN out[c] = 1..Len(out[c])
      /\ DOMAIN Tail(out[c]) = 1..(Len(out[c]) - 1)
      /\ \A i \in DOMAIN Tail(out[c]) : Tail(out[c])[i] = out[c][i + 1]
      /\ Len(out[c]) \in Nat
  BY <1>1, TailItems
<1>5. \A i \in DOMAIN Tail(out[c]) :
         i + 1 \in DOMAIN out[c] /\ Tail(out[c])[i] = out[c][i + 1]
  BY <1>4
<1>6. \A i \in DOMAIN out[c] :
         i # 1 => i - 1 \in DOMAIN Tail(out[c]) /\ Tail(out[c])[i - 1] = out[c][i]
  <2> SUFFICES ASSUME NEW i \in DOMAIN out[c], i # 1
               PROVE  i - 1 \in DOMAIN Tail(out[c])
                      /\ Tail(out[c])[i - 1] = out[c][i]
    OBVIOUS
  <2>1. i - 1 \in DOMAIN Tail(out[c]) /\ (i - 1) + 1 = i
    BY <1>4
  <2> QED
    BY <1>4, <2>1
<1> QED
  BY <1>1, <1>2, <1>3, <1>4, <1>5, <1>6

\* The reply that is read came on the connection it is read from.
LEMMA FlowOfReading ==
    ASSUME Basics, NEW c \in Conns, ReadReply(c)
    PROVE  ClientTypeOK' /\ Flow'
<1>1. out' \in [Conns -> Seq(Replies)]
  <2>1. out' = [out EXCEPT ![c] = Tail(out[c])] /\ Tail(out[c]) \in Seq(Replies)
    BY Reading
  <2> QED
    BY <2>1 DEF Basics, TypeOK, ClientTypeOK
<1>2. UNCHANGED <<cur, link, in, job, via, lock, verdict, ended, restarts, spc, chosen>>
  BY Reading
<1>3. ClientTypeOK'
  BY <1>1, <1>2 DEF Basics, TypeOK, ClientTypeOK
<1>4. ASSUME NEW d \in Conns
      PROVE  /\ \A i \in DOMAIN out'[d] : via[out'[d][i].cmd] = d
             /\ hpc'[d] \in Hub!HoldsMessage => via[hand'[d].cmd] = d
  <2>1. CASE d = c
    <3>1. out'[c] = Tail(out[c]) /\ hand'[c] = out[c][1]
      BY Reading DEF Basics, TypeOK, ClientTypeOK, Hub!TypeOK
    <3>2. \A i \in DOMAIN out[c] : via[out[c][i].cmd] = c
      BY DEF Basics, Flow
    <3>3. \A i \in DOMAIN Tail(out[c]) : via[Tail(out[c])[i].cmd] = c
      BY <3>2, Reading
    <3>4. via[out[c][1].cmd] = c
      BY <3>2, Reading
    <3> QED
      BY <2>1, <3>1, <3>3, <3>4
  <2>2. CASE d # c
    <3>1. out'[d] = out[d] /\ hand'[d] = hand[d] /\ hpc'[d] = hpc[d]
      BY <2>2, Reading DEF Basics, TypeOK, ClientTypeOK, Hub!TypeOK
    <3> QED
      BY <3>1 DEF Basics, Flow
  <2> QED
    BY <2>1, <2>2
<1>5. \A d \in Conns : OnItsWay(d)'
  BY <1>2 DEF Basics, Flow, OnItsWay
<1> QED
  BY <1>2, <1>3, <1>4, <1>5 DEF Basics, Flow

\* What the agent takes it takes from its own session, and what it says it
\* says there.
LEMMA FlowOfAgent ==
    ASSUME Basics, AgentSideAlone
    PROVE  Flow'
<1> USE DEF Basics, TypeOK, ClientTypeOK
<1>1. UNCHANGED <<hpc, hand, spc, chosen>>
  BY DEF AgentSideAlone, hubVars
<1>2. ClientTypeOK'
  BY AgentBasics DEF Flow
<1>3. \A k \in Cmds : via[k] # NoConn => via'[k] = via[k]
  BY JobsStay
<1>4. ASSUME NEW c \in Conns PROVE OnItsWay(c)'
  <2>1. ASSUME via' = via, in'[c] \in {in[c], <<>>},
               \A k \in Cmds : job[k] = "none" => job'[k] = "none"
        PROVE  OnItsWay(c)'
    <3>1. CASE in'[c] = <<>>
      BY <3>1 DEF OnItsWay
    <3>2. CASE in'[c] = in[c]
      <4>1. \A i \in DOMAIN in[c] : in[c][i] \in Cmds
        OBVIOUS
      <4> QED
        BY <1>1, <2>1, <3>2, <4>1 DEF Flow, OnItsWay
    <3> QED
      BY <2>1, <3>1, <3>2
  <2>2. ASSUME NEW d \in Conns, in[d] # <<>>,
               in' = [in EXCEPT ![d] = Tail(in[d])],
               \A k \in Cmds : k # Head(in[d]) => job'[k] = job[k]
        PROVE  OnItsWay(c)'
    <3>1. in[d] \in Seq(Cmds) /\ in[c] \in Seq(Cmds)
      OBVIOUS
    <3>2. \A i \in DOMAIN in[c] : in[c][i] \in Cmds /\ i \in Nat
      BY <3>1
    <3>3. chosen[Head(in[d])] = d
      BY <2>2, FreshHead
    <3>4. \A i \in DOMAIN in[c] :
             /\ chosen[in[c][i]] = c /\ spc[in[c][i]] \in {"sent", "failed"}
             /\ job[in[c][i]] = "none"
             /\ \A j \in DOMAIN in[c] : in[c][j] = in[c][i] => j = i
      BY DEF Flow, OnItsWay
    <3>5. CASE c # d
      <4>1. in'[c] = in[c]
        BY <2>2, <3>5
      <4>2. \A i \in DOMAIN in[c] : job'[in[c][i]] = "none"
        BY <2>2, <3>2, <3>3, <3>4, <3>5
      <4> QED
        BY <1>1, <3>4, <4>1, <4>2 DEF OnItsWay
    <3>6. CASE c = d
      <4>1. /\ DOMAIN in[c] = 1..Len(in[c]) /\ Len(in[c]) \in Nat
            /\ DOMAIN Tail(in[c]) = 1..(Len(in[c]) - 1)
            /\ 1 \in DOMAIN in[c] /\ Head(in[c]) = in[c][1]
            /\ \A i \in DOMAIN Tail(in[c]) : Tail(in[c])[i] = in[c][i + 1]
        BY <2>2, <3>1, <3>6, TailItems
      <4>2. in'[c] = Tail(in[c])
        BY <2>2, <3>6
      <4> SUFFICES ASSUME NEW i \in DOMAIN Tail(in[c])
                   PROVE  /\ chosen[Tail(in[c])[i]] = c
                          /\ spc[Tail(in[c])[i]] \in {"sent", "failed"}
                          /\ job'[Tail(in[c])[i]] = "none"
                          /\ \A j \in DOMAIN Tail(in[c]) :
                                Tail(in[c])[j] = Tail(in[c])[i] => j = i
        BY <1>1, <4>2 DEF OnItsWay
      <4>3. /\ i + 1 \in DOMAIN in[c] /\ i + 1 # 1
            /\ Tail(in[c])[i] = in[c][i + 1]
        BY <4>1
      <4>4. in[c][i + 1] # Head(in[c])
        BY <3>4, <4>1, <4>3
      <4>5. job'[in[c][i + 1]] = "none"
        BY <2>2, <3>2, <3>4, <3>6, <4>3, <4>4
      <4>6. ASSUME NEW j \in DOMAIN Tail(in[c]), Tail(in[c])[j] = Tail(in[c])[i]
            PROVE  j = i
        <5>1. /\ j + 1 \in DOMAIN in[c]
              /\ in[c][j + 1] = in[c][i + 1]
          BY <4>1, <4>3, <4>6
        <5>2. j + 1 = i + 1
          BY <3>4, <4>3, <5>1
        <5> QED
          BY <4>1, <5>2
      <4> QED
        BY <3>4, <4>3, <4>5, <4>6
    <3> QED
      BY <3>5, <3>6
  <2> QED
    BY <2>1, <2>2, CommandsTaken
<1>5. ASSUME NEW c \in Conns
      PROVE  \A i \in DOMAIN out'[c] : via'[out'[c][i].cmd] = c
  <2>1. out[c] \in Seq(Replies)
    OBVIOUS
  <2>2. \A i \in DOMAIN out[c] : via'[out[c][i].cmd] = c
    <3>1. \A i \in DOMAIN out[c] : out[c][i].cmd \in Cmds
      BY <2>1, ReplyItems
    <3> QED
      BY <1>3, <3>1 DEF Flow
  <2>3. ASSUME NEW m \in Replies, out'[c] = Append(out[c], m), via'[m.cmd] = c
        PROVE  \A i \in DOMAIN out'[c] : via'[out'[c][i].cmd] = c
    <3>1. /\ DOMAIN out[c] = 1..Len(out[c])
          /\ DOMAIN out'[c] = 1..(Len(out[c]) + 1)
          /\ \A i \in 1..Len(out[c]) : out'[c][i] = out[c][i]
          /\ out'[c][Len(out[c]) + 1] = m
          /\ Len(out[c]) \in Nat
      BY <2>1, <2>3, AppendItems
    <3> QED
      BY <2>2, <2>3, <3>1
  <2> QED
    BY <2>2, <2>3, RepliesWritten
<1>6. ASSUME NEW c \in Conns, hpc'[c] \in Hub!HoldsMessage
      PROVE  via'[hand'[c].cmd] = c
  <2>1. hand[c].cmd \in Cmds
    BY <1>1, <1>6 DEF Hub!TypeOK, Hub!HoldsMessage, Hub!Messages
  <2> QED
    BY <1>1, <1>3, <1>6, <2>1 DEF Flow
<1>7. ASSUME NEW k \in Cmds, via'[k] # NoConn
      PROVE  chosen[k] = via'[k] /\ spc[k] \in {"sent", "failed"}
  <2>1. CASE via[k] # NoConn
    BY <1>3, <2>1 DEF Flow
  <2>2. ASSUME via[k] = NoConn, NEW c \in Conns, in[c] # <<>>,
               via' = [via EXCEPT ![Head(in[c])] = c]
        PROVE  chosen[k] = via'[k] /\ spc[k] \in {"sent", "failed"}
    <3>1. k = Head(in[c]) /\ via'[k] = c
      BY <1>7, <2>2
    <3> QED
      BY <2>2, <3>1, FreshHead
  <2> QED
    BY <1>7, <2>1, <2>2, CommandsTaken
<1> QED
  BY <1>1, <1>4, <1>5, <1>6, <1>7 DEF Flow
\* A step in which the agent neither moves nor is listened to is the panel's.
LEMMA PanelMoves ==
    ASSUME Basics, PanelAlone \/ \E k \in Cmds : WriteCommand(k) \/ FailToWrite(k)
    PROVE  /\ PanelSide
           /\ UNCHANGED <<sessionVars, out, jobVars, restarts>>
           /\ in' = in \/ \E k \in Cmds : /\ spc[k] = "chosen"
                                          /\ spc'[k] \in {"sent", "failed"}
                                          /\ chosen'[k] = chosen[k]
                                          /\ in' = InTransit(k)
<1>1. CASE PanelAlone
  BY <1>1 DEF PanelAlone, PanelSide, clientVars
<1>2. ASSUME NEW k \in Cmds, WriteCommand(k) \/ FailToWrite(k)
      PROVE  /\ PanelSide
             /\ UNCHANGED <<sessionVars, out, jobVars, restarts>>
             /\ Hub!SendWritten(k) \/ Hub!SendFailed(k)
             /\ in' \in {in, InTransit(k)}
  BY <1>2 DEF WriteCommand, FailToWrite, PanelSide
<1>3. ASSUME NEW k \in Cmds, Hub!SendWritten(k) \/ Hub!SendFailed(k)
      PROVE  /\ spc[k] = "chosen" /\ spc'[k] \in {"sent", "failed"}
             /\ chosen'[k] = chosen[k]
  BY <1>3 DEF Basics, TypeOK, Hub!TypeOK, Hub!SendWritten, Hub!SendFailed
<1> QED
  BY <1>1, <1>2, <1>3

\* Types, jobs and what is under way are kept by every step.
LEMMA NextBasics ==
    ASSUME Basics, [Next]_vars
    PROVE  Basics'
<1>1. Hub!TypeOK'
  <2>1. HubProofs!TypeOK /\ [HubProofs!Next]_(HubProofs!vars)
    BY SameState, HubSteps DEF Basics, TypeOK
  <2>2. HubProofs!TypeOK'
    BY <2>1, Assumed, HubProofs!NextTypeOK
  <2> QED
    BY <2>2
    DEF Hub!TypeOK, HubProofs!TypeOK, Hub!Closers, HubProofs!Closers,
        Hub!Messages, HubProofs!Messages, Hub!ReplyTypes, HubProofs!ReplyTypes,
        Hub!Outcomes, HubProofs!Outcomes, Hub!Serving, HubProofs!Serving,
        Hub!HoldsMessage, HubProofs!HoldsMessage
<1>2. CASE AgentSideAlone
  <2>1. ClientTypeOK' /\ Jobs'
    BY <1>2, AgentBasics DEF Basics, TypeOK, Flow
  <2> QED
    BY <1>1, <1>2, <2>1, FlowOfAgent DEF Basics, TypeOK
<1>3. ASSUME NEW c \in Conns, ReadReply(c) PROVE Basics'
  <2>1. Jobs'
    <3>1. UNCHANGED <<link, job, via, verdict, ended>>
      BY <1>3, Reading
    <3> QED
      BY <3>1 DEF Basics, Jobs
  <2> QED
    BY <1>1, <1>3, <2>1, FlowOfReading DEF Basics, TypeOK
<1>4. CASE PanelAlone \/ \E k \in Cmds : WriteCommand(k) \/ FailToWrite(k)
  <2>1. PanelSide /\ UNCHANGED <<sessionVars, out, jobVars, restarts>>
    BY <1>4, PanelMoves
  <2>2. in' \in [Conns -> Seq(Cmds)] /\ Flow'
    BY <1>4, PanelMoves, FlowOfPanel
  <2>3. ClientTypeOK' /\ Jobs'
    BY <2>1, <2>2
    DEF Basics, TypeOK, ClientTypeOK, Jobs, sessionVars, jobVars
  <2> QED
    BY <1>1, <2>2, <2>3 DEF Basics, TypeOK
<1>5. CASE UNCHANGED vars
  <2>1. UNCHANGED <<link, in, out, job, via, verdict, ended, hpc, hand, spc, chosen>>
    BY <1>5 DEF vars, hubVars, clientVars, sessionVars, jobVars
  <2>2. ClientTypeOK'
    BY <1>5
    DEF Basics, TypeOK, ClientTypeOK, vars, clientVars, sessionVars, jobVars
  <2>3. Jobs'
    BY <2>1 DEF Basics, Jobs
  <2>4. Flow'
    BY <2>1 DEF Basics, Flow, OnItsWay
  <2> QED
    BY <1>1, <2>2, <2>3, <2>4 DEF Basics, TypeOK
<1> QED
  BY <1>2, <1>3, <1>4, <1>5, StepKinds

\* A panel that was just started and a game server that never dialled.
LEMMA InitBasics == Init => Basics
<1> SUFFICES ASSUME Init PROVE Basics
  OBVIOUS
<1>1. Hub!TypeOK
  <2>1. HubProofs!Init
    BY SameState DEF Init
  <2> QED
    BY <2>1, Assumed, SameState, HubProofs!InitTypeOK
<1>2. ClientTypeOK
  BY DEF Init, ClientInit, ClientTypeOK, Active
<1>3. Jobs
  BY DEF Init, ClientInit, Jobs
<1>4. Flow
  BY DEF Init, Hub!Init, ClientInit, Flow, OnItsWay, Hub!HoldsMessage
<1> QED
  BY <1>1, <1>2, <1>3, <1>4 DEF Basics, TypeOK

\* So they hold in every state of the system.
LEMMA AlwaysBasics == Spec => []Basics
BY InitBasics, NextBasics, PTL DEF Spec

\* Every variable of the two sides keeps its type, and neither side goes on
\* with a nil connection or without a message.
THEOREM SystemTypes == Spec => []TypeOK
<1>1. Basics => TypeOK
  BY DEF Basics
<1> QED
  BY <1>1, AlwaysBasics, PTL

\* What agent_manager does when this agent talks to it is what AgentHub says it
\* does for any agent: reading a reply that is under way is one of the readings
\* the hub allows, and everything else is the hub's own or none of its business.
THEOREM SystemRunsTheHub == Spec => HubProofs!Spec
<1>1. Init => HubProofs!Init
  BY SameState DEF Init
<1>2. Basics /\ [Next]_vars => [HubProofs!Next]_(HubProofs!vars)
  BY HubSteps DEF Basics, TypeOK
<1> QED
  BY <1>1, <1>2, AlwaysBasics, PTL DEF Spec, HubProofs!Spec

\* So the service keeps the contract it has with its callers, with this agent at
\* the other end.
THEOREM SystemKeepsContract == Spec => HubProofs!KeepsContract
BY SystemRunsTheHub, Assumed, HubProofs!HubKeepsContract, PTL

\* The hub's own invariant holds in the system.
LEMMA HubInvariance == Spec => [](HubProofs!TypeOK /\ HubProofs!Inv)
BY SystemRunsTheHub, Assumed, HubProofs!Invariance, PTL

\* A reply is read on the connection its command was written to, however often
\* either side reconnected: client.go answers with the conn it read from.
THEOREM RepliesKeepTheirLink == Spec => []RepliesStayOnTheirLink
<1>1. Basics => RepliesStayOnTheirLink
  <2> SUFFICES ASSUME Basics, NEW c \in Conns
               PROVE  /\ hpc[c] \in Hub!HoldsMessage => chosen[hand[c].cmd] = c
                      /\ \A i \in DOMAIN out[c] : chosen[out[c][i].cmd] = c
    BY DEF RepliesStayOnTheirLink
  <2>1. ASSUME hpc[c] \in Hub!HoldsMessage PROVE chosen[hand[c].cmd] = c
    <3>1. hand[c].cmd \in Cmds
      BY <2>1 DEF Basics, TypeOK, Hub!TypeOK, Hub!HoldsMessage, Hub!Messages
    <3> QED
      BY <2>1, <3>1 DEF Basics, Flow
  <2>2. ASSUME NEW i \in DOMAIN out[c] PROVE chosen[out[c][i].cmd] = c
    <3>1. out[c] \in Seq(Replies)
      BY DEF Basics, TypeOK, ClientTypeOK
    <3>2. out[c][i].cmd \in Cmds
      BY <3>1, ReplyItems
    <3> QED
      BY <3>2 DEF Basics, Flow
  <2> QED
    BY <2>1, <2>2
<1> QED
  BY <1>1, AlwaysBasics, PTL
-----------------------------------------------------------------------------
(* What is told is true *)

\* A history of one callback was empty before it.
LEMMA AppendToNothing ==
    ASSUME NEW S, NEW s \in Seq(S), NEW x, NEW t, Append(s, x) = <<t>>
    PROVE  s = <<>> /\ x = t
<1>1. Len(Append(s, x)) = Len(s) + 1 /\ Len(<<t>>) = 1 /\ Len(s) \in Nat
  OBVIOUS
<1>2. Len(s) = 0
  BY <1>1
<1>3. s = <<>>
  BY <1>2
<1>4. Append(s, x)[1] = x
  BY <1>3
<1> QED
  BY <1>3, <1>4

\* What was true of a command stays true of it.
LEMMA GenuineStays ==
    ASSUME Basics, AgentSideAlone, NEW m, m.cmd \in Cmds, Genuine(m)
    PROVE  Genuine(m)'
<1>1. job[m.cmd] \in {"rejected", "done", "dead"} =>
          job'[m.cmd] = job[m.cmd] /\ verdict'[m.cmd] = verdict[m.cmd]
  BY JobsStay
<1> QED
  BY <1>1 DEF Genuine

\* Truth in the next state, said of each message by itself.
LEMMA TruthNext ==
    ASSUME \A c \in Conns : \A i \in DOMAIN out'[c] : \A m :
               m = out'[c][i] => Genuine(m)',
           \A c \in Conns : hpc'[c] \in Hub!HoldsMessage =>
               \A m : m = hand'[c] => Genuine(m)',
           \A k \in Cmds, t \in Answers :
               outcome'[k] = <<t>> => Genuine([type |-> t, cmd |-> k])'
    PROVE  Truth'
BY DEF Truth, Genuine, Hub!HoldsMessage

\* Replies are true when they are written, and stay so on their way to OnAck
\* and OnResult.
LEMMA NextTruth ==
    ASSUME Basics, Truth, [Next]_vars
    PROVE  Truth'
<1>1. ASSUME NEW c \in Conns, NEW i \in DOMAIN out[c]
      PROVE  out[c][i].cmd \in Cmds /\ Genuine(out[c][i])
  <2>1. out[c] \in Seq(Replies)
    BY DEF Basics, TypeOK, ClientTypeOK
  <2> QED
    BY <2>1, ReplyItems DEF Truth
<1>2. ASSUME NEW c \in Conns, hpc[c] \in Hub!HoldsMessage
      PROVE  hand[c].cmd \in Cmds /\ Genuine(hand[c])
  BY <1>2
  DEF Truth, Basics, TypeOK, Hub!TypeOK, Hub!HoldsMessage, Hub!Messages
<1>3. ASSUME NEW k \in Cmds, NEW t \in Answers, outcome[k] = <<t>>
      PROVE  Genuine([type |-> t, cmd |-> k])
  BY <1>3 DEF Truth
<1>4. CASE AgentSideAlone
  <2>1. UNCHANGED <<hpc, hand, outcome>>
    BY <1>4 DEF AgentSideAlone, hubVars
  <2>2. ASSUME NEW c \in Conns, NEW j \in DOMAIN out[c], NEW m, m = out[c][j]
        PROVE  Genuine(m)'
    BY <1>1, <1>4, <2>2, GenuineStays
  <2>3. ASSUME NEW c \in Conns, NEW i \in DOMAIN out'[c], NEW m, m = out'[c][i]
        PROVE  Genuine(m)'
    <3>1. ASSUME NEW n \in Replies, out'[c] = Append(out[c], n), Genuine(n)'
          PROVE  Genuine(m)'
      <4>1. out[c] \in Seq(Replies)
        BY DEF Basics, TypeOK, ClientTypeOK
      <4>2. /\ DOMAIN out[c] = 1..Len(out[c]) /\ Len(out[c]) \in Nat
            /\ DOMAIN out'[c] = 1..(Len(out[c]) + 1)
            /\ \A j \in 1..Len(out[c]) : out'[c][j] = out[c][j]
            /\ out'[c][Len(out[c]) + 1] = n
        BY <3>1, <4>1, AppendItems
      <4>3. CASE i = Len(out[c]) + 1
        BY <2>3, <3>1, <4>2, <4>3
      <4>4. CASE i # Len(out[c]) + 1
        <5>1. i \in DOMAIN out[c] /\ m = out[c][i]
          BY <2>3, <4>2, <4>4
        <5> QED
          BY <2>2, <5>1
      <4> QED
        BY <4>3, <4>4
    <3>2. CASE out'[c] = out[c]
      BY <2>2, <2>3, <3>2
    <3> QED
      BY <1>4, <3>1, <3>2, RepliesWritten
  <2>4. ASSUME NEW c \in Conns, hpc'[c] \in Hub!HoldsMessage, NEW m, m = hand'[c]
        PROVE  Genuine(m)'
    BY <1>2, <1>4, <2>1, <2>4, GenuineStays
  <2>5. ASSUME NEW k \in Cmds, NEW t \in Answers, outcome'[k] = <<t>>
        PROVE  Genuine([type |-> t, cmd |-> k])'
    <3>1. Genuine([type |-> t, cmd |-> k])
      BY <1>3, <2>1, <2>5
    <3> QED
      BY <1>4, <3>1, GenuineStays
  <2> QED
    BY <2>3, <2>4, <2>5, TruthNext
<1>5. ASSUME UNCHANGED <<job, verdict>>, NEW m, Genuine(m) PROVE Genuine(m)'
  BY <1>5 DEF Genuine
<1>6. ASSUME NEW c \in Conns, ReadReply(c) PROVE Truth'
  <2>1. UNCHANGED <<job, verdict, outcome>>
    BY <1>6, Reading
  <2>2. ASSUME NEW d \in Conns, NEW i \in DOMAIN out'[d], NEW m, m = out'[d][i]
        PROVE  Genuine(m)'
    <3>1. CASE d = c
      <4>1. out'[c] = Tail(out[c])
        BY <1>6, Reading DEF Basics, TypeOK, ClientTypeOK
      <4>2. i + 1 \in DOMAIN out[c] /\ m = out[c][i + 1]
        BY <1>6, <2>2, <3>1, <4>1, Reading
      <4> QED
        BY <1>1, <1>5, <2>1, <4>2
    <3>2. CASE d # c
      <4>1. out'[d] = out[d]
        BY <1>6, <3>2, Reading DEF Basics, TypeOK, ClientTypeOK
      <4> QED
        BY <1>1, <1>5, <2>1, <2>2, <4>1
    <3> QED
      BY <3>1, <3>2
  <2>3. ASSUME NEW d \in Conns, hpc'[d] \in Hub!HoldsMessage, NEW m, m = hand'[d]
        PROVE  Genuine(m)'
    <3>1. CASE d = c
      <4>1. hand'[c] = out[c][1] /\ 1 \in DOMAIN out[c]
        BY <1>6, Reading DEF Basics, TypeOK, Hub!TypeOK
      <4> QED
        BY <1>1, <1>5, <2>1, <2>3, <3>1, <4>1
    <3>2. CASE d # c
      <4>1. hand'[d] = hand[d] /\ hpc'[d] = hpc[d]
        BY <1>6, <3>2, Reading DEF Basics, TypeOK, Hub!TypeOK
      <4> QED
        BY <1>2, <1>5, <2>1, <2>3, <4>1
    <3> QED
      BY <3>1, <3>2
  <2>4. ASSUME NEW k \in Cmds, NEW t \in Answers, outcome'[k] = <<t>>
        PROVE  Genuine([type |-> t, cmd |-> k])'
    BY <1>3, <1>5, <2>1, <2>4
  <2> QED
    BY <2>2, <2>3, <2>4, TruthNext
<1>7. CASE PanelAlone \/ \E k \in Cmds : WriteCommand(k) \/ FailToWrite(k)
  <2>1. PanelSide /\ UNCHANGED <<out, job, verdict>>
    BY <1>7, PanelMoves DEF jobVars
  <2>2. Hub!TypeOK
    BY DEF Basics, TypeOK
  <2>3. ASSUME NEW c \in Conns, hpc'[c] \in Hub!HoldsMessage, NEW m, m = hand'[c]
        PROVE  Genuine(m)'
    <3>1. hpc[c] \in Hub!HoldsMessage /\ hand'[c] = hand[c]
      BY <2>1, <2>2, <2>3, HandsStay
    <3> QED
      BY <1>2, <1>5, <2>1, <2>3, <3>1
  <2>4. ASSUME NEW k \in Cmds, NEW t \in Answers, outcome'[k] = <<t>>
        PROVE  Genuine([type |-> t, cmd |-> k])'
    <3>1. CASE outcome'[k] = outcome[k]
      BY <1>3, <1>5, <2>1, <2>4, <3>1
    <3>2. outcome[k] \in Seq(Hub!Outcomes)
      BY <2>2 DEF Hub!TypeOK
    <3>3. ASSUME NEW c \in Conns, hpc[c] = "reporting", hand[c].cmd = k,
                 outcome'[k] = Append(outcome[k], hand[c].type)
          PROVE  Genuine([type |-> t, cmd |-> k])'
      <4>1. hand[c].type = t
        BY <2>4, <3>2, <3>3, AppendToNothing
      <4>2. Genuine(hand[c])
        BY <1>2, <3>3 DEF Hub!HoldsMessage
      <4>3. Genuine([type |-> t, cmd |-> k])
        BY <3>3, <4>1, <4>2 DEF Genuine
      <4> QED
        BY <1>5, <2>1, <4>3
    <3>4. CASE outcome'[k] = Append(outcome[k], "interrupted")
      <4>1. t = "interrupted"
        BY <2>4, <3>2, <3>4, AppendToNothing
      <4> QED
        BY <4>1 DEF Answers
    <3> QED
      BY <2>1, <2>2, <3>1, <3>3, <3>4, Histories
  <2>5. ASSUME NEW c \in Conns, NEW i \in DOMAIN out'[c], NEW m, m = out'[c][i]
        PROVE  Genuine(m)'
    BY <1>1, <1>5, <2>1, <2>5
  <2> QED
    BY <2>3, <2>4, <2>5, TruthNext
<1>8. CASE UNCHANGED vars
  BY <1>8 DEF Truth, Genuine, vars, hubVars, clientVars, jobVars
<1> QED
  BY <1>4, <1>6, <1>7, <1>8, StepKinds

\* Nothing was said yet.
LEMMA InitTruth == Init => Truth
BY DEF Init, Hub!Init, ClientInit, Truth, Hub!HoldsMessage

\* OnResult and OnAck tell what Execute came to on the agent: no reply is made
\* up, taken for another command's, or overtaken by a later turn of its job.
THEOREM OutcomesAreGenuine == Spec => []OutcomeIsGenuine
<1>1. Basics /\ Truth => OutcomeIsGenuine
  <2> SUFFICES ASSUME Basics, Truth, NEW k \in Cmds
               PROVE  /\ outcome[k] = <<"ok">> => k \in ended
                      /\ outcome[k] = <<"fail">> => k \notin ended /\ via[k] # NoConn
                      /\ outcome[k] = <<"nack">> => job[k] = "rejected"
    BY DEF OutcomeIsGenuine
  <2>1. /\ verdict[k] = "ok" <=> k \in ended
        /\ job[k] = "none" <=> via[k] = NoConn
    BY DEF Basics, Jobs
  <2>2. ASSUME NEW t \in Answers, outcome[k] = <<t>>
        PROVE  Genuine([type |-> t, cmd |-> k])
    BY <2>2 DEF Truth
  <2>3. ASSUME NEW t \in {"ok", "fail"}, outcome[k] = <<t>>
        PROVE  job[k] = "done" /\ verdict[k] = t
    <3>1. Genuine([type |-> t, cmd |-> k])
      BY <2>2, <2>3 DEF Answers
    <3> QED
      BY <3>1 DEF Genuine
  <2>4. ASSUME outcome[k] = <<"nack">> PROVE job[k] = "rejected"
    <3>1. Genuine([type |-> "nack", cmd |-> k])
      BY <2>2, <2>4 DEF Answers
    <3> QED
      BY <3>1 DEF Genuine
  <2> QED
    BY <2>1, <2>3, <2>4
<1> QED
  BY <1>1, AlwaysBasics, InitTruth, NextTruth, PTL DEF Spec
-----------------------------------------------------------------------------
(* No result overtakes the acknowledgement *)

\* The inductive invariant of the acknowledgements.
Acks == AckFirst /\ AckBeforeResult

\* More replies under way do no harm.
LEMMA AckAheadOfMore ==
    ASSUME NEW k, NEW c, NEW n \in Nat, NEW m \in Nat, n <= m, AckAhead(k, c, n)'
    PROVE  AckAhead(k, c, m)'
BY DEF AckAhead

\* A session only adds to what is under way on it.
LEMMA OutGrows ==
    ASSUME Basics, AgentSideAlone, NEW c \in Conns
    PROVE  /\ Len(out[c]) \in Nat /\ Len(out'[c]) \in Nat
           /\ Len(out[c]) <= Len(out'[c])
           /\ \A j \in 1..Len(out[c]) : out'[c][j] = out[c][j]
<1>1. out[c] \in Seq(Replies)
  BY DEF Basics, TypeOK, ClientTypeOK
<1>2. ASSUME NEW m \in Replies, out'[c] = Append(out[c], m)
      PROVE  /\ Len(out'[c]) = Len(out[c]) + 1
             /\ \A j \in 1..Len(out[c]) : out'[c][j] = out[c][j]
  BY <1>1, <1>2, AppendItems
<1>3. Len(out[c]) \in Nat
  BY <1>1
<1> QED
  BY <1>2, <1>3, RepliesWritten

\* What the agent does leaves an acknowledgement where it is.
LEMMA AckAheadOfAgent ==
    ASSUME Basics, AgentSideAlone, NEW c \in Conns, NEW k,
           NEW n \in 0..Len(out[c]), AckAhead(k, c, n)
    PROVE  AckAhead(k, c, n)'
<1>1. UNCHANGED <<hpc, hand, acked>>
  BY DEF AgentSideAlone, hubVars
<1>2. Len(out[c]) \in Nat /\ \A j \in 1..Len(out[c]) : out'[c][j] = out[c][j]
  BY OutGrows
<1>3. \A j \in 1..n : j \in 1..Len(out[c])
  BY <1>2
<1> QED
  BY <1>1, <1>2, <1>3 DEF AckAhead

\* The panel leaves it there, or tells it.
LEMMA AckAheadOfPanel ==
    ASSUME Hub!TypeOK, PanelSide, UNCHANGED out, NEW c \in Conns, NEW k, NEW n,
           AckAhead(k, c, n)
    PROVE  AckAhead(k, c, n)'
<1>1. CASE hpc[c] = "handling" /\ hand[c] = [type |-> "ack", cmd |-> k]
  <2>1. hand[c].type = "ack" /\ hand[c].cmd = k
    BY <1>1
  <2>2. (hpc'[c] = "handling" /\ hand'[c] = hand[c]) \/ hand[c].cmd \in acked'
    BY <1>1, <2>1, AcksStay
  <2> QED
    BY <1>1, <2>1, <2>2 DEF AckAhead
<1>2. acked \subseteq acked'
  BY AcksStay
<1> QED
  BY <1>1, <1>2 DEF AckAhead

\* A reading brings it one reply nearer.
LEMMA AckAheadOfReading ==
    ASSUME Basics, NEW c \in Conns, ReadReply(c), NEW k, NEW n \in Nat,
           n \in DOMAIN out[c], AckAhead(k, c, n)
    PROVE  AckAhead(k, c, n - 1)'
<1>1. /\ hpc[c] = "reading" /\ acked' = acked
      /\ hpc'[c] = "handling" /\ hand'[c] = out[c][1]
      /\ out'[c] = Tail(out[c])
  BY Reading DEF Basics, TypeOK, ClientTypeOK, Hub!TypeOK
<1>2. CASE k \in acked
  BY <1>1, <1>2 DEF AckAhead
<1>3. ASSUME NEW j \in 1..n, out[c][j] = [type |-> "ack", cmd |-> k]
      PROVE  AckAhead(k, c, n - 1)'
  <2>1. CASE j = 1
    BY <1>1, <1>3, <2>1 DEF AckAhead
  <2>2. CASE j # 1
    <3>1. j \in DOMAIN out[c]
      BY Reading
    <3>2. out'[c][j - 1] = [type |-> "ack", cmd |-> k]
      BY <1>1, <1>3, <2>2, <3>1, Reading
    <3>3. j - 1 \in 1..(n - 1)
      BY <2>2
    <3> QED
      BY <3>2, <3>3 DEF AckAhead
  <2> QED
    BY <2>1, <2>2
<1> QED
  BY <1>1, <1>2, <1>3 DEF AckAhead

\* Only what is accepted is started.
LEMMA Started ==
    ASSUME Basics, AgentSideAlone, NEW k \in Cmds,
           job[k] \notin {"starting", "running", "reporting"},
           job'[k] \in {"starting", "running", "reporting"}
    PROVE  SendAck(k)
<1> USE DEF Basics, TypeOK, ClientTypeOK
<1>1. ASSUME NEW c \in Conns, SessionAlone(c) PROVE FALSE
  BY <1>1
  DEF SessionAlone, Dial, DialOk, DialFail, EndSession, ReceiveCommand,
      RejectCommand, jobVars
<1>2. ASSUME NEW j \in Cmds, JobAlone(j) PROVE SendAck(k)
  BY <1>2
  DEF JobAlone, SendAck, TryLock, Busy, ScriptExit, SendResult, LogFail, jobVars
<1>3. ASSUME Restart PROVE FALSE
  BY <1>3 DEF Restart, Active
<1> QED
  BY <1>1, <1>2, <1>3 DEF AgentSideAlone

\* On a session that is still up the acknowledgement is ahead of whatever the
\* command's goroutine says next.
LEMMA AckOfAgent ==
    ASSUME Basics, Acks, AgentSideAlone, NEW k \in Cmds,
           job'[k] \in {"starting", "running", "reporting"}, link'[via'[k]] = "up"
    PROVE  AckAhead(k, via[k], Len(out[via[k]]))' /\ via'[k] = via[k]
<1>1. job[k] # "none" /\ via[k] # NoConn
  <2>1. CASE SendAck(k)
    BY <2>1 DEF SendAck, Basics, Jobs
  <2>2. CASE job[k] \in {"starting", "running", "reporting"}
    BY <2>2 DEF Basics, Jobs
  <2> QED
    BY <2>1, <2>2, Started
<1>2. PICK c \in Conns : c = via[k]
  BY <1>1 DEF Basics, TypeOK, ClientTypeOK
<1>3. via'[k] = c
  BY <1>1, <1>2, JobsStay
<1>4. link[c] \in {"up", "mute", "closed"} /\ link'[c] = "up"
  BY <1>1, <1>2, <1>3 DEF Basics, Jobs
<1>5. link[c] = "up"
  BY <1>4, LinksStay
<1>6. /\ Len(out[c]) \in Nat /\ Len(out'[c]) \in Nat
      /\ Len(out[c]) <= Len(out'[c])
  BY OutGrows
<1>7. CASE job[k] \in {"starting", "running", "reporting"}
  <2>1. PICK n \in Nat : n = Len(out[c])
    BY <1>6
  <2>2. AckAhead(k, c, n)
    BY <1>2, <1>5, <1>7, <2>1 DEF Acks, AckFirst
  <2>3. AckAhead(k, c, n)'
    BY <1>6, <2>1, <2>2, AckAheadOfAgent
  <2>4. PICK m \in Nat : m = Len(out'[c])
    BY <1>6
  <2>5. AckAhead(k, c, m)'
    BY <1>6, <2>1, <2>3, <2>4, AckAheadOfMore
  <2> QED
    BY <1>2, <1>3, <2>4, <2>5 DEF AckAhead
<1>8. CASE SendAck(k)
  <2>1. Written(k, "ack")
    <3>1. ~ NotWritten(k)
      BY <1>2, <1>4
      DEF NotWritten, HangUp, OwnSession, Basics, TypeOK, ClientTypeOK
    <3> QED
      BY <1>8, <3>1 DEF SendAck
  <2>2. out'[c] = Append(out[c], [type |-> "ack", cmd |-> k])
    BY <1>2, <2>1 DEF Written, OwnSession, Basics, TypeOK, ClientTypeOK
  <2>3. /\ Len(out'[c]) = Len(out[c]) + 1
        /\ out'[c][Len(out[c]) + 1] = [type |-> "ack", cmd |-> k]
    <3>1. out[c] \in Seq(Replies)
      BY DEF Basics, TypeOK, ClientTypeOK
    <3>2. [type |-> "ack", cmd |-> k] \in Replies
      BY DEF Replies
    <3> QED
      BY <2>2, <3>1, <3>2, AppendItems
  <2>4. \E j \in 1..Len(out'[c]) : out'[c][j] = [type |-> "ack", cmd |-> k]
    BY <1>6, <2>3
  <2> QED
    BY <1>2, <1>3, <2>4 DEF AckAhead
<1> QED
  BY <1>7, <1>8, Started
\* AckFirst in the next state, said of each message by itself.
LEMMA AckFirstNext ==
    ASSUME \A c \in Conns : \A i \in DOMAIN out'[c] : \A k, n :
               out'[c][i].type \in {"ok", "fail"} /\ k = out'[c][i].cmd
               /\ n = i - 1 => AckAhead(k, c, n)',
           \A c \in Conns : hpc'[c] \in Hub!HoldsMessage
               /\ hand'[c].type \in {"ok", "fail"} => hand'[c].cmd \in acked',
           \A k \in Cmds : job'[k] \in {"starting", "running", "reporting"}
               /\ link'[via'[k]] = "up" => AckAhead(k, via[k], Len(out[via[k]]))'
    PROVE  AckFirst'
<1>1. ASSUME NEW c \in Conns, NEW i \in DOMAIN out'[c],
             out'[c][i].type \in {"ok", "fail"}
      PROVE  AckAhead(out[c][i].cmd, c, i - 1)'
  <2>1. PICK k, n : k = out'[c][i].cmd /\ n = i - 1
    OBVIOUS
  <2>2. AckAhead(k, c, n)'
    BY <1>1, <2>1
  <2> QED
    BY <2>1, <2>2 DEF AckAhead
<1> QED
  BY <1>1 DEF AckFirst, Hub!HoldsMessage

\* Whoever hears a result has heard the acknowledgement.
LEMMA AckOfReport ==
    ASSUME Basics, Acks, PanelSide
    PROVE  AckBeforeResult'
<1> SUFFICES ASSUME NEW k \in Cmds, NEW t \in {"ok", "fail"}, outcome'[k] = <<t>>
             PROVE  k \in acked'
  BY DEF AckBeforeResult
<1>1. Hub!TypeOK
  BY DEF Basics, TypeOK
<1>2. acked \subseteq acked'
  BY <1>1, AcksStay
<1>3. CASE outcome'[k] = outcome[k]
  BY <1>2, <1>3 DEF Acks, AckBeforeResult
<1>4. outcome[k] \in Seq(Hub!Outcomes)
  BY <1>1 DEF Hub!TypeOK
<1>5. ASSUME NEW c \in Conns, hpc[c] = "reporting", hand[c].cmd = k,
             outcome'[k] = Append(outcome[k], hand[c].type)
      PROVE  k \in acked'
  <2>1. hand[c].type = t
    BY <1>4, <1>5, AppendToNothing
  <2> QED
    BY <1>2, <1>5, <2>1 DEF Acks, AckFirst, Hub!HoldsMessage
<1>6. outcome'[k] # Append(outcome[k], "interrupted")
  BY <1>4, AppendToNothing
<1> QED
  BY <1>1, <1>3, <1>5, <1>6, Histories

\* The order of the two replies is kept by every step.
LEMMA NextAcks ==
    ASSUME Basics, Acks, [Next]_vars
    PROVE  Acks'
<1>1. ASSUME NEW c \in Conns, NEW i \in DOMAIN out[c],
             out[c][i].type \in {"ok", "fail"}, NEW k, NEW n,
             k = out[c][i].cmd, n = i - 1
      PROVE  AckAhead(k, c, n) /\ k \in Cmds /\ n \in 0..Len(out[c])
  <2>1. out[c] \in Seq(Replies)
    BY DEF Basics, TypeOK, ClientTypeOK
  <2> QED
    BY <1>1, <2>1, ReplyItems DEF Acks, AckFirst
<1>2. CASE AgentSideAlone
  <2>1. UNCHANGED <<hpc, hand, acked, outcome>>
    BY <1>2 DEF AgentSideAlone, hubVars
  <2>2. ASSUME NEW c \in Conns, NEW i \in DOMAIN out'[c], NEW k, NEW n,
               out'[c][i].type \in {"ok", "fail"}, k = out'[c][i].cmd, n = i - 1
        PROVE  AckAhead(k, c, n)'
    <3>1. CASE out'[c] = out[c]
      BY <1>1, <1>2, <2>2, <3>1, AckAheadOfAgent
    <3>2. ASSUME NEW m \in Replies, out'[c] = Append(out[c], m), via'[m.cmd] = c,
                 m.type \in {"ok", "fail"} =>
                     job[m.cmd] = "reporting" /\ link[c] = "up"
          PROVE  AckAhead(k, c, n)'
      <4>1. out[c] \in Seq(Replies)
        BY DEF Basics, TypeOK, ClientTypeOK
      <4>2. /\ DOMAIN out[c] = 1..Len(out[c]) /\ Len(out[c]) \in Nat
            /\ DOMAIN out'[c] = 1..(Len(out[c]) + 1)
            /\ \A j \in 1..Len(out[c]) : out'[c][j] = out[c][j]
            /\ out'[c][Len(out[c]) + 1] = m
        BY <3>2, <4>1, AppendItems
      <4>3. CASE i = Len(out[c]) + 1
        <5>1. k = m.cmd /\ m.type \in {"ok", "fail"} /\ n = Len(out[c])
              /\ k \in Cmds
          BY <2>2, <4>2, <4>3 DEF Replies
        <5>2. job[k] = "reporting" /\ link[c] = "up"
          BY <3>2, <5>1
        <5>3. via[k] # NoConn
          BY <5>1, <5>2 DEF Basics, Jobs
        <5>4. via[k] = c
          BY <1>2, <3>2, <5>1, <5>3, JobsStay
        <5>5. AckAhead(k, c, n)
          BY <5>1, <5>2, <5>4 DEF Acks, AckFirst
        <5> QED
          BY <1>2, <4>2, <5>1, <5>5, AckAheadOfAgent
      <4>4. CASE i # Len(out[c]) + 1
        <5>1. i \in DOMAIN out[c] /\ out'[c][i] = out[c][i]
          BY <2>2, <4>2, <4>4
        <5> QED
          BY <1>1, <1>2, <2>2, <5>1, AckAheadOfAgent
      <4> QED
        BY <4>3, <4>4
    <3> QED
      BY <1>2, <3>1, <3>2, RepliesWritten
  <2>3. \A k \in Cmds : job'[k] \in {"starting", "running", "reporting"}
            /\ link'[via'[k]] = "up" => AckAhead(k, via[k], Len(out[via[k]]))'
    BY <1>2, AckOfAgent
  <2>4. AckFirst'
    <3>1. \A c \in Conns : hpc'[c] \in Hub!HoldsMessage
              /\ hand'[c].type \in {"ok", "fail"} => hand'[c].cmd \in acked'
      BY <2>1 DEF Acks, AckFirst
    <3> QED
      BY <2>2, <2>3, <3>1, AckFirstNext
  <2>5. AckBeforeResult'
    BY <2>1 DEF Acks, AckBeforeResult
  <2> QED
    BY <2>4, <2>5 DEF Acks
<1>3. ASSUME NEW c \in Conns, ReadReply(c) PROVE Acks'
  <2>1. UNCHANGED <<link, job, via, acked, outcome>>
    BY <1>3, Reading
  <2>2. /\ hpc[c] = "reading" /\ hpc'[c] = "handling" /\ hand'[c] = out[c][1]
        /\ out'[c] = Tail(out[c]) /\ 1 \in DOMAIN out[c]
        /\ \A d \in Conns : d # c =>
              out'[d] = out[d] /\ hand'[d] = hand[d] /\ hpc'[d] = hpc[d]
    BY <1>3, Reading DEF Basics, TypeOK, ClientTypeOK, Hub!TypeOK
  <2>3. ASSUME NEW d \in Conns, d # c, NEW k, NEW n, AckAhead(k, d, n)
        PROVE  AckAhead(k, d, n)'
    BY <2>1, <2>2, <2>3 DEF AckAhead
  <2>4. ASSUME NEW d \in Conns, NEW i \in DOMAIN out'[d], NEW k, NEW n,
               out'[d][i].type \in {"ok", "fail"}, k = out'[d][i].cmd, n = i - 1
        PROVE  AckAhead(k, d, n)'
    <3>1. CASE d = c
      <4>1. /\ i \in DOMAIN Tail(out[c]) /\ i \in Nat
            /\ i + 1 \in DOMAIN out[c] /\ out'[c][i] = out[c][i + 1]
        <5>1. i \in DOMAIN Tail(out[c])
          BY <2>2, <2>4, <3>1
        <5> QED
          BY <1>3, <2>2, <5>1, Reading
      <4>2. /\ i + 1 \in DOMAIN out[c] /\ out[c][i + 1].type \in {"ok", "fail"}
            /\ k = out[c][i + 1].cmd /\ i = (i + 1) - 1
        BY <2>4, <3>1, <4>1
      <4>3. AckAhead(k, c, i)
        BY <1>1, <4>2
      <4>4. i \in DOMAIN out[c]
        BY <1>3, <4>1, Reading
      <4> QED
        BY <1>3, <2>4, <3>1, <4>1, <4>3, <4>4, AckAheadOfReading
    <3>2. CASE d # c
      BY <1>1, <2>2, <2>3, <2>4, <3>2
    <3> QED
      BY <3>1, <3>2
  <2>5. ASSUME NEW d \in Conns, hpc'[d] \in Hub!HoldsMessage,
               hand'[d].type \in {"ok", "fail"}
        PROVE  hand'[d].cmd \in acked'
    <3>1. CASE d = c
      <4>1. PICK k : k = out[c][1].cmd
        OBVIOUS
      <4>2. AckAhead(k, c, 0)
        BY <1>1, <2>2, <2>5, <3>1, <4>1
      <4>3. k \in acked
        BY <2>2, <4>2 DEF AckAhead
      <4> QED
        BY <2>1, <2>2, <3>1, <4>1, <4>3
    <3>2. CASE d # c
      BY <2>1, <2>2, <2>5, <3>2 DEF Acks, AckFirst
    <3> QED
      BY <3>1, <3>2
  <2>6. ASSUME NEW k \in Cmds, job'[k] \in {"starting", "running", "reporting"},
               link'[via'[k]] = "up"
        PROVE  AckAhead(k, via[k], Len(out[via[k]]))'
    <3>1. PICK d \in Conns : d = via[k]
      <4>1. via[k] # NoConn
        BY <2>1, <2>6 DEF Basics, Jobs
      <4> QED
        BY <4>1 DEF Basics, TypeOK, ClientTypeOK
    <3>2. AckAhead(k, d, Len(out[d]))
      BY <2>1, <2>6, <3>1 DEF Acks, AckFirst
    <3>3. CASE d = c
      <4>1. PICK n \in Nat : n = Len(out[c]) /\ n \in DOMAIN out[c]
        BY <1>3, Reading
      <4>2. AckAhead(k, c, n - 1)'
        BY <1>3, <3>2, <3>3, <4>1, AckAheadOfReading
      <4>3. Len(out'[c]) = n - 1
        BY <1>3, <2>2, <4>1, Reading
      <4> QED
        BY <2>1, <3>1, <3>3, <4>2, <4>3 DEF AckAhead
    <3>4. CASE d # c
      <4>1. PICK n : n = Len(out[d])
        OBVIOUS
      <4>2. AckAhead(k, d, n)'
        BY <2>3, <3>2, <3>4, <4>1
      <4> QED
        BY <2>1, <2>2, <3>1, <3>4, <4>1, <4>2 DEF AckAhead
    <3> QED
      BY <3>3, <3>4
  <2>7. AckFirst'
    BY <2>4, <2>5, <2>6, AckFirstNext
  <2> QED
    BY <2>1, <2>7 DEF Acks, AckBeforeResult
<1>4. CASE PanelAlone \/ \E k \in Cmds : WriteCommand(k) \/ FailToWrite(k)
  <2>1. PanelSide /\ UNCHANGED <<link, out, job, via>>
    BY <1>4, PanelMoves DEF jobVars, sessionVars
  <2>2. Hub!TypeOK
    BY DEF Basics, TypeOK
  <2>3. ASSUME NEW c \in Conns, NEW i \in DOMAIN out'[c], NEW k, NEW n,
               out'[c][i].type \in {"ok", "fail"}, k = out'[c][i].cmd, n = i - 1
        PROVE  AckAhead(k, c, n)'
    BY <1>1, <2>1, <2>2, <2>3, AckAheadOfPanel
  <2>4. ASSUME NEW c \in Conns, hpc'[c] \in Hub!HoldsMessage,
               hand'[c].type \in {"ok", "fail"}
        PROVE  hand'[c].cmd \in acked'
    <3>1. hpc[c] \in Hub!HoldsMessage /\ hand'[c] = hand[c]
      BY <2>1, <2>2, <2>4, HandsStay
    <3>2. acked \subseteq acked'
      BY <2>1, <2>2, AcksStay
    <3> QED
      BY <2>4, <3>1, <3>2 DEF Acks, AckFirst
  <2>5. ASSUME NEW k \in Cmds, job'[k] \in {"starting", "running", "reporting"},
               link'[via'[k]] = "up"
        PROVE  AckAhead(k, via[k], Len(out[via[k]]))'
    <3>1. PICK d \in Conns : d = via[k]
      <4>1. via[k] # NoConn
        BY <2>1, <2>5 DEF Basics, Jobs
      <4> QED
        BY <4>1 DEF Basics, TypeOK, ClientTypeOK
    <3>2. PICK n : n = Len(out[d])
      OBVIOUS
    <3>3. AckAhead(k, d, n)
      BY <2>1, <2>5, <3>1, <3>2 DEF Acks, AckFirst
    <3>4. AckAhead(k, d, n)'
      BY <2>1, <2>2, <3>3, AckAheadOfPanel
    <3> QED
      BY <2>1, <3>1, <3>2, <3>4 DEF AckAhead
  <2>6. AckFirst'
    BY <2>3, <2>4, <2>5, AckFirstNext
  <2> QED
    BY <2>1, <2>6, AckOfReport DEF Acks
<1>5. CASE UNCHANGED vars
  <2>1. UNCHANGED <<link, out, job, via, hpc, hand, acked, outcome>>
    BY <1>5 DEF vars, hubVars, clientVars, sessionVars, jobVars
  <2>2. AckFirst'
    BY <2>1 DEF Acks, AckFirst, AckAhead
  <2>3. AckBeforeResult'
    BY <2>1 DEF Acks, AckBeforeResult
  <2> QED
    BY <2>2, <2>3 DEF Acks
<1> QED
  BY <1>2, <1>3, <1>4, <1>5, StepKinds

\* Nothing was said yet.
LEMMA InitAcks == Init => Acks
BY DEF Init, Hub!Init, ClientInit, Acks, AckFirst, AckBeforeResult,
       Hub!HoldsMessage

\* OnAck is called before OnResult: a reply that cannot be written hangs up, so
\* that no later one overtakes it on the same session, and there is no other.
THEOREM AcksComeFirst == Spec => []AckBeforeResult
<1>1. Acks => AckBeforeResult
  BY DEF Acks
<1> QED
  BY <1>1, AlwaysBasics, InitAcks, NextAcks, PTL DEF Spec
-----------------------------------------------------------------------------
(* No silence *)

\* What AgentHubProofs proves of the hub.
HubFacts == HubProofs!TypeOK /\ HubProofs!Inv

\* closeAgent is on its way until it has closed the socket.
LEMMA VictimsStay ==
    ASSUME Hub!TypeOK, HubFacts, PanelSide, NEW c \in Conns,
           NEW g \in Hub!Closers, victim[g] = c
    PROVE  victim'[g] = c \/ sock'[c] = "closed"
<1> USE DEF Hub!TypeOK
<1>1. c # NoConn
  OBVIOUS
<1>2. g \in Conns => hpc[g] \in {"registering", "closing"}
  BY <1>1
  DEF HubFacts, HubProofs!Inv, HubProofs!Links, HubProofs!Victims,
      HubProofs!CloserIdle
<1>3. g = Server => dpc[g] = "closing"
  BY <1>1
  DEF HubFacts, HubProofs!Inv, HubProofs!Links, HubProofs!Victims,
      HubProofs!CloserIdle
<1>4. CASE victim' = victim
  BY <1>4
<1>5. ASSUME NEW d \in Conns, Hub!Register(d) \/ Hub!Unregister(d)
      PROVE  victim'[g] = c
  BY <1>2, <1>5 DEF Hub!Register, Hub!Unregister
<1>6. ASSUME Hub!Disconnect(Server) PROVE victim'[g] = c
  BY <1>3, <1>6 DEF Hub!Disconnect
<1>7. ASSUME NEW h \in Hub!Closers, Hub!CloseAgent(h)
      PROVE  victim'[g] = c \/ sock'[c] = "closed"
  BY <1>7 DEF Hub!CloseAgent, Hub!SocketClosed
<1>8. ASSUME NEW d \in Conns, HandlerAlone(d),
             ~ (Hub!Register(d) \/ Hub!Unregister(d))
      PROVE  victim' = victim
  BY <1>8
  DEF HandlerAlone, Hub!closeVars, Hub!Authenticate, Hub!Refuse, Hub!LinkLost,
      Hub!RecheckOk, Hub!RecheckFail, Hub!HandleAccept, Hub!FinishLookup,
      Hub!FinishOffline, Hub!FinishLocked, Hub!Report, Hub!ReadFail,
      Hub!HandlerReturn
<1>9. ASSUME NEW h, Hub!Interrupt(h) \/ Hub!DeleteRow(h) \/ Hub!DeleteReturn(h)
                    \/ Hub!SendLookup(h) \/ Hub!SendRefused(h)
                    \/ Hub!SendWritten(h) \/ Hub!SendFailed(h)
      PROVE  victim' = victim
  BY <1>9
  DEF Hub!closeVars, Hub!Interrupt, Hub!DeleteRow, Hub!DeleteReturn,
      Hub!SendLookup, Hub!SendRefused, Hub!SendWritten, Hub!SendFailed
<1> QED
  BY <1>4, <1>5, <1>6, <1>7, <1>8, <1>9 DEF PanelSide, OthersAlone

\* A connection that is over stays over.
LEMMA BrokenStays ==
    ASSUME Basics, HubFacts, [Next]_vars, NEW c \in Conns, Broken(c),
           sock[c] # "none", link[c] \in {"up", "mute", "closed"}
    PROVE  Broken(c)'
<1>1. Hub!TypeOK
  BY DEF Basics, TypeOK
<1>2. hpc[c] # "authed"
  BY DEF HubFacts, HubProofs!Inv, HubProofs!Links, HubProofs!Unregistered
<1>3. CASE AgentSideAlone
  <2>1. UNCHANGED <<sock, victim>>
    BY <1>3 DEF AgentSideAlone, hubVars
  <2>2. link[c] # "up" => link'[c] # "up"
    BY <1>3, LinksStay
  <2> QED
    BY <2>1, <2>2 DEF Broken, Hub!Closers
<1>4. ASSUME NEW d \in Conns, ReadReply(d) PROVE Broken(c)'
  <2>1. UNCHANGED <<link, sock, victim>>
    BY <1>4, Reading
  <2> QED
    BY <2>1 DEF Broken, Hub!Closers
<1>5. CASE PanelAlone \/ \E k \in Cmds : WriteCommand(k) \/ FailToWrite(k)
  <2>1. PanelSide /\ link' = link
    BY <1>5, PanelMoves DEF sessionVars
  <2>2. CASE link[c] # "up"
    BY <2>1, <2>2 DEF Broken
  <2>3. CASE sock[c] # "up"
    <3>1. sock[c] \in {"lost", "closed"}
      BY <1>1, <2>3 DEF Hub!TypeOK
    <3>2. sock'[c] \in {"lost", "closed"}
      BY <1>1, <1>2, <2>1, <3>1, SocketsStay
    <3> QED
      BY <3>2 DEF Broken
  <2>4. ASSUME NEW g \in Hub!Closers, victim[g] = c PROVE Broken(c)'
    <3>1. victim'[g] = c \/ sock'[c] = "closed"
      BY <1>1, <2>1, <2>4, VictimsStay
    <3> QED
      BY <2>4, <3>1 DEF Broken, Hub!Closers
  <2> QED
    BY <2>2, <2>3, <2>4 DEF Broken
<1>6. CASE UNCHANGED vars
  <2>1. UNCHANGED <<link, sock, victim>>
    BY <1>6 DEF vars, hubVars, clientVars, sessionVars
  <2> QED
    BY <2>1 DEF Broken, Hub!Closers
<1> QED
  BY <1>3, <1>4, <1>5, <1>6, StepKinds

\* An agent that is not registered any more is closed, or about to be.
LEMMA ReplacedIsBroken ==
    ASSUME HubFacts, NEW c \in Conns, sock[c] # "none", conns[Server] # c
    PROVE  Broken(c)
<1>1. /\ closed[c] => sock[c] = "closed"
      /\ \/ closed[c]
         \/ \E g \in HubProofs!Closers : victim[g] = c
  BY DEF HubFacts, HubProofs!Inv, HubProofs!Links, HubProofs!Settled
<1>2. HubProofs!Closers = Hub!Closers
  BY DEF HubProofs!Closers, Hub!Closers
<1> QED
  BY <1>1, <1>2 DEF Broken

\* A handler with a message has a connection both sides had opened.
LEMMA HandsAreOpen ==
    ASSUME Basics, HubFacts, NEW c \in Conns, hpc[c] \in Hub!HoldsMessage
    PROVE  /\ sock[c] # "none" /\ link[c] \in {"up", "mute", "closed"}
           /\ hand[c].cmd \in Cmds /\ via[hand[c].cmd] = c
<1>1. hand[c].cmd \in Cmds
  BY DEF Basics, TypeOK, Hub!TypeOK, Hub!HoldsMessage, Hub!Messages
<1>2. via[hand[c].cmd] = c
  BY DEF Basics, Flow
<1>3. link[c] \in {"up", "mute", "closed"}
  BY <1>1, <1>2 DEF Basics, Jobs
<1>4. sock[c] # "none"
  BY DEF Hub!HoldsMessage, HubFacts, HubProofs!Inv, HubProofs!Links,
         HubProofs!Unregistered
<1> QED
  BY <1>1, <1>2, <1>3, <1>4

\* So has a command that is received and waited for.
LEMMA WaitsAreOpen ==
    ASSUME Basics, HubFacts, NEW k \in Cmds, via[k] # NoConn, spc[k] = "sent"
    PROVE  /\ via[k] \in Conns /\ chosen[k] = via[k]
           /\ sock[via[k]] # "none" /\ link[via[k]] \in {"up", "mute", "closed"}
<1>1. via[k] \in Conns /\ chosen[k] = via[k]
  BY DEF Basics, TypeOK, ClientTypeOK, Flow
<1>2. link[via[k]] \in {"up", "mute", "closed"}
  BY DEF Basics, Jobs
<1>3. sock[chosen[k]] # "none"
  BY DEF HubFacts, HubProofs!Inv, HubProofs!Links, HubProofs!LookedUp
<1> QED
  BY <1>1, <1>2, <1>3

\* Finish finds the command pending, unless the agent is closed by now.
LEMMA FinishFinds ==
    ASSUME Basics, HubFacts, NEW c \in Conns, hpc[c] = "finishing",
           found[c] = c, Hub!Outstanding(hand[c].cmd),
           hand[c].cmd \notin pending[c]
    PROVE  Broken(c)
<1>1. /\ hand[c].cmd \in Cmds /\ via[hand[c].cmd] = c /\ c # NoConn
  BY HandsAreOpen DEF Hub!HoldsMessage
<1>2. PICK k \in Cmds : k = hand[c].cmd
  BY <1>1
<1>3. chosen[k] = c
  BY <1>1, <1>2 DEF Basics, Flow
<1>4. \/ \E d \in Conns : k \in pending[d]
      \/ \E g \in HubProofs!Closers : k \in ids[g]
      \/ \E d \in Conns : hpc[d] = "reporting" /\ hand[d].cmd = k
  <2>1. HubProofs!Outstanding(k)
    BY <1>2 DEF Hub!Outstanding, HubProofs!Outstanding
  <2> QED
    BY <2>1 DEF HubFacts, HubProofs!Inv, HubProofs!CommandNeverLost
<1>5. \A d \in Conns : k \notin pending[d]
  BY <1>2, <1>3 DEF HubFacts, HubProofs!Inv, HubProofs!Custody
<1>6. \A d \in Conns : ~ (hpc[d] = "reporting" /\ hand[d].cmd = k)
  BY <1>1, <1>2, HandsAreOpen DEF Hub!HoldsMessage
<1>7. closed[c]
  BY <1>3, <1>4, <1>5, <1>6 DEF HubFacts, HubProofs!Inv, HubProofs!Custody
<1>8. sock[c] = "closed"
  BY <1>7 DEF HubFacts, HubProofs!Inv, HubProofs!Links, HubProofs!Settled
<1> QED
  BY <1>8 DEF Broken
\* A history a callback was added to is not empty.
LEMMA AppendIsMore ==
    ASSUME NEW S, NEW s \in Seq(S), NEW x
    PROVE  Append(s, x) # <<>>
<1>1. Len(Append(s, x)) = Len(s) + 1 /\ Len(s) \in Nat /\ Len(<<>>) = 0
  OBVIOUS
<1> QED
  BY <1>1

\* A command that is told of now was waited for before.
LEMMA Waited ==
    ASSUME Basics, PanelSide, NEW k \in Cmds, via[k] # NoConn,
           Hub!Outstanding(k)'
    PROVE  Hub!Outstanding(k)
<1>1. Hub!TypeOK
  BY DEF Basics, TypeOK
<1>2. spc[k] \in {"sent", "failed"}
  BY DEF Basics, Flow
<1>3. spc[k] = "sent"
  BY <1>1, <1>2, SendsStay DEF Hub!Outstanding
<1>4. outcome[k] \in Seq(Hub!Outcomes) /\ outcome'[k] = <<>>
  BY <1>1 DEF Hub!TypeOK, Hub!Outstanding
<1>5. \A x : Append(outcome[k], x) # <<>>
  BY <1>4, AppendIsMore
<1>6. outcome[k] = <<>>
  BY <1>1, <1>4, <1>5, Histories
<1> QED
  BY <1>3, <1>6 DEF Hub!Outstanding

\* An answer in a handler's hands is kept until it is reported, or Finish does
\* not find its command.
LEMMA AnswersStay ==
    ASSUME Basics, PanelSide, NEW c \in Conns, hpc[c] \in Hub!HoldsMessage,
           hand[c].type \in Answers, outcome'[hand[c].cmd] = <<>>
    PROVE  \/ hpc'[c] \in Hub!HoldsMessage /\ hand'[c] = hand[c]
           \/ conns[Server] = NoConn
           \/ hpc[c] = "finishing" /\ hand[c].cmd \notin pending[found[c]]
<1> USE DEF Basics, TypeOK, Hub!TypeOK, Hub!HoldsMessage
<1>1. CASE UNCHANGED <<hpc, hand>>
  BY <1>1
<1>2. ASSUME NEW d \in Conns,
             Hub!Authenticate(d) \/ Hub!Refuse(d) \/ Hub!Register(d)
             \/ Hub!RecheckOk(d) \/ Hub!RecheckFail(d) \/ Hub!ReadFail(d)
             \/ Hub!Unregister(d) \/ Hub!HandlerReturn(d) \/ Hub!FinishLookup(d)
      PROVE  hpc'[c] \in Hub!HoldsMessage /\ hand'[c] = hand[c]
  BY <1>2
  DEF Hub!Authenticate, Hub!Refuse, Hub!Register, Hub!RecheckOk,
      Hub!RecheckFail, Hub!ReadFail, Hub!Unregister, Hub!HandlerReturn,
      Hub!FinishLookup
<1>3. ASSUME NEW d \in Conns, Hub!HandleAccept(d)
      PROVE  hpc'[c] \in Hub!HoldsMessage /\ hand'[c] = hand[c]
  <2>1. d # c
    BY <1>3 DEF Hub!HandleAccept, Answers
  <2> QED
    BY <1>3, <2>1 DEF Hub!HandleAccept
<1>4. ASSUME NEW d \in Conns, Hub!FinishOffline(d)
      PROVE  \/ hpc'[c] \in Hub!HoldsMessage /\ hand'[c] = hand[c]
             \/ conns[Server] = NoConn
  BY <1>4 DEF Hub!FinishOffline, Hub!IsNil
<1>5. ASSUME NEW d \in Conns, Hub!FinishLocked(d)
      PROVE  \/ hpc'[c] \in Hub!HoldsMessage /\ hand'[c] = hand[c]
             \/ hpc[c] = "finishing" /\ hand[c].cmd \notin pending[found[c]]
  BY <1>5 DEF Hub!FinishLocked, Hub!FoundPending
<1>6. ASSUME NEW d \in Conns, Hub!Report(d)
      PROVE  hpc'[c] \in Hub!HoldsMessage /\ hand'[c] = hand[c]
  <2>1. d # c
    <3>1. hand[c] \in Hub!Messages /\ hand[c].cmd \in Cmds
      BY DEF Hub!Messages
    <3>2. outcome[hand[c].cmd] \in Seq(Hub!Outcomes)
      BY <3>1
    <3>3. \A x : Append(outcome[hand[c].cmd], x) # <<>>
      BY <3>2, AppendIsMore
    <3> QED
      BY <1>6, <3>1, <3>3 DEF Hub!Report
  <2> QED
    BY <1>6, <2>1 DEF Hub!Report
<1>7. ASSUME NEW d \in Conns, Hub!LinkLost(d) PROVE UNCHANGED <<hpc, hand>>
  BY <1>7 DEF Hub!LinkLost, Hub!handlerVars
<1>8. ASSUME OthersAlone PROVE UNCHANGED <<hpc, hand>>
  BY <1>8
  DEF OthersAlone, Hub!handlerVars, Hub!CloseAgent, Hub!Interrupt,
      Hub!DeleteRow, Hub!Disconnect, Hub!DeleteReturn, Hub!SendLookup,
      Hub!SendRefused
<1>9. ASSUME NEW k \in Cmds, Hub!SendWritten(k) \/ Hub!SendFailed(k)
      PROVE  UNCHANGED <<hpc, hand>>
  BY <1>9 DEF Hub!handlerVars, Hub!SendWritten, Hub!SendFailed
<1> QED
  BY <1>1, <1>2, <1>3, <1>4, <1>5, <1>6, <1>7, <1>8, <1>9
  DEF PanelSide, HandlerAlone

\* Finish works on the agent that was registered when it looked.
LEMMA FoundStays ==
    ASSUME Basics, PanelSide, NEW c \in Conns, hpc'[c] = "finishing"
    PROVE  \/ hpc[c] = "finishing" /\ found'[c] = found[c]
           \/ hpc[c] = "handling" /\ found'[c] = conns[Server]
<1> USE DEF Basics, TypeOK, Hub!TypeOK, Hub!HoldsMessage
<1>1. CASE UNCHANGED <<hpc, found>>
  BY <1>1
<1>2. ASSUME NEW d \in Conns, Hub!FinishLookup(d)
      PROVE  \/ hpc[c] = "finishing" /\ found'[c] = found[c]
             \/ hpc[c] = "handling" /\ found'[c] = conns[Server]
  BY <1>2 DEF Hub!FinishLookup
<1>3. ASSUME NEW d \in Conns, HandlerAlone(d), ~ Hub!FinishLookup(d),
             ~ Hub!LinkLost(d), ~ Hub!FinishLocked(d)
      PROVE  hpc[c] = "finishing" /\ found'[c] = found[c]
  BY <1>3
  DEF HandlerAlone, Hub!Authenticate, Hub!Refuse, Hub!Register, Hub!RecheckOk,
      Hub!RecheckFail, Hub!ReadFail, Hub!Unregister, Hub!HandlerReturn,
      Hub!HandleAccept, Hub!FinishOffline, Hub!Report, Hub!Deferred
<1>4. ASSUME NEW d \in Conns, Hub!FinishLocked(d)
      PROVE  hpc[c] = "finishing" /\ found'[c] = found[c]
  BY <1>4 DEF Hub!FinishLocked
<1>5. ASSUME NEW d \in Conns, Hub!LinkLost(d) PROVE UNCHANGED <<hpc, found>>
  BY <1>5 DEF Hub!LinkLost, Hub!handlerVars
<1>6. ASSUME OthersAlone PROVE UNCHANGED <<hpc, found>>
  BY <1>6
  DEF OthersAlone, Hub!handlerVars, Hub!CloseAgent, Hub!Interrupt,
      Hub!DeleteRow, Hub!Disconnect, Hub!DeleteReturn, Hub!SendLookup,
      Hub!SendRefused
<1>7. ASSUME NEW k \in Cmds, Hub!SendWritten(k) \/ Hub!SendFailed(k)
      PROVE  UNCHANGED <<hpc, found>>
  BY <1>7 DEF Hub!handlerVars, Hub!SendWritten, Hub!SendFailed
<1> QED
  BY <1>1, <1>2, <1>3, <1>4, <1>5, <1>6, <1>7 DEF PanelSide

\* A command comes to its end by its answer, or by the end of its session.
LEMMA Ended ==
    ASSUME Basics, AgentSideAlone, NEW k \in Cmds,
           job[k] \notin {"done", "rejected"}, job'[k] \in {"done", "rejected"}
    PROVE  /\ via'[k] \in Conns
           /\ \/ link'[via'[k]] # "up"
              \/ \E m \in Replies :
                    /\ out'[via'[k]] = Append(out[via'[k]], m)
                    /\ m.cmd = k /\ m.type \in Answers
<1> USE DEF Basics, TypeOK, ClientTypeOK
<1>1. ASSUME NEW c \in Conns, RejectCommand(c), k = Head(in[c])
      PROVE  /\ via'[k] \in Conns
             /\ \/ link'[via'[k]] # "up"
                \/ \E m \in Replies :
                      /\ out'[via'[k]] = Append(out[via'[k]], m)
                      /\ m.cmd = k /\ m.type \in Answers
  <2>1. via'[k] = c
    BY <1>1 DEF RejectCommand
  <2>2. CASE link' = [link EXCEPT ![c] = IF link[c] = "up" THEN "mute" ELSE link[c]]
    BY <2>1, <2>2
  <2>3. CASE out' = [out EXCEPT ![c] = Append(out[c], [type |-> "nack", cmd |-> k])]
    <3>1. PICK m \in Replies : m = [type |-> "nack", cmd |-> k]
      BY DEF Replies, Answers
    <3>2. m.cmd = k /\ m.type \in Answers
      BY <3>1 DEF Answers
    <3> QED
      BY <2>1, <2>3, <3>1, <3>2
  <2> QED
    BY <1>1, <2>1, <2>2, <2>3, Refusing
<1>2. ASSUME SendResult(k)
      PROVE  /\ via'[k] \in Conns
             /\ \/ link'[via'[k]] # "up"
                \/ \E m \in Replies :
                      /\ out'[via'[k]] = Append(out[via'[k]], m)
                      /\ m.cmd = k /\ m.type \in Answers
  <2>1. via'[k] = via[k] /\ via[k] \in Conns /\ verdict[k] \in {"ok", "fail"}
    BY <1>2 DEF SendResult, Jobs
  <2>2. CASE NotWritten(k)
    BY <2>1, <2>2 DEF NotWritten, HangUp, OwnSession
  <2>3. CASE Written(k, verdict[k])
    <3>1. PICK m \in Replies : m = [type |-> verdict[k], cmd |-> k]
      BY <2>1 DEF Replies, Answers
    <3>2. m.cmd = k /\ m.type \in Answers
      BY <2>1, <3>1 DEF Answers
    <3>3. out'[via[k]] = Append(out[via[k]], m)
      BY <2>1, <2>3, <3>1 DEF Written, OwnSession
    <3> QED
      BY <2>1, <3>2, <3>3
  <2> QED
    BY <1>2, <2>2, <2>3 DEF SendResult
<1>3. ASSUME NEW c \in Conns, SessionAlone(c)
      PROVE  RejectCommand(c) /\ k = Head(in[c])
  BY <1>3
  DEF SessionAlone, Dial, DialOk, DialFail, EndSession, ReceiveCommand,
      RejectCommand, jobVars
<1>4. ASSUME NEW j \in Cmds, JobAlone(j) PROVE SendResult(k)
  BY <1>4
  DEF JobAlone, SendAck, TryLock, Busy, ScriptExit, SendResult, LogFail, jobVars
<1>5. ASSUME Restart PROVE FALSE
  BY <1>5 DEF Restart, Active
<1> QED
  BY <1>1, <1>2, <1>3, <1>4, <1>5 DEF AgentSideAlone
\* An answer on its way is not lost by what the agent does next.
LEMMA AnswerOfAgent ==
    ASSUME Basics, AgentSideAlone, NEW k \in Cmds, NEW c \in Conns,
           Answering(k, c)
    PROVE  Answering(k, c)'
<1>1. UNCHANGED <<hpc, hand>>
  BY DEF AgentSideAlone, hubVars
<1>2. ASSUME NEW i \in DOMAIN out[c]
      PROVE  i \in DOMAIN out'[c] /\ out'[c][i] = out[c][i]
  <2>1. out[c] \in Seq(Replies) /\ out'[c] \in Seq(Replies)
    BY AgentBasics DEF Basics, TypeOK, ClientTypeOK, Flow
  <2> QED
    BY <2>1, OutGrows
<1> QED
  BY <1>1, <1>2 DEF Answering, Hub!HoldsMessage

\* Reading puts it into the handler's hands.
LEMMA AnswerOfReading ==
    ASSUME Basics, NEW d \in Conns, ReadReply(d), NEW k \in Cmds, NEW c \in Conns,
           Answering(k, c)
    PROVE  Answering(k, c)'
<1>1. CASE c # d
  <2>1. out'[c] = out[c] /\ hpc'[c] = hpc[c] /\ hand'[c] = hand[c]
    BY <1>1, Reading DEF Basics, TypeOK, ClientTypeOK, Hub!TypeOK
  <2> QED
    BY <2>1 DEF Answering, Hub!HoldsMessage
<1>2. CASE c = d
  <2>1. /\ hpc[c] = "reading" /\ hpc'[c] = "handling" /\ hand'[c] = out[c][1]
        /\ out'[c] = Tail(out[c])
    BY <1>2, Reading DEF Basics, TypeOK, ClientTypeOK, Hub!TypeOK
  <2>2. PICK i \in DOMAIN out[c] : out[c][i].cmd = k /\ out[c][i].type \in Answers
    BY <2>1 DEF Answering, Hub!HoldsMessage
  <2>3. CASE i = 1
    BY <2>1, <2>2, <2>3 DEF Answering, Hub!HoldsMessage
  <2>4. CASE i # 1
    <3>1. i - 1 \in DOMAIN out'[c] /\ out'[c][i - 1] = out[c][i]
      BY <1>2, <2>1, <2>4, Reading
    <3> QED
      BY <2>2, <3>1 DEF Answering
  <2> QED
    BY <2>3, <2>4
<1> QED
  BY <1>1, <1>2

\* The panel loses it only with the connection.
LEMMA AnswerOfPanel ==
    ASSUME Basics, HubFacts, Heard, [Next]_vars, PanelSide, UNCHANGED out,
           NEW k \in Cmds, NEW c \in Conns, Answering(k, c),
           Hub!Outstanding(k), Hub!Outstanding(k)'
    PROVE  Answering(k, c)' \/ Broken(c)'
<1>1. CASE \E i \in DOMAIN out[c] : out[c][i].cmd = k /\ out[c][i].type \in Answers
  BY <1>1 DEF Answering
<1>2. CASE hpc[c] \in Hub!HoldsMessage /\ hand[c].cmd = k /\ hand[c].type \in Answers
  <2>1. sock[c] # "none" /\ link[c] \in {"up", "mute", "closed"}
    BY <1>2, HandsAreOpen
  <2>2. Broken(c) => Broken(c)'
    BY <2>1, BrokenStays
  <2>3. CASE hpc'[c] \in Hub!HoldsMessage /\ hand'[c] = hand[c]
    BY <1>2, <2>3 DEF Answering, Hub!HoldsMessage
  <2>4. CASE conns[Server] = NoConn
    <3>1. Broken(c)
      BY <2>1, <2>4, ReplacedIsBroken
    <3> QED
      BY <2>2, <3>1
  <2>5. CASE hpc[c] = "finishing" /\ hand[c].cmd \notin pending[found[c]]
    <3>1. CASE found[c] = c
      BY <1>2, <2>2, <2>5, <3>1, FinishFinds
    <3>2. CASE found[c] # c
      BY <2>2, <2>5, <3>2 DEF Heard
    <3> QED
      BY <3>1, <3>2
  <2>6. outcome'[hand[c].cmd] = <<>>
    BY <1>2 DEF Hub!Outstanding
  <2> QED
    BY <1>2, <2>3, <2>4, <2>5, <2>6, AnswersStay
<1> QED
  BY <1>1, <1>2 DEF Answering

\* A finished command has a session.
LEMMA EndedHasSession ==
    ASSUME Basics, NEW k \in Cmds, job[k] \in {"done", "rejected"}
    PROVE  via[k] # NoConn /\ via[k] \in Conns
BY DEF Basics, TypeOK, ClientTypeOK, Jobs

\* Silence is the end of a connection, in every step.
LEMMA NextHeard ==
    ASSUME Basics, HubFacts, Heard, [Next]_vars
    PROVE  Heard'
<1> DEFINE Answered ==
      \A k \in Cmds : job'[k] \in {"done", "rejected"} /\ Hub!Outstanding(k)' =>
          Answering(k, via[k])' \/ Broken(via[k])'
<1> DEFINE Looked ==
      \A c \in Conns : hpc'[c] = "finishing" /\ found'[c] # c => Broken(c)'
<1>1. ASSUME Answered, Looked PROVE Heard'
  BY <1>1 DEF Heard
<1>2. ASSUME NEW k \in Cmds, job[k] \in {"done", "rejected"}, Hub!Outstanding(k)
      PROVE  /\ via[k] \in Conns /\ via[k] # NoConn
             /\ Answering(k, via[k]) \/ Broken(via[k])
             /\ Broken(via[k]) => \A c \in Conns : c = via[k] => Broken(c)'
  <2>1. via[k] \in Conns /\ via[k] # NoConn
    BY <1>2, EndedHasSession
  <2>2. sock[via[k]] # "none" /\ link[via[k]] \in {"up", "mute", "closed"}
    BY <1>2, <2>1, WaitsAreOpen DEF Hub!Outstanding
  <2> QED
    BY <1>2, <2>1, <2>2, BrokenStays DEF Heard
<1>3. ASSUME NEW k, NEW c, via'[k] = c, Answering(k, c)' \/ Broken(c)'
      PROVE  Answering(k, via[k])' \/ Broken(via[k])'
  BY <1>3 DEF Answering, Broken, Hub!HoldsMessage, Hub!Closers
<1>4. ASSUME NEW c \in Conns, hpc[c] = "finishing", found[c] # c
      PROVE  Broken(c)'
  <2>1. Broken(c)
    BY <1>4 DEF Heard
  <2> QED
    BY <1>4, <2>1, BrokenStays, HandsAreOpen DEF Hub!HoldsMessage
<1>5. CASE AgentSideAlone
  <2>1. UNCHANGED <<hpc, hand, found, spc, outcome>>
    BY <1>5 DEF AgentSideAlone, hubVars
  <2>2. ASSUME NEW k \in Cmds, job'[k] \in {"done", "rejected"},
               Hub!Outstanding(k)'
        PROVE  Answering(k, via[k])' \/ Broken(via[k])'
    <3>1. Hub!Outstanding(k)
      BY <2>1, <2>2 DEF Hub!Outstanding
    <3>2. CASE job[k] \in {"done", "rejected"}
      <4>1. PICK c \in Conns : c = via[k]
        BY <1>2, <3>1, <3>2
      <4>2. via'[k] = c
        BY <1>2, <1>5, <3>1, <3>2, <4>1, JobsStay
      <4>3. Answering(k, c) => Answering(k, c)'
        BY <1>5, AnswerOfAgent
      <4>4. Answering(k, c)' \/ Broken(c)'
        BY <1>2, <3>1, <3>2, <4>1, <4>3
      <4> QED
        BY <1>3, <4>2, <4>4
    <3>3. CASE job[k] \notin {"done", "rejected"}
      <4>1. PICK c \in Conns : c = via'[k]
        BY <1>5, <2>2, <3>3, Ended
      <4>2. CASE link'[c] # "up"
        BY <1>3, <4>1, <4>2 DEF Broken
      <4>3. ASSUME NEW m \in Replies, out'[c] = Append(out[c], m), m.cmd = k,
                   m.type \in Answers
            PROVE  Answering(k, c)'
        <5>1. out[c] \in Seq(Replies)
          BY DEF Basics, TypeOK, ClientTypeOK
        <5>2. /\ Len(out[c]) + 1 \in DOMAIN out'[c]
              /\ out'[c][Len(out[c]) + 1] = m
          <6>1. /\ DOMAIN out'[c] = 1..(Len(out[c]) + 1)
                /\ out'[c][Len(out[c]) + 1] = m
                /\ Len(out[c]) \in Nat
            BY <4>3, <5>1, AppendItems
          <6> QED
            BY <6>1
        <5> QED
          BY <4>3, <5>2 DEF Answering
      <4> QED
        BY <1>3, <1>5, <2>2, <3>3, <4>1, <4>2, <4>3, Ended
    <3> QED
      BY <3>2, <3>3
  <2>3. Looked
    BY <1>4, <2>1
  <2> QED
    BY <1>1, <2>2, <2>3
<1>6. ASSUME NEW d \in Conns, ReadReply(d) PROVE Heard'
  <2>1. UNCHANGED <<job, via, found, spc, outcome>>
    BY <1>6, Reading
  <2>2. ASSUME NEW k \in Cmds, job'[k] \in {"done", "rejected"},
               Hub!Outstanding(k)'
        PROVE  Answering(k, via[k])' \/ Broken(via[k])'
    <3>1. Hub!Outstanding(k) /\ job[k] \in {"done", "rejected"}
      BY <2>1, <2>2 DEF Hub!Outstanding
    <3>2. PICK c \in Conns : c = via[k]
      BY <1>2, <3>1
    <3>3. Answering(k, c) => Answering(k, c)'
      BY <1>6, AnswerOfReading
    <3>4. Answering(k, c)' \/ Broken(c)'
      BY <1>2, <3>1, <3>2, <3>3
    <3> QED
      BY <1>3, <2>1, <3>2, <3>4
  <2>3. Looked
    <3>1. \A c \in Conns : hpc'[c] = "finishing" => hpc[c] = "finishing"
      BY <1>6, Reading DEF Basics, TypeOK, Hub!TypeOK
    <3> QED
      BY <1>4, <2>1, <3>1
  <2> QED
    BY <1>1, <2>2, <2>3
<1>7. CASE PanelAlone \/ \E k \in Cmds : WriteCommand(k) \/ FailToWrite(k)
  <2>1. PanelSide /\ UNCHANGED <<out, job, via>>
    BY <1>7, PanelMoves DEF jobVars
  <2>2. ASSUME NEW k \in Cmds, job'[k] \in {"done", "rejected"},
               Hub!Outstanding(k)'
        PROVE  Answering(k, via[k])' \/ Broken(via[k])'
    <3>1. job[k] \in {"done", "rejected"}
      BY <2>1, <2>2
    <3>2. Hub!Outstanding(k)
      BY <2>1, <2>2, <3>1, EndedHasSession, Waited
    <3>3. PICK c \in Conns : c = via[k]
      BY <1>2, <3>1, <3>2
    <3>4. Answering(k, c) => Answering(k, c)' \/ Broken(c)'
      BY <2>1, <2>2, <3>2, AnswerOfPanel
    <3>5. Answering(k, c)' \/ Broken(c)'
      BY <1>2, <3>1, <3>2, <3>3, <3>4
    <3> QED
      BY <1>3, <2>1, <3>3, <3>5
  <2>3. ASSUME NEW c \in Conns, hpc'[c] = "finishing", found'[c] # c
        PROVE  Broken(c)'
    <3>1. CASE hpc[c] = "finishing" /\ found'[c] = found[c]
      BY <1>4, <2>3, <3>1
    <3>2. CASE hpc[c] = "handling" /\ found'[c] = conns[Server]
      <4>1. sock[c] # "none" /\ link[c] \in {"up", "mute", "closed"}
        BY <3>2, HandsAreOpen DEF Hub!HoldsMessage
      <4>2. Broken(c)
        BY <2>3, <3>2, <4>1, ReplacedIsBroken
      <4> QED
        BY <4>1, <4>2, BrokenStays
    <3> QED
      BY <2>1, <2>3, <3>1, <3>2, FoundStays
  <2> QED
    BY <1>1, <2>2, <2>3
<1>8. CASE UNCHANGED vars
  BY <1>8
  DEF Heard, Answering, Broken, Hub!Outstanding, Hub!HoldsMessage, Hub!Closers,
      vars, hubVars, clientVars, sessionVars, jobVars
<1> QED
  BY <1>5, <1>6, <1>7, <1>8, StepKinds

\* Nobody waits yet.
LEMMA InitHeard == Init => Heard
BY DEF Init, Hub!Init, ClientInit, Heard, Hub!Outstanding

\* A command that its agent is done with is answered, or its connection ends:
\* Finish overlooks no answer that closeAgent is not about to make up for.
THEOREM NeverSilent == Spec => []NoSilence
<1>1. Basics /\ Heard => NoSilence
  <2> SUFFICES ASSUME Basics, Heard, NEW k \in Cmds,
                      job[k] \in {"done", "rejected"}, Hub!Outstanding(k)
               PROVE  \/ \E i \in DOMAIN out[via[k]] :
                            out[via[k]][i].cmd = k /\ out[via[k]][i].type \in Answers
                      \/ hpc[via[k]] \in Hub!HoldsMessage /\ hand[via[k]].cmd = k
                      \/ link[via[k]] # "up" \/ sock[via[k]] # "up"
                      \/ \E g \in Hub!Closers : victim[g] = via[k]
    BY DEF NoSilence
  <2> QED
    BY DEF Heard, Answering, Broken
<1>2. Basics /\ HubProofs!TypeOK /\ HubProofs!Inv /\ Heard /\ [Next]_vars => Heard'
  BY NextHeard DEF HubFacts
<1> QED
  BY <1>1, <1>2, AlwaysBasics, HubInvariance, InitHeard, PTL DEF Spec
=============================================================================
