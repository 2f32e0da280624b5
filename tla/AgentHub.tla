------------------------------ MODULE AgentHub ------------------------------
(***************************************************************************)
(* The panel's side of the agent link: internal/agent_manager (hub.go,     *)
(* service.go, handler.go, auth.go) and the part of                        *)
(* internal/service/server that removes a server while its agent is on     *)
(* line (Delete, then Disconnect).                                         *)
(*                                                                         *)
(* Many goroutines share the hub: one per ServeWS call (a connection of an *)
(* agent), one per Service.send (a command) and one per deletion of a      *)
(* server.  Hub.mu and each agentConn.mu are never held together, so each  *)
(* critical section is one action and every gap between two of them is a   *)
(* point where the others may run.                                         *)
(*                                                                         *)
(* Left out: pings and log lines, which change nothing here, and the       *)
(* payload of a command.  LinkLost stands for every reason why ReadJSON    *)
(* fails although this side has not closed the socket: the peer left, the  *)
(* 90 s of readTimeout passed, a frame could not be decoded.               *)
(***************************************************************************)
EXTENDS Naturals, FiniteSets, Sequences

CONSTANTS
    Servers,      \* ids of servers
    Conns,        \* one per ServeWS call, with its own socket
    Cmds,         \* one per Service.send call, with its own uuid
    NoConn,       \* the nil *agentConn
    NoMessage,    \* a handler holds no message
    ConnServer,   \* the server whose token the ServeWS call presents
    CmdServer     \* the server a command is sent to

ASSUME HubAssumption ==
    /\ ConnServer \in [Conns -> Servers]
    /\ CmdServer \in [Cmds -> Servers]
    /\ NoConn \notin Conns
    /\ Conns \cap Servers = {}

\* The goroutines that run closeAgent: a handler, in Register or Unregister,
\* and the deletion of a server, in Disconnect.
Closers == Conns \cup Servers

ReplyTypes == {"ack", "nack", "ok", "fail"}
Outcomes == {"nack", "ok", "fail", "interrupted"}
Messages == [type : ReplyTypes, cmd : Cmds]

\* Handler states in which ServeWS is between Register and Unregister.
Serving == {"registering", "reading", "handling", "finishing", "reporting",
            "leaving"}
HoldsMessage == {"handling", "finishing", "reporting"}
InLoop == HoldsMessage \cup {"reading"}

VARIABLES
    rows,      \* servers that have a row in the database
    conns,     \* Hub.conns
    pending,   \* agentConn.pending
    closed,    \* agentConn.closed
    sock,      \* the socket as this side sees it; "lost": reading will fail
    hpc,       \* where each ServeWS call is
    hand,      \* the message a handler is working on
    found,     \* the agent Finish looked up
    victim,    \* the agent a goroutine is about to close
    ids,       \* what its closeAgent has still to report as interrupted
    dpc,       \* where the deletion of each server is
    spc,       \* where each send is
    chosen,    \* the agent Send looked up
    acked,     \* commands OnAck was told to be accepted
    outcome    \* history of the final callbacks of each command

connVars == <<conns, pending, closed, sock>>
handlerVars == <<hpc, hand, found>>
closeVars == <<victim, ids>>
sendVars == <<spc, chosen>>
reportVars == <<acked, outcome>>
vars == <<rows, connVars, handlerVars, closeVars, dpc, sendVars, reportVars>>

\* Types, and that no goroutine goes on with a nil agent or without a message.
TypeOK ==
    /\ rows \subseteq Servers
    /\ conns \in [Servers -> Conns \cup {NoConn}]
    /\ pending \in [Conns -> SUBSET Cmds]
    /\ closed \in [Conns -> BOOLEAN]
    /\ sock \in [Conns -> {"none", "up", "lost", "closed"}]
    /\ hpc \in [Conns -> Serving \cup {"idle", "authed", "closing", "done"}]
    /\ hand \in [Conns -> Messages \cup {NoMessage}]
    /\ found \in [Conns -> Conns \cup {NoConn}]
    /\ victim \in [Closers -> Conns \cup {NoConn}]
    /\ ids \in [Closers -> SUBSET Cmds]
    /\ dpc \in [Servers -> {"none", "deleted", "closing", "done", "failed"}]
    /\ spc \in [Cmds -> {"new", "chosen", "sent", "failed"}]
    /\ chosen \in [Cmds -> Conns \cup {NoConn}]
    /\ acked \subseteq Cmds
    /\ outcome \in [Cmds -> Seq(Outcomes)]
    /\ \A c \in Conns : hpc[c] \in HoldsMessage => hand[c] \in Messages
    /\ \A c \in Conns : hpc[c] \in {"finishing", "reporting"} =>
                          hand[c].type # "ack"
    /\ \A c \in Conns : hpc[c] = "finishing" => found[c] # NoConn
    /\ \A k \in Cmds : spc[k] \in {"chosen", "sent"} => chosen[k] # NoConn

Init ==
    /\ rows = Servers
    /\ conns = [s \in Servers |-> NoConn]
    /\ pending = [c \in Conns |-> {}]
    /\ closed = [c \in Conns |-> FALSE]
    /\ sock = [c \in Conns |-> "none"]
    /\ hpc = [c \in Conns |-> "idle"]
    /\ hand = [c \in Conns |-> NoMessage]
    /\ found = [c \in Conns |-> NoConn]
    /\ victim = [g \in Closers |-> NoConn]
    /\ ids = [g \in Closers |-> {}]
    /\ dpc = [s \in Servers |-> "none"]
    /\ spc = [k \in Cmds |-> "new"]
    /\ chosen = [k \in Cmds |-> NoConn]
    /\ acked = {}
    /\ outcome = [k \in Cmds |-> <<>>]

-----------------------------------------------------------------------------
(* closeAgent, by whichever goroutine holds a victim *)

CloserIdle(g) == victim[g] = NoConn /\ ids[g] = {}

\* Mutant: the pending set is cleared before its ids are copied.
NoIds(a) == {}
IdsOf(a) == pending[a]

\* Mutant: the socket is left to the handler's own deferred Close.
SocketLeft(a) == sock
SocketClosed(a) == [sock EXCEPT ![a] = "closed"]

\* The section under agent.mu: mark, close the socket, take the pending ids.
CloseAgent(g) ==
    /\ victim[g] # NoConn
    /\ closed' = [closed EXCEPT ![victim[g]] = TRUE]
    /\ sock' = SocketClosed(victim[g])
    /\ ids' = [ids EXCEPT ![g] = IdsOf(victim[g])]
    /\ pending' = [pending EXCEPT ![victim[g]] = {}]
    /\ victim' = [victim EXCEPT ![g] = NoConn]
    /\ UNCHANGED <<rows, conns, handlerVars, dpc, sendVars, reportVars>>

\* The loop after it: one OnInterrupted call per id, in map order (any).
Interrupt(g) ==
    \E k \in ids[g] :
        /\ outcome' = [outcome EXCEPT ![k] = Append(@, "interrupted")]
        /\ ids' = [ids EXCEPT ![g] = @ \ {k}]
        /\ UNCHANGED <<rows, connVars, handlerVars, victim, dpc, sendVars,
                       acked>>

-----------------------------------------------------------------------------
(* ServeWS *)

\* Mutant: the server is not looked for.
CheckNothing(c) == TRUE

\* Auth.CheckServer: the row is there.
CheckServer(c) == ConnServer[c] \in rows

\* The token is good and CheckServer finds the row.
Authenticate(c) ==
    /\ hpc[c] = "idle"
    /\ CheckServer(c)
    /\ hpc' = [hpc EXCEPT ![c] = "authed"]
    /\ UNCHANGED <<rows, connVars, hand, found, closeVars, dpc, sendVars,
                   reportVars>>

\* Authentication refuses (no row, or the database cannot be asked), or the
\* upgrade of the HTTP connection fails.
Refuse(c) ==
    /\ hpc[c] \in {"idle", "authed"}
    /\ hpc' = [hpc EXCEPT ![c] = "done"]
    /\ UNCHANGED <<rows, connVars, hand, found, closeVars, dpc, sendVars,
                   reportVars>>

\* Mutant: nobody closes the agent that is replaced.
Forgotten(c) == NoConn
Replaced(c) == conns[ConnServer[c]]

\* Upgrade, then Hub.Register up to h.mu.Unlock: the map entry is a fresh
\* agentConn, and the one it replaces is left for closeAgent.
Register(c) ==
    /\ hpc[c] = "authed"
    /\ victim' = [victim EXCEPT ![c] = Replaced(c)]
    /\ conns' = [conns EXCEPT ![ConnServer[c]] = c]
    /\ sock' = [sock EXCEPT ![c] = "up"]
    /\ hpc' = [hpc EXCEPT ![c] = "registering"]
    /\ UNCHANGED <<rows, pending, closed, hand, found, ids, dpc, sendVars,
                   reportVars>>

\* The second CheckServer, once Register has returned.
RecheckOk(c) ==
    /\ hpc[c] = "registering"
    /\ CloserIdle(c)
    /\ CheckServer(c)
    /\ hpc' = [hpc EXCEPT ![c] = "reading"]
    /\ UNCHANGED <<rows, connVars, hand, found, closeVars, dpc, sendVars,
                   reportVars>>

\* Mutant: Unregister is not deferred.
OnlyClose == "closing"
\* Where a return of ServeWS goes once Unregister is deferred.
Deferred == "leaving"

\* It fails when the row is gone or the database cannot be asked.
RecheckFail(c) ==
    /\ hpc[c] = "registering"
    /\ CloserIdle(c)
    /\ hpc' = [hpc EXCEPT ![c] = Deferred]
    /\ UNCHANGED <<rows, connVars, hand, found, closeVars, dpc, sendVars,
                   reportVars>>

\* ReadJSON and SetReadDeadline both succeed.  An agent can name any command
\* whose send has begun.
ReadMessage(c, m) ==
    /\ hpc[c] = "reading"
    /\ sock[c] = "up"
    /\ spc[m.cmd] # "new"
    /\ hand' = [hand EXCEPT ![c] = m]
    /\ hpc' = [hpc EXCEPT ![c] = "handling"]
    /\ UNCHANGED <<rows, connVars, found, closeVars, dpc, sendVars, reportVars>>

\* HandleAck with Accepted: OnAck, with no look at the pending set.
HandleAccept(c) ==
    /\ hpc[c] = "handling"
    /\ hand[c].type = "ack"
    /\ acked' = acked \cup {hand[c].cmd}
    /\ hand' = [hand EXCEPT ![c] = NoMessage]
    /\ hpc' = [hpc EXCEPT ![c] = "reading"]
    /\ UNCHANGED <<rows, connVars, found, closeVars, dpc, sendVars, outcome>>

\* Mutant: the agent is not compared with nil.
NeverNil(a) == FALSE
IsNil(a) == a = NoConn

\* HandleAck without Accepted, or HandleResult: Finish looks up the agent that
\* is registered now, whichever connection the message came on.
FinishLookup(c) ==
    /\ hpc[c] = "handling"
    /\ hand[c].type # "ack"
    /\ ~ IsNil(conns[ConnServer[c]])
    /\ hpc' = [hpc EXCEPT ![c] = "finishing"]
    /\ found' = [found EXCEPT ![c] = conns[ConnServer[c]]]
    /\ UNCHANGED <<rows, connVars, hand, closeVars, dpc, sendVars, reportVars>>

\* There is none: Finish returns false and the message is dropped.
FinishOffline(c) ==
    /\ hpc[c] = "handling"
    /\ hand[c].type # "ack"
    /\ IsNil(conns[ConnServer[c]])
    /\ hpc' = [hpc EXCEPT ![c] = "reading"]
    /\ hand' = [hand EXCEPT ![c] = NoMessage]
    /\ UNCHANGED <<rows, connVars, found, closeVars, dpc, sendVars, reportVars>>

\* Mutant: an id that is not pending any more is reported as well.
FoundAnyway(c) == TRUE
FoundPending(c) == hand[c].cmd \in pending[found[c]]

\* Finish under agent.mu: only the one who removes the id goes on to report.
FinishLocked(c) ==
    LET k == hand[c].cmd
        owned == FoundPending(c)
    IN  /\ hpc[c] = "finishing"
        /\ hpc' = [hpc EXCEPT ![c] = IF owned THEN "reporting" ELSE "reading"]
        /\ hand' = [hand EXCEPT ![c] = IF owned THEN @ ELSE NoMessage]
        /\ pending' = [pending EXCEPT ![found[c]] = @ \ {k}]
        /\ found' = [found EXCEPT ![c] = NoConn]
        /\ UNCHANGED <<rows, conns, closed, sock, closeVars, dpc, sendVars,
                       reportVars>>

\* OnAck (refused) or OnResult.
Report(c) ==
    /\ hpc[c] = "reporting"
    /\ outcome' = [outcome EXCEPT ![hand[c].cmd] = Append(@, hand[c].type)]
    /\ hand' = [hand EXCEPT ![c] = NoMessage]
    /\ hpc' = [hpc EXCEPT ![c] = "reading"]
    /\ UNCHANGED <<rows, connVars, found, closeVars, dpc, sendVars, acked>>

\* readLoop returns: the link is gone or another goroutine closed the socket.
ReadFail(c) ==
    /\ hpc[c] = "reading"
    /\ sock[c] # "up"
    /\ hpc' = [hpc EXCEPT ![c] = Deferred]
    /\ UNCHANGED <<rows, connVars, hand, found, closeVars, dpc, sendVars,
                   reportVars>>

\* Mutant: whatever connection is registered is taken for this one.
IsAnyone(c) == conns[ConnServer[c]] # NoConn
IsRegistered(c) == conns[ConnServer[c]] = c

\* Mutant: the agent is removed and not closed.
NotClosed(c) == NoConn
ToClose(c) == IF IsRegistered(c) THEN c ELSE NoConn

\* Hub.Unregister under h.mu: nothing, unless this connection is the one
\* registered.
Unregister(c) ==
    LET s == ConnServer[c]
    IN  /\ hpc[c] = "leaving"
        /\ conns' = [conns EXCEPT ![s] = IF IsRegistered(c) THEN NoConn ELSE @]
        /\ victim' = [victim EXCEPT ![c] = ToClose(c)]
        /\ hpc' = [hpc EXCEPT ![c] = "closing"]
        /\ UNCHANGED <<rows, pending, closed, sock, hand, found, ids, dpc,
                       sendVars, reportVars>>

\* The first deferred call, conn.Close, runs last.
HandlerReturn(c) ==
    /\ hpc[c] = "closing"
    /\ CloserIdle(c)
    /\ sock' = [sock EXCEPT ![c] = "closed"]
    /\ hpc' = [hpc EXCEPT ![c] = "done"]
    /\ UNCHANGED <<rows, conns, pending, closed, hand, found, closeVars, dpc,
                   sendVars, reportVars>>

\* Environment.
LinkLost(c) ==
    /\ sock[c] = "up"
    /\ sock' = [sock EXCEPT ![c] = "lost"]
    /\ UNCHANGED <<rows, conns, pending, closed, handlerVars, closeVars, dpc,
                   sendVars, reportVars>>

-----------------------------------------------------------------------------
(* Deletion of a server: the row first, then Hub.Disconnect *)

\* When the row is gone but the confirmation is lost, Delete returns the error
\* and does not disconnect; tried again, it finds no server and says so.
DeleteRow(s) ==
    /\ dpc[s] = "none"
    /\ rows' = rows \ {s}
    /\ \E d \in {"deleted", "failed"} : dpc' = [dpc EXCEPT ![s] = d]
    /\ UNCHANGED <<connVars, handlerVars, closeVars, sendVars, reportVars>>

Disconnect(s) ==
    /\ dpc[s] = "deleted"
    /\ victim' = [victim EXCEPT ![s] = conns[s]]
    /\ conns' = [conns EXCEPT ![s] = NoConn]
    /\ dpc' = [dpc EXCEPT ![s] = "closing"]
    /\ UNCHANGED <<rows, pending, closed, sock, handlerVars, ids, sendVars,
                   reportVars>>

DeleteReturn(s) ==
    /\ dpc[s] = "closing"
    /\ CloserIdle(s)
    /\ dpc' = [dpc EXCEPT ![s] = "done"]
    /\ UNCHANGED <<rows, connVars, handlerVars, closeVars, sendVars, reportVars>>

-----------------------------------------------------------------------------
(* Service.send *)

\* The read-locked lookup; without an agent the call fails at once.
SendLookup(k) ==
    /\ spc[k] = "new"
    /\ chosen' = [chosen EXCEPT ![k] = conns[CmdServer[k]]]
    /\ spc' = [spc EXCEPT ![k] =
                  IF conns[CmdServer[k]] = NoConn THEN "failed" ELSE "chosen"]
    /\ UNCHANGED <<rows, connVars, handlerVars, closeVars, dpc, reportVars>>

\* The agent was closed in the meantime.
SendRefused(k) ==
    /\ spc[k] = "chosen"
    /\ closed[chosen[k]]
    /\ spc' = [spc EXCEPT ![k] = "failed"]
    /\ UNCHANGED <<rows, connVars, handlerVars, closeVars, dpc, chosen,
                   reportVars>>

\* WriteJSON succeeds.  A link that is lost can still take the bytes.
SendWritten(k) ==
    /\ spc[k] = "chosen"
    /\ ~ closed[chosen[k]]
    /\ sock[chosen[k]] \in {"up", "lost"}
    /\ pending' = [pending EXCEPT ![chosen[k]] = @ \cup {k}]
    /\ spc' = [spc EXCEPT ![k] = "sent"]
    /\ UNCHANGED <<rows, conns, closed, sock, handlerVars, closeVars, dpc,
                   chosen, reportVars>>

\* Mutant: the id of a failed write stays pending.
LeftPending(k) == pending[chosen[k]] \cup {k}
TakenBack(k) == pending[chosen[k]] \ {k}

\* WriteJSON fails (the socket is gone, or 5 s passed): the id is taken back
\* and the socket closed, but the agent is not marked closed.
SendFailed(k) ==
    /\ spc[k] = "chosen"
    /\ ~ closed[chosen[k]]
    /\ pending' = [pending EXCEPT ![chosen[k]] = TakenBack(k)]
    /\ sock' = SocketClosed(chosen[k])
    /\ spc' = [spc EXCEPT ![k] = "failed"]
    /\ UNCHANGED <<rows, conns, closed, handlerVars, closeVars, dpc, chosen,
                   reportVars>>

-----------------------------------------------------------------------------

HandlerStep(c) ==
    \/ Register(c) \/ RecheckOk(c) \/ RecheckFail(c)
    \/ HandleAccept(c) \/ FinishLookup(c) \/ FinishOffline(c)
    \/ FinishLocked(c) \/ Report(c)
    \/ ReadFail(c) \/ Unregister(c) \/ HandlerReturn(c)

CloserStep(g) == CloseAgent(g) \/ Interrupt(g)

SendStep(k) == SendRefused(k) \/ SendWritten(k) \/ SendFailed(k)

\* Everything has come to rest: no connection is served or will be, no server
\* is being deleted, no command waits to be sent.
Terminated ==
    /\ \A c \in Conns : hpc[c] = "done"
    /\ \A s \in Servers : dpc[s] \in {"done", "failed"}
    /\ \A k \in Cmds : spc[k] \in {"sent", "failed"}
    /\ UNCHANGED vars

Next ==
    \/ \E c \in Conns :
        \/ Authenticate(c) \/ Refuse(c) \/ LinkLost(c)
        \/ \E m \in Messages : ReadMessage(c, m)
        \/ HandlerStep(c)
    \/ \E g \in Closers : CloserStep(g)
    \/ \E s \in Servers : DeleteRow(s) \/ Disconnect(s) \/ DeleteReturn(s)
    \/ \E k \in Cmds : SendLookup(k) \/ SendStep(k)
    \/ Terminated

Spec == Init /\ [][Next]_vars

\* A goroutine that can run will: nothing in the hub waits for an agent, for
\* a client or for the administrator.  What those do is not fair.
Fairness ==
    /\ \A c \in Conns : WF_vars(HandlerStep(c))
    /\ \A g \in Closers : WF_vars(CloserStep(g))
    /\ \A s \in Servers : WF_vars(Disconnect(s) \/ DeleteReturn(s))
    /\ \A k \in Cmds : WF_vars(SendStep(k))

FairSpec == Spec /\ Fairness
-----------------------------------------------------------------------------
(* Properties *)

Outstanding(k) == spc[k] = "sent" /\ outcome[k] = <<>>

\* A command gets at most one final callback: a result, a refusal and an
\* interruption of one command exclude each other, although a result may be
\* handled on one connection while another goroutine closes the agent.
AtMostOneOutcome == \A k \in Cmds : Len(outcome[k]) <= 1

\* A command whose Send succeeded is never forgotten: until its one final
\* callback ran, it is pending at an agent, in the list closeAgent works off,
\* or in the hands of the handler that took it out of the pending set.
CommandNeverLost ==
    \A k \in Cmds : Outstanding(k) =>
        \/ \E c \in Conns : k \in pending[c]
        \/ \E g \in Closers : k \in ids[g]
        \/ \E c \in Conns : hpc[c] = "reporting" /\ hand[c].cmd = k

\* The caller of a Send that returned an error is not called back later.
FailedSendStaysSilent ==
    \A k \in Cmds : spc[k] # "sent" => outcome[k] = <<>>

\* A pending command has somebody who will settle it: its agent is still
\* registered, or a goroutine is on its way into closeAgent for it.  Send
\* looks its agent up before it locks it, so this rests on agent.closed.
NoStrandedCommand ==
    \A c \in Conns : pending[c] # {} =>
        /\ ~ closed[c]
        /\ \/ conns[ConnServer[c]] = c
           \/ \E g \in Closers : victim[g] = c

\* IsOnline tells the truth about handlers: the agent registered for a server
\* belongs to a ServeWS call for that server that has still to unregister.
NoGhostOnline ==
    \A s \in Servers : conns[s] # NoConn =>
        ConnServer[conns[s]] = s /\ hpc[conns[s]] \in Serving

\* When the deletion of a server has succeeded, no message of its agent is
\* handled any more, but for those of a connection already closed or about to
\* be.  A connection that registers around the deletion is caught by the
\* second CheckServer or by Disconnect.
DeletedServerHasNoLiveAgent ==
    \A c \in Conns : dpc[ConnServer[c]] = "done" /\ hpc[c] \in InLoop =>
        closed[c] \/ \E g \in Closers : victim[g] = c

\* An old connection that leaves late does not take the new one off line:
\* entries of Hub.conns appear by a registration and disappear only when their
\* own handler leaves or the server is deleted.
OnlyOwnerUnregisters ==
    [][\A s \in Servers : conns'[s] # conns[s] =>
        IF conns'[s] = NoConn
        THEN dpc[s] = "deleted" \/ hpc[conns[s]] = "leaving"
        ELSE hpc[conns'[s]] = "authed"]_vars

\* A server that Delete knows to be deleted is off line for good, whoever was
\* connecting.
DeletedGoesOffline ==
    \A s \in Servers : dpc[s] = "deleted" ~> [](conns[s] = NoConn)

\* What the callers of the service rely on: see CommandContract.
StatusOf == [k \in Cmds |-> IF spc[k] = "chosen" THEN "new" ELSE spc[k]]
BrokenOf == {k \in Cmds : spc[k] = "sent" /\ sock[chosen[k]] # "up"}

Contract == INSTANCE CommandContract
            WITH status <- StatusOf, told <- outcome, broken <- BrokenOf

\* Every step of the hub is a step the contract allows.
KeepsContract == Contract!Spec

\* And it keeps the promise of an outcome: a command whose link broke, or whose
\* agent was replaced or removed, does get its one final callback.
SettlesBrokenCommands == Contract!FairSpec
=============================================================================
