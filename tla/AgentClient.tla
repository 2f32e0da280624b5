----------------------------- MODULE AgentClient -----------------------------
(***************************************************************************)
(* The agent on a game server: internal/agent_client and cmd/agent.        *)
(* Client.Start dials the panel again and again, one session after the     *)
(* other; each session has a goroutine that reads commands and one that    *)
(* sends heartbeats; every command gets a goroutine of its own, which      *)
(* outlives the session it came on, answers on that session only, and      *)
(* shares one Executor, whose mutex is only ever tried.                    *)
(*                                                                         *)
(* in and out hold what is under way on a session in either direction, in  *)
(* the order it was written (writeMu makes each write whole).  Left out:   *)
(* log lines and heartbeats that are sent, token files, and what dst.sh    *)
(* does, of which only the exit status matters here.                       *)
(***************************************************************************)
EXTENDS Naturals, FiniteSets, Sequences

CONSTANTS
    Conns,         \* one per connectAndServe call, with its own socket
    Cmds,          \* command ids
    NoConn,        \* no session
    NoCmd,         \* nobody holds Executor.mu
    MaxRestarts    \* bound: how often the process is killed and started again

ASSUME ClientAssumption ==
    /\ NoConn \notin Conns
    /\ NoCmd \notin Cmds
    /\ MaxRestarts \in Nat

Answers == {"nack", "ok", "fail"}
Replies == [type : Answers \cup {"ack"}, cmd : Cmds]

VARIABLES
    cur,        \* the session Start is in, if any
    link,       \* its socket, as this side sees it; "mute": no write succeeds
    in,         \* commands on their way to the agent
    out,        \* replies on their way to the panel
    job,        \* where each command's goroutine is
    via,        \* the session a command came on
    lock,       \* Executor.mu
    verdict,    \* what Execute returned
    ended,      \* commands whose script ran to a good end
    restarts    \* how often the process was started again

sessionVars == <<cur, link>>
jobVars == <<job, via, lock, verdict, ended>>
clientVars == <<sessionVars, in, out, jobVars, restarts>>

Active == {"acking", "starting", "running", "reporting"}

ClientTypeOK ==
    /\ cur \in Conns \cup {NoConn}
    /\ link \in [Conns -> {"none", "dialing", "up", "mute", "closed"}]
    /\ in \in [Conns -> Seq(Cmds)]
    /\ out \in [Conns -> Seq(Replies)]
    /\ job \in [Cmds -> Active \cup {"none", "rejected", "done", "dead"}]
    /\ via \in [Cmds -> Conns \cup {NoConn}]
    /\ lock \in Cmds \cup {NoCmd}
    /\ verdict \in [Cmds -> {"none", "ok", "fail"}]
    /\ ended \subseteq Cmds
    /\ restarts \in 0..MaxRestarts

ClientInit ==
    /\ cur = NoConn
    /\ link = [c \in Conns |-> "none"]
    /\ in = [c \in Conns |-> <<>>]
    /\ out = [c \in Conns |-> <<>>]
    /\ job = [k \in Cmds |-> "none"]
    /\ via = [k \in Cmds |-> NoConn]
    /\ lock = NoCmd
    /\ verdict = [k \in Cmds |-> "none"]
    /\ ended = {}
    /\ restarts = 0

-----------------------------------------------------------------------------
(* Sessions *)

\* Start's loop: one dial at a time, after ReconnectInterval.
Dial(c) ==
    /\ cur = NoConn
    /\ link[c] = "none"
    /\ cur' = c
    /\ link' = [link EXCEPT ![c] = "dialing"]
    /\ UNCHANGED <<in, out, jobVars, restarts>>

\* The panel has accepted the upgrade; the two loops start.
DialOk(c) ==
    /\ link[c] = "dialing"
    /\ link' = [link EXCEPT ![c] = "up"]
    /\ UNCHANGED <<cur, in, out, jobVars, restarts>>

\* Refused, or ConnectTimeout.
DialFail(c) ==
    /\ link[c] = "dialing"
    /\ link' = [link EXCEPT ![c] = "closed"]
    /\ in' = [in EXCEPT ![c] = <<>>]
    /\ cur' = NoConn
    /\ UNCHANGED <<out, jobVars, restarts>>

\* What was received before the socket was closed can still be read: readLoop,
\* unlike the panel's, sets no deadline that would fail.
Readable(c) == link[c] \in {"up", "mute", "closed"}

\* The first of readLoop and heartbeatLoop to fail ends connectAndServe, which
\* closes the socket: a command's goroutine has closed it, the panel or the
\* network has ended the connection, or a heartbeat cannot be written.
EndSession(c) ==
    /\ cur = c
    /\ Readable(c)
    /\ link' = [link EXCEPT ![c] = "closed"]
    /\ cur' = NoConn
    /\ UNCHANGED <<in, out, jobVars, restarts>>

\* The process is killed and started again: nothing survives but the token
\* file.  (What a killed script does to the machine is not modelled.)
Restart ==
    /\ restarts < MaxRestarts
    /\ restarts' = restarts + 1
    /\ cur' = NoConn
    /\ link' = [c \in Conns |-> IF link[c] = "none" THEN "none" ELSE "closed"]
    /\ in' = [c \in Conns |-> <<>>]
    /\ job' = [k \in Cmds |-> IF job[k] \in Active THEN "dead" ELSE job[k]]
    /\ lock' = NoCmd
    /\ UNCHANGED <<out, via, verdict, ended>>

-----------------------------------------------------------------------------
(* readLoop *)

\* A command is read and a goroutine started for it: from here on the order in
\* which commands came no longer counts.
ReceiveCommand(c) ==
    /\ Readable(c)
    /\ in[c] # <<>>
    /\ LET k == Head(in[c])
       IN  /\ job' = [job EXCEPT ![k] = "acking"]
           /\ via' = [via EXCEPT ![k] = c]
    /\ in' = [in EXCEPT ![c] = Tail(@)]
    /\ UNCHANGED <<sessionVars, out, lock, verdict, ended, restarts>>

\* The payload cannot be decoded: a refusal, and an error in sending it is
\* ignored.  No later write on that socket succeeds, and the next heartbeat
\* finds out.
RejectCommand(c) ==
    /\ Readable(c)
    /\ in[c] # <<>>
    /\ LET k == Head(in[c])
       IN  /\ job' = [job EXCEPT ![k] = "rejected"]
           /\ via' = [via EXCEPT ![k] = c]
           /\ \/ /\ link[c] = "up"
                 /\ out' = [out EXCEPT ![c] =
                               Append(@, [type |-> "nack", cmd |-> k])]
                 /\ UNCHANGED link
              \/ /\ link' = [link EXCEPT ![c] =
                               IF @ = "up" THEN "mute" ELSE @]
                 /\ UNCHANGED out
    /\ in' = [in EXCEPT ![c] = Tail(@)]
    /\ UNCHANGED <<cur, lock, verdict, ended, restarts>>

-----------------------------------------------------------------------------
(* handleCommand and Executor.Execute *)

\* Mutant: a reply that cannot be sent leaves the socket open.
StaysOpen(c) == link
HangUp(c) == [link EXCEPT ![c] = "closed"]

\* Mutant: a reply goes to the session that is current when it is written.
CurrentSession(k) == IF cur = NoConn THEN via[k] ELSE cur
OwnSession(k) == via[k]

\* A reply is written whole, or the write fails and the caller hangs up.
Written(k, type) ==
    LET c == OwnSession(k)
    IN  /\ link[c] = "up"
        /\ out' = [out EXCEPT ![c] = Append(@, [type |-> type, cmd |-> k])]
        /\ UNCHANGED link

NotWritten(k) ==
    /\ link' = HangUp(OwnSession(k))
    /\ UNCHANGED out

\* The command is executed whether or not its acknowledgement went out.
SendAck(k) ==
    /\ job[k] = "acking"
    /\ Written(k, "ack") \/ NotWritten(k)
    /\ job' = [job EXCEPT ![k] = "starting"]
    /\ UNCHANGED <<cur, in, via, lock, verdict, ended, restarts>>

LockFree == lock = NoCmd

TryLock(k) ==
    /\ job[k] = "starting"
    /\ LockFree
    /\ lock' = k
    /\ job' = [job EXCEPT ![k] = "running"]
    /\ UNCHANGED <<sessionVars, in, out, via, verdict, ended, restarts>>

\* Another task is being executed: a failure at once, nothing is queued.
Busy(k) ==
    /\ job[k] = "starting"
    /\ ~ LockFree
    /\ verdict' = [verdict EXCEPT ![k] = "fail"]
    /\ job' = [job EXCEPT ![k] = "reporting"]
    /\ UNCHANGED <<sessionVars, in, out, via, lock, ended, restarts>>

\* Mutant: Execute returns without its deferred Unlock.
StillLocked == lock
Unlocked == NoCmd

\* Mutant: every script that ended counts as a success.
AnyExit(good) == "ok"
VerdictOf(good) == IF good THEN "ok" ELSE "fail"

\* Execute returns, and the deferred Unlock runs.  The script ended with a
\* status that counts as a success, or it failed, could not be started, was asked for
\* an unknown action, or was killed after ExecTimeout.
ScriptExit(k) ==
    /\ job[k] = "running"
    /\ \E good \in BOOLEAN :
        /\ verdict' = [verdict EXCEPT ![k] = VerdictOf(good)]
        /\ ended' = IF good THEN ended \cup {k} ELSE ended
    /\ lock' = Unlocked
    /\ job' = [job EXCEPT ![k] = "reporting"]
    /\ UNCHANGED <<sessionVars, in, out, via, restarts>>

\* A log line cannot be sent: the first such error hangs up, the script goes on.
LogFail(k) ==
    /\ job[k] = "running"
    /\ link[via[k]] # "closed"
    /\ link' = HangUp(via[k])
    /\ UNCHANGED <<cur, in, out, jobVars, restarts>>

SendResult(k) ==
    /\ job[k] = "reporting"
    /\ Written(k, verdict[k]) \/ NotWritten(k)
    /\ job' = [job EXCEPT ![k] = "done"]
    /\ UNCHANGED <<cur, in, via, lock, verdict, ended, restarts>>

JobStep(k) ==
    \/ SendAck(k) \/ TryLock(k) \/ Busy(k) \/ ScriptExit(k) \/ SendResult(k)
=============================================================================
